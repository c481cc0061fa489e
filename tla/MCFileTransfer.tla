---- MODULE MCFileTransfer ----
(* Two transfers: every way in which their ends can meet, up to the names of  *)
(* the accounts.                                                              *)
EXTENDS FileTransfer

CONSTANTS one, two, s, t

Job(from, to, name) == [from |-> from, to |-> to, name |-> name, path |-> name]

Two(first, second) == s :> first @@ t :> second

Meetings ==
    { Two(Job(one, Server, s), Job(two, Server, s)),
      Two(Job(one, Server, s), Job(one, two, t)),
      Two(Job(one, two, s),    Job(two, one, t)),
      Two(Job(Server, one, s), Job(Server, two, s)),
      Two(Job(one, two, s),    Job(Server, two, s)),
      Two(Job(one, All, s),    Job(Server, two, t)),
      Two(Job(one, Server, s), Job(Server, All, t)) }
====
