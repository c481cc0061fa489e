----------------------------- MODULE SidLedger -----------------------------
(* What the server's packet history promises, without lists, list order or   *)
(* destinations: one ledger per peer that maps a sid to the packet that used *)
(* it last.  Sending takes a sid above all that were used and so only adds;  *)
(* receiving writes under the sid the peer chose; closing the account's      *)
(* connection forgets its ledger as a whole.                                 *)
EXTENDS Integers

CONSTANTS Ids, Packets, SidSpace

VARIABLE ledger    \* peer -> (sid -> [packet, direction])

Ledger(d) == IF d \in DOMAIN ledger THEN ledger[d] ELSE <<>>

Put(book, sid, record) ==
    [s \in DOMAIN book \cup {sid} |-> IF s = sid THEN record ELSE book[s]]

Init == ledger = <<>>

\* One packet is numbered for each peer of a set, in each ledger separately.
Allocate(peers, p) ==
    /\ DOMAIN ledger' = DOMAIN ledger \cup peers
    /\ \A d \in peers : \E sid \in SidSpace :
          /\ \A used \in DOMAIN Ledger(d) : used < sid
          /\ ledger'[d] = Put(Ledger(d), sid, [packet |-> p, direction |-> "sent"])
    /\ \A d \in DOMAIN ledger \ peers : ledger'[d] = ledger[d]

Receive(d, sid, p) ==
    ledger' = [c \in DOMAIN ledger \cup {d} |->
                 IF c = d
                 THEN Put(Ledger(d), sid, [packet |-> p, direction |-> "received"])
                 ELSE ledger[c]]

Forget(d) == ledger' = [c \in DOMAIN ledger \ {d} |-> ledger[c]]

Next ==
    \/ \E d \in Ids : Forget(d)
    \/ \E d \in Ids, sid \in SidSpace, p \in Packets : Receive(d, sid, p)
    \/ \E peers \in SUBSET Ids, p \in Packets : Allocate(peers, p)

Spec == Init /\ [][Next]_ledger
=============================================================================
