---- MODULE IDPool ----
(***************************************************************************)
(* What the device-ID bitmap of the Go controllers promises: every device  *)
(* holds at most one identifier and no two devices hold the same one,      *)
(* however many tpctl, REST, CNI and docker-plugin processes allocate and  *)
(* return identifiers at once.  The datapath identifies a logical switch   *)
(* or router by this number alone.                                         *)
(***************************************************************************)
EXTENDS Integers

CONSTANTS Names,   \* who may hold an identifier
          Ids      \* the identifiers

VARIABLE held      \* held[n]: the set of identifiers n holds

Taken == UNION {held[n] : n \in Names}

Init == /\ held \in [Names -> {S \in SUBSET Ids : \A i, j \in S : i = j}]
        /\ \A m, n \in Names : m # n => held[m] \cap held[n] = {}

\* A name that holds nothing takes an identifier that nobody holds.
Acquire(n) == /\ held[n] = {}
              /\ \E i \in Ids \ Taken : held' = [held EXCEPT ![n] = {i}]

\* Names give their identifiers back, several at once when a device is
\* deleted with all its ports.
Release(S) == held' = [n \in Names |-> IF n \in S THEN {} ELSE held[n]]

Next == \/ \E n \in Names : Acquire(n)
        \/ \E S \in SUBSET Names : Release(S)

Spec == Init /\ [][Next]_held

\* No two names hold the same identifier.
Exclusive == \A m, n \in Names : m # n => held[m] \cap held[n] = {}
====
