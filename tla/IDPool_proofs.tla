---- MODULE IDPool_proofs ----
(***************************************************************************)
(* Proof that the pool the controllers implement is one: nobody holds an   *)
(* identifier that another holds, for any names and identifiers.           *)
(***************************************************************************)
EXTENDS IDPool, TLAPS

HeldFunction == held = [n \in Names |-> held[n]]

\* No identifier of the pool (a device ID, an address of a switch) is held
\* twice: what the datapath takes for granted when it matches on the number.
THEOREM NeverTwice == Spec => []Exclusive
  <1> DEFINE I == HeldFunction /\ Exclusive
  <1>1. Init => I
    BY DEF Init, HeldFunction, Exclusive
  <1>2. I /\ [Next]_held => I'
    <2> SUFFICES ASSUME HeldFunction, Exclusive, [Next]_held PROVE I'
      OBVIOUS
    <2>1. CASE UNCHANGED held
      BY <2>1 DEF HeldFunction, Exclusive
    <2>2. ASSUME NEW n \in Names, Acquire(n) PROVE I'
      <3>1. PICK i \in Ids \ Taken : held' = [held EXCEPT ![n] = {i}]
        BY <2>2 DEF Acquire
      <3>2. \A m \in Names : i \notin held[m]
        BY DEF Taken
      <3>3. held'[n] = {i} /\ \A m \in Names : m # n => held'[m] = held[m]
        BY <3>1 DEF HeldFunction
      <3>4. Exclusive'
        BY <3>2, <3>3 DEF Exclusive
      <3>5. QED
        BY <3>1, <3>4 DEF HeldFunction
    <2>3. ASSUME NEW S \in SUBSET Names, Release(S) PROVE I'
      <3>1. \A m \in Names : held'[m] \subseteq held[m]
        BY <2>3 DEF Release
      <3>2. QED
        BY <2>3, <3>1 DEF Release, HeldFunction, Exclusive
    <2>4. QED
      BY <2>1, <2>2, <2>3 DEF Next
  <1>3. QED
    BY <1>1, <1>2, PTL DEF Spec
====
