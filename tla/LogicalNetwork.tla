--------------------------- MODULE LogicalNetwork ---------------------------
(***************************************************************************)
(* What the virtual network promises to those who use it, whichever        *)
(* chassis, tunnels and tables are in between: a message reaches one of    *)
(* the ports it is meant for or is lost; nobody else gets it, nobody gets  *)
(* it twice, and it does not stay in the network for ever.                 *)
(***************************************************************************)
CONSTANTS Message, NoMessage, Recipients(_), Nobody

VARIABLES msg, result

vars == <<msg, result>>

Init == msg = NoMessage /\ result = NoMessage

Send == /\ msg = NoMessage
        /\ msg' \in Message /\ result' = NoMessage

Settle == /\ msg # NoMessage /\ result = NoMessage
          /\ result' \in Recipients(msg) \cup {Nobody}
          /\ UNCHANGED msg

Forget == /\ result # NoMessage
          /\ msg' = NoMessage /\ result' = NoMessage

Next == Send \/ Settle \/ Forget

EveryMessageEnds == msg # NoMessage ~> result # NoMessage

Spec == Init /\ [][Next]_vars /\ EveryMessageEnds
=============================================================================
