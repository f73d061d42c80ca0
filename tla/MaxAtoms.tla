------------------------------ MODULE MaxAtoms ------------------------------
(***************************************************************************)
(* What the objects make of the atoms Max hands them: one of a websocket-  *)
(* server object, the messages of a websocketclient object and an          *)
(* iiwa_move object is there.                                              *)
(***************************************************************************)
EXTENDS MovementState, ServerObject, MaxMessage

VARIABLE object     \* the one that is there

vars == <<object, movementVars, serverVars, messageVars>>

\* The numbers around the ends of a port and of an int, and some symbols.
SomeLongs == {-5, -4, 0, 1, 3, 4, 9}
SomeAtoms == {Long(n) : n \in Longs} \cup {Float(2), Float(3), Other} \cup
             {Symbol(s) : s \in Symbols}
SomeArrays == {<<>>, <<Float(3)>>, <<Float(2), Float(4)>>} \cup
              {<<Long(1), Long(n)>> : n \in Longs}

Init ==
    /\ object \in {"websocketserver", "websocketclient", "iiwa_move"}
    /\ MovementInit /\ ServerInit /\ MessageInit

Next ==
    \/ /\ object = "websocketserver" /\ ServerNext
       /\ UNCHANGED <<object, movementVars, messageVars>>
    \/ /\ object = "websocketclient" /\ MessageNext
       /\ UNCHANGED <<object, movementVars, serverVars>>
    \/ /\ object = "iiwa_move" /\ MovementNext
       /\ UNCHANGED <<object, serverVars, messageVars>>

FairSpec == Init /\ [][Next]_vars /\ ServerFairness
=============================================================================
