---------------------------- MODULE MCEventSync ----------------------------
(* Instances of EventSync for TLC.                                         *)
EXTENDS EventSync

OneEvent == [e \in AllEntities |-> IF e = "event" THEN {1} ELSE {}]
AllContents == Contents
=============================================================================
