---------------------------- MODULE MCSessions ----------------------------
(* Instances of Sessions for TLC. *)
EXTENDS Sessions, TLC

\* Devices are alike, and so are the places a request may run in.
Alike == Permutations(Clients) \cup Permutations(Slots)
=============================================================================
