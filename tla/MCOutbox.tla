------------------------------ MODULE MCOutbox ------------------------------
(* Instances of Outbox for TLC: which kinds of thing are written, and what *)
(* the server already has of them.                                         *)
EXTENDS Outbox, TLC

EventsAndTags == {"event", "tag"}

\* One event, and the category every account has; tags only when created here.
KnownEvent ==
  [e \in AllEntities |-> IF e \in {"event", "category"} THEN {1} ELSE {}]

\* A base is compared, never looked into.
BaseSymmetry == Permutations(Bases)
=============================================================================
