----------------------------- MODULE TokenLife -----------------------------
(***************************************************************************)
(* What the session store promises about one refresh token, without its    *)
(* keys and its commands (homl-web/docs/auth-flows.md, "Details worth      *)
(* knowing"): a token is handed out once, is exchanged by one request at a *)
(* time, may be exchanged again while that exchange is pending, and once   *)
(* dead is dead for good.  Sessions is shown to implement it.              *)
(***************************************************************************)
CONSTANT Tokens

VARIABLE st \* token -> its stage

Stages == {"fresh", "live", "claimed", "pending", "dead"}

LifeTypeOK == st \in [Tokens -> Stages]

LifeInit == st = [t \in Tokens |-> "fresh"]

\* A token nobody had is handed out with a new pair.
Issue(t) == st[t] = "fresh" /\ st' = [st EXCEPT ![t] = "live"]

\* A refresh takes the token for itself: for the first time, or to replay the
\* exchange whose answer was lost.
Claim(t) == st[t] \in {"live", "pending"} /\ st' = [st EXCEPT ![t] = "claimed"]

\* The refresh that took the token has named the pair that replaces it.
Retire(t) == st[t] = "claimed" /\ st' = [st EXCEPT ![t] = "pending"]

\* Settled, revoked, or lost with the request that had claimed it.
Kill(S) == /\ \A t \in S : st[t] # "fresh"
           /\ st' = [t \in Tokens |-> IF t \in S THEN "dead" ELSE st[t]]

LifeNext == \/ \E t \in Tokens : Issue(t) \/ Claim(t) \/ Retire(t)
            \/ \E S \in SUBSET Tokens : Kill(S)

LifeSpec == LifeInit /\ [][LifeNext]_st
=============================================================================
