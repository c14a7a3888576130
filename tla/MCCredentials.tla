--------------------------- MODULE MCCredentials ---------------------------
(* Instances of Credentials for TLC. *)
EXTENDS Credentials, TLC

\* The factor and the reset code meet only in the deletion of the account.
Halves == {{"login", "refresh", "challenge", "secure", "logout", "delete"},
           {"reset", "confirm", "delete"}}

\* The workers are alike.
Alike == Permutations(Workers)
=============================================================================
