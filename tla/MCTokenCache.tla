---------------------------- MODULE MCTokenCache ----------------------------
(* The instance of TokenCache for TLC: expires_in may be negative, which    *)
(* MinTTL answers, or larger than any time of the model.                    *)
EXTENDS TokenCache

OddDef == {-1, 9}
=============================================================================
