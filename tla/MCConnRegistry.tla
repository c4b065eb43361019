--------------------------- MODULE MCConnRegistry ---------------------------
(* The instance of ConnRegistry for TLC.  Its run checks liveness as well,  *)
(* so it is not reduced by the symmetry of connections and UIDs.            *)
EXTENDS ConnRegistry
=============================================================================
