-------------------------- MODULE MCConfigRollout ---------------------------
(***************************************************************************)
(* Instances of ConfigRollout for TLC.  Agents a1 and a2 select groups g1  *)
(* and g2 when they are not assigned, so neither agents nor groups are     *)
(* interchangeable; requests are, and so are contents of one file each.    *)
(***************************************************************************)
EXTENDS ConfigRollout, TLC

CONSTANTS a1, a2, g1, g2, c1, c2, n1, n2

SelectedDef == [a \in Agents |-> IF a = a1 THEN g1 ELSE g2]

\* All configurations have one file, or the second lacks one of the first.
OneFile == [c \in Contents |-> {n1}]
TwoFiles == [c \in Contents |-> IF c = c1 THEN {n1, n2} ELSE {n1}]

Symmetry == Permutations(Threads) \cup Permutations(Contents)
=============================================================================
