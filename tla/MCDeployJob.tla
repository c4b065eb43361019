----------------------------- MODULE MCDeployJob -----------------------------
(* DeployJob with more hosts than slots.  The run also checks liveness, so  *)
(* it does not reduce by the permutations of the hosts.                     *)
EXTENDS DeployJob, TLC
=============================================================================
