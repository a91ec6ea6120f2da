----------------------------- MODULE MCHostLink -----------------------------
(* HostLink on small instances.                                             *)
EXTENDS HostLink, TLC

MCSymmetry == Permutations(Sessions)
=============================================================================
