---------------------------- MODULE MCDomainSync ----------------------------
(* DomainSync for TLC.  Requests differ in nothing but their names, and the *)
(* run checks no liveness, only invariants and the steps of a refinement    *)
(* that names no request, so states may be compared up to a permutation of  *)
(* requests.                                                                *)
EXTENDS DomainSync, TLC

RequestSymmetry == Permutations(Users)
=============================================================================
