-------------------------- MODULE MCRepoOperation --------------------------
(* RepoOperation for TLC.  One reservation object per goroutine is enough: *)
(* a goroutine refers to at most one, so a fresh one always exists.        *)
EXTENDS RepoOperation, FiniteSets, Naturals

ASSUME EnoughStates == Cardinality(States) >= Cardinality(Ops)
=============================================================================
