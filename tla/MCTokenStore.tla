---------------------------- MODULE MCTokenStore ----------------------------
(* Instances of TokenStore for TLC. *)
EXTENDS TokenStore, TLC

\* Processes and tokens are interchangeable.
Symmetric == Permutations(Procs) \cup Permutations(Tokens)
=============================================================================
