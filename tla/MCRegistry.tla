----------------------------- MODULE MCRegistry -----------------------------
(* Instances of Registry for TLC. *)
EXTENDS Registry, TLC

\* Tokens, connections, calls and sessions are interchangeable.
Symmetric ==
    Permutations(Tokens) \cup Permutations(Conns) \cup Permutations(Calls)
        \cup Permutations(Sessions)

TalkKinds == {"prompt", "interrupt"}
=============================================================================
