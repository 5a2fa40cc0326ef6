----------------------------- MODULE MCTalkLog -----------------------------
(* Two session names that sanitise to one file name, and one of another. *)
EXTENDS TalkLog, TLC

CONSTANTS s1, s2, s3, f1, f2

SafeNames == s1 :> f1 @@ s2 :> f1 @@ s3 :> f2
=============================================================================
