---------------------------- MODULE TokenLedger -----------------------------
(***************************************************************************)
(* What the token store promises the server and the command line, with no   *)
(* file, lock or process step in sight: an operation takes effect at one    *)
(* instant, on one set of records, between its call and its return; a       *)
(* listing shows these records or none; a fault loses all of them or none.  *)
(* When a token expires is not in the ledger.                               *)
(***************************************************************************)
CONSTANTS Procs, Tokens, None

VARIABLES
    ledger,   \* ledger[t]: the state of the token's record
    applied,  \* applied[p]: the operation of p that took effect and has not returned
    granted,  \* the operations that have returned Ok, with their token
    shown,    \* the tokens the last listing printed
    faulty    \* a process died or a write failed

vars == <<ledger, applied, granted, shown, faulty>>

NoRecords == [t \in Tokens |-> "absent"]
NoOp == [kind |-> "none", token |-> None, right |-> FALSE]
Ops == [kind : {"mint", "delete", "redeem", "verify"}, token : Tokens, right : BOOLEAN]

Init ==
    /\ ledger = NoRecords
    /\ applied = [p \in Procs |-> NoOp]
    /\ granted = {}
    /\ shown = {}
    /\ faulty = FALSE

\* What an operation that succeeds finds and leaves: the secret of a token is spent
\* once, a credential is good while the token is bound, a delete is for good.
Moves(kind) ==
    CASE kind = "mint"   -> {<<"absent", "unused">>}
      [] kind = "redeem" -> {<<"unused", "bound">>}
      [] kind = "verify" -> {<<"bound", "bound">>}
      [] kind = "delete" -> {<<"unused", "invalidated">>, <<"bound", "revoked">>,
                             <<"revoked", "invalidated">>, <<"invalidated", "invalidated">>}

Apply(p, o) ==
    /\ applied[p] = NoOp
    /\ o.kind \in {"redeem", "verify"} => o.right
    /\ \E m \in Moves(o.kind) :
          ledger[o.token] = m[1] /\ ledger' = [ledger EXCEPT ![o.token] = m[2]]
    /\ applied' = [applied EXCEPT ![p] = o]
    /\ UNCHANGED <<granted, shown, faulty>>

Report(p) ==
    /\ applied[p] # NoOp
    /\ granted' = granted \cup {<<applied[p].kind, applied[p].token>>}
    /\ applied' = [applied EXCEPT ![p] = NoOp]
    /\ UNCHANGED <<ledger, shown, faulty>>

\* An operation fails or dies: it may have taken effect all the same, and the
\* records may be lost.
Fault(p) ==
    /\ faulty' = TRUE
    /\ ledger' \in {ledger, NoRecords}
    /\ applied' = [applied EXCEPT ![p] = NoOp]
    /\ UNCHANGED <<granted, shown>>

Show ==
    /\ shown' \in {{}, {t \in Tokens : ledger[t] # "absent"}}
    /\ UNCHANGED <<ledger, applied, granted, faulty>>

Next ==
    \/ \E p \in Procs : Report(p) \/ Fault(p) \/ \E o \in Ops : Apply(p, o)
    \/ Show

Spec == Init /\ [][Next]_vars
=============================================================================
