----------------------------- MODULE TokenStore -----------------------------
(***************************************************************************)
(* tokens.json and the processes that share it: `holler-server serve` (join *)
(* and auth) and any number of CLI invocations.  Every mutating operation   *)
(* is one load-modify-save cycle under an advisory lock on a sibling file;  *)
(* `list` and `ping` load without it.  fs::write is what it is: the file is *)
(* truncated, then filled, and the process may die or the disk may fail at  *)
(* any point in between.                                                    *)
(***************************************************************************)
EXTENDS Naturals

CONSTANTS
    Procs,      \* operations in flight: a CLI process, or a task of the server
    Tokens,     \* token ids
    MaxFaults,  \* bound: crashes and failed writes
    None        \* no process

ASSUME StoreAssumption == None \notin Procs /\ MaxFaults \in Nat

VARIABLES
    shape,    \* what the file holds: nothing (or no file), a torn prefix, or all of it
    recs,     \* the records the file held when it was last whole
    expired,  \* the tokens whose `expires` has passed
    lock,     \* the process holding the lock on the lock file
    pc,       \* pc[p]: where process p is in its operation
    op,       \* op[p]: its operation, token, and whether the secret it presents is right
    loaded,   \* loaded[p]: the records it loaded
    drawn,    \* the token ids mints have drawn
    granted,  \* the operations that have returned Ok, with their token
    shown,    \* the tokens the last `list` printed
    faults    \* crashes and failed writes so far

vars == <<shape, recs, expired, lock, pc, op, loaded, drawn, granted, shown, faults>>

-----------------------------------------------------------------------------
(* Records *)

\* StoredState, and "absent" for an id with no record.
States == {"absent", "unused", "bound", "invalidated", "revoked"}
Records == [Tokens -> States]
NoRecords == [t \in Tokens |-> "absent"]

\* TokenStore::load.  A torn file does not parse.
Contents == IF shape = "whole" THEN recs ELSE NoRecords
Readable == shape # "torn"

Kinds == {"mint", "delete", "redeem", "verify"}
Ops == {o \in [kind : Kinds, token : Tokens, right : BOOLEAN] :
           o.kind \in {"mint", "delete"} => ~ o.right}
NoOp == [kind |-> "none", token |-> None, right |-> FALSE]

\* Mutant: redeem does not look at the record's state.
AcceptsAnyState(o, rs, stale) ==
    CASE o.kind = "mint" -> TRUE
      [] o.kind = "delete" -> rs[o.token] # "absent"
      [] o.kind = "redeem" -> rs[o.token] # "absent" /\ o.token \notin stale /\ o.right
      [] o.kind = "verify" -> rs[o.token] = "bound" /\ o.right

\* The checks an operation makes on the records it loaded.  `display_state`
\* turns an expired unused record into Stale, which only redeem looks at.
Accepts(o, rs, stale) ==
    CASE o.kind = "mint" -> TRUE
      [] o.kind = "delete" -> rs[o.token] # "absent"
      [] o.kind = "redeem" -> rs[o.token] = "unused" /\ o.token \notin stale /\ o.right
      [] o.kind = "verify" -> rs[o.token] = "bound" /\ o.right

\* Mutant: delete stores the state `list` displays for a record past its ttl.
NewStateDisplayed(o, s) ==
    CASE o.kind = "mint" -> "unused"
      [] o.kind = "delete" -> IF s = "bound" THEN "revoked" ELSE "stale"
      [] o.kind = "redeem" -> "bound"
      [] o.kind = "verify" -> s

\* The state an accepted operation gives its record: verify only sets last_seen.
NewState(o, s) ==
    CASE o.kind = "mint" -> "unused"
      [] o.kind = "delete" -> IF s = "bound" THEN "revoked" ELSE "invalidated"
      [] o.kind = "redeem" -> "bound"
      [] o.kind = "verify" -> s

\* The records that are saved.
Updated(o, rs) == [rs EXCEPT ![o.token] = NewState(o, @)]

-----------------------------------------------------------------------------
TypeOK ==
    /\ shape \in {"empty", "torn", "whole"}
    /\ recs \in Records
    /\ expired \subseteq Tokens
    /\ lock \in Procs \cup {None}
    /\ pc \in [Procs -> {"idle", "blocked", "locked", "loaded", "saving", "saved"}]
    /\ op \in [Procs -> Ops \cup {NoOp}]
    /\ \A p \in Procs : pc[p] # "idle" => op[p] \in Ops
    /\ loaded \in [Procs -> Records]
    /\ drawn \subseteq Tokens
    /\ granted \subseteq Kinds \X Tokens
    /\ shown \subseteq Tokens
    /\ faults \in 0..MaxFaults

Init ==
    /\ shape = "empty"
    /\ recs = NoRecords
    /\ expired = {}
    /\ lock = None
    /\ pc = [p \in Procs |-> "idle"]
    /\ op = [p \in Procs |-> NoOp]
    /\ loaded = [p \in Procs |-> NoRecords]
    /\ drawn = {}
    /\ granted = {}
    /\ shown = {}
    /\ faults = 0

-----------------------------------------------------------------------------
(* One operation *)

\* An operation is called and asks for the lock.  A new id is 16 random bytes:
\* no two mints draw the same one.
Call(p, o) ==
    /\ pc[p] = "idle"
    /\ IF o.kind = "mint" THEN o.token \notin drawn /\ drawn' = drawn \cup {o.token}
       ELSE UNCHANGED drawn
    /\ pc' = [pc EXCEPT ![p] = "blocked"]
    /\ op' = [op EXCEPT ![p] = o]
    /\ UNCHANGED <<shape, recs, expired, lock, loaded, granted, shown, faults>>

\* Mutant: the lock is shared, not exclusive.
LockShared(p) ==
    /\ pc[p] = "blocked"
    /\ lock' = p
    /\ pc' = [pc EXCEPT ![p] = "locked"]
    /\ UNCHANGED <<shape, recs, expired, op, loaded, drawn, granted, shown, faults>>

\* FileExt::lock returns.
Lock(p) ==
    /\ pc[p] = "blocked" /\ lock = None
    /\ lock' = p
    /\ pc' = [pc EXCEPT ![p] = "locked"]
    /\ UNCHANGED <<shape, recs, expired, op, loaded, drawn, granted, shown, faults>>

\* with_lock ends: the lock is released and the operation returns.
Return(p) ==
    /\ lock' = None
    /\ pc' = [pc EXCEPT ![p] = "idle"]
    /\ op' = [op EXCEPT ![p] = NoOp]
    /\ loaded' = [loaded EXCEPT ![p] = NoRecords]

\* Mutant: an early return does not unlock.
LoadKeepsLock(p) ==
    /\ pc[p] = "locked"
    /\ IF Readable /\ Accepts(op[p], Contents, expired)
       THEN /\ loaded' = [loaded EXCEPT ![p] = Contents]
            /\ pc' = [pc EXCEPT ![p] = "loaded"]
            /\ UNCHANGED op
       ELSE /\ pc' = [pc EXCEPT ![p] = "idle"]
            /\ op' = [op EXCEPT ![p] = NoOp]
            /\ UNCHANGED loaded
    /\ UNCHANGED <<shape, recs, expired, lock, drawn, granted, shown, faults>>

\* load, find and check: on to the save, or an early return.
Load(p) ==
    /\ pc[p] = "locked"
    /\ \/ /\ Readable /\ Accepts(op[p], Contents, expired)
          /\ loaded' = [loaded EXCEPT ![p] = Contents]
          /\ pc' = [pc EXCEPT ![p] = "loaded"]
          /\ UNCHANGED <<lock, op>>
       \/ /\ ~ (Readable /\ Accepts(op[p], Contents, expired))
          /\ Return(p)
    /\ UNCHANGED <<shape, recs, expired, drawn, granted, shown, faults>>

\* save: fs::write opens the file with truncation,
Truncate(p) ==
    /\ pc[p] = "loaded"
    /\ shape' = "empty"
    /\ pc' = [pc EXCEPT ![p] = "saving"]
    /\ UNCHANGED <<recs, expired, lock, op, loaded, drawn, granted, shown, faults>>

\* may need several write calls,
WriteSome(p) ==
    /\ pc[p] = "saving" /\ shape = "empty"
    /\ shape' = "torn"
    /\ UNCHANGED <<recs, expired, lock, pc, op, loaded, drawn, granted, shown, faults>>

\* and has written it all.
WriteAll(p) ==
    /\ pc[p] = "saving"
    /\ shape' = "whole"
    /\ recs' = Updated(op[p], loaded[p])
    /\ pc' = [pc EXCEPT ![p] = "saved"]
    /\ UNCHANGED <<expired, lock, op, loaded, drawn, granted, shown, faults>>

\* The operation returns Ok to its caller.
Succeed(p) ==
    /\ pc[p] = "saved"
    /\ Return(p)
    /\ granted' = granted \cup {<<op[p].kind, op[p].token>>}
    /\ UNCHANGED <<shape, recs, expired, drawn, shown, faults>>

-----------------------------------------------------------------------------
(* What can go wrong, and what happens without the lock *)

\* fs::write fails, before or after the truncation (a full disk): Err.
SaveFails(p) ==
    /\ pc[p] \in {"loaded", "saving"} /\ faults < MaxFaults
    /\ Return(p)
    /\ faults' = faults + 1
    /\ UNCHANGED <<shape, recs, expired, drawn, granted, shown>>

\* The process dies; the OS releases its lock.
Crash(p) ==
    /\ pc[p] # "idle" /\ faults < MaxFaults
    /\ lock' = IF lock = p THEN None ELSE lock
    /\ pc' = [pc EXCEPT ![p] = "idle"]
    /\ op' = [op EXCEPT ![p] = NoOp]
    /\ loaded' = [loaded EXCEPT ![p] = NoRecords]
    /\ faults' = faults + 1
    /\ UNCHANGED <<shape, recs, expired, drawn, granted, shown>>

\* Mutant: a file that is cut short is listed as far as it parses.
ListPrefix ==
    /\ \E some \in SUBSET Tokens :
          /\ shape = "whole" => some = Tokens
          /\ shown' = {t \in some : recs[t] # "absent"}
    /\ UNCHANGED <<shape, recs, expired, lock, pc, op, loaded, drawn, granted, faults>>

\* TokenStore::list.
List ==
    /\ Readable
    /\ shown' = {t \in Tokens : Contents[t] # "absent"}
    /\ UNCHANGED <<shape, recs, expired, lock, pc, op, loaded, drawn, granted, faults>>

\* The ttl of an unused token runs out.
Expire(t) ==
    /\ t \notin expired
    /\ expired' = expired \cup {t}
    /\ UNCHANGED <<shape, recs, lock, pc, op, loaded, drawn, granted, shown, faults>>

Step(p) ==
    \/ Lock(p) \/ Load(p) \/ Truncate(p) \/ WriteSome(p) \/ WriteAll(p) \/ Succeed(p)

Next ==
    \/ \E p \in Procs : Step(p) \/ SaveFails(p) \/ Crash(p) \/ \E o \in Ops : Call(p, o)
    \/ List
    \/ \E t \in Tokens : Expire(t)

Spec == Init /\ [][Next]_vars

-----------------------------------------------------------------------------
(* Properties *)

\* A token only moves forward, whoever operates on it concurrently: its secret is
\* never usable again once consumed, and a revoke or an invalidation is never
\* undone by another operation's whole-file rewrite (issue #89).  A crash may
\* still lose the record.
Forward ==
    {<<"absent", "unused">>, <<"unused", "bound">>, <<"unused", "invalidated">>,
     <<"bound", "revoked">>, <<"revoked", "invalidated">>}
Lifecycle ==
    [][\A t \in Tokens :
          recs'[t] \in {recs[t], "absent"} \/ <<recs[t], recs'[t]>> \in Forward]_vars

\* The secret is single use: no second redeem of a token is about to return Ok,
\* crashes and torn files included.
RedeemedOnce ==
    \A p \in Procs : pc[p] = "saved" /\ op[p].kind = "redeem"
        => <<"redeem", op[p].token>> \notin granted

\* Once a delete has returned, no redeem and no auth of that token succeeds.
NoEntryAfterDelete ==
    \A p \in Procs : pc[p] = "saved" /\ op[p].kind \in {"redeem", "verify"}
        => <<"delete", op[p].token>> \notin granted

\* Without a fault no concurrent operation loses another's update: every token
\* whose mint returned is still there.
MintsKept ==
    faults = 0 => \A t \in Tokens : <<"mint", t>> \in granted => recs[t] # "absent"

\* The lock excludes, and is never stranded: it is held exactly by a process between
\* lock and unlock, so an early return, a failed save and a death all give it back.
Inside == {"locked", "loaded", "saving", "saved"}
LockIsHeld == \A p \in Procs : lock = p <=> pc[p] \in Inside

\* The records as the callers see them: while a save is under way, the ones its
\* process loaded.  A load by anyone else has to wait for the lock, but for list's.
Saves(p) == p \in Procs /\ pc[p] = "saving"
Visible == IF Saves(lock) THEN loaded[lock] ELSE Contents

Ledger == INSTANCE TokenLedger WITH
    ledger <- Visible,
    applied <- [p \in Procs |-> IF pc[p] = "saved" THEN op[p] ELSE NoOp],
    faulty <- faults > 0

\* The load-modify-save cycles under the lock are atomic operations on one ledger
\* (issue #89), failed writes and dead processes included, and a list without the
\* lock, in the middle of a rewrite, shows all of the last records or none.
StoreIsAtomic == Ledger!Spec

=============================================================================
