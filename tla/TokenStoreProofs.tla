-------------------------- MODULE TokenStoreProofs --------------------------
(* Safety of TokenStore for any number of processes, tokens and faults. *)
EXTENDS TokenStore, TLAPS

\* At most one process is between lock and unlock.
MutualExclusion == \A p \in Procs : pc[p] \in Inside => lock = p

\* The records a process is about to save are made from the ones it found, and
\* those are still the last ones saved, or none when a fault had lost the file.
Current(p) ==
    /\ pc[p] \in {"loaded", "saving"} => loaded[p] \in {recs, NoRecords}
    /\ pc[p] = "loaded" => loaded[p] = Contents
    /\ pc[p] = "saving" => shape # "whole"

\* What the checks of an operation established lasts until its save.
Checked(p) ==
    pc[p] \in {"loaded", "saving"} =>
        /\ op[p].kind = "delete" => loaded[p][op[p].token] # "absent"
        /\ op[p].kind = "redeem" => loaded[p][op[p].token] = "unused"
        /\ op[p].kind = "verify" => loaded[p][op[p].token] = "bound"
        /\ op[p].kind \in {"redeem", "verify"} => op[p].right

\* A saved operation left its mark.
Saved(p) ==
    pc[p] = "saved" =>
        /\ op[p].kind \in {"redeem", "verify"} => recs[op[p].token] = "bound"
        /\ op[p].kind = "delete" => recs[op[p].token] \in {"revoked", "invalidated"}

\* An id is drawn before it is anything else, and by one mint.
NewId(p) ==
    op[p].kind = "mint" =>
        /\ op[p].token \in drawn
        /\ pc[p] # "saved" => recs[op[p].token] = "absent"
        /\ \A k \in Kinds : <<k, op[p].token>> \notin granted
        /\ \A q \in Procs \ {p} : ~ (op[q].kind = "mint" /\ op[q].token = op[p].token)
Undrawn ==
    \A t \in Tokens \ drawn : recs[t] = "absent" /\ \A k \in Kinds : <<k, t>> \notin granted

\* A redeemed token is not unused, and a deleted one neither unused nor bound.
Settled ==
    \A t \in Tokens :
        /\ <<"redeem", t>> \in granted => recs[t] # "unused"
        /\ <<"delete", t>> \in granted => recs[t] \notin {"unused", "bound"}

Safe ==
    /\ TypeOK
    /\ MutualExclusion
    /\ \A p \in Procs : Current(p) /\ Checked(p) /\ Saved(p) /\ NewId(p)
    /\ Undrawn
    /\ Settled
    /\ RedeemedOnce
    /\ NoEntryAfterDelete

-----------------------------------------------------------------------------
(* Types *)

LEMMA UpdatedType ==
    ASSUME NEW o \in Ops, NEW rs \in Records
    PROVE  /\ Updated(o, rs) \in Records
           /\ \A t \in Tokens \ {o.token} : Updated(o, rs)[t] = rs[t]
           /\ Updated(o, rs)[o.token] = NewState(o, rs[o.token])
<1>1. o.token \in Tokens /\ o.kind \in Kinds BY DEF Ops
<1>2. rs[o.token] \in States BY <1>1 DEF Records
<1>3. NewState(o, rs[o.token]) \in States BY <1>1, <1>2 DEF NewState, Kinds, States
<1> QED BY <1>1, <1>3 DEF Updated, Records

LEMMA NoRecordsType == NoRecords \in Records /\ \A t \in Tokens : NoRecords[t] = "absent"
BY DEF NoRecords, Records, States

LEMMA ContentsType == TypeOK => Contents \in Records /\ Contents \in {recs, NoRecords}
BY NoRecordsType DEF TypeOK, Contents

LEMMA TypeInit == Init => TypeOK
BY StoreAssumption, NoRecordsType DEF Init, TypeOK

LEMMA TypeNext == TypeOK /\ [Next]_vars => TypeOK'
<1> SUFFICES ASSUME TypeOK, [Next]_vars PROVE TypeOK'
  OBVIOUS
<1> USE NoRecordsType, StoreAssumption DEF TypeOK
<1>1. ASSUME NEW p \in Procs, NEW o \in Ops, Call(p, o) PROVE TypeOK'
  <2>1. o.token \in Tokens BY DEF Ops
  <2> QED BY <1>1, <2>1 DEF Call
<1>2. ASSUME NEW p \in Procs, Lock(p) PROVE TypeOK'
  BY <1>2 DEF Lock
<1>3. ASSUME NEW p \in Procs, Load(p) PROVE TypeOK'
  BY <1>3, ContentsType DEF Load, Return
<1>4. ASSUME NEW p \in Procs, Truncate(p) PROVE TypeOK'
  BY <1>4 DEF Truncate
<1>5. ASSUME NEW p \in Procs, WriteSome(p) PROVE TypeOK'
  BY <1>5 DEF WriteSome
<1>6. ASSUME NEW p \in Procs, WriteAll(p) PROVE TypeOK'
  BY <1>6, UpdatedType DEF WriteAll
<1>7. ASSUME NEW p \in Procs, Succeed(p) PROVE TypeOK'
  <2>1. op[p].kind \in Kinds /\ op[p].token \in Tokens BY <1>7 DEF Succeed, Ops
  <2> QED BY <1>7, <2>1 DEF Succeed, Return
<1>8. ASSUME NEW p \in Procs, SaveFails(p) PROVE TypeOK'
  BY <1>8 DEF SaveFails, Return
<1>9. ASSUME NEW p \in Procs, Crash(p) PROVE TypeOK'
  BY <1>9 DEF Crash
<1>10. CASE List BY <1>10 DEF List
<1>11. ASSUME NEW t \in Tokens, Expire(t) PROVE TypeOK' BY <1>11 DEF Expire
<1>12. CASE UNCHANGED vars BY <1>12 DEF vars
<1> QED BY <1>1, <1>2, <1>3, <1>4, <1>5, <1>6, <1>7, <1>8, <1>9, <1>10, <1>11, <1>12
        DEF Next, Step

\* Every variable keeps its type, whatever crashes and failed writes happen.
THEOREM TypeCorrect == Spec => []TypeOK
BY TypeInit, TypeNext, PTL DEF Spec

-----------------------------------------------------------------------------
(* The inductive invariant *)

LEMMA SafeInit == Init => Safe
BY TypeInit, NoRecordsType
   DEF Init, Safe, MutualExclusion, Current, Checked, Saved, NewId, Undrawn, Settled,
       RedeemedOnce, NoEntryAfterDelete, Inside, NoOp

\* Nobody else is inside the lock.
LEMMA Alone ==
    ASSUME Safe, NEW p \in Procs, pc[p] \in Inside
    PROVE  \A q \in Procs : q # p => pc[q] \notin Inside
BY DEF Safe, MutualExclusion

\* Leaving: an operation ends, with or without a new grant, and the file stays as
\* it is.
LEMMA LeaveKeepsSafe ==
    ASSUME Safe, TypeOK', NEW p \in Procs, pc[p] # "idle",
           pc' = [pc EXCEPT ![p] = "idle"],
           op' = [op EXCEPT ![p] = NoOp],
           loaded' = [loaded EXCEPT ![p] = NoRecords],
           lock' = IF lock = p THEN None ELSE lock,
           UNCHANGED <<shape, recs, drawn>>,
           \/ granted' = granted
           \/ pc[p] = "saved" /\ granted' = granted \cup {<<op[p].kind, op[p].token>>}
    PROVE  Safe'
<1> USE DEF Safe
<1>t. /\ op[p] \in Ops /\ op[p].token \in Tokens /\ op[p].kind \in Kinds
      /\ \A q \in Procs : q # p => pc'[q] = pc[q] /\ op'[q] = op[q] /\ loaded'[q] = loaded[q]
      /\ pc'[p] = "idle" /\ op'[p] = NoOp
  BY DEF TypeOK, Ops
<1>1. MutualExclusion' BY <1>t DEF MutualExclusion, Inside
<1>2. \A q \in Procs : Current(q)' /\ Checked(q)' /\ Saved(q)'
  BY <1>t DEF Current, Checked, Saved, Contents
<1>g. \A k \in Kinds, t \in Tokens :
         <<k, t>> \in granted' => \/ <<k, t>> \in granted
                                  \/ pc[p] = "saved" /\ k = op[p].kind /\ t = op[p].token
  OBVIOUS
<1>3. \A q \in Procs : NewId(q)'
  <2> SUFFICES ASSUME NEW q \in Procs, q # p, op[q].kind = "mint" PROVE NewId(q)'
    BY <1>t DEF NewId, NoOp
  <2>1. NewId(q) /\ op'[q] = op[q] /\ pc'[q] = pc[q] BY <1>t
  <2>2. ASSUME pc[p] = "saved", op[p].token = op[q].token PROVE FALSE
    <3>1. pc[q] # "saved" BY <2>2, Alone DEF Inside
    <3>2. recs[op[p].token] = "absent" /\ op[p].kind # "mint" BY <2>1, <2>2, <3>1 DEF NewId
    <3>3. recs[op[p].token] # "absent" BY <1>t, <2>2, <3>2 DEF Saved, Kinds
    <3> QED BY <3>2, <3>3
  <2> QED BY <2>1, <2>2, <1>t, <1>g DEF NewId, NoOp
<1>4. Undrawn'
  <2> SUFFICES ASSUME NEW t \in Tokens \ drawn
               PROVE  recs[t] = "absent" /\ \A k \in Kinds : <<k, t>> \notin granted'
    BY DEF Undrawn
  <2>1. recs[t] = "absent" /\ \A k \in Kinds : <<k, t>> \notin granted BY DEF Undrawn
  <2>2. ASSUME pc[p] = "saved", op[p].token = t PROVE FALSE
    <3>1. op[p].kind # "mint" BY <2>2 DEF NewId
    <3>2. recs[t] # "absent" BY <1>t, <2>2, <3>1 DEF Saved, Kinds
    <3> QED BY <2>1, <3>2
  <2> QED BY <2>1, <2>2, <1>g
<1>5. Settled'
  <2>1. pc[p] = "saved" /\ op[p].kind = "redeem" => recs[op[p].token] = "bound" BY DEF Saved
  <2>2. pc[p] = "saved" /\ op[p].kind = "delete"
           => recs[op[p].token] \in {"revoked", "invalidated"}
    BY DEF Saved
  <2> QED BY <1>g, <2>1, <2>2 DEF Settled, Kinds
<1>6. RedeemedOnce' /\ NoEntryAfterDelete'
  <2> SUFFICES ASSUME NEW q \in Procs, q # p, pc[q] = "saved"
               PROVE  granted' = granted
    BY <1>t DEF RedeemedOnce, NoEntryAfterDelete
  <2> QED BY Alone DEF Inside
<1> QED BY <1>1, <1>2, <1>3, <1>4, <1>5, <1>6

\* What a completed save does to the records: its own token takes one step of its
\* life and every other one stays, or is lost with a file that was already lost.
LEMMA WriteEffect ==
    ASSUME Safe, NEW p \in Procs, WriteAll(p)
    PROVE  /\ \A u \in Tokens \ {op[p].token} : recs'[u] \in {recs[u], "absent"}
           /\ op[p].kind = "mint" =>
                 recs[op[p].token] = "absent" /\ recs'[op[p].token] = "unused"
           /\ op[p].kind = "redeem" =>
                 recs[op[p].token] = "unused" /\ recs'[op[p].token] = "bound"
           /\ op[p].kind = "verify" =>
                 recs[op[p].token] = "bound" /\ recs'[op[p].token] = "bound"
           /\ op[p].kind = "delete" =>
                 /\ recs[op[p].token] # "absent"
                 /\ recs'[op[p].token] =
                       IF recs[op[p].token] = "bound" THEN "revoked" ELSE "invalidated"
<1> DEFINE t == op[p].token
<1>1. pc[p] = "saving" /\ recs' = Updated(op[p], loaded[p]) BY DEF WriteAll
<1>2. op[p] \in Ops /\ t \in Tokens /\ op[p].kind \in Kinds /\ loaded[p] \in Records
  BY <1>1 DEF Safe, TypeOK, Ops
<1>3. loaded[p] \in {recs, NoRecords} BY <1>1 DEF Safe, Current
<1>4. \A u \in Tokens \ {t} : recs'[u] = loaded[p][u] BY <1>1, <1>2, UpdatedType
<1>5. recs'[t] = NewState(op[p], loaded[p][t]) BY <1>1, <1>2, UpdatedType
<1>6. op[p].kind # "mint" => loaded[p][t] # "absent"
  BY <1>1, <1>2 DEF Safe, Checked, Kinds
<1>7. op[p].kind # "mint" => loaded[p] = recs BY <1>2, <1>3, <1>6, NoRecordsType
<1>8. op[p].kind = "mint" => recs[t] = "absent" BY <1>1 DEF Safe, NewId
<1>9. \A u \in Tokens \ {t} : recs'[u] \in {recs[u], "absent"} BY <1>3, <1>4, NoRecordsType
<1>10. /\ op[p].kind = "redeem" => loaded[p][t] = "unused"
       /\ op[p].kind = "verify" => loaded[p][t] = "bound"
  BY <1>1 DEF Safe, Checked
<1> QED BY <1>2, <1>5, <1>6, <1>7, <1>8, <1>9, <1>10 DEF NewState, Kinds

LEMMA SafeNext == Safe /\ [Next]_vars => Safe'
<1> SUFFICES ASSUME Safe, [Next]_vars PROVE Safe'
  OBVIOUS
<1>type. TypeOK /\ TypeOK' BY TypeNext DEF Safe
<1> USE DEF Safe
<1>1. ASSUME NEW p \in Procs, NEW o \in Ops, Call(p, o) PROVE Safe'
  <2>1. /\ pc'[p] = "blocked" /\ op'[p] = o /\ o.token \in Tokens /\ o.kind \in Kinds
        /\ \A q \in Procs : q # p => pc'[q] = pc[q] /\ op'[q] = op[q]
        /\ UNCHANGED <<shape, recs, lock, loaded, granted>>
        /\ drawn \subseteq drawn'
        /\ drawn' = IF o.kind = "mint" THEN drawn \cup {o.token} ELSE drawn
        /\ o.kind = "mint" => o.token \notin drawn
    BY <1>1, <1>type DEF Call, TypeOK, Ops
  <2>2. MutualExclusion' BY <2>1 DEF MutualExclusion, Inside
  <2>3. \A q \in Procs : Current(q)' /\ Checked(q)' /\ Saved(q)'
    BY <2>1 DEF Current, Checked, Saved, Contents
  <2>4. \A q \in Procs : NewId(q)'
    <3>1. NewId(p)'
      BY <2>1 DEF NewId, Undrawn
    <3>2. \A q \in Procs \ {p} : NewId(q)'
      BY <2>1 DEF NewId
    <3> QED BY <3>1, <3>2
  <2>5. Undrawn' /\ Settled' BY <2>1 DEF Undrawn, Settled
  <2>6. RedeemedOnce' /\ NoEntryAfterDelete' BY <2>1 DEF RedeemedOnce, NoEntryAfterDelete
  <2> QED BY <1>type, <2>2, <2>3, <2>4, <2>5, <2>6
<1>2. ASSUME NEW p \in Procs, Lock(p) PROVE Safe'
  <2>1. /\ pc'[p] = "locked" /\ pc[p] = "blocked" /\ lock = None /\ lock' = p
        /\ \A q \in Procs : q # p => pc'[q] = pc[q]
        /\ UNCHANGED <<shape, recs, op, loaded, drawn, granted>>
    BY <1>2, <1>type DEF Lock, TypeOK
  <2>2. MutualExclusion' BY <2>1, StoreAssumption DEF MutualExclusion
  <2>3. \A q \in Procs : Current(q)' /\ Checked(q)' /\ Saved(q)' /\ NewId(q)'
    BY <2>1 DEF Current, Checked, Saved, NewId, Contents
  <2>4. Undrawn' /\ Settled' /\ RedeemedOnce' /\ NoEntryAfterDelete'
    BY <2>1 DEF Undrawn, Settled, RedeemedOnce, NoEntryAfterDelete
  <2> QED BY <1>type, <2>2, <2>3, <2>4
<1>3. ASSUME NEW p \in Procs, Load(p) PROVE Safe'
  <2>1. pc[p] = "locked" /\ lock = p BY <1>3 DEF Load, MutualExclusion, Inside
  <2>2. CASE Return(p)
    BY <1>3, <1>type, <2>1, <2>2, LeaveKeepsSafe DEF Load, Return
  <2>3. CASE ~ Return(p)
    <3>1. /\ pc'[p] = "loaded" /\ loaded'[p] = Contents
          /\ Accepts(op[p], Contents, expired)
          /\ \A q \in Procs : q # p => pc'[q] = pc[q] /\ loaded'[q] = loaded[q]
          /\ UNCHANGED <<shape, recs, lock, op, drawn, granted>>
      BY <1>3, <2>3, <1>type DEF Load, TypeOK
    <3>2. MutualExclusion' BY <3>1, <2>1 DEF MutualExclusion, Inside
    <3>3. Contents' = Contents /\ Contents \in {recs, NoRecords}
      BY <3>1, <1>type, ContentsType DEF Contents
    <3>4. op[p].kind \in Kinds BY <2>1, <1>type DEF TypeOK, Ops
    <3>5. Current(p)' /\ Checked(p)' /\ Saved(p)'
      BY <3>1, <3>3, <3>4 DEF Current, Checked, Saved, Accepts, Kinds
    <3>6. \A q \in Procs \ {p} : Current(q)' /\ Checked(q)' /\ Saved(q)'
      BY <3>1, <3>3 DEF Current, Checked, Saved
    <3>7. \A q \in Procs : NewId(q)' BY <3>1, <2>1 DEF NewId
    <3>8. Undrawn' /\ Settled' /\ RedeemedOnce' /\ NoEntryAfterDelete'
      BY <3>1 DEF Undrawn, Settled, RedeemedOnce, NoEntryAfterDelete
    <3> QED BY <1>type, <3>2, <3>5, <3>6, <3>7, <3>8
  <2> QED BY <2>2, <2>3
<1>4. ASSUME NEW p \in Procs, Truncate(p) \/ WriteSome(p) PROVE Safe'
  <2>1. /\ pc'[p] = "saving" /\ pc[p] \in {"loaded", "saving"} /\ shape' # "whole"
        /\ \A q \in Procs : q # p => pc'[q] = pc[q]
        /\ UNCHANGED <<recs, lock, op, loaded, drawn, granted>>
    BY <1>4, <1>type DEF Truncate, WriteSome, TypeOK
  <2>2. \A q \in Procs : q # p => pc[q] \notin Inside BY <2>1, Alone DEF Inside
  <2>3. MutualExclusion' BY <2>1, <2>2 DEF MutualExclusion, Inside
  <2>4. \A q \in Procs : Current(q)' /\ Checked(q)' /\ Saved(q)' /\ NewId(q)'
    BY <2>1, <2>2 DEF Current, Checked, Saved, NewId, Inside
  <2>5. Undrawn' /\ Settled' /\ RedeemedOnce' /\ NoEntryAfterDelete'
    BY <2>1 DEF Undrawn, Settled, RedeemedOnce, NoEntryAfterDelete
  <2> QED BY <1>type, <2>3, <2>4, <2>5
<1>5. ASSUME NEW p \in Procs, WriteAll(p) PROVE Safe'
  <2> DEFINE t == op[p].token
  <2>1. /\ pc[p] = "saving" /\ pc'[p] = "saved" /\ shape' = "whole"
        /\ \A q \in Procs : q # p => pc'[q] = pc[q]
        /\ UNCHANGED <<lock, op, loaded, drawn, granted>>
    BY <1>5, <1>type DEF WriteAll, TypeOK
  <2>2. \A q \in Procs : q # p => pc[q] \notin Inside BY <2>1, Alone DEF Inside
  <2>3. t \in Tokens /\ op[p].kind \in Kinds BY <2>1, <1>type DEF TypeOK, Ops
  <2>4. \A u \in Tokens \ {t} : recs'[u] \in {recs[u], "absent"} BY <1>5, WriteEffect
  <2>5. /\ op[p].kind = "mint" => recs[t] = "absent" /\ recs'[t] = "unused"
        /\ op[p].kind = "redeem" => recs[t] = "unused" /\ recs'[t] = "bound"
        /\ op[p].kind = "verify" => recs[t] = "bound" /\ recs'[t] = "bound"
        /\ op[p].kind = "delete" => recs[t] # "absent" /\ recs'[t] \in {"revoked", "invalidated"}
    BY <1>5, WriteEffect
  <2>6. MutualExclusion' BY <2>1, <2>2 DEF MutualExclusion, Inside
  <2>7. \A q \in Procs : Current(q)' /\ Checked(q)' /\ Saved(q)'
    BY <2>1, <2>2, <2>5 DEF Current, Checked, Saved, Inside
  <2>8. \A q \in Procs : NewId(q)'
    <3>1. NewId(p)' BY <2>1 DEF NewId
    <3>2. ASSUME NEW q \in Procs \ {p}, op[q].kind = "mint" PROVE NewId(q)'
      <4>1. NewId(q) OBVIOUS
      <4>2. recs[op[q].token] = "absent" /\ pc[q] # "saved"
        BY <2>2, <3>2, <4>1 DEF NewId, Inside
      <4>3. op[q].token \in Tokens BY <3>2, <4>1, <1>type DEF NewId, TypeOK
      <4>4. op[q].token # t
        BY <2>3, <2>5, <3>2, <4>1, <4>2 DEF NewId, Kinds
      <4> QED BY <2>1, <2>4, <3>2, <4>1, <4>2, <4>3, <4>4 DEF NewId
    <3> QED BY <2>1, <3>1, <3>2 DEF NewId
  <2>9. Undrawn'
    <3>1. ASSUME NEW u \in Tokens \ drawn PROVE recs'[u] = "absent"
      <4>1. recs[u] = "absent" BY DEF Undrawn
      <4>2. u # t BY <2>3, <2>5, <4>1 DEF NewId, Kinds
      <4> QED BY <2>4, <4>1, <4>2
    <3> QED BY <2>1, <3>1 DEF Undrawn
  <2>10. Settled'
    <3>1. \A u \in Tokens \ {t} : <<"redeem", u>> \in granted => recs'[u] # "unused"
      BY <2>4 DEF Settled
    <3>2. \A u \in Tokens \ {t} : <<"delete", u>> \in granted => recs'[u] \notin {"unused", "bound"}
      BY <2>4 DEF Settled
    <3>3. op[p].kind = "mint" => \A k \in Kinds : <<k, t>> \notin granted BY DEF NewId
    <3>4. <<"redeem", t>> \in granted => recs'[t] # "unused"
      BY <2>3, <2>5, <3>3 DEF Kinds
    <3>5. <<"delete", t>> \in granted => recs'[t] \notin {"unused", "bound"}
      BY <2>3, <2>5, <3>3 DEF Kinds, Settled
    <3> QED BY <2>1, <3>1, <3>2, <3>4, <3>5 DEF Settled
  <2>11. RedeemedOnce' /\ NoEntryAfterDelete'
    <3>1. \A q \in Procs : pc'[q] = "saved" => q = p BY <2>1, <2>2 DEF Inside
    <3>2. op[p].kind = "redeem" => <<"redeem", t>> \notin granted BY <2>3, <2>5 DEF Settled
    <3>3. op[p].kind \in {"redeem", "verify"} => <<"delete", t>> \notin granted
      BY <2>3, <2>5 DEF Settled
    <3> QED BY <2>1, <3>1, <3>2, <3>3 DEF RedeemedOnce, NoEntryAfterDelete
  <2> QED BY <1>type, <2>6, <2>7, <2>8, <2>9, <2>10, <2>11
<1>6. ASSUME NEW p \in Procs, Succeed(p) PROVE Safe'
  <2>1. pc[p] = "saved" /\ lock = p BY <1>6 DEF Succeed, MutualExclusion, Inside
  <2> QED BY <1>6, <1>type, <2>1, LeaveKeepsSafe DEF Succeed, Return
<1>7. ASSUME NEW p \in Procs, SaveFails(p) PROVE Safe'
  <2>1. pc[p] # "idle" /\ lock = p BY <1>7 DEF SaveFails, MutualExclusion, Inside
  <2> QED BY <1>7, <1>type, <2>1, LeaveKeepsSafe DEF SaveFails, Return
<1>8. ASSUME NEW p \in Procs, Crash(p) PROVE Safe'
  BY <1>8, <1>type, LeaveKeepsSafe DEF Crash
<1>9. CASE List \/ (\E t \in Tokens : Expire(t)) \/ UNCHANGED vars
  <2>1. UNCHANGED <<shape, recs, lock, pc, op, loaded, drawn, granted>>
    BY <1>9 DEF List, Expire, vars
  <2>2. MutualExclusion' BY <2>1 DEF MutualExclusion
  <2>3. \A q \in Procs : Current(q)' /\ Checked(q)' /\ Saved(q)' /\ NewId(q)'
    BY <2>1 DEF Current, Checked, Saved, NewId, Contents
  <2>4. Undrawn' /\ Settled' /\ RedeemedOnce' /\ NoEntryAfterDelete'
    BY <2>1 DEF Undrawn, Settled, RedeemedOnce, NoEntryAfterDelete
  <2> QED BY <1>type, <2>2, <2>3, <2>4
<1> QED BY <1>1, <1>2, <1>3, <1>4, <1>5, <1>6, <1>7, <1>8, <1>9 DEF Next, Step

THEOREM SafeAlways == Spec => []Safe
BY SafeInit, SafeNext, PTL DEF Spec

-----------------------------------------------------------------------------
(* The results *)

\* A join secret is consumed once: no second redeem of a token returns Ok.
THEOREM SecretsAreSingleUse == Spec => []RedeemedOnce
<1>1. Safe => RedeemedOnce BY DEF Safe
<1> QED BY <1>1, SafeAlways, PTL

\* After a delete has returned, no redeem and no auth of the token succeeds.
THEOREM DeletedStaysOut == Spec => []NoEntryAfterDelete
<1>1. Safe => NoEntryAfterDelete BY DEF Safe
<1> QED BY <1>1, SafeAlways, PTL

\* No interleaving of whole-file rewrites and no fault moves a token backwards.
THEOREM TokensMoveForward == Spec => Lifecycle
<1>1. Safe /\ [Next]_vars =>
         [\A t \in Tokens :
             recs'[t] \in {recs[t], "absent"} \/ <<recs[t], recs'[t]>> \in Forward]_vars
  <2> SUFFICES ASSUME Safe, Next, NEW t \in Tokens
               PROVE  recs'[t] \in {recs[t], "absent"} \/ <<recs[t], recs'[t]>> \in Forward
    BY DEF vars
  <2>1. ASSUME NEW p \in Procs, WriteAll(p)
        PROVE  recs'[t] \in {recs[t], "absent"} \/ <<recs[t], recs'[t]>> \in Forward
    <3>1. op[p].kind \in Kinds /\ recs[t] \in States
      BY <2>1 DEF WriteAll, Safe, TypeOK, Ops, Records
    <3>2. CASE t # op[p].token BY <2>1, <3>2, WriteEffect
    <3>3. CASE t = op[p].token
      BY <2>1, <3>1, <3>3, WriteEffect DEF Kinds, States, Forward
    <3> QED BY <3>2, <3>3
  <2>2. CASE UNCHANGED recs BY <2>2
  <2> QED BY <2>1, <2>2
          DEF Next, Step, Call, Lock, Load, Truncate, WriteSome, Succeed, SaveFails, Crash,
              List, Expire
<1> QED BY <1>1, SafeAlways, PTL DEF Spec, Lifecycle

\* Whatever ends an operation, the lock is with a process that is using it or free.
THEOREM LockNeverStranded == Spec => []LockIsHeld
<1>1. Init => LockIsHeld
  BY StoreAssumption DEF Init, LockIsHeld, Inside
<1>2. Safe /\ LockIsHeld /\ [Next]_vars => LockIsHeld'
  <2> SUFFICES ASSUME Safe, LockIsHeld, [Next]_vars, NEW q \in Procs
               PROVE  lock' = q <=> pc'[q] \in Inside
    BY DEF LockIsHeld
  <2> USE StoreAssumption DEF Safe, TypeOK, LockIsHeld, Inside
  <2>1. ASSUME NEW p \in Procs, Lock(p) PROVE lock' = q <=> pc'[q] \in Inside
    BY <2>1 DEF Lock
  <2>2. ASSUME NEW p \in Procs, Load(p) PROVE lock' = q <=> pc'[q] \in Inside
    BY <2>2 DEF Load, Return
  <2>3. ASSUME NEW p \in Procs, Truncate(p) \/ WriteSome(p) \/ WriteAll(p)
        PROVE  lock' = q <=> pc'[q] \in Inside
    BY <2>3 DEF Truncate, WriteSome, WriteAll
  <2>4. ASSUME NEW p \in Procs, Succeed(p) \/ SaveFails(p)
        PROVE  lock' = q <=> pc'[q] \in Inside
    BY <2>4 DEF Succeed, SaveFails, Return
  <2>5. ASSUME NEW p \in Procs, Crash(p) \/ \E o \in Ops : Call(p, o)
        PROVE  lock' = q <=> pc'[q] \in Inside
    BY <2>5 DEF Crash, Call
  <2>6. CASE UNCHANGED <<lock, pc>> BY <2>6
  <2> QED BY <2>1, <2>2, <2>3, <2>4, <2>5, <2>6 DEF Next, Step, List, Expire, vars
<1> QED BY <1>1, <1>2, SafeAlways, PTL DEF Spec

-----------------------------------------------------------------------------
(* No lost update *)

\* Without a fault the file is less than whole only while its writer saves, or
\* before the first save; so every load returns the last records saved.
NothingLost ==
    faults = 0 =>
        /\ shape # "whole" => recs = NoRecords \/ \E p \in Procs : pc[p] = "saving"
        /\ \A p \in Procs : pc[p] \in {"loaded", "saving"} => loaded[p] = recs
        /\ \A p \in Procs : pc[p] = "saved" /\ op[p].kind = "mint"
                            => recs[op[p].token] # "absent"
        /\ \A t \in Tokens : <<"mint", t>> \in granted => recs[t] # "absent"

\* While no fault has struck, no save drops a record that a mint has returned.
LEMMA NothingLostNext == Safe /\ NothingLost /\ [Next]_vars => NothingLost'
<1> SUFFICES ASSUME Safe, NothingLost, [Next]_vars, faults' = 0 PROVE NothingLost'
  BY DEF NothingLost
<1>type. TypeOK BY DEF Safe
<1>f. faults = 0
  BY <1>type DEF TypeOK, Next, Step, Call, Lock, Load, Truncate, WriteSome, WriteAll, Succeed,
                 SaveFails, Crash, List, Expire, vars
<1>h. /\ shape # "whole" => recs = NoRecords \/ \E p \in Procs : pc[p] = "saving"
      /\ \A p \in Procs : pc[p] \in {"loaded", "saving"} => loaded[p] = recs
      /\ \A p \in Procs : pc[p] = "saved" /\ op[p].kind = "mint"
                          => recs[op[p].token] # "absent"
      /\ \A t \in Tokens : <<"mint", t>> \in granted => recs[t] # "absent"
  BY <1>f DEF NothingLost
<1>1. ASSUME NEW p \in Procs, NEW o \in Ops, Call(p, o) PROVE NothingLost'
  BY <1>1, <1>h, <1>type DEF Call, TypeOK, NothingLost
<1>2. ASSUME NEW p \in Procs, Lock(p) PROVE NothingLost'
  BY <1>2, <1>h, <1>type DEF Lock, TypeOK, NothingLost
<1>3. ASSUME NEW p \in Procs, Load(p) PROVE NothingLost'
  <2>1. \A q \in Procs : pc[q] # "saving" BY <1>3, Alone DEF Load, Inside
  <2>2. Contents = recs BY <1>h, <2>1 DEF Contents
  <2>3. /\ UNCHANGED <<shape, recs, granted>>
        /\ \A q \in Procs : q # p => pc'[q] = pc[q] /\ op'[q] = op[q] /\ loaded'[q] = loaded[q]
        /\ pc'[p] = "idle" \/ (pc'[p] = "loaded" /\ loaded'[p] = recs)
    BY <1>3, <1>type, <2>2 DEF Load, Return, TypeOK
  <2> QED BY <1>h, <2>1, <2>3 DEF NothingLost
<1>4. ASSUME NEW p \in Procs, Truncate(p) \/ WriteSome(p) PROVE NothingLost'
  <2>1. /\ pc'[p] = "saving" /\ pc[p] \in {"loaded", "saving"}
        /\ \A q \in Procs : q # p => pc'[q] = pc[q]
        /\ UNCHANGED <<recs, op, loaded, granted>>
    BY <1>4, <1>type DEF Truncate, WriteSome, TypeOK
  <2> QED BY <1>h, <2>1 DEF NothingLost
<1>5. ASSUME NEW p \in Procs, WriteAll(p) PROVE NothingLost'
  <2> DEFINE t == op[p].token
  <2>1. /\ pc[p] = "saving" /\ pc'[p] = "saved" /\ shape' = "whole"
        /\ \A q \in Procs : q # p => pc'[q] = pc[q]
        /\ UNCHANGED <<op, loaded, granted>> /\ recs' = Updated(op[p], loaded[p])
    BY <1>5, <1>type DEF WriteAll, TypeOK
  <2>2. \A q \in Procs : q # p => pc[q] \notin Inside BY <2>1, Alone DEF Inside
  <2>3. op[p] \in Ops /\ t \in Tokens /\ op[p].kind \in Kinds /\ recs \in Records
    BY <2>1, <1>type DEF TypeOK, Ops
  <2>4. \A u \in Tokens \ {t} : recs'[u] = recs[u] BY <1>h, <2>1, <2>3, UpdatedType
  <2>5. recs'[t] # "absent" BY <1>5, <2>3, WriteEffect DEF Kinds
  <2>6. \A q \in Procs : pc'[q] \in Inside => q = p BY <2>1, <2>2
  <2> QED BY <1>h, <2>1, <2>3, <2>4, <2>5, <2>6 DEF NothingLost, Inside
<1>6. ASSUME NEW p \in Procs, Succeed(p) PROVE NothingLost'
  <2>1. /\ pc[p] = "saved" /\ pc'[p] = "idle"
        /\ \A q \in Procs : q # p => pc'[q] = pc[q] /\ op'[q] = op[q] /\ loaded'[q] = loaded[q]
        /\ UNCHANGED <<shape, recs>>
        /\ granted' = granted \cup {<<op[p].kind, op[p].token>>}
    BY <1>6, <1>type DEF Succeed, Return, TypeOK
  <2>2. \A u \in Tokens : <<"mint", u>> \in granted' =>
           <<"mint", u>> \in granted \/ (op[p].kind = "mint" /\ u = op[p].token)
    BY <2>1
  <2> QED BY <1>h, <2>1, <2>2 DEF NothingLost
<1>7. ASSUME NEW p \in Procs, SaveFails(p) \/ Crash(p) PROVE NothingLost'
  BY <1>7, <1>f DEF SaveFails, Crash
<1>8. CASE List \/ (\E t \in Tokens : Expire(t)) \/ UNCHANGED vars
  <2>1. UNCHANGED <<shape, recs, pc, op, loaded, granted>> BY <1>8 DEF List, Expire, vars
  <2> QED BY <1>h, <2>1 DEF NothingLost
<1> QED BY <1>1, <1>2, <1>3, <1>4, <1>5, <1>6, <1>7, <1>8 DEF Next, Step

\* No operation loses another's update: without a fault, a token whose mint has
\* returned keeps its record through every rewrite of the whole file.
THEOREM MintsAlwaysKept == Spec => []MintsKept
<1>1. Init => NothingLost BY DEF Init, NothingLost
<1>2. NothingLost => MintsKept BY DEF NothingLost, MintsKept
<1> QED BY <1>1, <1>2, NothingLostNext, SafeAlways, PTL DEF Spec

-----------------------------------------------------------------------------
(* The operations are atomic.  An operation takes effect when its file is     *)
(* whole again; no step before that, of it or of another one, shows.          *)

\* The operations that took effect and have not returned, as the mapping has them.
Applied == [p \in Procs |-> IF pc[p] = "saved" THEN op[p] ELSE NoOp]

\* Nobody saves but the holder of the lock.
LEMMA VisibleIs ==
    ASSUME Safe
    PROVE  /\ \A p \in Procs : pc[p] = "saving" => Visible = loaded[p]
           /\ (\A p \in Procs : pc[p] # "saving") => Visible = Contents
<1>1. \A p \in Procs : pc[p] = "saving" => lock = p
  BY DEF Safe, MutualExclusion, Inside
<1> QED  BY <1>1 DEF Visible, Saves

\* The same, of the state after a step.
LEMMA VisibleThen ==
    ASSUME Safe'
    PROVE  /\ \A p \in Procs : pc'[p] = "saving" => Visible' = loaded'[p]
           /\ (\A p \in Procs : pc'[p] # "saving") => Visible' = Contents'
<1>1. \A p \in Procs : pc'[p] = "saving" => lock' = p
  BY DEF Safe, MutualExclusion, Inside
<1> QED  BY <1>1 DEF Visible, Saves

\* A step that keeps the file and what its saver loaded does not show.
LEMMA Unseen ==
    ASSUME Safe, Safe', UNCHANGED <<shape, recs>>,
           \A p \in Procs : pc[p] = "saving" <=> pc'[p] = "saving",
           \A p \in Procs : pc[p] = "saving" => loaded'[p] = loaded[p]
    PROVE  Visible' = Visible
<1>1. CASE \E p \in Procs : pc[p] = "saving"
  BY <1>1, VisibleIs, VisibleThen
<1>2. CASE \A p \in Procs : pc[p] # "saving"
  <2>1. Visible = Contents /\ Visible' = Contents'
    BY <1>2, VisibleIs, VisibleThen
  <2> QED  BY <2>1 DEF Contents
<1> QED  BY <1>1, <1>2

\* A save that is complete is the operation taking effect.
LEMMA WriteApplies ==
    ASSUME Safe, Safe', NEW p \in Procs, WriteAll(p)
    PROVE  \E o \in Ledger!Ops : Ledger!Apply(p, o)
<1> PICK o : o = op[p]
  OBVIOUS
<1> DEFINE t == o.token
<1>1. /\ pc[p] = "saving" /\ pc' = [pc EXCEPT ![p] = "saved"] /\ shape' = "whole"
      /\ recs' = Updated(o, loaded[p]) /\ UNCHANGED <<op, granted, shown, faults>>
  BY DEF WriteAll
<1>2. o \in Ops /\ t \in Tokens /\ o.kind \in Kinds /\ loaded[p] \in Records
  BY <1>1 DEF Safe, TypeOK, Ops
<1>3. \A q \in Procs : pc'[q] # "saving"
  <2>1. \A q \in Procs : q # p => pc[q] # "saving"
    BY <1>1, Alone DEF Inside
  <2> QED  BY <1>1, <2>1 DEF Safe, TypeOK
<1>4. Visible = loaded[p] /\ Visible' = Updated(o, loaded[p])
  <2>1. Visible = loaded[p]
    BY <1>1, VisibleIs
  <2>2. Visible' = Contents'
    BY <1>3, VisibleThen
  <2>3. Contents' = recs'
    BY <1>1 DEF Contents
  <2> QED  BY <1>1, <2>1, <2>2, <2>3
<1>5. /\ o.kind = "mint" => loaded[p][t] = "absent"
      /\ o.kind = "redeem" => loaded[p][t] = "unused"
      /\ o.kind = "verify" => loaded[p][t] = "bound"
      /\ o.kind = "delete" => loaded[p][t] \in States \ {"absent"}
  <2>1. o.kind = "mint" => recs[t] = "absent" /\ loaded[p] \in {recs, NoRecords}
    BY <1>1 DEF Safe, NewId, Current
  <2>2. o.kind = "mint" => loaded[p][t] = "absent"
    BY <1>2, <2>1, NoRecordsType
  <2> QED  BY <1>1, <1>2, <2>2 DEF Safe, Checked, Records
<1>6. \E m \in Ledger!Moves(o.kind) :
         loaded[p][t] = m[1] /\ NewState(o, loaded[p][t]) = m[2]
  <2>1. CASE o.kind = "mint"
    BY <1>5, <2>1 DEF Ledger!Moves, NewState
  <2>2. CASE o.kind = "redeem"
    BY <1>5, <2>2 DEF Ledger!Moves, NewState
  <2>3. CASE o.kind = "verify"
    BY <1>5, <2>3 DEF Ledger!Moves, NewState
  <2>4. CASE o.kind = "delete"
    BY <1>5, <2>4 DEF Ledger!Moves, NewState, States
  <2> QED  BY <1>2, <2>1, <2>2, <2>3, <2>4 DEF Kinds
<1>7. \E m \in Ledger!Moves(o.kind) :
         Visible[t] = m[1] /\ Visible' = [Visible EXCEPT ![t] = m[2]]
  BY <1>4, <1>6 DEF Updated
<1>8. o.kind \in {"redeem", "verify"} => o.right
  BY <1>1 DEF Safe, Checked
<1>9. Applied[p] = NoOp /\ Applied' = [Applied EXCEPT ![p] = o]
  BY <1>1 DEF Applied, Safe, TypeOK
<1>10. (faults > 0)' = (faults > 0) /\ UNCHANGED <<granted, shown>>
  BY <1>1
<1>11. o \in Ledger!Ops
  BY <1>2 DEF Ops, Ledger!Ops, Kinds
<1>12. Ledger!Apply(p, o)
  BY <1>7, <1>8, <1>9, <1>10 DEF Ledger!Apply, Applied, Ledger!NoOp, NoOp
<1> QED  BY <1>11, <1>12

\* A store without a file is an empty ledger.
LEMMA LedgerInit == Init => Ledger!Init
<1> SUFFICES ASSUME Init PROVE Ledger!Init
  OBVIOUS
<1>1. Visible = NoRecords
  BY StoreAssumption DEF Init, Visible, Saves, Contents
<1>2. Applied = [p \in Procs |-> NoOp] /\ (faults > 0) = FALSE
  BY DEF Init, Applied
<1> QED  BY <1>1, <1>2 DEF Init, Ledger!Init, Applied, NoOp, NoRecords, Ledger!NoOp,
                          Ledger!NoRecords

\* Every step is one of the ledger or does not show.
LEMMA LedgerNext == Safe /\ Safe' /\ [Next]_vars => [Ledger!Next]_Ledger!vars
<1> SUFFICES ASSUME Safe, Safe', [Next]_vars
             PROVE  Ledger!Next \/ UNCHANGED Ledger!vars
  OBVIOUS
<1>t. TypeOK /\ TypeOK'
  BY DEF Safe
<1>q. ASSUME Visible' = Visible, Applied' = Applied, UNCHANGED <<granted, shown, faults>>
      PROVE  UNCHANGED Ledger!vars
  BY <1>q DEF Ledger!vars, Applied
<1>1. ASSUME NEW p \in Procs, (\E o \in Ops : Call(p, o)) \/ Lock(p) \/ Load(p)
      PROVE  UNCHANGED Ledger!vars
  <2>1. /\ pc[p] \in {"idle", "blocked", "locked"}
        /\ pc'[p] \in {"idle", "blocked", "locked", "loaded"}
        /\ \A q \in Procs : q # p => pc'[q] = pc[q] /\ op'[q] = op[q] /\ loaded'[q] = loaded[q]
        /\ UNCHANGED <<shape, recs, granted, shown, faults>>
    BY <1>1, <1>t DEF Call, Lock, Load, Return, TypeOK
  <2>2. Visible' = Visible
    BY <2>1, Unseen
  <2>3. Applied' = Applied
    BY <2>1 DEF Applied
  <2> QED  BY <2>1, <2>2, <2>3, <1>q
<1>2. ASSUME NEW p \in Procs, Truncate(p) PROVE UNCHANGED Ledger!vars
  <2>1. /\ pc[p] = "loaded" /\ pc'[p] = "saving" /\ loaded' = loaded
        /\ \A q \in Procs : q # p => pc'[q] = pc[q]
        /\ UNCHANGED <<op, granted, shown, faults>>
    BY <1>2, <1>t DEF Truncate, TypeOK
  <2>2. \A q \in Procs : pc[q] # "saving"
    BY <2>1, Alone DEF Inside
  <2>3. Visible = Contents /\ Visible' = loaded[p]
    BY <2>1, <2>2, VisibleIs, VisibleThen
  <2>4. Visible' = Visible
    BY <2>1, <2>3 DEF Safe, Current
  <2>5. Applied' = Applied
    BY <2>1 DEF Applied
  <2> QED  BY <2>1, <2>4, <2>5, <1>q
<1>3. ASSUME NEW p \in Procs, WriteSome(p) PROVE UNCHANGED Ledger!vars
  <2>1. /\ pc[p] = "saving" /\ UNCHANGED <<pc, op, loaded, granted, shown, faults>>
    BY <1>3 DEF WriteSome
  <2>2. Visible' = Visible
    BY <2>1, VisibleIs, VisibleThen
  <2>3. Applied' = Applied
    BY <2>1 DEF Applied
  <2> QED  BY <2>1, <2>2, <2>3, <1>q
<1>4. ASSUME NEW p \in Procs, WriteAll(p) PROVE Ledger!Next
  <2>1. \E o \in Ledger!Ops : Ledger!Apply(p, o)
    BY <1>4, WriteApplies
  <2> QED  BY <2>1 DEF Ledger!Next
<1>5. ASSUME NEW p \in Procs, Succeed(p) PROVE Ledger!Next
  <2>1. /\ pc[p] = "saved" /\ pc' = [pc EXCEPT ![p] = "idle"] /\ op' = [op EXCEPT ![p] = NoOp]
        /\ loaded' = [loaded EXCEPT ![p] = NoRecords]
        /\ granted' = granted \cup {<<op[p].kind, op[p].token>>}
        /\ UNCHANGED <<shape, recs, shown, faults>>
    BY <1>5 DEF Succeed, Return
  <2>2. Visible' = Visible
    BY <2>1, <1>t, Unseen DEF TypeOK
  <2>3. op[p] # NoOp
    BY <2>1, <1>t DEF TypeOK, Ops, NoOp, Kinds
  <2>4. Applied[p] = op[p] /\ Applied' = [Applied EXCEPT ![p] = NoOp]
    BY <2>1, <1>t DEF Applied, TypeOK
  <2>5. Ledger!Report(p)
    BY <2>1, <2>2, <2>3, <2>4 DEF Ledger!Report, Applied, Ledger!NoOp, NoOp
  <2> QED  BY <2>5 DEF Ledger!Next
<1>6. ASSUME NEW p \in Procs, SaveFails(p) \/ Crash(p) PROVE Ledger!Next
  <2>1. /\ pc[p] # "idle" /\ pc' = [pc EXCEPT ![p] = "idle"] /\ op' = [op EXCEPT ![p] = NoOp]
        /\ loaded' = [loaded EXCEPT ![p] = NoRecords] /\ faults' = faults + 1
        /\ UNCHANGED <<shape, recs, granted, shown>>
    BY <1>6 DEF SaveFails, Crash, Return
  <2>2. (faults > 0)' = TRUE
    BY <2>1, <1>t, StoreAssumption DEF TypeOK
  <2>3. Applied' = [Applied EXCEPT ![p] = NoOp]
    BY <2>1, <1>t DEF Applied, TypeOK
  <2>4. Visible' \in {Visible, NoRecords}
    <3>1. CASE pc[p] # "saving"
      BY <2>1, <3>1, <1>t, Unseen DEF TypeOK
    <3>2. CASE pc[p] = "saving"
      <4>1. \A q \in Procs : pc'[q] # "saving"
        BY <2>1, <3>2, <1>t, Alone DEF TypeOK, Inside
      <4>2. Visible' = Contents' /\ shape' # "whole"
        BY <2>1, <3>2, <4>1, VisibleThen DEF Safe, Current
      <4> QED  BY <4>2 DEF Contents
    <3> QED  BY <3>1, <3>2
  <2>5. Ledger!Fault(p)
    BY <2>1, <2>2, <2>3, <2>4 DEF Ledger!Fault, Applied, NoOp, NoRecords, Ledger!NoOp,
                                  Ledger!NoRecords
  <2> QED  BY <2>5 DEF Ledger!Next
<1>7. CASE List
  <2>1. /\ Readable /\ shown' = {t \in Tokens : Contents[t] # "absent"}
        /\ UNCHANGED <<shape, recs, pc, op, lock, loaded, granted, faults>>
    BY <1>7 DEF List
  <2>2. Visible' = Visible /\ Applied' = Applied
    BY <2>1, Unseen DEF Applied
  <2>3. shown' \in {{}, {t \in Tokens : Visible[t] # "absent"}}
    <3>1. CASE \E p \in Procs : pc[p] = "saving"
      <4>1. Contents = NoRecords
        BY <3>1 DEF Safe, Current, Contents
      <4> QED  BY <2>1, <4>1, NoRecordsType
    <3>2. CASE \A p \in Procs : pc[p] # "saving"
      BY <2>1, <3>2, VisibleIs
    <3> QED  BY <3>1, <3>2
  <2>4. Ledger!Show
    BY <2>1, <2>2, <2>3 DEF Ledger!Show, Applied
  <2> QED  BY <2>4 DEF Ledger!Next
<1>8. CASE (\E t \in Tokens : Expire(t)) \/ UNCHANGED vars
  <2>1. UNCHANGED <<shape, recs, pc, op, lock, loaded, granted, shown, faults>>
    BY <1>8 DEF Expire, vars
  <2>2. Visible' = Visible /\ Applied' = Applied
    BY <2>1, Unseen DEF Applied
  <2> QED  BY <2>1, <2>2, <1>q
<1> QED  BY <1>1, <1>2, <1>3, <1>4, <1>5, <1>6, <1>7, <1>8 DEF Next, Step

\* For any number of processes, tokens and faults, the load-modify-save cycles
\* under the lock are operations of a ledger that take effect at one instant, and a
\* list without the lock sees a whole state of it or nothing.
THEOREM StoreKeepsLedger == Spec => StoreIsAtomic
<1> QED  BY LedgerInit, LedgerNext, SafeAlways, PTL DEF Spec, StoreIsAtomic, Ledger!Spec
=============================================================================
