---------------------------- MODULE RosterProofs ----------------------------
(* Safety of Roster for any tokens, sessions and thresholds. *)
EXTENDS Roster, TLAPS

LEMMA TypeInit == Init => TypeOK
BY ConfigAssumption DEF Init, TypeOK, Row, NoRow, Fresh

LEMMA TypeNext == TypeOK /\ [Next]_rows => TypeOK'
<1> SUFFICES ASSUME TypeOK, [Next]_rows PROVE TypeOK'
  OBVIOUS
<1> USE DEF TypeOK
<1>1. ASSUME NEW t \in Tokens, NEW s \in Sessions, Advertise(t, s) PROVE TypeOK'
  <2>1. Fresh(t) \in Row /\ Fresh(t).owner # None BY ConfigAssumption DEF Row, Fresh
  <2> QED BY <1>1, <2>1 DEF Advertise
<1>2. ASSUME NEW t \in Tokens, Touch(t) PROVE TypeOK'
  <2>1. \A s \in Sessions : /\ [rows[s] EXCEPT !.age = 0] \in Row
                            /\ [rows[s] EXCEPT !.age = 0].owner = rows[s].owner
    BY ConfigAssumption DEF Row
  <2>2. t # None BY ConfigAssumption
  <2> QED BY <1>2, <2>1, <2>2 DEF Touch
<1>3. ASSUME NEW t \in Tokens, MarkGone(t) PROVE TypeOK'
  <2>1. \A s \in Sessions : /\ [rows[s] EXCEPT !.goneNow = TRUE] \in Row
                            /\ [rows[s] EXCEPT !.goneNow = TRUE].owner = rows[s].owner
    BY DEF Row
  <2>2. t # None BY ConfigAssumption
  <2> QED BY <1>3, <2>1, <2>2 DEF MarkGone
<1>4. ASSUME NEW s \in Sessions, NEW b \in BOOLEAN, SetBlocked(s, b) PROVE TypeOK'
  <2>1. /\ [rows[s] EXCEPT !.blocked = b] \in Row
        /\ [rows[s] EXCEPT !.blocked = b].owner = rows[s].owner
    BY DEF Row
  <2> QED BY <1>4, <2>1 DEF SetBlocked, Held
<1>5. CASE Prune
  <2>1. NoRow \in Row BY ConfigAssumption DEF Row, NoRow, Fresh
  <2> QED BY <1>5, <2>1 DEF Prune
<1>6. CASE Tick
  <2>1. \A s \in Sessions : /\ Older(rows[s]) \in Row
                            /\ Older(rows[s]).owner = rows[s].owner
                            /\ rows[s].owner = None => Older(rows[s]) = rows[s]
    BY ConfigAssumption DEF Row, Older
  <2> QED BY <1>6, <2>1 DEF Tick
<1>7. CASE UNCHANGED rows BY <1>7
<1> QED BY <1>1, <1>2, <1>3, <1>4, <1>5, <1>6, <1>7 DEF Next, Heartbeat

\* Every row is well formed, no age passes the prune threshold and no operation
\* leaves a trace on a name that is not advertised.
THEOREM TypeCorrect == Spec => []TypeOK
BY TypeInit, TypeNext, PTL DEF Spec

\* What a step does to the owner of a row: it keeps it, a presence frame that met
\* no conflict sets it, or the sweep drops a row older than the threshold.
LEMMA OwnerChanges ==
    ASSUME TypeOK, [Next]_rows, NEW s \in Sessions, rows'[s].owner # rows[s].owner
    PROVE  \/ \E t \in Tokens : rows'[s].owner = t /\ ~ Conflict(t, s)
           \/ rows'[s].owner = None /\ Held(s) /\ rows[s].age >= PruneAfter
<1> USE DEF TypeOK
<1>1. ASSUME NEW t \in Tokens, NEW u \in Sessions, Advertise(t, u)
      PROVE  rows'[s].owner = t /\ ~ Conflict(t, s)
  <2>1. ~ Conflict(t, u) BY <1>1 DEF Advertise
  <2>2. rows' = [rows EXCEPT ![u] = Fresh(t)] BY <1>1, <2>1 DEF Advertise
  <2>3. u = s BY <2>2
  <2>4. rows'[s].owner = t BY <2>2, <2>3 DEF NoRow, Fresh
  <2> QED BY <2>1, <2>3, <2>4
<1>2. ASSUME NEW t \in Tokens, Touch(t) \/ MarkGone(t) PROVE FALSE
  BY <1>2 DEF Touch, MarkGone, Row
<1>3. ASSUME NEW u \in Sessions, NEW b \in BOOLEAN, SetBlocked(u, b) PROVE FALSE
  BY <1>3 DEF SetBlocked, Row
<1>4. CASE Prune
  <2>1. rows'[s] = NoRow /\ Held(s) /\ rows[s].age >= PruneAfter BY <1>4 DEF Prune
  <2> QED BY <2>1 DEF NoRow, Fresh
<1>5. ASSUME Tick PROVE FALSE
  BY <1>5 DEF Tick, Older, Row
<1>6. ASSUME UNCHANGED rows PROVE FALSE
  BY <1>6
<1> QED BY <1>1, <1>2, <1>3, <1>4, <1>5, <1>6 DEF Next, Heartbeat

\* A live row is never taken over: a name changes hands only when its row is gone.
THEOREM NeverTakenOver == Spec => NoLiveTakeover
<1>1. TypeOK /\ [Next]_rows =>
         [\A s \in Sessions :
             /\ Held(s) /\ rows'[s].owner \in Tokens /\ rows'[s].owner # rows[s].owner
             => State(rows[s]) = "gone"]_rows
  BY OwnerChanges, ConfigAssumption DEF Conflict, Held
<1> QED BY <1>1, TypeCorrect, PTL DEF Spec, NoLiveTakeover

\* The sweep drops gone rows only, given that prune_after is at least gone_after.
THEOREM SweepsGoneRows == Spec => PruneOnlyGone
<1>1. TypeOK /\ [Next]_rows =>
         [\A s \in Sessions : Held(s) /\ rows'[s].owner = None => State(rows[s]) = "gone"]_rows
  <2> SUFFICES ASSUME TypeOK, [Next]_rows, NEW s \in Sessions, Held(s), rows'[s].owner = None
               PROVE  State(rows[s]) = "gone"
    OBVIOUS
  <2>1. rows[s].age >= PruneAfter BY OwnerChanges, ConfigAssumption DEF Held
  <2>2. rows[s].age \in Nat BY DEF TypeOK, Row
  <2> QED BY <2>1, <2>2, ConfigAssumption DEF State
<1> QED BY <1>1, TypeCorrect, PTL DEF Spec, PruneOnlyGone

\* A row marked gone stays gone or absent through every step but a presence frame
\* for its own name.
THEOREM PresenceAloneRevives == Spec => OnlyPresenceRevives
<1>1. TypeOK /\ [Next]_rows =>
         [\A s \in Sessions :
             rows[s].goneNow /\ Held(s) /\ State(rows'[s]) # "gone" /\ rows'[s].owner # None
             => \E t \in Tokens : Advertise(t, s)]_rows
  <2> SUFFICES ASSUME TypeOK, Next, NEW s \in Sessions, rows[s].goneNow,
                      State(rows'[s]) # "gone", rows'[s].owner # None
               PROVE  \E t \in Tokens : Advertise(t, s)
    OBVIOUS
  <2>0. ~ rows'[s].goneNow BY DEF State
  <2> USE DEF TypeOK
  <2>1. ASSUME NEW t \in Tokens, NEW u \in Sessions, Advertise(t, u)
        PROVE  \E v \in Tokens : Advertise(v, s)
    <3>1. u = s BY <2>0, <2>1 DEF Advertise
    <3> QED BY <2>1, <3>1
  <2>2. ASSUME NEW t \in Tokens, Touch(t) \/ MarkGone(t) PROVE FALSE
    BY <2>0, <2>2 DEF Touch, MarkGone, Row
  <2>3. ASSUME NEW u \in Sessions, NEW b \in BOOLEAN, SetBlocked(u, b) PROVE FALSE
    BY <2>0, <2>3 DEF SetBlocked, Row
  <2>4. ASSUME Prune PROVE FALSE
    BY <2>0, <2>4 DEF Prune, NoRow, Fresh
  <2>5. ASSUME Tick PROVE FALSE
    BY <2>0, <2>5 DEF Tick, Older, Row
  <2> QED BY <2>1, <2>2, <2>3, <2>4, <2>5 DEF Next, Heartbeat
<1> QED BY <1>1, TypeCorrect, PTL DEF Spec, OnlyPresenceRevives

\* Without a heartbeat or a presence frame of its token no row of it appears, grows
\* younger or is taken back from gone, whatever the other tokens, the sweep and the
\* clock do; a sweep takes every row of it that is old enough.  (The safety half of
\* SilentRowsVanish: fairness adds that ticks and sweeps keep coming.)
THEOREM SilentRowsDecay ==
    Spec => [][\A t \in Tokens : ~ Heartbeat(t) =>
                 \A s \in Sessions :
                    /\ rows'[s].owner = t =>
                          /\ rows[s].owner = t /\ rows'[s].age >= rows[s].age
                          /\ rows[s].goneNow => rows'[s].goneNow
                    /\ Tick /\ rows[s].owner = t /\ rows[s].age < PruneAfter =>
                          rows'[s].age = rows[s].age + 1
                    /\ Prune /\ rows[s].owner = t /\ rows[s].age >= PruneAfter =>
                          rows'[s].owner = None]_rows
<1>1. TypeOK /\ [Next]_rows =>
         [\A t \in Tokens : ~ Heartbeat(t) =>
                 \A s \in Sessions :
                    /\ rows'[s].owner = t =>
                          /\ rows[s].owner = t /\ rows'[s].age >= rows[s].age
                          /\ rows[s].goneNow => rows'[s].goneNow
                    /\ Tick /\ rows[s].owner = t /\ rows[s].age < PruneAfter =>
                          rows'[s].age = rows[s].age + 1
                    /\ Prune /\ rows[s].owner = t /\ rows[s].age >= PruneAfter =>
                          rows'[s].owner = None]_rows
  <2> SUFFICES ASSUME TypeOK, Next, NEW t \in Tokens, ~ Heartbeat(t), NEW s \in Sessions
               PROVE  /\ rows'[s].owner = t =>
                          /\ rows[s].owner = t /\ rows'[s].age >= rows[s].age
                          /\ rows[s].goneNow => rows'[s].goneNow
                      /\ Tick /\ rows[s].owner = t /\ rows[s].age < PruneAfter =>
                          rows'[s].age = rows[s].age + 1
                      /\ Prune /\ rows[s].owner = t /\ rows[s].age >= PruneAfter =>
                          rows'[s].owner = None
    OBVIOUS
  <2>0. rows[s] \in Row /\ rows \in [Sessions -> Row] /\ t # None /\ PruneAfter \in Nat
    BY ConfigAssumption DEF TypeOK
  <2>1. Tick /\ rows[s].owner = t /\ rows[s].age < PruneAfter => rows'[s].age = rows[s].age + 1
    BY <2>0 DEF Tick, Older, Row
  <2>2. Prune /\ rows[s].owner = t /\ rows[s].age >= PruneAfter => rows'[s].owner = None
    BY <2>0 DEF Prune, Held, NoRow, Fresh
  <2>3. ASSUME rows'[s].owner = t
        PROVE  /\ rows[s].owner = t /\ rows'[s].age >= rows[s].age
               /\ rows[s].goneNow => rows'[s].goneNow
    <3>1. CASE rows'[s] = rows[s]
      BY <2>0, <2>3, <3>1 DEF Row
    <3>2. CASE \E u \in Tokens : Heartbeat(u)
      <4>1. PICK u \in Tokens : Heartbeat(u) /\ u # t
        BY <3>2
      <4>2. CASE Touch(u)
        BY <2>0, <2>3, <4>1, <4>2, <3>1 DEF Touch, Row
      <4>3. ASSUME NEW n \in Sessions, Advertise(u, n) PROVE rows'[s] = rows[s]
        BY <2>0, <2>3, <4>1, <4>3 DEF Advertise, Fresh
      <4> QED  BY <4>1, <4>2, <4>3, <3>1 DEF Heartbeat
    <3>3. CASE \E u \in Tokens : MarkGone(u)
      BY <2>0, <2>3, <3>3 DEF MarkGone, Row
    <3>4. CASE \E n \in Sessions, b \in BOOLEAN : SetBlocked(n, b)
      BY <2>0, <2>3, <3>4 DEF SetBlocked, Row
    <3>5. CASE Prune
      BY <2>0, <2>3, <3>5 DEF Prune, NoRow, Fresh, Row
    <3>6. CASE Tick
      BY <2>0, <2>3, <3>6 DEF Tick, Older, Row
    <3> QED  BY <3>2, <3>3, <3>4, <3>5, <3>6 DEF Next
  <2> QED  BY <2>1, <2>2, <2>3
<1> QED  BY <1>1, TypeCorrect, PTL DEF Spec
=============================================================================
