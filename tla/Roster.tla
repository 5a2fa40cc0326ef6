------------------------------- MODULE Roster -------------------------------
(***************************************************************************)
(* The roster: one row per advertised session name, owned by a token.      *)
(* Time enters only as the age of a row's last_seen, in ticks; ages past   *)
(* the largest threshold cannot be told apart and are capped there.        *)
(***************************************************************************)
EXTENDS Naturals

CONSTANTS
    Tokens, Sessions,
    ReconnectAfter, GoneAfter, PruneAfter,   \* RosterConfig, in ticks
    None                                     \* no owner: the row is absent

\* The order of RosterConfig::default; the environment can override each alone.
ASSUME ConfigAssumption ==
    /\ ReconnectAfter \in Nat /\ GoneAfter \in Nat /\ PruneAfter \in Nat
    /\ ReconnectAfter <= GoneAfter /\ GoneAfter <= PruneAfter
    /\ None \notin Tokens

VARIABLE rows   \* Roster.entries

Row == [owner : Tokens \cup {None}, age : 0..PruneAfter, goneNow : BOOLEAN, blocked : BOOLEAN]
Fresh(t) == [owner |-> t, age |-> 0, goneNow |-> FALSE, blocked |-> FALSE]
NoRow == Fresh(None)

\* An absent row keeps nothing of the row it was.
TypeOK ==
    /\ rows \in [Sessions -> Row]
    /\ \A s \in Sessions : rows[s].owner = None => rows[s] = NoRow

Init == rows = [s \in Sessions |-> NoRow]

\* RosterEntry::state_at.
State(row) ==
    IF row.goneNow \/ row.age >= GoneAfter THEN "gone"
    ELSE IF row.age >= ReconnectAfter THEN "reconnecting" ELSE "connected"

Held(s) == rows[s].owner # None

\* resolve_session: the token a prompt for s is routed to, or None.
Route(s) == IF Held(s) /\ State(rows[s]) # "gone" THEN rows[s].owner ELSE None

\* Mutant: only a connected row defends its name.
ConflictIfConnected(t, s) == Held(s) /\ rows[s].owner # t /\ State(rows[s]) = "connected"

\* The name is held by another token's row that is not gone.
Conflict(t, s) == Held(s) /\ rows[s].owner # t /\ State(rows[s]) # "gone"

-----------------------------------------------------------------------------
\* advertise_with_mode: a fresh row, or nothing at all on a conflict.
Advertise(t, s) ==
    rows' = IF Conflict(t, s) THEN rows
            ELSE [rows EXCEPT ![s] = Fresh(t)]

\* Mutant: a heartbeat also clears gone_now.
TouchRevives(t) ==
    rows' = [s \in Sessions |->
                IF rows[s].owner = t THEN [rows[s] EXCEPT !.age = 0, !.goneNow = FALSE]
                ELSE rows[s]]

\* touch_client: last_seen of every row of the token; gone_now is left alone.
Touch(t) ==
    rows' = [s \in Sessions |->
                IF rows[s].owner = t THEN [rows[s] EXCEPT !.age = 0] ELSE rows[s]]

\* Mutant: the row is made when there is none.
SetBlockedAnyway(s, b) == rows' = [rows EXCEPT ![s].blocked = b]

\* set_blocked: by name, whoever reports it.
SetBlocked(s, b) ==
    rows' = IF Held(s) THEN [rows EXCEPT ![s].blocked = b] ELSE rows

\* mark_gone: every row of the token, kept but known to be over.
MarkGone(t) ==
    rows' = [s \in Sessions |->
                IF rows[s].owner = t THEN [rows[s] EXCEPT !.goneNow = TRUE] ELSE rows[s]]

\* Mutants: the sweep uses reconnect_after, or spares the rows marked gone.
PruneEarly ==
    rows' = [s \in Sessions |->
                IF Held(s) /\ rows[s].age >= ReconnectAfter THEN NoRow ELSE rows[s]]
PruneDecayed ==
    rows' = [s \in Sessions |->
                IF Held(s) /\ rows[s].age >= PruneAfter /\ ~ rows[s].goneNow
                THEN NoRow ELSE rows[s]]

\* prune: rows not seen for prune_after are dropped.
Prune ==
    rows' = [s \in Sessions |->
                IF Held(s) /\ rows[s].age >= PruneAfter THEN NoRow ELSE rows[s]]

\* One tick of the clock.
Older(row) ==
    IF row.owner # None /\ row.age < PruneAfter THEN [row EXCEPT !.age = @ + 1] ELSE row
Tick == rows' = [s \in Sessions |-> Older(rows[s])]

Heartbeat(t) == Touch(t) \/ \E s \in Sessions : Advertise(t, s)

Next ==
    \/ \E t \in Tokens : Heartbeat(t) \/ MarkGone(t)
    \/ \E s \in Sessions, b \in BOOLEAN : SetBlocked(s, b)
    \/ Prune
    \/ Tick

Spec == Init /\ [][Next]_rows

\* Time passes and the sweep task keeps sweeping.
FairSpec == Spec /\ WF_rows(Tick) /\ WF_rows(Prune)

-----------------------------------------------------------------------------
(* Properties *)

\* ADR 0007's collision policy: a name changes hands only when the row that held
\* it is gone, whatever order advertises, heartbeats, closes and sweeps come in.
NoLiveTakeover ==
    [][\A s \in Sessions :
          /\ Held(s) /\ rows'[s].owner \in Tokens /\ rows'[s].owner # rows[s].owner
          => State(rows[s]) = "gone"]_rows

\* The sweep is memory hygiene only: no route disappears because of it.
PruneOnlyGone ==
    [][\A s \in Sessions : Held(s) /\ rows'[s].owner = None => State(rows[s]) = "gone"]_rows

\* A row the server knows to be over (mark_gone) is revived by a presence frame
\* naming it and by nothing else: no late heartbeat of the token does.
OnlyPresenceRevives ==
    [][\A s \in Sessions :
          rows[s].goneNow /\ Held(s) /\ State(rows'[s]) # "gone" /\ rows'[s].owner # None
          => \E t \in Tokens : Advertise(t, s)]_rows

\* No row outlives its owner: when a token is not heard from any more, its rows
\* decay and are swept, whatever the other tokens do.
SilentRowsVanish ==
    \A t \in Tokens :
        (<>[][~ Heartbeat(t)]_rows) => <>[](\A s \in Sessions : rows[s].owner # t)

=============================================================================
