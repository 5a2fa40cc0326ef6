------------------------------- MODULE Server -------------------------------
(***************************************************************************)
(* The running server as a whole: the token store (each operation atomic   *)
(* under its file lock, as TokenStore shows), the registry's entries, the   *)
(* roster, the confirmed-harness table, the connection tasks that use them  *)
(* and the control requests `revoke` and `query <id> support`.  The locks   *)
(* of the four tables are separate: what a function does under two of them  *)
(* is two steps here.                                                       *)
(***************************************************************************)
EXTENDS FiniteSets, Query

CONSTANTS
    Tokens, Sessions, Conns,
    Harnesses,                                \* the harness ids that are asked for
    ReconnectAfter, GoneAfter, PruneAfter,    \* RosterConfig, in ticks
    None

ASSUME ServerAssumption ==
    /\ None \notin Tokens \cup Conns
    /\ ReconnectAfter \in Nat /\ GoneAfter \in Nat /\ PruneAfter \in Nat

VARIABLES
    record,     \* record[t]: the state stored for the token
    cred,       \* cred[t]: where the credential minted by join is
    at,         \* at[c]: where the task of connection c is
    who,        \* who[c]: the token it authenticated as
    entry,      \* entry[t]: the connection behind the registry's entry
    rows,       \* the roster
    admin,      \* admin[t]: how far `token delete` is
    relay,      \* the relayed `support` query in flight
    confirmed,  \* <<harness, hostname>> pairs; a hostname is the token it belongs to
    slipped     \* history: connections past verify_credential when a revoke removed the entry

R == INSTANCE Roster

store == <<record, cred>>
query == <<relay, confirmed>>
vars == <<store, entry, query, at, who, rows, admin, slipped>>

-----------------------------------------------------------------------------
Steps == {"free", "verified", "greeting", "loop", "closed", "broken", "marking"}
NoRelay == [at |-> "idle", token |-> None, known |-> FALSE, conn |-> None]

TypeOK ==
    /\ record \in [Tokens -> {"unused", "bound", "invalidated", "revoked"}]
    /\ cred \in [Tokens -> {"none", "sent", "held", "lost"}]
    /\ at \in [Conns -> Steps]
    /\ who \in [Conns -> Tokens \cup {None}]
    /\ entry \in [Tokens -> Conns \cup {None}]
    /\ R!TypeOK
    /\ admin \in [Tokens -> {"idle", "deleted", "removed", "done"}]
    /\ relay \in [at : {"idle", "target", "named", "sent"}, token : Tokens \cup {None},
                  known : BOOLEAN, conn : Conns \cup {None}]
    /\ relay.at # "idle" => relay.token \in Tokens
    /\ confirmed \subseteq Harnesses \X Tokens
    /\ slipped \subseteq Conns
    /\ \A c \in Conns : at[c] = "free" <=> who[c] = None

Init ==
    /\ record = [t \in Tokens |-> "unused"]
    /\ cred = [t \in Tokens |-> "none"]
    /\ at = [c \in Conns |-> "free"]
    /\ who = [c \in Conns |-> None]
    /\ entry = [t \in Tokens |-> None]
    /\ R!Init
    /\ admin = [t \in Tokens |-> "idle"]
    /\ relay = NoRelay
    /\ confirmed = {}
    /\ slipped = {}

-----------------------------------------------------------------------------
(* join: redeem binds the token, then join_ok carries the only copy of the   *)
(* credential.  A join that redeem refuses changes nothing here.             *)

\* Mutant: redeem also takes a token that is bound.
JoinAgain(t) ==
    /\ record[t] \in {"unused", "bound"}
    /\ record' = [record EXCEPT ![t] = "bound"]
    /\ cred' = [cred EXCEPT ![t] = "sent"]
    /\ UNCHANGED <<entry, query, at, who, rows, admin, slipped>>

handle_join(t) ==
    /\ record[t] = "unused"
    /\ record' = [record EXCEPT ![t] = "bound"]
    /\ cred' = [cred EXCEPT ![t] = "sent"]
    /\ UNCHANGED <<entry, query, at, who, rows, admin, slipped>>

\* The result of the send is ignored: the frame arrives or it does not.
JoinOk(t) ==
    /\ cred[t] = "sent"
    /\ \E to \in {"held", "lost"} : cred' = [cred EXCEPT ![t] = to]
    /\ UNCHANGED <<record, entry, query, at, who, rows, admin, slipped>>

-----------------------------------------------------------------------------
(* A connection task *)

Goto(c, step) ==
    /\ at' = [at EXCEPT ![c] = step]
    /\ who' = IF step = "free" THEN [who EXCEPT ![c] = None] ELSE who
    /\ slipped' = IF step = "free" THEN slipped \ {c} ELSE slipped

\* Mutant: a credential is good while the record exists.
VerifyAnyState(c, t) ==
    /\ at[c] = "free" /\ cred[t] = "held" /\ record[t] # "unused"
    /\ at' = [at EXCEPT ![c] = "verified"]
    /\ who' = [who EXCEPT ![c] = t]
    /\ UNCHANGED <<store, entry, query, rows, admin, slipped>>

\* verify_credential accepts.
Verify(c, t) ==
    /\ at[c] = "free" /\ cred[t] = "held" /\ record[t] = "bound"
    /\ at' = [at EXCEPT ![c] = "verified"]
    /\ who' = [who EXCEPT ![c] = t]
    /\ UNCHANGED <<store, entry, query, rows, admin, slipped>>

\* registry.insert: the entry it replaces is dropped, and its channel closes.
Insert(c) ==
    /\ at[c] = "verified"
    /\ entry' = [entry EXCEPT ![who[c]] = c]
    /\ Goto(c, "greeting")
    /\ UNCHANGED <<store, query, rows, admin>>

HelloSent(c) ==
    /\ at[c] = "greeting"
    /\ Goto(c, "loop")
    /\ UNCHANGED <<store, entry, query, rows, admin>>

\* registry.remove: whatever entry the token has.
Remove(t) == entry' = [entry EXCEPT ![t] = None]

HelloFailed(c) ==
    /\ at[c] = "greeting"
    /\ Remove(who[c])
    /\ Goto(c, "free")
    /\ UNCHANGED <<store, query, rows, admin>>

\* handle_frame: presence and ping.  A frame is handled whether or not the
\* connection still has an entry.  (hello renames the entry's host, session_blocked
\* sets a column of the row: nothing here reads either.)
RosterFrame(c) ==
    /\ at[c] = "loop"
    /\ \/ R!Touch(who[c])
       \/ \E s \in Sessions : R!Advertise(who[c], s)
    /\ UNCHANGED <<store, entry, query, at, who, admin, slipped>>

\* Close or EOF; a frame that does not decode, a read or write error.
LoopEnds(c) ==
    /\ at[c] = "loop"
    /\ \E end \in {"closed", "broken"} : Goto(c, end)
    /\ UNCHANGED <<store, entry, query, rows, admin>>

\* out_rx.recv() is None: the entry that held out_tx is gone.
ChannelClosed(c) ==
    /\ at[c] = "loop" /\ entry[who[c]] # c
    /\ Goto(c, "broken")
    /\ UNCHANGED <<store, entry, query, rows, admin>>

\* The exit: remove, and mark_gone when the peer is known to have closed.
Deregister(c) ==
    /\ at[c] \in {"closed", "broken"}
    /\ Remove(who[c])
    /\ Goto(c, IF at[c] = "closed" THEN "marking" ELSE "free")
    /\ UNCHANGED <<store, query, rows, admin>>

MarkGone(c) ==
    /\ at[c] = "marking"
    /\ R!MarkGone(who[c])
    /\ Goto(c, "free")
    /\ UNCHANGED <<store, entry, query, admin>>

-----------------------------------------------------------------------------
(* `token delete` / `client detach`: the durable delete, then Revoke asked of *)
(* the live server.                                                           *)

Delete(t) ==
    /\ admin[t] \in {"idle", "done"}
    /\ record' = [record EXCEPT ![t] = IF @ = "bound" THEN "revoked" ELSE "invalidated"]
    /\ admin' = [admin EXCEPT ![t] = "deleted"]
    /\ UNCHANGED <<cred, entry, query, at, who, rows, slipped>>

\* Mutant: Revoke only marks the rows.
RevokeKeepsEntry(t) ==
    /\ admin[t] = "deleted"
    /\ admin' = [admin EXCEPT ![t] = "removed"]
    /\ UNCHANGED <<store, entry, query, at, who, rows, slipped>>

RevokeRemove(t) ==
    /\ admin[t] = "deleted"
    /\ Remove(t)
    /\ admin' = [admin EXCEPT ![t] = "removed"]
    /\ slipped' = slipped \cup {c \in Conns : at[c] = "verified" /\ who[c] = t}
    /\ UNCHANGED <<store, query, at, who, rows>>

RevokeMark(t) ==
    /\ admin[t] = "removed"
    /\ R!MarkGone(t)
    /\ admin' = [admin EXCEPT ![t] = "done"]
    /\ UNCHANGED <<store, entry, query, at, who, slipped>>

-----------------------------------------------------------------------------
(* `query <id> support <harness>`: three lookups in the registry under its    *)
(* lock, taken one after the other, a round trip, and the table.              *)

\* resolve_target: by token id (or by the client id or hostname of an entry).
QueryTarget(t) ==
    /\ relay.at = "idle" /\ entry[t] # None
    /\ relay' = [at |-> "target", token |-> t, known |-> FALSE, conn |-> None]
    /\ UNCHANGED <<store, entry, confirmed, at, who, rows, admin, slipped>>

hostname_of ==
    /\ relay.at = "target"
    /\ relay' = [relay EXCEPT !.at = "named", !.known = entry[relay.token] # None]
    /\ UNCHANGED <<store, entry, confirmed, at, who, rows, admin, slipped>>

\* Registry::query registers in the entry the token has now.
QuerySend ==
    /\ relay.at = "named"
    /\ relay' = IF entry[relay.token] = None THEN NoRelay
                ELSE [relay EXCEPT !.at = "sent", !.conn = entry[relay.token]]
    /\ UNCHANGED <<store, entry, confirmed, at, who, rows, admin, slipped>>

\* Mutant: a hostname that was not found is recorded as an empty one.
QueryOkUnnamed(h) ==
    /\ relay.at = "sent" /\ entry[relay.token] = relay.conn /\ at[relay.conn] = "loop"
    /\ confirmed' = confirmed \cup {<<h, IF relay.known THEN relay.token ELSE None>>}
    /\ relay' = NoRelay
    /\ UNCHANGED <<store, entry, at, who, rows, admin, slipped>>

\* The client answers ok: recorded under the hostname read before the query.
QueryOk(h) ==
    /\ relay.at = "sent" /\ entry[relay.token] = relay.conn /\ at[relay.conn] = "loop"
    /\ confirmed' = IF relay.known THEN confirmed \cup {<<h, relay.token>>} ELSE confirmed
    /\ relay' = NoRelay
    /\ UNCHANGED <<store, entry, at, who, rows, admin, slipped>>

\* An answer that is not ok, an error, a timeout, or the entry dropped.
QueryFails ==
    /\ relay.at = "sent"
    /\ relay' = NoRelay
    /\ UNCHANGED <<store, entry, confirmed, at, who, rows, admin, slipped>>

-----------------------------------------------------------------------------
Time ==
    /\ R!Prune \/ R!Tick
    /\ UNCHANGED <<store, entry, query, at, who, admin, slipped>>

Task(c) ==
    \/ Insert(c) \/ HelloSent(c) \/ HelloFailed(c) \/ RosterFrame(c)
    \/ LoopEnds(c) \/ ChannelClosed(c) \/ Deregister(c) \/ MarkGone(c)

Admin(t) == Delete(t) \/ RevokeRemove(t) \/ RevokeMark(t)

Relay ==
    \/ \E t \in Tokens : QueryTarget(t)
    \/ hostname_of \/ QuerySend \/ QueryFails
    \/ \E h \in Harnesses : QueryOk(h)

Next ==
    \/ \E t \in Tokens : handle_join(t) \/ JoinOk(t) \/ Admin(t)
    \/ \E c \in Conns, t \in Tokens : Verify(c, t)
    \/ \E c \in Conns : Task(c)
    \/ Relay
    \/ Time

Spec == Init /\ [][Next]_vars

\* Tasks that can go on without their peer do: a send to the peer returns, a
\* closed channel is noticed (select! polls its branches in random order), the
\* exit runs to its end.  Time passes.
ConnFair(c) ==
    /\ WF_vars(Insert(c))
    /\ WF_vars(HelloSent(c) \/ HelloFailed(c))
    /\ SF_vars(ChannelClosed(c))
    /\ WF_vars(Deregister(c))
    /\ WF_vars(MarkGone(c))
TimeFair == WF_vars(R!Tick /\ Time)
FairSpec == Spec /\ (\A c \in Conns : ConnFair(c)) /\ TimeFair

-----------------------------------------------------------------------------
(* Properties *)

Clean(t) == admin[t] = "done" /\ \A c \in slipped : who[c] # t

\* After `token delete` and its live Revoke no connection of the token stays open:
\* the loop of each one finds its channel closed and ends, whatever frames come
\* first, and none authenticates again.  Excepted is the connection the revoke
\* overtook between verify_credential and insert.
DeleteDisconnects ==
    \A t \in Tokens : Clean(t) ~> [](\A c \in Conns : who[c] # t)

\* ... and no session is routed to it any more: a row that a late presence frame
\* of the dying connection revived after mark_gone decays.
DeleteUnroutes ==
    \A t \in Tokens : Clean(t) ~> [](\A s \in Sessions : R!Route(s) # t)

\* A join_ok that was lost cannot be made good: the token is spent, no second join
\* mints another credential and no connection of the token ever authenticates.
LostCredentialIsFinal ==
    [][\A t \in Tokens : cred[t] = "lost" =>
          cred'[t] = "lost" /\ entry'[t] = None /\ \A c \in Conns : who'[c] # t]_vars

\* Every answer agrees with every other about every id, in every state of the
\* tables: `support <id>` and the map of `caps`.
AnswersAgree ==
    Agree(Cardinality({t \in Tokens : entry[t] # None}),
          Cardinality({s \in Sessions : R!Route(s) # None}), confirmed)

\* No record to verify, no entry, and no connection on its way to one.
Cut(t) ==
    /\ record[t] \in {"invalidated", "revoked"}
    /\ entry[t] = None
    /\ \A c \in Conns : who[c] = t => at[c] # "verified"

\* A token that a delete has cut off only fades: it stays cut off, whatever joins,
\* authentications, closes and further deletes come; the connections it still has
\* only end; and once they have, no session is routed to it that was not already,
\* whoever touches, sweeps or marks the roster.
DeletedOnlyFades ==
    [][\A t \in Tokens : Cut(t) =>
          /\ Cut(t)'
          /\ \A c \in Conns : who'[c] = t => who[c] = t
          /\ (\A c \in Conns : who[c] # t) =>
                \A s \in Sessions : R!Route(s)' = t => R!Route(s) = t]_vars

=============================================================================
