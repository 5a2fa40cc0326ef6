---------------------------- MODULE ServerProofs ----------------------------
(***************************************************************************)
(* Theorems about the server as a whole, for any tokens, sessions,         *)
(* connections, harnesses and thresholds of the roster.                    *)
(***************************************************************************)
EXTENDS Server, TLAPS

-----------------------------------------------------------------------------
(* A step changes the roster by an operation of the roster, for a token.     *)

Tables ==
    /\ record \in [Tokens -> {"unused", "bound", "invalidated", "revoked"}]
    /\ cred \in [Tokens -> {"none", "sent", "held", "lost"}]
    /\ at \in [Conns -> Steps]
    /\ who \in [Conns -> Tokens \cup {None}]
    /\ entry \in [Tokens -> Conns \cup {None}]
    /\ admin \in [Tokens -> {"idle", "deleted", "removed", "done"}]
    /\ slipped \subseteq Conns
    /\ \A c \in Conns : at[c] = "free" <=> who[c] = None

LEMMA GotoTables ==
    ASSUME Tables, NEW c \in Conns, NEW step \in Steps, Goto(c, step), at[c] # "free"
    PROVE  /\ at' \in [Conns -> Steps]
           /\ who' \in [Conns -> Tokens \cup {None}]
           /\ slipped' \subseteq Conns
           /\ \A d \in Conns : at'[d] = "free" <=> who'[d] = None
           /\ who[c] \in Tokens
           /\ \A d \in Conns : who'[d] # None => who'[d] = who[d]
  BY ServerAssumption DEF Goto, Tables

LEMMA TablesStep == Tables /\ [Next]_vars => Tables'
<1> SUFFICES ASSUME Tables, [Next]_vars PROVE Tables'
  OBVIOUS
<1>1. ASSUME NEW t \in Tokens, handle_join(t) \/ JoinOk(t) PROVE Tables'
  BY <1>1 DEF handle_join, JoinOk, Tables
<1>2. ASSUME NEW t \in Tokens, Admin(t) PROVE Tables'
  BY <1>2 DEF Admin, Delete, RevokeRemove, RevokeMark, Remove, store, Tables
<1>3. ASSUME NEW c \in Conns, NEW t \in Tokens, Verify(c, t) PROVE Tables'
  BY <1>3, ServerAssumption DEF Verify, store, Tables, Steps
<1>4. ASSUME NEW c \in Conns, Task(c) PROVE Tables'
  <2>1. CASE RosterFrame(c)
    BY <2>1 DEF RosterFrame, store, Tables
  <2>2. CASE ~ RosterFrame(c)
    <3>1. at[c] # "free" /\ \E step \in Steps : Goto(c, step)
      BY <1>4, <2>2 DEF Task, Insert, HelloSent, HelloFailed, LoopEnds, ChannelClosed,
                        Deregister, MarkGone, Steps
    <3>2. who[c] \in Tokens
      BY <3>1, ServerAssumption DEF Tables
    <3>3. entry' \in [Tokens -> Conns \cup {None}]
      BY <1>4, <2>2, <3>2 DEF Task, Insert, HelloSent, HelloFailed, LoopEnds, ChannelClosed,
                              Deregister, MarkGone, Remove, Tables
    <3>4. UNCHANGED <<record, cred, admin>>
      BY <1>4, <2>2 DEF Task, Insert, HelloSent, HelloFailed, LoopEnds, ChannelClosed,
                        Deregister, MarkGone, store
    <3> QED  BY <3>1, <3>3, <3>4, GotoTables DEF Tables
  <2> QED  BY <2>1, <2>2
<1>5. CASE Relay
  BY <1>5 DEF Relay, QueryTarget, hostname_of, QuerySend, QueryFails, QueryOk, store, Tables
<1>6. CASE Time
  BY <1>6 DEF Time, store, Tables
<1>7. CASE UNCHANGED vars
  BY <1>7 DEF vars, store, Tables
<1> QED  BY <1>1, <1>2, <1>3, <1>4, <1>5, <1>6, <1>7 DEF Next

LEMMA TablesInvariant == Spec => []Tables
<1>1. Init => Tables
  BY DEF Init, Tables, Steps
<1> QED  BY <1>1, TablesStep, PTL DEF Spec

LEMMA RosterStep == Tables /\ [Next]_vars => [R!Next]_rows
<1> SUFFICES ASSUME Tables, [Next]_vars PROVE [R!Next]_rows
  OBVIOUS
<1>1. ASSUME NEW t \in Tokens, handle_join(t) \/ JoinOk(t) PROVE UNCHANGED rows
  BY <1>1 DEF handle_join, JoinOk
<1>2. ASSUME NEW t \in Tokens, Admin(t) PROVE [R!Next]_rows
  BY <1>2 DEF Admin, Delete, RevokeRemove, RevokeMark, R!Next
<1>3. ASSUME NEW c \in Conns, NEW t \in Tokens, Verify(c, t) PROVE UNCHANGED rows
  BY <1>3 DEF Verify
<1>4. ASSUME NEW c \in Conns, Task(c) PROVE [R!Next]_rows
  <2>1. at[c] # "free" => who[c] \in Tokens
    BY ServerAssumption DEF Tables
  <2>2. CASE RosterFrame(c)
    BY <2>1, <2>2 DEF RosterFrame, R!Next, R!Heartbeat
  <2>3. CASE MarkGone(c)
    BY <2>1, <2>3 DEF MarkGone, R!Next
  <2>4. CASE ~ RosterFrame(c) /\ ~ MarkGone(c)
    BY <1>4, <2>4 DEF Task, Insert, HelloSent, HelloFailed, LoopEnds, ChannelClosed, Deregister
  <2> QED  BY <2>2, <2>3, <2>4
<1>5. CASE Relay
  BY <1>5 DEF Relay, QueryTarget, hostname_of, QuerySend, QueryFails, QueryOk
<1>6. CASE Time
  BY <1>6 DEF Time, R!Next
<1>7. CASE UNCHANGED vars
  BY <1>7 DEF vars
<1> QED  BY <1>1, <1>2, <1>3, <1>4, <1>5, <1>6, <1>7 DEF Next

-----------------------------------------------------------------------------
(* A credential that never reached its client.                               *)

LostInv ==
    \A t \in Tokens :
        /\ record[t] = "unused" => cred[t] = "none"
        /\ cred[t] # "held" => entry[t] = None /\ \A c \in Conns : who[c] # t

LEMMA LostStep == Tables /\ LostInv /\ [Next]_vars => LostInv'
<1> SUFFICES ASSUME Tables, LostInv, [Next]_vars PROVE LostInv'
  OBVIOUS
<1>1. ASSUME NEW t \in Tokens, handle_join(t) \/ JoinOk(t) PROVE LostInv'
  BY <1>1 DEF handle_join, JoinOk, Tables, LostInv
<1>2. ASSUME NEW t \in Tokens, Admin(t) PROVE LostInv'
  BY <1>2 DEF Admin, Delete, RevokeRemove, RevokeMark, Remove, store, Tables, LostInv
<1>3. ASSUME NEW c \in Conns, NEW t \in Tokens, Verify(c, t) PROVE LostInv'
  BY <1>3 DEF Verify, store, Tables, LostInv
<1>4. ASSUME NEW c \in Conns, Task(c) PROVE LostInv'
  <2>1. UNCHANGED <<record, cred>>
    BY <1>4 DEF Task, Insert, HelloSent, HelloFailed, RosterFrame, LoopEnds, ChannelClosed,
                Deregister, MarkGone, store
  <2>2. at[c] # "free" /\ who[c] \in Tokens
    BY <1>4, ServerAssumption DEF Task, Insert, HelloSent, HelloFailed, RosterFrame, LoopEnds,
                                  ChannelClosed, Deregister, MarkGone, Tables
  <2>3. \A d \in Conns : who'[d] # None => who'[d] = who[d]
    <3>1. CASE RosterFrame(c)
      BY <3>1 DEF RosterFrame
    <3>2. CASE \E step \in Steps : Goto(c, step)
      BY <3>2, <2>2, GotoTables
    <3> QED  BY <1>4, <3>1, <3>2
             DEF Task, Insert, HelloSent, HelloFailed, LoopEnds, ChannelClosed, Deregister, MarkGone, Steps
  <2>4. \A t \in Tokens : entry'[t] # entry[t] => t = who[c]
    BY <1>4, <2>2 DEF Task, Insert, HelloSent, HelloFailed, RosterFrame, LoopEnds, ChannelClosed,
                      Deregister, MarkGone, Remove, Tables
  <2>5. cred[who[c]] = "held"
    BY <2>2 DEF LostInv
  <2> QED  BY <2>1, <2>2, <2>3, <2>4, <2>5, ServerAssumption DEF LostInv
<1>5. CASE Relay
  BY <1>5 DEF Relay, QueryTarget, hostname_of, QuerySend, QueryFails, QueryOk, store, LostInv
<1>6. CASE Time
  BY <1>6 DEF Time, store, LostInv
<1>7. CASE UNCHANGED vars
  BY <1>7 DEF vars, store, LostInv
<1> QED  BY <1>1, <1>2, <1>3, <1>4, <1>5, <1>6, <1>7 DEF Next

\* A lost credential stays lost.
LEMMA LostStays ==
    ASSUME Tables, LostInv, [Next]_vars, NEW t \in Tokens, cred[t] = "lost"
    PROVE  cred'[t] = "lost"
<1>1. ASSUME NEW u \in Tokens, handle_join(u) \/ JoinOk(u) PROVE cred'[t] = "lost"
  BY <1>1 DEF handle_join, JoinOk, Tables, LostInv
<1>2. CASE ~ \E u \in Tokens : handle_join(u) \/ JoinOk(u)
  <2>1. cred' = cred
    BY <1>2 DEF Next, Admin, Delete, RevokeRemove, RevokeMark, Verify, Task, Insert, HelloSent,
                HelloFailed, RosterFrame, LoopEnds, ChannelClosed, Deregister, MarkGone, Relay,
                QueryTarget, hostname_of, QuerySend, QueryFails, QueryOk, Time, store, vars
  <2> QED  BY <2>1
<1> QED  BY <1>1, <1>2

\* A token whose join_ok was lost is spent: no later step mints another credential
\* for it, tracks a connection of it or authenticates one.
THEOREM LostForGood == Spec => LostCredentialIsFinal
<1>1. Init => LostInv
  BY ServerAssumption DEF Init, LostInv
<1>2. Tables /\ LostInv /\ LostInv' /\ [Next]_vars =>
         [\A t \in Tokens : cred[t] = "lost" =>
             cred'[t] = "lost" /\ entry'[t] = None /\ \A c \in Conns : who'[c] # t]_vars
  BY LostStays DEF LostInv
<1> QED  BY <1>1, <1>2, LostStep, TablesInvariant, PTL DEF Spec, LostCredentialIsFinal

-----------------------------------------------------------------------------
(* The answers.                                                              *)

\* The server offers features of the protocol only, and no feature is a harness.
LEMMA Vocabularies ==
    /\ SERVER_FEATURES \subseteq PROTOCOL_FEATURES
    /\ PROTOCOL_FEATURES \cap HARNESSES_KNOWN = {}
<1>1. SERVER_FEATURES \subseteq PROTOCOL_FEATURES
  BY DEF SERVER_FEATURES, PROTOCOL_FEATURES
<1>2. PROTOCOL_FEATURES \cap HARNESSES_KNOWN = {}
  BY DEF PROTOCOL_FEATURES, HARNESSES_KNOWN
<1> QED  BY <1>1, <1>2

LEMMA SupportAsCaps ==
    ASSUME NEW conf, NEW id \in Known
    PROVE  support_body(<<id>>, conf) = Capabilities(conf)[id]
<1>1. <<id>> # << >> /\ <<id>>[1] = id
  OBVIOUS
<1>2. CASE id \in HARNESSES_KNOWN
  BY <1>1, <1>2, Vocabularies DEF support_body, Capabilities, Known
<1>3. CASE id \in PROTOCOL_FEATURES /\ id \notin HARNESSES_KNOWN
  <2>1. CASE id \in SERVER_FEATURES
    <3>1. support_body(<<id>>, conf) = Feature(TRUE)
      BY <1>1, <2>1 DEF support_body
    <3>2. Capabilities(conf)[id] = Feature(id \in SERVER_FEATURES)
      BY <1>3 DEF Capabilities
    <3>3. (id \in SERVER_FEATURES) = TRUE
      BY <2>1
    <3> QED  BY <3>1, <3>2, <3>3, Zenon
  <2>2. CASE id \notin SERVER_FEATURES
    <3>1. support_body(<<id>>, conf) = Feature(FALSE)
      BY <1>1, <1>3, <2>2 DEF support_body
    <3>2. Capabilities(conf)[id] = Feature(id \in SERVER_FEATURES)
      BY <1>3 DEF Capabilities
    <3>3. (id \in SERVER_FEATURES) = FALSE
      BY <2>2
    <3> QED  BY <3>1, <3>2, <3>3, Zenon
  <2> QED  BY <2>1, <2>2
<1> QED  BY <1>2, <1>3 DEF Known

\* `support <id>` and the map of `caps` never disagree about an id, whatever the
\* tables hold.
THEOREM AnswersAlwaysAgree == Spec => []AnswersAgree
<1>1. ASSUME NEW n, NEW k, NEW conf PROVE Agree(n, k, conf)
  <2>1. dispatch("caps", << >>, n, k, conf).capabilities = Capabilities(conf)
    BY DEF dispatch, caps_body
  <2>2. \A id : dispatch("support", <<id>>, n, k, conf) = support_body(<<id>>, conf)
    BY DEF dispatch
  <2>3. DOMAIN Capabilities(conf) = Known /\ Known \cup SERVER_FEATURES = Known
    BY Vocabularies DEF Capabilities, Known
  <2> QED  BY <2>1, <2>2, <2>3, SupportAsCaps DEF Agree
<1>2. AnswersAgree
  BY <1>1 DEF AnswersAgree
<1> QED  BY <1>2, PTL

-----------------------------------------------------------------------------
(* Type correctness: the tables, the roster and the relayed query.           *)

\* The roster's operations keep its rows well formed with any thresholds.
LEMMA RosterTypes == R!TypeOK /\ [R!Next]_rows => R!TypeOK'
<1> SUFFICES ASSUME R!TypeOK, [R!Next]_rows PROVE R!TypeOK'
  OBVIOUS
<1> USE ServerAssumption DEF R!TypeOK
<1>1. ASSUME NEW t \in Tokens, NEW s \in Sessions, R!Advertise(t, s) PROVE R!TypeOK'
  <2>1. R!Fresh(t) \in R!Row /\ R!Fresh(t).owner # None
    BY DEF R!Row, R!Fresh
  <2> QED  BY <1>1, <2>1 DEF R!Advertise
<1>2. ASSUME NEW t \in Tokens, R!Touch(t) PROVE R!TypeOK'
  <2>1. \A s \in Sessions : /\ [rows[s] EXCEPT !.age = 0] \in R!Row
                            /\ [rows[s] EXCEPT !.age = 0].owner = rows[s].owner
    BY DEF R!Row
  <2>2. t # None
    OBVIOUS
  <2> QED  BY <1>2, <2>1, <2>2 DEF R!Touch
<1>3. ASSUME NEW t \in Tokens, R!MarkGone(t) PROVE R!TypeOK'
  <2>1. \A s \in Sessions : /\ [rows[s] EXCEPT !.goneNow = TRUE] \in R!Row
                            /\ [rows[s] EXCEPT !.goneNow = TRUE].owner = rows[s].owner
    BY DEF R!Row
  <2>2. t # None
    OBVIOUS
  <2> QED  BY <1>3, <2>1, <2>2 DEF R!MarkGone
<1>4. ASSUME NEW s \in Sessions, NEW b \in BOOLEAN, R!SetBlocked(s, b) PROVE R!TypeOK'
  <2>1. /\ [rows[s] EXCEPT !.blocked = b] \in R!Row
        /\ [rows[s] EXCEPT !.blocked = b].owner = rows[s].owner
    BY DEF R!Row
  <2> QED  BY <1>4, <2>1 DEF R!SetBlocked, R!Held
<1>5. CASE R!Prune
  <2>1. R!NoRow \in R!Row
    BY DEF R!Row, R!NoRow, R!Fresh
  <2> QED  BY <1>5, <2>1 DEF R!Prune
<1>6. CASE R!Tick
  <2>1. \A s \in Sessions : /\ R!Older(rows[s]) \in R!Row
                            /\ R!Older(rows[s]).owner = rows[s].owner
                            /\ rows[s].owner = None => R!Older(rows[s]) = rows[s]
    BY DEF R!Row, R!Older
  <2> QED  BY <1>6, <2>1 DEF R!Tick
<1>7. CASE UNCHANGED rows
  BY <1>7
<1> QED  BY <1>1, <1>2, <1>3, <1>4, <1>5, <1>6, <1>7 DEF R!Next, R!Heartbeat

\* The relayed query names a token while it is under way, and what it records is
\* a harness that was asked for and the token it was asked of.
RelayTypes ==
    /\ relay \in [at : {"idle", "target", "named", "sent"}, token : Tokens \cup {None},
                  known : BOOLEAN, conn : Conns \cup {None}]
    /\ relay.at # "idle" => relay.token \in Tokens
    /\ confirmed \subseteq Harnesses \X Tokens

LEMMA RelayTypesNext == Tables /\ RelayTypes /\ [Next]_vars => RelayTypes'
<1> SUFFICES ASSUME Tables, RelayTypes, [Next]_vars PROVE RelayTypes'
  OBVIOUS
<1>1. CASE UNCHANGED query
  BY <1>1 DEF query, RelayTypes
<1>2. NoRelay \in [at : {"idle", "target", "named", "sent"}, token : Tokens \cup {None},
                   known : BOOLEAN, conn : Conns \cup {None}] /\ NoRelay.at = "idle"
  BY DEF NoRelay
<1>3. CASE Relay
  <2>1. ASSUME NEW t \in Tokens, QueryTarget(t) PROVE RelayTypes'
    BY <2>1 DEF QueryTarget, RelayTypes
  <2>2. CASE hostname_of
    BY <2>2 DEF hostname_of, RelayTypes
  <2>3. CASE QuerySend
    <3>1. relay.token \in Tokens /\ entry[relay.token] \in Conns \cup {None}
      BY <2>3 DEF QuerySend, RelayTypes, Tables
    <3> QED  BY <2>3, <3>1, <1>2 DEF QuerySend, RelayTypes
  <2>4. CASE QueryFails
    BY <2>4, <1>2 DEF QueryFails, RelayTypes
  <2>5. ASSUME NEW h \in Harnesses, QueryOk(h) PROVE RelayTypes'
    BY <2>5, <1>2 DEF QueryOk, RelayTypes
  <2> QED  BY <1>3, <2>1, <2>2, <2>3, <2>4, <2>5 DEF Relay
<1>4. ~ Relay => UNCHANGED query
  BY DEF Next, handle_join, JoinOk, Admin, Delete, RevokeRemove, RevokeMark, Verify, Task,
         Insert, HelloSent, HelloFailed, RosterFrame, LoopEnds, ChannelClosed, Deregister,
         MarkGone, Time, query, vars
<1> QED  BY <1>1, <1>3, <1>4

\* Every table of the running server holds what its type says: a connection has a
\* token exactly from verify_credential to its exit, and a query under way a target.
THEOREM TypeCorrect == Spec => []TypeOK
<1>1. Init => R!TypeOK /\ RelayTypes
  BY ServerAssumption DEF Init, R!Init, R!TypeOK, R!Row, R!NoRow, R!Fresh, NoRelay, RelayTypes
<1>2. Tables /\ R!TypeOK /\ RelayTypes => TypeOK
  BY DEF Tables, RelayTypes, TypeOK
<1> QED  BY <1>1, <1>2, TablesInvariant, RosterStep, RosterTypes, RelayTypesNext, PTL DEF Spec

-----------------------------------------------------------------------------
(* What a delete leaves.  The entry of a token is its connection's until that *)
(* connection's own exit or a revoke removes it; once a revoke has, only a    *)
(* connection it overtook (slipped) can put one back.                         *)

Removed(t) == admin[t] \in {"removed", "done"}

RevokeInv ==
    /\ \A t \in Tokens : admin[t] # "idle" => record[t] \in {"invalidated", "revoked"}
    /\ \A t \in Tokens : entry[t] # None =>
          who[entry[t]] = t /\ at[entry[t]] \in {"greeting", "loop", "closed", "broken"}
    /\ \A t \in Tokens : Removed(t) => entry[t] = None \/ entry[t] \in slipped
    /\ \A c \in Conns : at[c] = "verified" /\ Removed(who[c]) => c \in slipped

\* A step of the store, of the relay or of the roster leaves the parts alone.
LEMMA RevokeFrame ==
    ASSUME RevokeInv, UNCHANGED <<entry, at, who, admin, slipped>>,
           \A t \in Tokens : record[t] \in {"invalidated", "revoked"} => record'[t] = record[t]
    PROVE  RevokeInv'
  BY DEF RevokeInv, Removed

\* A step of a connection task.  Its exit removes the entry it may have.
LEMMA RevokeTask ==
    ASSUME Tables, RevokeInv, NEW c \in Conns, Task(c)
    PROVE  RevokeInv'
<1>1. at[c] # "free" /\ who[c] \in Tokens /\ c # None
  BY ServerAssumption DEF Task, Insert, HelloSent, HelloFailed, RosterFrame, LoopEnds,
         ChannelClosed, Deregister, MarkGone, Tables
<1>2. UNCHANGED <<record, admin>>
  BY DEF Task, Insert, HelloSent, HelloFailed, RosterFrame, LoopEnds, ChannelClosed,
         Deregister, MarkGone, store
<1>3. CASE RosterFrame(c)
  BY <1>3, RevokeFrame DEF RosterFrame, store
<1>4. CASE Insert(c)
  <2>1. /\ entry' = [entry EXCEPT ![who[c]] = c] /\ at' = [at EXCEPT ![c] = "greeting"]
        /\ who' = who /\ slipped' = slipped /\ at[c] = "verified"
    BY <1>4 DEF Insert, Goto
  <2> QED  BY <1>1, <1>2, <2>1 DEF Tables, RevokeInv, Removed
<1>5. CASE HelloSent(c) \/ LoopEnds(c) \/ ChannelClosed(c)
  <2>1. PICK step \in {"loop", "closed", "broken"} : at' = [at EXCEPT ![c] = step]
    BY <1>5 DEF HelloSent, LoopEnds, ChannelClosed, Goto
  <2>2. UNCHANGED <<entry, who, slipped>>
    BY <1>5 DEF HelloSent, LoopEnds, ChannelClosed, Goto
  <2> QED  BY <1>2, <2>1, <2>2 DEF Tables, RevokeInv, Removed
<1>6. CASE HelloFailed(c) \/ Deregister(c)
  <2>1. PICK step \in {"free", "marking"} : Goto(c, step)
    BY <1>6 DEF HelloFailed, Deregister
  <2>2. entry' = [entry EXCEPT ![who[c]] = None]
    BY <1>6 DEF HelloFailed, Deregister, Remove
  <2>3. \A d \in Conns : d # c =>
           at'[d] = at[d] /\ who'[d] = who[d] /\ (d \in slipped' <=> d \in slipped)
    BY <2>1 DEF Goto, Tables
  <2>4. at'[c] \in {"free", "marking"}
    BY <2>1 DEF Goto, Tables
  <2>5. \A t \in Tokens : entry'[t] # None => entry'[t] = entry[t] /\ entry[t] \in Conns \ {c}
    BY <1>1, <2>2 DEF Tables, RevokeInv
  <2> QED  BY <1>2, <2>3, <2>4, <2>5 DEF RevokeInv, Removed
<1>7. CASE MarkGone(c)
  <2>1. at[c] = "marking" /\ Goto(c, "free") /\ entry' = entry
    BY <1>7 DEF MarkGone
  <2>2. \A d \in Conns : d # c =>
           at'[d] = at[d] /\ who'[d] = who[d] /\ (d \in slipped' <=> d \in slipped)
    BY <2>1 DEF Goto, Tables
  <2>3. at'[c] = "free"
    BY <2>1 DEF Goto, Tables
  <2>4. \A t \in Tokens : entry[t] # None => entry[t] \in Conns \ {c}
    BY <2>1 DEF Tables, RevokeInv
  <2> QED  BY <1>2, <2>1, <2>2, <2>3, <2>4 DEF RevokeInv, Removed
<1> QED  BY <1>3, <1>4, <1>5, <1>6, <1>7 DEF Task

LEMMA RevokeNext == Tables /\ RevokeInv /\ [Next]_vars => RevokeInv'
<1> SUFFICES ASSUME Tables, RevokeInv, [Next]_vars PROVE RevokeInv'
  OBVIOUS
<1>1. ASSUME NEW t \in Tokens, handle_join(t) \/ JoinOk(t) PROVE RevokeInv'
  <2>1. /\ UNCHANGED <<entry, at, who, admin, slipped>>
        /\ \A u \in Tokens : record[u] \in {"invalidated", "revoked"} => record'[u] = record[u]
    BY <1>1 DEF handle_join, JoinOk, Tables
  <2> QED  BY <2>1, RevokeFrame
<1>2. ASSUME NEW t \in Tokens, Delete(t) PROVE RevokeInv'
  <2>1. /\ UNCHANGED <<entry, at, who, slipped>>
        /\ admin' = [admin EXCEPT ![t] = "deleted"]
        /\ record'[t] \in {"invalidated", "revoked"}
        /\ \A u \in Tokens : u # t => record'[u] = record[u]
    BY <1>2 DEF Delete, Tables
  <2>2. \A u \in Tokens : Removed(u)' => Removed(u) /\ admin'[u] = admin[u]
    BY <2>1 DEF Removed, Tables
  <2>3. \A u \in Tokens : admin'[u] # "idle" => record'[u] \in {"invalidated", "revoked"}
    BY <2>1 DEF RevokeInv, Tables
  <2>4. \A d \in Conns : at[d] = "verified" => who[d] \in Tokens
    BY ServerAssumption DEF Tables
  <2> QED  BY <2>1, <2>2, <2>3, <2>4 DEF RevokeInv, Removed
<1>3. ASSUME NEW t \in Tokens, RevokeRemove(t) PROVE RevokeInv'
  <2>1. /\ UNCHANGED <<record, at, who>> /\ admin[t] = "deleted"
        /\ admin' = [admin EXCEPT ![t] = "removed"]
        /\ entry' = [entry EXCEPT ![t] = None]
        /\ slipped' = slipped \cup {c \in Conns : at[c] = "verified" /\ who[c] = t}
    BY <1>3 DEF RevokeRemove, Remove, store
  <2> QED  BY <2>1, ServerAssumption DEF RevokeInv, Removed, Tables
<1>4. ASSUME NEW t \in Tokens, RevokeMark(t) PROVE RevokeInv'
  <2>1. /\ UNCHANGED <<record, entry, at, who, slipped>> /\ admin[t] = "removed"
        /\ admin' = [admin EXCEPT ![t] = "done"]
    BY <1>4 DEF RevokeMark, store
  <2>2. \A u \in Tokens : /\ Removed(u)' <=> Removed(u)
                          /\ admin'[u] # "idle" => admin[u] # "idle"
    BY <2>1 DEF Removed, Tables
  <2>3. \A d \in Conns : at[d] = "verified" => who[d] \in Tokens
    BY ServerAssumption DEF Tables
  <2> QED  BY <2>1, <2>2, <2>3 DEF RevokeInv, Removed
<1>5. ASSUME NEW c \in Conns, NEW t \in Tokens, Verify(c, t) PROVE RevokeInv'
  <2>1. /\ UNCHANGED <<record, entry, admin, slipped>> /\ at[c] = "free" /\ record[t] = "bound"
        /\ at' = [at EXCEPT ![c] = "verified"] /\ who' = [who EXCEPT ![c] = t]
    BY <1>5 DEF Verify, store
  <2>2. admin[t] = "idle"
    BY <2>1 DEF RevokeInv
  <2>3. \A u \in Tokens : entry[u] # None => entry[u] \in Conns \ {c}
    BY <2>1 DEF RevokeInv, Tables
  <2> QED  BY <2>1, <2>2, <2>3 DEF RevokeInv, Removed, Tables
<1>6. CASE Relay
  BY <1>6, RevokeFrame DEF Relay, QueryTarget, hostname_of, QuerySend, QueryFails, QueryOk, store
<1>7. CASE Time
  BY <1>7, RevokeFrame DEF Time, store
<1>8. CASE UNCHANGED vars
  BY <1>8, RevokeFrame DEF vars, store
<1> QED  BY <1>1, <1>2, <1>3, <1>4, <1>5, <1>6, <1>7, <1>8, RevokeTask DEF Next, Admin

LEMMA RevokeInvariant == Spec => []RevokeInv
<1>1. Init => RevokeInv
  BY DEF Init, RevokeInv, Removed
<1> QED  BY <1>1, RevokeNext, TablesInvariant, PTL DEF Spec

\* When a delete and its live revoke are done and no connection they overtook is
\* left, the store refuses the token and the registry has no entry to route to or
\* to relay a query through: every connection of the token that is left runs
\* without one, or is at its exit.
THEOREM RevokeLeavesNoEntry ==
    Spec => [](\A t \in Tokens : Clean(t) =>
                  /\ record[t] \in {"invalidated", "revoked"}
                  /\ entry[t] = None
                  /\ \A c \in Conns : who[c] = t => at[c] # "verified")
<1>1. Tables /\ RevokeInv =>
         \A t \in Tokens : Clean(t) => /\ record[t] \in {"invalidated", "revoked"}
                                       /\ entry[t] = None
                                       /\ \A c \in Conns : who[c] = t => at[c] # "verified"
  BY DEF Tables, RevokeInv, Removed, Clean
<1> QED  BY <1>1, RevokeInvariant, TablesInvariant, PTL

\* From then on, connections of the token only end: the safety half of
\* DeleteDisconnects, for which fairness adds that the ones left do end.
THEOREM RevokedStaysOut ==
    Spec => [][\A t \in Tokens : Clean(t) =>
                  /\ \A c \in Conns : who'[c] = t => who[c] = t
                  /\ entry'[t] = None]_vars
<1>1. Tables /\ RevokeInv /\ [Next]_vars =>
         [\A t \in Tokens : Clean(t) => /\ \A c \in Conns : who'[c] = t => who[c] = t
                                        /\ entry'[t] = None]_vars
  <2> SUFFICES ASSUME Tables, RevokeInv, Next, NEW t \in Tokens, Clean(t)
               PROVE  (\A c \in Conns : who'[c] = t => who[c] = t) /\ entry'[t] = None
    BY DEF vars
  <2>1. record[t] # "bound" /\ entry[t] = None /\ t # None
    BY ServerAssumption DEF Tables, RevokeInv, Removed, Clean
  <2>2. ASSUME NEW c \in Conns, who[c] = t PROVE at[c] # "verified"
    BY <2>2 DEF RevokeInv, Removed, Clean
  <2>3. ASSUME NEW c \in Conns, NEW u \in Tokens, Verify(c, u)
        PROVE  who' = [who EXCEPT ![c] = u] /\ u # t /\ entry' = entry
    BY <2>3, <2>1 DEF Verify
  <2>4. ASSUME NEW c \in Conns, Task(c)
        PROVE  (\A d \in Conns : who'[d] = t => who[d] = t) /\ entry'[t] = None
    <3>1. who' = who \/ who' = [who EXCEPT ![c] = None]
      BY <2>4 DEF Task, Insert, HelloSent, HelloFailed, RosterFrame, LoopEnds, ChannelClosed,
                  Deregister, MarkGone, Goto
    <3>2. \/ entry' = entry \/ entry' = [entry EXCEPT ![who[c]] = None]
          \/ entry' = [entry EXCEPT ![who[c]] = c] /\ at[c] = "verified"
      BY <2>4 DEF Task, Insert, HelloSent, HelloFailed, RosterFrame, LoopEnds, ChannelClosed,
                  Deregister, MarkGone, Remove
    <3>3. at[c] = "verified" => who[c] # t
      BY <2>2
    <3> QED  BY <3>1, <3>2, <3>3, <2>1 DEF Tables
  <2>5. ASSUME NEW u \in Tokens, Admin(u) PROVE who' = who /\ entry'[t] = None
    BY <2>5, <2>1 DEF Admin, Delete, RevokeRemove, RevokeMark, Remove, Tables
  <2>6. ASSUME Relay \/ Time \/ \E u \in Tokens : handle_join(u) \/ JoinOk(u)
        PROVE  who' = who /\ entry' = entry
    BY <2>6 DEF Relay, QueryTarget, hostname_of, QuerySend, QueryFails, QueryOk, Time,
                handle_join, JoinOk
  <2> QED  BY <2>1, <2>3, <2>4, <2>5, <2>6 DEF Next, Tables
<1> QED  BY <1>1, RevokeInvariant, TablesInvariant, PTL DEF Spec

-----------------------------------------------------------------------------
(* A deleted token ends up disconnected.  Once the revoke is through, nothing   *)
(* of the token can be taken up again; what is left of its connections ends by  *)
(* the steps of their own tasks.                                                *)

\* A connection of the token is at this step.
Left(c, t, step) == who[c] = t /\ at[c] = step

\* How a connection of a token that is cut off can move, and that it comes to no
\* new connection.
LEMMA CutStep ==
    ASSUME Tables, [Next]_vars, NEW t \in Tokens, Cut(t)
    PROVE  /\ Cut(t)'
           /\ \A c \in Conns :
                /\ who[c] # t => who'[c] # t
                /\ Left(c, t, "greeting") =>
                      (Left(c, t, "greeting") \/ Left(c, t, "loop"))' \/ who'[c] # t
                /\ Left(c, t, "loop") =>
                      (Left(c, t, "loop") \/ Left(c, t, "closed") \/ Left(c, t, "broken"))'
                /\ Left(c, t, "closed") => (Left(c, t, "closed") \/ Left(c, t, "marking"))'
                /\ Left(c, t, "broken") => Left(c, t, "broken")' \/ who'[c] # t
                /\ Left(c, t, "marking") => Left(c, t, "marking")' \/ who'[c] # t
<1>0. record[t] # "bound" /\ t # None
  BY ServerAssumption DEF Cut
<1>1. CASE \E c \in Conns : Task(c)
  <2> PICK d \in Conns : Task(d)
    BY <1>1
  <2>1. record' = record
    BY DEF Task, Insert, HelloSent, HelloFailed, RosterFrame, LoopEnds, ChannelClosed,
           Deregister, MarkGone, store
  <2>2. \A c \in Conns : c # d => who'[c] = who[c] /\ at'[c] = at[c]
    BY DEF Task, Insert, HelloSent, HelloFailed, RosterFrame, LoopEnds, ChannelClosed,
           Deregister, MarkGone, Goto, Tables
  <2>3. /\ who'[d] = who[d] \/ who'[d] = None
        /\ at'[d] # "verified" \/ at'[d] = at[d]
        /\ who[d] = t =>
              \/ who'[d] = t /\ at'[d] = at[d]
              \/ at[d] = "greeting" /\ who'[d] = t /\ at'[d] = "loop"
              \/ at[d] = "greeting" /\ who'[d] = None
              \/ at[d] = "loop" /\ who'[d] = t /\ at'[d] \in {"closed", "broken"}
              \/ at[d] = "closed" /\ who'[d] = t /\ at'[d] = "marking"
              \/ at[d] = "broken" /\ who'[d] = None
              \/ at[d] = "marking" /\ who'[d] = None
    BY DEF Cut, Task, Insert, HelloSent, HelloFailed, RosterFrame, LoopEnds, ChannelClosed,
           Deregister, MarkGone, Goto, Tables
  <2>4. entry'[t] = None
    BY <1>0 DEF Cut, Task, Insert, HelloSent, HelloFailed, RosterFrame, LoopEnds, ChannelClosed,
           Deregister, MarkGone, Remove, Tables
  <2> QED  BY <1>0, <2>1, <2>2, <2>3, <2>4 DEF Cut, Left
<1>2. CASE \E c \in Conns, u \in Tokens : Verify(c, u)
  BY <1>0, <1>2 DEF Verify, Cut, Left, Tables, store
<1>3. CASE \E u \in Tokens : Admin(u)
  BY <1>0, <1>3 DEF Admin, Delete, RevokeRemove, RevokeMark, Remove, Cut, Left, Tables, store
<1>4. CASE Relay \/ Time \/ (\E u \in Tokens : handle_join(u) \/ JoinOk(u)) \/ UNCHANGED vars
  <2>1. UNCHANGED <<entry, who, at>> /\ record'[t] = record[t]
    BY <1>0, <1>4 DEF Relay, QueryTarget, hostname_of, QuerySend, QueryFails, QueryOk, Time,
                handle_join, JoinOk, store, vars, Cut, Tables
  <2> QED  BY <2>1 DEF Cut, Left
<1> QED  BY <1>1, <1>2, <1>3, <1>4 DEF Next

\* The guard of a task's step is all that it waits for.
GuardsSuffice(c) ==
    /\ at[c] = "greeting" => ENABLED <<HelloSent(c) \/ HelloFailed(c)>>_vars
    /\ at[c] = "loop" /\ entry[who[c]] # c => ENABLED <<ChannelClosed(c)>>_vars
    /\ at[c] \in {"closed", "broken"} => ENABLED <<Deregister(c)>>_vars
    /\ at[c] = "marking" => ENABLED <<MarkGone(c)>>_vars

\* One connection, from the fairness of its own task.
LEMMA ConnLive ==
    ASSUME NEW t \in Tokens, NEW c \in Conns
    PROVE  Spec /\ ConnFair(c) /\ []GuardsSuffice(c) => (Clean(t) ~> [](who[c] # t))
<1> DEFINE Here(step) == Left(c, t, step)
           Away == who[c] # t
<1>1. Tables /\ [Next]_vars /\ Cut(t) =>
         /\ Cut(t)'
         /\ Away => Away'
         /\ Here("greeting") => (Here("greeting") \/ Here("loop"))' \/ Away'
         /\ Here("loop") => (Here("loop") \/ Here("closed") \/ Here("broken"))'
         /\ Here("closed") => (Here("closed") \/ Here("marking"))'
         /\ Here("broken") => Here("broken")' \/ Away'
         /\ Here("marking") => Here("marking")' \/ Away'
  BY CutStep
<1>2. Tables /\ Cut(t) =>
         \/ Away \/ Here("greeting") \/ Here("loop") \/ Here("closed") \/ Here("broken")
         \/ Here("marking")
  BY ServerAssumption DEF Tables, Cut, Left, Steps
<1>3. Tables /\ Cut(t) /\ GuardsSuffice(c) =>
         /\ Here("greeting") => ENABLED <<HelloSent(c) \/ HelloFailed(c)>>_vars
         /\ Here("loop") => ENABLED <<ChannelClosed(c)>>_vars
         /\ Here("closed") \/ Here("broken") => ENABLED <<Deregister(c)>>_vars
         /\ Here("marking") => ENABLED <<MarkGone(c)>>_vars
  <2>1. None # c
    BY ServerAssumption
  <2> QED  BY <2>1 DEF GuardsSuffice, Cut, Left
<1>4. Tables /\ <<HelloSent(c) \/ HelloFailed(c)>>_vars => ~ Here("greeting")'
  BY DEF HelloSent, HelloFailed, Goto, Left, Tables
<1>5. Tables /\ <<ChannelClosed(c)>>_vars => ~ Here("loop")'
  BY DEF ChannelClosed, Goto, Left, Tables
<1>6. Tables /\ <<Deregister(c)>>_vars => ~ Here("closed")' /\ ~ Here("broken")'
  BY DEF Deregister, Goto, Left, Tables
<1>7. Tables /\ <<MarkGone(c)>>_vars => ~ Here("marking")'
  BY DEF MarkGone, Goto, Left, Tables
<1> HIDE DEF Here, Away
<1>8. Spec /\ ConnFair(c) /\ []GuardsSuffice(c) => (Cut(t) ~> []Away)
  BY <1>1, <1>2, <1>3, <1>4, <1>5, <1>6, <1>7, TablesInvariant, PTL DEF Spec, ConnFair
<1>9. Tables /\ RevokeInv /\ Clean(t) => Cut(t)
  BY DEF Tables, RevokeInv, Removed, Clean, Cut
<1> QED  BY <1>8, <1>9, TablesInvariant, RevokeInvariant, PTL DEF Away

\* For any number of tokens and connections: after a delete and its live revoke,
\* each connection of the token ends for good, one that the revoke overtook between
\* verify_credential and insert excepted (DeleteDisconnects, connection by connection).
THEOREM DeletedIsLeft ==
    FairSpec /\ (\A c \in Conns : []GuardsSuffice(c)) =>
        \A t \in Tokens, c \in Conns : Clean(t) ~> [](who[c] # t)
<1> SUFFICES ASSUME FairSpec, \A c \in Conns : []GuardsSuffice(c),
                    NEW t \in Tokens, NEW c \in Conns
             PROVE  Clean(t) ~> [](who[c] # t)
  OBVIOUS
<1>1. Spec /\ ConnFair(c) /\ []GuardsSuffice(c)
  BY DEF FairSpec
<1> QED  BY <1>1, ConnLive, PTL

\* A step of the roster that is no heartbeat of the token leaves its rows or ages them.
LEMMA RowsDecay ==
    ASSUME R!TypeOK, NEW t \in Tokens, NEW s \in Sessions, rows'[s].owner = t,
           \/ \E u \in Tokens : u # t /\ (R!Touch(u) \/ \E n \in Sessions : R!Advertise(u, n))
           \/ \E u \in Tokens : R!MarkGone(u)
           \/ R!Prune \/ R!Tick \/ UNCHANGED rows
    PROVE  /\ rows[s].owner = t /\ rows'[s].age >= rows[s].age
           /\ rows[s].goneNow => rows'[s].goneNow
<1>0. rows \in [Sessions -> R!Row] /\ rows[s] \in R!Row /\ t # None /\ PruneAfter \in Nat
  BY ServerAssumption DEF R!TypeOK
<1>1. CASE rows'[s] = rows[s]
  BY <1>0, <1>1 DEF R!Row
<1>2. ASSUME NEW u \in Tokens, u # t, R!Touch(u) PROVE rows'[s] = rows[s]
  BY <1>0, <1>2 DEF R!Touch, R!Row
<1>3. ASSUME NEW u \in Tokens, u # t, NEW n \in Sessions, R!Advertise(u, n)
      PROVE  rows'[s] = rows[s]
  BY <1>0, <1>3 DEF R!Advertise, R!Fresh
<1>4. CASE \E u \in Tokens : R!MarkGone(u)
  BY <1>0, <1>4 DEF R!MarkGone, R!Row
<1>5. CASE R!Prune
  BY <1>0, <1>5 DEF R!Prune, R!NoRow, R!Fresh, R!Row
<1>6. CASE R!Tick
  BY <1>0, <1>6 DEF R!Tick, R!Older, R!Row
<1> QED  BY <1>1, <1>2, <1>3, <1>4, <1>5, <1>6

\* Only the frames of a token's own connections are heartbeats of it.
LEMMA SilentStep ==
    ASSUME Tables, [Next]_vars, NEW t \in Tokens, \A c \in Conns : who[c] # t
    PROVE  \/ \E u \in Tokens : u # t /\ (R!Touch(u) \/ \E n \in Sessions : R!Advertise(u, n))
           \/ \E u \in Tokens : R!MarkGone(u)
           \/ R!Prune \/ R!Tick \/ UNCHANGED rows
<1>1. ASSUME NEW c \in Conns, RosterFrame(c)
      PROVE  \E u \in Tokens : u # t /\ (R!Touch(u) \/ \E n \in Sessions : R!Advertise(u, n))
  <2>1. who[c] \in Tokens /\ who[c] # t
    BY <1>1, ServerAssumption DEF RosterFrame, Tables
  <2> QED  BY <1>1, <2>1 DEF RosterFrame
<1>2. ASSUME NEW c \in Conns, MarkGone(c) PROVE \E u \in Tokens : R!MarkGone(u)
  <2>1. who[c] \in Tokens
    BY <1>2, ServerAssumption DEF MarkGone, Tables
  <2> QED  BY <1>2, <2>1 DEF MarkGone
<1>3. ASSUME NEW c \in Conns, Task(c), ~ RosterFrame(c), ~ MarkGone(c) PROVE UNCHANGED rows
  BY <1>3 DEF Task, Insert, HelloSent, HelloFailed, LoopEnds, ChannelClosed, Deregister
<1>4. ASSUME NEW u \in Tokens, Admin(u) PROVE R!MarkGone(u) \/ UNCHANGED rows
  BY <1>4 DEF Admin, Delete, RevokeRemove, RevokeMark
<1>5. ASSUME NEW u \in Tokens, handle_join(u) \/ JoinOk(u) PROVE UNCHANGED rows
  BY <1>5 DEF handle_join, JoinOk
<1>6. ASSUME NEW c \in Conns, NEW u \in Tokens, Verify(c, u) PROVE UNCHANGED rows
  BY <1>6 DEF Verify
<1>7. CASE Relay
  BY <1>7 DEF Relay, QueryTarget, hostname_of, QuerySend, QueryFails, QueryOk
<1>8. CASE Time
  BY <1>8 DEF Time
<1>9. CASE UNCHANGED vars
  BY <1>9 DEF vars
<1> QED  BY <1>1, <1>2, <1>3, <1>4, <1>5, <1>6, <1>7, <1>8, <1>9 DEF Next

\* A token that a delete has cut off only fades: its connections only end, and once
\* they have, no session is routed to it that was not already.  This is the safety
\* half of DeleteDisconnects and DeleteUnroutes, for any tokens, sessions and
\* connections (fairness adds that the connections do end and that time ages the rows).
THEOREM LeftNeverRoutes == Spec => DeletedOnlyFades
<1> DEFINE Fades == \A t \in Tokens : Cut(t) =>
              /\ Cut(t)'
              /\ \A c \in Conns : who'[c] = t => who[c] = t
              /\ (\A c \in Conns : who[c] # t) =>
                    \A s \in Sessions : R!Route(s)' = t => R!Route(s) = t
<1>1. Tables /\ R!TypeOK /\ R!TypeOK' /\ [Next]_vars => [Fades]_vars
  <2> SUFFICES ASSUME Tables, R!TypeOK, R!TypeOK', [Next]_vars, NEW t \in Tokens, Cut(t)
               PROVE  /\ Cut(t)'
                      /\ \A c \in Conns : who'[c] = t => who[c] = t
                      /\ (\A c \in Conns : who[c] # t) =>
                            \A s \in Sessions : R!Route(s)' = t => R!Route(s) = t
    BY DEF Fades
  <2>1. Cut(t)' /\ \A c \in Conns : who'[c] = t => who[c] = t
    BY CutStep
  <2>2. ASSUME \A c \in Conns : who[c] # t, NEW s \in Sessions, R!Route(s)' = t
        PROVE  R!Route(s) = t
    <3>0. t # None /\ GoneAfter \in Nat /\ PruneAfter \in Nat
      BY ServerAssumption
    <3>1. rows'[s].owner = t /\ ~ rows'[s].goneNow /\ ~ (rows'[s].age >= GoneAfter)
      BY <2>2, <3>0 DEF R!Route, R!Held, R!State
    <3>2. rows[s].owner = t /\ rows'[s].age >= rows[s].age /\ ~ rows[s].goneNow
      BY <2>2, <3>1, SilentStep, RowsDecay
    <3>3. rows[s].age \in Nat /\ rows'[s].age \in Nat
      BY <3>0 DEF R!TypeOK, R!Row
    <3>4. R!State(rows[s]) # "gone"
      BY <3>0, <3>1, <3>2, <3>3 DEF R!State
    <3> QED  BY <3>0, <3>2, <3>4 DEF R!Route, R!Held
  <2> QED  BY <2>1, <2>2
<1>2. TypeOK => R!TypeOK
  BY DEF TypeOK
<1> QED  BY <1>1, <1>2, TablesInvariant, TypeCorrect, PTL DEF Spec, DeletedOnlyFades, Fades
=============================================================================
