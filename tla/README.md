# A formal model of holler-server

TLA+ specifications of the parts of holler-server where concurrency, time and
failure matter, the TLC configurations that check them on small instances, and
TLAPS proofs, for instances of any size, of the safety properties and of as much of
the liveness as the prover carries. Every
definition is translated from the Rust source; `PROJECT.json` gives the lines.
Paths below are relative to the repository root.

## 1. The system

holler-server is a hub for coding-agent sessions. Clients join with a one-time
token, keep one authenticated WebSocket connection each, and advertise session
names. An operator's CLI talks to the running server over a Unix control socket
and asks it to ping, query, prompt, interrupt or answer a session, or to revoke
a client.

| Component | State it keeps | Operations | What must be right |
| --- | --- | --- | --- |
| Token store (`src/token/mod.rs`) | `tokens.json`, a lock file | mint, delete, redeem, verify_credential, list, ping | a secret works once, a deleted token never works again, concurrent processes lose nothing |
| Connection task (`src/wire/connection.rs`) | one task per socket; its outbound channel | auth/join, the session loop, exit | every exit deregisters; answers reach the right call |
| Registry (`src/wire/registry.rs`) | token -> Entry (out_tx, five pending maps); confirmed harnesses | insert, remove, ping, query, prompt, interrupt, answer, resolve_*, forget_* | a call returns the outcome its client gave it, once; nothing leaks; replaced connections close |
| Roster (`src/wire/roster.rs`) | session name -> row (owner, last_seen, gone_now, blocked) | advertise, touch_client, set_blocked, mark_gone, prune, resolve_session | a live name is never taken over; a dead one is freed |
| Control channel (`src/wire/control.rs`) | a Unix socket; one task per request | bind, serve, status, roster, query, say, interrupt, answer, revoke; the CLI's side | one server per state directory; revoke takes effect; a slow server is not reported as none |
| Listener (`src/wire/mod.rs`) | semaphore of unauthenticated slots, shutdown flag | serve, accept_loop, prune loop | slots come back; nothing is accepted past the cap |
| Lockout (`src/wire/lockout.rs`) | failures and lockout expiry per address | is_locked_out, record_failure | N failures in the window lock out, for the duration and no longer |
| Talk log (`src/wire/talklog.rs`) | one JSON file per session name | record_prompt, record_reply, read | no exchange is lost or mixed with another |
| Query answers (`src/wire/query.rs`, `hello.rs`) | none (reads registry and roster) | status, caps, support, protocol | the answers agree with each other |
| Codec (`src/proto/mod.rs`, `hello.rs`) | none | encode, decode | a frame that is not v1 has no effect; what is sent can be read |
| Advertise file (`src/advertise.rs`) | `advertise.json` | resolve, persist, read | `token mint` sees the server that runs |
| CLI (`src/main.rs`) | none | serve, token, client, query, say ... | delete also revokes live; outcomes are told apart |
| Debug log (`src/debug.rs`) | none | formatting, redaction | not modelled |

How they interact. A connection task authenticates through the token store,
inserts an Entry in the registry (replacing, and notifying, the previous
connection of the token), and from then on calls `resolve_*` for the answers its
client sends, `Roster` for presence, heartbeats and blocked reports, and writes
what calls put in its channel. A control task resolves a session in the roster
and runs one call on the registry. The registry map, each pending map, and the
roster map have a lock each; no lock is held across an await, so what happens
between two critical sections of one function is where other tasks interleave.
The store is shared with other processes through a file lock.

What is hard here: entries replaced between the two critical sections of a call;
the exit of an old connection racing the entry of the new one; timeouts racing
late answers; channels that close only when their last clone is dropped;
heartbeats, closes, sweeps and advertises in any order; whole-file rewrites by
several tasks and processes with crashes in between; a delete racing an
authentication; servers that start, stop and crash over one socket path. `PROJECT.json` lists these under
`hazards`, each at its line with the properties that would catch it.

## 2. Modules

| Module | Models |
| --- | --- |
| `Registry` | registry, connection tasks from accept to exit, the five calls, Revoke |
| `CallContract` | abstract specification: what a call promises its caller |
| `Roster` | the roster and the passing of time |
| `TokenStore` | tokens.json, its lock, its operations, crashes and failed writes |
| `TokenLedger` | abstract specification: what the store promises its callers |
| `PreAuth` | accept loop with its cap, lockout, a connection until it is authenticated |
| `Query` | the answers to `query`, as operators over the tables |
| `Server` | store, registry, roster, connection tasks, delete with revoke and a relayed query, composed |
| `Instance` | serve processes on one state directory, their socket and advertise file, and a CLI call |
| `TalkLog` | the talk log's files under the mutex of the process |
| `Codec` | decode, encode and the body structs |
| `Inbound` | which frame runs which handler, what is answered, when a connection closes |
| `MCRegistry`, `MCTokenStore`, `MCTalkLog` | symmetry sets, kinds of call and file names for TLC |
| `RegistryProofs`, `RosterProofs`, `PreAuthProofs`, `TokenStoreProofs`, `InstanceProofs`, `TalkLogProofs`, `InboundProofs`, `ServerProofs` | theorems and proofs |

Operators marked *Mutant* in a comment are plausible bugs of the definition that
follows them. No specification uses them; `PROJECT.json` names, for each property
of each passing run, the mutant that violates it.

### Registry

An Entry is created by exactly one connection task, so `entries[t]` names that
connection, `pending[c]` is the union of its Entry's five pending maps (the kind
of a call says which one it is in), and `outq[c]` is the channel behind `out_tx`.
`phase[c]` is where the task is in `handle_connection`; `stage[r]` where a call is
in its function. Each critical section is one action:

* `Insert`, `HelloSent`/`HelloFailed`, `WriteFrame`, `ChannelClosed`,
  `LoopBroken`, `PeerClosed`, `Deregister`, `Leave`: `handle_connection`. All
  returns before the registry is involved (lockout, handshake, timeout, join, a
  refused auth) are `Refuse`.
* `Pong`, `QueryOk`, `Ack`, `Error`, `Reply`: an answer frame read by
  `handle_frame`, with the `resolve_*` it calls. They look the id up in the Entry
  the token has *now*, as the code does, whatever connection the frame came on.
* `Begin` (first lock: clone `out_tx`), `Register` (second lock), `Send`,
  `TakeAnswer`, `TakeAck`, `TakePartial`, `TakeFinal`, `SenderDropped`, `TimeOut`,
  `CheckPresence`: the steps of `ping`, `query`, `prompt`, `interrupt`, `answer`;
  the operators `Ping` ... `Answer` say which function has which steps.
* `Revoke`: the control channel's force-close.

Abstractions: a frame is the id of its call; a reply's text is its position among
the client's answers, so that order and holes show; `tokio::time::timeout` polls
the receiver before the timer, so `TimeOut` needs an empty inbox. `Insert` sends
the notice and drops the old Entry in the step that replaces it: the code does so
just after unlocking, and the only difference is where the notice stands among
frames other calls send at that moment. Connection and call identities are reused
once nothing refers to them (`Accept`, `Reap`), so runs do not end after a fixed
number of connections.

`CallContract` has no connection, entry or channel: a call begins, its client may
answer it, it returns one outcome of its kind, an outcome that reports an answer
needs one, and a prompt is cancelled only by an acknowledged interrupt of its
token and session. `Registry!KeepsContract` is that specification under a
refinement mapping.

### Roster

Time is the age of each row's `last_seen` in ticks. Ages beyond `PruneAfter`
behave alike and are capped there. `ConfigAssumption` is the order of the
thresholds of `RosterConfig::default`; the environment variables can break it, and
`PruneOnlyGone` would then fail.

### PreAuth

One socket goes from `Accept` (a permit is taken; without one the socket is dropped
and nothing changes) through the lockout check (`Refused`, `Admitted`), the WebSocket
upgrade and the first frame to its verdict: `Answered` (an answer that is no failed
attempt: a frame that does not decode or is not for this stage, a successful join),
`Failed` (with `record_failure`) or `Authenticated`. What the token store says is a
free choice. `failures` keeps the age of each failure and `locked` the time left, so
that the window, the expiry, and the removal of an expired entry by the next check are
all there. `Retained` is the `retain` of `record_failure`: the ages inside the window,
in order. `ignored` is a history variable. `Registry` sees all of this as `Refuse`
or `Insert`.

Three sockets and two permits make the cap bite; two addresses show that one's lockout
leaves the other alone; with two failures per lockout, connections in flight are judged
during it, after it, and across the removal of the entry.

### TokenStore

A process is one operation in flight: a CLI invocation or a task of the server.
`shape` says whether the file is empty, torn or whole, and `recs` what it held
when last whole. An operation is `Call`, `Lock`, `Load` (with the checks and the
early returns), `Truncate`, any `WriteSome`, `WriteAll`, `Succeed`; `SaveFails` and
`Crash` may strike in between, and `List` reads without the lock. A torn file does
not parse and every load of it fails; an empty one is an empty store. A record is
its state: its credential is right or wrong (`right`), its other fields do not
influence control. Token ids are never drawn twice (16 random bytes).

`TokenLedger` has neither file nor lock nor steps: an operation takes effect at one
instant on one set of records, then returns; a listing shows these records or none; a
fault loses all of them or none. `TokenStore!StoreIsAtomic` is that specification under
a mapping in which an operation takes effect at its `WriteAll`: while the holder of the
lock is rewriting the file, the records are still those it loaded (`Visible`).

### Server and Query

`Server` puts together what the component modules take apart, at the grain of the
locks: the store's operations are atomic (that is what `TokenStore` establishes), a
connection task goes from `Verify` through `Insert`, the hello and its loop to
`Deregister` and `MarkGone`, `token delete` is `Delete` followed by the `Revoke` of
the control channel in two steps (`RevokeRemove`, `RevokeMark`), and a relayed
`support` query is the three lookups of `handle_control_conn` and its answer. The
roster is an `INSTANCE` of `Roster`, and the server's tasks use its actions. A hostname stands for the token it belongs to, so `set_hostname` has no
action. `cred` says where the one copy of a credential is: `redeem` has hashed it
before `join_ok` is sent and the result of the send is ignored. Calls are not in
`Server`: a clone of `out_tx` held by one delays `ChannelClosed` until it returns,
which `Registry!UntrackedCloses` covers.

`slipped` is a history variable: the connections that were between
`verify_credential` and `insert` when a revoke removed the entry. The code does not
look again after `insert`, so these stay connected with a revoked token; the two
liveness properties of delete except them and hold for all others. `DeletedOnlyFades`
is about the steps in between: once a token is cut off (`Cut`: no usable record, no
entry, nobody about to insert one) it stays so, gains no connection, and after its last
one no route, although presence frames, closes and sweeps of the roster go on.

`Query` has the four bodies and `dispatch`; `Agree` compares what `support` and
`caps` say of every id of the vocabularies.

### Instance

A serve process goes through `run_serve` in the order of the code: address,
`advertise::persist` (truncate, write), the loopback check, `bind_control_socket`
(exists, probe, unlink, bind, permissions), the TCP listeners, serving, the removal
of the socket file, exit. It may fail where the code may and crash anywhere. All
file operations go by path: `Unlink`, `Permissions` and `RemoveSocket` act on
whatever file is there. The CLI call connects when the owner of the file listens and
ends with an answer, a cut connection or a timeout; `Report` is what each command
makes of it: `query` stands for an untargeted status, support, caps or query,
`targeted` for one with an id, `say` also for interrupt and answer.

`advertise::persist` is an unlocked `fs::write`: the file is truncated when it is
opened and each start writes at its own offset 0. When two starts have both truncated
it, the second write covers the first only as far as it reaches; a shorter record
leaves the tail of the longer one, which does not parse (`Persist`, "torn"). `mixed`
remembers that such writes crossed. `MintSeesServe` allows the unreadable file only
then, and the wrong address never.

`overlap` remembers that two starts were between `path.exists()` and `bind` at the
same time: then one may unlink the socket the other has just bound and both serve.
The code has no guard against it, and `SoleServer` and `UnreachableIsTrue` except it.

### TalkLog

Every operation is `Begin`, `Lock`, `Load`, `Truncate`, `Write`, with `SaveFails`
(a failure is only logged) and `Die` in between. An entry is the id of its prompt
with the number of its replies. A file that is missing, empty or torn loads as no
entries, so they are one content; so does a file whose read fails, whatever it has
(`Load`), and a prompt that is recorded then saves over it. Writes of two processes may
cross as those of the advertise file (`Write` when `shared`). A reply is recorded under the id and the session
the client gives, both of which are free choices. `logged` is a history variable:
what saves have recorded since one was cut short or made without having read the file.

### Codec and Inbound

A frame is its shape, the JSON types of its envelope fields, whether its body is an
object or an array and which of the body's fields are there, well or ill typed, and the
`protocol_min` of a hello. serde reads a struct from an array too, element by element
(`Positional`); `query_ok` has a flattened field and takes objects only. `decode` makes the checks in the order of the
code, which decides the error code. `Inbound` feeds one connection after another
with frames of every type in which any envelope fields and at most one body field
are wrong, and with what the server's own encoder makes. What the handlers do is in
the other modules. `Valid` is what docs/protocol/v1.md asks of a frame, `Tolerated` what
the code takes beyond it (section 7): a `v` that wraps to 1, an array for a body, a hello
whose `protocol_min` is above 1. `FailsClosed` is about all other frames, and
`ValidKeepsSession` about the valid ones only.

## 3. Runs

Passing:

| Run | Instance | Shows |
| --- | --- | --- |
| `RegistryTalk` | 1 token, 2 connections, 2 calls (prompt, interrupt), 2 answers each | types, and no event for another kind of call; entries belong to live tasks; no leaked call; whole replies; an acked interrupt wakes the turn it cancelled; refinement of `CallContract` |
| `RegistryCalls` | all five kinds, 1 call, 2 connections, 2 answers | calls return; untracked connections close |
| `RosterRows` | 2 tokens, 2 names, thresholds 1, 2, 4 | the roster's properties |
| `PreAuthGate` | 3 sockets, 2 addresses, 2 permits, lockout after 2 failures | permits follow connections; verdicts during a lockout are bounded; upgraded connections do not linger |
| `TokenStoreOps` | 2 processes, 2 tokens, 1 fault | the store's safety properties; refinement of `TokenLedger` |
| `Server` | 1 token, 1 session, 2 connections, 1 harness, thresholds 1, 1, 2 | answers agree; a lost credential is final; a deleted token gains nothing and ends up disconnected and unrouted |
| `Instance` | 2 serve processes, 2 addresses, one CLI call after another | one server owns the socket; unreachable is said truly; mint sees the server that runs, or an unreadable file after crossed writes |
| `TalkLog` | 2 processes, 2 tasks, 3 sessions in 2 files, 2 prompts, 1 reply each | no save undoes what it has read; files have their own prompts |
| `Inbound` | every frame type, versions 0, 1, 2, 5 with `U32` = 4 | frames that are not v1 have no effect, the tolerated ones apart; what is encoded is read; valid frames keep the session |

Two connections of one token are what replacement needs, and since identities are
reused, chains of replacements happen. Two calls are what an interrupt and a prompt
need. One token is enough for the registry runs because
no action relates the entries of two tokens; the proofs cover any number. Two
processes give every pairwise race of the store's operations; one fault anywhere
gives every crash point, and the proofs cover any number of both. In `Server` one
token with two connections has every race of delete, revoke, replacement, exit and
presence; tokens meet only in the roster, which `RosterRows` checks with two. Two
starts, or a start and a stop, are what the socket races need. Two tasks, of one
session, of two in one file or of two files, are every pair of talk-log writers.
TLC's integers have 32 bits, so the `u32` that `v` is cut to is scaled: with `U32` = 4
the value 5 wraps to 1; the proof is for any width.

Violated, each by one statement of the repository that the code does not keep:

| Run | Statement | What TLC finds |
| --- | --- | --- |
| `RegistrySuccessor` | registry.rs test: "The new connection is the one now tracked." | the old connection's exit removes the new one's entry |
| `PreAuthTimeout` | connection.rs: "How long a connection may sit open before its first frame" | the upgrade is awaited without a timeout |
| `InstanceRefused` | wire/mod.rs: the socket is probed "before doing anything else observable (binding a TCP port, writing the advertise file)" | a refused second serve has rewritten the advertise file |

## 4. Fairness

`Registry!Fairness`: weak fairness of a connection's exit, of its writes and of each
call's steps. The tokio runtime polls every woken task, a `timeout` fires, and a
socket write completes or fails. Nothing is assumed of clients, of the operator or
of the accept loop: no answer ever has to come. `Roster!FairSpec`: time passes and
`roster_prune_loop` keeps ticking. `PreAuth!TaskFair`: a spawned task runs its
lockout check, the pre-auth timer fires, a reply is written or fails; no peer is
assumed to do anything. `Server!FairSpec`: an authenticated task inserts itself and
writes or fails to write its hello, its exit runs to the end, and time passes.
`ChannelClosed` has strong fairness: the client may keep the loop busy with frames,
and `select!` polls its ready branches in random order, so a channel that stays
closed is noticed. No fairness is given to the operator: the properties start when
delete and revoke are done.

## 5. Proofs

All proofs are checked by tlapm with no assumption but the named ones on constants:
sets of identities without `None` (the sockets finitely many), thresholds and limits
that are naturals, and, for `Roster` alone, the order of its thresholds.

* `RegistryProofs`. The invariant `Consistent` strengthens the two safety properties
  with: an authenticated task has a token (`Authenticated`), a call past its first
  lock has a kind and a token (`CallBegun`), and an event in an inbox belongs to a
  call still waiting for it (`EventsConsume`): without it a oneshot that was answered
  could still be listed. Results: `TrackedAlwaysLive`, `NoCallLeaks`.
  `Faithful` adds, of each call, where its frame may be (`Unsent` until the send,
  then only on a connection of its own token, `SentOnOwnToken`), that what is in its
  inbox is an event its kind can receive (`FittingEvents`), and that the pieces taken
  and the pieces still queued number the client's replies from 1 without a hole
  (`Contiguous`). Without the first two a late answer of another call, or to an
  earlier call with the same identity, could not be excluded, and `Contiguous` would
  not survive it. From `FaithfulAlways`: `TypeCorrect`, `RepliesAreWhole` and the
  refinement `RegistryKeepsContract`; `AckedTurnWakes` needs `Consistent` only (the
  entry the token has when the ack is taken is the one a prompt of its token is
  registered in; the proof shows it of every registered prompt of the session). The mapping takes a call's state
  from its stage and inbox; one lemma per kind of step says which contract step it is
  (`BeginStep`, `HearStep`, `FinishStep`, `InterruptedStep`, `ResetStep`), all the
  others leave the contract's variables alone (`StutterStep`).
* `RosterProofs`. `OwnerChanges` says what any step does to a row's owner; from it
  `NeverTakenOver` and, with the order of the thresholds, `SweepsGoneRows`.
  `PresenceAloneRevives` by cases on the step: no other clears `gone_now`.
  `SilentRowsDecay`: without a heartbeat of its token a row only ages, and the clock and
  the sweep do to it what `SilentRowsVanish` counts on.
* `PreAuthProofs`. The invariant `GateInv` puts the two properties together because
  one needs the other: when a failure starts a lockout, the judged connection still
  holds a permit, so by `SlotsConserved` at most `MaxUnauth - 1` others are past the
  check; from then on each ignored failure uses one of them up. Results: `CapIsExact`,
  `LockoutIsTight`. `GateTypes` needs to know what `Retained` returns for a sequence of
  any length (`RetainedAges`): it keeps ages of the window only and never more than it
  was given. That is an induction over the length; `SetInduction` derives induction for
  a set of naturals, rather than for a predicate, from the well-foundedness of `<`,
  which the provers can instantiate.
* `TokenStoreProofs`. The invariant `Safe`: mutual exclusion; what a process loaded
  is still what was last saved, or nothing if a fault had lost the file (`Current`);
  what its checks found still holds (`Checked`); a drawn id belongs to one mint and
  has no history (`NewId`, `Undrawn`); granted redeems and deletes show in the
  records (`Settled`). `WriteEffect` then gives the one step of life a save takes.
  Results: `TypeCorrect`, `SecretsAreSingleUse`, `DeletedStaysOut`,
  `TokensMoveForward`, and from it `LockNeverStranded`. `MintsAlwaysKept` needs
  `NothingLost` on top: while no fault has struck, a file that is not whole is being
  saved by the holder of the lock or was never written, so what is loaded is what was
  saved last and each save keeps it. `StoreKeepsLedger` is the refinement of
  `TokenLedger`: `WriteAll` of the holder is the abstract `Apply`, so `Checked` says all
  that the checks after `Load` establish (the record's state and that the secret was
  right), `Current` makes the loaded records the ledger's, and every other step of the
  save is a stutter; `List` needs that the file is whole or reads as empty.
* `InstanceProofs`. `SockInv`: without an overlap, one process at a time is between
  exists and bind (`OneAtSocket`), whoever listens owns the path (`OwnsPath`), and
  who has found the file stale is right about it until the unlink (`StaleStays`),
  which is what makes the three steps safe. `CallInv`: a call that was cut or waits
  on a process that does not serve has seen an outage. `AdvertInv`: from its write on
  the file is what the start that wrote it last offers, or is torn and writes crossed;
  while a start is alone between its truncation and its write (`SoleWriter`) the file
  is empty, so that its write leaves no tail. Results: `TypeCorrect`,
  `OneServes`, `UnreachableWasDown`, `MintAdvertises`, for any number of processes.
* `TalkLogProofs`. `OwnInv`: what a task is about to write has only prompts of its
  file. `LockInv` (the task past the lock holds it), `FreshInv` (a new prompt's id is
  nowhere yet) and `KeptInv` (what was loaded is what the file has, or the read failed
  and nothing of the file counts as recorded any more; what is about to be written has
  all that does): a save extends what it replaces.
  Results: `TypeCorrect`, `NoForeignPrompts`, `NothingUndone`, for any way names are
  made into file names.
* `InboundProofs`. `DecodeExact`: decode accepts exactly the valid and the tolerated
  frames, although it checks them in another order and on several levels; `RoundTrip`:
  what is encoded is decoded to the same fields. From them `AlwaysFailsClosed`,
  `SentAlwaysRead` and `SessionSurvives`.
* `ServerProofs`. `LostForGood` rests on `LostInv` (until the
  credential is held nobody can have authenticated). `AnswersAlwaysAgree` by cases on
  the vocabularies (`Vocabularies`: the server offers protocol features only, and no
  feature is a harness). `TypeCorrect` puts `Tables`, the roster's types (kept by
  every step of the roster, `RosterTypes`) and the query's (`RelayTypes`) together.
  `RevokeLeavesNoEntry` and `RevokedStaysOut` are the safety half of
  `DeleteDisconnects`: they rest on `RevokeInv` (a token that is being deleted is
  spent; an entry belongs to a task of its token that has not deregistered; after the
  revoke only a connection it overtook may have an entry or insert one), which TLC
  also held on 13 million states with two tokens. `LeftNeverRoutes` proves
  `DeletedOnlyFades`, the safety half of `DeleteUnroutes`: only frames of a token's own connections are heartbeats of it
  (`SilentStep`), and its rows then only decay (`RowsDecay`).

Liveness. The provers know nothing of ENABLED, so the theorems that use fairness have
it as an explicit hypothesis: `GuardsSuffice` (`ConnGuardsSuffice` for a connection of
the registry) says, always, that an action is enabled when the guard the code tests is
true. It holds by the form of the actions; TLC evaluated each as an invariant of the
instances of `PreAuthGate`, `RegistryCalls`, `RegistryTalk` and `Server`, where it
holds in every state. From it and the modules' own `FairSpec`:

* `FirstFramesEnd`: `FirstFrameDecided`, in full.
* `CallsGoOn`: every call returns, except a prompt that takes partial replies without
  end. The exception is real when answers are unbounded: `prompt` waits `PROMPT_TIMEOUT`
  for each event, not in all (registry.rs:660), and the runs bound a client's answers.
  Behind it are `NoCallStuck` (a call that has begun always has a step of its own, which
  needs `Faithful`: an event its function cannot take would leave it without one) and
  `StageMoves` (no step of another takes a call back).
* `UntrackedIsFinal` and `UntrackedGoesOn`: a superseded or revoked connection is never
  tracked again and gets no new call; it closes, unless frames are written on it for
  ever or calls with a clone of its sender keep it open.
* `DeletedIsLeft`: `DeleteDisconnects` for each connection by itself.

Only model-checked: what is left of the liveness properties. `CallsReturn` and
`UntrackedCloses` need that a bounded number of answers or queued frames runs out,
`SilentRowsVanish` and `DeleteUnroutes` that ticks add up to a threshold:
inductions over a counter within a temporal proof, which the prover's temporal
backend does not have. `DeleteDisconnects` for all connections at once needs the same
over the (finite) set of connections.

The inductive invariants were first checked by TLC as invariants of the runs' own
instances (`Faithful` on 1.75 million states of `RegistryTalk`, `NothingLost` on 1.38
million of `TokenStoreOps`).

## 6. Not modelled

* Logging and redaction (`src/debug.rs`), argument parsing and printing: they keep
  no state that the server reads back.
* Hashing and random generation appear as a secret that is right or wrong and ids
  that never repeat; `parse_ttl` and `parse_listen_spec` are pure parsers.
* The lookup in the roster before `say`, `interrupt` and `answer`: one read, then the
  call of `Registry`, which takes any token; a stale answer is a call to a token that
  has no entry, one of the cases there.
* Field values of frames other than `v` and a hello's `protocol_min`, presence rows that
  do not parse.
* A control socket whose backlog is full (a connect blocks, or fails as if it were
  stale), and platforms without Unix sockets.

## 7. Where comments and code differ, without a run

Seen while modelling, small or outside what a run shows on its own:

* docs/protocol/v1.md:37 asks that every frame whose `v` is absent or not 1 be answered
  `unsupported_version`. `v` = 2^32 + 1 is accepted as version 1 (`as u32`,
  proto/mod.rs:498); a frame without `v`, or with another `v` and a further envelope
  field missing, is answered `unknown_type`.
* The same line says that a peer whose `protocol_min` is above 1 is answered
  `unsupported_version` and closed. The handler of `hello` (connection.rs:494) never
  looks at it and the session goes on.
* docs/protocol/v1.md:61 says that `body` is an object. serde also reads the body structs
  from a JSON array, and the handler runs.
* `advertise::persist` takes no lock (advertise.rs:77): two starts whose writes cross may
  leave a file that does not parse, and `token mint` then says that no server is known.
* A talk log whose read fails counts as empty (talklog.rs:113), and the next prompt is
  saved over it: all the file had is lost without an error.
* A presence frame that a revoked connection had in flight revives its row until it
  decays; control.rs says the roster must not make an operator wait for that.
* `harnesses_confirmed` lists, in query.rs's words, live client hostnames; a
  confirmation is never withdrawn when its client leaves.
* An acknowledged interrupt wakes every registered prompt of its session with
  `Cancelled` (registry.rs:906); docs/protocol/talk.md:59 says "Interrupt cancels the
  current turn; queued prompts stay", and ADR 0005 likewise. The caller of a prompt that
  the client has only queued is told that it was cancelled, while the client still runs
  it. `AckWakesTurn` is therefore stated of the one prompt a client was given.
* The mark_gone of a closing connection (connection.rs:393) goes by token id, and hides
  the rows of the successor until its next presence frame.
* `set_blocked` takes no token: any client may set the flag that roster.rs describes
  as what "the client's own driver" reports.
* A save of the token store that fails has truncated the file, so an error return may
  have lost records (token/mod.rs:522 and 597 say no mutation happens), and `list`,
  which takes no lock, may read the file in between and then shows no token or fails.
* A connection that is between `verify_credential` and `insert` when its token is
  deleted and revoked stays connected.

## 8. Plan

1. `say` through the roster in `Server`, with the call of `Registry` behind it.
2. The counting arguments of section 5 as theorems, should the prover's temporal
   backend learn induction.
