------------------------------ MODULE Registry ------------------------------
(***************************************************************************)
(* The live-connection registry of holler-server and the tasks that share  *)
(* it: one task per WebSocket connection (handle_connection, from a        *)
(* successful `auth` to its exit) and one task per outbound call           *)
(* (Registry::ping, query, prompt, interrupt, answer).                     *)
(*                                                                         *)
(* An Entry is created by exactly one connection, so entries[t] names the  *)
(* connection whose Entry is in the map, pending[c] is the union of that   *)
(* Entry's five pending maps (a call's kind says which one), and outq[c]   *)
(* is the unbounded channel between the Entry's out_tx and the connection. *)
(* Every critical section of the code is one action: what happens between  *)
(* two of them, inside one function, is where other tasks interleave.      *)
(***************************************************************************)
EXTENDS Naturals, Sequences, FiniteSets

CONSTANTS
    Tokens,      \* token ids that can authenticate
    Conns,       \* connection tasks; an identity is reused once nothing refers to it
    Calls,       \* outbound call tasks, named by their envelope id
    Sessions,    \* session names a prompt, interrupt or answer is for
    Kinds,       \* the kinds of call the instance makes
    MaxAnswers,  \* bound: answer frames a client sends for one call
    None,        \* absent token, connection or call
    Superseded   \* the session_superseded notice, in an outbound channel

\* The control requests that make a round trip to a client.
AllKinds == {"ping", "query", "prompt", "interrupt", "answer"}

ASSUME ConstantsAssumption ==
    /\ None \notin Tokens \cup Conns \cup Calls \cup Sessions
    /\ Superseded \notin Calls
    /\ Kinds \subseteq AllKinds
    /\ MaxAnswers \in Nat

VARIABLES
    phase,      \* phase[c]: where connection c's task is
    token,      \* token[c]: the token it authenticated, None before that
    entries,    \* Registry.entries: token -> connection owning the Entry, or None
    pending,    \* pending[c]: calls registered in the Entry of c
    outq,       \* outq[c]: frames sent on out_tx and not yet written
    delivered,  \* delivered[c]: calls whose frame reached c's client
    call,       \* call[r]: kind, token and session of call r
    stage,      \* stage[r]: where call r's task is
    via,        \* via[r]: the connection whose out_tx call r cloned
    inbox,      \* inbox[r]: events sent to call r's receiver, not yet taken
    pieces,     \* pieces[r]: reply texts a prompt has collected, by position
    outcome,    \* outcome[r]: what the call returned
    answers     \* answers[r]: answer frames the client has sent for r

connVars == <<phase, token, entries, outq, delivered>>
callVars == <<call, stage, via, inbox, pieces, outcome>>
vars == <<phase, token, entries, pending, outq, delivered, call, stage, via,
          inbox, pieces, outcome, answers>>

-----------------------------------------------------------------------------
(* State *)

\* closed: no task, all its state dropped.  new: accepted, not yet authenticated.  hello: inserted,
\* server_hello not yet written.  open: in the session loop.  ambiguous and
\* certain: out of the loop, by certain_close.  gone: deregistered, mark_gone due.
Phases == {"closed", "new", "hello", "open", "ambiguous", "certain", "gone"}

\* cloned: out_tx cloned under the first lock.  registered: pending entry made
\* under the second.  expired: timed out and forgotten, presence check due.
Stages == {"idle", "cloned", "registered", "waiting", "expired", "done"}

\* A ping or a query names no session.
SessionsFor(k) == IF k \in {"ping", "query"} THEN {None} ELSE Sessions

Outcomes == {"none", "connected", "ok", "err", "done", "cancelled", "acked",
             "timedout", "disconnected"}

\* One event in a call's channel; n is the position of the client's frame among
\* its answers, last the `done` flag of a reply.
Events == [what : {"connected", "ok", "err", "acked", "reply", "cancelled"},
           n : Nat, last : BOOLEAN]
Event(what, n, last) == [what |-> what, n |-> n, last |-> last]

NoCall == [kind |-> "none", token |-> None, session |-> None]
CallInfo == [kind : Kinds \cup {"none"}, token : Tokens \cup {None},
             session : Sessions \cup {None}]

Typed ==
    /\ phase \in [Conns -> Phases]
    /\ token \in [Conns -> Tokens \cup {None}]
    /\ entries \in [Tokens -> Conns \cup {None}]
    /\ pending \in [Conns -> SUBSET Calls]
    /\ outq \in [Conns -> Seq(Calls \cup {Superseded})]
    /\ delivered \in [Conns -> SUBSET Calls]
    /\ call \in [Calls -> CallInfo]
    /\ stage \in [Calls -> Stages]
    /\ via \in [Calls -> Conns \cup {None}]
    /\ inbox \in [Calls -> Seq(Events)]
    /\ pieces \in [Calls -> Seq(Nat)]
    /\ outcome \in [Calls -> Outcomes]
    /\ answers \in [Calls -> 0..MaxAnswers]

\* The five pending maps hold senders of five types: what each kind of call can be sent.
Fits(kind, what) ==
    \/ kind = "ping" /\ what = "connected"
    \/ kind = "query" /\ what \in {"ok", "err"}
    \/ kind = "prompt" /\ what \in {"reply", "err", "cancelled"}
    \/ kind = "interrupt" /\ what = "acked"
    \/ kind = "answer" /\ what \in {"acked", "err"}

\* The variables are of their types, and a channel holds only events that the call
\* which reads it has a branch for: none is woken by what was meant for another.
TypeOK ==
    /\ Typed
    /\ \A r \in Calls : \A i \in 1..Len(inbox[r]) : Fits(call[r].kind, inbox[r][i].what)

Init ==
    /\ phase = [c \in Conns |-> "closed"]
    /\ token = [c \in Conns |-> None]
    /\ entries = [t \in Tokens |-> None]
    /\ pending = [c \in Conns |-> {}]
    /\ outq = [c \in Conns |-> <<>>]
    /\ delivered = [c \in Conns |-> {}]
    /\ call = [r \in Calls |-> NoCall]
    /\ stage = [r \in Calls |-> "idle"]
    /\ via = [r \in Calls |-> None]
    /\ inbox = [r \in Calls |-> <<>>]
    /\ pieces = [r \in Calls |-> <<>>]
    /\ outcome = [r \in Calls |-> "none"]
    /\ answers = [r \in Calls |-> 0]

\* A call holds its clone of out_tx until the function returns.
HoldsTx(r) == stage[r] \in {"cloned", "registered", "waiting", "expired"}

\* The sender half of call r's channel is alive.
Registered(r) == \E c \in Conns : r \in pending[c]

\* pending after the Entry of token t is dropped, with all its pending senders.
DropEntry(t) ==
    IF entries[t] = None THEN pending ELSE [pending EXCEPT ![entries[t]] = {}]

\* Mutant: forget_pending* is left out, the returned call stays listed.
ForgetOmitted(r) == pending

\* pending after forget_pending*: the call is removed from the Entry that is in
\* the map for its token now.
Forget(r) ==
    LET e == entries[call[r].token]
    IN  IF e = None THEN pending ELSE [pending EXCEPT ![e] = @ \ {r}]

-----------------------------------------------------------------------------
(* Connection tasks *)

\* The accept loop hands a socket to a new task.
Accept(c) ==
    /\ phase[c] = "closed"
    /\ \A r \in Calls : ~ (HoldsTx(r) /\ via[r] = c)
    /\ phase' = [phase EXCEPT ![c] = "new"]
    /\ UNCHANGED <<token, entries, pending, outq, delivered, callVars, answers>>

\* Every return of handle_connection before the registry is involved.
Refuse(c) ==
    /\ phase[c] = "new"
    /\ phase' = [phase EXCEPT ![c] = "closed"]
    /\ UNCHANGED <<token, entries, pending, outq, delivered, callVars, answers>>

\* auth verified: Registry::insert replaces the token's Entry.  The previous
\* connection is sent the notice and its Entry, pending senders included, drops.
Insert(c, t) ==
    /\ phase[c] = "new"
    /\ phase' = [phase EXCEPT ![c] = "hello"]
    /\ token' = [token EXCEPT ![c] = t]
    /\ entries' = [entries EXCEPT ![t] = c]
    /\ outq' = IF entries[t] = None THEN outq
               ELSE [outq EXCEPT ![entries[t]] = Append(@, Superseded)]
    /\ pending' = DropEntry(t)
    /\ UNCHANGED <<delivered, callVars, answers>>

HelloSent(c) ==
    /\ phase[c] = "hello"
    /\ phase' = [phase EXCEPT ![c] = "open"]
    /\ UNCHANGED <<token, entries, pending, outq, delivered, callVars, answers>>

\* The task leaves for its exit path: the server_hello or a later write failed,
\* the read failed or a frame did not decode (ambiguous), or the peer closed the
\* socket or reached EOF (certain).
HelloFailed(c) ==
    /\ phase[c] = "hello"
    /\ phase' = [phase EXCEPT ![c] = "ambiguous"]
    /\ UNCHANGED <<token, entries, pending, outq, delivered, callVars, answers>>

LoopBroken(c) ==
    /\ phase[c] = "open"
    /\ phase' = [phase EXCEPT ![c] = "ambiguous"]
    /\ UNCHANGED <<token, entries, pending, outq, delivered, callVars, answers>>

PeerClosed(c) ==
    /\ phase[c] = "open"
    /\ phase' = [phase EXCEPT ![c] = "certain"]
    /\ UNCHANGED <<token, entries, pending, outq, delivered, callVars, answers>>

\* out_rx.recv() returned a frame and it was written to the socket.
WriteFrame(c) ==
    /\ phase[c] = "open"
    /\ outq[c] # <<>>
    /\ outq' = [outq EXCEPT ![c] = Tail(@)]
    /\ delivered' = [delivered EXCEPT ![c] = @ \cup ({Head(outq[c])} \cap Calls)]
    /\ UNCHANGED <<phase, token, entries, pending, callVars, answers>>

\* Mutant: the connection task keeps an out_tx of its own, recv never returns None.
ChannelKeptOpen(c) == FALSE /\ phase[c] = "open" /\ UNCHANGED vars

\* out_rx.recv() returned None: nothing queued and no sender left, neither the
\* Entry nor a call still holding a clone.
ChannelClosed(c) ==
    /\ phase[c] = "open"
    /\ outq[c] = <<>>
    /\ entries[token[c]] # c
    /\ \A r \in Calls : ~ (HoldsTx(r) /\ via[r] = c)
    /\ phase' = [phase EXCEPT ![c] = "ambiguous"]
    /\ UNCHANGED <<token, entries, pending, outq, delivered, callVars, answers>>

\* handle_connection returns: out_rx and the frames still in it are dropped.
Closed(c) ==
    /\ phase' = [phase EXCEPT ![c] = "closed"]
    /\ token' = [token EXCEPT ![c] = None]
    /\ outq' = [outq EXCEPT ![c] = <<>>]
    /\ delivered' = [delivered EXCEPT ![c] = {}]

\* Mutant: the ambiguous exits return without registry.remove.
DeregisterIfCertain(c) ==
    /\ phase[c] \in {"ambiguous", "certain"}
    /\ \/ phase[c] = "ambiguous" /\ Closed(c) /\ UNCHANGED <<entries, pending>>
       \/ /\ phase[c] = "certain"
          /\ phase' = [phase EXCEPT ![c] = "gone"]
          /\ entries' = [entries EXCEPT ![token[c]] = None]
          /\ pending' = DropEntry(token[c])
          /\ UNCHANGED <<token, outq, delivered>>
    /\ UNCHANGED <<callVars, answers>>

\* registry.remove(token) on the way out: whatever Entry the token has is dropped.
Deregister(c) ==
    /\ phase[c] \in {"ambiguous", "certain"}
    /\ entries' = [entries EXCEPT ![token[c]] = None]
    /\ pending' = DropEntry(token[c])
    /\ \/ phase[c] = "ambiguous" /\ Closed(c)
       \/ /\ phase[c] = "certain"
          /\ phase' = [phase EXCEPT ![c] = "gone"]
          /\ UNCHANGED <<token, outq, delivered>>
    /\ UNCHANGED <<callVars, answers>>

\* roster.mark_gone, then return.
Leave(c) ==
    /\ phase[c] = "gone"
    /\ Closed(c)
    /\ UNCHANGED <<entries, pending, callVars, answers>>

\* A live force-close over the control channel: Registry::remove.
Revoke(t) ==
    /\ entries[t] # None
    /\ entries' = [entries EXCEPT ![t] = None]
    /\ pending' = DropEntry(t)
    /\ UNCHANGED <<phase, token, outq, delivered, callVars, answers>>

-----------------------------------------------------------------------------
(* Answer frames a client sends, read by the connection they arrive on.    *)
(* Registry::resolve_* looks the id up in the Entry the token has now.     *)

\* A frame for call r arrives on connection c.
Answers(c, r) ==
    /\ phase[c] = "open"
    /\ r \in delivered[c]
    /\ answers[r] < MaxAnswers
    /\ answers' = [answers EXCEPT ![r] = @ + 1]
    /\ UNCHANGED <<phase, token, entries, outq, delivered, call, stage, via,
                   pieces, outcome>>

\* A oneshot call: the sender is taken out of the map and used.
ResolveOnce(c, r, what) ==
    LET e == entries[token[c]]
    IN  IF e # None /\ r \in pending[e]
        THEN /\ pending' = [pending EXCEPT ![e] = @ \ {r}]
             /\ inbox' = [inbox EXCEPT ![r] = Append(@, Event(what, answers[r] + 1, TRUE))]
        ELSE UNCHANGED <<pending, inbox>>

\* A prompt: the sender stays in the map, more frames may follow.
ResolveMore(c, r, what, last) ==
    LET e == entries[token[c]]
    IN  /\ inbox' = IF e # None /\ r \in pending[e]
                    THEN [inbox EXCEPT ![r] = Append(@, Event(what, answers[r] + 1, last))]
                    ELSE inbox
        /\ UNCHANGED pending

Pong(c, r) ==
    call[r].kind = "ping" /\ Answers(c, r) /\ ResolveOnce(c, r, "connected")

QueryOk(c, r) ==
    call[r].kind = "query" /\ Answers(c, r) /\ ResolveOnce(c, r, "ok")

\* An ack's `of` is looked up among the interrupts and the answers.
Ack(c, r) ==
    call[r].kind \in {"interrupt", "answer"} /\ Answers(c, r) /\ ResolveOnce(c, r, "acked")

\* An error is looked up among the queries, the prompts and the answers.
Error(c, r) ==
    /\ Answers(c, r)
    /\ \/ call[r].kind \in {"query", "answer"} /\ ResolveOnce(c, r, "err")
       \/ call[r].kind = "prompt" /\ ResolveMore(c, r, "err", TRUE)

Reply(c, r, last) ==
    call[r].kind = "prompt" /\ Answers(c, r) /\ ResolveMore(c, r, "reply", last)

-----------------------------------------------------------------------------
(* Call tasks *)

\* First critical section: clone out_tx, or give up at once.
Begin(r, k, t, s) ==
    /\ stage[r] = "idle"
    /\ call' = [call EXCEPT ![r] = [kind |-> k, token |-> t, session |-> s]]
    /\ stage' = [stage EXCEPT ![r] = IF entries[t] = None THEN "done" ELSE "cloned"]
    /\ via' = [via EXCEPT ![r] = entries[t]]
    /\ outcome' = [outcome EXCEPT ![r] = IF entries[t] = None THEN "disconnected" ELSE @]
    /\ UNCHANGED <<connVars, pending, inbox, pieces, answers>>

\* The function returns; its receiver and its clone of out_tx are dropped.
Return(r, result) ==
    /\ stage' = [stage EXCEPT ![r] = "done"]
    /\ outcome' = [outcome EXCEPT ![r] = result]
    /\ inbox' = [inbox EXCEPT ![r] = <<>>]
    /\ via' = [via EXCEPT ![r] = None]
    /\ UNCHANGED <<call, answers>>

\* Second critical section: register in the Entry the token has now.
Register(r) ==
    LET e == entries[call[r].token]
    IN  /\ stage[r] = "cloned"
        /\ \/ /\ e # None
              /\ stage' = [stage EXCEPT ![r] = "registered"]
              /\ pending' = [pending EXCEPT ![e] = @ \cup {r}]
              /\ UNCHANGED <<call, via, inbox, outcome, answers>>
           \/ e = None /\ Return(r, "disconnected") /\ UNCHANGED pending
        /\ UNCHANGED <<connVars, pieces>>

\* out_tx.send on the clone; it fails only when that connection's task is gone.
Send(r) ==
    /\ stage[r] = "registered"
    /\ \/ /\ phase[via[r]] # "closed"
          /\ outq' = [outq EXCEPT ![via[r]] = Append(@, r)]
          /\ stage' = [stage EXCEPT ![r] = "waiting"]
          /\ UNCHANGED <<pending, call, via, inbox, outcome, answers>>
       \/ /\ phase[via[r]] = "closed"
          /\ pending' = Forget(r)
          /\ Return(r, "disconnected")
          /\ UNCHANGED outq
    /\ UNCHANGED <<phase, token, entries, delivered, pieces>>

\* ping, query and answer return what was sent to their oneshot.
TakeAnswer(r) ==
    /\ stage[r] = "waiting" /\ inbox[r] # <<>>
    /\ call[r].kind \in {"ping", "query", "answer"}
    /\ Return(r, Head(inbox[r]).what)
    /\ UNCHANGED <<connVars, pending, pieces>>

\* Mutants: prompts are looked up in the Entry the interrupt was sent through; all
\* the pending maps are searched and whatever waits on the session is woken.
WakeBySender(r) ==
    {p \in pending[via[r]] : call[p].kind = "prompt" /\ call[p].session = call[r].session}
WakeAnyKind(r) ==
    LET e == entries[call[r].token]
    IN  IF e = None THEN {} ELSE {p \in pending[e] : call[p].session = call[r].session}

\* The prompts an acked interrupt wakes: those registered for its session in the
\* Entry its token has now.
PromptsToWake(r) ==
    LET e == entries[call[r].token]
    IN  IF e = None THEN {}
        ELSE {p \in pending[e] : call[p].kind = "prompt" /\ call[p].session = call[r].session}

\* An interrupt's ack is taken: cancel_pending_prompts_for_session, then return.
TakeAck(r) ==
    /\ stage[r] = "waiting" /\ inbox[r] # <<>>
    /\ call[r].kind = "interrupt"
    /\ stage' = [stage EXCEPT ![r] = "done"]
    /\ outcome' = [outcome EXCEPT ![r] = "acked"]
    /\ inbox' = [p \in Calls |->
                    IF p = r THEN <<>>
                    ELSE IF p \in PromptsToWake(r)
                         THEN Append(inbox[p], Event("cancelled", 0, TRUE))
                         ELSE inbox[p]]
    /\ via' = [via EXCEPT ![r] = None]
    /\ UNCHANGED <<connVars, pending, call, pieces, answers>>

\* Mutant: the text of a `done: false` reply is not kept.
SkipPartial(r) ==
    /\ stage[r] = "waiting" /\ inbox[r] # <<>>
    /\ Head(inbox[r]).what = "reply" /\ ~ Head(inbox[r]).last
    /\ inbox' = [inbox EXCEPT ![r] = Tail(@)]
    /\ UNCHANGED <<connVars, pending, call, stage, via, pieces, outcome, answers>>

\* The prompt loop takes a `done: false` reply and waits again.
TakePartial(r) ==
    /\ stage[r] = "waiting" /\ inbox[r] # <<>>
    /\ Head(inbox[r]).what = "reply" /\ ~ Head(inbox[r]).last
    /\ pieces' = [pieces EXCEPT ![r] = Append(@, Head(inbox[r]).n)]
    /\ inbox' = [inbox EXCEPT ![r] = Tail(@)]
    /\ UNCHANGED <<connVars, pending, call, stage, via, outcome, answers>>

\* The prompt loop takes its last event: the final reply, an error or a cancel.
TakeFinal(r) ==
    /\ stage[r] = "waiting" /\ inbox[r] # <<>>
    /\ call[r].kind = "prompt"
    /\ LET ev == Head(inbox[r])
       IN  \/ /\ ev.what = "reply" /\ ev.last
              /\ pieces' = [pieces EXCEPT ![r] = Append(@, ev.n)]
              /\ Return(r, "done")
           \/ /\ ev.what \in {"err", "cancelled"}
              /\ Return(r, ev.what)
              /\ UNCHANGED pieces
    /\ pending' = Forget(r)
    /\ UNCHANGED connVars

\* Every event was taken and the sender was dropped with its Entry.
SenderDropped(r) ==
    /\ stage[r] = "waiting" /\ inbox[r] = <<>>
    /\ ~ Registered(r)
    /\ pending' = IF call[r].kind \in {"interrupt", "answer"} THEN pending ELSE Forget(r)
    /\ Return(r, "disconnected")
    /\ UNCHANGED <<connVars, pieces>>

\* Mutant: a prompt waits for its next event without a timeout.
PromptWaits(r) ==
    /\ stage[r] = "waiting" /\ inbox[r] = <<>>
    /\ Registered(r)
    /\ pending' = Forget(r)
    /\ \/ call[r].kind \in {"ping", "query"} /\ Return(r, "disconnected")
       \/ /\ call[r].kind \in {"interrupt", "answer"}
          /\ stage' = [stage EXCEPT ![r] = "expired"]
          /\ UNCHANGED <<call, via, inbox, outcome, answers>>
    /\ UNCHANGED <<connVars, pieces>>

\* The timeout elapsed with nothing to take.  An interrupt or an answer forgets
\* the call first and looks at the map again afterwards, under another lock.
TimeOut(r) ==
    /\ stage[r] = "waiting" /\ inbox[r] = <<>>
    /\ Registered(r)
    /\ pending' = Forget(r)
    /\ \/ call[r].kind \in {"ping", "query", "prompt"} /\ Return(r, "disconnected")
       \/ /\ call[r].kind \in {"interrupt", "answer"}
          /\ stage' = [stage EXCEPT ![r] = "expired"]
          /\ UNCHANGED <<call, via, inbox, outcome, answers>>
    /\ UNCHANGED <<connVars, pieces>>

CheckPresence(r) ==
    /\ stage[r] = "expired"
    /\ Return(r, IF entries[call[r].token] # None THEN "timedout" ELSE "disconnected")
    /\ UNCHANGED <<connVars, pending, pieces>>

\* A finished call is forgotten once no connection can still carry its frames,
\* so that its identity can stand for a new call with a fresh id.
Reap(r) ==
    /\ stage[r] = "done"
    /\ \A c \in Conns :
          r \notin delivered[c] /\ \A i \in 1..Len(outq[c]) : outq[c][i] # r
    /\ call' = [call EXCEPT ![r] = NoCall]
    /\ stage' = [stage EXCEPT ![r] = "idle"]
    /\ pieces' = [pieces EXCEPT ![r] = <<>>]
    /\ outcome' = [outcome EXCEPT ![r] = "none"]
    /\ answers' = [answers EXCEPT ![r] = 0]
    /\ UNCHANGED <<connVars, pending, via, inbox>>

-----------------------------------------------------------------------------
ConnExit(c) == Deregister(c) \/ Leave(c)
ConnOut(c) == HelloSent(c) \/ WriteFrame(c) \/ ChannelClosed(c)
ConnEnv(c) ==
    \/ Accept(c) \/ Refuse(c) \/ HelloFailed(c) \/ LoopBroken(c) \/ PeerClosed(c)
    \/ \E t \in Tokens : Insert(c, t)
    \/ \E r \in Calls :
          \/ Pong(c, r) \/ QueryOk(c, r) \/ Ack(c, r) \/ Error(c, r)
          \/ \E last \in BOOLEAN : Reply(c, r, last)
\* A control request starts a call.  Which token its target or session names is the
\* registry's or the roster's answer: any token here, connected or not.
CallEnv(r) ==
    \/ Reap(r)
    \/ \E k \in Kinds, t \in Tokens : \E s \in SessionsFor(k) : Begin(r, k, t, s)

\* The five calls once begun, each with the steps its function has.
Ping(r) ==
    /\ call[r].kind = "ping"
    /\ Register(r) \/ Send(r) \/ TakeAnswer(r) \/ SenderDropped(r) \/ TimeOut(r)
Query(r) ==
    /\ call[r].kind = "query"
    /\ Register(r) \/ Send(r) \/ TakeAnswer(r) \/ SenderDropped(r) \/ TimeOut(r)
Prompt(r) ==
    /\ call[r].kind = "prompt"
    /\ \/ Register(r) \/ Send(r) \/ TakePartial(r) \/ TakeFinal(r)
       \/ SenderDropped(r) \/ TimeOut(r)
Interrupt(r) ==
    /\ call[r].kind = "interrupt"
    /\ \/ Register(r) \/ Send(r) \/ TakeAck(r)
       \/ SenderDropped(r) \/ TimeOut(r) \/ CheckPresence(r)
Answer(r) ==
    /\ call[r].kind = "answer"
    /\ \/ Register(r) \/ Send(r) \/ TakeAnswer(r)
       \/ SenderDropped(r) \/ TimeOut(r) \/ CheckPresence(r)
CallStep(r) == Ping(r) \/ Query(r) \/ Prompt(r) \/ Interrupt(r) \/ Answer(r)

Next ==
    \/ \E c \in Conns : ConnExit(c) \/ ConnOut(c) \/ ConnEnv(c)
    \/ \E t \in Tokens : Revoke(t)
    \/ \E r \in Calls : CallEnv(r) \/ CallStep(r)

Spec == Init /\ [][Next]_vars

\* Tasks are polled while they can run: the runtime schedules every woken task,
\* every timer fires, and a write to a socket completes or fails.
ConnFair(c) == WF_vars(ConnExit(c)) /\ WF_vars(ConnOut(c))
CallFair(r) == WF_vars(CallStep(r))
Fairness == (\A c \in Conns : ConnFair(c)) /\ (\A r \in Calls : CallFair(r))

FairSpec == Spec /\ Fairness

-----------------------------------------------------------------------------
(* Properties *)

\* The Entry in the map belongs to a connection task that authenticated this very
\* token and has not deregistered yet: every exit path of handle_connection
\* removes the Entry before the task is gone.
TrackedIsLive ==
    \A t \in Tokens : entries[t] # None =>
        /\ token[entries[t]] = t
        /\ phase[entries[t]] \in {"hello", "open", "ambiguous", "certain"}

\* No pending map leaks: whatever a live Entry still lists is a call of its token
\* that has not returned, and a dropped Entry lists nothing.
NoLeakedCall ==
    \A c \in Conns : \A r \in pending[c] :
        /\ token[c] \in Tokens /\ entries[token[c]] = c
        /\ call[r].token = token[c]
        /\ stage[r] \in {"registered", "waiting"}

\* Registry::prompt returns Done with every reply the client sent, in order and
\* without a hole, whatever entry replacement and late frames happened meanwhile.
WholeReply ==
    \A r \in Calls : outcome[r] = "done" =>
        /\ Len(pieces[r]) <= answers[r] /\ Len(pieces[r]) > 0
        /\ \A i \in 1..Len(pieces[r]) : pieces[r][i] = i

\* Prompt p is the one prompt of its session that a connection's client was given: the
\* turn the client runs, with nothing queued before or behind it.
OnlyTurn(p) ==
    LET Given(q) == \E c \in Conns : q \in delivered[c]
    IN  /\ call[p].kind = "prompt" /\ Given(p)
        /\ \A q \in Calls :
              /\ call[q].kind = "prompt" /\ Given(q)
              /\ call[q].token = call[p].token /\ call[q].session = call[p].session
              => q = p

\* When an interrupt returns Acked, the call that waits for the turn it cancelled has
\* something to wake it (issue #82), whichever connection either of them went through.
\* Prompts that the client has queued are not spoken of here.
AckWakesTurn ==
    [][\A i, p \in Calls :
          /\ outcome[i] = "none" /\ outcome'[i] = "acked" /\ call[i].kind = "interrupt"
          /\ Registered(p)' /\ OnlyTurn(p)
          /\ call[p].token = call[i].token /\ call[p].session = call[i].session
          => inbox'[p] # <<>>]_vars

\* The registry seen by its callers: a call waits from the first lock to its
\* return, and a prompt is cut once a cancel event is in its channel.
CallState(r) == IF stage[r] \in {"idle", "done"} THEN stage[r] ELSE "waiting"
Heard == {r \in Calls : answers[r] > 0}
CancelQueued(r) == \E i \in 1..Len(inbox[r]) : inbox[r][i].what = "cancelled"

Contract == INSTANCE CallContract WITH
    state <- [r \in Calls |-> CallState(r)],
    heard <- Heard,
    cut <- {r \in Calls : CancelQueued(r)},
    result <- outcome

\* Registry::ping, query, prompt, interrupt and answer keep the promise their
\* outcome types make (CallContract), under every interleaving of connections.
KeepsContract == Contract!Spec

\* Every call returns: there is a timeout or a dropped sender behind every wait.
CallsReturn ==
    \A r \in Calls : stage[r] = "cloned" ~> stage[r] = "done"

\* A connection that is not the tracked one any more, superseded or revoked,
\* closes (issue #56, issue #78), however many calls still hold a clone of out_tx.
UntrackedCloses ==
    \A c \in Conns :
        (phase[c] = "open" /\ entries[token[c]] # c) ~> phase[c] = "closed"

-----------------------------------------------------------------------------
(* Statements of the documentation and the comments that the code does not  *)
(* keep.                                                                    *)

\* "The new connection is the one now tracked": once inserted, a connection stays
\* registered until its own task leaves or its token is revoked.
SuccessorStaysTracked ==
    [][\A t \in Tokens :
          /\ entries[t] # None /\ entries'[t] = None
          /\ phase[entries[t]] \in {"hello", "open"}
          => Revoke(t)]_vars

=============================================================================
