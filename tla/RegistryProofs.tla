--------------------------- MODULE RegistryProofs ---------------------------
(***************************************************************************)
(* Safety of Registry for any number of tokens, connections, calls and     *)
(* sessions.                                                               *)
(***************************************************************************)
EXTENDS Registry, TLAPS

\* A connection has a token exactly from its insertion to its end.
Authenticated ==
    \A c \in Conns : IF phase[c] \in {"closed", "new"} THEN token[c] = None
                                                      ELSE token[c] \in Tokens

\* A call that began has a token and, while it runs, a connection to send on.
CallBegun ==
    \A r \in Calls :
        /\ stage[r] # "idle" => call[r].token \in Tokens /\ call[r].kind \in Kinds
        /\ HoldsTx(r) => via[r] \in Conns

\* Events wait only for a call that listens, and an event for a oneshot call
\* took that call's sender out of the map.
EventsConsume ==
    \A r \in Calls : inbox[r] # <<>> =>
        /\ stage[r] \in {"registered", "waiting"}
        /\ call[r].kind # "prompt" =>
              ~ Registered(r) /\ \A i \in 1..Len(inbox[r]) : inbox[r][i].what \in Outcomes

\* The inductive invariant.
Consistent ==
    Typed /\ Authenticated /\ CallBegun /\ TrackedIsLive /\ NoLeakedCall /\ EventsConsume

LEMMA TypeInit == Init => Typed
BY ConstantsAssumption DEF Init, Typed, Phases, Stages, Outcomes, CallInfo, NoCall

LEMMA TypeNext == Consistent /\ [Next]_vars => Typed'
<1> SUFFICES ASSUME Typed, CallBegun, EventsConsume, [Next]_vars PROVE Typed'
  BY DEF Consistent
<1> USE ConstantsAssumption DEF Typed, Phases, Stages, Outcomes
<1>1. ASSUME NEW c \in Conns, ConnExit(c) PROVE Typed'
  <2>1. Closed(c) => /\ phase' \in [Conns -> Phases] /\ token' \in [Conns -> Tokens \cup {None}]
                     /\ outq' \in [Conns -> Seq(Calls \cup {Superseded})]
                     /\ delivered' \in [Conns -> SUBSET Calls]
    BY DEF Closed
  <2>2. CASE Leave(c) BY <2>1, <2>2 DEF Leave, callVars
  <2>3. CASE Deregister(c)
    <3>1. entries' \in [Tokens -> Conns \cup {None}] /\ pending' \in [Conns -> SUBSET Calls]
      BY <2>3 DEF Deregister, DropEntry
    <3>2. CASE phase[c] = "ambiguous" BY <2>1, <2>3, <3>1, <3>2 DEF Deregister, callVars
    <3>3. CASE phase[c] = "certain" BY <2>3, <3>1, <3>3 DEF Deregister, callVars
    <3> QED BY <2>3, <3>2, <3>3 DEF Deregister
  <2> QED BY <1>1, <2>2, <2>3 DEF ConnExit
<1>2. ASSUME NEW c \in Conns, ConnOut(c) PROVE Typed'
  <2>1. CASE HelloSent(c) BY <2>1 DEF HelloSent, callVars
  <2>2. CASE WriteFrame(c) BY <2>2 DEF WriteFrame, callVars
  <2>3. CASE ChannelClosed(c) BY <2>3 DEF ChannelClosed, callVars
  <2> QED BY <1>2, <2>1, <2>2, <2>3 DEF ConnOut
<1>3. ASSUME NEW c \in Conns, ConnEnv(c) PROVE Typed'
  <2>1. CASE Accept(c) BY <2>1 DEF Accept, callVars
  <2>2. CASE Refuse(c) BY <2>2 DEF Refuse, callVars
  <2>3. CASE HelloFailed(c) BY <2>3 DEF HelloFailed, callVars
  <2>4. CASE LoopBroken(c) BY <2>4 DEF LoopBroken, callVars
  <2>5. CASE PeerClosed(c) BY <2>5 DEF PeerClosed, callVars
  <2>6. ASSUME NEW t \in Tokens, Insert(c, t) PROVE Typed'
    BY <2>6 DEF Insert, DropEntry, callVars
  <2>7. ASSUME NEW r \in Calls, NEW what \in {"connected", "ok", "err", "acked"},
               Answers(c, r), ResolveOnce(c, r, what) PROVE Typed'
    <3> DEFINE ev == Event(what, answers[r] + 1, TRUE)
    <3>1. ev \in Events /\ Append(inbox[r], ev) \in Seq(Events) BY <2>7 DEF Event, Events
    <3> HIDE DEF ev
    <3>2. inbox' \in [Calls -> Seq(Events)]
      BY <2>7, <3>1 DEF ResolveOnce, ev
    <3>3. pending' \in [Conns -> SUBSET Calls]
      <4> DEFINE e == entries[token[c]]
      <4>1. \A x \in Conns : pending[x] \ {r} \in SUBSET Calls OBVIOUS
      <4>2. pending' = pending \/ pending' = [pending EXCEPT ![e] = @ \ {r}]
        BY <2>7 DEF ResolveOnce
      <4> HIDE DEF e
      <4>3. CASE e \in Conns
        <5>1. pending[e] \ {r} \in SUBSET Calls BY <4>1, <4>3
        <5> QED BY <4>2, <4>3, <5>1
      <4>4. CASE e \notin Conns BY <4>2, <4>4
      <4> QED BY <4>3, <4>4
    <3>4. answers' \in [Calls -> 0..MaxAnswers] BY <2>7 DEF Answers
    <3> QED BY <2>7, <3>2, <3>3, <3>4 DEF Answers
  <2>8. ASSUME NEW r \in Calls, NEW what \in {"reply", "err"}, NEW last \in BOOLEAN,
               Answers(c, r), ResolveMore(c, r, what, last) PROVE Typed'
    BY <2>8 DEF Answers, ResolveMore, Event, Events
  <2> QED BY <1>3, <2>1, <2>2, <2>3, <2>4, <2>5, <2>6, <2>7, <2>8
          DEF ConnEnv, Pong, QueryOk, Ack, Error, Reply
<1>4. ASSUME NEW t \in Tokens, Revoke(t) PROVE Typed'
  BY <1>4 DEF Revoke, DropEntry, callVars
<1>5. ASSUME NEW r \in Calls, CallEnv(r) PROVE Typed'
  <2>1. CASE Reap(r) BY <2>1 DEF Reap, connVars, CallInfo, NoCall
  <2>2. ASSUME NEW k \in Kinds, NEW t \in Tokens, NEW s \in SessionsFor(k), Begin(r, k, t, s)
        PROVE Typed'
    BY <2>2 DEF Begin, SessionsFor, connVars, CallInfo
  <2> QED BY <1>5, <2>1, <2>2 DEF CallEnv
<1>6. ASSUME NEW r \in Calls, CallStep(r) PROVE Typed'
  <2> DEFINE CallTypes == /\ call' \in [Calls -> CallInfo] /\ stage' \in [Calls -> Stages]
                          /\ via' \in [Calls -> Conns \cup {None}]
                          /\ inbox' \in [Calls -> Seq(Events)]
                          /\ outcome' \in [Calls -> Outcomes]
                          /\ answers' \in [Calls -> 0..MaxAnswers]
  <2>a. ASSUME NEW result \in Outcomes, Return(r, result) PROVE CallTypes
    BY <2>a DEF Return
  <2>b. Forget(r) \in [Conns -> SUBSET Calls] BY DEF Forget
  <2>c. ASSUME inbox[r] # <<>>
        PROVE  Head(inbox[r]) \in Events /\ Tail(inbox[r]) \in Seq(Events)
    BY <2>c
  <2>1. CASE Register(r)
    <3>1. CASE entries[call[r].token] = None BY <2>1, <2>a, <3>1 DEF Register, connVars
    <3>2. CASE entries[call[r].token] # None
      <4> DEFINE e == entries[call[r].token]
      <4>1. e \in Conns BY <2>1, <3>2 DEF Register, CallBegun
      <4>2. pending[e] \cup {r} \in SUBSET Calls BY <4>1
      <4>2a. pending' = [pending EXCEPT ![e] = @ \cup {r}] BY <2>1, <3>2 DEF Register
      <4>2b. pending' \in [Conns -> SUBSET Calls] BY <4>1, <4>2, <4>2a
      <4>3. CallTypes BY <2>1, <3>2 DEF Register
      <4> QED BY <2>1, <4>2b, <4>3 DEF Register, connVars
    <3> QED BY <3>1, <3>2
  <2>2. CASE Send(r)
    <3>1. CASE phase[via[r]] = "closed" BY <2>2, <2>a, <2>b, <3>1 DEF Send
    <3>2. CASE phase[via[r]] # "closed"
      <4>1. via[r] \in Conns BY <2>2 DEF Send, CallBegun, HoldsTx
      <4>2. Append(outq[via[r]], r) \in Seq(Calls \cup {Superseded}) BY <4>1
      <4>3. outq' \in [Conns -> Seq(Calls \cup {Superseded})] BY <2>2, <3>2, <4>2 DEF Send
      <4>4. CallTypes /\ pending' \in [Conns -> SUBSET Calls] BY <2>2, <3>2 DEF Send
      <4> QED BY <2>2, <4>3, <4>4 DEF Send
    <3> QED BY <3>1, <3>2
  <2>3. CASE TakeAnswer(r)
    <3>1. Head(inbox[r]).what \in Outcomes
      <4>1. inbox[r] # <<>> /\ call[r].kind # "prompt" BY <2>3 DEF TakeAnswer
      <4>2. 1 \in 1..Len(inbox[r]) /\ Head(inbox[r]) = inbox[r][1] BY <4>1
      <4> QED BY <4>1, <4>2 DEF EventsConsume
    <3> QED BY <2>3, <2>a, <3>1 DEF TakeAnswer, connVars
  <2>4. CASE TakeAck(r)
    <3>1. \A p \in Calls : Append(inbox[p], Event("cancelled", 0, TRUE)) \in Seq(Events)
      BY DEF Event, Events
    <3>2. inbox' \in [Calls -> Seq(Events)]
      <4> DEFINE f(p) == IF p = r THEN <<>>
                         ELSE IF p \in PromptsToWake(r)
                              THEN Append(inbox[p], Event("cancelled", 0, TRUE))
                              ELSE inbox[p]
      <4>0. <<>> \in Seq(Events) /\ \A p \in Calls : inbox[p] \in Seq(Events) OBVIOUS
      <4>1. \A p \in Calls : f(p) \in Seq(Events) BY <3>1, <4>0, Zenon
      <4>2. inbox' = [p \in Calls |-> f(p)] BY <2>4 DEF TakeAck
      <4> HIDE DEF f
      <4> QED BY <4>1, <4>2
    <3>3. stage' \in [Calls -> Stages] /\ outcome' \in [Calls -> Outcomes] BY <2>4 DEF TakeAck
    <3>4. via' \in [Calls -> Conns \cup {None}] BY <2>4 DEF TakeAck
    <3> QED BY <2>4, <3>2, <3>3, <3>4 DEF TakeAck, connVars
  <2>5. CASE TakePartial(r)
    <3>1. Head(inbox[r]).n \in Nat BY <2>5, <2>c DEF TakePartial, Events
    <3> QED BY <2>5, <2>c, <3>1 DEF TakePartial, connVars
  <2>6. CASE TakeFinal(r)
    <3>1. Head(inbox[r]).n \in Nat BY <2>6, <2>c DEF TakeFinal, Events
    <3>2. pieces' \in [Calls -> Seq(Nat)]
      <4>1. Append(pieces[r], Head(inbox[r]).n) \in Seq(Nat) BY <3>1
      <4> QED BY <2>6, <4>1 DEF TakeFinal
    <3>3. CallTypes BY <2>6, <2>a DEF TakeFinal
    <3> QED BY <2>6, <2>b, <3>2, <3>3 DEF TakeFinal, connVars
  <2>7. CASE SenderDropped(r) BY <2>7, <2>a, <2>b DEF SenderDropped, connVars
  <2>8. CASE TimeOut(r)
    <3>1. CallTypes
      <4>1. CASE Return(r, "disconnected") BY <2>a, <4>1
      <4>2. CASE stage' = [stage EXCEPT ![r] = "expired"] /\ UNCHANGED <<call, via, inbox, outcome, answers>>
        BY <4>2
      <4> QED BY <2>8, <4>1, <4>2 DEF TimeOut
    <3> QED BY <2>8, <2>b, <3>1 DEF TimeOut, connVars
  <2>9. CASE CheckPresence(r) BY <2>9, <2>a DEF CheckPresence, connVars
  <2> QED BY <1>6, <2>1, <2>2, <2>3, <2>4, <2>5, <2>6, <2>7, <2>8, <2>9
         DEF CallStep, Ping, Query, Prompt, Interrupt, Answer
<1>7. CASE UNCHANGED vars BY <1>7 DEF vars
<1> QED BY <1>1, <1>2, <1>3, <1>4, <1>5, <1>6, <1>7 DEF Next

LEMMA ConsistentInit == Init => Consistent
<1> SUFFICES ASSUME Init PROVE Consistent
  OBVIOUS
<1>1. Authenticated /\ TrackedIsLive /\ NoLeakedCall
  BY DEF Init, Authenticated, TrackedIsLive, NoLeakedCall
<1>2. CallBegun /\ EventsConsume
  BY DEF Init, CallBegun, EventsConsume, HoldsTx
<1> QED BY TypeInit, <1>1, <1>2 DEF Consistent

\* forget_pending* looks in the Entry the token has now, which is the only one
\* that can list the call: the call is in no pending map afterwards.
LEMMA ForgetEffect ==
    ASSUME Consistent, NEW r \in Calls, stage[r] # "idle"
    PROVE  \A c \in Conns : Forget(r)[c] = pending[c] \ {r}
<1>1. call[r].token \in Tokens BY DEF Consistent, CallBegun
<1>2. SUFFICES ASSUME NEW c \in Conns PROVE Forget(r)[c] = pending[c] \ {r}
  OBVIOUS
<1>3. pending \in [Conns -> SUBSET Calls] /\ entries \in [Tokens -> Conns \cup {None}]
  BY DEF Consistent, Typed
<1>4. CASE entries[call[r].token] = c
  BY <1>1, <1>3, <1>4, ConstantsAssumption DEF Forget
<1>5. CASE entries[call[r].token] # c
  <2>1. r \notin pending[c] BY <1>5 DEF Consistent, NoLeakedCall
  <2>2. Forget(r)[c] = pending[c] BY <1>1, <1>3, <1>5 DEF Forget
  <2> QED BY <2>1, <2>2
<1> QED BY <1>4, <1>5

\* Dropping an Entry empties the pending maps of its connection only.
LEMMA DropEffect ==
    ASSUME Consistent, NEW t \in Tokens
    PROVE  \A c \in Conns : DropEntry(t)[c] = IF entries[t] = c THEN {} ELSE pending[c]
BY ConstantsAssumption DEF Consistent, Typed, DropEntry

LEMMA ConsistentNext == Consistent /\ [Next]_vars => Consistent'
<1> SUFFICES ASSUME Consistent, [Next]_vars PROVE Consistent'
  OBVIOUS
<1> DEFINE Rest == Authenticated /\ CallBegun /\ TrackedIsLive /\ NoLeakedCall /\ EventsConsume
<1>0. Typed' BY TypeNext
<1>t. /\ pending \in [Conns -> SUBSET Calls] /\ entries \in [Tokens -> Conns \cup {None}]
      /\ None \notin Conns /\ None \notin Tokens
      /\ inbox \in [Calls -> Seq(Events)] /\ stage \in [Calls -> Stages]
      /\ via \in [Calls -> Conns \cup {None}] /\ call \in [Calls -> CallInfo]
  BY ConstantsAssumption DEF Consistent, Typed
<1>h. Authenticated /\ CallBegun /\ TrackedIsLive /\ NoLeakedCall /\ EventsConsume
  BY DEF Consistent
<1>o. \A c \in Conns : phase[c] = "open" =>
         token[c] \in Tokens /\ entries[token[c]] \in Conns \cup {None}
  BY <1>h, <1>t DEF Authenticated
<1> USE ConstantsAssumption DEF Consistent, Authenticated, CallBegun, TrackedIsLive, NoLeakedCall,
        EventsConsume, Registered, HoldsTx
<1>1. ASSUME NEW c \in Conns, ConnExit(c) PROVE Rest'
  <2>a. token[c] \in Tokens BY <1>1 DEF ConnExit, Leave, Deregister
  <2>1. CASE Leave(c)
    <3>1. (CallBegun /\ EventsConsume)' BY <2>1 DEF Leave, callVars, Typed
    <3>2. (Authenticated /\ TrackedIsLive)' BY <2>1 DEF Leave, Closed, Typed
    <3>3. /\ \A d \in Conns : d # c => token'[d] = token[d]
          /\ UNCHANGED <<entries, pending, call, stage>>
      BY <2>1 DEF Leave, Closed, callVars, Typed
    <3>4. \A r \in Calls : r \notin pending[c]
      BY <2>1, <2>a DEF Leave
    <3>5. NoLeakedCall' BY <3>3, <3>4, <1>t
    <3> QED BY <3>1, <3>2, <3>5
  <2>2. CASE Deregister(c)
    <3>0. \A d \in Conns : pending'[d] = IF entries[token[c]] = d THEN {} ELSE pending[d]
      BY <2>2, <2>a, DropEffect DEF Deregister
    <3>1. CallBegun' BY <2>2 DEF Deregister, callVars
    <3>2. EventsConsume' BY <2>2, <3>0 DEF Deregister, callVars
    <3>a. \A d \in Conns : d # c => phase'[d] = phase[d] /\ token'[d] = token[d]
      BY <2>2 DEF Deregister, Closed, Typed
    <3>b. \/ phase'[c] = "closed" /\ token'[c] = None
          \/ phase'[c] = "gone" /\ token'[c] = token[c]
      BY <2>2 DEF Deregister, Closed, Typed
    <3>c. \A u \in Tokens : entries'[u] = IF u = token[c] THEN None ELSE entries[u]
      BY <2>2 DEF Deregister, Typed
    <3>3. Authenticated' BY <2>a, <3>a, <3>b
    <3>4. TrackedIsLive' BY <2>a, <3>a, <3>b, <3>c, <1>t
    <3>d. UNCHANGED <<call, stage>> BY <2>2 DEF Deregister, callVars
    <3>5. NoLeakedCall'
      <4> SUFFICES ASSUME NEW d \in Conns, NEW r \in pending'[d]
                   PROVE  /\ token'[d] \in Tokens /\ entries'[token'[d]] = d
                          /\ call'[r].token = token'[d] /\ stage'[r] \in {"registered", "waiting"}
        OBVIOUS
      <4> HIDE DEF Consistent, NoLeakedCall
      <4>1. entries[token[c]] # d /\ r \in pending[d] BY <3>0
      <4>2. /\ token[d] \in Tokens /\ entries[token[d]] = d
            /\ call[r].token = token[d] /\ stage[r] \in {"registered", "waiting"}
        BY <1>h, <4>1 DEF NoLeakedCall
      <4>3. d # c /\ token[d] # token[c] BY <4>1, <4>2
      <4> QED BY <3>a, <3>c, <3>d, <4>2, <4>3
    <3> QED BY <3>1, <3>2, <3>3, <3>4, <3>5
  <2> QED BY <1>1, <2>1, <2>2 DEF ConnExit
<1>2. ASSUME NEW c \in Conns, ConnOut(c) PROVE Rest'
  <2>1. CASE HelloSent(c) BY <2>1 DEF HelloSent, callVars, Typed
  <2>2. CASE WriteFrame(c) BY <2>2 DEF WriteFrame, callVars, Typed
  <2>3. CASE ChannelClosed(c) BY <2>3 DEF ChannelClosed, callVars, Typed
  <2> QED BY <1>2, <2>1, <2>2, <2>3 DEF ConnOut
<1>3. ASSUME NEW c \in Conns, ConnEnv(c) PROVE Rest'
  <2>1. CASE Accept(c) BY <2>1 DEF Accept, callVars, Typed
  <2>2. CASE Refuse(c) BY <2>2 DEF Refuse, callVars, Typed
  <2>3. CASE HelloFailed(c) BY <2>3 DEF HelloFailed, callVars, Typed
  <2>4. CASE LoopBroken(c) BY <2>4 DEF LoopBroken, callVars, Typed
  <2>5. CASE PeerClosed(c) BY <2>5 DEF PeerClosed, callVars, Typed
  <2>6. ASSUME NEW t \in Tokens, Insert(c, t) PROVE Rest'
    BY <2>6 DEF Insert, DropEntry, callVars, Typed
  <2>7. ASSUME NEW r \in Calls, NEW what \in {"connected", "ok", "err", "acked"},
               call[r].kind # "prompt", Answers(c, r), ResolveOnce(c, r, what) PROVE Rest'
    <3>0. /\ \A d \in Conns : pending'[d] \subseteq pending[d]
          /\ \A q \in Calls : q # r => inbox'[q] = inbox[q]
      <4> DEFINE e == entries[token[c]]
      <4>1. \/ UNCHANGED <<pending, inbox>>
            \/ /\ pending' = [pending EXCEPT ![e] = @ \ {r}]
               /\ inbox' = [inbox EXCEPT ![r] = Append(@, Event(what, answers[r] + 1, TRUE))]
        BY <2>7 DEF ResolveOnce
      <4> HIDE DEF e, Consistent
      <4>2. \A d \in Conns : pending'[d] \subseteq pending[d]
        <5>1. ASSUME NEW d \in Conns
              PROVE  pending'[d] = pending[d] \/ pending'[d] = pending[d] \ {r}
          <6>1. pending' = pending \/ pending' = [pending EXCEPT ![e] = @ \ {r}] BY <4>1
          <6>2. CASE pending' = pending BY <6>2
          <6>3. CASE pending' = [pending EXCEPT ![e] = @ \ {r}] BY <6>3, <1>t
          <6> QED BY <6>1, <6>2, <6>3
        <5> QED BY <5>1
      <4>3. \A q \in Calls : q # r => inbox'[q] = inbox[q] BY <4>1, <1>t
      <4> QED BY <4>2, <4>3
    <3>1. (CallBegun /\ Authenticated /\ TrackedIsLive)' BY <2>7 DEF Answers
    <3>2. NoLeakedCall' BY <2>7, <3>0 DEF Answers
    <3>3. EventsConsume'
      <4> DEFINE ev == Event(what, answers[r] + 1, TRUE)
      <4>1. CASE inbox'[r] = inbox[r] BY <2>7, <3>0, <4>1 DEF Answers
      <4>2. CASE inbox'[r] # inbox[r]
        <5>1. r \in pending[entries[token[c]]] /\ entries[token[c]] # None
          BY <2>7, <4>2 DEF ResolveOnce
        <5>2. inbox[r] = <<>> /\ stage[r] \in {"registered", "waiting"}
          <6>1. entries[token[c]] \in Conns /\ call[r].kind # "prompt" BY <2>7, <5>1, <1>o DEF Answers
          <6> QED BY <5>1, <6>1
        <5>3. inbox'[r] = Append(inbox[r], ev)
          <6>1. inbox' = [inbox EXCEPT ![r] = Append(inbox[r], ev)] BY <2>7, <5>1 DEF ResolveOnce
          <6> HIDE DEF ev
          <6> QED BY <6>1, <1>t
        <5>4. inbox'[r] = <<ev>>
          <6> HIDE DEF ev
          <6> QED BY <5>2, <5>3
        <5>5. ~ Registered(r)'
          <6> DEFINE e == entries[token[c]]
          <6>1. pending' = [pending EXCEPT ![e] = @ \ {r}] BY <2>7, <5>1 DEF ResolveOnce
          <6>2. \A d \in Conns : r \in pending[d] => d = e
            <7> HIDE DEF Consistent
            <7>1. e \in Conns BY <2>7, <5>1, <1>o DEF Answers
            <7> HIDE DEF e
            <7>2. r \in pending[e] BY <5>1 DEF e
            <7> QED BY <1>h, <7>1, <7>2 DEF NoLeakedCall
          <6> HIDE DEF e
          <6> QED BY <6>1, <6>2, <1>t
        <5>6. ev.what \in Outcomes BY DEF Event, Outcomes
        <5> HIDE DEF ev
        <5>7. \A i \in 1..Len(inbox'[r]) : inbox'[r][i].what \in Outcomes
          BY <5>4, <5>6
        <5> QED BY <2>7, <3>0, <5>2, <5>5, <5>7 DEF Answers
      <4> QED BY <4>1, <4>2
    <3> QED BY <3>1, <3>2, <3>3
  <2>8. ASSUME NEW r \in Calls, NEW what \in {"reply", "err"}, NEW last \in BOOLEAN,
               call[r].kind = "prompt", Answers(c, r), ResolveMore(c, r, what, last)
        PROVE Rest'
    <3>0. pending' = pending /\ \A q \in Calls : q # r => inbox'[q] = inbox[q]
      BY <2>8 DEF ResolveMore, Typed
    <3>1. (CallBegun /\ Authenticated /\ TrackedIsLive /\ NoLeakedCall)'
      BY <2>8, <3>0 DEF Answers
    <3>2. inbox'[r] = inbox[r] \/ \E d \in Conns : r \in pending[d]
      <4>1. entries[token[c]] \in Conns \cup {None} BY <2>8, <1>o DEF Answers
      <4>2. inbox' = inbox \/ (entries[token[c]] # None /\ r \in pending[entries[token[c]]])
        BY <2>8 DEF ResolveMore
      <4> QED BY <4>1, <4>2
    <3>3. EventsConsume' BY <2>8, <3>0, <3>2 DEF Answers
    <3> QED BY <3>1, <3>3
  <2> HIDE DEF Rest
  <2>9. ASSUME NEW r \in Calls, Pong(c, r) \/ QueryOk(c, r) \/ Ack(c, r) PROVE Rest'
    BY <2>7, <2>9 DEF Pong, QueryOk, Ack
  <2>10. ASSUME NEW r \in Calls, Error(c, r) PROVE Rest'
    BY <2>7, <2>8, <2>10 DEF Error
  <2>11. ASSUME NEW r \in Calls, NEW last \in BOOLEAN, Reply(c, r, last) PROVE Rest'
    BY <2>8, <2>11 DEF Reply
  <2> QED BY <1>3, <2>1, <2>2, <2>3, <2>4, <2>5, <2>6, <2>9, <2>10, <2>11 DEF ConnEnv
<1>4. ASSUME NEW t \in Tokens, Revoke(t) PROVE Rest'
  BY <1>4 DEF Revoke, DropEntry, callVars, Typed
<1>5. ASSUME NEW r \in Calls, CallEnv(r) PROVE Rest'
  <2>1. CASE Reap(r)
    <3>1. (\A c \in Conns : r \notin pending[c]) /\ inbox[r] = <<>>
      <4>1. stage[r] = "done" BY <2>1 DEF Reap
      <4> QED BY <4>1
    <3>2. (Authenticated /\ TrackedIsLive /\ CallBegun)' BY <2>1 DEF Reap, connVars, Typed
    <3>3. NoLeakedCall' BY <2>1, <3>1 DEF Reap, connVars, Typed
    <3>4. EventsConsume' BY <2>1, <3>1 DEF Reap, connVars, Typed
    <3> QED BY <3>2, <3>3, <3>4
  <2>2. ASSUME NEW k \in Kinds, NEW t \in Tokens, NEW s \in SessionsFor(k), Begin(r, k, t, s)
        PROVE Rest'
    BY <2>2 DEF Begin, connVars, Typed
  <2> QED BY <1>5, <2>1, <2>2 DEF CallEnv
<1>6. ASSUME NEW r \in Calls, CallStep(r) PROVE Rest'
  <2>0. stage[r] # "idle" /\ call[r].token \in Tokens
    BY <1>6 DEF CallStep, Ping, Query, Prompt, Interrupt, Answer, Register, Send, TakeAnswer,
               TakeAck, TakePartial, TakeFinal,
                SenderDropped, TimeOut, CheckPresence
  <2>a. ASSUME NEW result, Return(r, result), UNCHANGED connVars,
               \A c \in Conns : pending'[c] = pending[c] \ {r}
        PROVE  Rest'
    <3>1. (Authenticated /\ TrackedIsLive)' BY <2>a DEF connVars
    <3>2. CallBegun' BY <2>a, <2>0 DEF Return, Typed
    <3>3. NoLeakedCall' BY <2>a DEF Return, connVars, Typed
    <3>4. EventsConsume' BY <2>a DEF Return, Typed
    <3> QED BY <3>1, <3>2, <3>3, <3>4
  <2>b. \A c \in Conns : Forget(r)[c] = pending[c] \ {r} BY <2>0, ForgetEffect
  <2>c. (\A c \in Conns : r \notin pending[c]) => \A c \in Conns : pending[c] = pending[c] \ {r}
    OBVIOUS
  <2>1. CASE Register(r)
    <3>1. CASE entries[call[r].token] = None
      BY <2>1, <2>a, <2>c, <3>1 DEF Register, Rest
    <3>2. CASE entries[call[r].token] # None
      <4> DEFINE e == entries[call[r].token]
      <4>0. stage[r] = "cloned" BY <2>1 DEF Register
      <4>1. e \in Conns /\ stage[r] = "cloned" /\ inbox[r] = <<>>
        <5>1. inbox[r] = <<>> BY <4>0
        <5>2. e \in Conns BY <2>0, <3>2, <1>t
        <5> QED BY <4>0, <5>1, <5>2
      <4>2. /\ pending' = [pending EXCEPT ![e] = @ \cup {r}]
            /\ stage' = [stage EXCEPT ![r] = "registered"]
            /\ UNCHANGED <<connVars, call, via, inbox>>
        BY <2>1, <3>2 DEF Register
      <4>3. (Authenticated /\ TrackedIsLive)' BY <4>2 DEF connVars
      <4>4. CallBegun' BY <4>1, <4>2 DEF Typed
      <4>5. NoLeakedCall' BY <2>0, <4>1, <4>2 DEF connVars, Typed
      <4>6. EventsConsume' BY <4>1, <4>2 DEF Typed
      <4> QED BY <4>3, <4>4, <4>5, <4>6
    <3> QED BY <3>1, <3>2
  <2>2. CASE Send(r)
    <3>1. CASE phase[via[r]] = "closed"
      <4>1. UNCHANGED connVars /\ Return(r, "disconnected") /\ pending' = Forget(r)
        BY <2>2, <3>1 DEF Send, connVars
      <4> QED BY <2>a, <2>b, <4>1 DEF Rest
    <3>2. CASE phase[via[r]] # "closed"
      <4>1. /\ stage[r] = "registered" /\ stage' = [stage EXCEPT ![r] = "waiting"]
            /\ UNCHANGED <<phase, token, entries, pending, call, via, inbox>>
        BY <2>2, <3>2 DEF Send
      <4>2. (Authenticated /\ TrackedIsLive)' BY <4>1
      <4>3. CallBegun' BY <4>1, <1>t
      <4>4. NoLeakedCall' BY <4>1, <1>t
      <4>5. EventsConsume' BY <4>1, <1>t
      <4> QED BY <4>2, <4>3, <4>4, <4>5
    <3> QED BY <3>1, <3>2
  <2>3. CASE TakeAnswer(r) BY <2>3, <2>a, <2>c DEF TakeAnswer, Rest
  <2>4. CASE TakeAck(r)
    <3>0. \A c \in Conns : r \notin pending[c] BY <2>4 DEF TakeAck
    <3>1. \A p \in Calls : p # r =>
             \/ inbox'[p] = inbox[p]
             \/ call[p].kind = "prompt" /\ \E d \in Conns : p \in pending[d]
      <4>1. \A p \in Calls : p # r =>
               inbox'[p] = IF p \in PromptsToWake(r)
                           THEN Append(inbox[p], Event("cancelled", 0, TRUE)) ELSE inbox[p]
        BY <2>4 DEF TakeAck
      <4>2. \A p \in PromptsToWake(r) :
               call[p].kind = "prompt" /\ \E d \in Conns : p \in pending[d]
        BY <2>0, <1>t DEF PromptsToWake
      <4> QED BY <4>1, <4>2
    <3>2. (Authenticated /\ TrackedIsLive)' BY <2>4 DEF TakeAck, connVars
    <3>3. CallBegun' BY <2>4 DEF TakeAck, Typed
    <3>4. NoLeakedCall' BY <2>4, <3>0 DEF TakeAck, connVars, Typed
    <3>5. inbox'[r] = <<>> BY <2>4 DEF TakeAck
    <3>6. EventsConsume'
      <4>1. /\ UNCHANGED <<pending, call>>
            /\ \A p \in Calls : p # r => stage'[p] = stage[p]
        BY <2>4 DEF TakeAck, Typed
      <4>2. \A p \in Calls : (\E d \in Conns : p \in pending[d]) => stage[p] \in {"registered", "waiting"}
        OBVIOUS
      <4> QED BY <3>1, <3>5, <4>1, <4>2
    <3> QED BY <3>2, <3>3, <3>4, <3>6
  <2>5. CASE TakePartial(r) BY <2>5 DEF TakePartial, connVars, Typed
  <2>6. CASE TakeFinal(r)
    <3>1. (\E result : Return(r, result)) /\ pending' = Forget(r) /\ UNCHANGED connVars
      BY <2>6 DEF TakeFinal
    <3> QED BY <3>1, <2>a, <2>b DEF Rest
  <2>7. CASE SenderDropped(r) BY <2>7, <2>a, <2>b, <2>c DEF SenderDropped, Rest
  <2>8. CASE TimeOut(r)
    <3>1. CASE call[r].kind \in {"ping", "query", "prompt"}
      BY <2>8, <2>a, <2>b, <3>1 DEF TimeOut, Rest
    <3>2. CASE call[r].kind \in {"interrupt", "answer"}
      <4>1. /\ stage[r] = "waiting" /\ stage' = [stage EXCEPT ![r] = "expired"] /\ inbox[r] = <<>>
            /\ UNCHANGED <<phase, token, entries, call, via, inbox>>
        BY <2>8, <3>2 DEF TimeOut, connVars
      <4>2. \A c \in Conns : pending'[c] = pending[c] \ {r} BY <2>8, <2>b DEF TimeOut
      <4>3. (Authenticated /\ TrackedIsLive)' BY <4>1
      <4>4. CallBegun' BY <4>1, <1>t
      <4>5. NoLeakedCall' BY <4>1, <4>2, <1>t
      <4>6. EventsConsume' BY <4>1, <4>2, <1>t
      <4> QED BY <4>3, <4>4, <4>5, <4>6
    <3> QED BY <2>8, <3>1, <3>2 DEF TimeOut
  <2>9. CASE CheckPresence(r) BY <2>9, <2>a, <2>c DEF CheckPresence, Rest
  <2> QED BY <1>6, <2>1, <2>2, <2>3, <2>4, <2>5, <2>6, <2>7, <2>8, <2>9
         DEF CallStep, Ping, Query, Prompt, Interrupt, Answer
<1>7. CASE UNCHANGED vars BY <1>7 DEF vars, Typed
<1> QED BY <1>0, <1>1, <1>2, <1>3, <1>4, <1>5, <1>6, <1>7 DEF Next

\* Every reachable state of the registry satisfies the inductive invariant.
THEOREM ConsistentAlways == Spec => []Consistent
BY ConsistentInit, ConsistentNext, PTL DEF Spec

\* The tracked connection of a token is one that authenticated it and has not left.
THEOREM TrackedAlwaysLive == Spec => []TrackedIsLive
BY ConsistentAlways, PTL DEF Consistent

\* No pending map of a live or dropped Entry keeps a call that has returned.
THEOREM NoCallLeaks == Spec => []NoLeakedCall
BY ConsistentAlways, PTL DEF Consistent

-----------------------------------------------------------------------------
(* Frames, events and replies *)

\* The frame of call r is on its way to the client of connection c, or arrived.
FrameAt(c, r) == r \in delivered[c] \/ \E i \in 1..Len(outq[c]) : outq[c][i] = r

\* A call has heard and collected nothing before its frame is sent, and returns once.
Unsent(r) ==
    /\ stage[r] \in {"idle", "cloned", "registered"} =>
          answers[r] = 0 /\ pieces[r] = <<>> /\ \A c \in Conns : ~ FrameAt(c, r)
    /\ stage[r] # "done" => outcome[r] = "none"

\* A call's frame travels only on connections of its own token: the connection it
\* cloned may be superseded meanwhile, and is not reused while the clone lives.
SentOnOwnToken(r) ==
    /\ HoldsTx(r) => phase[via[r]] = "closed" \/ token[via[r]] = call[r].token
    /\ \A c \in Conns : FrameAt(c, r) => token[c] = call[r].token

\* What waits in a call's channel is of its kind, and the client's doing unless it
\* is a cancel.
FittingEvents(r) ==
    \A i \in 1..Len(inbox[r]) :
        /\ Fits(call[r].kind, inbox[r][i].what)
        /\ inbox[r][i].what # "cancelled" => answers[r] > 0

\* The first i events of a channel are all replies.
Replies(s, i) == \A j \in 1..i : s[j].what = "reply"

\* The replies a prompt has collected and the replies waiting for it, up to an error
\* or a cancel, number the client's answers from 1 without a hole; while the prompt
\* is registered they are all the client's answers.
Contiguous(r) ==
    stage[r] # "done" /\ call[r].kind = "prompt" =>
        /\ \A i \in 1..Len(pieces[r]) : pieces[r][i] = i
        /\ Len(pieces[r]) <= answers[r]
        /\ \A i \in 1..Len(inbox[r]) : Replies(inbox[r], i) =>
              inbox[r][i].n = Len(pieces[r]) + i /\ inbox[r][i].n <= answers[r]
        /\ Registered(r) /\ Replies(inbox[r], Len(inbox[r])) =>
              answers[r] = Len(pieces[r]) + Len(inbox[r])

\* What a call has heard agrees with what it was sent.
FaithfulTo(r) == Unsent(r) /\ SentOnOwnToken(r) /\ FittingEvents(r) /\ Contiguous(r)
Faithful == \A r \in Calls : FaithfulTo(r)

\* A call that a step does not touch stays as it is, if the step adds no frame of it
\* anywhere and its connection is not reused.
LEMMA Untouched ==
    ASSUME NEW q \in Calls, FaithfulTo(q),
           /\ call'[q] = call[q] /\ stage'[q] = stage[q] /\ via'[q] = via[q]
           /\ inbox'[q] = inbox[q] /\ pieces'[q] = pieces[q]
           /\ outcome'[q] = outcome[q] /\ answers'[q] = answers[q],
           Registered(q)' => Registered(q),
           \A c \in Conns : FrameAt(c, q)' => FrameAt(c, q) /\ token'[c] = token[c],
           HoldsTx(q) => \/ phase'[via[q]] = "closed"
                         \/ phase[via[q]] # "closed" /\ token'[via[q]] = token[via[q]]
    PROVE  FaithfulTo(q)'
<1>1. Unsent(q)' BY DEF FaithfulTo, Unsent
<1>2. SentOnOwnToken(q)' BY DEF FaithfulTo, SentOnOwnToken, HoldsTx
<1>3. FittingEvents(q)' BY DEF FaithfulTo, FittingEvents
<1>4. Contiguous(q)'
  BY DEF FaithfulTo, Contiguous
<1> QED BY <1>1, <1>2, <1>3, <1>4 DEF FaithfulTo

\* No frame of any call is with a connection that has not authenticated.
LEMMA NoEarlyFrame ==
    ASSUME Consistent, Faithful, NEW c \in Conns, phase[c] \in {"closed", "new"}
    PROVE  \A r \in Calls : ~ FrameAt(c, r)
<1> SUFFICES ASSUME NEW r \in Calls, FrameAt(c, r) PROVE FALSE
  OBVIOUS
<1>1. stage[r] # "idle" BY DEF Faithful, FaithfulTo, Unsent
<1>2. call[r].token \in Tokens BY <1>1 DEF Consistent, CallBegun
<1>3. token[c] = None BY DEF Consistent, Authenticated
<1>4. token[c] = call[r].token BY DEF Faithful, FaithfulTo, SentOnOwnToken
<1> QED BY <1>2, <1>3, <1>4, ConstantsAssumption

\* The steps of a connection's task that are not about one call's answer.
ConnMoves(c) ==
    \/ ConnExit(c) \/ ConnOut(c) \/ Accept(c) \/ Refuse(c) \/ HelloFailed(c)
    \/ LoopBroken(c) \/ PeerClosed(c) \/ \E t \in Tokens : Insert(c, t)

\* A connection's own steps add no frame, register no call and keep a connection
\* that a call still holds from being reused.
LEMMA FramesStay ==
    ASSUME Consistent, Faithful, NEW c \in Conns, NEW d \in Conns, NEW q \in Calls, FrameAt(d, q)',
           ConnMoves(c)
    PROVE  FrameAt(d, q) /\ token'[d] = token[d]
<1>t. /\ outq \in [Conns -> Seq(Calls \cup {Superseded})] /\ delivered \in [Conns -> SUBSET Calls]
      /\ token \in [Conns -> Tokens \cup {None}] /\ entries \in [Tokens -> Conns \cup {None}]
  BY DEF Consistent, Typed
<1>1. CASE UNCHANGED <<outq, delivered, token>> BY <1>1 DEF FrameAt
<1>2. CASE Closed(c)
  <2>1. d # c BY <1>2, <1>t DEF Closed, FrameAt
  <2> QED BY <1>2, <1>t, <2>1 DEF Closed, FrameAt
<1>3. CASE WriteFrame(c)
  <2>1. token' = token BY <1>3 DEF WriteFrame
  <2>2. CASE d # c BY <1>3, <1>t, <2>1, <2>2 DEF WriteFrame, FrameAt
  <2>3. CASE d = c
    <3>1. outq[c] # <<>> /\ outq'[c] = Tail(outq[c]) BY <1>3, <1>t DEF WriteFrame
    <3>2. delivered'[c] = delivered[c] \cup ({Head(outq[c])} \cap Calls) BY <1>3, <1>t DEF WriteFrame
    <3>3. outq[c] \in Seq(Calls \cup {Superseded}) BY <1>t
    <3>4. /\ Len(outq[c]) \in Nat /\ 1 \in 1..Len(outq[c]) /\ Head(outq[c]) = outq[c][1]
          /\ \A i \in 1..Len(Tail(outq[c])) :
                i + 1 \in 1..Len(outq[c]) /\ Tail(outq[c])[i] = outq[c][i + 1]
      BY <3>1, <3>3
    <3>5. CASE q \in delivered'[c] BY <2>1, <2>3, <3>2, <3>4, <3>5 DEF FrameAt
    <3>6. CASE \E i \in 1..Len(outq'[c]) : outq'[c][i] = q
      BY <2>1, <2>3, <3>1, <3>4, <3>6 DEF FrameAt
    <3> QED BY <2>3, <3>5, <3>6 DEF FrameAt
  <2> QED BY <2>2, <2>3
<1>4. ASSUME NEW t \in Tokens, Insert(c, t) PROVE FrameAt(d, q) /\ token'[d] = token[d]
  <2>0. delivered' = delivered BY <1>4 DEF Insert
  <2>1. FrameAt(d, q)
    <3>1. CASE outq'[d] = outq[d] BY <2>0, <3>1 DEF FrameAt
    <3>2. CASE outq'[d] = Append(outq[d], Superseded)
      <4>1. outq[d] \in Seq(Calls \cup {Superseded}) BY <1>t
      <4>2. \A i \in 1..Len(outq'[d]) : outq'[d][i] = q => i \in 1..Len(outq[d]) /\ outq[d][i] = q
        BY <3>2, <4>1, ConstantsAssumption
      <4> QED BY <2>0, <4>2 DEF FrameAt
    <3> QED BY <1>4, <1>t, <3>1, <3>2 DEF Insert
  <2>2. phase[c] = "new" BY <1>4 DEF Insert
  <2>3. d # c BY <2>1, <2>2, NoEarlyFrame
  <2> QED BY <1>4, <1>t, <2>1, <2>3 DEF Insert
<1> QED BY <1>1, <1>2, <1>3, <1>4
        DEF ConnMoves, ConnExit, Deregister, Leave, ConnOut, HelloSent, ChannelClosed, Accept,
            Refuse, HelloFailed, LoopBroken, PeerClosed

\* Dropping an Entry registers nothing.
LEMMA DropRegistersNone ==
    ASSUME Consistent, NEW t \in Tokens, pending' = DropEntry(t), NEW q \in Calls, Registered(q)'
    PROVE  Registered(q)
<1>1. PICK d \in Conns : q \in pending'[d] BY DEF Registered
<1>2. q \in pending[d] BY <1>1, DropEffect
<1> QED BY <1>2 DEF Registered

\* Accepting, inserting, writing, superseding, revoking and closing leave what every
\* call has heard and collected as it is.
LEMMA ConnKeepsFaith ==
    ASSUME Consistent, Faithful,
           (\E c \in Conns : ConnMoves(c)) \/ (\E t \in Tokens : Revoke(t))
    PROVE  Faithful'
<1> SUFFICES ASSUME NEW q \in Calls PROVE FaithfulTo(q)'
  BY DEF Faithful
<1>t. /\ token \in [Conns -> Tokens \cup {None}] /\ phase \in [Conns -> Phases]
      /\ via \in [Calls -> Conns \cup {None}]
  BY DEF Consistent, Typed
<1>f. FaithfulTo(q) BY DEF Faithful
<1>v. HoldsTx(q) => via[q] \in Conns BY DEF Consistent, CallBegun
<1>1. ASSUME NEW t \in Tokens, Revoke(t) PROVE FaithfulTo(q)'
  <2>1. /\ call'[q] = call[q] /\ stage'[q] = stage[q] /\ via'[q] = via[q]
        /\ inbox'[q] = inbox[q] /\ pieces'[q] = pieces[q]
        /\ outcome'[q] = outcome[q] /\ answers'[q] = answers[q]
        /\ UNCHANGED <<phase, token, outq, delivered>>
    BY <1>1 DEF Revoke, callVars
  <2>2. \A c \in Conns : FrameAt(c, q)' => FrameAt(c, q) /\ token'[c] = token[c]
    BY <2>1 DEF FrameAt
  <2>3. Registered(q)' => Registered(q) BY <1>1, DropRegistersNone DEF Revoke
  <2> QED BY <1>f, <2>1, <2>2, <2>3, Untouched
<1>2. ASSUME NEW c \in Conns, ConnMoves(c) PROVE FaithfulTo(q)'
  <2>1. UNCHANGED <<call, stage, via, inbox, pieces, outcome, answers>>
    BY <1>2 DEF ConnMoves, ConnExit, Deregister, Leave, ConnOut, HelloSent, ChannelClosed,
                WriteFrame, Accept, Refuse, HelloFailed, LoopBroken, PeerClosed, Insert, callVars
  <2>2. \A d \in Conns : FrameAt(d, q)' => FrameAt(d, q) /\ token'[d] = token[d]
    BY <1>2, FramesStay
  <2>3. Registered(q)' => Registered(q)
    <3>1. CASE UNCHANGED pending BY <3>1 DEF Registered
    <3>2. ASSUME NEW t \in Tokens, Insert(c, t) PROVE Registered(q)' => Registered(q)
      BY <3>2, DropRegistersNone DEF Insert
    <3>3. CASE Deregister(c)
      <4>1. token[c] \in Tokens BY <3>3 DEF Deregister, Consistent, Authenticated
      <4> QED BY <3>3, <4>1, DropRegistersNone DEF Deregister
    <3> QED BY <1>2, <3>1, <3>2, <3>3
            DEF ConnMoves, ConnExit, Leave, ConnOut, HelloSent, ChannelClosed, WriteFrame,
                Accept, Refuse, HelloFailed, LoopBroken, PeerClosed
  <2>4. ASSUME HoldsTx(q)
        PROVE  \/ phase'[via[q]] = "closed"
               \/ phase[via[q]] # "closed" /\ token'[via[q]] = token[via[q]]
    <3>0. via[q] \in Conns BY <1>v, <2>4
    <3>a. via[q] = c => phase[c] # "new"
      BY <2>4, <1>f, ConstantsAssumption
         DEF FaithfulTo, SentOnOwnToken, Consistent, Authenticated, CallBegun, HoldsTx
    <3>1. CASE via[q] # c
      <4>1. phase'[via[q]] = phase[via[q]] /\ token'[via[q]] = token[via[q]]
        BY <1>2, <1>t, <3>0, <3>1
           DEF ConnMoves, ConnExit, Deregister, Leave, Closed, ConnOut, HelloSent, ChannelClosed,
               WriteFrame, Accept, Refuse, HelloFailed, LoopBroken, PeerClosed, Insert
      <4> QED BY <4>1
    <3>2. CASE via[q] = c
      BY <1>2, <1>t, <2>4, <3>2, <3>a
         DEF ConnMoves, ConnExit, Deregister, Leave, Closed, ConnOut, HelloSent, ChannelClosed,
             WriteFrame, Accept, Refuse, HelloFailed, LoopBroken, PeerClosed, Insert
    <3> QED BY <3>1, <3>2
  <2> QED BY <1>f, <2>1, <2>2, <2>3, <2>4, Untouched
<1> QED BY <1>1, <1>2

\* The client's frame for a call reaches the call's receiver exactly when the call is
\* registered: whichever connection brought the frame, it is one of the call's token.
LEMMA AnswerEffect ==
    ASSUME Consistent, Faithful, NEW c \in Conns, NEW r \in Calls, NEW what, NEW last,
           Answers(c, r),
           (ResolveOnce(c, r, what) /\ last = TRUE) \/ ResolveMore(c, r, what, last)
    PROVE  /\ \A q \in Calls : Registered(q)' => Registered(q)
           /\ \A q \in Calls : q # r => inbox'[q] = inbox[q]
           /\ \/ inbox'[r] = inbox[r] /\ ~ Registered(r)
              \/ /\ inbox'[r] = Append(inbox[r], Event(what, answers[r] + 1, last))
                 /\ Registered(r)
<1> DEFINE e == entries[token[c]]
           ev == Event(what, answers[r] + 1, last)
<1>t. pending \in [Conns -> SUBSET Calls] /\ inbox \in [Calls -> Seq(Events)]
  BY DEF Consistent, Typed
<1>1. token[c] = call[r].token
  BY DEF Answers, FrameAt, Faithful, FaithfulTo, SentOnOwnToken
<1>2. token[c] \in Tokens BY DEF Answers, Consistent, Authenticated
<1>3. e \in Conns \cup {None} BY <1>2 DEF Consistent, Typed
<1>4. \A d \in Conns : r \in pending[d] => d = e
  BY <1>1 DEF Consistent, NoLeakedCall
<1>5. \/ pending' = pending
      \/ pending' = [pending EXCEPT ![e] = @ \ {r}]
  BY DEF ResolveOnce, ResolveMore
<1>6. \/ inbox' = inbox /\ ~ (e # None /\ r \in pending[e])
      \/ inbox' = [inbox EXCEPT ![r] = Append(@, ev)] /\ e # None /\ r \in pending[e]
  BY DEF ResolveOnce, ResolveMore
<1> HIDE DEF e, ev
<1>7. \A q \in Calls : Registered(q)' => Registered(q)
  <2>1. CASE pending' = pending BY <2>1 DEF Registered
  <2>2. CASE pending' = [pending EXCEPT ![e] = @ \ {r}]
    <3>1. \A d \in Conns : pending'[d] = pending[d] \/ pending'[d] = pending[d] \ {r}
      BY <1>t, <2>2
    <3> QED BY <3>1 DEF Registered
  <2> QED BY <1>5, <2>1, <2>2
<1>8. \A q \in Calls : q # r => inbox'[q] = inbox[q] BY <1>t, <1>6
<1>9. \/ inbox'[r] = inbox[r] /\ ~ Registered(r)
      \/ inbox'[r] = Append(inbox[r], ev) /\ Registered(r)
  <2>1. CASE inbox' = inbox /\ ~ (e # None /\ r \in pending[e])
    <3>1. ~ Registered(r) BY <2>1, <1>3, <1>4, ConstantsAssumption DEF Registered
    <3> QED BY <2>1, <3>1
  <2>2. CASE inbox' = [inbox EXCEPT ![r] = Append(@, ev)] /\ e # None /\ r \in pending[e]
    <3>1. inbox'[r] = Append(inbox[r], ev) BY <1>t, <2>2
    <3> QED BY <1>3, <2>2, <3>1 DEF Registered
  <2> QED BY <1>6, <2>1, <2>2
<1> QED BY <1>7, <1>8, <1>9 DEF ev

\* A prompt's channel grows by one event: the replies stay numbered without a hole.
LEMMA AppendKeepsContiguous ==
    ASSUME NEW r \in Calls, Typed, Typed', Contiguous(r), NEW ev \in Events,
           inbox'[r] = Append(inbox[r], ev), Registered(r), Registered(r)' => Registered(r),
           call'[r] = call[r], stage'[r] = stage[r], pieces'[r] = pieces[r],
           \/ ev.what = "reply" /\ ev.n = answers[r] + 1 /\ answers'[r] = answers[r] + 1
           \/ ev.what # "reply" /\ answers'[r] >= answers[r]
    PROVE  Contiguous(r)'
<1> SUFFICES ASSUME stage[r] # "done", call[r].kind = "prompt"
             PROVE  Contiguous(r)'
  BY DEF Contiguous
<1> DEFINE L == Len(inbox[r])
           k == Len(pieces[r])
<1>1. /\ inbox[r] \in Seq(Events) /\ pieces[r] \in Seq(Nat) /\ L \in Nat /\ k \in Nat
      /\ answers[r] \in Nat /\ answers'[r] \in Nat
  BY ConstantsAssumption DEF Typed
<1>2. /\ Len(inbox'[r]) = L + 1 /\ inbox'[r][L + 1] = ev
      /\ \A i \in 1..L : inbox'[r][i] = inbox[r][i]
  BY <1>1
<1>c. /\ \A i \in 1..k : pieces[r][i] = i
      /\ k <= answers[r]
      /\ \A i \in 1..L : Replies(inbox[r], i) => inbox[r][i].n = k + i /\ inbox[r][i].n <= answers[r]
      /\ Replies(inbox[r], L) => answers[r] = k + L
  BY DEF Contiguous
<1>3. answers'[r] >= answers[r] BY <1>1
<1>4. \A i \in 1..L : Replies(inbox'[r], i) <=> Replies(inbox[r], i) BY <1>1, <1>2 DEF Replies
<1>5. Replies(inbox'[r], L + 1) => Replies(inbox[r], L) /\ ev.what = "reply" BY <1>1, <1>2 DEF Replies
<1> HIDE DEF L, k
<1>7. ASSUME NEW i \in 1..(L + 1), Replies(inbox'[r], i)
      PROVE  inbox'[r][i].n = k + i /\ inbox'[r][i].n <= answers'[r]
  <2>1. CASE i \in 1..L
    <3>1. inbox[r][i].n = k + i /\ inbox[r][i].n <= answers[r]
      BY <1>4, <1>7, <1>c, <2>1
    <3>2. inbox'[r][i] = inbox[r][i] BY <1>2, <2>1
    <3>3. k + i \in Nat BY <1>1, <2>1
    <3> QED BY <1>1, <1>3, <3>1, <3>2, <3>3
  <2>2. CASE i = L + 1
    <3>1. answers[r] = k + L /\ ev.what = "reply" BY <1>5, <1>c, <1>7, <2>2
    <3>2. ev.n = k + i /\ answers'[r] = k + i BY <1>1, <2>2, <3>1
    <3> QED BY <1>1, <1>2, <2>2, <3>2
  <2>3. i \in 1..L \/ i = L + 1 BY <1>1
  <2> QED BY <2>1, <2>2, <2>3
<1>8. Replies(inbox'[r], L + 1) => answers'[r] = k + (L + 1) BY <1>1, <1>5, <1>c
<1>9. k <= answers'[r] /\ \A i \in 1..k : pieces[r][i] = i BY <1>1, <1>3, <1>c
<1> QED BY <1>2, <1>7, <1>8, <1>9 DEF Contiguous, k

\* An answer, in time or late, on whatever connection of the token.
LEMMA AnswerKeepsFaith ==
    ASSUME Consistent, Faithful, Typed', NEW c \in Conns, NEW r \in Calls, NEW what, NEW last,
           Answers(c, r),
           (ResolveOnce(c, r, what) /\ last = TRUE) \/ ResolveMore(c, r, what, last),
           Fits(call[r].kind, what), what # "cancelled", last \in BOOLEAN
    PROVE  Faithful'
<1> DEFINE ev == Event(what, answers[r] + 1, last)
<1>t. /\ Typed /\ answers \in [Calls -> 0..MaxAnswers] /\ inbox \in [Calls -> Seq(Events)]
      /\ answers' \in [Calls -> 0..MaxAnswers]
  BY DEF Consistent, Typed
<1>1. /\ \A q \in Calls : Registered(q)' => Registered(q)
      /\ \A q \in Calls : q # r => inbox'[q] = inbox[q]
      /\ \/ inbox'[r] = inbox[r] /\ ~ Registered(r)
         \/ inbox'[r] = Append(inbox[r], ev) /\ Registered(r)
  BY AnswerEffect
<1>2. /\ UNCHANGED <<phase, token, entries, outq, delivered, call, stage, via, pieces, outcome>>
      /\ r \in delivered[c] /\ answers' = [answers EXCEPT ![r] = @ + 1]
  BY DEF Answers
<1>3. /\ answers[r] \in Nat /\ answers'[r] = answers[r] + 1
      /\ \A q \in Calls : q # r => answers'[q] = answers[q]
  BY <1>t, <1>2, ConstantsAssumption
<1>4. ev \in Events /\ ev.what = what /\ ev.n = answers[r] + 1
  BY <1>3 DEF Event, Events, Fits
<1>5. \A q \in Calls, d \in Conns : FrameAt(d, q)' <=> FrameAt(d, q) BY <1>2 DEF FrameAt
<1> HIDE DEF ev
<1>6. ASSUME NEW q \in Calls, q # r PROVE FaithfulTo(q)'
  <2>1. FaithfulTo(q) BY DEF Faithful
  <2>2. HoldsTx(q) => \/ phase'[via[q]] = "closed"
                      \/ phase[via[q]] # "closed" /\ token'[via[q]] = token[via[q]]
    BY <1>2
  <2> QED BY <1>1, <1>2, <1>3, <1>5, <1>6, <2>1, <2>2, Untouched
<1>7. FaithfulTo(r)'
  <2>0. FaithfulTo(r) BY DEF Faithful
  <2>1. stage[r] \notin {"idle", "cloned", "registered"}
    BY <1>2, <2>0 DEF FaithfulTo, Unsent, FrameAt
  <2>2. Unsent(r)' BY <1>2, <2>0, <2>1 DEF FaithfulTo, Unsent
  <2>3. SentOnOwnToken(r)' BY <1>2, <1>5, <2>0 DEF FaithfulTo, SentOnOwnToken, HoldsTx
  <2>4. FittingEvents(r)'
    <3>1. CASE inbox'[r] = inbox[r]
      BY <1>2, <1>3, <2>0, <3>1 DEF FaithfulTo, FittingEvents
    <3>2. CASE inbox'[r] = Append(inbox[r], ev)
      <4>1. inbox[r] \in Seq(Events) BY <1>t
      <4>2. \A i \in 1..Len(inbox'[r]) : inbox'[r][i] = ev
                                         \/ (i \in 1..Len(inbox[r]) /\ inbox'[r][i] = inbox[r][i])
        BY <1>4, <3>2, <4>1
      <4> QED BY <1>2, <1>3, <1>4, <2>0, <4>2 DEF FaithfulTo, FittingEvents
    <3> QED BY <1>1, <3>1, <3>2
  <2>5. Contiguous(r)'
    <3>1. Contiguous(r) BY <2>0 DEF FaithfulTo
    <3>2. CASE inbox'[r] = inbox[r] /\ ~ Registered(r)
      <4> SUFFICES ASSUME stage[r] # "done", call[r].kind = "prompt" PROVE Contiguous(r)'
        BY <1>2 DEF Contiguous
      <4>1. ~ Registered(r)' BY <1>1, <3>2
      <4>2. /\ \A i \in 1..Len(pieces[r]) : pieces[r][i] = i
            /\ Len(pieces[r]) <= answers[r]
            /\ \A i \in 1..Len(inbox[r]) : Replies(inbox[r], i) =>
                  inbox[r][i].n = Len(pieces[r]) + i /\ inbox[r][i].n <= answers[r]
        BY <3>1 DEF Contiguous
      <4>3. Len(pieces[r]) \in Nat BY <1>t DEF Typed
      <4>4. Len(pieces[r]) <= answers'[r] BY <1>3, <4>2, <4>3
      <4>5. \A i \in 1..Len(inbox[r]) : Replies(inbox[r], i) =>
               inbox[r][i].n = Len(pieces[r]) + i /\ inbox[r][i].n <= answers'[r]
        <5>1. \A i \in 1..Len(inbox[r]) : Len(pieces[r]) + i \in Nat BY <1>t, <4>3
        <5> QED BY <1>3, <4>2, <5>1
      <4> QED BY <1>2, <3>2, <4>1, <4>2, <4>4, <4>5 DEF Contiguous
    <3>3. CASE inbox'[r] = Append(inbox[r], ev) /\ Registered(r)
      <4>1. \/ ev.what = "reply" /\ ev.n = answers[r] + 1 /\ answers'[r] = answers[r] + 1
            \/ ev.what # "reply" /\ answers'[r] >= answers[r]
        BY <1>3, <1>4
      <4> QED BY <1>1, <1>2, <1>4, <1>t, <3>1, <3>3, <4>1, AppendKeepsContiguous
    <3> QED BY <1>1, <3>2, <3>3
  <2> QED BY <2>2, <2>3, <2>4, <2>5 DEF FaithfulTo
<1> QED BY <1>6, <1>7 DEF Faithful

\* A step of one call, seen by the others: none of their channels, frames or
\* registrations change.
LEMMA OthersKeepFaith ==
    ASSUME Consistent, Faithful, NEW r \in Calls, NEW q \in Calls, q # r,
           /\ call'[q] = call[q] /\ stage'[q] = stage[q] /\ via'[q] = via[q]
           /\ inbox'[q] = inbox[q] /\ pieces'[q] = pieces[q]
           /\ outcome'[q] = outcome[q] /\ answers'[q] = answers[q],
           UNCHANGED <<phase, token, delivered>>,
           \A c \in Conns : outq'[c] = outq[c] \/ outq'[c] = Append(outq[c], r),
           Registered(q)' => Registered(q)
    PROVE  FaithfulTo(q)'
<1>1. \A c \in Conns : FrameAt(c, q)' => FrameAt(c, q) /\ token'[c] = token[c]
  <2> SUFFICES ASSUME NEW c \in Conns, FrameAt(c, q)' PROVE FrameAt(c, q)
    OBVIOUS
  <2>1. outq[c] \in Seq(Calls \cup {Superseded}) BY DEF Consistent, Typed
  <2>2. CASE outq'[c] = outq[c] BY <2>2 DEF FrameAt
  <2>3. CASE outq'[c] = Append(outq[c], r)
    <3>1. \A i \in 1..Len(outq'[c]) : outq'[c][i] = q => i \in 1..Len(outq[c]) /\ outq[c][i] = q
      BY <2>1, <2>3
    <3> QED BY <3>1 DEF FrameAt
  <2> QED BY <2>2, <2>3
<1>2. FaithfulTo(q) BY DEF Faithful
<1> QED BY <1>1, <1>2, Untouched

\* A call that returns drops its channel and its clone, and says nothing more.
LEMMA ReturnKeepsFaith ==
    ASSUME Consistent, Faithful, NEW r \in Calls, NEW result, Return(r, result),
           UNCHANGED <<phase, token, delivered, outq>>,
           \A q \in Calls : Registered(q)' => Registered(q),
           \A q \in Calls : q # r => pieces'[q] = pieces[q]
    PROVE  Faithful'
<1>t. Typed BY DEF Consistent
<1>1. ASSUME NEW q \in Calls, q # r PROVE FaithfulTo(q)'
  <2>1. /\ call'[q] = call[q] /\ stage'[q] = stage[q] /\ via'[q] = via[q]
        /\ inbox'[q] = inbox[q] /\ pieces'[q] = pieces[q]
        /\ outcome'[q] = outcome[q] /\ answers'[q] = answers[q]
    BY <1>1, <1>t DEF Return, Typed
  <2> QED BY <1>1, <2>1, OthersKeepFaith
<1>2. FaithfulTo(r)'
  <2>1. stage'[r] = "done" /\ inbox'[r] = <<>> /\ call' = call BY <1>t DEF Return, Typed
  <2>2. Unsent(r)' /\ Contiguous(r)' BY <2>1 DEF Unsent, Contiguous
  <2>3. FittingEvents(r)' BY <2>1 DEF FittingEvents
  <2>4. SentOnOwnToken(r)'
    <3>1. SentOnOwnToken(r) BY DEF Faithful, FaithfulTo
    <3>2. \A c \in Conns : FrameAt(c, r)' => FrameAt(c, r) BY DEF FrameAt
    <3> QED BY <2>1, <3>1, <3>2 DEF SentOnOwnToken, HoldsTx
  <2> QED BY <2>2, <2>3, <2>4 DEF FaithfulTo
<1> QED BY <1>1, <1>2 DEF Faithful

\* A call that begins has no frame anywhere yet, no event and no reply.
LEMMA BeginKeepsFaith ==
    ASSUME Consistent, Faithful, NEW r \in Calls, NEW k \in Kinds, NEW t \in Tokens, NEW s,
           Begin(r, k, t, s)
    PROVE  Faithful'
<1>t. Typed BY DEF Consistent
<1>0. /\ stage[r] = "idle" /\ UNCHANGED <<phase, token, entries, outq, delivered, pending, inbox, pieces, answers>>
      /\ call'[r] = [kind |-> k, token |-> t, session |-> s]
      /\ stage'[r] = IF entries[t] = None THEN "done" ELSE "cloned"
      /\ via'[r] = entries[t]
      /\ outcome'[r] = IF entries[t] = None THEN "disconnected" ELSE outcome[r]
      /\ \A q \in Calls : q # r => /\ call'[q] = call[q] /\ stage'[q] = stage[q]
                                   /\ via'[q] = via[q] /\ outcome'[q] = outcome[q]
  BY <1>t DEF Begin, connVars, Typed
<1>1. \A q \in Calls : Registered(q)' => Registered(q) BY <1>0 DEF Registered
<1>2. ASSUME NEW q \in Calls, q # r PROVE FaithfulTo(q)'
  BY <1>0, <1>1, <1>2, OthersKeepFaith
<1>3. FaithfulTo(r)'
  <2>0. FaithfulTo(r) BY DEF Faithful
  <2>1. /\ answers[r] = 0 /\ pieces[r] = <<>> /\ inbox[r] = <<>> /\ ~ Registered(r)
        /\ \A c \in Conns : ~ FrameAt(c, r)
    <3>1. inbox[r] = <<>> BY <1>0 DEF Consistent, EventsConsume
    <3>2. ~ Registered(r) BY <1>0 DEF Consistent, NoLeakedCall, Registered
    <3> QED BY <1>0, <2>0, <3>1, <3>2 DEF FaithfulTo, Unsent
  <2>2. \A c \in Conns : ~ FrameAt(c, r)' BY <1>0, <2>1 DEF FrameAt
  <2>3. Unsent(r)' BY <1>0, <2>0, <2>1, <2>2 DEF FaithfulTo, Unsent
  <2>4. SentOnOwnToken(r)'
    BY <1>0, <2>2 DEF SentOnOwnToken, HoldsTx, Consistent, TrackedIsLive
  <2>5. FittingEvents(r)' BY <1>0, <2>1 DEF FittingEvents
  <2>6. Contiguous(r)' BY <1>0, <2>1 DEF Contiguous
  <2> QED BY <2>3, <2>4, <2>5, <2>6 DEF FaithfulTo
<1> QED BY <1>2, <1>3 DEF Faithful

\* A call that is reaped leaves no frame that a later call could be taken for.
LEMMA ReapKeepsFaith ==
    ASSUME Consistent, Faithful, NEW r \in Calls, Reap(r)
    PROVE  Faithful'
<1>t. Typed BY DEF Consistent
<1>0. /\ stage[r] = "done" /\ UNCHANGED <<phase, token, outq, delivered, pending, via, inbox>>
      /\ call'[r] = NoCall /\ stage'[r] = "idle" /\ pieces'[r] = <<>>
      /\ outcome'[r] = "none" /\ answers'[r] = 0
      /\ \A q \in Calls : q # r => /\ call'[q] = call[q] /\ stage'[q] = stage[q]
                                   /\ pieces'[q] = pieces[q] /\ outcome'[q] = outcome[q]
                                   /\ answers'[q] = answers[q]
      /\ \A c \in Conns : ~ FrameAt(c, r)
  BY <1>t DEF Reap, connVars, Typed, FrameAt
<1>1. \A q \in Calls : Registered(q)' => Registered(q) BY <1>0 DEF Registered
<1>2. ASSUME NEW q \in Calls, q # r PROVE FaithfulTo(q)'
  BY <1>0, <1>1, <1>2, OthersKeepFaith
<1>3. FaithfulTo(r)'
  <2>1. inbox[r] = <<>> BY <1>0 DEF Consistent, EventsConsume
  <2>2. \A c \in Conns : ~ FrameAt(c, r)' BY <1>0 DEF FrameAt
  <2>3. Unsent(r)' BY <1>0, <2>2 DEF Unsent
  <2>4. SentOnOwnToken(r)' BY <1>0, <2>2 DEF SentOnOwnToken, HoldsTx
  <2>5. FittingEvents(r)' BY <1>0, <2>1 DEF FittingEvents
  <2>6. Contiguous(r)' BY <1>0 DEF Contiguous, NoCall
  <2> QED BY <2>3, <2>4, <2>5, <2>6 DEF FaithfulTo
<1> QED BY <1>2, <1>3 DEF Faithful

\* Registering, sending and giving up on a call.
LEMMA ProgressKeepsFaith ==
    ASSUME Consistent, Faithful, NEW r \in Calls, Register(r) \/ Send(r) \/ TimeOut(r)
    PROVE  Faithful'
<1>t. Typed /\ FaithfulTo(r) BY DEF Consistent, Faithful
<1>i. stage[r] # "idle" /\ call[r].token \in Tokens
  BY DEF Register, Send, TimeOut, Consistent, CallBegun
<1>f. pending' = Forget(r) => \A q \in Calls : Registered(q)' => Registered(q)
  BY <1>i, ForgetEffect DEF Registered
<1>p. UNCHANGED pending => \A q \in Calls : Registered(q)' => Registered(q)
  BY DEF Registered
<1>1. CASE \E result : Return(r, result)
  <2>1. UNCHANGED <<phase, token, delivered, outq>> /\ pieces' = pieces
    BY <1>1, <1>t DEF Register, Send, TimeOut, Return, connVars, Typed, Stages
  <2>2. pending' = Forget(r) \/ UNCHANGED pending
    BY <1>1, <1>t DEF Register, Send, TimeOut, Return, Typed, Stages
  <2> QED BY <1>1, <1>f, <1>p, <2>1, <2>2, ReturnKeepsFaith
<1>2. CASE Register(r) /\ ~ \E result : Return(r, result)
  <2> DEFINE e == entries[call[r].token]
  <2>1. /\ stage[r] = "cloned" /\ e # None /\ stage' = [stage EXCEPT ![r] = "registered"]
        /\ pending' = [pending EXCEPT ![e] = @ \cup {r}]
        /\ UNCHANGED <<call, via, inbox, outcome, answers, pieces, phase, token, outq, delivered>>
    BY <1>2 DEF Register, connVars
  <2>2. pending \in [Conns -> SUBSET Calls] BY <1>t DEF Typed
  <2> HIDE DEF e
  <2>3. \A q \in Calls : q # r /\ Registered(q)' => Registered(q) BY <2>1, <2>2 DEF Registered
  <2>4. stage'[r] = "registered" /\ \A q \in Calls : q # r => stage'[q] = stage[q]
    BY <2>1, <1>t DEF Typed
  <2>5. ASSUME NEW q \in Calls, q # r PROVE FaithfulTo(q)'
    BY <2>1, <2>3, <2>4, <2>5, OthersKeepFaith
  <2>6. inbox[r] = <<>> BY <2>1 DEF Consistent, EventsConsume
  <2>7. Unsent(r)' BY <1>t, <2>1, <2>4 DEF FaithfulTo, Unsent, FrameAt
  <2>8. SentOnOwnToken(r)' BY <1>t, <2>1, <2>4 DEF FaithfulTo, SentOnOwnToken, FrameAt, HoldsTx
  <2>9. FittingEvents(r)' BY <2>1, <2>6 DEF FittingEvents
  <2>10. Contiguous(r)'
    <3>1. answers[r] = 0 /\ pieces[r] = <<>> BY <1>t, <2>1 DEF FaithfulTo, Unsent
    <3> QED BY <2>1, <2>6, <3>1 DEF Contiguous
  <2> QED BY <2>5, <2>7, <2>8, <2>9, <2>10 DEF Faithful, FaithfulTo
<1>3. CASE Send(r) /\ ~ \E result : Return(r, result)
  <2>1. /\ stage[r] = "registered" /\ phase[via[r]] # "closed"
        /\ outq' = [outq EXCEPT ![via[r]] = Append(@, r)]
        /\ stage' = [stage EXCEPT ![r] = "waiting"]
        /\ UNCHANGED <<pending, call, via, inbox, outcome, answers, phase, token, delivered, pieces>>
    BY <1>3 DEF Send
  <2>2. /\ via[r] \in Conns /\ token[via[r]] = call[r].token
        /\ \A c \in Conns : ~ FrameAt(c, r)
    BY <1>t, <2>1 DEF Consistent, CallBegun, HoldsTx, FaithfulTo, SentOnOwnToken, Unsent
  <2>3. /\ outq'[via[r]] = Append(outq[via[r]], r)
        /\ \A c \in Conns : c # via[r] => outq'[c] = outq[c]
    BY <1>t, <2>1, <2>2 DEF Typed
  <2>4. stage'[r] = "waiting" /\ \A q \in Calls : q # r => stage'[q] = stage[q]
    BY <1>t, <2>1 DEF Typed
  <2>5. \A c \in Conns : outq'[c] = outq[c] \/ outq'[c] = Append(outq[c], r) BY <2>3
  <2>6. ASSUME NEW q \in Calls, q # r PROVE FaithfulTo(q)'
    BY <1>p, <2>1, <2>4, <2>5, <2>6, OthersKeepFaith
  <2>7. Unsent(r)' BY <1>t, <2>1, <2>4 DEF FaithfulTo, Unsent
  <2>8. SentOnOwnToken(r)'
    <3>1. \A c \in Conns : FrameAt(c, r)' => c = via[r] BY <2>1, <2>2, <2>3 DEF FrameAt
    <3> QED BY <2>1, <2>2, <3>1 DEF SentOnOwnToken
  <2>9. FittingEvents(r)' BY <1>t, <2>1 DEF FaithfulTo, FittingEvents
  <2>10. Contiguous(r)' BY <1>t, <1>p, <2>1 DEF FaithfulTo, Contiguous
  <2> QED BY <2>6, <2>7, <2>8, <2>9, <2>10 DEF Faithful, FaithfulTo
<1>4. CASE TimeOut(r) /\ ~ \E result : Return(r, result)
  <2>1. /\ stage[r] = "waiting" /\ inbox[r] = <<>> /\ pending' = Forget(r)
        /\ call[r].kind \in {"interrupt", "answer"}
        /\ stage' = [stage EXCEPT ![r] = "expired"]
        /\ UNCHANGED <<call, via, inbox, outcome, answers, pieces, phase, token, outq, delivered>>
    BY <1>4 DEF TimeOut, connVars
  <2>2. stage'[r] = "expired" /\ \A q \in Calls : q # r => stage'[q] = stage[q]
    BY <1>t, <2>1 DEF Typed
  <2>3. ASSUME NEW q \in Calls, q # r PROVE FaithfulTo(q)'
    BY <1>f, <2>1, <2>2, <2>3, OthersKeepFaith
  <2>4. Unsent(r)' BY <1>t, <2>1, <2>2 DEF FaithfulTo, Unsent
  <2>5. SentOnOwnToken(r)' BY <1>t, <2>1, <2>2 DEF FaithfulTo, SentOnOwnToken, FrameAt, HoldsTx
  <2>6. FittingEvents(r)' BY <2>1 DEF FittingEvents
  <2>7. Contiguous(r)' BY <2>1 DEF Contiguous
  <2> QED BY <2>3, <2>4, <2>5, <2>6, <2>7 DEF Faithful, FaithfulTo
<1> QED BY <1>1, <1>2, <1>3, <1>4

\* The prompt loop moves the next reply from its channel to the text.
LEMMA PartialKeepsFaith ==
    ASSUME Consistent, Faithful, NEW r \in Calls, call[r].kind = "prompt", TakePartial(r)
    PROVE  Faithful'
<1>t. Typed /\ FaithfulTo(r) BY DEF Consistent, Faithful
<1>0. /\ stage[r] = "waiting" /\ inbox[r] # <<>> /\ Head(inbox[r]).what = "reply"
      /\ pieces'[r] = Append(pieces[r], Head(inbox[r]).n)
      /\ inbox'[r] = Tail(inbox[r])
      /\ \A q \in Calls : q # r => pieces'[q] = pieces[q] /\ inbox'[q] = inbox[q]
      /\ UNCHANGED <<phase, token, entries, outq, delivered, pending, call, stage, via, outcome, answers>>
  BY <1>t DEF TakePartial, connVars, Typed
<1>1. \A q \in Calls : Registered(q)' <=> Registered(q) BY <1>0 DEF Registered
<1>2. ASSUME NEW q \in Calls, q # r PROVE FaithfulTo(q)'
  BY <1>0, <1>1, <1>2, OthersKeepFaith
<1> DEFINE L == Len(inbox[r])
           k == Len(pieces[r])
<1>3. /\ inbox[r] \in Seq(Events) /\ pieces[r] \in Seq(Nat) /\ L \in Nat \ {0} /\ k \in Nat
      /\ answers[r] \in Nat
  BY <1>0, <1>t, ConstantsAssumption DEF Typed
<1>4. /\ Head(inbox[r]) = inbox[r][1] /\ Len(inbox'[r]) = L - 1
      /\ \A i \in 1..(L - 1) : i + 1 \in 1..L /\ inbox'[r][i] = inbox[r][i + 1]
  BY <1>0, <1>3
<1>5. Unsent(r)' BY <1>0, <1>t DEF FaithfulTo, Unsent
<1>6. SentOnOwnToken(r)' BY <1>0, <1>t DEF FaithfulTo, SentOnOwnToken, FrameAt, HoldsTx
<1>7. FittingEvents(r)' BY <1>0, <1>t, <1>4 DEF FaithfulTo, FittingEvents
<1>8. Contiguous(r)'
  <2>1. /\ \A i \in 1..k : pieces[r][i] = i
        /\ \A i \in 1..L : Replies(inbox[r], i) => inbox[r][i].n = k + i /\ inbox[r][i].n <= answers[r]
        /\ Registered(r) /\ Replies(inbox[r], L) => answers[r] = k + L
    BY <1>0, <1>t DEF FaithfulTo, Contiguous
  <2>2. \A i \in 1..(L - 1) : Replies(inbox'[r], i) => Replies(inbox[r], i + 1)
    <3> SUFFICES ASSUME NEW i \in 1..(L - 1), Replies(inbox'[r], i), NEW j \in 1..(i + 1)
                 PROVE  inbox[r][j].what = "reply"
      BY DEF Replies
    <3>1. CASE j = 1 BY <1>0, <1>4, <3>1
    <3>2. CASE j # 1
      <4>1. j - 1 \in 1..i /\ j - 1 \in 1..(L - 1) /\ (j - 1) + 1 = j BY <1>3, <3>2
      <4>2. inbox'[r][j - 1] = inbox[r][j] BY <1>4, <4>1
      <4> QED BY <4>1, <4>2 DEF Replies
    <3> QED BY <3>1, <3>2
  <2>3. Replies(inbox[r], 1) BY <1>0, <1>4 DEF Replies
  <2>4. inbox[r][1].n = k + 1 /\ k + 1 <= answers[r]
    <3>1. 1 \in 1..L BY <1>3
    <3> QED BY <2>1, <2>3, <3>1
  <2>5. Len(pieces'[r]) = k + 1 /\ \A i \in 1..(k + 1) : pieces'[r][i] = i
    <3>1. pieces'[r] = Append(pieces[r], k + 1) BY <1>0, <1>4, <2>4
    <3> HIDE DEF k
    <3>2. k = Len(pieces[r]) BY DEF k
    <3> QED BY <1>3, <2>1, <3>1, <3>2
  <2> HIDE DEF L, k
  <2>6. \A i \in 1..(L - 1) : Replies(inbox'[r], i) =>
           inbox'[r][i].n = (k + 1) + i /\ inbox'[r][i].n <= answers[r]
    <3> SUFFICES ASSUME NEW i \in 1..(L - 1), Replies(inbox'[r], i)
                 PROVE  inbox'[r][i].n = (k + 1) + i /\ inbox'[r][i].n <= answers[r]
      OBVIOUS
    <3>1. i + 1 \in 1..L /\ inbox'[r][i] = inbox[r][i + 1] /\ Replies(inbox[r], i + 1)
      BY <1>4, <2>2
    <3>2. inbox[r][i + 1].n = k + (i + 1) /\ inbox[r][i + 1].n <= answers[r] BY <2>1, <3>1
    <3>3. k + (i + 1) = (k + 1) + i BY <1>3
    <3> QED BY <3>1, <3>2, <3>3
  <2>7. Registered(r) /\ Replies(inbox'[r], L - 1) => answers[r] = (k + 1) + (L - 1)
    <3>1. Replies(inbox'[r], L - 1) => Replies(inbox[r], L)
      <4>1. CASE L = 1 BY <2>3, <4>1
      <4>2. CASE L # 1
        <5>1. L - 1 \in 1..(L - 1) /\ (L - 1) + 1 = L BY <1>3, <4>2
        <5> QED BY <2>2, <5>1
      <4> QED BY <4>1, <4>2
    <3> QED BY <1>3, <2>1, <3>1
  <2> QED BY <1>0, <1>1, <1>4, <2>4, <2>5, <2>6, <2>7 DEF Contiguous
<1> QED BY <1>2, <1>5, <1>6, <1>7, <1>8 DEF Faithful, FaithfulTo

\* What an acknowledged interrupt does: its own channel is dropped, the prompts it
\* wakes get a cancel event, and those are registered prompts of its token and session.
LEMMA AckEffect ==
    ASSUME Consistent, NEW r \in Calls, TakeAck(r)
    PROVE  /\ inbox'[r] = <<>> /\ r \notin PromptsToWake(r)
           /\ \A p \in Calls : p # r /\ p \notin PromptsToWake(r) => inbox'[p] = inbox[p]
           /\ PromptsToWake(r) \subseteq Calls
           /\ \A p \in PromptsToWake(r) :
                 /\ inbox'[p] = Append(inbox[p], Event("cancelled", 0, TRUE))
                 /\ Registered(p) /\ stage[p] \in {"registered", "waiting"}
                 /\ call[p].kind = "prompt" /\ call[p].session = call[r].session
                 /\ call[p].token = call[r].token
<1>t. Typed BY DEF Consistent
<1>0. stage[r] = "waiting" /\ call[r].kind = "interrupt" BY DEF TakeAck
<1>1. call[r].token \in Tokens BY <1>0 DEF Consistent, CallBegun
<1>2. \A p \in PromptsToWake(r) :
         /\ p \in Calls /\ Registered(p) /\ call[p].kind = "prompt"
         /\ call[p].session = call[r].session /\ stage[p] \in {"registered", "waiting"}
         /\ call[p].token = call[r].token
  <2> SUFFICES ASSUME NEW p \in PromptsToWake(r)
               PROVE  /\ p \in Calls /\ Registered(p) /\ call[p].kind = "prompt"
                      /\ call[p].session = call[r].session /\ stage[p] \in {"registered", "waiting"}
                      /\ call[p].token = call[r].token
    OBVIOUS
  <2> DEFINE e == entries[call[r].token]
  <2>1. /\ e # None /\ p \in pending[e] /\ call[p].kind = "prompt"
        /\ call[p].session = call[r].session
    BY DEF PromptsToWake
  <2>2. e \in Conns /\ token[e] = call[r].token
    BY <1>1, <1>t, <2>1 DEF Typed, Consistent, TrackedIsLive
  <2> HIDE DEF e
  <2>3. p \in Calls /\ Registered(p) BY <1>t, <2>1, <2>2 DEF Typed, Registered
  <2>4. call[p].token = token[e] /\ stage[p] \in {"registered", "waiting"}
    BY <2>1, <2>2 DEF Consistent, NoLeakedCall
  <2> QED BY <2>1, <2>2, <2>3, <2>4
<1>3. r \notin PromptsToWake(r) BY <1>0, <1>2
<1>4. \A p \in Calls : inbox'[p] = IF p = r THEN <<>>
                                   ELSE IF p \in PromptsToWake(r)
                                        THEN Append(inbox[p], Event("cancelled", 0, TRUE))
                                        ELSE inbox[p]
  BY DEF TakeAck
<1> QED BY <1>2, <1>3, <1>4

\* The acknowledged interrupt puts into each prompt it wakes an event that fits a prompt.
LEMMA AckKeepsFaith ==
    ASSUME Consistent, Faithful, Typed', NEW r \in Calls, TakeAck(r)
    PROVE  Faithful'
<1> DEFINE ev == Event("cancelled", 0, TRUE)
<1>t. Typed BY DEF Consistent
<1>0. /\ UNCHANGED <<phase, token, entries, outq, delivered, pending, call, pieces, answers>>
      /\ stage'[r] = "done"
      /\ \A q \in Calls : q # r => stage'[q] = stage[q] /\ outcome'[q] = outcome[q] /\ via'[q] = via[q]
  BY <1>t DEF TakeAck, connVars, Typed
<1>1. \A q \in Calls : Registered(q)' <=> Registered(q) BY <1>0 DEF Registered
<1>2. ev \in Events /\ ev.what = "cancelled" BY DEF Event, Events
<1>3. \A q \in Calls, c \in Conns : FrameAt(c, q)' <=> FrameAt(c, q) BY <1>0 DEF FrameAt
<1>4. inbox'[r] = <<>> BY AckEffect
<1>5. ASSUME NEW q \in Calls, q # r, q \notin PromptsToWake(r) PROVE FaithfulTo(q)'
  <2>1. inbox'[q] = inbox[q] BY <1>5, AckEffect
  <2> QED BY <1>0, <1>1, <1>5, <2>1, OthersKeepFaith
<1>6. ASSUME NEW q \in PromptsToWake(r) PROVE FaithfulTo(q)'
  <2>0. q \in Calls /\ q # r /\ FaithfulTo(q) BY AckEffect DEF Faithful
  <2>1. inbox'[q] = Append(inbox[q], ev) /\ Registered(q) /\ call[q].kind = "prompt"
    BY AckEffect
  <2> HIDE DEF ev
  <2>2. Unsent(q)' BY <1>0, <1>3, <2>0 DEF FaithfulTo, Unsent
  <2>3. SentOnOwnToken(q)' BY <1>0, <1>3, <2>0 DEF FaithfulTo, SentOnOwnToken, HoldsTx
  <2>4. FittingEvents(q)'
    <3>1. inbox[q] \in Seq(Events) BY <1>t, <2>0 DEF Typed
    <3>2. \A i \in 1..Len(inbox'[q]) : inbox'[q][i] = ev
                                       \/ (i \in 1..Len(inbox[q]) /\ inbox'[q][i] = inbox[q][i])
      BY <1>2, <2>1, <3>1
    <3>3. Fits(call[q].kind, "cancelled") BY <2>1 DEF Fits
    <3> QED BY <1>0, <1>2, <2>0, <3>2, <3>3 DEF FaithfulTo, FittingEvents
  <2>5. Contiguous(q)'
    <3>1. Contiguous(q) BY <2>0 DEF FaithfulTo
    <3>2. answers'[q] >= answers[q]
      <4>1. answers[q] \in Nat BY <1>t, <2>0, ConstantsAssumption DEF Typed
      <4> QED BY <1>0, <4>1
    <3>3. ev.what # "reply" BY <1>2
    <3> QED BY <1>0, <1>1, <1>2, <1>t, <2>0, <2>1, <3>1, <3>2, <3>3, AppendKeepsContiguous
  <2> QED BY <2>2, <2>3, <2>4, <2>5 DEF FaithfulTo
<1>7. FaithfulTo(r)'
  <2>1. Unsent(r)' /\ Contiguous(r)' BY <1>0 DEF Unsent, Contiguous
  <2>2. FittingEvents(r)' BY <1>4 DEF FittingEvents
  <2>3. SentOnOwnToken(r)' BY <1>0, <1>3 DEF Faithful, FaithfulTo, SentOnOwnToken, HoldsTx
  <2> QED BY <2>1, <2>2, <2>3 DEF FaithfulTo
<1> QED BY <1>5, <1>6, <1>7 DEF Faithful

\* Nothing is sent, heard or answered at the start.
LEMMA FaithfulInit == Init => Faithful
<1> SUFFICES ASSUME Init, NEW r \in Calls PROVE FaithfulTo(r)
  BY DEF Faithful
<1>1. \A c \in Conns : ~ FrameAt(c, r) BY DEF Init, FrameAt
<1>2. Unsent(r) BY <1>1 DEF Init, Unsent
<1>3. SentOnOwnToken(r) BY <1>1 DEF Init, SentOnOwnToken, HoldsTx
<1>4. FittingEvents(r) /\ Contiguous(r) BY DEF Init, FittingEvents, Contiguous, NoCall
<1> QED BY <1>2, <1>3, <1>4 DEF FaithfulTo

\* Which answer actions there are: each brings an event its kind of call can take.
LEMMA AnswerKinds ==
    ASSUME NEW c \in Conns, NEW r \in Calls,
           \/ Pong(c, r) \/ QueryOk(c, r) \/ Ack(c, r) \/ Error(c, r)
           \/ \E last \in BOOLEAN : Reply(c, r, last)
    PROVE  /\ Answers(c, r)
           /\ \E what \in {"connected", "ok", "err", "acked", "reply"}, last \in BOOLEAN :
                 /\ Fits(call[r].kind, what)
                 /\ (ResolveOnce(c, r, what) /\ last = TRUE) \/ ResolveMore(c, r, what, last)
<1>1. CASE Pong(c, r) BY <1>1 DEF Pong, Fits
<1>2. CASE QueryOk(c, r) BY <1>2 DEF QueryOk, Fits
<1>3. CASE Ack(c, r) BY <1>3 DEF Ack, Fits
<1>4. CASE Error(c, r) BY <1>4 DEF Error, Fits
<1>5. ASSUME NEW last \in BOOLEAN, Reply(c, r, last)
      PROVE  /\ Answers(c, r) /\ Fits(call[r].kind, "reply") /\ ResolveMore(c, r, "reply", last)
  BY <1>5 DEF Reply, Fits
<1> QED BY <1>1, <1>2, <1>3, <1>4, <1>5

\* One case per step of the connection tasks and of the calls.
LEMMA FaithfulNext == Consistent /\ Faithful /\ [Next]_vars => Faithful'
<1> SUFFICES ASSUME Consistent, Faithful, [Next]_vars PROVE Faithful'
  OBVIOUS
<1>type. Typed' BY TypeNext
<1>1. ASSUME NEW c \in Conns, ConnExit(c) \/ ConnOut(c) \/ ConnEnv(c) PROVE Faithful'
  <2>1. CASE ConnMoves(c) BY <2>1, ConnKeepsFaith
  <2>2. ASSUME NEW r \in Calls,
               \/ Pong(c, r) \/ QueryOk(c, r) \/ Ack(c, r) \/ Error(c, r)
               \/ \E last \in BOOLEAN : Reply(c, r, last)
        PROVE  Faithful'
    <3>1. PICK what \in {"connected", "ok", "err", "acked", "reply"}, last \in BOOLEAN :
             /\ Fits(call[r].kind, what)
             /\ (ResolveOnce(c, r, what) /\ last = TRUE) \/ ResolveMore(c, r, what, last)
      BY <2>2, AnswerKinds
    <3>2. Answers(c, r) BY <2>2, AnswerKinds
    <3> QED BY <1>type, <3>1, <3>2, AnswerKeepsFaith
  <2> QED BY <1>1, <2>1, <2>2 DEF ConnEnv, ConnMoves
<1>2. CASE \E t \in Tokens : Revoke(t) BY <1>2, ConnKeepsFaith
<1>3. ASSUME NEW r \in Calls, CallEnv(r) PROVE Faithful'
  BY <1>3, ReapKeepsFaith, BeginKeepsFaith DEF CallEnv
<1>4. ASSUME NEW r \in Calls, CallStep(r) PROVE Faithful'
  <2>t. Typed BY DEF Consistent
  <2>1. CASE Register(r) \/ Send(r) \/ TimeOut(r) BY <2>1, ProgressKeepsFaith
  <2>2. CASE TakePartial(r) /\ call[r].kind = "prompt" BY <2>2, PartialKeepsFaith
  <2>3. CASE TakeAck(r) BY <1>type, <2>3, AckKeepsFaith
  <2>4. CASE TakeAnswer(r) \/ TakeFinal(r) \/ SenderDropped(r) \/ CheckPresence(r)
    <3>0. stage[r] # "idle"
      BY <2>4 DEF TakeAnswer, TakeFinal, SenderDropped, CheckPresence
    <3>1. (\E result : Return(r, result)) /\ UNCHANGED <<phase, token, delivered, outq>>
      BY <2>4 DEF TakeAnswer, TakeFinal, SenderDropped, CheckPresence, connVars
    <3>2. pending' = pending \/ pending' = Forget(r)
      BY <2>4 DEF TakeAnswer, TakeFinal, SenderDropped, CheckPresence
    <3>3. \A q \in Calls : Registered(q)' => Registered(q)
      BY <3>0, <3>2, ForgetEffect DEF Registered
    <3>4. \A q \in Calls : q # r => pieces'[q] = pieces[q]
      BY <2>4, <2>t DEF TakeAnswer, TakeFinal, SenderDropped, CheckPresence, Typed
    <3> QED BY <3>1, <3>3, <3>4, ReturnKeepsFaith
  <2> QED BY <1>4, <2>1, <2>2, <2>3, <2>4
          DEF CallStep, Ping, Query, Prompt, Interrupt, Answer
<1>5. CASE UNCHANGED vars
  <2> SUFFICES ASSUME NEW q \in Calls PROVE FaithfulTo(q)'
    BY DEF Faithful
  <2>1. FaithfulTo(q) BY DEF Faithful
  <2> QED BY <1>5, <2>1, Untouched DEF vars, FrameAt, Registered
<1> QED BY <1>1, <1>2, <1>3, <1>4, <1>5 DEF Next

\* Frames, events and collected replies of every call agree in every reachable state.
THEOREM FaithfulAlways == Spec => [](Consistent /\ Faithful)
BY ConsistentAlways, FaithfulInit, FaithfulNext, PTL DEF Spec

\* The variables keep their types, and no call is ever sent an event that its function
\* has no branch for.
THEOREM TypeCorrect == Spec => []TypeOK
<1>1. Consistent /\ Faithful => TypeOK
  BY DEF Consistent, Faithful, FaithfulTo, FittingEvents, TypeOK
<1> QED BY <1>1, FaithfulAlways, PTL

-----------------------------------------------------------------------------
(* Whole replies and woken prompts *)

\* The first event a prompt takes, when it is a reply, is the next one the client sent.
LEMMA NextReply ==
    ASSUME Consistent, Faithful, NEW r \in Calls, stage[r] = "waiting", call[r].kind = "prompt",
           inbox[r] # <<>>, Head(inbox[r]).what = "reply"
    PROVE  Head(inbox[r]).n = Len(pieces[r]) + 1 /\ Len(pieces[r]) + 1 <= answers[r]
<1>1. inbox[r] \in Seq(Events) BY DEF Consistent, Typed
<1>2. 1 \in 1..Len(inbox[r]) /\ Head(inbox[r]) = inbox[r][1] BY <1>1
<1>3. Replies(inbox[r], 1) BY <1>2 DEF Replies
<1> QED BY <1>2, <1>3 DEF Faithful, FaithfulTo, Contiguous

\* Only the last event of a prompt makes its outcome `done`, and the pieces are then contiguous.
LEMMA WholeReplyNext == Consistent /\ Faithful /\ WholeReply /\ [Next]_vars => WholeReply'
<1> SUFFICES ASSUME Consistent, Faithful, WholeReply, [Next]_vars, NEW q \in Calls,
                    outcome'[q] = "done"
             PROVE  /\ Len(pieces'[q]) <= answers'[q] /\ Len(pieces'[q]) > 0
                    /\ \A i \in 1..Len(pieces'[q]) : pieces'[q][i] = i
  BY DEF WholeReply
<1> DEFINE Whole == /\ Len(pieces'[q]) <= answers'[q] /\ Len(pieces'[q]) > 0
                    /\ \A i \in 1..Len(pieces'[q]) : pieces'[q][i] = i
<1>t. /\ Typed /\ answers[q] \in Nat /\ pieces[q] \in Seq(Nat) /\ Len(pieces[q]) \in Nat
  BY ConstantsAssumption DEF Consistent, Typed
<1>k. ASSUME outcome'[q] = outcome[q], pieces'[q] = pieces[q],
             answers'[q] = answers[q] \/ answers'[q] = answers[q] + 1
      PROVE  Whole
  BY <1>k, <1>t DEF WholeReply
<1> HIDE DEF Whole
<1>n. stage[q] # "done" => outcome[q] = "none" BY DEF Faithful, FaithfulTo, Unsent
<1>1. ASSUME NEW c \in Conns, ConnExit(c) \/ ConnOut(c) \/ ConnEnv(c) PROVE Whole
  <2>1. CASE ConnMoves(c)
    <3>1. UNCHANGED <<outcome, pieces, answers>>
      BY <2>1 DEF ConnMoves, ConnExit, Deregister, Leave, ConnOut, HelloSent, ChannelClosed,
                  WriteFrame, Accept, Refuse, HelloFailed, LoopBroken, PeerClosed, Insert, callVars
    <3> QED BY <1>k, <3>1
  <2>2. ASSUME NEW r \in Calls, Answers(c, r) PROVE Whole
    <3>1. UNCHANGED <<outcome, pieces>> /\ answers' = [answers EXCEPT ![r] = @ + 1]
      BY <2>2 DEF Answers
    <3>2. answers'[q] = answers[q] \/ answers'[q] = answers[q] + 1 BY <3>1, <1>t DEF Typed
    <3> QED BY <1>k, <3>1, <3>2
  <2> QED BY <1>1, <2>1, <2>2, AnswerKinds DEF ConnEnv, ConnMoves
<1>2. ASSUME NEW t \in Tokens, Revoke(t) PROVE Whole
  <2>1. UNCHANGED <<outcome, pieces, answers>> BY <1>2 DEF Revoke, callVars
  <2> QED BY <1>k, <2>1
<1>3. ASSUME NEW r \in Calls, CallEnv(r) PROVE Whole
  <2>1. outcome'[q] = outcome[q] /\ q # r
    BY <1>3, <1>t, <1>n DEF CallEnv, Reap, Begin, Typed
  <2>2. pieces'[q] = pieces[q] /\ answers'[q] = answers[q]
    BY <1>3, <1>t, <2>1 DEF CallEnv, Reap, Begin, Typed
  <2> QED BY <1>k, <2>1, <2>2
<1>4. ASSUME NEW r \in Calls, CallStep(r) PROVE Whole
  <2>1. CASE TakeFinal(r) /\ q = r /\ pieces' # pieces
    <3>1. /\ stage[q] = "waiting" /\ call[q].kind = "prompt" /\ inbox[q] # <<>>
          /\ Head(inbox[q]).what = "reply" /\ answers' = answers
          /\ pieces'[q] = Append(pieces[q], Head(inbox[q]).n)
      BY <1>t, <2>1 DEF TakeFinal, Return, Typed
    <3>2. Head(inbox[q]).n = Len(pieces[q]) + 1 /\ Len(pieces[q]) + 1 <= answers[q]
      BY <3>1, NextReply
    <3>3. \A i \in 1..Len(pieces[q]) : pieces[q][i] = i
      BY <3>1 DEF Faithful, FaithfulTo, Contiguous
    <3>4. pieces'[q] = Append(pieces[q], Len(pieces[q]) + 1) BY <3>1, <3>2
    <3> QED BY <1>t, <3>1, <3>2, <3>3, <3>4 DEF Whole
  <2>2. CASE ~ (TakeFinal(r) /\ q = r /\ pieces' # pieces)
    <3>1. answers' = answers
      BY <1>4 DEF CallStep, Ping, Query, Prompt, Interrupt, Answer, Register, Send, TakeAnswer,
                  TakeAck, TakePartial, TakeFinal, SenderDropped, TimeOut, CheckPresence, Return
    <3>2. q # r => outcome'[q] = outcome[q] /\ pieces'[q] = pieces[q]
      BY <1>4, <1>t
         DEF CallStep, Ping, Query, Prompt, Interrupt, Answer, Register, Send, TakeAnswer, TakeAck,
             TakePartial, TakeFinal, SenderDropped, TimeOut, CheckPresence, Return, Typed
    <3>3. ASSUME q = r PROVE FALSE
      <4>0. stage[q] # "done" /\ outcome[q] = "none"
        BY <1>4, <1>n, <3>3
           DEF CallStep, Ping, Query, Prompt, Interrupt, Answer, Register, Send, TakeAnswer, TakeAck,
               TakePartial, TakeFinal, SenderDropped, TimeOut, CheckPresence
      <4>1. CASE TakeFinal(r)
        <5>1. pieces' = pieces BY <2>2, <3>3, <4>1
        <5>2. pieces'[q] = Append(pieces[q], Head(inbox[q]).n)
          BY <1>t, <3>3, <4>1 DEF TakeFinal, Return, Typed
        <5>3. Len(pieces'[q]) = Len(pieces[q]) + 1 BY <1>t, <5>2
        <5> QED BY <1>t, <5>1, <5>3
      <4>2. CASE TakeAnswer(r)
        <5>1. Head(inbox[q]) \in Events BY <1>t, <3>3, <4>2 DEF TakeAnswer, Typed
        <5>2. Head(inbox[q]).what # "done" BY <5>1 DEF Events
        <5>3. outcome' = [outcome EXCEPT ![q] = Head(inbox[q]).what]
          BY <3>3, <4>2 DEF TakeAnswer, Return
        <5>4. outcome'[q] = Head(inbox[q]).what BY <1>t, <5>3 DEF Typed
        <5> QED BY <5>2, <5>4
      <4> QED BY <1>4, <1>t, <3>3, <4>0, <4>1, <4>2
           DEF CallStep, Ping, Query, Prompt, Interrupt, Answer, Register, Send, TakeAck,
               TakePartial, SenderDropped, TimeOut, CheckPresence, Return, Typed
    <3> QED BY <1>k, <3>1, <3>2, <3>3
  <2> QED BY <2>1, <2>2
<1>5. CASE UNCHANGED vars BY <1>5, <1>k DEF vars, Whole
<1> QED BY <1>1, <1>2, <1>3, <1>4, <1>5 DEF Next, Whole

\* A prompt that returns Done has every reply the client sent up to the last, in order
\* and without a hole, whatever happened to its token's Entry meanwhile.
THEOREM RepliesAreWhole == Spec => []WholeReply
<1>1. Init => WholeReply BY DEF Init, WholeReply
<1> QED BY <1>1, WholeReplyNext, FaithfulAlways, PTL DEF Spec

\* When an interrupt returns Acked, the prompt whose turn it cancelled has a cancel in its
\* channel, through whichever connections the two were sent.
THEOREM AckedTurnWakes == Spec => AckWakesTurn
<1>1. Consistent /\ [Next]_vars =>
        [\A i, p \in Calls :
          /\ outcome[i] = "none" /\ outcome'[i] = "acked" /\ call[i].kind = "interrupt"
          /\ Registered(p)' /\ call[p].kind = "prompt"
          /\ call[p].token = call[i].token /\ call[p].session = call[i].session
          => inbox'[p] # <<>>]_vars
  <2> SUFFICES ASSUME Consistent, Next, NEW i \in Calls, NEW p \in Calls,
                      outcome[i] = "none", outcome'[i] = "acked", call[i].kind = "interrupt",
                      Registered(p)', call[p].kind = "prompt",
                      call[p].token = call[i].token, call[p].session = call[i].session
               PROVE  inbox'[p] # <<>>
    OBVIOUS
  <2>t. Typed BY DEF Consistent
  <2>1. TakeAck(i)
    <3>1. ASSUME NEW c \in Conns, ConnExit(c) \/ ConnOut(c) \/ ConnEnv(c) PROVE outcome' = outcome
      <4>1. CASE ConnMoves(c)
        BY <4>1 DEF ConnMoves, ConnExit, Deregister, Leave, ConnOut, HelloSent, ChannelClosed,
                  WriteFrame, Accept, Refuse, HelloFailed, LoopBroken, PeerClosed, Insert, callVars
      <4>2. ASSUME NEW r \in Calls, Answers(c, r) PROVE outcome' = outcome BY <4>2 DEF Answers
      <4> QED BY <3>1, <4>1, <4>2, AnswerKinds DEF ConnEnv, ConnMoves
    <3>2. ASSUME NEW t \in Tokens, Revoke(t) PROVE outcome' = outcome BY <3>2 DEF Revoke, callVars
    <3>3. ASSUME NEW r \in Calls, CallEnv(r) PROVE outcome'[i] # "acked"
      <4>1. CASE Reap(r) BY <2>t, <4>1 DEF Reap, Typed
      <4>2. ASSUME NEW k, NEW t, NEW s, Begin(r, k, t, s) PROVE outcome'[i] # "acked"
        BY <2>t, <4>2 DEF Begin, Typed
      <4> QED BY <3>3, <4>1, <4>2 DEF CallEnv
    <3>4. ASSUME NEW r \in Calls, CallStep(r) PROVE TakeAck(i)
      <4>1. r = i
        BY <2>t, <3>4
           DEF CallStep, Ping, Query, Prompt, Interrupt, Answer, Register, Send, TakeAnswer, TakeAck,
               TakePartial, TakeFinal, SenderDropped, TimeOut, CheckPresence, Return, Typed
      <4> QED BY <2>t, <3>4, <4>1
           DEF CallStep, Ping, Query, Prompt, Interrupt, Answer, Register, Send,
               SenderDropped, TimeOut, CheckPresence, Return, Typed
    <3> QED BY <3>1, <3>2, <3>3, <3>4 DEF Next
  <2>2. PICK d \in Conns : p \in pending[d] BY <2>1 DEF TakeAck, Registered
  <2>3. entries[call[i].token] = d BY <2>2 DEF Consistent, NoLeakedCall
  <2>4. p \in PromptsToWake(i) BY <2>2, <2>3, ConstantsAssumption DEF PromptsToWake
  <2>5. inbox'[p] = Append(inbox[p], Event("cancelled", 0, TRUE)) BY <2>1, <2>4, AckEffect
  <2>6. inbox[p] \in Seq(Events) /\ Event("cancelled", 0, TRUE) \in Events
    BY <2>t DEF Typed, Event, Events
  <2>7. Len(inbox'[p]) = Len(inbox[p]) + 1 /\ Len(inbox[p]) \in Nat BY <2>5, <2>6
  <2> QED BY <2>7
<1>2. Consistent /\ [Next]_vars =>
        [\A i, p \in Calls :
          /\ outcome[i] = "none" /\ outcome'[i] = "acked" /\ call[i].kind = "interrupt"
          /\ Registered(p)' /\ OnlyTurn(p)
          /\ call[p].token = call[i].token /\ call[p].session = call[i].session
          => inbox'[p] # <<>>]_vars
  BY <1>1 DEF OnlyTurn
<1> QED BY <1>2, ConsistentAlways, PTL DEF Spec, AckWakesTurn

-----------------------------------------------------------------------------
(* The contract of the calls *)

\* The initial states map to the contract's.
LEMMA ContractInit == Init => Contract!Init
<1> SUFFICES ASSUME Init PROVE Contract!Init
  OBVIOUS
<1>1. call = [r \in Calls |-> Contract!NoCall] BY DEF Init, NoCall, Contract!NoCall
<1>2. [r \in Calls |-> CallState(r)] = [r \in Calls |-> "idle"] BY DEF Init, CallState
<1>3. Heard = {} BY DEF Init, Heard
<1>4. {r \in Calls : CancelQueued(r)} = {} BY DEF Init, CancelQueued
<1>5. outcome = [r \in Calls |-> "none"] BY DEF Init
<1> QED BY <1>1, <1>2, <1>3, <1>4, <1>5 DEF Contract!Init

\* A step that changes no outcome, no call and nobody's view is a stutter.
LEMMA StutterStep ==
    ASSUME UNCHANGED <<call, outcome>>,
           \A q \in Calls : /\ CallState(q)' = CallState(q)
                            /\ (answers'[q] > 0) = (answers[q] > 0)
                            /\ CancelQueued(q)' = CancelQueued(q)
    PROVE  UNCHANGED Contract!vars
<1>1. [r \in Calls |-> CallState(r)]' = [r \in Calls |-> CallState(r)] OBVIOUS
<1>2. Heard' = Heard BY DEF Heard
<1>3. {r \in Calls : CancelQueued(r)}' = {r \in Calls : CancelQueued(r)} OBVIOUS
<1> QED BY <1>1, <1>2, <1>3 DEF Contract!vars

\* A call that returns o, justified, finishes in the contract.
LEMMA FinishStep ==
    ASSUME Consistent, NEW r \in Calls, HoldsTx(r), NEW o \in Contract!Results, Return(r, o),
           \/ o \in Contract!Unanswered(call[r].kind)
           \/ o \in Contract!Answered(call[r].kind) /\ answers[r] > 0
           \/ o = "cancelled" /\ call[r].kind = "prompt" /\ CancelQueued(r)
    PROVE  Contract!Next
<1>t. Typed BY DEF Consistent
<1>0. /\ stage'[r] = "done" /\ inbox'[r] = <<>> /\ UNCHANGED <<call, answers>>
      /\ outcome' = [outcome EXCEPT ![r] = o]
      /\ \A q \in Calls : q # r => stage'[q] = stage[q] /\ inbox'[q] = inbox[q]
  BY <1>t DEF Return, Typed
<1>1. CallState(r) = "waiting" BY DEF CallState, HoldsTx
<1>2. [q \in Calls |-> CallState(q)]' = [[q \in Calls |-> CallState(q)] EXCEPT ![r] = "done"]
  BY <1>0 DEF CallState
<1>3. Heard' = Heard BY <1>0 DEF Heard
<1>4. {q \in Calls : CancelQueued(q)}' = {q \in Calls : CancelQueued(q)} \ {r}
  BY <1>0 DEF CancelQueued
<1>5. \/ o \in Contract!Unanswered(call[r].kind)
      \/ o \in Contract!Answered(call[r].kind) /\ r \in Heard
      \/ o = "cancelled" /\ call[r].kind = "prompt" /\ r \in {q \in Calls : CancelQueued(q)}
  BY DEF Heard
<1>6. Contract!Finish(r, o)
  BY <1>0, <1>1, <1>2, <1>3, <1>5 DEF Contract!Finish
<1> QED BY <1>4, <1>6 DEF Contract!Next

\* The first event of a call's channel is one its kind of call can take, and is the
\* client's answer unless it is a cancel.
LEMMA FirstEvent ==
    ASSUME Consistent, Faithful, NEW r \in Calls, inbox[r] # <<>>
    PROVE  /\ Fits(call[r].kind, Head(inbox[r]).what)
           /\ Head(inbox[r]).what # "cancelled" => answers[r] > 0
           /\ Head(inbox[r]).what = "cancelled" => CancelQueued(r)
<1>1. inbox[r] \in Seq(Events) BY DEF Consistent, Typed
<1>2. 1 \in 1..Len(inbox[r]) /\ Head(inbox[r]) = inbox[r][1] BY <1>1
<1> QED BY <1>2 DEF Faithful, FaithfulTo, FittingEvents, CancelQueued

\* A call that begins is the contract's Begin, with or without an entry to send to.
LEMMA BeginStep ==
    ASSUME Consistent, NEW r \in Calls, NEW k \in Kinds, NEW t \in Tokens,
           NEW s \in SessionsFor(k), Begin(r, k, t, s)
    PROVE  Contract!Next
<1>t. Typed BY DEF Consistent
<1> DEFINE info == [kind |-> k, token |-> t, session |-> s]
<1>1. info \in Contract!Infos BY DEF Contract!Infos, SessionsFor
<1>2. /\ stage[r] = "idle" /\ call' = [call EXCEPT ![r] = info]
      /\ UNCHANGED <<inbox, answers>>
      /\ \A q \in Calls : q # r => stage'[q] = stage[q]
  BY <1>t DEF Begin, Typed
<1> HIDE DEF info
<1>3. Heard' = Heard BY <1>2 DEF Heard
<1>4. {q \in Calls : CancelQueued(q)}' = {q \in Calls : CancelQueued(q)} BY <1>2 DEF CancelQueued
<1>5. [q \in Calls |-> CallState(q)][r] = "idle" BY <1>2 DEF CallState
<1>6. CASE entries[t] = None
  <2>1. stage'[r] = "done" /\ outcome' = [outcome EXCEPT ![r] = "disconnected"]
    BY <1>6, <1>t DEF Begin, Typed
  <2>2. [q \in Calls |-> CallState(q)]' = [[q \in Calls |-> CallState(q)] EXCEPT ![r] = "done"]
    BY <1>2, <2>1 DEF CallState
  <2>3. Contract!Begin(r, info)
    BY <1>2, <1>3, <1>4, <1>5, <2>1, <2>2 DEF Contract!Begin
  <2> QED BY <1>1, <2>3 DEF Contract!Next
<1>7. CASE entries[t] # None
  <2>1. stage'[r] = "cloned" /\ outcome' = outcome
    BY <1>7, <1>t DEF Begin, Typed
  <2>2. [q \in Calls |-> CallState(q)]' = [[q \in Calls |-> CallState(q)] EXCEPT ![r] = "waiting"]
    BY <1>2, <2>1 DEF CallState
  <2>3. Contract!Begin(r, info)
    BY <1>2, <1>3, <1>4, <1>5, <2>1, <2>2 DEF Contract!Begin
  <2> QED BY <1>1, <2>3 DEF Contract!Next
<1> QED BY <1>6, <1>7

\* A returned call that is reaped is the contract's reset.
LEMMA ResetStep ==
    ASSUME Consistent, NEW r \in Calls, Reap(r)
    PROVE  Contract!Next
<1>t. Typed BY DEF Consistent
<1>1. /\ stage[r] = "done" /\ stage'[r] = "idle" /\ inbox' = inbox
      /\ call' = [call EXCEPT ![r] = Contract!NoCall]
      /\ outcome' = [outcome EXCEPT ![r] = "none"]
      /\ answers'[r] = 0
      /\ \A q \in Calls : q # r => stage'[q] = stage[q] /\ answers'[q] = answers[q]
  BY <1>t DEF Reap, Typed, NoCall, Contract!NoCall
<1>2. Heard' = Heard \ {r} BY <1>1 DEF Heard
<1>3. {q \in Calls : CancelQueued(q)}' = {q \in Calls : CancelQueued(q)} BY <1>1 DEF CancelQueued
<1>4. [q \in Calls |-> CallState(q)][r] = "done" BY <1>1 DEF CallState
<1>5. [q \in Calls |-> CallState(q)]' = [[q \in Calls |-> CallState(q)] EXCEPT ![r] = "idle"]
  BY <1>1 DEF CallState
<1>6. Contract!Reset(r) BY <1>1, <1>2, <1>3, <1>4, <1>5 DEF Contract!Reset
<1> QED BY <1>6 DEF Contract!Next

\* An answer that is put into the inbox is the first event heard, or another of a prompt.
LEMMA HearStep ==
    ASSUME Consistent, Faithful, NEW c \in Conns, NEW r \in Calls, NEW what, NEW last,
           Answers(c, r),
           (ResolveOnce(c, r, what) /\ last = TRUE) \/ ResolveMore(c, r, what, last),
           what # "cancelled", last \in BOOLEAN, Fits(call[r].kind, what)
    PROVE  Contract!Next
<1> DEFINE ev == Event(what, answers[r] + 1, last)
<1>t. Typed BY DEF Consistent
<1>1. /\ UNCHANGED <<call, stage, outcome>> /\ r \in delivered[c]
      /\ answers' = [answers EXCEPT ![r] = @ + 1]
  BY DEF Answers
<1>2. /\ answers[r] \in Nat /\ answers'[r] = answers[r] + 1
      /\ \A q \in Calls : q # r => answers'[q] = answers[q]
  BY <1>t, <1>1, ConstantsAssumption DEF Typed
<1>3. /\ \A q \in Calls : Registered(q)' => Registered(q)
      /\ \A q \in Calls : q # r => inbox'[q] = inbox[q]
      /\ \/ inbox'[r] = inbox[r] /\ ~ Registered(r)
         \/ inbox'[r] = Append(inbox[r], ev) /\ Registered(r)
  BY AnswerEffect
<1>4. ev \in Events /\ ev.what # "cancelled" BY <1>2 DEF Event, Events, Fits
<1> HIDE DEF ev
<1>5. CancelQueued(r)' <=> CancelQueued(r)
  <2>1. CASE inbox'[r] = inbox[r] BY <2>1 DEF CancelQueued
  <2>2. CASE inbox'[r] = Append(inbox[r], ev)
    <3>1. inbox[r] \in Seq(Events) BY <1>t DEF Typed
    <3>2. /\ Len(inbox[r]) \in Nat /\ Len(inbox'[r]) = Len(inbox[r]) + 1
          /\ inbox'[r][Len(inbox[r]) + 1] = ev
          /\ \A i \in 1..Len(inbox[r]) : inbox'[r][i] = inbox[r][i]
      BY <1>4, <2>2, <3>1
    <3>3. \A i \in 1..(Len(inbox[r]) + 1) : i \in 1..Len(inbox[r]) \/ i = Len(inbox[r]) + 1
      BY <3>2
    <3>4. 1..Len(inbox[r]) \subseteq 1..(Len(inbox[r]) + 1) BY <3>2
    <3> QED BY <1>4, <3>2, <3>3, <3>4 DEF CancelQueued
  <2> QED BY <1>3, <2>1, <2>2
<1>6. \A q \in Calls : CancelQueued(q)' <=> CancelQueued(q) BY <1>3, <1>5 DEF CancelQueued
<1>7. {q \in Calls : CancelQueued(q)}' = {q \in Calls : CancelQueued(q)} BY <1>6
<1>8. Heard' = Heard \cup {r} BY <1>2 DEF Heard
<1>9. [q \in Calls |-> CallState(q)]' = [q \in Calls |-> CallState(q)] BY <1>1 DEF CallState
<1>10. [q \in Calls |-> CallState(q)][r] # "idle"
  BY <1>1 DEF CallState, Faithful, FaithfulTo, Unsent, FrameAt
<1>11. Contract!Hear(r) BY <1>1, <1>7, <1>8, <1>9, <1>10 DEF Contract!Hear
<1> QED BY <1>11 DEF Contract!Next

\* The acknowledged interrupt returns and cancels its prompts in one contract step.
LEMMA InterruptedStep ==
    ASSUME Consistent, Faithful, NEW r \in Calls, TakeAck(r)
    PROVE  Contract!Next
<1> DEFINE ev == Event("cancelled", 0, TRUE)
           woken == PromptsToWake(r)
<1>t. Typed BY DEF Consistent
<1>1. /\ stage[r] = "waiting" /\ inbox[r] # <<>> /\ call[r].kind = "interrupt"
      /\ stage'[r] = "done" /\ outcome' = [outcome EXCEPT ![r] = "acked"]
      /\ UNCHANGED <<call, answers>>
      /\ \A q \in Calls : q # r => stage'[q] = stage[q]
  BY <1>t DEF TakeAck, Typed
<1>2. r \in Heard BY <1>1, FirstEvent DEF Fits, Heard
<1>3. Heard' = Heard BY <1>1 DEF Heard
<1>4. [q \in Calls |-> CallState(q)][r] = "waiting" BY <1>1 DEF CallState
<1>5. [q \in Calls |-> CallState(q)]' = [[q \in Calls |-> CallState(q)] EXCEPT ![r] = "done"]
  BY <1>1 DEF CallState
<1>6. Contract!Finish(r, "acked")
  BY <1>1, <1>2, <1>3, <1>4, <1>5 DEF Contract!Finish, Contract!Answered
<1>7. woken \subseteq Contract!Woken(r)
  <2>1. \A p \in woken : /\ p \in Calls /\ [q \in Calls |-> CallState(q)][p] = "waiting"
                         /\ call[p].kind = "prompt" /\ call[p].token = call[r].token
                         /\ call[p].session = call[r].session
    BY AckEffect DEF CallState
  <2> QED BY <2>1 DEF Contract!Woken
<1>8. {q \in Calls : CancelQueued(q)}' = {q \in Calls : CancelQueued(q)} \cup woken
  <2>1. ~ CancelQueued(r) /\ ~ CancelQueued(r)' /\ r \notin woken
    <3>1. ~ CancelQueued(r) BY <1>1 DEF CancelQueued, Faithful, FaithfulTo, FittingEvents, Fits
    <3>2. inbox'[r] = <<>> /\ r \notin woken BY AckEffect
    <3> QED BY <3>1, <3>2 DEF CancelQueued
  <2>2. \A p \in Calls : p # r /\ p \notin woken => (CancelQueued(p)' <=> CancelQueued(p))
    BY AckEffect DEF CancelQueued
  <2>3. \A p \in woken : p \in Calls /\ CancelQueued(p)'
    <3> SUFFICES ASSUME NEW p \in woken PROVE p \in Calls /\ CancelQueued(p)'
      OBVIOUS
    <3>1. p \in Calls /\ inbox'[p] = Append(inbox[p], ev) BY AckEffect
    <3>2. ev \in Events /\ ev.what = "cancelled" BY DEF Event, Events
    <3> HIDE DEF ev
    <3>3. inbox[p] \in Seq(Events) BY <1>t, <3>1 DEF Typed
    <3>4. /\ Len(inbox[p]) + 1 \in 1..Len(inbox'[p])
          /\ inbox'[p][Len(inbox[p]) + 1] = ev
      BY <3>1, <3>2, <3>3
    <3> QED BY <3>1, <3>2, <3>4 DEF CancelQueued
  <2> HIDE DEF woken
  <2>4. \A p \in Calls : CancelQueued(p)' <=> (CancelQueued(p) \/ p \in woken)
    BY <2>1, <2>2, <2>3
  <2>5. woken \subseteq Calls BY <2>3
  <2> QED BY <2>4, <2>5
<1>9. Contract!Interrupted(r, woken) BY <1>1, <1>6, <1>7, <1>8 DEF Contract!Interrupted
<1>10. woken \in SUBSET Calls BY AckEffect
<1> QED BY <1>9, <1>10 DEF Contract!Next

\* Every step is a step of the contract or leaves what the contract sees alone.
LEMMA ContractNext == Consistent /\ Faithful /\ [Next]_vars => [Contract!Next]_Contract!vars
<1> SUFFICES ASSUME Consistent, Faithful, [Next]_vars
             PROVE  Contract!Next \/ UNCHANGED Contract!vars
  OBVIOUS
<1>t. Typed BY DEF Consistent
<1>q. ASSUME UNCHANGED <<call, stage, inbox, outcome, answers>> PROVE UNCHANGED Contract!vars
  BY <1>q, StutterStep DEF CallState, CancelQueued
<1>1. ASSUME NEW c \in Conns, ConnExit(c) \/ ConnOut(c) \/ ConnEnv(c)
      PROVE  Contract!Next \/ UNCHANGED Contract!vars
  <2>1. CASE ConnMoves(c)
    <3>1. UNCHANGED <<call, stage, inbox, outcome, answers>>
      BY <2>1 DEF ConnMoves, ConnExit, Deregister, Leave, ConnOut, HelloSent, ChannelClosed,
                  WriteFrame, Accept, Refuse, HelloFailed, LoopBroken, PeerClosed, Insert, callVars
    <3> QED BY <1>q, <3>1
  <2>2. ASSUME NEW r \in Calls,
               \/ Pong(c, r) \/ QueryOk(c, r) \/ Ack(c, r) \/ Error(c, r)
               \/ \E last \in BOOLEAN : Reply(c, r, last)
        PROVE  Contract!Next
    <3>1. PICK what \in {"connected", "ok", "err", "acked", "reply"}, last \in BOOLEAN :
             /\ Fits(call[r].kind, what)
             /\ (ResolveOnce(c, r, what) /\ last = TRUE) \/ ResolveMore(c, r, what, last)
      BY <2>2, AnswerKinds
    <3>2. Answers(c, r) BY <2>2, AnswerKinds
    <3> QED BY <3>1, <3>2, HearStep
  <2> QED BY <1>1, <2>1, <2>2 DEF ConnEnv, ConnMoves
<1>2. ASSUME NEW t \in Tokens, Revoke(t) PROVE UNCHANGED Contract!vars
  <2>1. UNCHANGED <<call, stage, inbox, outcome, answers>> BY <1>2 DEF Revoke, callVars
  <2> QED BY <1>q, <2>1
<1>3. ASSUME NEW r \in Calls, CallEnv(r) PROVE Contract!Next
  BY <1>3, BeginStep, ResetStep DEF CallEnv
<1>4. ASSUME NEW r \in Calls, CallStep(r) PROVE Contract!Next \/ UNCHANGED Contract!vars
  <2>d. ASSUME HoldsTx(r), Return(r, "disconnected") PROVE Contract!Next
    <3>1. "disconnected" \in Contract!Unanswered(call[r].kind) /\ "disconnected" \in Contract!Results
      BY DEF Contract!Unanswered, Contract!Results
    <3> QED BY <2>d, <3>1, FinishStep
  <2>a. \A o : /\ Fits(call[r].kind, o) /\ o \notin {"reply", "cancelled"}
               => o \in Contract!Answered(call[r].kind) /\ o \in Contract!Results
    BY DEF Fits, Contract!Answered, Contract!Results
  <2>s. ASSUME NEW new \in {"registered", "waiting", "expired"}, HoldsTx(r),
               stage' = [stage EXCEPT ![r] = new], UNCHANGED <<call, inbox, outcome, answers>>
        PROVE  UNCHANGED Contract!vars
    <3>1. stage'[r] = new /\ \A q \in Calls : q # r => stage'[q] = stage[q]
      BY <2>s, <1>t DEF Typed
    <3>2. \A q \in Calls : CallState(q)' = CallState(q) BY <2>s, <3>1 DEF CallState, HoldsTx
    <3>3. \A q \in Calls : CancelQueued(q)' = CancelQueued(q) BY <2>s DEF CancelQueued
    <3> QED BY <2>s, <3>2, <3>3, StutterStep
  <2>1. CASE Register(r) BY <2>1, <2>d, <2>s DEF Register, HoldsTx
  <2>2. CASE Send(r) BY <2>2, <2>d, <2>s DEF Send, HoldsTx
  <2>3. CASE TakeAnswer(r)
    <3> DEFINE o == Head(inbox[r]).what
    <3>1. /\ HoldsTx(r) /\ Return(r, o) /\ inbox[r] # <<>>
          /\ call[r].kind \in {"ping", "query", "answer"}
      BY <2>3 DEF TakeAnswer, HoldsTx
    <3>2. Fits(call[r].kind, o) /\ (o # "cancelled" => answers[r] > 0) BY <3>1, FirstEvent
    <3> HIDE DEF o
    <3>3. o \notin {"reply", "cancelled"} BY <3>1, <3>2 DEF Fits
    <3> QED BY <2>a, <3>1, <3>2, <3>3, FinishStep
  <2>4. CASE TakeAck(r) BY <2>4, InterruptedStep
  <2>5. CASE TakePartial(r)
    <3>1. /\ inbox[r] # <<>> /\ Head(inbox[r]).what = "reply" /\ inbox'[r] = Tail(inbox[r])
          /\ \A q \in Calls : q # r => inbox'[q] = inbox[q]
          /\ UNCHANGED <<call, stage, outcome, answers>>
      BY <1>t, <2>5 DEF TakePartial, Typed
    <3>2. inbox[r] \in Seq(Events) BY <1>t DEF Typed
    <3>3. /\ Head(inbox[r]) = inbox[r][1] /\ Len(inbox[r]) \in Nat \ {0}
          /\ Len(inbox'[r]) = Len(inbox[r]) - 1
          /\ \A i \in 1..(Len(inbox[r]) - 1) : inbox'[r][i] = inbox[r][i + 1]
      BY <3>1, <3>2
    <3>4. CancelQueued(r)' <=> CancelQueued(r)
      <4>1. ASSUME CancelQueued(r)' PROVE CancelQueued(r)
        <5>1. PICK i \in 1..(Len(inbox[r]) - 1) : inbox'[r][i].what = "cancelled"
          BY <3>3, <4>1 DEF CancelQueued
        <5>2. i + 1 \in 1..Len(inbox[r]) /\ inbox[r][i + 1].what = "cancelled" BY <3>3, <5>1
        <5> QED BY <5>2 DEF CancelQueued
      <4>2. ASSUME CancelQueued(r) PROVE CancelQueued(r)'
        <5>1. PICK i \in 1..Len(inbox[r]) : inbox[r][i].what = "cancelled"
          BY <4>2 DEF CancelQueued
        <5>2. i # 1 BY <3>1, <3>3, <5>1
        <5>3. i - 1 \in 1..(Len(inbox[r]) - 1) /\ (i - 1) + 1 = i BY <3>3, <5>2
        <5>4. inbox'[r][i - 1].what = "cancelled" BY <3>3, <5>1, <5>3
        <5> QED BY <3>3, <5>3, <5>4 DEF CancelQueued
      <4> QED BY <4>1, <4>2
    <3>5. \A q \in Calls : CancelQueued(q)' = CancelQueued(q) BY <3>1, <3>4 DEF CancelQueued
    <3> QED BY <3>1, <3>5, StutterStep DEF CallState
  <2>6. CASE TakeFinal(r)
    <3>1. HoldsTx(r) /\ inbox[r] # <<>> /\ call[r].kind = "prompt" BY <2>6 DEF TakeFinal, HoldsTx
    <3>2. CASE Head(inbox[r]).what = "reply"
      <4>1. Return(r, "done") BY <2>6, <3>2 DEF TakeFinal
      <4>2. answers[r] > 0 BY <3>1, <3>2, FirstEvent
      <4>3. "done" \in Contract!Answered("prompt") /\ "done" \in Contract!Results
        BY DEF Contract!Answered, Contract!Results
      <4> QED BY <3>1, <4>1, <4>2, <4>3, FinishStep
    <3>3. CASE Head(inbox[r]).what = "err"
      <4>1. Return(r, "err") BY <2>6, <3>3 DEF TakeFinal
      <4>2. answers[r] > 0 BY <3>1, <3>3, FirstEvent
      <4>3. "err" \in Contract!Answered("prompt") /\ "err" \in Contract!Results
        BY DEF Contract!Answered, Contract!Results
      <4> QED BY <3>1, <4>1, <4>2, <4>3, FinishStep
    <3>4. CASE Head(inbox[r]).what = "cancelled"
      <4>1. Return(r, "cancelled") BY <2>6, <3>4 DEF TakeFinal
      <4>2. CancelQueued(r) BY <3>1, <3>4, FirstEvent
      <4>3. "cancelled" \in Contract!Results BY DEF Contract!Results
      <4> QED BY <3>1, <4>1, <4>2, <4>3, FinishStep
    <3> QED BY <2>6, <3>2, <3>3, <3>4 DEF TakeFinal
  <2>7. CASE SenderDropped(r) BY <2>7, <2>d DEF SenderDropped, HoldsTx
  <2>8. CASE TimeOut(r) BY <2>8, <2>d, <2>s DEF TimeOut, HoldsTx
  <2>9. CASE CheckPresence(r) /\ call[r].kind \in {"interrupt", "answer"}
    <3>1. HoldsTx(r) /\ (Return(r, "timedout") \/ Return(r, "disconnected"))
      BY <2>9 DEF CheckPresence, HoldsTx
    <3>2. "timedout" \in Contract!Unanswered(call[r].kind) /\ "timedout" \in Contract!Results
      BY <2>9 DEF Contract!Unanswered, Contract!Results
    <3> QED BY <2>d, <3>1, <3>2, FinishStep
  <2> QED BY <1>4, <2>1, <2>2, <2>3, <2>4, <2>5, <2>6, <2>7, <2>8, <2>9
          DEF CallStep, Ping, Query, Prompt, Interrupt, Answer
<1>5. CASE UNCHANGED vars BY <1>5, <1>q DEF vars
<1> QED BY <1>1, <1>2, <1>3, <1>4, <1>5 DEF Next

\* The registry implements the contract of its five calls: one outcome per call, an
\* answer only if the client gave one, a cancel only after an acknowledged interrupt of
\* the same session and token.
THEOREM RegistryKeepsContract == Spec => KeepsContract
BY ContractInit, ContractNext, FaithfulAlways, PTL DEF Spec, KeepsContract, Contract!Spec

-----------------------------------------------------------------------------
(* Calls go on.  A call that has begun and not returned always has a step to    *)
(* take, whatever its connection and the others do; with a fair scheduler it    *)
(* returns, unless its client streams replies to it without end.                *)

\* Some step of the call's own function has its guard.
Ready(r) ==
    /\ call[r].kind \in AllKinds
    /\ \/ stage[r] \in {"cloned", "registered"}
       \/ stage[r] = "waiting" /\ inbox[r] = <<>>
       \/ /\ stage[r] = "waiting" /\ inbox[r] # <<>>
          /\ call[r].kind = "prompt" =>
                Head(inbox[r]).what \in {"reply", "err", "cancelled"}
       \/ stage[r] = "expired" /\ call[r].kind \in {"interrupt", "answer"}

\* Only an interrupt or an answer looks at the map again after its timeout.
ExpiredKinds ==
    \A r \in Calls : stage[r] = "expired" => call[r].kind \in {"interrupt", "answer"}

NeverStuck == \A r \in Calls : HoldsTx(r) => Ready(r)

\* What a step does to the stage of a call: only its own function and its caller
\* move it, and each step forward is for good.
LEMMA StageMoves ==
    ASSUME Consistent, [Next]_vars, NEW r \in Calls
    PROVE  /\ HoldsTx(r) => call'[r] = call[r]
           /\ ~ CallStep(r) =>
                \/ stage'[r] = stage[r]
                \/ stage[r] \in {"idle", "done"} /\ stage'[r] \in {"idle", "cloned", "done"}
           /\ CallStep(r) =>
                \/ stage[r] = "cloned" /\ stage'[r] \in {"registered", "done"}
                \/ stage[r] = "registered" /\ stage'[r] \in {"waiting", "done"}
                \/ stage[r] = "waiting" /\ stage'[r] = "done"
                \/ /\ stage[r] = "waiting" /\ stage'[r] = "expired"
                   /\ call[r].kind \in {"interrupt", "answer"}
                \/ stage[r] = "waiting" /\ stage'[r] = "waiting" /\ TakePartial(r)
                \/ stage[r] = "expired" /\ stage'[r] = "done"
<1>t. stage \in [Calls -> Stages] /\ call \in [Calls -> CallInfo]
  BY DEF Consistent, Typed
<1>1. ASSUME NEW c \in Conns, ConnExit(c) \/ ConnOut(c) \/ ConnEnv(c)
      PROVE  UNCHANGED <<stage, call>>
  BY <1>1 DEF ConnExit, ConnOut, ConnEnv, Deregister, Leave, HelloSent, WriteFrame,
      ChannelClosed, Accept, Refuse, HelloFailed, LoopBroken, PeerClosed, Insert, Pong,
      QueryOk, Ack, Error, Reply, Answers, callVars
<1>2. ASSUME NEW t \in Tokens, Revoke(t) PROVE UNCHANGED <<stage, call>>
  BY <1>2 DEF Revoke, callVars
<1>3. ASSUME NEW q \in Calls, CallEnv(q)
      PROVE  /\ stage[q] \in {"idle", "done"} /\ stage'[q] \in {"idle", "cloned", "done"}
             /\ q # r => stage'[r] = stage[r] /\ call'[r] = call[r]
  BY <1>3, <1>t DEF CallEnv, Reap, Begin
<1>4. ASSUME NEW q \in Calls, CallStep(q)
      PROVE  /\ call' = call
             /\ q # r => stage'[r] = stage[r]
             /\ \/ stage[q] = "cloned" /\ stage'[q] \in {"registered", "done"}
                \/ stage[q] = "registered" /\ stage'[q] \in {"waiting", "done"}
                \/ stage[q] = "waiting" /\ stage'[q] = "done"
                \/ /\ stage[q] = "waiting" /\ stage'[q] = "expired"
                   /\ call[q].kind \in {"interrupt", "answer"}
                \/ stage[q] = "waiting" /\ stage'[q] = "waiting" /\ TakePartial(q)
                \/ stage[q] = "expired" /\ stage'[q] = "done"
  <2>1. CASE Register(q)
    BY <2>1, <1>t DEF Register, Return
  <2>2. CASE Send(q)
    BY <2>2, <1>t DEF Send, Return
  <2>3. CASE TakePartial(q)
    BY <2>3, <1>t DEF TakePartial
  <2>4. CASE TakeAck(q)
    BY <2>4, <1>t DEF TakeAck
  <2>5. CASE TimeOut(q)
    BY <2>5, <1>t DEF TimeOut, Return
  <2>6. CASE TakeAnswer(q) \/ TakeFinal(q) \/ SenderDropped(q) \/ CheckPresence(q)
    BY <2>6, <1>t DEF TakeAnswer, TakeFinal, SenderDropped, CheckPresence, Return
  <2> QED  BY <1>4, <2>1, <2>2, <2>3, <2>4, <2>5, <2>6
           DEF CallStep, Ping, Query, Prompt, Interrupt, Answer
<1>5. CASE UNCHANGED vars
  <2>1. UNCHANGED <<stage, call>>
    BY <1>5 DEF vars
  <2> QED  BY <1>4, <2>1
<1>6. CASE \E c \in Conns : ConnExit(c) \/ ConnOut(c) \/ ConnEnv(c)
  BY <1>1, <1>4, <1>6
<1>7. CASE \E t \in Tokens : Revoke(t)
  BY <1>2, <1>4, <1>7
<1>8. CASE \E q \in Calls : CallEnv(q)
  BY <1>3, <1>4, <1>8, <1>t DEF HoldsTx
<1>9. CASE \E q \in Calls : CallStep(q)
  BY <1>4, <1>9
<1> QED  BY <1>5, <1>6, <1>7, <1>8, <1>9 DEF Next

\* A call expires by its own timeout only.
LEMMA ExpiredNext == Consistent /\ ExpiredKinds /\ [Next]_vars => ExpiredKinds'
<1> SUFFICES ASSUME Consistent, ExpiredKinds, [Next]_vars, NEW r \in Calls, stage'[r] = "expired"
             PROVE  call'[r].kind \in {"interrupt", "answer"}
  BY DEF ExpiredKinds
<1>1. CASE HoldsTx(r)
  BY <1>1, StageMoves DEF ExpiredKinds
<1>2. CASE ~ HoldsTx(r)
  <2>1. ~ CallStep(r)
    BY <1>2, StageMoves DEF HoldsTx
  <2> QED  BY <1>2, <2>1, StageMoves DEF HoldsTx
<1> QED  BY <1>1, <1>2

\* A call that has begun has a next step at every moment: no event is of a kind its
\* function cannot take, and no timeout leaves it without its presence check.
THEOREM NoCallStuck == Spec => []NeverStuck
<1>1. Init => ExpiredKinds
  BY DEF Init, ExpiredKinds
<1>2. Spec => []ExpiredKinds
  BY <1>1, ExpiredNext, ConsistentAlways, PTL DEF Spec
<1>3. Consistent /\ Faithful /\ ExpiredKinds => NeverStuck
  <2> SUFFICES ASSUME Consistent, Faithful, ExpiredKinds, NEW r \in Calls, HoldsTx(r)
               PROVE  Ready(r)
    BY DEF NeverStuck
  <2>1. call[r].kind \in AllKinds
    BY ConstantsAssumption DEF Consistent, CallBegun, HoldsTx
  <2>2. inbox[r] # <<>> => Fits(call[r].kind, Head(inbox[r]).what)
    BY FirstEvent
  <2> QED  BY <2>1, <2>2 DEF Ready, HoldsTx, ExpiredKinds, Fits
<1> QED  BY <1>2, <1>3, FaithfulAlways, PTL

\* The guards of a call's steps are all that they wait for.
GuardsSuffice(r) == Ready(r) => ENABLED <<CallStep(r)>>_vars

At(r, s) == stage[r] = s
\* A call of the kinds whose sender is a oneshot.
OneAnswer(r) == call[r].kind # "prompt"

\* One call, from the fairness of its own task.
LEMMA CallLive ==
    ASSUME NEW r \in Calls
    PROVE  Spec /\ CallFair(r) /\ []GuardsSuffice(r) =>
              /\ At(r, "cloned") ~> (At(r, "done") \/ []<><<TakePartial(r)>>_vars)
              /\ (At(r, "cloned") /\ OneAnswer(r)) ~> At(r, "done")
<1>1. Consistent /\ [Next]_vars =>
        /\ At(r, "cloned") => (At(r, "cloned") \/ At(r, "registered") \/ At(r, "done"))'
        /\ At(r, "registered") => (At(r, "registered") \/ At(r, "waiting") \/ At(r, "done"))'
        /\ At(r, "waiting") => (At(r, "waiting") \/ At(r, "expired") \/ At(r, "done"))'
        /\ At(r, "expired") => (At(r, "expired") \/ At(r, "done"))'
  BY StageMoves DEF At
<1>2. Consistent /\ [Next]_vars /\ <<CallStep(r)>>_vars =>
        /\ At(r, "cloned") => ~ At(r, "cloned")'
        /\ At(r, "registered") => ~ At(r, "registered")'
        /\ At(r, "waiting") => ~ At(r, "waiting")' \/ <<TakePartial(r)>>_vars
        /\ At(r, "expired") => ~ At(r, "expired")'
  BY StageMoves DEF At
<1>3. NeverStuck /\ GuardsSuffice(r) =>
        (At(r, "cloned") \/ At(r, "registered") \/ At(r, "waiting") \/ At(r, "expired")
           => ENABLED <<CallStep(r)>>_vars)
  BY DEF NeverStuck, GuardsSuffice, At, HoldsTx
<1>4. Consistent /\ [Next]_vars /\ OneAnswer(r) =>
        (At(r, "cloned") \/ At(r, "registered") \/ At(r, "waiting") => OneAnswer(r)')
  BY StageMoves DEF At, HoldsTx, OneAnswer
<1>5. Consistent /\ Faithful /\ OneAnswer(r) => ~ <<TakePartial(r)>>_vars
  BY FirstEvent DEF OneAnswer, Fits, TakePartial
<1> QED  BY <1>1, <1>2, <1>3, <1>4, <1>5, ConsistentAlways, FaithfulAlways, NoCallStuck, PTL
         DEF Spec, CallFair

\* For any number of calls and connections, under the scheduling the runtime gives:
\* a ping, a query, an interrupt or an answer returns, and so does a prompt, unless
\* its client sends `done: false` replies to it for ever, each within the timeout
\* that starts anew with every event.
THEOREM CallsGoOn ==
    FairSpec /\ (\A r \in Calls : []GuardsSuffice(r)) =>
        \A r \in Calls :
            /\ At(r, "cloned") ~> (At(r, "done") \/ []<><<TakePartial(r)>>_vars)
            /\ (At(r, "cloned") /\ OneAnswer(r)) ~> At(r, "done")
<1> SUFFICES ASSUME FairSpec, \A r \in Calls : []GuardsSuffice(r), NEW r \in Calls
             PROVE  /\ At(r, "cloned") ~> (At(r, "done") \/ []<><<TakePartial(r)>>_vars)
                    /\ (At(r, "cloned") /\ OneAnswer(r)) ~> At(r, "done")
  OBVIOUS
<1>1. Spec /\ CallFair(r) /\ []GuardsSuffice(r)
  BY DEF FairSpec, Fairness
<1> QED  BY <1>1, CallLive, PTL

-----------------------------------------------------------------------------
(* A connection that was superseded or revoked.                                 *)

Untracked(c) == phase[c] = "open" /\ entries[token[c]] # c
Holder(c, r) == HoldsTx(r) /\ via[r] = c
Cloned(c) == \E r \in Calls : Holder(c, r)
In(c, ps) == phase[c] \in ps

\* It is never the tracked one again, no call clones its sender any more, and it
\* leaves the loop only for its exit.
LEMMA UntrackedStep ==
    ASSUME Consistent, [Next]_vars, NEW c \in Conns, Untracked(c)
    PROVE  /\ Untracked(c)' \/ phase'[c] \in {"ambiguous", "certain"}
           /\ \A r \in Calls : Holder(c, r)' => Holder(c, r)
<1>t. Typed /\ token[c] \in Tokens /\ phase[c] = "open" /\ entries[token[c]] # c
  BY DEF Consistent, Authenticated, Untracked
<1>1. ASSUME NEW d \in Conns, ConnExit(d) \/ ConnOut(d) \/ ConnEnv(d)
      PROVE  /\ Untracked(c)' \/ phase'[c] \in {"ambiguous", "certain"}
             /\ UNCHANGED <<stage, via>>
  <2>1. UNCHANGED <<stage, via>>
    BY <1>1 DEF ConnExit, ConnOut, ConnEnv, Deregister, Leave, HelloSent, WriteFrame,
      ChannelClosed, Accept, Refuse, HelloFailed, LoopBroken, PeerClosed, Insert, Pong,
      QueryOk, Ack, Error, Reply, Answers, callVars
  <2>2. CASE \E t \in Tokens : Insert(d, t)
    BY <2>1, <2>2, <1>t DEF Insert, Untracked, Typed
  <2>3. CASE Deregister(d)
    BY <2>1, <2>3, <1>t, ConstantsAssumption DEF Deregister, Closed, Untracked, Typed
  <2>4. CASE Leave(d)
    BY <2>1, <2>4, <1>t DEF Leave, Closed, Untracked, Typed
  <2>5. CASE /\ UNCHANGED <<token, entries>>
             /\ phase' = phase \/ \E e \in Conns, p \in Phases :
                   /\ phase' = [phase EXCEPT ![e] = p]
                   /\ e = c => p \in {"ambiguous", "certain"}
    BY <2>1, <2>5, <1>t DEF Untracked, Typed
  <2>6. \/ \E t \in Tokens : Insert(d, t)
        \/ Deregister(d) \/ Leave(d)
        \/ /\ UNCHANGED <<token, entries>>
           /\ phase' = phase \/ \E e \in Conns, p \in Phases :
                   /\ phase' = [phase EXCEPT ![e] = p]
                   /\ e = c => p \in {"ambiguous", "certain"}
    BY <1>1, <1>t DEF ConnExit, ConnOut, ConnEnv, HelloSent, WriteFrame,
      ChannelClosed, Accept, Refuse, HelloFailed, LoopBroken, PeerClosed, Pong,
      QueryOk, Ack, Error, Reply, Answers, Phases
  <2> QED  BY <2>1, <2>2, <2>3, <2>4, <2>5, <2>6
<1>2. ASSUME NEW t \in Tokens, Revoke(t)
      PROVE  Untracked(c)' /\ UNCHANGED <<stage, via>>
  BY <1>2, <1>t, ConstantsAssumption DEF Revoke, callVars, Untracked, Typed
<1>3. ASSUME NEW q \in Calls, CallEnv(q) \/ CallStep(q)
      PROVE  UNCHANGED <<phase, token, entries>> /\ \A r \in Calls : Holder(c, r)' => Holder(c, r)
  <2>1. CASE Reap(q)
    BY <2>1, <1>t DEF Reap, Holder, HoldsTx, Typed, connVars
  <2>2. ASSUME NEW k, NEW t \in Tokens, NEW s, Begin(q, k, t, s)
        PROVE  UNCHANGED <<phase, token, entries>>
               /\ \A r \in Calls : Holder(c, r)' => Holder(c, r)
    <3>1. entries[t] # c
      BY <1>t, ConstantsAssumption DEF Consistent, TrackedIsLive
    <3> QED  BY <2>2, <3>1, <1>t DEF Begin, Holder, HoldsTx, Typed, connVars
  <2>3. CASE Register(q)
    BY <2>3, <1>t DEF Register, Return, Holder, HoldsTx, Typed, connVars
  <2>4. CASE Send(q)
    BY <2>4, <1>t DEF Send, Return, Holder, HoldsTx, Typed, connVars
  <2>5. CASE TakePartial(q) \/ TakeAck(q)
    BY <2>5, <1>t DEF TakePartial, TakeAck, Holder, HoldsTx, Typed, connVars
  <2>6. CASE TimeOut(q)
    BY <2>6, <1>t DEF TimeOut, Return, Holder, HoldsTx, Typed, connVars
  <2>7. CASE TakeAnswer(q) \/ TakeFinal(q) \/ SenderDropped(q) \/ CheckPresence(q)
    BY <2>7, <1>t DEF TakeAnswer, TakeFinal, SenderDropped, CheckPresence, Return,
       Holder, HoldsTx, Typed, connVars
  <2> QED  BY <1>3, <2>1, <2>2, <2>3, <2>4, <2>5, <2>6, <2>7
           DEF CallEnv, CallStep, Ping, Query, Prompt, Interrupt, Answer
<1>4. CASE UNCHANGED vars
  BY <1>4, <1>t DEF vars, Untracked, Holder, HoldsTx
<1>5. ASSUME UNCHANGED <<stage, via>>
      PROVE  \A r \in Calls : Holder(c, r)' => Holder(c, r)
  BY <1>5 DEF Holder, HoldsTx
<1>6. ASSUME UNCHANGED <<phase, token, entries>> PROVE Untracked(c)'
  BY <1>6, <1>t DEF Untracked
<1>7. CASE \E d \in Conns : ConnExit(d) \/ ConnOut(d) \/ ConnEnv(d)
  BY <1>1, <1>5, <1>7
<1>8. CASE \E t \in Tokens : Revoke(t)
  BY <1>2, <1>5, <1>8
<1>9. CASE \E q \in Calls : CallEnv(q) \/ CallStep(q)
  BY <1>3, <1>6, <1>9
<1> QED  BY <1>4, <1>7, <1>8, <1>9 DEF Next

\* The exit is a way of no return.
LEMMA ExitStep ==
    ASSUME Consistent, [Next]_vars, NEW c \in Conns
    PROVE  /\ phase[c] \in {"ambiguous", "certain"} =>
                  phase'[c] \in {"ambiguous", "certain"} \/ phase'[c] \in {"gone", "closed"}
           /\ phase[c] = "gone" => phase'[c] \in {"gone", "closed"}
           /\ phase[c] \in {"ambiguous", "certain"} /\ ~ ConnExit(c) => phase'[c] = phase[c]
           /\ ConnExit(c) => phase'[c] \in {"gone", "closed"}
           /\ phase[c] = "gone" /\ ConnExit(c) => phase'[c] = "closed"
<1>t. phase \in [Conns -> Phases]
  BY DEF Consistent, Typed
<1>1. ASSUME NEW d \in Conns, ConnExit(d)
      PROVE  /\ phase[d] \in {"ambiguous", "certain", "gone"}
             /\ phase'[d] \in {"gone", "closed"}
             /\ phase[d] = "gone" => phase'[d] = "closed"
             /\ d # c => phase'[c] = phase[c]
  BY <1>1, <1>t DEF ConnExit, Deregister, Leave, Closed
<1>2. ASSUME NEW d \in Conns, ConnOut(d) \/ ConnEnv(d)
      PROVE  phase'[c] = phase[c] \/ phase[c] \in {"closed", "new", "hello", "open"}
  BY <1>2, <1>t DEF ConnOut, ConnEnv, HelloSent, WriteFrame, ChannelClosed, Accept, Refuse,
      HelloFailed, LoopBroken, PeerClosed, Insert, Pong, QueryOk, Ack, Error, Reply, Answers
<1>3. ASSUME NEW t \in Tokens, Revoke(t) PROVE phase' = phase
  BY <1>3 DEF Revoke
<1>4. ASSUME NEW q \in Calls, CallEnv(q) \/ CallStep(q) PROVE phase' = phase
  BY <1>4 DEF CallEnv, CallStep, Ping, Query, Prompt, Interrupt, Answer, Reap, Begin, Register,
      Send, TakePartial, TakeAck, TimeOut, TakeAnswer, TakeFinal, SenderDropped, CheckPresence,
      connVars
<1>5. CASE \E d \in Conns : ConnExit(d)
  BY <1>1, <1>5
<1>6. CASE \E d \in Conns : ConnOut(d) \/ ConnEnv(d)
  BY <1>1, <1>2, <1>6
<1>7. CASE phase' = phase
  BY <1>1, <1>7
<1> QED  BY <1>3, <1>4, <1>5, <1>6, <1>7 DEF Next, vars

\* The guards of a connection task's own steps are all that they wait for.
ConnGuardsSuffice(c) ==
    /\ phase[c] \in {"ambiguous", "certain", "gone"} => ENABLED <<ConnExit(c)>>_vars
    /\ phase[c] = "open" /\ outq[c] # <<>> => ENABLED <<ConnOut(c)>>_vars
    /\ Untracked(c) /\ ~ Cloned(c) => ENABLED <<ConnOut(c)>>_vars

\* One connection, from the fairness of its own task.
LEMMA UntrackedLive ==
    ASSUME NEW c \in Conns
    PROVE  Spec /\ ConnFair(c) /\ []ConnGuardsSuffice(c) =>
              (Untracked(c) ~> (\/ In(c, {"closed"})
                                \/ []<>Cloned(c) \/ []<><<WriteFrame(c)>>_vars))
<1> DEFINE Exit == In(c, {"ambiguous", "certain"})
           Gone == In(c, {"gone"})
           Shut == In(c, {"closed"})
<1>1. Consistent /\ [Next]_vars =>
         /\ Untracked(c) => Untracked(c)' \/ Exit'
         /\ Exit => Exit' \/ Gone' \/ Shut'
         /\ Gone => Gone' \/ Shut'
  BY UntrackedStep, ExitStep DEF In
<1>2. Consistent /\ [Next]_vars /\ <<ConnExit(c)>>_vars =>
         /\ Exit => ~ Exit'
         /\ Gone => Shut'
  BY ExitStep DEF In
<1>3. Consistent /\ [Next]_vars /\ <<ConnOut(c)>>_vars /\ Untracked(c) =>
         Exit' \/ <<WriteFrame(c)>>_vars
  BY DEF Consistent, Typed, ConnOut, HelloSent, ChannelClosed, Untracked, In
<1>4. ConnGuardsSuffice(c) =>
         /\ Exit \/ Gone => ENABLED <<ConnExit(c)>>_vars
         /\ Untracked(c) /\ ~ Cloned(c) => ENABLED <<ConnOut(c)>>_vars
  BY DEF ConnGuardsSuffice, In
<1> HIDE DEF Exit, Gone, Shut
<1>5. Spec /\ ConnFair(c) /\ []ConnGuardsSuffice(c) =>
         (Untracked(c) ~> (Shut \/ []<>Cloned(c) \/ []<><<WriteFrame(c)>>_vars))
  BY <1>1, <1>2, <1>3, <1>4, ConsistentAlways, PTL DEF Spec, ConnFair
<1> QED  BY <1>5, PTL DEF Shut

\* A connection that was superseded or revoked is never tracked again, gets no new
\* call, and leaves its loop only for its exit: the safety half of UntrackedCloses.
THEOREM UntrackedIsFinal ==
    Spec => [][\A c \in Conns : Untracked(c) =>
                  /\ Untracked(c)' \/ phase'[c] \in {"ambiguous", "certain"}
                  /\ \A r \in Calls : Holder(c, r)' => Holder(c, r)]_vars
<1>1. Consistent /\ [Next]_vars =>
         [\A c \in Conns : Untracked(c) =>
             /\ Untracked(c)' \/ phase'[c] \in {"ambiguous", "certain"}
             /\ \A r \in Calls : Holder(c, r)' => Holder(c, r)]_vars
  BY UntrackedStep
<1> QED  BY <1>1, ConsistentAlways, PTL DEF Spec

\* For any number of calls and connections, with a fair scheduler: it closes, unless
\* frames are written on it without end or, again and again, a call that cloned its
\* sender before has not returned.  (CallsGoOn says when such a call returns.)
THEOREM UntrackedGoesOn ==
    FairSpec /\ (\A c \in Conns : []ConnGuardsSuffice(c)) =>
        \A c \in Conns :
            Untracked(c) ~> (\/ In(c, {"closed"})
                             \/ []<>Cloned(c) \/ []<><<WriteFrame(c)>>_vars)
<1> SUFFICES ASSUME FairSpec, \A c \in Conns : []ConnGuardsSuffice(c), NEW c \in Conns
             PROVE  Untracked(c) ~> (\/ In(c, {"closed"})
                                     \/ []<>Cloned(c) \/ []<><<WriteFrame(c)>>_vars)
  OBVIOUS
<1>1. Spec /\ ConnFair(c) /\ []ConnGuardsSuffice(c)
  BY DEF FairSpec, Fairness
<1> QED  BY <1>1, UntrackedLive, PTL
=============================================================================
