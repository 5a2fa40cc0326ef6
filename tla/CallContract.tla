---------------------------- MODULE CallContract ----------------------------
(***************************************************************************)
(* What the five outbound calls of the registry promise their callers,     *)
(* with no connection, entry, channel or lock in sight: a call that began  *)
(* returns one outcome of its kind; an outcome that reports an answer is   *)
(* returned only if the client did answer this very call; and a prompt     *)
(* is reported cancelled only if an interrupt for the same session of the  *)
(* same token was acknowledged while the prompt was outstanding.           *)
(***************************************************************************)
CONSTANTS Tokens, Calls, Sessions, Kinds, None

VARIABLES
    call,    \* call[r]: kind, token and session of call r
    state,   \* state[r]: idle, waiting or done
    heard,   \* the calls their client has answered
    cut,     \* the waiting prompts an acknowledged interrupt has cut short
    result   \* result[r]: the outcome returned

vars == <<call, state, heard, cut, result>>

\* The outcomes of each kind of call: the enums QueryOutcome, PromptOutcome,
\* InterruptOutcome, AnswerOutcome and ConnectionStatus.
Answered(k) ==
    CASE k = "ping" -> {"connected"}
      [] k = "query" -> {"ok", "err"}
      [] k = "prompt" -> {"done", "err"}
      [] k = "interrupt" -> {"acked"}
      [] k = "answer" -> {"acked", "err"}
      [] OTHER -> {}
Unanswered(k) ==
    IF k \in {"interrupt", "answer"} THEN {"timedout", "disconnected"} ELSE {"disconnected"}

NoCall == [kind |-> "none", token |-> None, session |-> None]

Init ==
    /\ call = [r \in Calls |-> NoCall]
    /\ state = [r \in Calls |-> "idle"]
    /\ heard = {}
    /\ cut = {}
    /\ result = [r \in Calls |-> "none"]

\* A call begins, and returns at once when its token has no connection.
Begin(r, info) ==
    /\ state[r] = "idle"
    /\ call' = [call EXCEPT ![r] = info]
    /\ \/ state' = [state EXCEPT ![r] = "waiting"] /\ UNCHANGED result
       \/ /\ state' = [state EXCEPT ![r] = "done"]
          /\ result' = [result EXCEPT ![r] = "disconnected"]
    /\ UNCHANGED <<heard, cut>>

\* The client answers a call it was sent, in time or late.
Hear(r) ==
    /\ state[r] # "idle"
    /\ heard' = heard \cup {r}
    /\ UNCHANGED <<call, state, cut, result>>

Finish(r, o) ==
    /\ state[r] = "waiting"
    /\ \/ o \in Unanswered(call[r].kind)
       \/ o \in Answered(call[r].kind) /\ r \in heard
       \/ o = "cancelled" /\ call[r].kind = "prompt" /\ r \in cut
    /\ state' = [state EXCEPT ![r] = "done"]
    /\ result' = [result EXCEPT ![r] = o]
    /\ UNCHANGED <<call, heard>>

\* An interrupt that returns its acknowledgement may cut waiting prompts of its
\* own token and session short; nothing else may cut a prompt.
Woken(r) ==
    {p \in Calls : /\ state[p] = "waiting" /\ call[p].kind = "prompt"
                   /\ call[p].token = call[r].token
                   /\ call[p].session = call[r].session}
Interrupted(r, woken) ==
    /\ call[r].kind = "interrupt"
    /\ Finish(r, "acked")
    /\ woken \subseteq Woken(r)
    /\ cut' = cut \cup woken

Reset(r) ==
    /\ state[r] = "done"
    /\ call' = [call EXCEPT ![r] = NoCall]
    /\ state' = [state EXCEPT ![r] = "idle"]
    /\ heard' = heard \ {r}
    /\ result' = [result EXCEPT ![r] = "none"]
    /\ UNCHANGED cut

Results == {"connected", "ok", "err", "done", "acked", "cancelled", "timedout", "disconnected"}
Infos == [kind : Kinds, token : Tokens, session : Sessions \cup {None}]

Next ==
    \E r \in Calls :
        \/ \E info \in Infos : Begin(r, info)
        \/ Hear(r)
        \/ \E o \in Results : Finish(r, o) /\ cut' = cut \ {r}
        \/ \E woken \in SUBSET Calls : Interrupted(r, woken)
        \/ Reset(r)

Spec == Init /\ [][Next]_vars
=============================================================================
