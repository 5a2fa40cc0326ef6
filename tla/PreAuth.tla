------------------------------ MODULE PreAuth -------------------------------
(***************************************************************************)
(* A connection before it is authenticated: the accept loop with its cap   *)
(* on unauthenticated connections, the failed-auth lockout by address, and *)
(* handle_connection up to the first frame's verdict.  What the token      *)
(* store answers is a free choice here; the session is one stage.          *)
(* Time is counted in ticks: a failure has an age, a lockout a remainder.  *)
(***************************************************************************)
EXTENDS Integers, Sequences, FiniteSets

CONSTANTS
    Socks,        \* accepted sockets; an identity is reused once closed
    Addrs,        \* peer addresses
    MaxUnauth,    \* max_unauth_connections: permits of unauth_slots
    MaxFailures,  \* MAX_FAILURES
    Window,       \* FAILURE_WINDOW
    Duration,     \* LOCKOUT_DURATION
    None          \* no peer

ASSUME LimitsAssumption ==
    /\ IsFiniteSet(Socks)
    /\ None \notin Addrs
    /\ MaxUnauth \in Nat
    /\ MaxFailures \in Nat \ {0} /\ Window \in Nat \ {0} /\ Duration \in Nat \ {0}

VARIABLES
    accepting,  \* the accept loop has not been shut down
    stage,      \* stage[s]: where handle_connection is with socket s
    peer,       \* peer[s]: the address of s, None when closed
    slots,      \* permits left in unauth_slots
    failures,   \* failures[a]: ages of IpState.failures, oldest first
    locked,     \* locked[a]: ticks until locked_until; 0: it has passed; -1: none
    ignored     \* history: failures of a that record_failure has ignored in this lockout

vars == <<accepting, stage, peer, slots, failures, locked, ignored>>

\* spawned: lockout not checked yet.  handshake: WebSocket upgrade under way.
\* first: waiting for the first frame.  reply: verdict given, last frames being
\* written.  session: authenticated.
Stages == {"closed", "spawned", "handshake", "first", "reply", "session"}

\* The task owns a permit from its spawning to its return, or to a successful auth.
HoldsPermit(s) == stage[s] \notin {"closed", "session"}
Holders == {s \in Socks : HoldsPermit(s)}

\* Past the lockout check and not judged yet.
Undecided(a) == {s \in Socks : peer[s] = a /\ stage[s] \in {"handshake", "first"}}

TypeOK ==
    /\ accepting \in BOOLEAN
    /\ stage \in [Socks -> Stages]
    /\ peer \in [Socks -> Addrs \cup {None}]
    /\ \A s \in Socks : peer[s] = None <=> stage[s] = "closed"
    /\ slots \in 0..MaxUnauth
    /\ failures \in [Addrs -> Seq(0..Window)]
    /\ \A a \in Addrs : Len(failures[a]) < MaxFailures
    /\ locked \in [Addrs -> -1..Duration]
    /\ ignored \in [Addrs -> Nat]

Init ==
    /\ accepting = TRUE
    /\ stage = [s \in Socks |-> "closed"]
    /\ peer = [s \in Socks |-> None]
    /\ slots = MaxUnauth
    /\ failures = [a \in Addrs |-> <<>>]
    /\ locked = [a \in Addrs |-> -1]
    /\ ignored = [a \in Addrs |-> 0]

-----------------------------------------------------------------------------
(* The accept loop *)

\* try_acquire_owned: without a permit the socket is dropped and nothing changes.
Accept(s, a) ==
    /\ accepting /\ stage[s] = "closed" /\ slots > 0
    /\ slots' = slots - 1
    /\ stage' = [stage EXCEPT ![s] = "spawned"]
    /\ peer' = [peer EXCEPT ![s] = a]
    /\ UNCHANGED <<accepting, failures, locked, ignored>>

\* The loop sees the shutdown flag: no more connections; the open ones go on.
Shutdown ==
    /\ accepting
    /\ accepting' = FALSE
    /\ UNCHANGED <<stage, peer, slots, failures, locked, ignored>>

-----------------------------------------------------------------------------
(* handle_connection *)

\* Stage changes that keep the task's permit.
Goto(s, next) ==
    /\ stage' = [stage EXCEPT ![s] = next]
    /\ UNCHANGED <<accepting, peer, slots>>

\* handle_connection returns before the session: the permit is dropped with it.
ReturnEarly(s) ==
    /\ stage' = [stage EXCEPT ![s] = "closed"]
    /\ peer' = [peer EXCEPT ![s] = None]
    /\ slots' = slots + 1
    /\ UNCHANGED accepting

\* is_locked_out is true: the socket is dropped without a word.
Refused(s) ==
    /\ stage[s] = "spawned" /\ locked[peer[s]] > 0
    /\ ReturnEarly(s)
    /\ UNCHANGED <<failures, locked, ignored>>

\* Mutant: the lockout is not looked at.
AdmitAlways(s) ==
    /\ stage[s] = "spawned"
    /\ Goto(s, "handshake")
    /\ UNCHANGED <<failures, locked, ignored>>

\* is_locked_out is false; an expired lockout takes the address's state with it.
Admitted(s) ==
    LET a == peer[s]
    IN  /\ stage[s] = "spawned" /\ locked[a] <= 0
        /\ Goto(s, "handshake")
        /\ failures' = IF locked[a] = 0 THEN [failures EXCEPT ![a] = <<>>] ELSE failures
        /\ locked' = [locked EXCEPT ![a] = -1]
        /\ UNCHANGED ignored

Upgraded(s) ==
    /\ stage[s] = "handshake"
    /\ Goto(s, "first")
    /\ UNCHANGED <<failures, locked, ignored>>

\* The upgrade failed, or the peer left before its first frame.
Lost(s) ==
    /\ stage[s] \in {"handshake", "first"}
    /\ ReturnEarly(s)
    /\ UNCHANGED <<failures, locked, ignored>>

\* Mutant: next_text_frame is awaited without a timeout.
WaitsForever(s) == FALSE /\ stage[s] = "first" /\ UNCHANGED vars

\* pre_auth_timeout elapsed: closed with no reply.
PreAuthTimeout(s) ==
    /\ stage[s] = "first"
    /\ ReturnEarly(s)
    /\ UNCHANGED <<failures, locked, ignored>>

\* The first frame is answered without a lockout entry: it does not decode, is
\* neither auth nor join, its credential is no string, or its join succeeded.
Answered(s) ==
    /\ stage[s] = "first"
    /\ Goto(s, "reply")
    /\ UNCHANGED <<failures, locked, ignored>>

\* Vec::retain: the ages inside the window, in their order.
Retained(ages) ==
    LET kept[i \in 0..Len(ages)] ==
            IF i = 0 THEN <<>>
            ELSE IF ages[i] < Window THEN Append(kept[i - 1], ages[i])
            ELSE kept[i - 1]
    IN  kept[Len(ages)]

\* The failures that still count.
Recent(a) == Retained(failures[a])

\* Mutant: the count is compared before the new failure is pushed.
RecordFailureLate(a) ==
    \/ /\ locked[a] > 0
       /\ ignored' = [ignored EXCEPT ![a] = @ + 1]
       /\ UNCHANGED <<failures, locked>>
    \/ /\ locked[a] <= 0 /\ Len(Recent(a)) < MaxFailures
       /\ failures' = [failures EXCEPT ![a] = Append(Recent(a), 0)]
       /\ UNCHANGED <<locked, ignored>>
    \/ /\ locked[a] <= 0 /\ Len(Recent(a)) >= MaxFailures
       /\ failures' = [failures EXCEPT ![a] = <<>>]
       /\ locked' = [locked EXCEPT ![a] = Duration]
       /\ ignored' = [ignored EXCEPT ![a] = 0]

\* record_failure.
RecordFailure(a) ==
    \/ /\ locked[a] > 0
       /\ ignored' = [ignored EXCEPT ![a] = @ + 1]
       /\ UNCHANGED <<failures, locked>>
    \/ /\ locked[a] <= 0 /\ Len(Recent(a)) + 1 < MaxFailures
       /\ failures' = [failures EXCEPT ![a] = Append(Recent(a), 0)]
       /\ UNCHANGED <<locked, ignored>>
    \/ /\ locked[a] <= 0 /\ Len(Recent(a)) + 1 >= MaxFailures
       /\ failures' = [failures EXCEPT ![a] = <<>>]
       /\ locked' = [locked EXCEPT ![a] = Duration]
       /\ ignored' = [ignored EXCEPT ![a] = 0]

\* verify_credential or redeem returned an error.
Failed(s) ==
    /\ stage[s] = "first"
    /\ Goto(s, "reply")
    /\ RecordFailure(peer[s])

\* The reply is written, or its write fails, and the function returns.
Replied(s) ==
    /\ stage[s] = "reply"
    /\ ReturnEarly(s)
    /\ UNCHANGED <<failures, locked, ignored>>

\* Mutant: the permit lives as long as the session.
AuthKeepsPermit(s) ==
    /\ stage[s] = "first"
    /\ Goto(s, "session")
    /\ UNCHANGED <<failures, locked, ignored>>

\* verify_credential succeeded: drop(permit), then the session.
Authenticated(s) ==
    /\ stage[s] = "first"
    /\ stage' = [stage EXCEPT ![s] = "session"]
    /\ slots' = slots + 1
    /\ UNCHANGED <<accepting, peer, failures, locked, ignored>>

SessionEnds(s) ==
    /\ stage[s] = "session"
    /\ stage' = [stage EXCEPT ![s] = "closed"]
    /\ peer' = [peer EXCEPT ![s] = None]
    /\ UNCHANGED <<accepting, slots, failures, locked, ignored>>

-----------------------------------------------------------------------------
\* One tick: failures age, a lockout runs down.
Tick ==
    /\ failures' = [a \in Addrs |->
           [i \in 1..Len(failures[a]) |->
               IF failures[a][i] < Window THEN failures[a][i] + 1 ELSE Window]]
    /\ locked' = [a \in Addrs |-> IF locked[a] > 0 THEN locked[a] - 1 ELSE locked[a]]
    /\ UNCHANGED <<accepting, stage, peer, slots, ignored>>

Handle(s) ==
    \/ Refused(s) \/ Admitted(s) \/ Upgraded(s) \/ Lost(s) \/ PreAuthTimeout(s)
    \/ Answered(s) \/ Failed(s) \/ Replied(s) \/ Authenticated(s) \/ SessionEnds(s)

Next ==
    \/ \E s \in Socks : Handle(s) \/ \E a \in Addrs : Accept(s, a)
    \/ Shutdown
    \/ Tick

Spec == Init /\ [][Next]_vars

\* A spawned task runs, the pre-auth timer fires and a reply is written or fails.
\* Nothing makes a peer upgrade, send its first frame or end its session.
TaskFair(s) ==
    /\ WF_vars(Refused(s) \/ Admitted(s))
    /\ WF_vars(PreAuthTimeout(s))
    /\ WF_vars(Replied(s))
FairSpec == Spec /\ \A s \in Socks : TaskFair(s)

-----------------------------------------------------------------------------
(* Properties *)

\* The cap counts what it says: a permit is out for each connection that is not
\* past auth or join and for no other, so none is lost on an early return and none
\* is spent on a live session (issue #57).
SlotsConserved == slots + Cardinality(Holders) = MaxUnauth

\* "callers are expected to check is_locked_out before ever attempting auth":
\* attempts that get past the check during a lockout are those already under way
\* when it began, and the cap bounds them: an address gets at most MaxUnauth - 1
\* verdicts more, however its connections interleave.
LateVerdictsBounded ==
    \A a \in Addrs : locked[a] > 0 =>
        ignored[a] + Cardinality(Undecided(a)) <= MaxUnauth - 1

\* Once upgraded, a connection is judged or closed whatever its peer does
\* (pre_auth_timeout).
FirstFrameDecided ==
    \A s \in Socks : stage[s] = "first" ~> stage[s] \in {"closed", "session"}

-----------------------------------------------------------------------------
\* "How long a connection may sit open before its first frame ... arrives before it
\* is closed" (ConnectionLimits::pre_auth_timeout): an accepted connection does not
\* stay unauthenticated for ever.  The upgrade is awaited without a timeout.
PreAuthEnds ==
    \A s \in Socks : stage[s] = "spawned" ~> stage[s] \in {"closed", "session"}

=============================================================================
