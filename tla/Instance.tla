------------------------------ MODULE Instance ------------------------------
(***************************************************************************)
(* The processes that share one state directory: `holler-server serve`     *)
(* starting, serving, stopping and crashing, and one CLI call that reaches *)
(* it over the control socket.  They meet in two files: the control        *)
(* socket's, which exists or not and whose owner listens or not, and the   *)
(* advertise file, which `token mint` reads.                               *)
(***************************************************************************)
CONSTANTS
    Procs,      \* serve processes
    Addresses,  \* addresses a peer can reach
    None

ASSUME InstanceAssumption == None \notin Procs \cup Addresses

VARIABLES
    pc,         \* pc[p]: how far the process is
    offer,      \* offer[p]: the address resolve_advertise found, or None
    sock,       \* the process that bound the socket file at the path, or None
    advert,     \* the advertise file: its content, and the address of a record
    last,       \* history: the process that wrote or truncated it last
    mixed,      \* history: when it was last truncated, another start was about to write it
    overlap,    \* history: two starts were at the socket at once
    call,       \* the CLI call
    outage      \* history: nobody served at some time since the call began

files == <<sock, advert>>
history == <<last, mixed>>
cli == <<call, outage>>
vars == <<pc, offer, files, history, overlap, cli>>

-----------------------------------------------------------------------------
\* From path.exists() to bind; with a bound listener (the listener of a process
\* that stops is dropped after its file is removed); running connection tasks.
AtSocket == {"exists", "probe", "unlink", "bind"}
Listens == {"permissions", "tcp", "serving", "stopping"}
Runs == {"serving", "stopping", "removed"}
Phases == {"off", "truncate", "write", "checks"} \cup AtSocket \cup Listens \cup Runs

\* "record" is one AdvertiseRecord, "torn" one followed by the tail of a longer one.
Contents == {"missing", "empty", "record", "torn"}

Kinds == {"query", "targeted", "roster", "ping", "revoke", "say"}
Results == {"answer", "local", "empty", "disconnected", "done", "timed out", "unreachable"}
NoCall == [at |-> "idle", to |-> None, kind |-> None, result |-> None]

TypeOK ==
    /\ pc \in [Procs -> Phases]
    /\ offer \in [Procs -> Addresses \cup {None}]
    /\ sock \in Procs \cup {None}
    /\ advert \in [is : Contents, address : Addresses \cup {None}]
    /\ last \in Procs \cup {None}
    /\ mixed \in BOOLEAN /\ overlap \in BOOLEAN /\ outage \in BOOLEAN
    /\ call \in [at : {"idle", "asked", "told"}, to : Procs \cup {None},
                 kind : Kinds \cup {None}, result : Results \cup {None}]
    /\ call.at = "asked" => call.kind \in Kinds
    \* a call waits on a process that listens or still runs its tasks
    /\ call.to # None => pc[call.to] \in Listens \cup Runs

Init ==
    /\ pc = [p \in Procs |-> "off"]
    /\ offer = [p \in Procs |-> None]
    /\ sock = None /\ advert = [is |-> "missing", address |-> None]
    /\ last = None /\ mixed = FALSE /\ overlap = FALSE
    /\ call = NoCall /\ outage = TRUE

\* control_socket_is_live: connect succeeds when the file's owner listens.
Live == IF sock = None THEN FALSE ELSE pc[sock] \in Listens

Goto(p, phase) == pc' = [pc EXCEPT ![p] = phase]

\* Mutant: the CLI goes on waiting for the process that ended.
EndsUncut(p) == Goto(p, "off") /\ UNCHANGED call

\* The process ends: its sockets close, and the call it had not answered is cut.
Ends(p) ==
    /\ Goto(p, "off")
    /\ call' = IF call.to = p THEN [call EXCEPT !.to = None] ELSE call

-----------------------------------------------------------------------------
(* run_serve *)

\* resolve_advertise: --advertise, or the first listen address that is neither
\* loopback nor unspecified, or nothing.
Start(p) ==
    /\ pc[p] = "off"
    /\ Goto(p, "truncate")
    /\ \E a \in Addresses \cup {None} : offer' = [offer EXCEPT ![p] = a]
    /\ UNCHANGED <<files, history, overlap, call>>

\* advertise::persist is one fs::write, with no lock: an open that truncates ...
Truncate(p) ==
    /\ pc[p] = "truncate"
    /\ Goto(p, "write")
    /\ advert' = [is |-> "empty", address |-> None]
    /\ last' = p
    /\ mixed' = (\E q \in Procs \ {p} : pc[q] = "write")
    /\ UNCHANGED <<offer, sock, overlap, call>>

\* Mutant: a start without an address leaves the file alone.
PersistIfReachable(p) ==
    /\ pc[p] = "write"
    /\ Goto(p, "checks")
    /\ advert' = IF offer[p] # None THEN [is |-> "record", address |-> offer[p]] ELSE advert
    /\ last' = p
    /\ UNCHANGED <<offer, sock, mixed, overlap, call>>

\* ... and a write at offset 0.  What another start has written since the truncation
\* is overwritten as far as this record goes: the tail of a longer one stays.
Persist(p) ==
    /\ pc[p] = "write"
    /\ Goto(p, "checks")
    /\ \/ advert' = [is |-> "record", address |-> offer[p]]
       \/ advert.is \in {"record", "torn"} /\ advert' = [is |-> "torn", address |-> None]
    /\ last' = p
    /\ UNCHANGED <<offer, sock, mixed, overlap, call>>

\* wire::serve: a listen address that is not loopback fails it, before the socket.
Checks(p) ==
    /\ pc[p] = "checks"
    /\ \/ Goto(p, "exists") /\ UNCHANGED call
       \/ Ends(p)
    /\ overlap' = (overlap \/ (pc'[p] = "exists" /\ \E q \in Procs : pc[q] \in AtSocket))
    /\ UNCHANGED <<offer, files, history>>

\* bind_control_socket: path.exists(), the probe, remove_file, bind, set_permissions.
Exists(p) ==
    /\ pc[p] = "exists"
    /\ Goto(p, IF sock = None THEN "bind" ELSE "probe")
    /\ UNCHANGED <<offer, files, history, overlap, call>>

\* Mutant: a file that exists is taken for stale.
AssumeStale(p) ==
    /\ pc[p] = "probe"
    /\ Goto(p, "unlink") /\ UNCHANGED call
    /\ UNCHANGED <<offer, files, history, overlap>>

Probe(p) ==
    /\ pc[p] = "probe"
    /\ IF Live THEN Ends(p)                          \* AlreadyRunning
       ELSE Goto(p, "unlink") /\ UNCHANGED call
    /\ UNCHANGED <<offer, files, history, overlap>>

\* remove_file takes whatever file is at the path now; its error is ignored.
Unlink(p) ==
    /\ pc[p] = "unlink"
    /\ Goto(p, "bind")
    /\ sock' = None
    /\ UNCHANGED <<offer, advert, history, overlap, call>>

\* bind fails when there is a file at the path.
Bind(p) ==
    /\ pc[p] = "bind"
    /\ IF sock = None THEN sock' = p /\ Goto(p, "permissions") /\ UNCHANGED call
       ELSE Ends(p) /\ UNCHANGED sock
    /\ UNCHANGED <<offer, advert, history, overlap>>

\* set_permissions goes by path too.
Permissions(p) ==
    /\ pc[p] = "permissions"
    /\ IF sock = None THEN Ends(p) ELSE Goto(p, "tcp") /\ UNCHANGED call
    /\ UNCHANGED <<offer, files, history, overlap>>

\* The TCP listeners: a failure returns, and leaves the socket file behind.
BindTcp(p) ==
    /\ pc[p] = "tcp"
    /\ Ends(p) \/ (Goto(p, "serving") /\ UNCHANGED call)
    /\ UNCHANGED <<offer, files, history, overlap>>

-----------------------------------------------------------------------------
(* Ctrl-C, ServerHandle::shutdown *)

Stop(p) ==
    /\ pc[p] = "serving"
    /\ Goto(p, "stopping")
    /\ UNCHANGED <<offer, files, history, overlap, call>>

\* serve_control_socket leaves its loop: remove_file, whosever file it is.
RemoveSocket(p) ==
    /\ pc[p] = "stopping"
    /\ Goto(p, "removed")
    /\ sock' = None
    /\ UNCHANGED <<offer, advert, history, overlap, call>>

\* Every task awaited; the runtime is dropped with the tasks it still has.
Exit(p) ==
    /\ pc[p] = "removed"
    /\ Ends(p)
    /\ UNCHANGED <<offer, files, history, overlap>>

\* A crash leaves the files as they are.
Crash(p) ==
    /\ pc[p] # "off"
    /\ Ends(p)
    /\ UNCHANGED <<offer, files, history, overlap>>

-----------------------------------------------------------------------------
(* The CLI: run_client_query_with_timeout, and what each command makes of it.  *)

\* Mutant: `say` too takes a timeout for no server (as before issue #206).
CollapseTimeout(kind, outcome) ==
    CASE outcome = "reached"                  -> "answer"
      [] kind = "say" \/ kind = "targeted"    -> "unreachable"
      [] kind = "query"                       -> "local"
      [] kind = "roster"                      -> "empty"
      [] kind = "ping"                        -> "disconnected"
      [] kind = "revoke"                      -> "done"

\* run_client_query makes one None of NotReachable and TimedOut; `say`, `interrupt`
\* and `answer` keep them apart.  An untargeted query falls back on the local
\* view, a targeted one fails; a roster is empty; a delete is done anyway.
Report(kind, outcome) ==
    CASE outcome = "reached"                       -> "answer"
      [] kind = "say" /\ outcome = "timed out"     -> "timed out"
      [] kind = "say" /\ outcome = "not reachable" -> "unreachable"
      [] kind = "targeted"                         -> "unreachable"
      [] kind = "query"                            -> "local"
      [] kind = "roster"                           -> "empty"
      [] kind = "ping"                             -> "disconnected"
      [] kind = "revoke"                           -> "done"

Told(kind, outcome) ==
    [at |-> "told", to |-> None, kind |-> kind, result |-> Report(kind, outcome)]

Nobody == \A p \in Procs : pc[p] # "serving"

Connect(kind) ==
    /\ call.at # "asked"
    /\ call' = IF Live THEN [at |-> "asked", to |-> sock, kind |-> kind, result |-> None]
               ELSE Told(kind, "not reachable")
    /\ outage' = Nobody
    /\ UNCHANGED <<pc, offer, files, history, overlap>>

\* The answer arrives; the connection is cut without one; or read_timeout elapses.
Answered ==
    /\ call.at = "asked"
    /\ \/ call.to # None /\ pc[call.to] \in Runs /\ call' = Told(call.kind, "reached")
       \/ call.to = None /\ call' = Told(call.kind, "not reachable")
       \/ call.to # None /\ call' = Told(call.kind, "timed out")
    /\ UNCHANGED <<pc, offer, files, history, overlap, outage>>

-----------------------------------------------------------------------------
Process(p) ==
    \/ Start(p) \/ Truncate(p) \/ Persist(p) \/ Checks(p)
    \/ Exists(p) \/ Probe(p) \/ Unlink(p) \/ Bind(p) \/ Permissions(p) \/ BindTcp(p)
    \/ Stop(p) \/ RemoveSocket(p) \/ Exit(p) \/ Crash(p)

Next ==
    \/ \E p \in Procs : Process(p) /\ outage' = (outage \/ Nobody')
    \/ \E kind \in Kinds : Connect(kind)
    \/ Answered

Spec == Init /\ [][Next]_vars

-----------------------------------------------------------------------------
(* Properties *)

\* Starts, stops and crashes in any order, as long as no two starts are between
\* path.exists() and bind at once: a process that serves owns the socket file at
\* the path, so that the CLI reaches it and no second process serves beside it.
SoleServer ==
    ~ overlap => \A p \in Procs : pc[p] = "serving" => sock = p

\* `say`, `interrupt` and `answer` report that no server is reachable only when
\* at some time during the call none was serving: never because the server is slow.
UnreachableIsTrue ==
    ~ overlap /\ call.at = "told" /\ call.kind = "say" /\ call.result = "unreachable" => outage

\* advertise::read: what is missing, empty or does not parse is Unknown.
AdvertiseState ==
    CASE advert.is # "record"                              -> [is |-> "Unknown", address |-> None]
      [] advert.is = "record" /\ advert.address = None     -> [is |-> "LoopbackOnly", address |-> None]
      [] advert.is = "record" /\ advert.address # None     -> [is |-> "Reachable", address |-> advert.address]

\* A server that accepts connections and touched the advertise file last is what
\* `token mint` reads: its own address, or that it is loopback-only, whatever an
\* earlier start wrote and whoever crashed in between.  Only starts whose unlocked
\* writes crossed may leave it unreadable, and then mint takes it for unknown:
\* never for the address of another start.
MintSeesServe ==
    \A p \in Procs : pc[p] = "serving" /\ last = p =>
        \/ AdvertiseState = [is |-> IF offer[p] = None THEN "LoopbackOnly" ELSE "Reachable",
                             address |-> offer[p]]
        \/ mixed /\ AdvertiseState.is = "Unknown"

-----------------------------------------------------------------------------
(* A statement of the comments that the code does not keep. *)

\* wire::serve: the socket is probed "before doing anything else observable (binding
\* a TCP port, writing the advertise file)": a start that is refused because a
\* server runs has not written the file of that server.
RefusedIsClean ==
    [][\A p \in Procs : Probe(p) /\ Live => last # p]_vars

=============================================================================
