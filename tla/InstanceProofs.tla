--------------------------- MODULE InstanceProofs ---------------------------
(***************************************************************************)
(* Theorems about the processes of one state directory, for any number of  *)
(* them: at most one serves, the CLI tells the truth about it, and the     *)
(* advertise file is the server's own.                                     *)
(***************************************************************************)
EXTENDS Instance, TLAPS

\* Report gives every command a result it can print.
LEMMA ReportType ==
    ASSUME NEW kind \in Kinds, NEW outcome \in {"reached", "timed out", "not reachable"}
    PROVE  Report(kind, outcome) \in Results
  BY DEF Report, Kinds, Results

\* `say` prints that the server is unreachable for that outcome alone.
LEMMA ReportSay ==
    ASSUME NEW outcome \in {"reached", "timed out", "not reachable"},
           Report("say", outcome) = "unreachable"
    PROVE  outcome = "not reachable"
  BY DEF Report

-----------------------------------------------------------------------------
(* Types.  A call is never left waiting on a process that has ended.         *)

LEMMA EndsType ==
    ASSUME TypeOK, NEW p \in Procs, Ends(p)
    PROVE  /\ pc' \in [Procs -> Phases]
           /\ call' \in [at : {"idle", "asked", "told"}, to : Procs \cup {None},
                         kind : Kinds \cup {None}, result : Results \cup {None}]
           /\ call'.at = "asked" => call'.kind \in Kinds
           /\ call'.to # None => pc'[call'.to] \in Listens \cup Runs
  BY InstanceAssumption DEF TypeOK, Ends, Goto, Phases

LEMMA TypeStep == TypeOK /\ [Next]_vars => TypeOK'
<1> SUFFICES ASSUME TypeOK, [Next]_vars PROVE TypeOK'
  OBVIOUS
<1> DEFINE CallType == call' \in [at : {"idle", "asked", "told"}, to : Procs \cup {None},
                                  kind : Kinds \cup {None}, result : Results \cup {None}]
           Waits == /\ call'.at = "asked" => call'.kind \in Kinds
                    /\ call'.to # None => pc'[call'.to] \in Listens \cup Runs
<1>1. ASSUME NEW p \in Procs, Process(p), outage' = (outage \/ Nobody')
      PROVE  TypeOK'
  <2>1. CASE Start(p)
    BY <2>1, <1>1, InstanceAssumption DEF Start, TypeOK, Goto, files, history, Phases, Nobody, Listens, Runs
  <2>2. CASE Truncate(p) \/ Persist(p)
    <3>1. advert' \in [is : Contents, address : Addresses \cup {None}]
      <4>1. offer[p] \in Addresses \cup {None}
        BY DEF TypeOK
      <4>2. PICK c \in Contents, a \in Addresses \cup {None} : advert' = [is |-> c, address |-> a]
        BY <2>2, <4>1 DEF Truncate, Persist, Contents
      <4> QED  BY <4>2
    <3>2. mixed' \in BOOLEAN /\ outage' \in BOOLEAN
      BY <2>2, <1>1 DEF Truncate, Persist, TypeOK, Nobody
    <3>3. /\ \E x \in {"write", "checks"} : pc' = [pc EXCEPT ![p] = x]
          /\ pc[p] \notin Listens \cup Runs
          /\ last' = p /\ UNCHANGED <<offer, sock, overlap, call>>
      BY <2>2 DEF Truncate, Persist, Goto, Listens, Runs
    <3> QED  BY <3>1, <3>2, <3>3 DEF TypeOK, Phases
  <2>3. CASE Checks(p)
    <3>1. CASE Goto(p, "exists") /\ UNCHANGED call
      BY <2>3, <3>1, <1>1 DEF Checks, TypeOK, Goto, files, history, Phases, AtSocket, Nobody, Listens, Runs
    <3>2. CASE Ends(p)
      <4>1. pc' \in [Procs -> Phases] /\ CallType /\ Waits
        BY <3>2, EndsType
      <4>2. overlap' \in BOOLEAN /\ outage' \in BOOLEAN
        BY <2>3, <1>1 DEF Checks, TypeOK, Nobody
      <4> QED  BY <4>1, <4>2, <2>3 DEF Checks, TypeOK, files, history
    <3> QED  BY <2>3, <3>1, <3>2 DEF Checks
  <2>4. CASE Exists(p) \/ Stop(p)
    BY <2>4, <1>1, InstanceAssumption DEF Exists, Stop, TypeOK, Goto, files, history, Phases, AtSocket, Nobody, Listens, Runs
  <2>5. CASE Unlink(p) \/ RemoveSocket(p)
    BY <2>5, <1>1, InstanceAssumption DEF Unlink, RemoveSocket, TypeOK, Goto, history, Phases, AtSocket, Nobody, Listens, Runs
  <2>6. CASE Ends(p) /\ UNCHANGED <<offer, files, history, overlap>>
    <3>1. pc' \in [Procs -> Phases] /\ CallType /\ Waits
      BY <2>6, EndsType
    <3>2. outage' \in BOOLEAN
      BY <1>1 DEF TypeOK, Nobody
    <3> QED  BY <3>1, <3>2, <2>6 DEF TypeOK, files, history
  <2>7. CASE Probe(p) \/ Bind(p) \/ Permissions(p) \/ BindTcp(p)
    <3>1. CASE ~ Ends(p)
      BY <2>7, <3>1, <1>1, InstanceAssumption
      DEF Probe, Bind, Permissions, BindTcp, TypeOK, Goto, files, history, Phases, AtSocket, Nobody, Listens, Runs
    <3>2. CASE Ends(p)
      <4>1. pc' \in [Procs -> Phases] /\ CallType /\ Waits
        BY <3>2, EndsType
      <4>2. outage' \in BOOLEAN
        BY <1>1 DEF TypeOK, Nobody
      <4> QED  BY <4>1, <4>2, <2>7 DEF Probe, Bind, Permissions, BindTcp, TypeOK, files, history
    <3> QED  BY <3>1, <3>2
  <2> QED  BY <1>1, <2>1, <2>2, <2>3, <2>4, <2>5, <2>6, <2>7 DEF Process, Exit, Crash
<1>2. ASSUME NEW kind \in Kinds, Connect(kind) PROVE TypeOK'
  <2>1. Report(kind, "not reachable") \in Results
    BY ReportType
  <2>2. CallType /\ Waits
    BY <1>2, <2>1 DEF Connect, Told, Live, TypeOK, Listens
  <2> QED  BY <1>2, <2>2 DEF Connect, TypeOK, files, history, Nobody
<1>3. CASE Answered
  <2>1. call.kind \in Kinds
    BY <1>3 DEF Answered, TypeOK
  <2>2. \A o \in {"reached", "timed out", "not reachable"} : Report(call.kind, o) \in Results
    BY <2>1, ReportType
  <2>3. PICK o \in {"reached", "timed out", "not reachable"} : call' = Told(call.kind, o)
    BY <1>3 DEF Answered
  <2>4. CallType /\ Waits
    BY <2>1, <2>2, <2>3 DEF Told
  <2> QED  BY <1>3, <2>4 DEF Answered, TypeOK, files, history
<1>4. CASE UNCHANGED vars
  BY <1>4 DEF vars, files, history, cli, TypeOK
<1> QED  BY <1>1, <1>2, <1>3, <1>4 DEF Next

\* The variables of every process, file and call keep their types, and the CLI
\* never waits on a process that has ended.
THEOREM TypeCorrect == Spec => []TypeOK
<1>1. Init => TypeOK
  <2> SUFFICES ASSUME Init PROVE TypeOK
    OBVIOUS
  <2>1. call.at = "idle" /\ call.to = None
    BY DEF Init, NoCall
  <2>2. call \in [at : {"idle", "asked", "told"}, to : Procs \cup {None},
                 kind : Kinds \cup {None}, result : Results \cup {None}]
    BY DEF Init, NoCall
  <2>3. call.at # "asked"
    BY <2>1
  <2> QED  BY <2>1, <2>2, <2>3 DEF Init, TypeOK, Phases, Contents
<1> QED  BY <1>1, TypeStep, PTL DEF Spec

-----------------------------------------------------------------------------
(* The socket.  Without an overlap of two starts, one process at a time is   *)
(* between path.exists() and bind, the path is the file of whoever listens,  *)
(* and who has found the file stale is right about it until it unlinks it.   *)

OneAtSocket == \A p, q \in Procs : pc[p] \in AtSocket /\ pc[q] \in AtSocket => p = q
OwnsPath == \A p \in Procs : pc[p] \in Listens => sock = p
StaleStays == \A p, q \in Procs : pc[p] = "unlink" => pc[q] \notin Listens
SockInv == ~ overlap => OneAtSocket /\ OwnsPath /\ StaleStays

\* Ending takes a process out of every phase.
LEMMA EndsSock ==
    ASSUME TypeOK, SockInv, NEW p \in Procs, Ends(p), UNCHANGED <<sock, overlap>>
    PROVE  SockInv'
  BY DEF TypeOK, SockInv, OneAtSocket, OwnsPath, StaleStays, Ends, Goto, AtSocket, Listens

LEMMA SockStep == TypeOK /\ SockInv /\ [Next]_vars => SockInv'
<1> SUFFICES ASSUME TypeOK, SockInv, [Next]_vars PROVE SockInv'
  OBVIOUS
<1> USE DEF SockInv, OneAtSocket, OwnsPath, StaleStays
<1>1. ASSUME NEW p \in Procs, Process(p) PROVE SockInv'
  <2>1. CASE Start(p) \/ Truncate(p) \/ Persist(p) \/ Exists(p) \/ Stop(p)
    <3>1. UNCHANGED <<sock, overlap>>
      BY <2>1 DEF Start, Truncate, Persist, Exists, Stop, files
    <3>2. CASE Start(p) \/ Truncate(p) \/ Persist(p)
      <4>1. PICK x \in {"truncate", "write", "checks"} : pc' = [pc EXCEPT ![p] = x]
        BY <3>2 DEF Start, Truncate, Persist, Goto
      <4> QED  BY <3>1, <4>1 DEF TypeOK, AtSocket, Listens
    <3>3. CASE Exists(p) \/ Stop(p)
      BY <3>1, <3>3 DEF Exists, Stop, Goto, TypeOK, AtSocket, Listens
    <3> QED  BY <2>1, <3>2, <3>3
  <2>2. CASE Checks(p)
    <3>1. CASE Ends(p) /\ overlap' = overlap
      BY <2>2, <3>1, EndsSock DEF Checks, files
    <3>2. CASE Ends(p) /\ overlap' # overlap
      BY <2>2, <3>2 DEF Checks, Ends, Goto, TypeOK
    <3>3. CASE Goto(p, "exists")
      BY <2>2, <3>3 DEF Checks, TypeOK, Goto, files, AtSocket, Listens
    <3> QED  BY <2>2, <3>1, <3>2, <3>3 DEF Checks
  <2>3. CASE Ends(p) /\ UNCHANGED <<sock, overlap>>
    BY <2>3, EndsSock
  <2>4. CASE Probe(p) /\ ~ Live
    <3>1. ~ overlap => \A q \in Procs : pc[q] \notin Listens
      BY <2>4, InstanceAssumption DEF Live
    <3>2. /\ pc' = [pc EXCEPT ![p] = "unlink"] /\ UNCHANGED <<sock, overlap>>
          /\ p \in Procs /\ pc[p] \in AtSocket
      BY <2>4 DEF Probe, Goto, files, AtSocket
    <3> QED  BY <3>1, <3>2 DEF TypeOK, AtSocket, Listens
  <2>5. CASE Unlink(p)
    BY <2>5 DEF Unlink, TypeOK, Goto, AtSocket, Listens
  <2>6. CASE Bind(p) /\ sock = None
    BY <2>6, InstanceAssumption DEF Bind, TypeOK, Goto, AtSocket, Listens
  <2>7. CASE (Permissions(p) \/ BindTcp(p)) /\ ~ Ends(p)
    BY <2>7 DEF Permissions, BindTcp, TypeOK, Goto, files, AtSocket, Listens
  <2>8. CASE RemoveSocket(p)
    BY <2>8 DEF RemoveSocket, TypeOK, Goto, AtSocket, Listens
  <2> QED
    BY <1>1, <2>1, <2>2, <2>3, <2>4, <2>5, <2>6, <2>7, <2>8
    DEF Process, Exit, Crash, Probe, Bind, Permissions, BindTcp, files
<1>2. CASE Answered \/ (\E kind \in Kinds : Connect(kind))
  BY <1>2 DEF Answered, Connect, files, history
<1>3. CASE UNCHANGED vars
  BY <1>3 DEF vars, files, history
<1> QED  BY <1>1, <1>2, <1>3 DEF Next

LEMMA SockInvariant == Spec => []SockInv
<1>1. Init => SockInv
  BY DEF Init, SockInv, OneAtSocket, OwnsPath, StaleStays, AtSocket, Listens
<1> QED  BY <1>1, TypeCorrect, SockStep, PTL DEF Spec

\* As long as no two starts overlap at the socket, whoever serves owns the file at
\* the control path, so no second process serves beside it.
THEOREM OneServes == Spec => []SoleServer
<1>1. SockInv => SoleServer
  BY DEF SockInv, OwnsPath, SoleServer, Listens
<1> QED  BY <1>1, SockInvariant, PTL

-----------------------------------------------------------------------------
(* The CLI call.  A call that was cut, or waits on a process that does not   *)
(* serve, has seen an outage.                                                *)

CallInv ==
    ~ overlap /\ call.at = "asked" /\ (call.to = None \/ pc[call.to] # "serving") => outage

\* What the step of a process leaves alone.
LEMMA ProcessFrame ==
    ASSUME TypeOK, NEW p \in Procs, Process(p)
    PROVE  /\ \A q \in Procs \ {p} : pc'[q] = pc[q]
           /\ call' = call \/ (call.to = p /\ pc'[p] = "off" /\ call' = [call EXCEPT !.to = None])
           /\ overlap => overlap'
<1>1. Ends(p) \/ (call' = call /\ \E x : Goto(p, x))
  BY DEF Process, Start, Truncate, Persist, Checks, Exists, Probe, Unlink, Bind, Permissions,
         BindTcp, Stop, RemoveSocket, Exit, Crash
<1>2. overlap => overlap'
  BY DEF Process, Start, Truncate, Persist, Checks, Exists, Probe, Unlink, Bind, Permissions,
         BindTcp, Stop, RemoveSocket, Exit, Crash
<1>3. CASE Ends(p)
  BY <1>2, <1>3 DEF Ends, Goto, TypeOK
<1>4. CASE call' = call /\ \E x : Goto(p, x)
  BY <1>2, <1>4 DEF Goto, TypeOK
<1> QED  BY <1>1, <1>3, <1>4

LEMMA CallStep ==
    TypeOK /\ SockInv /\ SockInv' /\ CallInv /\ UnreachableIsTrue /\ [Next]_vars
        => CallInv' /\ UnreachableIsTrue'
<1> SUFFICES ASSUME TypeOK, SockInv, SockInv', CallInv, UnreachableIsTrue, [Next]_vars
             PROVE  CallInv' /\ UnreachableIsTrue'
  OBVIOUS
<1> USE DEF CallInv, UnreachableIsTrue
<1>1. ASSUME NEW p \in Procs, Process(p), outage' = (outage \/ Nobody')
      PROVE  CallInv' /\ UnreachableIsTrue'
  <2>1. /\ \A q \in Procs \ {p} : pc'[q] = pc[q]
        /\ call' = call \/ (call.to = p /\ pc'[p] = "off" /\ call' = [call EXCEPT !.to = None])
        /\ overlap => overlap'
    BY <1>1, ProcessFrame
  <2>2. call'.at = call.at /\ call'.kind = call.kind /\ call'.result = call.result
    BY <2>1 DEF TypeOK
  <2>3. UnreachableIsTrue'
    BY <2>1, <2>2, <1>1
  <2>4. ASSUME ~ overlap', call'.at = "asked", call'.to = None \/ pc'[call'.to] # "serving"
        PROVE  outage'
    <3>1. CASE call.to = None \/ pc[call.to] # "serving"
      BY <3>1, <2>1, <2>2, <2>4, <1>1
    <3>2. CASE call.to # None /\ pc[call.to] = "serving"
      <4>1. call.to = p /\ pc'[p] # "serving"
        BY <3>2, <2>1, <2>4 DEF TypeOK
      <4>2. ASSUME NEW r \in Procs, pc'[r] = "serving" PROVE FALSE
        BY <4>1, <4>2, <3>2, <2>1, <2>4 DEF SockInv, OwnsPath, Listens
      <4> QED  BY <4>2, <1>1 DEF Nobody
    <3> QED  BY <3>1, <3>2
  <2> QED  BY <2>3, <2>4
<1>2. ASSUME NEW kind \in Kinds, Connect(kind) PROVE CallInv' /\ UnreachableIsTrue'
  <2>1. ~ overlap /\ ~ Nobody => /\ sock \in Procs /\ pc[sock] = "serving"
    BY DEF SockInv, OwnsPath, Nobody, Listens
  <2>2. Nobody => outage'
    BY <1>2 DEF Connect
  <2>3. CASE ~ overlap /\ ~ Nobody
    <3>1. call'.at = "asked" /\ call'.to = sock /\ call'.result = None /\ pc' = pc
      BY <1>2, <2>1, <2>3, InstanceAssumption DEF Connect, Live, Listens
    <3>2. call'.at # "told"
      BY <3>1
    <3> QED  BY <3>1, <3>2, <2>1, <2>3, InstanceAssumption
  <2> QED  BY <1>2, <2>2, <2>3 DEF Connect
<1>3. CASE Answered
  <2>1. ASSUME NEW o \in {"reached", "timed out"}, call.kind = "say"
        PROVE  Report(call.kind, o) # "unreachable"
    BY <2>1, ReportSay
  <2>2. CASE call.to = None
    <3>1. ~ overlap => outage
      BY <1>3, <2>2 DEF Answered
    <3> QED  BY <1>3, <3>1 DEF Answered
  <2>3. CASE call.to # None
    <3>1. PICK o \in {"reached", "timed out"} : call' = Told(call.kind, o)
      BY <1>3, <2>3 DEF Answered
    <3>2. /\ call'.at = "told" /\ call'.kind = call.kind
          /\ call'.result = Report(call.kind, o)
      BY <3>1 DEF Told
    <3>3. ~ (call'.kind = "say" /\ call'.result = "unreachable")
      BY <3>2, <2>1
    <3>4. call'.at # "asked"
      BY <3>2
    <3> QED  BY <3>3, <3>4
  <2> QED  BY <2>2, <2>3
<1>4. CASE UNCHANGED vars
  BY <1>4 DEF vars, cli
<1> QED  BY <1>1, <1>2, <1>3, <1>4 DEF Next

\* `say`, `interrupt` and `answer` report no reachable server only when none was
\* serving at some time during the call.
THEOREM UnreachableWasDown == Spec => []UnreachableIsTrue
<1>1. Init => CallInv /\ UnreachableIsTrue
  BY DEF Init, CallInv, UnreachableIsTrue
<1> QED  BY <1>1, CallStep, TypeCorrect, SockInvariant, PTL DEF Spec

-----------------------------------------------------------------------------
(* The advertise file: from its write on, it is what the start that wrote it *)
(* last has to offer, or torn by starts whose writes crossed.  Writes can    *)
(* cross only while `mixed`: without it, the file a start is about to write  *)
(* is still empty, and no other start is about to write it.                  *)

SoleWriter ==
    ~ mixed => \A p \in Procs : pc[p] = "write" =>
        /\ advert.is = "empty"
        /\ \A q \in Procs : pc[q] = "write" => q = p
WriterLast ==
    \A p \in Procs : last = p /\ pc[p] \notin {"off", "truncate", "write"} =>
        \/ advert = [is |-> "record", address |-> offer[p]]
        \/ mixed /\ advert.is = "torn"
AdvertInv == SoleWriter /\ WriterLast

LEMMA AdvertStep == TypeOK /\ AdvertInv /\ [Next]_vars => AdvertInv'
<1> SUFFICES ASSUME TypeOK, AdvertInv, [Next]_vars PROVE AdvertInv'
  OBVIOUS
<1> USE DEF AdvertInv, SoleWriter, WriterLast
<1>1. ASSUME NEW p \in Procs, Process(p) PROVE AdvertInv'
  <2>1. CASE Start(p)
    BY <2>1 DEF Start, Goto, files, history, TypeOK
  <2>2. CASE Truncate(p)
    BY <2>2 DEF Truncate, Goto, TypeOK
  <2>3. CASE Persist(p)
    BY <2>3 DEF Persist, Goto, TypeOK
  <2>4. CASE /\ UNCHANGED <<offer, advert, history>>
             /\ pc[p] \notin {"off", "truncate", "write"} /\ pc'[p] # "write"
    BY <2>4, <1>1, ProcessFrame DEF history
  <2>5. CASE Ends(p) /\ UNCHANGED <<offer, advert, history>>
    BY <2>5 DEF Ends, Goto, TypeOK, history
  <2> QED
    BY <1>1, <2>1, <2>2, <2>3, <2>4, <2>5
    DEF Goto, TypeOK, Process, Checks, Exists, Probe, Unlink, Bind, Permissions, BindTcp, Stop, RemoveSocket,
        Exit, Crash, files
<1>2. CASE Answered \/ (\E kind \in Kinds : Connect(kind))
  <2>1. UNCHANGED <<pc, offer, advert, last, mixed>>
    BY <1>2 DEF Answered, Connect, files, history
  <2> QED  BY <2>1
<1>3. CASE UNCHANGED vars
  BY <1>3 DEF vars, files, history
<1> QED  BY <1>1, <1>2, <1>3 DEF Next

\* A server that accepts connections and touched the advertise file last is what
\* `token mint` reads, and the unlocked writes of starts that crossed can at worst
\* make the file unreadable: mint never reads another start's address.
THEOREM MintAdvertises == Spec => []MintSeesServe
<1>1. Init => AdvertInv
  BY InstanceAssumption DEF Init, AdvertInv, SoleWriter, WriterLast
<1>2. AdvertInv => MintSeesServe
  BY DEF AdvertInv, WriterLast, MintSeesServe, AdvertiseState
<1> QED  BY <1>1, <1>2, AdvertStep, TypeCorrect, PTL DEF Spec
=============================================================================
