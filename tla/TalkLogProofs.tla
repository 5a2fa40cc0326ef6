--------------------------- MODULE TalkLogProofs ---------------------------
(***************************************************************************)
(* Theorems about the talk log, for any processes, tasks, session names,   *)
(* ids and any way names are made into file names.                         *)
(***************************************************************************)
EXTENDS TalkLog, TLAPS

TaskType ==
    [at : {"idle", "waiting", "locked", "loaded", "truncated"},
     proc : Procs \cup {None}, op : {"prompt", "reply", "read"},
     id : Ids \cup {None}, session : Sessions \cup {None}, entries : Content]

LEMMA IdleType == Idle \in TaskType
  BY TalkLogAssumption DEF Idle, TaskType, Content, NoEntries

LEMMA NoEntriesType == NoEntries \in Content
  BY TalkLogAssumption DEF Content, NoEntries

\* A change keeps the entries in bounds, loses none and makes one only for a prompt.
LEMMA ChangedGrows ==
    ASSUME NEW e \in Content, NEW op \in {"prompt", "reply", "read"}, NEW i \in Ids
    PROVE  /\ Changed(e, op, i) \in Content
           /\ op # "prompt" => \A j \in Ids : Changed(e, op, i)[j] > 0 => e[j] > 0
           /\ \A j \in Ids \ {i} : Changed(e, op, i)[j] = e[j]
           /\ op # "prompt" => \A j \in Ids : Changed(e, op, i)[j] >= e[j]
  BY TalkLogAssumption DEF Changed, Content

\* The file of a task that is not idle is a file.
LEMMA PathType ==
    ASSUME TypeOK, NEW k \in Tasks, task[k].at # "idle"
    PROVE  path_for(k) \in Files /\ file[path_for(k)] \in Content
  BY TalkLogAssumption DEF TypeOK, path_for

\* A load ends the operation, or leaves it with what it is about to save.
LEMMA LoadCases ==
    ASSUME TypeOK, NEW k \in Tasks, Load(k)
    PROVE  \E e \in {file[path_for(k)], NoEntries} :
              \/ Return(k) /\ logged' = logged
              \/ /\ task' = [task EXCEPT ![k] = [@ EXCEPT !.at = "loaded",
                               !.entries = Changed(e, task[k].op, task[k].id)]]
                 /\ lock' = lock
                 /\ logged' = IF e = file[path_for(k)] THEN logged
                              ELSE [logged EXCEPT ![path_for(k)] = NoEntries]
  BY DEF Load, Loaded

LEMMA TypeStep == TypeOK /\ [Next]_vars => TypeOK'
<1> SUFFICES ASSUME TypeOK, [Next]_vars PROVE TypeOK'
  OBVIOUS
<1>0. task \in [Tasks -> TaskType]
  BY DEF TypeOK, TaskType
<1>1. ASSUME NEW p \in Procs, Start(p) PROVE TypeOK'
  BY <1>1 DEF Start, TypeOK
<1>2. ASSUME NEW p \in Procs, Die(p) PROVE TypeOK'
  <2>1. task' \in [Tasks -> TaskType]
    BY <1>2, <1>0, IdleType DEF Die
  <2>2. logged' \in [Files -> Content]
    BY <1>2, NoEntriesType DEF Die, TypeOK
  <2>3. \A k \in Tasks : task'[k].at # "idle" =>
           task'[k].proc \in up' /\ task'[k].id \in Ids /\ task'[k].session \in Sessions
    BY <1>2 DEF Die, TypeOK, Idle
  <2> QED  BY <1>2, <2>1, <2>2, <2>3 DEF Die, TypeOK, TaskType
<1>3. ASSUME NEW k \in Tasks, NEW p \in Procs, NEW i \in Ids, NEW s \in Sessions,
             NEW op \in {"prompt", "reply", "read"}, Begin(k, p, op, i, s)
      PROVE  TypeOK'
  <2>1. task' \in [Tasks -> TaskType]
    BY <1>3, <1>0, NoEntriesType DEF Begin, TaskType
  <2> QED  BY <1>3, <2>1 DEF Begin, TypeOK, TaskType
<1>4. ASSUME NEW k \in Tasks, Lock(k) PROVE TypeOK'
  <2>1. task' \in [Tasks -> TaskType]
    BY <1>4, <1>0 DEF Lock, TaskType
  <2> QED  BY <1>4, <2>1 DEF Lock, TypeOK, TaskType
<1>5. ASSUME NEW k \in Tasks, Return(k)
      PROVE  /\ task' \in [Tasks -> TaskType]
             /\ lock' \in [Procs -> Tasks \cup {None}]
             /\ \A j \in Tasks : task'[j].at # "idle" =>
                   task'[j].proc \in up /\ task'[j].id \in Ids /\ task'[j].session \in Sessions
             /\ \A p \in Procs : p \notin up => lock'[p] = None
  BY <1>5, <1>0, IdleType DEF Return, TypeOK, Idle
<1>6. ASSUME NEW k \in Tasks, Load(k) PROVE TypeOK'
  <2>1. CASE Return(k) /\ logged' = logged
    BY <1>5, <1>6, <2>1 DEF Load, TypeOK, TaskType
  <2>2. ASSUME NEW e \in {file[path_for(k)], NoEntries}, lock' = lock,
               task' = [task EXCEPT ![k] = [@ EXCEPT !.at = "loaded",
                            !.entries = Changed(e, task[k].op, task[k].id)]],
               logged' = IF e = file[path_for(k)] THEN logged
                         ELSE [logged EXCEPT ![path_for(k)] = NoEntries]
        PROVE  TypeOK'
    <3> DEFINE new == Changed(e, task[k].op, task[k].id)
    <3>1. new \in Content
      <4>1. task[k].at # "idle"
        BY <1>6 DEF Load
      <4>2. task[k].op \in {"prompt", "reply", "read"} /\ task[k].id \in Ids
        BY <4>1 DEF TypeOK
      <4> QED  BY <4>1, <4>2, <2>2, PathType, NoEntriesType, ChangedGrows
    <3>2. task' = [task EXCEPT ![k] = [@ EXCEPT !.at = "loaded", !.entries = new]]
      BY <2>2
    <3> HIDE DEF new
    <3>3. task' \in [Tasks -> TaskType]
      BY <3>1, <3>2, <1>0 DEF TaskType
    <3>4. logged' \in [Files -> Content]
      BY <2>2, NoEntriesType DEF TypeOK
    <3> QED  BY <1>6, <2>2, <3>2, <3>3, <3>4 DEF Load, TypeOK, TaskType
  <2> QED  BY <1>6, <2>1, <2>2, LoadCases
<1>7. ASSUME NEW k \in Tasks, SaveFails(k) PROVE TypeOK'
  <2>1. logged' \in [Files -> Content]
    BY <1>7, NoEntriesType DEF SaveFails, TypeOK
  <2> QED  BY <1>5, <1>7, <2>1 DEF SaveFails, TypeOK, TaskType
<1>8. ASSUME NEW k \in Tasks, Truncate(k) PROVE TypeOK'
  <2>1. task' \in [Tasks -> TaskType]
    BY <1>8, <1>0 DEF Truncate, TaskType
  <2>2. file' \in [Files -> Content]
    BY <1>8, NoEntriesType DEF Truncate, TypeOK
  <2> QED  BY <1>8, <2>1, <2>2 DEF Truncate, TypeOK, TaskType
<1>9. ASSUME NEW k \in Tasks, Write(k) PROVE TypeOK'
  <2>1. file' \in [Files -> Content]
    BY <1>9, <1>0, NoEntriesType DEF Write, TypeOK, TaskType
  <2>2. logged' \in [Files -> Content]
    <3>1. path_for(k) \in Files /\ task[k].entries \in Content
      BY <1>9, <1>0, PathType DEF Write, TaskType
    <3>2. ASSUME NEW a \in Content, NEW b \in Content
          PROVE  [i \in Ids |-> IF a[i] > b[i] THEN a[i] ELSE b[i]] \in Content
      BY TalkLogAssumption DEF Content
    <3>3. logged[path_for(k)] \in Content
      BY <3>1 DEF TypeOK
    <3> QED  BY <1>9, <3>1, <3>2, <3>3 DEF Write, TypeOK
  <2> QED  BY <1>5, <1>9, <2>1, <2>2 DEF Write, TypeOK, TaskType
<1>10. CASE UNCHANGED vars
  BY <1>10 DEF vars, TypeOK
<1> QED  BY <1>1, <1>2, <1>3, <1>4, <1>6, <1>7, <1>8, <1>9, <1>10 DEF Next

\* The log's variables keep their types; a process that has ended has no tasks and
\* its mutex is free.
THEOREM TypeCorrect == Spec => []TypeOK
<1>1. Init => TypeOK
  <2> SUFFICES ASSUME Init PROVE TypeOK
    OBVIOUS
  <2>1. task \in [Tasks -> TaskType] /\ \A k \in Tasks : task[k].at = "idle"
    BY IdleType DEF Init, Idle
  <2> QED  BY <2>1, NoEntriesType DEF Init, TypeOK, TaskType
<1> QED  BY <1>1, TypeStep, PTL DEF Spec

-----------------------------------------------------------------------------
(* Whose prompts a file has.                                                 *)

Owned(e, f) == \A i \in Ids : e[i] > 0 => prompts[i] # None /\ safe_filename[prompts[i]] = f
OwnInv ==
    /\ \A f \in Files : Owned(file[f], f)
    /\ \A k \in Tasks : task[k].at # "idle" /\ task[k].op = "prompt" =>
          prompts[task[k].id] = task[k].session
    /\ \A k \in Tasks : task[k].at \in {"loaded", "truncated"} =>
          Owned(task[k].entries, path_for(k))

LEMMA NothingOwned == \A f : Owned(NoEntries, f)
  BY DEF Owned, NoEntries

LEMMA OwnStep == TypeOK /\ OwnInv /\ [Next]_vars => OwnInv'
<1> SUFFICES ASSUME TypeOK, OwnInv, [Next]_vars PROVE OwnInv'
  OBVIOUS
<1>1. ASSUME NEW p \in Procs, Start(p) \/ Die(p) PROVE OwnInv'
  <2>1. file' = file /\ prompts' = prompts /\ \A k \in Tasks : task'[k] = task[k] \/ task'[k].at = "idle"
    BY <1>1 DEF Start, Die, Idle, TypeOK
  <2> QED  BY <2>1 DEF OwnInv, Owned, path_for
<1>2. ASSUME NEW k \in Tasks, NEW p \in Procs, NEW i \in Ids, NEW s \in Sessions,
             NEW op \in {"prompt", "reply", "read"}, Begin(k, p, op, i, s)
      PROVE  OwnInv'
  <2>1. \A j \in Ids : prompts[j] # None => prompts'[j] = prompts[j]
    BY <1>2 DEF Begin, TypeOK
  <2>2. \A e, f : Owned(e, f) => Owned(e, f)'
    BY <2>1 DEF Owned
  <2>3. file' = file
    BY <1>2 DEF Begin
  <2>4. /\ task'[k].at = "waiting" /\ task'[k].session = s /\ task'[k].id = i
        /\ task'[k].op = "prompt" => prompts'[i] = s
        /\ \A j \in Tasks \ {k} : task'[j] = task[j]
    BY <1>2 DEF Begin, TypeOK
  <2>5. (\A f \in Files : Owned(file[f], f))'
    BY <2>2, <2>3 DEF OwnInv
  <2>6. ASSUME NEW j \in Tasks, task'[j].at # "idle", task'[j].op = "prompt"
        PROVE  prompts'[task'[j].id] = task'[j].session
    <3>1. CASE j # k
      <4>1. task[j].id \in Ids /\ task[j].session \in Sessions
        BY <3>1, <2>4, <2>6 DEF TypeOK
      <4> QED  BY <3>1, <4>1, <2>1, <2>4, <2>6, TalkLogAssumption DEF OwnInv
    <3> QED  BY <3>1, <2>4, <2>6
  <2>7. ASSUME NEW j \in Tasks, task'[j].at \in {"loaded", "truncated"}
        PROVE  Owned(task[j].entries, path_for(j))'
    <3>1. task'[j] = task[j]
      BY <2>4, <2>7
    <3>2. Owned(task[j].entries, path_for(j))
      BY <2>7, <3>1 DEF OwnInv
    <3> QED  BY <3>1, <3>2, <2>1 DEF Owned, path_for
  <2> QED  BY <2>5, <2>6, <2>7 DEF OwnInv
<1>3. ASSUME NEW k \in Tasks, Lock(k) PROVE OwnInv'
  <2>1. /\ file' = file /\ prompts' = prompts
        /\ task[k].at # "idle" /\ task' = [task EXCEPT ![k].at = "locked"]
    BY <1>3 DEF Lock
  <2> QED  BY <2>1 DEF OwnInv, Owned, path_for, TypeOK
<1>4. ASSUME NEW k \in Tasks, Load(k) PROVE OwnInv'
  <2>0. PICK e \in {file[path_for(k)], NoEntries} :
           \/ Return(k)
           \/ task' = [task EXCEPT ![k] = [@ EXCEPT !.at = "loaded",
                           !.entries = Changed(e, task[k].op, task[k].id)]]
    BY <1>4, LoadCases
  <2> DEFINE new == Changed(e, task[k].op, task[k].id)
  <2>1. file' = file /\ prompts' = prompts /\ task[k].at = "locked"
    BY <1>4 DEF Load
  <2>2. CASE Return(k)
    BY <2>1, <2>2 DEF Return, Idle, OwnInv, Owned, path_for, TypeOK
  <2>3. CASE task' = [task EXCEPT ![k] = [@ EXCEPT !.at = "loaded", !.entries = new]]
    <3>1. /\ path_for(k) \in Files /\ e \in Content
          /\ task[k].op \in {"prompt", "reply", "read"} /\ task[k].id \in Ids
          /\ task[k].session \in Sessions
      BY <2>0, <2>1, PathType, NoEntriesType DEF TypeOK
    <3>2. Owned(e, path_for(k))
      BY <2>0, <3>1, NothingOwned DEF OwnInv
    <3>3. task[k].op = "prompt" => prompts[task[k].id] = task[k].session
      BY <2>1 DEF OwnInv
    <3>4. Owned(new, path_for(k))
      <4>1. /\ task[k].op # "prompt" => \A j \in Ids : new[j] > 0 => e[j] > 0
            /\ \A j \in Ids \ {task[k].id} : new[j] = e[j]
        BY <3>1, ChangedGrows
      <4> HIDE DEF new
      <4>2. CASE task[k].op # "prompt"
        BY <4>1, <4>2, <3>2 DEF Owned
      <4>3. CASE task[k].op = "prompt"
        <5>1. prompts[task[k].id] # None /\ safe_filename[prompts[task[k].id]] = path_for(k)
          BY <4>3, <3>1, <3>3, TalkLogAssumption DEF path_for
        <5> QED  BY <4>1, <5>1, <3>2 DEF Owned
      <4> QED  BY <4>2, <4>3
    <3> HIDE DEF new
    <3> QED  BY <2>1, <2>3, <3>4 DEF OwnInv, Owned, path_for, TypeOK
  <2> QED  BY <2>0, <2>2, <2>3
<1>5. ASSUME NEW k \in Tasks, SaveFails(k) PROVE OwnInv'
  BY <1>5 DEF SaveFails, Return, Idle, OwnInv, Owned, path_for, TypeOK
<1>6. ASSUME NEW k \in Tasks, Truncate(k) PROVE OwnInv'
  <2>1. \A f \in Files : file'[f] = file[f] \/ file'[f] = NoEntries
    BY <1>6 DEF Truncate, TypeOK
  <2>2. prompts' = prompts /\ task' = [task EXCEPT ![k].at = "truncated"] /\ task[k].at = "loaded"
    BY <1>6 DEF Truncate
  <2>3. (\A f \in Files : Owned(file[f], f))'
    BY <2>1, <2>2, NothingOwned DEF OwnInv, Owned
  <2> QED  BY <2>2, <2>3 DEF OwnInv, Owned, path_for, TypeOK
<1>7. ASSUME NEW k \in Tasks, Write(k) PROVE OwnInv'
  <2>1. Owned(task[k].entries, path_for(k)) /\ path_for(k) \in Files
    BY <1>7, PathType DEF Write, OwnInv
  <2>2. /\ prompts' = prompts
        /\ \E e \in {task[k].entries, NoEntries} : file' = [file EXCEPT ![path_for(k)] = e]
    BY <1>7 DEF Write
  <2>3. (\A f \in Files : Owned(file[f], f))'
    <3>1. PICK e \in {task[k].entries, NoEntries} : file' = [file EXCEPT ![path_for(k)] = e]
      BY <2>2
    <3>2. Owned(e, path_for(k))
      BY <2>1, NothingOwned
    <3>3. \A f \in Files : Owned(file'[f], f)
      BY <2>1, <3>1, <3>2 DEF OwnInv, TypeOK
    <3> QED  BY <2>2, <3>3 DEF Owned
  <2>4. task' = [task EXCEPT ![k] = Idle]
    BY <1>7 DEF Write, Return
  <2> QED  BY <2>2, <2>3, <2>4 DEF OwnInv, Owned, path_for, TypeOK, Idle
<1>8. CASE UNCHANGED vars
  BY <1>8 DEF vars, OwnInv, Owned, path_for
<1> QED  BY <1>1, <1>2, <1>3, <1>4, <1>5, <1>6, <1>7, <1>8 DEF Next

\* A file only ever has entries for prompts that were sent to a session of that
\* file, whatever session a client's reply names and whoever writes.
THEOREM NoForeignPrompts == Spec => []OwnPromptsOnly
<1>1. Init => OwnInv
  BY DEF Init, OwnInv, Owned, NoEntries, Idle
<1>2. OwnInv => OwnPromptsOnly
  BY DEF OwnInv, Owned, OwnPromptsOnly
<1> QED  BY <1>1, <1>2, OwnStep, TypeCorrect, PTL DEF Spec

-----------------------------------------------------------------------------
(* What stays recorded.  The task past the lock is the one of its process;    *)
(* while processes do not overlap it is the only one there is, and what it is *)
(* about to write has all that was recorded, from its load on.                *)

Holding == {"locked", "loaded", "truncated"}
AtLeast(a, b) == \A i \in Ids : a[i] >= b[i]

LockInv ==
    /\ \A k \in Tasks : task[k].at \in Holding => lock[task[k].proc] = k
    /\ ~ shared => \A p, q \in up : p = q
KeptInv ==
    /\ \A k \in Tasks : task[k].at \in {"loaded", "truncated"} =>
          AtLeast(task[k].entries, logged[path_for(k)])
    /\ \A f \in Files : Saving(f) = {} => AtLeast(file[f], logged[f])

LEMMA LockStep == TypeOK /\ LockInv /\ [Next]_vars => LockInv'
<1> SUFFICES ASSUME TypeOK, LockInv, [Next]_vars PROVE LockInv'
  OBVIOUS
<1> USE DEF LockInv, Holding
<1>1. ASSUME NEW p \in Procs, Start(p) PROVE LockInv'
  BY <1>1 DEF Start, TypeOK
<1>2. ASSUME NEW p \in Procs, Die(p) PROVE LockInv'
  <2>1. ASSUME NEW k \in Tasks, task'[k].at \in Holding
        PROVE  lock'[task'[k].proc] = k
    <3>1. task'[k] = task[k] /\ task[k].proc # p
      BY <1>2, <2>1 DEF Die, TypeOK, Idle
    <3> QED  BY <1>2, <2>1, <3>1 DEF Die, TypeOK
  <2> QED  BY <1>2, <2>1 DEF Die
<1>3. ASSUME NEW k \in Tasks, NEW p \in Procs, NEW i \in Ids, NEW s \in Sessions,
             NEW op \in {"prompt", "reply", "read"}, Begin(k, p, op, i, s)
      PROVE  LockInv'
  BY <1>3 DEF Begin, TypeOK
<1>4. ASSUME NEW k \in Tasks, Lock(k) PROVE LockInv'
  <2>1. /\ task[k].proc \in Procs /\ lock[task[k].proc] = None
        /\ lock' = [lock EXCEPT ![task[k].proc] = k]
        /\ task' = [task EXCEPT ![k].at = "locked"] /\ UNCHANGED <<up, shared>>
    BY <1>4 DEF Lock, TypeOK
  <2> QED  BY <2>1, TalkLogAssumption DEF TypeOK
<1>5. ASSUME NEW k \in Tasks, task[k].at \in Holding, Return(k), UNCHANGED <<up, shared>>
      PROVE  LockInv'
  BY <1>5 DEF Return, TypeOK, Idle
<1>6. ASSUME NEW k \in Tasks, Load(k) PROVE LockInv'
  <2>1. CASE Return(k)
    BY <1>5, <1>6, <2>1 DEF Load, Holding
  <2>2. CASE lock' = lock /\ \E e : task' = [task EXCEPT ![k] = [@ EXCEPT !.at = "loaded", !.entries = e]]
    BY <1>6, <2>2 DEF Load, TypeOK
  <2> QED  BY <1>6, <2>1, <2>2, LoadCases
<1>7. ASSUME NEW k \in Tasks, SaveFails(k) \/ Write(k) PROVE LockInv'
  BY <1>5, <1>7 DEF SaveFails, Write
<1>8. ASSUME NEW k \in Tasks, Truncate(k) PROVE LockInv'
  BY <1>8 DEF Truncate, TypeOK
<1>9. CASE UNCHANGED vars
  BY <1>9 DEF vars
<1> QED  BY <1>1, <1>2, <1>3, <1>4, <1>6, <1>7, <1>8, <1>9 DEF Next

\* A prompt's id is new: until its own task has loaded the file, nothing has it.
Prompting(k) == task[k].at # "idle" /\ task[k].op = "prompt"
FreshInv ==
    /\ \A j, k \in Tasks : Prompting(j) /\ Prompting(k) /\ task[j].id = task[k].id => j = k
    /\ \A k \in Tasks : Prompting(k) /\ task[k].at \in {"waiting", "locked"} =>
          /\ \A f \in Files : file[f][task[k].id] = 0
          /\ \A j \in Tasks : task[j].at \in {"loaded", "truncated"} =>
                task[j].entries[task[k].id] = 0

LEMMA FreshStep == TypeOK /\ OwnInv /\ FreshInv /\ [Next]_vars => FreshInv'
<1> SUFFICES ASSUME TypeOK, OwnInv, FreshInv, [Next]_vars PROVE FreshInv'
  OBVIOUS
<1> USE DEF FreshInv, Prompting
<1>1. ASSUME NEW p \in Procs, Start(p) \/ Die(p) PROVE FreshInv'
  <2>1. file' = file /\ \A k \in Tasks : task'[k] = task[k] \/ task'[k].at = "idle"
    BY <1>1 DEF Start, Die, Idle, TypeOK
  <2> QED  BY <2>1
<1>2. ASSUME NEW k \in Tasks, NEW p \in Procs, NEW i \in Ids, NEW s \in Sessions,
             NEW op \in {"prompt", "reply", "read"}, Begin(k, p, op, i, s)
      PROVE  FreshInv'
  <2>1. /\ file' = file /\ task'[k].at = "waiting" /\ task'[k].id = i /\ task'[k].op = op
        /\ \A j \in Tasks \ {k} : task'[j] = task[j]
        /\ op = "prompt" => prompts[i] = None
    BY <1>2 DEF Begin, TypeOK
  <2>2. ASSUME prompts[i] = None
        PROVE  /\ \A f \in Files : file[f][i] = 0
               /\ \A j \in Tasks : task[j].at \in {"loaded", "truncated"} => task[j].entries[i] = 0
               /\ \A j \in Tasks : Prompting(j) => task[j].id # i
    <3>1. \A f \in Files : file[f][i] = 0
      <4>1. ASSUME NEW f \in Files PROVE file[f][i] \in Nat /\ ~ file[f][i] > 0
        BY <2>2, TalkLogAssumption DEF OwnInv, Owned, TypeOK, Content
      <4> QED  BY <4>1
    <3>2. \A j \in Tasks : task[j].at \in {"loaded", "truncated"} => task[j].entries[i] = 0
      <4>1. ASSUME NEW j \in Tasks, task[j].at \in {"loaded", "truncated"}
            PROVE  task[j].entries[i] \in Nat /\ ~ task[j].entries[i] > 0
        BY <2>2, <4>1, TalkLogAssumption DEF OwnInv, Owned, TypeOK, Content
      <4> QED  BY <4>1
    <3>3. \A j \in Tasks : Prompting(j) => task[j].id # i
      BY <2>2, TalkLogAssumption DEF OwnInv, TypeOK
    <3> QED  BY <3>1, <3>2, <3>3
  <2> QED  BY <2>1, <2>2
<1>3. ASSUME NEW k \in Tasks, Lock(k) PROVE FreshInv'
  <2>1. file' = file /\ task' = [task EXCEPT ![k].at = "locked"] /\ task[k].at = "waiting"
    BY <1>3 DEF Lock
  <2> QED  BY <2>1 DEF TypeOK
<1>4. ASSUME NEW k \in Tasks, Return(k),
             \A f \in Files : file'[f] = file[f] \/
                              (task[k].at = "truncated" /\ file'[f] \in {task[k].entries, NoEntries})
      PROVE  FreshInv'
  BY <1>4 DEF Return, Idle, TypeOK, NoEntries
<1>5. ASSUME NEW k \in Tasks, Load(k) PROVE FreshInv'
  <2>0. PICK e \in {file[path_for(k)], NoEntries} :
           \/ Return(k)
           \/ task' = [task EXCEPT ![k] = [@ EXCEPT !.at = "loaded",
                           !.entries = Changed(e, task[k].op, task[k].id)]]
    BY <1>5, LoadCases
  <2> DEFINE new == Changed(e, task[k].op, task[k].id)
  <2>1. file' = file /\ task[k].at = "locked"
    BY <1>5 DEF Load
  <2>2. CASE Return(k)
    BY <2>1, <2>2, <1>4
  <2>3. CASE task' = [task EXCEPT ![k] = [@ EXCEPT !.at = "loaded", !.entries = new]]
    <3>1. /\ path_for(k) \in Files /\ e \in Content
          /\ task[k].op \in {"prompt", "reply", "read"} /\ task[k].id \in Ids
      BY <2>0, <2>1, PathType, NoEntriesType DEF TypeOK
    <3>2. /\ new \in Content
          /\ task[k].op # "prompt" => \A j \in Ids : new[j] > 0 => e[j] > 0
          /\ \A j \in Ids \ {task[k].id} : new[j] = e[j]
      BY <3>1, ChangedGrows
    <3> HIDE DEF new
    <3>3. /\ task'[k].at = "loaded" /\ task'[k].entries = new /\ task'[k].op = task[k].op
          /\ task'[k].id = task[k].id /\ \A j \in Tasks \ {k} : task'[j] = task[j]
      BY <2>3 DEF TypeOK
    <3>4. ASSUME NEW j \in Tasks, j # k, Prompting(j), task[j].at \in {"waiting", "locked"}
          PROVE  new[task[j].id] = 0
      <4>1. task[j].id \in Ids /\ e[task[j].id] = 0
        BY <2>0, <3>1, <3>4 DEF TypeOK, NoEntries
      <4>2. CASE task[k].op = "prompt"
        BY <4>1, <4>2, <3>2, <3>4, <2>1
      <4>3. CASE task[k].op # "prompt"
        <5>1. new[task[j].id] \in Nat /\ ~ new[task[j].id] > 0
          BY <4>1, <4>3, <3>2, TalkLogAssumption DEF Content
        <5> QED  BY <5>1
      <4> QED  BY <4>2, <4>3
    <3> QED  BY <2>1, <3>3, <3>4
  <2> QED  BY <2>0, <2>2, <2>3
<1>6. ASSUME NEW k \in Tasks, SaveFails(k) \/ Write(k) PROVE FreshInv'
  BY <1>4, <1>6 DEF SaveFails, Write, TypeOK
<1>7. ASSUME NEW k \in Tasks, Truncate(k) PROVE FreshInv'
  <2>1. \A f \in Files : file'[f] = file[f] \/ file'[f] = NoEntries
    BY <1>7 DEF Truncate, TypeOK
  <2>2. task' = [task EXCEPT ![k].at = "truncated"] /\ task[k].at = "loaded"
    BY <1>7 DEF Truncate
  <2> QED  BY <2>1, <2>2 DEF TypeOK, NoEntries
<1>8. CASE UNCHANGED vars
  BY <1>8 DEF vars
<1> QED  BY <1>1, <1>2, <1>3, <1>5, <1>6, <1>7, <1>8 DEF Next

\* Without an overlap of processes, the task past the lock is the only one past one.
LEMMA Alone ==
    ASSUME TypeOK, LockInv, ~ shared, NEW k \in Tasks, task[k].at \in Holding,
           NEW j \in Tasks, task[j].at \in Holding
    PROVE  j = k
  BY DEF TypeOK, LockInv, Holding

LEMMA KeptStep ==
    TypeOK /\ LockInv /\ FreshInv /\ (~ shared => KeptInv) /\ [Next]_vars => (~ shared' => KeptInv')
<1> SUFFICES ASSUME TypeOK, LockInv, FreshInv, ~ shared => KeptInv, [Next]_vars, ~ shared'
             PROVE  KeptInv'
  OBVIOUS
<1>0. ~ shared /\ KeptInv
  <2>1. shared' = shared \/ \E p \in Procs : Start(p)
    BY DEF Next, Die, Begin, Lock, Load, SaveFails, Truncate, Write, vars
  <2>2. ~ shared
    BY <2>1 DEF Start
  <2> QED  BY <2>2
<1>1. ASSUME NEW e \in Content PROVE AtLeast(e, e) /\ AtLeast(e, NoEntries)
  BY <1>1, TalkLogAssumption DEF AtLeast, NoEntries, Content
<1>2. ASSUME NEW p \in Procs, Start(p) PROVE KeptInv'
  BY <1>0, <1>2 DEF Start, KeptInv, AtLeast, Saving, path_for
<1>3. ASSUME NEW p \in Procs, Die(p) PROVE KeptInv'
  <2>1. \A k \in Tasks : task[k].at # "idle" => task[k].proc = p
    BY <1>0, <1>3 DEF Die, LockInv, TypeOK
  <2>2. \A k \in Tasks : task'[k].at = "idle"
    BY <1>3, <2>1 DEF Die, Idle
  <2>3. ASSUME NEW f \in Files PROVE AtLeast(file'[f], logged'[f])
    <3>1. file'[f] = file[f] /\ file[f] \in Content
      BY <1>3 DEF Die, TypeOK
    <3>2. CASE Saving(f) = {}
      BY <1>0, <1>3, <3>1, <3>2 DEF Die, KeptInv
    <3>3. CASE Saving(f) # {}
      <4>1. logged'[f] = NoEntries
        BY <1>3, <2>1, <3>3 DEF Die, Saving
      <4> QED  BY <4>1, <3>1, <1>1
    <3> QED  BY <3>2, <3>3
  <2> QED  BY <2>2, <2>3 DEF KeptInv
<1>4. ASSUME NEW k \in Tasks, task[k].at \in {"idle", "waiting"},
             task'[k].at \in {"waiting", "locked"}, \A j \in Tasks \ {k} : task'[j] = task[j],
             UNCHANGED <<file, logged>>
      PROVE  KeptInv'
  <2>1. \A f : Saving(f)' = Saving(f)
    BY <1>4 DEF Saving, path_for
  <2> QED  BY <1>0, <1>4, <2>1 DEF KeptInv, AtLeast, path_for
<1>5. ASSUME NEW k \in Tasks, NEW p \in Procs, NEW i \in Ids, NEW s \in Sessions,
             NEW op \in {"prompt", "reply", "read"}, Begin(k, p, op, i, s)
      PROVE  KeptInv'
  BY <1>4, <1>5 DEF Begin, TypeOK
<1>6. ASSUME NEW k \in Tasks, Lock(k) PROVE KeptInv'
  BY <1>4, <1>6 DEF Lock, TypeOK
<1>7. ASSUME NEW k \in Tasks, task[k].at \in Holding PROVE \A j \in Tasks \ {k} : task[j].at \notin Holding
  BY <1>0, <1>7, Alone
<1>8. ASSUME NEW k \in Tasks, Load(k) PROVE KeptInv'
  <2>1. /\ file' = file /\ task[k].at = "locked"
        /\ \A j \in Tasks \ {k} : task[j].at \notin Holding
    BY <1>7, <1>8 DEF Load, Holding
  <2>2. \A f \in Files : AtLeast(file[f], logged[f])
    BY <2>1, <1>0 DEF KeptInv, Saving, Holding
  <2>3. CASE Return(k) /\ logged' = logged
    <3>1. \A j \in Tasks : task'[j].at \notin Holding
      BY <2>1, <2>3 DEF Return, Idle, TypeOK, Holding
    <3> QED  BY <2>1, <2>2, <2>3, <3>1 DEF KeptInv, AtLeast, Holding
  <2>4. ASSUME NEW e \in {file[path_for(k)], NoEntries},
               task' = [task EXCEPT ![k] = [@ EXCEPT !.at = "loaded",
                            !.entries = Changed(e, task[k].op, task[k].id)]],
               logged' = IF e = file[path_for(k)] THEN logged
                         ELSE [logged EXCEPT ![path_for(k)] = NoEntries]
        PROVE  KeptInv'
    <3> DEFINE new == Changed(e, task[k].op, task[k].id)
    <3>1. /\ path_for(k) \in Files /\ file[path_for(k)] \in Content /\ e \in Content
          /\ task[k].op \in {"prompt", "reply", "read"} /\ task[k].id \in Ids
      BY <2>1, <2>4, PathType, NoEntriesType DEF TypeOK
    <3>2. /\ new \in Content
          /\ task[k].op # "prompt" => \A j \in Ids : new[j] >= e[j]
          /\ \A j \in Ids \ {task[k].id} : new[j] = e[j]
      BY <3>1, ChangedGrows
    <3>3. task[k].op = "prompt" => e[task[k].id] = 0
      BY <2>1, <2>4, <3>1 DEF FreshInv, Prompting, NoEntries
    <3>4. /\ task'[k].at = "loaded" /\ task'[k].entries = new /\ task'[k].session = task[k].session
          /\ \A j \in Tasks \ {k} : task'[j].at \notin Holding
      BY <2>1, <2>4 DEF TypeOK
    <3> HIDE DEF new
    <3>5. AtLeast(new, e)
      BY <3>1, <3>2, <3>3, TalkLogAssumption DEF AtLeast, Content
    <3>6. ASSUME NEW f \in Files
          PROVE  /\ AtLeast(file[f], logged'[f])
                 /\ f = path_for(k) => AtLeast(e, logged'[f])
      <4>1. CASE e = file[path_for(k)] \/ f # path_for(k)
        <5>1. logged'[f] = logged[f]
          BY <2>4, <4>1 DEF TypeOK
        <5> QED  BY <4>1, <5>1, <2>2
      <4>2. CASE e # file[path_for(k)] /\ f = path_for(k)
        <5>1. logged'[f] = NoEntries
          BY <2>4, <4>2 DEF TypeOK
        <5> QED  BY <4>2, <5>1, <3>1, <1>1
      <4> QED  BY <4>1, <4>2
    <3>7. logged' \in [Files -> Content]
      BY <2>4, NoEntriesType DEF TypeOK
    <3>8. AtLeast(new, logged'[path_for(k)])
      <4>1. logged'[path_for(k)] \in Content /\ AtLeast(e, logged'[path_for(k)])
        BY <3>1, <3>6, <3>7
      <4> QED  BY <4>1, <3>1, <3>2, <3>5, TalkLogAssumption DEF AtLeast, Content
    <3>9. path_for(k)' = path_for(k)
      BY <3>4 DEF path_for
    <3> QED  BY <2>1, <3>4, <3>6, <3>8, <3>9 DEF KeptInv, AtLeast, Holding
  <2> QED  BY <1>8, <2>3, <2>4, LoadCases
<1>9. ASSUME NEW k \in Tasks, SaveFails(k) PROVE KeptInv'
  <2>1. /\ file' = file /\ path_for(k) \in Files
        /\ \A j \in Tasks \ {k} : task[j].at \notin Holding
    BY <1>7, <1>9, PathType DEF SaveFails, Holding
  <2>2. \A j \in Tasks : task'[j].at \notin Holding
    BY <1>9, <2>1 DEF SaveFails, Return, Idle, TypeOK, Holding
  <2>3. ASSUME NEW f \in Files PROVE AtLeast(file[f], logged'[f])
    <3>1. CASE task[k].at = "truncated" /\ f = path_for(k)
      BY <1>1, <1>9, <3>1 DEF SaveFails, TypeOK
    <3>2. CASE ~ (task[k].at = "truncated" /\ f = path_for(k))
      <4>1. logged'[f] = logged[f]
        BY <1>9, <3>2 DEF SaveFails, TypeOK
      <4>2. Saving(f) = {}
        BY <1>9, <2>1, <3>2 DEF Saving, Holding
      <4> QED  BY <4>1, <4>2, <1>0 DEF KeptInv
    <3> QED  BY <3>1, <3>2
  <2> QED  BY <2>1, <2>2, <2>3 DEF KeptInv, AtLeast, Holding
<1>10. ASSUME NEW k \in Tasks, Truncate(k) PROVE KeptInv'
  <2>1. /\ logged' = logged /\ task[k].at = "loaded" /\ path_for(k) \in Files
        /\ file' = [file EXCEPT ![path_for(k)] = NoEntries]
        /\ \A j \in Tasks \ {k} : task[j].at \notin Holding
    BY <1>7, <1>10, PathType DEF Truncate, Holding
  <2>2. /\ task'[k].at = "truncated" /\ task'[k].entries = task[k].entries
        /\ task'[k].session = task[k].session
        /\ \A j \in Tasks \ {k} : task'[j].at \notin Holding
    BY <1>10, <2>1 DEF Truncate, TypeOK
  <2>3. \A f \in Files : AtLeast(file[f], logged[f])
    BY <2>1, <1>0 DEF KeptInv, Saving, Holding
  <2>4. AtLeast(task[k].entries, logged[path_for(k)])
    BY <2>1, <1>0 DEF KeptInv
  <2>5. ASSUME NEW f \in Files, Saving(f)' = {} PROVE AtLeast(file'[f], logged'[f])
    <3>1. f # path_for(k)
      BY <2>2, <2>5 DEF Saving, path_for
    <3> QED  BY <3>1, <2>1, <2>3 DEF TypeOK
  <2> QED  BY <2>1, <2>2, <2>4, <2>5 DEF KeptInv, AtLeast, Holding, path_for
<1>11. ASSUME NEW k \in Tasks, Write(k) PROVE KeptInv'
  <2>1. /\ task[k].at = "truncated" /\ path_for(k) \in Files
        /\ file' = [file EXCEPT ![path_for(k)] = task[k].entries]    \* ~ shared
        /\ \A j \in Tasks \ {k} : task[j].at \notin Holding
    BY <1>0, <1>7, <1>11, PathType DEF Write, Holding
  <2>2. \A j \in Tasks : task'[j].at \notin Holding
    BY <1>11, <2>1 DEF Write, Return, Idle, TypeOK, Holding
  <2>3. AtLeast(task[k].entries, logged[path_for(k)])
    BY <2>1, <1>0 DEF KeptInv
  <2>4. ASSUME NEW f \in Files PROVE AtLeast(file'[f], logged'[f])
    <3>1. CASE f = path_for(k)
      <4>1. \A i \in Ids : logged'[f][i] =
               IF task[k].entries[i] > logged[f][i] THEN task[k].entries[i] ELSE logged[f][i]
        BY <1>11, <3>1 DEF Write, TypeOK
      <4>2. file'[f] = task[k].entries /\ task[k].entries \in Content /\ logged[f] \in Content
        BY <2>1, <3>1 DEF TypeOK
      <4> QED  BY <4>1, <4>2, <2>3, <3>1, TalkLogAssumption DEF AtLeast, Content
    <3>2. CASE f # path_for(k)
      <4>1. file'[f] = file[f] /\ logged'[f] = logged[f]
        BY <1>11, <3>2 DEF Write, TypeOK
      <4>2. Saving(f) = {}
        BY <2>1, <3>2 DEF Saving, Holding
      <4> QED  BY <4>1, <4>2, <1>0 DEF KeptInv
    <3> QED  BY <3>1, <3>2
  <2> QED  BY <2>2, <2>4 DEF KeptInv, Holding
<1>12. CASE UNCHANGED vars
  BY <1>0, <1>12 DEF vars, KeptInv, AtLeast, Saving, path_for
<1> QED  BY <1>2, <1>3, <1>5, <1>6, <1>8, <1>9, <1>10, <1>11, <1>12 DEF Next

\* While one process at a time runs on the directory, what a save recorded stays
\* until a save is cut short or a prompt is recorded after its read failed: no task
\* undoes another's record, whatever sessions share the file.
THEOREM NothingUndone == Spec => []RecordedStays
<1>1. Init => OwnInv /\ LockInv /\ FreshInv /\ (~ shared => KeptInv)
  BY DEF Init, OwnInv, Owned, LockInv, FreshInv, Prompting, KeptInv, AtLeast, Holding, Idle, NoEntries
<1>2. TypeOK /\ (~ shared => KeptInv) => RecordedStays
  BY DEF KeptInv, AtLeast, RecordedStays
<1> QED  BY <1>1, <1>2, TypeCorrect, OwnStep, LockStep, FreshStep, KeptStep, PTL DEF Spec

=============================================================================
