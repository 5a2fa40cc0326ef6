------------------------------- MODULE TalkLog -------------------------------
(***************************************************************************)
(* The talk log: one file per session name made safe for the file system,  *)
(* loaded, changed and rewritten whole under a mutex of the process.  An   *)
(* entry is a prompt's id with the number of its replies; a file that is   *)
(* missing, empty or torn loads as no entries, so they are one content.    *)
(***************************************************************************)
EXTENDS Naturals

CONSTANTS
    Procs,          \* server processes on the state directory
    Tasks,          \* control and connection tasks
    Sessions, Files,
    safe_filename,  \* [Sessions -> Files]: not injective
    Ids,            \* correlation ids of prompts
    MaxReplies,     \* replies recorded for one prompt
    None

ASSUME TalkLogAssumption ==
    /\ safe_filename \in [Sessions -> Files]
    /\ MaxReplies \in Nat
    /\ None \notin Procs \cup Tasks \cup Sessions

VARIABLES
    up,       \* the processes that run
    lock,     \* lock[p]: the task that holds the process's mutex
    file,     \* file[f]: its entries
    task,     \* task[k]: the operation it is in
    prompts,  \* prompts[i]: the session the prompt i was sent to, once
    logged,   \* history: what the saves of a file recorded since it was last lost
    shared    \* history: two processes ran at once

vars == <<up, lock, file, task, prompts, logged, shared>>

\* The number of replies of an entry plus one; 0 is no entry.
Content == [Ids -> 0..MaxReplies + 1]
NoEntries == [i \in Ids |-> 0]
Idle == [at |-> "idle", proc |-> None, op |-> "read", id |-> None, session |-> None,
         entries |-> NoEntries]

TypeOK ==
    /\ up \subseteq Procs
    /\ lock \in [Procs -> Tasks \cup {None}]
    /\ file \in [Files -> Content]
    /\ task \in [Tasks -> [at : {"idle", "waiting", "locked", "loaded", "truncated"},
                           proc : Procs \cup {None}, op : {"prompt", "reply", "read"},
                           id : Ids \cup {None}, session : Sessions \cup {None},
                           entries : Content]]
    /\ prompts \in [Ids -> Sessions \cup {None}]
    /\ logged \in [Files -> Content] /\ shared \in BOOLEAN
    \* a process that has ended has no tasks, and its mutex is nobody's
    /\ \A k \in Tasks : task[k].at # "idle" =>
          task[k].proc \in up /\ task[k].id \in Ids /\ task[k].session \in Sessions
    /\ \A p \in Procs : p \notin up => lock[p] = None

Init ==
    /\ up = {}
    /\ lock = [p \in Procs |-> None]
    /\ file = [f \in Files |-> NoEntries]
    /\ task = [k \in Tasks |-> Idle]
    /\ prompts = [i \in Ids |-> None]
    /\ logged = [f \in Files |-> NoEntries] /\ shared = FALSE

path_for(k) == safe_filename[task[k].session]

\* The tasks that have truncated the file and not written it.
Saving(f) == {k \in Tasks : task[k].at = "truncated" /\ path_for(k) = f}

-----------------------------------------------------------------------------
Start(p) ==
    /\ p \notin up
    /\ up' = up \cup {p}
    /\ shared' = (shared \/ up # {})
    /\ UNCHANGED <<lock, file, task, prompts, logged>>

\* Mutant: the mutex is not freed (as a lock file would not be).
DieKeepsLock(p) ==
    /\ p \in up
    /\ up' = up \ {p}
    /\ task' = [k \in Tasks |-> IF task[k].proc = p THEN Idle ELSE task[k]]
    /\ UNCHANGED <<lock, file, prompts, logged, shared>>

\* The process exits or dies: its tasks end where they are.
Die(p) ==
    /\ p \in up
    /\ up' = up \ {p}
    /\ lock' = [lock EXCEPT ![p] = None]
    /\ task' = [k \in Tasks |-> IF task[k].proc = p THEN Idle ELSE task[k]]
    /\ logged' = [f \in Files |->
                     IF \E k \in Saving(f) : task[k].proc = p THEN NoEntries ELSE logged[f]]
    /\ UNCHANGED <<file, prompts, shared>>

\* The operations: `say` records the prompt under a new id before it is sent; a
\* reply frame is recorded under the id and the session that the client gives;
\* read is for `wait`.
Begin(k, p, op, i, s) ==
    /\ task[k].at = "idle" /\ p \in up
    /\ op = "prompt" => prompts[i] = None
    /\ prompts' = IF op = "prompt" THEN [prompts EXCEPT ![i] = s] ELSE prompts
    /\ task' = [task EXCEPT ![k] = [at |-> "waiting", proc |-> p, op |-> op, id |-> i,
                                    session |-> s, entries |-> NoEntries]]
    /\ UNCHANGED <<up, lock, file, logged, shared>>

\* Mutant: a mutex per session.
LockSession(k) ==
    LET p == task[k].proc
    IN  /\ task[k].at = "waiting"
        /\ \A j \in Tasks \ {k} : task[j].at \in {"idle", "waiting"} \/ task[j].proc # p
              \/ task[j].session # task[k].session
        /\ lock' = [lock EXCEPT ![p] = k]
        /\ task' = [task EXCEPT ![k].at = "locked"]
        /\ UNCHANGED <<up, file, prompts, logged, shared>>

Lock(k) ==
    LET p == task[k].proc
    IN  /\ task[k].at = "waiting"
        /\ lock[p] = None
        /\ lock' = [lock EXCEPT ![p] = k]
        /\ task' = [task EXCEPT ![k].at = "locked"]
        /\ UNCHANGED <<up, file, prompts, logged, shared>>

Return(k) ==
    /\ lock' = [lock EXCEPT ![task[k].proc] = None]
    /\ task' = [task EXCEPT ![k] = Idle]

\* Mutant: a reply without its prompt makes an entry.
ChangedAnyway(entries, op, i) ==
    IF op = "prompt" THEN [entries EXCEPT ![i] = 1]
    ELSE [entries EXCEPT ![i] = IF @ <= MaxReplies THEN @ + 1 ELSE @]

\* record_prompt pushes an entry, record_reply a reply onto the entry with its id.
Changed(entries, op, i) ==
    IF op = "prompt" THEN [entries EXCEPT ![i] = 1]
    ELSE [entries EXCEPT ![i] = IF @ \in 1..MaxReplies THEN @ + 1 ELSE @]

\* What load returned is at hand.  A read is done; so is a reply that no entry has
\* the id of.  A prompt that did not see what the file has will save over it.
Loaded(k, entries) ==
    LET new == Changed(entries, task[k].op, task[k].id)
    IN  IF task[k].op = "read" \/ new = entries THEN Return(k) /\ UNCHANGED logged
        ELSE /\ task' = [task EXCEPT ![k] = [@ EXCEPT !.at = "loaded", !.entries = new]]
             /\ logged' = IF entries = file[path_for(k)] THEN logged
                          ELSE [logged EXCEPT ![path_for(k)] = NoEntries]
             /\ UNCHANGED lock

\* load: an error of the read, whatever the file has, is no entries too.
Load(k) ==
    /\ task[k].at = "locked"
    /\ \E entries \in {file[path_for(k)], NoEntries} : Loaded(k, entries)
    /\ UNCHANGED <<up, file, prompts, shared>>

\* save: create_dir_all may fail; fs::write truncates, then writes, and may fail
\* after either.  A failure is only logged.
SaveFails(k) ==
    /\ task[k].at \in {"loaded", "truncated"}
    /\ Return(k)
    /\ logged' = IF task[k].at = "truncated"
                 THEN [logged EXCEPT ![path_for(k)] = NoEntries] ELSE logged
    /\ UNCHANGED <<up, file, prompts, shared>>

Truncate(k) ==
    /\ task[k].at = "loaded"
    /\ task' = [task EXCEPT ![k].at = "truncated"]
    /\ file' = [file EXCEPT ![path_for(k)] = NoEntries]
    /\ UNCHANGED <<up, lock, prompts, logged, shared>>

\* The write is at offset 0: what another process has written since the truncation
\* may be longer, and its tail makes the file unreadable.
Write(k) ==
    /\ task[k].at = "truncated"
    /\ \/ file' = [file EXCEPT ![path_for(k)] = task[k].entries]
       \/ shared /\ file' = [file EXCEPT ![path_for(k)] = NoEntries]
    /\ logged' = [logged EXCEPT ![path_for(k)] =
                     [i \in Ids |-> IF task[k].entries[i] > @[i] THEN task[k].entries[i] ELSE @[i]]]
    /\ Return(k)
    /\ UNCHANGED <<up, prompts, shared>>

Next ==
    \/ \E p \in Procs : Start(p) \/ Die(p)
    \/ \E k \in Tasks, p \in Procs, i \in Ids, s \in Sessions :
          \E op \in {"prompt", "reply", "read"} : Begin(k, p, op, i, s)
    \/ \E k \in Tasks : Lock(k) \/ Load(k) \/ SaveFails(k) \/ Truncate(k) \/ Write(k)

Spec == Init /\ [][Next]_vars

-----------------------------------------------------------------------------
(* Properties *)

\* What was recorded stays recorded, while one process at a time runs on the
\* directory: no save undoes another, whatever sessions share the file and however
\* the tasks interleave.  Two things lose the file: a save that is cut short between
\* the truncation and the write, and a prompt recorded after its read failed.
RecordedStays ==
    ~ shared => \A f \in Files : Saving(f) = {} =>
                    \A i \in Ids : file[f][i] >= logged[f][i]

\* A file never has an entry for a prompt that was sent to a session of another
\* file, whatever session the replies name.
OwnPromptsOnly ==
    \A f \in Files, i \in Ids : file[f][i] > 0 =>
        prompts[i] # None /\ safe_filename[prompts[i]] = f
=============================================================================
