------------------------------- MODULE TaskList --------------------------------
(***************************************************************************)
(* The task list that the agents of a swarm share (utils/tasks.ts): one    *)
(* file per task, a high water mark, a lock for the list and one for each  *)
(* task (proper-lockfile).  The agents are processes; every access to a    *)
(* file or a lock is a step of its own, except that listTasks(), the       *)
(* deletions of a reset and the two reads of blockTask() are one step      *)
(* each, and a call of a task that is not there is left out.               *)
(*                                                                         *)
(* updateTask() is called by most operations: an agent has a sequence of   *)
(* updates to do, and for each it checks, locks, reads and writes.         *)
(***************************************************************************)
EXTENDS Naturals, Sequences, SequencesExt, Functions, FiniteSetsExt

CONSTANTS
  None,
  Agents,
  N,         \* the tasks 1..N exist at first
  Kinds,     \* Kinds[a]: the kinds of operation that a calls
  MaxOps,    \* bound on the calls
  MaxCrashes \* bound on the agents that die

VARIABLES
  files,    \* files[t], for the tasks that have a file
  mark,     \* the high water mark
  listLock, \* who has the lock of the list, or None
  taskLock, \* taskLock[t], likewise
  op,       \* op[a]: the kind of a's operation, and its task
  pc,       \* where a is in it
  todo,     \* todo[a]: the calls of updateTask() it has left
  got,      \* got[a]: what it read last
  used,     \* history: the ids ever given
  reused,   \* history: those that were given twice
  deleted,  \* history: the ids whose last task was deleted
  ops, crashes

history == <<used, reused, deleted>>
fileVars == <<files, mark, history>>
locks == <<listLock, taskLock>>
vars == <<fileVars, locks, op, pc, todo, got, ops, crashes>>

Ids == 1..(N + MaxOps)

\* None is nobody, and no number.
ASSUME TaskListAssumption ==
  {N, MaxOps, MaxCrashes} \subseteq Nat /\ None \notin Agents \cup Ids \cup {0}

Fresh == [owner |-> None, done |-> FALSE, blocks |-> {}, blockedBy |-> {}]
TaskRecords == [owner : Agents \cup {None}, done : BOOLEAN,
                blocks : SUBSET Ids, blockedBy : SUBSET Ids]

\* The files after r was written to that of t.
WithFile(t, r) == [u \in DOMAIN files \cup {t} |-> IF u = t THEN r ELSE files[u]]

\* { ...r, ...changes }
Changed(r, changes) ==
  [k \in DOMAIN r |-> IF k \in DOMAIN changes THEN changes[k] ELSE r[k]]

\* The types; a lock is held by whom the code is at, or by one that died.
TypeOK ==
  /\ DOMAIN files \subseteq Ids /\ Range(files) \subseteq TaskRecords
  /\ mark \in Ids \cup {0}
  /\ \A a \in Agents :
       /\ listLock = a =>
            \/ pc[a] = "dead"
            \/ op[a].kind \in {"create", "reset", "claimBusy"} /\ pc[a] # "idle"
       /\ pc[a] \in {"files", "reset", "clear"} => listLock = a
       /\ \A t \in Ids : taskLock[t] = a => pc[a] \in {"look", "read", "put", "dead"}
       /\ pc[a] \in {"read", "put"} => taskLock[Head(todo[a]).id] = a
  /\ {used, reused, deleted} \subseteq SUBSET Ids /\ ops \in 0..MaxOps /\ crashes \in 0..MaxCrashes

Init ==
  /\ files = [t \in 1..N |-> Fresh] /\ mark = 0
  /\ used = 1..N /\ reused = {} /\ deleted = {}
  /\ listLock = None /\ taskLock = [t \in Ids |-> None]
  /\ op = [a \in Agents |-> [kind |-> "none", id |-> 0]]
  /\ pc = [a \in Agents |-> "idle"]
  /\ todo = [a \in Agents |-> << >>]
  /\ got = [a \in Agents |-> None]
  /\ ops = 0 /\ crashes = 0

\* The call returns or throws; its finally blocks release what it holds.
Ends(a) ==
  /\ pc' = [pc EXCEPT ![a] = "idle"]
  /\ todo' = [todo EXCEPT ![a] = << >>]
  /\ got' = [got EXCEPT ![a] = None]
  /\ op' = [op EXCEPT ![a] = [kind |-> "none", id |-> 0]]
  /\ listLock' = IF listLock = a THEN None ELSE listLock
  /\ taskLock' = [t \in Ids |-> IF taskLock[t] = a THEN None ELSE taskLock[t]]

Goes(a, place) == pc' = [pc EXCEPT ![a] = place] /\ UNCHANGED <<op, locks>>

Update(t, changes) == [id |-> t, changes |-> changes]

\* The updates us are to be done, one after the other.
Updates(a, us) ==
  IF us = << >> THEN Ends(a)
  ELSE todo' = [todo EXCEPT ![a] = us] /\ Goes(a, "check") /\ UNCHANGED got
-------------------------------------------------------------------------------
(* The calls *)

Calls(a, kind, t) ==
  /\ kind \in Kinds[a] /\ pc[a] = "idle" /\ ops < MaxOps
  /\ ops' = ops + 1
  /\ op' = [op EXCEPT ![a] = [kind |-> kind, id |-> t]]
  /\ UNCHANGED <<fileVars, locks, got, crashes>>

\* createTask(), resetTaskList(): the lock of the list comes first.
CallCreate(a) ==
  Calls(a, "create", 0) /\ pc' = [pc EXCEPT ![a] = "list"] /\ UNCHANGED todo
CallReset(a) ==
  Calls(a, "reset", 0) /\ pc' = [pc EXCEPT ![a] = "list"] /\ UNCHANGED todo

\* claimTask(), with and without checkAgentBusy.
CallClaim(a, t) ==
  /\ t \in DOMAIN files
  /\ \/ Calls(a, "claim", t) /\ pc' = [pc EXCEPT ![a] = "lock"]
     \/ Calls(a, "claimBusy", t) /\ pc' = [pc EXCEPT ![a] = "list"]
  /\ todo' = [todo EXCEPT ![a] = <<Update(t, [owner |-> a])>>]

\* updateTask() as TaskUpdate calls it, to complete or to assign a task.
CallUpdate(a, t) ==
  /\ t \in DOMAIN files
  /\ Calls(a, "update", t) /\ pc' = [pc EXCEPT ![a] = "lock"]
  /\ \/ todo' = [todo EXCEPT ![a] = <<Update(t, [done |-> TRUE])>>]
     \/ \E b \in Agents : todo' = [todo EXCEPT ![a] = <<Update(t, [owner |-> b])>>]

\* blockTask(t, u), from what both tasks say now (its two reads are one step).
CallBlock(a, t, u) ==
  /\ {t, u} \subseteq DOMAIN files /\ t # u
  /\ Calls(a, "block", t) /\ pc' = [pc EXCEPT ![a] = "check"]
  /\ u \notin files[t].blocks \/ t \notin files[u].blockedBy
  /\ todo' = [todo EXCEPT ![a] =
       (IF u \in files[t].blocks THEN << >>
        ELSE <<Update(t, [blocks |-> files[t].blocks \cup {u}])>>) \o
       (IF t \in files[u].blockedBy THEN << >>
        ELSE <<Update(u, [blockedBy |-> files[u].blockedBy \cup {t}])>>)]

\* unassignTeammateTasks(b): what is open and b's now is put back.
CallUnassign(a, b) ==
  LET owned == {t \in DOMAIN files : files[t].owner = b /\ ~files[t].done}
  IN  /\ owned # {}
      /\ Calls(a, "unassign", 0) /\ pc' = [pc EXCEPT ![a] = "check"]
      /\ todo' = [todo EXCEPT ![a] =
           SetToSeq({Update(t, [owner |-> None, done |-> FALSE]) : t \in owned})]

\* deleteTask(), of a task TaskUpdate has just seen.
CallDelete(a, t) ==
  /\ t \in DOMAIN files
  /\ Calls(a, "delete", t)
  /\ pc' = [pc EXCEPT ![a] = "mark"]
  /\ UNCHANGED todo
-------------------------------------------------------------------------------
(* The locks *)

LockList(a) ==
  /\ pc[a] = "list" /\ listLock = None
  /\ listLock' = a
  /\ pc' = [pc EXCEPT ![a] = CASE op[a].kind = "create" -> "files"
                               [] op[a].kind = "reset"  -> "reset"
                               [] OTHER                 -> "look"]
  /\ got' = [got EXCEPT ![a] = [files |-> None, mark |-> None]]
  /\ UNCHANGED <<fileVars, taskLock, op, todo, ops, crashes>>

\* Locking a task whose file is gone throws.
LockTask(a) ==
  /\ pc[a] = "lock"
  /\ LET t == Head(todo[a]).id
     IN  \/ /\ t \in DOMAIN files /\ taskLock[t] = None
            /\ taskLock' = [taskLock EXCEPT ![t] = a]
            /\ pc' = [pc EXCEPT ![a] = IF op[a].kind = "claim" THEN "look" ELSE "read"]
            /\ UNCHANGED <<listLock, op, todo, got>>
         \/ t \notin DOMAIN files /\ Ends(a)
  /\ UNCHANGED <<fileVars, ops, crashes>>

\* (mutant of LockFails) It is tried for as long as somebody alive has the lock.
LockFailsAlive(a) ==
  /\ pc[a] = "lock" /\ taskLock[Head(todo[a]).id] # None
  /\ pc[taskLock[Head(todo[a]).id]] # "dead"
  /\ Ends(a)
  /\ UNCHANGED <<fileVars, ops, crashes>>

\* The retries of LOCK_OPTIONS are used up.
LockFails(a) ==
  /\ \/ pc[a] = "list" /\ listLock # None
     \/ pc[a] = "lock" /\ taskLock[Head(todo[a]).id] # None
  /\ Ends(a)
  /\ UNCHANGED <<fileVars, ops, crashes>>

\* A process dies; proper-lockfile takes its locks for stale after a while.
Crash(a) ==
  /\ pc[a] \notin {"idle", "dead"} /\ crashes < MaxCrashes
  /\ crashes' = crashes + 1
  /\ pc' = [pc EXCEPT ![a] = "dead"]
  /\ UNCHANGED <<fileVars, locks, op, todo, got, ops>>

LockGoesStale(a) ==
  /\ pc[a] = "dead" /\ (listLock = a \/ \E t \in Ids : taskLock[t] = a)
  /\ listLock' = IF listLock = a THEN None ELSE listLock
  /\ taskLock' = [t \in Ids |-> IF taskLock[t] = a THEN None ELSE taskLock[t]]
  /\ UNCHANGED <<fileVars, op, pc, todo, got, ops, crashes>>
-------------------------------------------------------------------------------
(* createTask(), resetTaskList() *)

Highest == Max(DOMAIN files \cup {0})

\* The two reads of findHighestTaskId(), in either order.
CreateReadsFiles(a) ==
  /\ pc[a] = "files" /\ got[a].files = None
  /\ got' = [got EXCEPT ![a].files = Highest]
  /\ UNCHANGED <<fileVars, locks, op, pc, todo, ops, crashes>>

CreateReadsMark(a) ==
  /\ pc[a] = "files" /\ got[a].mark = None
  /\ got' = [got EXCEPT ![a].mark = mark]
  /\ UNCHANGED <<fileVars, locks, op, pc, todo, ops, crashes>>

HasRead(a) == pc[a] = "files" /\ None \notin {got[a].files, got[a].mark}

\* (mutant of NewId) The high water mark is not consulted for a live list.
NewIdFromMark(a) == got[a].mark + 1

NewId(a) == Max({got[a].files, got[a].mark}) + 1

CreateWrites(a) ==
  /\ HasRead(a)
  /\ files' = WithFile(NewId(a), Fresh)
  /\ used' = used \cup {NewId(a)}
  /\ reused' = reused \cup (used \cap {NewId(a)})
  /\ deleted' = deleted \ {NewId(a)}
  /\ Ends(a)
  /\ UNCHANGED <<mark, ops, crashes>>

ResetReads(a) ==
  /\ pc[a] = "reset"
  /\ got' = [got EXCEPT ![a] = [files |-> Highest, mark |-> mark]]
  /\ Goes(a, "clear")
  /\ UNCHANGED <<fileVars, todo, ops, crashes>>

\* The mark is raised to the highest id, and the files are deleted.
ResetClears(a) ==
  /\ pc[a] = "clear"
  /\ \/ /\ got[a].files > got[a].mark
        /\ mark' = got[a].files
        /\ got' = [got EXCEPT ![a] = [files |-> 0, mark |-> 0]]
        /\ UNCHANGED <<files, deleted, locks, op, pc, todo>>
     \/ /\ got[a].files <= got[a].mark
        /\ files' = << >>
        /\ deleted' = deleted \cup DOMAIN files
        /\ Ends(a)
        /\ UNCHANGED mark
  /\ UNCHANGED <<used, reused, ops, crashes>>
-------------------------------------------------------------------------------
(* deleteTask() *)

DeleteReads(a) ==
  /\ pc[a] = "mark"
  /\ got' = [got EXCEPT ![a] = [files |-> 0, mark |-> mark]]
  /\ Goes(a, IF op[a].id > mark THEN "raise" ELSE "unlink")
  /\ UNCHANGED <<fileVars, todo, ops, crashes>>

DeleteMarks(a) ==
  /\ pc[a] = "raise"
  /\ mark' = op[a].id
  /\ Goes(a, "unlink")
  /\ UNCHANGED <<files, history, todo, got, ops, crashes>>

DeleteUnlinks(a) ==
  /\ pc[a] = "unlink"
  /\ IF op[a].id \in DOMAIN files
     THEN /\ files' = Restrict(files, DOMAIN files \ {op[a].id})
          /\ deleted' = deleted \cup {op[a].id}
          /\ Goes(a, "cascade")
          /\ UNCHANGED <<todo, got>>
     ELSE Ends(a) /\ UNCHANGED <<files, deleted>>
  /\ UNCHANGED <<mark, used, reused, ops, crashes>>

\* The references to the task are taken out of the others, as they are now.
DeleteLists(a) ==
  /\ pc[a] = "cascade"
  /\ LET d == op[a].id
         refs == {t \in DOMAIN files : d \in files[t].blocks \cup files[t].blockedBy}
     IN  Updates(a, SetToSeq({Update(t, [blocks    |-> files[t].blocks \ {d},
                                         blockedBy |-> files[t].blockedBy \ {d}])
                              : t \in refs}))
  /\ UNCHANGED <<fileVars, ops, crashes>>
-------------------------------------------------------------------------------
(* claimTask(), updateTask() *)

Unresolved == {t \in DOMAIN files : ~files[t].done}

\* (mutant of Claimable) Somebody else's task is as good as a free one.
ClaimableAnyway(a, t) ==
  /\ t \in DOMAIN files
  /\ ~files[t].done
  /\ files[t].blockedBy \cap Unresolved = {}

\* The conditions of a claim; those of checkAgentBusy come on top.
Claimable(a, t) ==
  /\ t \in DOMAIN files
  /\ files[t].owner \in {None, a} /\ ~files[t].done
  /\ files[t].blockedBy \cap Unresolved = {}
  /\ op[a].kind = "claimBusy" => \A u \in Unresolved : files[u].owner = a => u = t

\* With the lock of the task, or of the list, the claim looks whether it may.
ClaimLooks(a) ==
  /\ pc[a] = "look"
  /\ IF Claimable(a, op[a].id)
     THEN /\ Goes(a, IF op[a].kind = "claim" THEN "read" ELSE "check")
          /\ UNCHANGED <<todo, got>>
     ELSE Ends(a)
  /\ UNCHANGED <<fileVars, ops, crashes>>

\* updateTask() looks whether the task exists before it locks it.
UpdateChecks(a) ==
  /\ pc[a] = "check"
  /\ IF Head(todo[a]).id \in DOMAIN files
     THEN Goes(a, "lock") /\ UNCHANGED <<todo, got>>
     ELSE Updates(a, Tail(todo[a]))
  /\ UNCHANGED <<fileVars, ops, crashes>>

\* One update is over: its lock is released, the next one starts.
Continue(a) ==
  IF Len(todo[a]) = 1 THEN Ends(a)
  ELSE /\ taskLock' = [taskLock EXCEPT ![Head(todo[a]).id] = None]
       /\ todo' = [todo EXCEPT ![a] = Tail(@)]
       /\ pc' = [pc EXCEPT ![a] = "check"]
       /\ UNCHANGED <<listLock, op, got>>

UpdateReads(a) ==
  /\ pc[a] = "read"
  /\ LET t == Head(todo[a]).id
     IN  IF t \in DOMAIN files
         THEN /\ got' = [got EXCEPT ![a] = files[t]]
              /\ Goes(a, "put")
              /\ UNCHANGED todo
         ELSE Continue(a)
  /\ UNCHANGED <<fileVars, ops, crashes>>

\* (mutant of UpdateWrites) The locks are not released.
UpdateWritesHolding(a) ==
  /\ pc[a] = "put"
  /\ LET u == Head(todo[a])
     IN  files' = WithFile(u.id, Changed(got[a], u.changes))
  /\ pc' = [pc EXCEPT ![a] = "idle"]
  /\ UNCHANGED <<mark, history, locks, op, todo, got, ops, crashes>>

\* The file is written whether or not it is still there.
UpdateWrites(a) ==
  /\ pc[a] = "put"
  /\ LET u == Head(todo[a])
     IN  files' = WithFile(u.id, Changed(got[a], u.changes))
  /\ Continue(a)
  /\ UNCHANGED <<mark, history, ops, crashes>>
-------------------------------------------------------------------------------
Call(a) ==
  \/ CallCreate(a) \/ CallReset(a)
  \/ \E t \in Ids : CallClaim(a, t) \/ CallUpdate(a, t) \/ CallDelete(a, t)
  \/ \E t, u \in Ids : CallBlock(a, t, u)
  \/ \E b \in Agents : CallUnassign(a, b)

Step(a) ==
  \/ LockList(a) \/ LockTask(a) \/ LockFails(a)
  \/ CreateReadsFiles(a) \/ CreateReadsMark(a) \/ CreateWrites(a)
  \/ ResetReads(a) \/ ResetClears(a)
  \/ DeleteReads(a) \/ DeleteMarks(a) \/ DeleteUnlinks(a) \/ DeleteLists(a)
  \/ ClaimLooks(a) \/ UpdateChecks(a) \/ UpdateReads(a) \/ UpdateWrites(a)

Next == \E a \in Agents : Call(a) \/ Step(a) \/ Crash(a) \/ LockGoesStale(a)

Spec == Init /\ [][Next]_vars

\* File operations return, and a lock is had or given up.
FairSpec == Spec /\ \A a \in Agents : WF_vars(Step(a))
-------------------------------------------------------------------------------
(* Properties *)

\* No write replaces a task that its writer does not know: createTask() writes over
\* none, except one that was deleted and put back by an update that had read it
\* before; and an update writes over what it has read, unless the id was given to
\* another task meanwhile ("Uses file locking to prevent race conditions", line 281).
NothingIsReplaced ==
  [][\A a \in Agents :
       /\ CreateWrites(a) => NewId(a) \notin DOMAIN files \ deleted
       /\ LET t == Head(todo[a]).id
          IN  UpdateWrites(a) /\ t \in DOMAIN files \ reused => files[t] = got[a]]_vars

\* "Update high water mark before deleting to prevent ID reuse" (line 400):
\* no id is given twice.  (Does not hold: README, section 5.)
IdsAreUnique == reused = {}

\* claimTask() without checkAgentBusy takes no task from another owner and none
\* that is completed, although both are checked some steps before it writes.
ClaimTakesNothing ==
  [][\A a \in Agents :
       LET t == op[a].id
       IN  UpdateWrites(a) /\ op[a].kind = "claim" /\ t \in DOMAIN files
             => files[t].owner \in {None, a} /\ ~files[t].done]_vars

\* Every call ends, whoever dies with a lock in hand.
CallsEnd == \A a \in Agents : pc[a] # "idle" ~> pc[a] \in {"idle", "dead"}
===============================================================================
