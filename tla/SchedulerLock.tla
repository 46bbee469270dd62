----------------------------- MODULE SchedulerLock -----------------------------
(***************************************************************************)
(* The lease lock that lets one Claude session per project drive the cron  *)
(* scheduler (utils/cronTasksLock.ts), as cronScheduler.ts uses it.        *)
(*                                                                         *)
(* The lock file names a session and the process that runs it.  Processes  *)
(* start, with a new session or a resumed one, go on to another session    *)
(* (/resume, /clear), stop their schedulers, and die.  Nothing keeps two   *)
(* of them from running one session.  Every file system call is a step of  *)
(* its own.  writeFile() with 'wx' is an exclusive open and a write; a     *)
(* file that was unlinked meanwhile is written all the same but nobody     *)
(* sees it.                                                                *)
(***************************************************************************)
EXTENDS Naturals, FiniteSets

CONSTANTS
  Absent, Blank, \* there is no lock file; there is one with no lock in it yet
  SessionIds,
  Processes,  \* the pids, which are not reused
  Unseen,     \* the pairs <<p, q>> where q runs but isProcessRunning() tells p
              \* that it does not: q is another user's, or the init process
  TornWrites, \* may a reader see the file between the open and the write?
  MayStop,    \* may a scheduler be stopped?
  MayExit,    \* may a process run its exit cleanups and go on for a while?
  MaySwitch   \* may a process go on to another session?

ASSUME LockAssumption ==
  /\ Absent # Blank /\ {Absent, Blank} \cap [sessionId : SessionIds, pid : Processes] = {}
  /\ {TornWrites, MayStop, MayExit, MaySwitch} \subseteq BOOLEAN

VARIABLES
  file,    \* Absent, Blank or the lock: its session and pid
  life,    \* life[p]: "unborn", "alive" or "dead"
  session, \* session[p]: getSessionId() in p
  stopped, \* stopped[p]: the scheduler's flag
  exiting, \* exiting[p]: did the process run its exit cleanups?
  isOwner, \* isOwner[p]
  acquire, \* where tryAcquireSchedulerLock() is
  fd,      \* fd[p]: the file p is writing: "closed", "linked" or "orphan"
  release, \* where releaseSchedulerLock() is
  recovered, \* history: was a lock ever taken for stale and unlinked?
  shared     \* history: did a process ever take another's lock for its own,
             \* while the other or one more with its session was alive?

processVars == <<life, session, stopped, exiting>>
lockVars ==
  <<file, processVars, isOwner, acquire, fd, release, recovered, shared>>

Alive(p) == life[p] = "alive"
Lock(p) == [sessionId |-> session[p], pid |-> p]
Locks == [sessionId : SessionIds, pid : Processes]

\* The types; and a process has the file open while it writes it, no longer
\* (tryCreateExclusive(), and the rewrite at line 141).
LockTypeOK ==
  /\ file \in Locks \cup {Absent, Blank}
  /\ life \in [Processes -> {"unborn", "alive", "dead"}]
  /\ session \in [Processes -> SessionIds]
  /\ {stopped, exiting} \subseteq [Processes -> BOOLEAN]
  /\ isOwner \in [Processes -> BOOLEAN]
  /\ acquire \in [Processes ->
       {"idle", "create", "read", "rewrite", "unlink", "createAgain", "write"}]
  /\ fd \in [Processes -> {"closed", "linked", "orphan"}]
  /\ release \in [Processes -> {"idle", "read", "unlink"}]
  /\ {recovered, shared} \subseteq BOOLEAN
  /\ \A p \in Processes : acquire[p] = "write" <=> fd[p] # "closed"

LockInit ==
  /\ file = Absent
  /\ life = [p \in Processes |-> "unborn"]
  /\ session \in [Processes -> SessionIds]
  /\ stopped = [p \in Processes |-> FALSE]
  /\ exiting = [p \in Processes |-> FALSE]
  /\ isOwner = [p \in Processes |-> FALSE]
  /\ acquire = [p \in Processes |-> "idle"]
  /\ fd = [p \in Processes |-> "closed"]
  /\ release = [p \in Processes |-> "idle"]
  /\ recovered = FALSE /\ shared = FALSE
-------------------------------------------------------------------------------
(* The file system *)

\* isProcessRunning(), as p asks for the pid in lock l: a signal that may not be
\* sent counts as a process that is not there.
Running(p, l) == Alive(l.pid) /\ <<p, l.pid>> \notin Unseen

\* The file is gone for everybody; a writer keeps what it has open.
Unlinked ==
  /\ file' = Absent
  /\ fd' = [p \in Processes |-> IF fd[p] = "linked" THEN "orphan" ELSE fd[p]]
-------------------------------------------------------------------------------
(* tryAcquireSchedulerLock() *)

\* (mutant of Returns) stop() during the call goes unnoticed by what comes after it.
ReturnsToNobody(p, owned) ==
  /\ acquire' = [acquire EXCEPT ![p] = "idle"]
  /\ isOwner' = IF stopped[p] THEN isOwner ELSE [isOwner EXCEPT ![p] = owned]
  /\ UNCHANGED release

\* The call returns to enable() or to the probe: a scheduler that was stopped
\* meanwhile gives the lock back.
Returns(p, owned) ==
  /\ acquire' = [acquire EXCEPT ![p] = "idle"]
  /\ IF stopped[p]
     THEN /\ release' = IF owned THEN [release EXCEPT ![p] = "read"] ELSE release
          /\ UNCHANGED isOwner
     ELSE /\ isOwner' = [isOwner EXCEPT ![p] = owned]
          /\ UNCHANGED release

\* enable(), and then the probe that runs every LOCK_PROBE_INTERVAL_MS.
Try(p) ==
  /\ Alive(p) /\ ~stopped[p] /\ ~isOwner[p]
  /\ acquire[p] = "idle" /\ release[p] = "idle"
  /\ acquire' = [acquire EXCEPT ![p] = "create"]
  /\ UNCHANGED <<file, processVars, isOwner, fd, release, recovered, shared>>

\* (mutant of CreateExclusive) The 'wx' flag is forgotten.
CreateAnyway(p) ==
  /\ acquire[p] \in {"create", "createAgain"}
  /\ file' = Lock(p)
  /\ Returns(p, TRUE)
  /\ UNCHANGED <<fd, processVars, recovered, shared>>

\* tryCreateExclusive(), up to the open.
CreateExclusive(p) ==
  /\ acquire[p] \in {"create", "createAgain"}
  /\ \/ /\ file # Absent /\ acquire[p] = "create"
        /\ acquire' = [acquire EXCEPT ![p] = "read"]
        /\ UNCHANGED <<file, isOwner, fd, release>>
     \/ /\ file # Absent /\ acquire[p] = "createAgain"
        /\ Returns(p, FALSE)
        /\ UNCHANGED <<file, fd>>
     \/ /\ file = Absent /\ TornWrites
        /\ file' = Blank
        /\ fd' = [fd EXCEPT ![p] = "linked"]
        /\ acquire' = [acquire EXCEPT ![p] = "write"]
        /\ UNCHANGED <<isOwner, release>>
     \/ /\ file = Absent /\ ~TornWrites
        /\ file' = Lock(p)
        /\ Returns(p, TRUE)
        /\ UNCHANGED fd
  /\ UNCHANGED <<processVars, recovered, shared>>

\* The write of tryCreateExclusive(), or of the rewrite of a resumed session.
Write(p) ==
  /\ acquire[p] = "write"
  /\ file' = IF fd[p] = "linked" THEN Lock(p) ELSE file
  /\ fd' = [fd EXCEPT ![p] = "closed"]
  /\ Returns(p, TRUE)
  /\ UNCHANGED <<processVars, recovered, shared>>

\* The lock of q is in the file, under the session of p; and q, or another
\* process with that session, is alive: p and it may both go by that lock.
SharesWith(p, q) ==
  /\ q # p
  /\ \/ Alive(q)
     \/ \E r \in Processes \ {p} : Alive(r) /\ session[r] = session[p]

\* readLock(): the lock is ours already; or it is under our session, whoever has
\* that one now, and is ours with a new pid; or a live process holds it; else, also
\* if there is no file any more, it counts as stale.
Read(p) ==
  /\ acquire[p] = "read"
  /\ \/ /\ file = Lock(p)
        /\ Returns(p, TRUE)
        /\ UNCHANGED shared
     \/ /\ file \in Locks \ {Lock(p)} /\ file.sessionId = session[p]
        /\ acquire' = [acquire EXCEPT ![p] = "rewrite"]
        /\ shared' = (shared \/ SharesWith(p, file.pid))
        /\ UNCHANGED <<isOwner, release>>
     \/ /\ file \in Locks /\ file.sessionId # session[p] /\ Running(p, file)
        /\ Returns(p, FALSE)
        /\ UNCHANGED shared
     \/ /\ file \in Locks => file.sessionId # session[p] /\ ~Running(p, file)
        /\ acquire' = [acquire EXCEPT ![p] = "unlink"]
        /\ UNCHANGED <<isOwner, release, shared>>
  /\ UNCHANGED <<file, processVars, fd, recovered>>

\* writeFile() without 'wx': whatever the file is by now, it is overwritten.
Rewrite(p) ==
  /\ acquire[p] = "rewrite"
  /\ \/ /\ TornWrites
        /\ file' = Blank
        /\ fd' = [fd EXCEPT ![p] = "linked"]
        /\ acquire' = [acquire EXCEPT ![p] = "write"]
        /\ UNCHANGED <<isOwner, release>>
     \/ /\ ~TornWrites
        /\ file' = Lock(p)
        /\ Returns(p, TRUE)
        /\ UNCHANGED fd
  /\ UNCHANGED <<processVars, recovered, shared>>

\* The recovery: the file, whatever it is by now, is unlinked.
Unlink(p) ==
  /\ acquire[p] = "unlink"
  /\ Unlinked
  /\ recovered' = TRUE
  /\ acquire' = [acquire EXCEPT ![p] = "createAgain"]
  /\ UNCHANGED <<processVars, isOwner, release, shared>>
-------------------------------------------------------------------------------
(* releaseSchedulerLock() *)

\* What is looked for is the session, not the process.
ReleaseReads(p) ==
  /\ release[p] = "read"
  /\ \/ /\ file \in Locks /\ file.sessionId = session[p]
        /\ release' = [release EXCEPT ![p] = "unlink"]
        /\ shared' = (shared \/ SharesWith(p, file.pid))
     \/ /\ file \in Locks => file.sessionId # session[p]
        /\ release' = [release EXCEPT ![p] = "idle"]
        /\ UNCHANGED shared
  /\ UNCHANGED <<file, processVars, isOwner, acquire, fd, recovered>>

ReleaseUnlinks(p) ==
  /\ release[p] = "unlink"
  /\ Unlinked
  /\ release' = [release EXCEPT ![p] = "idle"]
  /\ UNCHANGED <<processVars, isOwner, acquire, recovered, shared>>

\* (mutant of Stop) The lock is kept.
StopKeeping(p) ==
  /\ MayStop /\ Alive(p) /\ ~stopped[p]
  /\ stopped' = [stopped EXCEPT ![p] = TRUE]
  /\ isOwner' = [isOwner EXCEPT ![p] = FALSE]
  /\ UNCHANGED <<file, life, session, exiting, acquire, fd, release, recovered, shared>>

\* stop() of the scheduler.
Stop(p) ==
  /\ MayStop /\ Alive(p) /\ ~stopped[p] /\ release[p] = "idle"
  /\ stopped' = [stopped EXCEPT ![p] = TRUE]
  /\ isOwner' = [isOwner EXCEPT ![p] = FALSE]
  /\ release' = IF isOwner[p] THEN [release EXCEPT ![p] = "read"] ELSE release
  /\ UNCHANGED <<file, life, session, exiting, acquire, fd, recovered, shared>>

\* The cleanup that runs at exit releases the lock; the timers still run.
ExitCleanup(p) ==
  /\ MayExit /\ Alive(p) /\ ~exiting[p] /\ isOwner[p] /\ release[p] = "idle"
  /\ exiting' = [exiting EXCEPT ![p] = TRUE]
  /\ release' = [release EXCEPT ![p] = "read"]
  /\ UNCHANGED <<file, life, session, stopped, isOwner, acquire, fd, recovered, shared>>

\* A process dies wherever it is; the file stays.
ProcessDies(p) ==
  /\ Alive(p)
  /\ life' = [life EXCEPT ![p] = "dead"]
  /\ isOwner' = [isOwner EXCEPT ![p] = FALSE]
  /\ acquire' = [acquire EXCEPT ![p] = "idle"]
  /\ fd' = [fd EXCEPT ![p] = "closed"]
  /\ release' = [release EXCEPT ![p] = "idle"]
  /\ UNCHANGED <<file, session, stopped, exiting, recovered, shared>>

\* A process starts with the session that session[p] says: a new one, or with
\* --resume one that another process has had, or still has.
ProcessStarts(p) ==
  /\ life[p] = "unborn"
  /\ life' = [life EXCEPT ![p] = "alive"]
  /\ UNCHANGED <<file, session, stopped, exiting, isOwner, acquire, fd, release,
                 recovered, shared>>

\* switchSession() and regenerateSessionId(): /resume and /clear, between two
\* calls for the lock.
SwitchSession(p, id) ==
  /\ MaySwitch /\ Alive(p) /\ ~stopped[p] /\ ~exiting[p] /\ id # session[p]
  /\ acquire[p] = "idle" /\ release[p] = "idle"
  /\ session' = [session EXCEPT ![p] = id]
  /\ UNCHANGED <<file, life, stopped, exiting, isOwner, acquire, fd, release,
                 recovered, shared>>

Step(p) ==
  \/ CreateExclusive(p) \/ Write(p) \/ Read(p) \/ Rewrite(p) \/ Unlink(p)
  \/ ReleaseReads(p) \/ ReleaseUnlinks(p)

LockNext ==
  \E p \in Processes :
    \/ Try(p) \/ Step(p) \/ Stop(p) \/ ExitCleanup(p) \/ ProcessDies(p)
    \/ ProcessStarts(p)
    \/ \E id \in SessionIds : SwitchSession(p, id)

LockSpec == LockInit /\ [][LockNext]_lockVars

\* Timers fire and file system calls return.
FairLockSpec ==
  LockSpec /\ \A p \in Processes : WF_lockVars(Try(p)) /\ WF_lockVars(Step(p))
-------------------------------------------------------------------------------
(* Properties *)

\* "If two sessions race to recover a stale lock, only one create succeeds"
\* (line 109), so that "two Claude sessions in the same cwd" are stopped "from
\* double-firing the same on-disk task" (cronScheduler.ts:348).  (Does not hold:
\* README, section 5.)
AtMostOneOwner == \A p, q \in Processes : isOwner[p] /\ isOwner[q] => p = q

\* A lock is removed for stale only if its process is dead: "conservative for lock
\* recovery (we won't steal a live lock)" (genericProcessUtils.ts:18).  (Does not
\* hold: README, section 5.)
LiveLocksStay ==
  [][\A p \in Processes :
       acquire[p] = "read" /\ acquire'[p] = "unlink" /\ file \in Locks
         => ~Alive(file.pid)]_lockVars

\* The exclusive create keeps two processes from driving, through crashes, stops,
\* changes of the session and torn writes, until either somebody takes a lock for
\* stale and removes it (line 165), or somebody goes by the lock of another process
\* because the session is the same (lines 139 and 188), without asking whether that
\* process or one more with that session is alive.  A process that gave its lock
\* back at exit does not count.
OneOwnerUntilRecovery ==
  ~recovered /\ ~shared =>
    \A p, q \in Processes :
      isOwner[p] /\ isOwner[q] /\ ~exiting[p] /\ ~exiting[q] => p = q

\* A scheduler that was stopped, at whatever point of an acquisition (cronScheduler.ts
\* lines 406 and 417), and has nothing under way any more, has left no lock behind
\* with its process and session, by which its process would keep others out for the
\* rest of its life.
StoppedLeavesNoLock ==
  \A p \in Processes :
    Alive(p) /\ stopped[p] /\ acquire[p] = "idle" /\ release[p] = "idle"
      => file # Lock(p)

\* The lock in the file is that of a process that gives its locks back but did not
\* find it, because it has another session by now (line 188).
LeftBehind ==
  /\ file \in Locks
  /\ stopped[file.pid] \/ exiting[file.pid]
  /\ session[file.pid] # file.sessionId

\* "If the owner dies, a passive session takes over" (line 6), and so it does
\* when the owner stops or exits, unless its lock was left behind: whatever races,
\* crashes and torn writes did, if some process is there to drive the scheduler one
\* does, again and again.
SomeoneDrives ==
  []<>(\/ \E p \in Processes : isOwner[p] /\ ~exiting[p]
       \/ \A p \in Processes : ~Alive(p) \/ stopped[p] \/ exiting[p]
       \/ LeftBehind)
===============================================================================
