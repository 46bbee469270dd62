--------------------------- MODULE Scheduler_proofs ---------------------------
(***************************************************************************)
(* What holds of the scheduler of a project for any number of sessions and *)
(* tasks: of the lock that lets one session drive it (SchedulerLock) and,  *)
(* given one driver, of what fires (CronScheduler).                        *)
(***************************************************************************)
EXTENDS CronScheduler, SchedulerLock, Integers, TLAPS

-------------------------------------------------------------------------------
(***************************************************************************)
(* The lock. Why it excludes until the first recovery: a process that      *)
(* drives, that writes the file or that is about to unlink it owns what is *)
(* in the file (Mine), and the file belongs to one process at a time.      *)
(***************************************************************************)

\* p acts on the belief that the lock is its own.
Holds(p) ==
  \/ isOwner[p] /\ ~exiting[p]
  \/ acquire[p] \in {"write", "rewrite"}
  \/ release[p] = "unlink"

\* The lock file is that of p, or p is writing it, or it is of p's session and p is
\* about to replace it or to remove it, when its process is dead.
Mine(p) ==
  \/ file \in Locks /\ file.pid = p
  \/ file = Blank /\ fd[p] = "linked"
  \/ /\ acquire[p] = "rewrite" \/ release[p] = "unlink"
     /\ file \in Locks /\ file.sessionId = session[p] /\ ~Alive(file.pid)

\* What a process knows about itself: it does one thing at a time.
OneThing(p) ==
  /\ isOwner[p] \/ release[p] # "idle" => acquire[p] = "idle"
  /\ isOwner[p] /\ release[p] # "idle" => exiting[p]
  /\ ~isOwner[p] /\ release[p] # "idle" => stopped[p]
  /\ stopped[p] => ~isOwner[p]
  /\ ~Alive(p) => ~isOwner[p] /\ acquire[p] = "idle" /\ release[p] = "idle"

\* A lock has the pid of a process that started; and while that one lives it
\* drives, or gives the lock back, or did not find it when it wanted to.
Accounted ==
  file \in Locks =>
    /\ life[file.pid] # "unborn"
    /\ Alive(file.pid) =>
         \/ isOwner[file.pid] \/ release[file.pid] # "idle"
         \/ stopped[file.pid] /\ file # Lock(file.pid)

Untouched == ~recovered /\ ~shared

Believed(p) ==
  Untouched =>
    /\ Holds(p) => Mine(p)
    /\ fd[p] # "orphan"
    /\ acquire[p] # "createAgain"

OneHolder ==
  Untouched => \A p, q \in Processes : Holds(p) /\ Holds(q) => p = q

IInv ==
  /\ LockTypeOK
  /\ \A p \in Processes : OneThing(p)
  /\ Accounted
  /\ \A p \in Processes : Believed(p)
  /\ OneHolder

StepOf(p) ==
  \/ Try(p) \/ Step(p) \/ Stop(p) \/ ExitCleanup(p) \/ ProcessDies(p)
  \/ ProcessStarts(p)
  \/ \E id \in SessionIds : SwitchSession(p, id)
-------------------------------------------------------------------------------
LEMMA LockIsALock ==
  ASSUME LockTypeOK, NEW s \in Processes
  PROVE  Lock(s) \in Locks /\ Lock(s).pid = s
BY DEF LockTypeOK, Lock, Locks

\* A call that returns leaves the types alone, whether s was writing or not.
LEMMA ReturnsType ==
  ASSUME LockTypeOK, NEW s \in Processes, NEW owned \in BOOLEAN, Returns(s, owned),
         \/ fd' = [fd EXCEPT ![s] = "closed"]
         \/ fd' = fd /\ acquire[s] # "write"
  PROVE  /\ isOwner' \in [Processes -> BOOLEAN]
         /\ release' \in [Processes -> {"idle", "read", "unlink"}]
         /\ acquire' \in [Processes -> {"idle", "create", "read", "rewrite",
                                       "unlink", "createAgain", "write"}]
         /\ fd' \in [Processes -> {"closed", "linked", "orphan"}]
         /\ \A t \in Processes : acquire'[t] = "write" <=> fd'[t] # "closed"
<1>1. isOwner' \in [Processes -> BOOLEAN] /\ release' \in [Processes -> {"idle", "read", "unlink"}]
  <2>1. CASE stopped[s] /\ owned
    BY <2>1 DEF Returns, LockTypeOK
  <2>2. CASE stopped[s] /\ ~owned
    BY <2>2 DEF Returns, LockTypeOK
  <2>3. CASE ~stopped[s]
    BY <2>3 DEF Returns, LockTypeOK
  <2> QED BY <2>1, <2>2, <2>3
<1>2. acquire' = [acquire EXCEPT ![s] = "idle"]
  BY DEF Returns
<1>3. fd' \in [Processes -> {"closed", "linked", "orphan"}]
  BY DEF LockTypeOK
<1>4. \A t \in Processes : acquire'[t] = "write" <=> fd'[t] # "closed"
  BY <1>2 DEF LockTypeOK
<1> QED BY <1>1, <1>2, <1>3, <1>4 DEF LockTypeOK

\* A step keeps the types.
LEMMA TypeStep ==
  ASSUME LockAssumption, LockTypeOK, NEW s \in Processes,
         StepOf(s)
  PROVE  LockTypeOK'
<1>1. CASE Try(s)
  BY <1>1, LockAssumption DEF Try, processVars, LockTypeOK
<1>2. CASE CreateExclusive(s)
  <2>1. CASE file # Absent /\ acquire[s] = "create"
    BY <1>2, <2>1 DEF CreateExclusive, processVars, LockTypeOK
  <2>2. CASE file # Absent /\ acquire[s] = "createAgain"
    <3>1. /\ acquire[s] # "write" /\ Returns(s, FALSE)
          /\ UNCHANGED <<file, fd, processVars, recovered, shared>>
      BY <1>2, <2>2 DEF CreateExclusive
    <3> QED BY <3>1, ReturnsType DEF processVars, LockTypeOK
  <2>3. CASE file = Absent /\ TornWrites
    BY <1>2, <2>3 DEF CreateExclusive, processVars, LockTypeOK
  <2>4. CASE file = Absent /\ ~TornWrites
    <3>1. /\ acquire[s] # "write" /\ file' = Lock(s) /\ Returns(s, TRUE)
          /\ UNCHANGED <<fd, processVars, recovered, shared>>
      BY <1>2, <2>4 DEF CreateExclusive
    <3> QED BY <3>1, ReturnsType, LockIsALock DEF processVars, LockTypeOK
  <2> QED BY <1>2, <2>1, <2>2, <2>3, <2>4 DEF CreateExclusive
<1>3. CASE Write(s)
  <2>1. file' \in Locks \cup {Absent, Blank}
    BY <1>3, LockIsALock DEF Write, LockTypeOK
  <2> QED BY <1>3, <2>1, ReturnsType DEF Write, processVars, LockTypeOK
<1>4. CASE Read(s)
  <2>1. CASE \E owned \in BOOLEAN : Returns(s, owned)
    <3>1. PICK owned \in BOOLEAN : Returns(s, owned)
      BY <2>1
    <3>2. /\ acquire[s] = "read" /\ shared' \in BOOLEAN
          /\ UNCHANGED <<file, processVars, fd, recovered>>
      BY <1>4 DEF Read, LockTypeOK
    <3>3. acquire[s] # "write" /\ fd' = fd
      BY <3>2
    <3> QED BY <3>1, <3>2, <3>3, ReturnsType DEF processVars, LockTypeOK
  <2>2. CASE /\ acquire' = [acquire EXCEPT ![s] = "rewrite"]
             /\ UNCHANGED <<isOwner, release>>
    BY <1>4, <2>2 DEF Read, processVars, LockTypeOK
  <2>3. CASE /\ acquire' = [acquire EXCEPT ![s] = "unlink"]
             /\ UNCHANGED <<isOwner, release>>
    BY <1>4, <2>3 DEF Read, processVars, LockTypeOK
  <2> QED BY <1>4, <2>1, <2>2, <2>3 DEF Read
<1>5. CASE Rewrite(s)
  <2>1. CASE TornWrites
    BY <1>5, <2>1 DEF Rewrite, processVars, LockTypeOK
  <2>2. CASE ~TornWrites
    <3>1. /\ acquire[s] = "rewrite" /\ file' = Lock(s) /\ Returns(s, TRUE)
          /\ UNCHANGED <<fd, processVars, recovered, shared>>
      BY <1>5, <2>2 DEF Rewrite
    <3> QED BY <3>1, ReturnsType, LockIsALock DEF processVars, LockTypeOK
  <2> QED BY <2>1, <2>2
<1>6. CASE Unlink(s)
  BY <1>6, LockAssumption DEF Unlink, processVars, Unlinked, LockTypeOK
<1>7. CASE ReleaseReads(s)
  BY <1>7, LockAssumption DEF ReleaseReads, processVars, Locks, LockTypeOK
<1>8. CASE ReleaseUnlinks(s)
  BY <1>8, LockAssumption DEF ReleaseUnlinks, processVars, Unlinked, LockTypeOK
<1>9. CASE Stop(s)
  BY <1>9, LockAssumption DEF Stop, processVars, LockTypeOK
<1>10. CASE ExitCleanup(s)
  BY <1>10, LockAssumption DEF ExitCleanup, processVars, LockTypeOK
<1>11. CASE ProcessDies(s)
  BY <1>11, LockAssumption DEF ProcessDies, processVars, LockTypeOK
<1>12. CASE ProcessStarts(s)
  BY <1>12 DEF ProcessStarts, LockTypeOK
<1>13. ASSUME NEW id \in SessionIds, SwitchSession(s, id) PROVE LockTypeOK'
  BY <1>13 DEF SwitchSession, LockTypeOK
<1> QED BY <1>1, <1>2, <1>3, <1>4, <1>5, <1>6, <1>7, <1>8, <1>9, <1>10,
   <1>11, <1>12, <1>13 DEF Step, StepOf

\* A step of a process keeps what every process knows about itself.
LEMMA OneThingStep ==
  ASSUME LockAssumption, LockTypeOK, \A t \in Processes : OneThing(t), NEW s \in Processes,
         StepOf(s)
  PROVE  \A t \in Processes : OneThing(t)'
<1>1. CASE Try(s)
  BY <1>1, LockAssumption DEF Try, processVars, LockTypeOK, OneThing, Alive
<1>2. CASE CreateExclusive(s)
  BY <1>2, LockAssumption DEF CreateExclusive, processVars, Returns, Lock, Locks,
     LockTypeOK, OneThing, Alive
<1>3. CASE Write(s)
  BY <1>3, LockAssumption DEF Write, processVars, Returns, Lock, Locks,
     LockTypeOK, OneThing, Alive
<1>4. CASE Read(s)
  BY <1>4, LockAssumption DEF Read, processVars, Returns, Locks, LockTypeOK,
     OneThing, Alive
<1>5. CASE Rewrite(s)
  BY <1>5, LockAssumption DEF Rewrite, processVars, Returns, Lock, Locks,
     LockTypeOK, OneThing, Alive
<1>6. CASE Unlink(s)
  BY <1>6, LockAssumption DEF Unlink, processVars, Unlinked, LockTypeOK,
     OneThing, Alive
<1>7. CASE ReleaseReads(s)
  BY <1>7, LockAssumption DEF ReleaseReads, processVars, Locks, LockTypeOK,
     OneThing, Alive
<1>8. CASE ReleaseUnlinks(s)
  BY <1>8, LockAssumption DEF ReleaseUnlinks, processVars, Unlinked, LockTypeOK,
     OneThing, Alive
<1>9. CASE Stop(s)
  BY <1>9, LockAssumption DEF Stop, processVars, LockTypeOK, OneThing, Alive
<1>10. CASE ExitCleanup(s)
  BY <1>10, LockAssumption DEF ExitCleanup, processVars, LockTypeOK, OneThing, Alive
<1>11. CASE ProcessDies(s)
  BY <1>11, LockAssumption DEF ProcessDies, processVars, LockTypeOK, OneThing, Alive
<1>12. CASE ProcessStarts(s)
  BY <1>12 DEF ProcessStarts, LockTypeOK, OneThing, Alive
<1>13. ASSUME NEW id \in SessionIds, SwitchSession(s, id) PROVE \A t \in Processes : OneThing(t)'
  BY <1>13 DEF SwitchSession, LockTypeOK, OneThing, Alive
<1> QED BY <1>1, <1>2, <1>3, <1>4, <1>5, <1>6, <1>7, <1>8, <1>9, <1>10,
   <1>11, <1>12, <1>13 DEF Step, StepOf

\* A step of a process keeps the account of the lock in the file.
LEMMA AccountedStep ==
  ASSUME LockAssumption, LockTypeOK, \A t \in Processes : OneThing(t), Accounted,
         NEW s \in Processes, StepOf(s)
  PROVE  Accounted'
<1> USE LockAssumption DEF LockTypeOK, OneThing, Accounted, Alive, Lock, Locks, processVars
<1>1. CASE Try(s)
  BY <1>1 DEF Try
<1>2. CASE Write(s)
  BY <1>2 DEF Write, Returns
<1>3. CASE Read(s)
  BY <1>3 DEF Read, Returns
<1>4. CASE Rewrite(s)
  BY <1>4 DEF Rewrite, Returns
<1>5. CASE CreateExclusive(s)
  BY <1>5 DEF CreateExclusive, Returns
<1>6. CASE Unlink(s)
  BY <1>6 DEF Unlink, Unlinked
<1>7. CASE ReleaseReads(s)
  BY <1>7 DEF ReleaseReads
<1>8. CASE ReleaseUnlinks(s)
  BY <1>8 DEF ReleaseUnlinks, Unlinked
<1>9. CASE Stop(s)
  BY <1>9 DEF Stop
<1>10. CASE ExitCleanup(s)
  BY <1>10 DEF ExitCleanup
<1>11. CASE ProcessDies(s)
  BY <1>11 DEF ProcessDies
<1>12. CASE ProcessStarts(s)
  BY <1>12 DEF ProcessStarts
<1>13. ASSUME NEW id \in SessionIds, SwitchSession(s, id) PROVE Accounted'
  BY <1>13 DEF SwitchSession
<1> QED BY <1>1, <1>2, <1>3, <1>4, <1>5, <1>6, <1>7, <1>8, <1>9, <1>10, <1>11, <1>12, <1>13 DEF Step, StepOf
\* A step of a process keeps what every process believes about the file, and
\* that one at most acts on it.
LEMMA HolderStep ==
  ASSUME LockAssumption, IInv, NEW s \in Processes, StepOf(s)
  PROVE  (\A t \in Processes : Believed(t))' /\ OneHolder'
<1> USE LockAssumption DEF IInv, LockTypeOK, OneThing, Accounted, Alive, Lock, Locks, processVars,
      Untouched, Believed, OneHolder, Holds, Mine
<1>1. CASE Try(s)
  BY <1>1 DEF Try
<1>2. CASE Write(s)
  BY <1>2 DEF Write, Returns
<1>3. CASE Read(s)
  <2>0. Alive(s) /\ ~isOwner[s] /\ release[s] = "idle" /\ acquire[s] = "read"
    BY <1>3 DEF Read
  <2>1. CASE file = Lock(s) /\ Returns(s, TRUE) /\ UNCHANGED shared
    BY <1>3, <2>0, <2>1 DEF Read, Returns
  <2>2. CASE /\ file \in Locks \ {Lock(s)} /\ file.sessionId = session[s]
             /\ acquire' = [acquire EXCEPT ![s] = "rewrite"]
             /\ shared' = (shared \/ SharesWith(s, file.pid))
             /\ UNCHANGED <<isOwner, release>>
    <3> SUFFICES ASSUME ~recovered, ~shared, ~SharesWith(s, file.pid)
                 PROVE  (\A t \in Processes : Believed(t))' /\ OneHolder'
      BY <1>3, <2>2 DEF Read
    <3>1. file.pid # s /\ ~Alive(file.pid)
      BY <2>2 DEF SharesWith
    <3>2. \A t \in Processes \ {s} : Alive(t) => session[t] # session[s]
      BY <3>1 DEF SharesWith
    <3>3. \A t \in Processes \ {s} : ~Holds(t)
      BY <2>2, <3>1, <3>2
    <3> QED BY <1>3, <2>0, <2>2, <3>1, <3>3 DEF Read
  <2>3. CASE Returns(s, FALSE) /\ UNCHANGED shared
    BY <1>3, <2>0, <2>3 DEF Read, Returns
  <2>4. CASE acquire' = [acquire EXCEPT ![s] = "unlink"] /\ UNCHANGED <<isOwner, release, shared>>
    BY <1>3, <2>0, <2>4 DEF Read
  <2> QED BY <1>3, <2>1, <2>2, <2>3, <2>4 DEF Read
<1>4. CASE Rewrite(s)
  BY <1>4 DEF Rewrite, Returns
<1>5. CASE CreateExclusive(s)
  BY <1>5 DEF CreateExclusive, Returns
<1>6. CASE Unlink(s)
  BY <1>6 DEF Unlink, Unlinked
<1>7. CASE ReleaseReads(s)
  BY <1>7 DEF ReleaseReads, SharesWith
<1>8. CASE ReleaseUnlinks(s)
  BY <1>8 DEF ReleaseUnlinks, Unlinked
<1>9. CASE Stop(s)
  BY <1>9 DEF Stop
<1>10. CASE ExitCleanup(s)
  BY <1>10 DEF ExitCleanup
<1>11. CASE ProcessDies(s)
  BY <1>11 DEF ProcessDies
<1>12. CASE ProcessStarts(s)
  BY <1>12 DEF ProcessStarts
<1>13. ASSUME NEW id \in SessionIds, SwitchSession(s, id)
      PROVE (\A t \in Processes : Believed(t))' /\ OneHolder'
  BY <1>13 DEF SwitchSession
<1> QED BY <1>1, <1>2, <1>3, <1>4, <1>5, <1>6, <1>7, <1>8, <1>9, <1>10, <1>11, <1>12, <1>13 DEF Step, StepOf

LEMMA Invariance == LockSpec => []IInv
<1>1. LockInit => IInv
  <2> SUFFICES ASSUME LockInit PROVE IInv
    OBVIOUS
  <2>1. LockTypeOK
    BY DEF LockInit, LockTypeOK
  <2>2. file \notin Locks
    BY LockAssumption DEF LockInit, Locks
  <2>3. \A p \in Processes : OneThing(p) /\ ~Holds(p) /\ Believed(p)
    BY DEF LockInit, OneThing, Believed, Holds
  <2> QED BY <2>1, <2>2, <2>3 DEF IInv, Accounted, OneHolder
<1>2. IInv /\ [LockNext]_lockVars => IInv'
  <2> SUFFICES ASSUME IInv, [LockNext]_lockVars PROVE IInv'
    OBVIOUS
  <2>1. CASE LockNext
    <3>1. PICK s \in Processes : StepOf(s)
      BY <2>1 DEF LockNext, StepOf
    <3>2. LockTypeOK'
      BY <3>1, LockAssumption, TypeStep DEF IInv
    <3>3. (\A p \in Processes : OneThing(p))'
      BY <3>1, LockAssumption, OneThingStep DEF IInv
    <3>4. Accounted'
      BY <3>1, LockAssumption, AccountedStep DEF IInv
    <3> QED BY <3>1, <3>2, <3>3, <3>4, LockAssumption, HolderStep DEF IInv
  <2>2. CASE UNCHANGED lockVars
    BY <2>2 DEF lockVars, processVars, IInv, LockTypeOK, OneThing, Accounted, Believed,
       OneHolder, Untouched, Holds, Mine, Alive, Lock, Locks
  <2> QED BY <2>1, <2>2
<1> QED BY <1>1, <1>2, PTL DEF LockSpec

\* Until somebody takes a lock for stale, or goes by another process's lock because
\* their sessions are the same while one of them lives, at most one process drives
\* the cron scheduler, for any number of processes that start with any sessions, go on
\* to others, stop, exit and die.
THEOREM ExclusiveUntilRecovery == LockSpec => []OneOwnerUntilRecovery
<1>1. IInv => OneOwnerUntilRecovery
  BY DEF IInv, OneHolder, Untouched, Holds, OneOwnerUntilRecovery
<1> QED BY <1>1, Invariance, PTL

\* A scheduler that is stopped at any point of an acquisition gives the lock back,
\* whatever the other processes do.
THEOREM NoLockIsLeft == LockSpec => []StoppedLeavesNoLock
<1>1. IInv => StoppedLeavesNoLock
  <2> SUFFICES ASSUME IInv, NEW p \in Processes, Alive(p), stopped[p],
                      acquire[p] = "idle", release[p] = "idle", file = Lock(p)
               PROVE  FALSE
    BY DEF StoppedLeavesNoLock
  <2>1. file \in Locks /\ file.pid = p
    BY LockIsALock DEF IInv
  <2> QED BY <2>1 DEF IInv, OneThing, Accounted
<1> QED BY <1>1, Invariance, PTL
-------------------------------------------------------------------------------
(***************************************************************************)
(* The cron scheduler. The inductive invariant CInv: what is in flight is  *)
(* in jobs of the owner (Flights); nobody knows a task before it is        *)
(* created (Fresh); a task that is being added is new to all (Additions);  *)
(* and every task that fired is restrained from firing again, unless its   *)
(* removal was undone or a tick outran the watcher (Once).                 *)
(***************************************************************************)

Kinds == {"fired", "mark", "missed", "delete", "add"}
Fires(j) == j.kind \in {"fired", "mark"}

Types ==
  /\ now \in Times /\ createdAt \in Files /\ disk \in Files
  /\ up \subseteq Sessions /\ owner \in up \cup {None} /\ stale \subseteq up
  /\ tasks \in [Sessions -> Files]
  /\ inFlight \in [Sessions -> SUBSET Tasks]
  /\ fired \in [Sessions -> [Tasks -> Times]]
  /\ jobs \subseteq Jobs
  /\ failures \in 0..MaxFailures /\ crashes \in 0..MaxCrashes
  /\ refired \subseteq Tasks /\ undone \subseteq Tasks /\ outrun \subseteq Tasks
  /\ DOMAIN nextFireAt = Sessions

Schedules ==
  /\ \A s \in Sessions : DOMAIN nextFireAt[s] \subseteq Tasks
  /\ nextFireAt = [s \in Sessions |-> nextFireAt[s]]

\* The jobs of sessions that are up; a task is in flight in the owner only, for as
\* long as one job that takes it out again is under way.
Flights ==
  /\ \A j \in jobs : j.by \in up
  /\ \A s \in Sessions :
       /\ inFlight[s] = UNION {j.ids : j \in {i \in jobs : i.by = s /\ Fires(i)}}
       /\ inFlight[s] # {} => owner = s
  /\ \A i, j \in jobs : i # j /\ i.by = j.by /\ Fires(i) /\ Fires(j) => i.ids \cap j.ids = {}

\* No task is anywhere before it is created.
Fresh ==
  /\ DOMAIN disk \subseteq DOMAIN createdAt
  /\ \A s \in Sessions : DOMAIN tasks[s] \subseteq DOMAIN createdAt
  /\ \A j \in jobs : /\ j.ids \subseteq DOMAIN createdAt
                     /\ j.read # None => DOMAIN j.read \subseteq DOMAIN createdAt
  /\ \A s \in Sessions : \A t \in Tasks : fired[s][t] # 0 => owner = s /\ t \in DOMAIN createdAt

\* A task that is still to be added is new to all.
IsNew(t) ==
  /\ t \notin DOMAIN disk
  /\ \A i \in jobs : i.read # None => t \notin DOMAIN i.read
  /\ \A s \in Sessions : t \notin DOMAIN tasks[s] /\ fired[s][t] = 0

Additions ==
  \A j \in jobs : j.kind = "add" =>
    \A t \in j.ids : IsNew(t) /\ \A i \in jobs : i.kind = "add" /\ t \in i.ids => i = j

\* Why t does not fire in s once more: its removal is under way, it is no longer on
\* file, or it has been rescheduled.
Restrained(s, t) ==
  \/ \E j \in jobs : j.by = s /\ j.kind = "fired" /\ t \in j.ids
  \/ t \notin DOMAIN disk
  \/ /\ t \in Recurring /\ t \in DOMAIN nextFireAt[s]
     /\ nextFireAt[s][t] = NextRun(t, fired[s][t])

\* Besides, s has in memory what it has fired, as long as it is on file.
Once ==
  /\ refired \subseteq undone \cup outrun
  /\ \A s \in Sessions : \A t \in Tasks \ undone :
       fired[s][t] # 0 => Restrained(s, t) /\ (t \in DOMAIN disk => t \in DOMAIN tasks[s])

CInv == Types /\ Schedules /\ Flights /\ Fresh /\ Additions /\ Once

LEMMA OverIs ==
  ASSUME NEW f, NEW g
  PROVE  /\ DOMAIN Over(f, g) = DOMAIN f \cup DOMAIN g
         /\ \A t \in DOMAIN f : Over(f, g)[t] = f[t]
         /\ \A t \in DOMAIN g \ DOMAIN f : Over(f, g)[t] = g[t]
         /\ Over(f, g) = [t \in DOMAIN Over(f, g) |-> Over(f, g)[t]]
BY DEF Over

LEMMA FilesAre ==
  /\ \A f \in Files : DOMAIN f \subseteq Tasks /\ \A t \in DOMAIN f : f[t] \in Times
  /\ \A f : f = [t \in DOMAIN f |-> f[t]] /\ DOMAIN f \subseteq Tasks
            /\ (\A t \in DOMAIN f : f[t] \in Times) => f \in Files
<1>1. \A f \in Files : DOMAIN f \subseteq Tasks /\ \A t \in DOMAIN f : f[t] \in Times
  BY DEF Files
<1>2. ASSUME NEW f, f = [t \in DOMAIN f |-> f[t]], DOMAIN f \subseteq Tasks,
             \A t \in DOMAIN f : f[t] \in Times
      PROVE  f \in Files
  <2>1. f \in [DOMAIN f -> Times]
    BY <1>2
  <2> QED BY <2>1, <1>2 DEF Files
<1> QED BY <1>1, <1>2

LEMMA NextRunIs ==
  ASSUME NEW t \in Tasks, NEW n \in Nat
  PROVE  NextRun(t, n) \in Int
<1>1. Every[t] \in Nat \ {0}
  BY CronAssumption
<1> DEFINE e == Every[t]
<1>2. n \div e \in Int
  <2> HIDE DEF e
  <2> QED BY <1>1 DEF e
<1> QED BY <1>1, <1>2 DEF NextRun

LEMMA OverInFiles ==
  ASSUME NEW f, NEW g \in Files, DOMAIN f \subseteq Tasks, \A t \in DOMAIN f : f[t] \in Times
  PROVE  Over(f, g) \in Files /\ DOMAIN Over(f, g) = DOMAIN f \cup DOMAIN g
<1>1. DOMAIN g \subseteq Tasks /\ \A t \in DOMAIN g : g[t] \in Times
  BY FilesAre
<1> DEFINE h == Over(f, g)
<1>2. /\ DOMAIN h = DOMAIN f \cup DOMAIN g
      /\ \A t \in DOMAIN f : h[t] = f[t]
      /\ \A t \in DOMAIN g \ DOMAIN f : h[t] = g[t]
      /\ h = [t \in DOMAIN h |-> h[t]]
  BY OverIs, Zenon
<1> HIDE DEF h
<1>3. DOMAIN h \subseteq Tasks
  BY <1>1, <1>2
<1>4. ASSUME NEW t \in DOMAIN h PROVE h[t] \in Times
  BY <1>1, <1>2
<1> QED BY <1>2, <1>3, <1>4, FilesAre DEF h

\* The update of a file is one of files; it holds no more than what was read and, if the
\* job adds, what it adds; and it drops what a job removes.
LEMMA UpdatedIs ==
  ASSUME Types, Fresh, NEW j \in jobs, j.read # None
  PROVE  /\ Updated(j) \in Files
         /\ DOMAIN Updated(j) \subseteq DOMAIN j.read \cup (IF j.kind = "add" THEN j.ids ELSE {})
         /\ j.kind = "fired" => DOMAIN Updated(j) \cap j.ids = {}
<1>1. /\ j \in Jobs /\ j.read \in Files /\ j.ids \subseteq Tasks /\ j.ids \subseteq DOMAIN createdAt
      /\ createdAt \in Files /\ now \in Times
  BY DEF Types, Fresh, Jobs
<1>2. DOMAIN j.read \subseteq Tasks /\ \A t \in DOMAIN j.read : j.read[t] \in Times
  BY <1>1, FilesAre
<1>3. \A t \in DOMAIN createdAt : createdAt[t] \in Times
  BY <1>1, FilesAre
<1>4. CASE j.kind = "add"
  <2> DEFINE f == [t \in j.ids |-> createdAt[t]]
  <2>1. Updated(j) = Over(f, j.read)
    BY <1>4 DEF Updated
  <2>2. DOMAIN f = j.ids /\ \A t \in j.ids : f[t] \in Times
    BY <1>1, <1>3
  <2> HIDE DEF f
  <2>3. /\ Over(f, j.read) \in Files
        /\ DOMAIN Over(f, j.read) = j.ids \cup DOMAIN j.read
    BY <2>2, <1>1, OverInFiles, Zenon
  <2> QED BY <2>1, <2>3, <1>4
<1>5. CASE j.kind = "mark"
  <2> DEFINE f == [t \in DOMAIN j.read \cap j.ids |-> now]
  <2>1. Updated(j) = Over(f, j.read)
    BY <1>5 DEF Updated
  <2>2. DOMAIN f = DOMAIN j.read \cap j.ids /\ \A t \in DOMAIN f : f[t] \in Times
    BY <1>1
  <2> HIDE DEF f
  <2>3. DOMAIN f \subseteq Tasks
    BY <2>2, <1>2
  <2>4. /\ Over(f, j.read) \in Files
        /\ DOMAIN Over(f, j.read) = (DOMAIN j.read \cap j.ids) \cup DOMAIN j.read
    BY <2>2, <2>3, <1>1, OverInFiles, Zenon
  <2> QED BY <2>1, <2>4, <1>5
<1>6. CASE j.kind \notin {"add", "mark"}
  <2>1. Updated(j) = [t \in DOMAIN j.read \ j.ids |-> j.read[t]]
    BY <1>6 DEF Updated, Restrict
  <2>2. /\ DOMAIN Updated(j) = DOMAIN j.read \ j.ids
        /\ \A t \in DOMAIN Updated(j) : Updated(j)[t] \in Times
        /\ Updated(j) = [t \in DOMAIN Updated(j) |-> Updated(j)[t]]
    BY <2>1, <1>2
  <2> QED BY <2>2, <1>2, <1>6, FilesAre
<1> QED BY <1>4, <1>5, <1>6
-----------------------------------------------------------------------------
(* The steps of the scheduler.                                             *)

\* A step that leaves the file, the jobs and what fired alone keeps what depends on them.
LEMMA StartKeeps ==
  ASSUME CInv, NEW s \in Sessions, Start(s)
  PROVE  CInv'
<1> DEFINE missed == {t \in DOMAIN disk \cap OneShots : NextRun(t, createdAt[t]) < now}
<1>0. Types /\ Schedules /\ Flights /\ Fresh /\ Additions /\ Once /\ None \notin Sessions
  BY CronAssumption DEF CInv
<1>1. /\ s \notin up /\ up' = up \cup {s}
      /\ owner' = IF owner = None THEN s ELSE owner
      /\ tasks' = [tasks EXCEPT ![s] = disk]
      /\ nextFireAt' = [nextFireAt EXCEPT ![s] = [t \in missed |-> Never]]
      /\ jobs' = jobs \cup Job(s, "missed", missed)
      /\ UNCHANGED <<now, createdAt, disk, inFlight, stale, failures, crashes, fired, refired, undone, outrun>>
  BY DEF Start, timeVars, bounds
<1>2. missed \subseteq DOMAIN disk /\ DOMAIN disk \subseteq Tasks /\ DOMAIN disk \subseteq DOMAIN createdAt
  BY <1>0, FilesAre DEF Types, Fresh
<1> HIDE DEF missed
<1>3. \A j \in jobs' : j \in jobs \/ j = [by |-> s, kind |-> "missed", ids |-> missed, read |-> None]
  BY <1>1 DEF Job
<1>4. jobs \subseteq jobs'
  BY <1>1
<1>5. Types'
  <2>1. jobs' \subseteq Jobs
    BY <1>0, <1>2, <1>3 DEF Types, Jobs
  <2>2. tasks' \in [Sessions -> Files] /\ DOMAIN nextFireAt' = Sessions
    BY <1>0, <1>1 DEF Types
  <2> QED BY <2>1, <2>2, <1>0, <1>1 DEF Types
<1>6. Schedules'
  <2>1. nextFireAt'[s] = [t \in missed |-> Never] /\ \A u \in Sessions \ {s} : nextFireAt'[u] = nextFireAt[u]
    BY <1>0, <1>1 DEF Types
  <2> QED BY <2>1, <1>0, <1>1, <1>2 DEF Schedules, Types
<1>7. Flights'
  <2>1. \A j \in jobs' : Fires(j) => j \in jobs
    BY <1>3 DEF Fires
  <2>2. \A u \in Sessions : {i \in jobs' : i.by = u /\ Fires(i)} = {i \in jobs : i.by = u /\ Fires(i)}
    BY <2>1, <1>4
  <2>3. \A u \in Sessions : inFlight[u] # {} => owner' = u
    BY <1>0, <1>1 DEF Flights
  <2> QED BY <2>1, <2>2, <2>3, <1>0, <1>1, <1>3 DEF Flights
<1>8. Fresh'
  <2>1. \A u \in Sessions : tasks'[u] = IF u = s THEN disk ELSE tasks[u]
    BY <1>0, <1>1 DEF Types
  <2>2. \A j \in jobs' : j \in jobs \/ (j.ids = missed /\ j.read = None)
    BY <1>3
  <2>3. \A u \in Sessions : \A t \in Tasks : fired[u][t] # 0 => owner' = u
    BY <1>0, <1>1 DEF Fresh
  <2> QED BY <2>1, <2>2, <2>3, <1>0, <1>1, <1>2 DEF Fresh, Types
<1>9. Additions'
  <2>1. \A j \in jobs' : j.kind = "add" => j \in jobs
    BY <1>3
  <2>2. \A j \in jobs' : j.read # None => j \in jobs
    BY <1>3
  <2>3. \A u \in Sessions : tasks'[u] = IF u = s THEN disk ELSE tasks[u]
    BY <1>0, <1>1 DEF Types
  <2>4. \A t : IsNew(t) => IsNew(t)'
    BY <2>2, <2>3, <1>1 DEF IsNew
  <2> QED BY <2>1, <2>4, <1>0 DEF Additions
<1>10. Once'
  <2>1. ASSUME NEW u \in Sessions, NEW t \in Tasks, fired[u][t] # 0 PROVE u # s
    BY <2>1, <1>0, <1>1 DEF Fresh, Types
  <2>2. \A u \in Sessions \ {s} : nextFireAt'[u] = nextFireAt[u] /\ tasks'[u] = tasks[u]
    BY <1>0, <1>1 DEF Types
  <2> QED BY <2>1, <2>2, <1>0, <1>1, <1>4 DEF Once, Restrained
<1> QED BY <1>5, <1>6, <1>7, <1>8, <1>9, <1>10 DEF CInv

LEMMA TakeOverKeeps ==
  ASSUME CInv, NEW s \in Sessions, TakeOver(s)
  PROVE  CInv'
<1>0. Types /\ Schedules /\ Flights /\ Fresh /\ Additions /\ Once /\ None \notin Sessions
  BY CronAssumption DEF CInv
<1>1. /\ s \in up /\ owner = None /\ owner' = s
      /\ UNCHANGED <<now, createdAt, disk, up, tasks, nextFireAt, inFlight, stale, jobs, failures,
                     crashes, fired, refired, undone, outrun>>
  BY DEF TakeOver, timeVars, sessionVars, bounds, history
<1>2. Types' /\ Schedules'
  BY <1>0, <1>1 DEF Types, Schedules
<1>3. Flights'
  <2>1. \A u \in Sessions : inFlight[u] = {}
    BY <1>0, <1>1 DEF Flights
  <2> QED BY <2>1, <1>0, <1>1 DEF Flights
<1>4. Fresh'
  BY <1>0, <1>1 DEF Fresh
<1>5. Additions'
  BY <1>0, <1>1 DEF Additions, IsNew
<1>6. Once'
  BY <1>0, <1>1 DEF Once, Restrained
<1> QED BY <1>2, <1>3, <1>4, <1>5, <1>6 DEF CInv

LEMMA ReloadKeeps ==
  ASSUME CInv, NEW s \in Sessions, Reload(s)
  PROVE  CInv'
<1>0. Types /\ Schedules /\ Flights /\ Fresh /\ Additions /\ Once
  BY DEF CInv
<1>1. /\ s \in stale /\ tasks' = [tasks EXCEPT ![s] = disk] /\ stale' = stale \ {s}
      /\ UNCHANGED <<now, createdAt, disk, up, owner, nextFireAt, inFlight, jobs, failures,
                     crashes, fired, refired, undone, outrun>>
  BY DEF Reload, timeVars, bounds, history
<1>2. \A u \in Sessions : tasks'[u] = IF u = s THEN disk ELSE tasks[u]
  BY <1>0, <1>1 DEF Types
<1>3. Types'
  BY <1>0, <1>1 DEF Types
<1>4. Schedules' /\ Flights'
  BY <1>0, <1>1 DEF Schedules, Flights
<1>5. Fresh'
  BY <1>0, <1>1, <1>2 DEF Fresh, Types
<1>6. Additions'
  BY <1>0, <1>1, <1>2 DEF Additions, IsNew
<1>7. Once'
  BY <1>0, <1>1, <1>2 DEF Once, Restrained
<1> QED BY <1>3, <1>4, <1>5, <1>6, <1>7 DEF CInv

LEMMA CrashKeeps ==
  ASSUME CInv, NEW s \in Sessions, Crash(s)
  PROVE  CInv'
<1>0. Types /\ Schedules /\ Flights /\ Fresh /\ Additions /\ Once /\ None \notin Sessions
  BY CronAssumption DEF CInv
<1>1. /\ s \in up /\ crashes < MaxCrashes /\ crashes' = crashes + 1
      /\ up' = up \ {s} /\ stale' = stale \ {s}
      /\ owner' = IF owner = s THEN None ELSE owner
      /\ tasks' = [tasks EXCEPT ![s] = Empty]
      /\ nextFireAt' = [nextFireAt EXCEPT ![s] = Empty]
      /\ inFlight' = [inFlight EXCEPT ![s] = {}]
      /\ jobs' = {j \in jobs : j.by # s}
      /\ fired' = [fired EXCEPT ![s] = [t \in Tasks |-> 0]]
      /\ UNCHANGED <<now, createdAt, disk, failures, refired, undone, outrun>>
  BY DEF Crash, timeVars
<1>2. Empty \in Files /\ DOMAIN Empty = {} /\ Empty = [t \in DOMAIN Empty |-> Empty[t]]
  <2>1. DOMAIN Empty = {} /\ Empty = [t \in DOMAIN Empty |-> Empty[t]]
    BY DEF Empty
  <2> QED BY <2>1, FilesAre
<1>3. 0 \in Times /\ MaxCrashes \in Nat
  BY CronAssumption DEF Times
<1>4. /\ \A u \in Sessions : tasks'[u] = IF u = s THEN Empty ELSE tasks[u]
      /\ \A u \in Sessions : nextFireAt'[u] = IF u = s THEN Empty ELSE nextFireAt[u]
      /\ \A u \in Sessions : inFlight'[u] = IF u = s THEN {} ELSE inFlight[u]
      /\ \A u \in Sessions \ {s} : fired'[u] = fired[u]
      /\ \A t \in Tasks : fired'[s][t] = 0
  BY <1>0, <1>1 DEF Types
<1>5. Types'
  BY <1>0, <1>1, <1>2, <1>3 DEF Types
<1>6. Schedules'
  <2>1. \A u \in Sessions : DOMAIN nextFireAt'[u] \subseteq Tasks
    BY <1>0, <1>2, <1>4 DEF Schedules
  <2>2. DOMAIN nextFireAt' = Sessions
    BY <1>0, <1>1 DEF Types
  <2>3. nextFireAt' = [u \in Sessions |-> nextFireAt'[u]]
    BY <1>0, <1>1, <2>2 DEF Schedules
  <2> QED BY <2>1, <2>3 DEF Schedules
<1>7. Flights'
  <2>1. \A u \in Sessions \ {s} : {i \in jobs' : i.by = u /\ Fires(i)} = {i \in jobs : i.by = u /\ Fires(i)}
    BY <1>1
  <2>2. {i \in jobs' : i.by = s /\ Fires(i)} = {}
    BY <1>1
  <2>3. \A u \in Sessions :
          /\ inFlight'[u] = UNION {j.ids : j \in {i \in jobs' : i.by = u /\ Fires(i)}}
          /\ inFlight'[u] # {} => owner' = u
    BY <2>1, <2>2, <1>0, <1>1, <1>4 DEF Flights
  <2> QED BY <2>3, <1>0, <1>1 DEF Flights, Types
<1>8. Fresh'
  BY <1>0, <1>1, <1>2, <1>4 DEF Fresh, Types
<1>9. Additions'
  <2>1. \A t \in Tasks : IsNew(t) => IsNew(t)'
    BY <1>1, <1>2, <1>4 DEF IsNew
  <2>2. \A j \in jobs : j.ids \subseteq Tasks
    BY <1>0 DEF Types, Jobs
  <2> QED BY <2>1, <2>2, <1>0, <1>1 DEF Additions
<1>10. Once'
  <2> SUFFICES ASSUME NEW u \in Sessions, NEW t \in Tasks \ undone, fired'[u][t] # 0
               PROVE  Restrained(u, t)' /\ (t \in DOMAIN disk => t \in DOMAIN tasks'[u])
    BY <1>0, <1>1 DEF Once
  <2>1. /\ u # s /\ fired[u][t] # 0 /\ fired'[u] = fired[u]
        /\ nextFireAt'[u] = nextFireAt[u] /\ tasks'[u] = tasks[u]
    BY <1>4
  <2> QED BY <2>1, <1>0, <1>1 DEF Once, Restrained
<1> QED BY <1>5, <1>6, <1>7, <1>8, <1>9, <1>10 DEF CInv

LEMMA CheckKeeps ==
  ASSUME CInv, NEW s \in Sessions, Check(s)
  PROVE  CInv'
<1> DEFINE due == DueTasks(s)
           gone == {t \in due : t \in OneShots \/ Aged(t)}
           again == due \ gone
           new == Job(s, "mark", again) \cup UNION {Job(s, "fired", {t}) : t \in gone}
           more == FiredAgain(s)
<1>0. Types /\ Schedules /\ Flights /\ Fresh /\ Additions /\ Once /\ OneShots \cap Recurring = {}
  BY CronAssumption DEF CInv
<1>1. /\ s \in up
      /\ nextFireAt' = [nextFireAt EXCEPT ![s] = Reschedule(s, again, gone)]
      /\ jobs' = jobs \cup new
      /\ inFlight' = [inFlight EXCEPT ![s] = @ \cup gone \cup again]
      /\ fired' = [fired EXCEPT ![s] = Over([t \in gone \cup again |-> now], @)]
      /\ refired' = refired \cup more /\ outrun' = outrun \cup (more \ DOMAIN disk)
      /\ UNCHANGED <<now, createdAt, disk, up, owner, tasks, stale, failures, crashes, undone>>
  <2>1. jobs' = (jobs \cup Job(s, "mark", again)) \cup UNION {Job(s, "fired", {t}) : t \in gone}
    BY DEF Check
  <2>2. jobs' = jobs \cup new
    BY <2>1
  <2> QED BY <2>2 DEF Check, timeVars, bounds
<1>2. /\ due \subseteq DOMAIN tasks[s] /\ due \cap inFlight[s] = {} /\ (due # {} => owner = s)
      /\ \A t \in due : FireTime(s, t) <= now
      /\ DOMAIN tasks[s] \subseteq Tasks /\ DOMAIN tasks[s] \subseteq DOMAIN createdAt
      /\ more \subseteq due
  BY <1>0, <1>1, FilesAre DEF DueTasks, FiredAgain, Types, Fresh
<1>3. gone \subseteq due /\ again \subseteq due /\ gone \cup again = due /\ gone \cap again = {}
      /\ again \subseteq Recurring
  BY <1>2 DEF Tasks
<1>4. /\ \A j \in new : /\ j \in Jobs /\ j.by = s /\ j.read = None /\ j.ids \subseteq due
                        /\ \/ j.kind = "fired" /\ \E t \in gone : j.ids = {t}
                           \/ j.kind = "mark" /\ j.ids = again
      /\ \A t \in gone : \E j \in new : j.by = s /\ j.kind = "fired" /\ t \in j.ids
      /\ UNION {j.ids : j \in new} = due
  <2> HIDE DEF due, gone, again
  <2> DEFINE F(t) == [by |-> s, kind |-> "fired", ids |-> {t}, read |-> None]
             M == [by |-> s, kind |-> "mark", ids |-> again, read |-> None]
  <2>1. \A t \in gone : Job(s, "fired", {t}) = {F(t)}
    BY DEF Job
  <2>2. Job(s, "mark", again) = IF again = {} THEN {} ELSE {M}
    BY DEF Job
  <2> HIDE DEF F, M
  <2> DEFINE fs == UNION {Job(s, "fired", {t}) : t \in gone}
             ms == Job(s, "mark", again)
  <2>3. new = ms \cup fs /\ \A x : x \in fs <=> \E t \in gone : x \in {F(t)}
    <3>1. new = ms \cup fs
      OBVIOUS
    <3>2. \A x : x \in fs <=> \E t \in gone : x \in Job(s, "fired", {t})
      OBVIOUS
    <3> HIDE DEF fs, new
    <3>3. ASSUME NEW x, NEW t \in gone PROVE x \in Job(s, "fired", {t}) <=> x \in {F(t)}
      BY <2>1, Zenon
    <3> QED BY <3>1, <3>2, <3>3, Zenon
  <2>4. (again = {} => ms = {}) /\ (again # {} => ms = {M})
    BY <2>2
  <2> HIDE DEF fs, ms, new
  <2>5. \A j \in new : (\E t \in gone : j = F(t)) \/ (again # {} /\ j = M)
    BY <2>3, <2>4
  <2>6. \A t \in gone : F(t) \in new
    BY <2>3
  <2>7. again # {} => M \in new
    BY <2>3, <2>4
  <2>8. /\ \A t \in gone : F(t) \in Jobs /\ F(t).by = s /\ F(t).kind = "fired" /\ F(t).ids = {t} /\ F(t).read = None
        /\ M \in Jobs /\ M.by = s /\ M.kind = "mark" /\ M.ids = again /\ M.read = None
    BY <1>2, <1>3 DEF Jobs, F, M
  <2>9. \A t \in due : \E j \in new : t \in j.ids
    BY <1>3, <2>6, <2>7, <2>8
  <2>10. \A j \in new : /\ j \in Jobs /\ j.by = s /\ j.read = None /\ j.ids \subseteq due
                       /\ \/ j.kind = "fired" /\ \E t \in gone : j.ids = {t}
                          \/ j.kind = "mark" /\ j.ids = again
    BY <1>3, <2>5, <2>8
  <2> QED BY <2>6, <2>8, <2>9, <2>10
<1>5. /\ \A u \in Sessions \ {s} : /\ fired'[u] = fired[u] /\ nextFireAt'[u] = nextFireAt[u]
                                   /\ inFlight'[u] = inFlight[u]
      /\ nextFireAt'[s] = Reschedule(s, again, gone) /\ inFlight'[s] = inFlight[s] \cup due
      /\ fired' \in [Sessions -> [Tasks -> Times]]
      /\ \A t \in Tasks : fired'[s][t] = IF t \in due THEN now ELSE fired[s][t]
      /\ inFlight' \in [Sessions -> SUBSET Tasks] /\ DOMAIN nextFireAt' = Sessions
      /\ nextFireAt' = [u \in Sessions |-> nextFireAt'[u]]
  <2> HIDE DEF due, gone, again, new, more
  <2>1. /\ fired \in [Sessions -> [Tasks -> Times]] /\ inFlight \in [Sessions -> SUBSET Tasks]
        /\ DOMAIN nextFireAt = Sessions /\ nextFireAt = [u \in Sessions |-> nextFireAt[u]]
        /\ now \in Times
    BY <1>0 DEF Types, Schedules
  <2>2. Over([t \in gone \cup again |-> now], fired[s])
          = [t \in Tasks |-> IF t \in due THEN now ELSE fired[s][t]]
    BY <2>1, <1>2, <1>3 DEF Over
  <2>3. [t \in Tasks |-> IF t \in due THEN now ELSE fired[s][t]] \in [Tasks -> Times]
    BY <2>1
  <2>4. /\ fired' = [fired EXCEPT ![s] = [t \in Tasks |-> IF t \in due THEN now ELSE fired[s][t]]]
        /\ inFlight' = [inFlight EXCEPT ![s] = inFlight[s] \cup due]
    BY <1>1, <1>3, <2>2
  <2>5. /\ fired' \in [Sessions -> [Tasks -> Times]] /\ inFlight' \in [Sessions -> SUBSET Tasks]
        /\ fired'[s] = [t \in Tasks |-> IF t \in due THEN now ELSE fired[s][t]]
        /\ inFlight'[s] = inFlight[s] \cup due
        /\ \A u \in Sessions \ {s} : fired'[u] = fired[u] /\ inFlight'[u] = inFlight[u]
    BY <1>2, <2>1, <2>3, <2>4
  <2>6. /\ DOMAIN nextFireAt' = Sessions /\ nextFireAt'[s] = Reschedule(s, again, gone)
        /\ \A u \in Sessions \ {s} : nextFireAt'[u] = nextFireAt[u]
        /\ nextFireAt' = [u \in Sessions |-> nextFireAt'[u]]
    BY <1>1, <2>1
  <2> QED BY <2>5, <2>6
<1> HIDE DEF new
<1>6. DOMAIN Reschedule(s, again, gone) \subseteq Tasks
  BY <1>2 DEF Reschedule
<1>7. Types'
  <2>1. jobs' \subseteq Jobs /\ refired' \subseteq Tasks /\ outrun' \subseteq Tasks
    BY <1>0, <1>1, <1>2, <1>3, <1>4 DEF Types
  <2> QED BY <2>1, <1>0, <1>1, <1>5 DEF Types
<1>8. Schedules'
  BY <1>0, <1>5, <1>6 DEF Schedules
<1> HIDE DEF due, gone, again
<1>9. Flights'
  <2>1. \A u \in Sessions \ {s} : {i \in jobs' : i.by = u /\ Fires(i)} = {i \in jobs : i.by = u /\ Fires(i)}
    BY <1>1, <1>4
  <2>2. {i \in jobs' : i.by = s /\ Fires(i)} = {i \in jobs : i.by = s /\ Fires(i)} \cup new
    BY <1>1, <1>4 DEF Fires
  <2>3. UNION {j.ids : j \in {i \in jobs : i.by = s /\ Fires(i)} \cup new} = inFlight[s] \cup due
    BY <1>0, <1>4 DEF Flights
  <2>4. ASSUME NEW i \in jobs', NEW j \in jobs', i # j, i.by = j.by, Fires(i), Fires(j)
        PROVE  i.ids \cap j.ids = {}
    <3>1. CASE i \in jobs /\ j \in jobs
      BY <3>1, <2>4, <1>0 DEF Flights
    <3>2. CASE i \in jobs /\ j \in new
      <4>1. i.ids \subseteq inFlight[s] /\ j.ids \subseteq due
        BY <3>2, <2>4, <1>0, <1>4 DEF Flights
      <4> QED BY <4>1, <1>2
    <3>3. CASE i \in new /\ j \in jobs
      <4>1. j.ids \subseteq inFlight[s] /\ i.ids \subseteq due
        BY <3>3, <2>4, <1>0, <1>4 DEF Flights
      <4> QED BY <4>1, <1>2
    <3>4. CASE i \in new /\ j \in new
      <4>1. i \in Jobs /\ j \in Jobs /\ i.read = j.read
        BY <3>4, <1>4
      <4>2. i.ids # j.ids \/ i.kind # j.kind
        BY <4>1, <2>4 DEF Jobs
      <4>3. CASE i.kind = "fired" /\ j.kind = "fired"
        <5>1. PICK t \in gone, u \in gone : i.ids = {t} /\ j.ids = {u}
          BY <4>3, <3>4, <1>4
        <5> QED BY <5>1, <4>2, <4>3
      <4>4. CASE i.kind = "mark" /\ j.kind = "mark"
        BY <4>2, <4>4, <3>4, <1>4
      <4>5. CASE i.kind # j.kind
        BY <4>5, <3>4, <1>3, <1>4
      <4> QED BY <4>3, <4>4, <4>5, <3>4, <1>4
    <3> QED BY <3>1, <3>2, <3>3, <3>4, <1>1
  <2>5. \A u \in Sessions :
          /\ inFlight'[u] = UNION {j.ids : j \in {i \in jobs' : i.by = u /\ Fires(i)}}
          /\ inFlight'[u] # {} => owner' = u
    BY <2>1, <2>2, <2>3, <1>0, <1>1, <1>2, <1>5 DEF Flights
  <2>6. \A j \in jobs' : j.by \in up'
    BY <1>0, <1>1, <1>4 DEF Flights
  <2> QED BY <2>4, <2>5, <2>6 DEF Flights
<1>10. Fresh'
  <2>1. \A u \in Sessions : \A t \in Tasks : fired'[u][t] # 0 => owner = u /\ t \in DOMAIN createdAt
    BY <1>0, <1>2, <1>5 DEF Fresh
  <2>2. \A j \in jobs' : /\ j.ids \subseteq DOMAIN createdAt
                         /\ j.read # None => DOMAIN j.read \subseteq DOMAIN createdAt
    BY <1>0, <1>1, <1>2, <1>4 DEF Fresh
  <2> QED BY <2>1, <2>2, <1>0, <1>1 DEF Fresh
<1>11. Additions'
  <2>1. \A j \in jobs' : j.kind = "add" \/ j.read # None => j \in jobs
    BY <1>1, <1>4
  <2>2. \A j \in jobs : j.ids \subseteq Tasks
    BY <1>0 DEF Types, Jobs
  <2>3. \A t \in Tasks : IsNew(t) => IsNew(t)'
    BY <2>1, <1>1, <1>2, <1>5 DEF IsNew
  <2> QED BY <2>1, <2>2, <2>3, <1>0 DEF Additions
<1>12. Once'
  <2>1. /\ refired \subseteq undone \cup outrun
        /\ \A u \in Sessions : \A t \in Tasks \ undone :
             fired[u][t] # 0 => Restrained(u, t) /\ (t \in DOMAIN disk => t \in DOMAIN tasks[u])
    BY <1>0 DEF Once
  <2>2. ASSUME NEW t \in more, t \notin undone PROVE t \notin DOMAIN disk
    <3>0. t \in due /\ fired[s][t] # 0 /\ (t \in OneShots \/ now < NextRun(t, fired[s][t]))
      BY <2>2, <1>2 DEF FiredAgain
    <3> SUFFICES ASSUME t \in DOMAIN disk PROVE FALSE
      OBVIOUS
    <3>1. Restrained(s, t) /\ t \in Tasks
      BY <2>1, <2>2, <3>0, <1>2
    <3>2. t \notin inFlight[s]
      BY <3>0, <1>2
    <3>3. ~\E j \in jobs : j.by = s /\ j.kind = "fired" /\ t \in j.ids
      BY <3>2, <1>0 DEF Flights, Fires
    <3>4. /\ t \in Recurring /\ t \in DOMAIN nextFireAt[s]
          /\ nextFireAt[s][t] = NextRun(t, fired[s][t])
      BY <3>1, <3>3 DEF Restrained
    <3>5. NextRun(t, fired[s][t]) <= now
      BY <3>0, <3>4, <1>2 DEF FireTime
    <3>6. fired[s][t] \in Nat /\ now \in Nat
      BY <3>1, <1>0, CronAssumption DEF Types, Times
    <3>7. NextRun(t, fired[s][t]) \in Int
      BY <3>1, <3>6, NextRunIs
    <3> QED BY <3>0, <3>4, <3>5, <3>6, <3>7, <1>0
  <2>3. refired' \subseteq undone \cup outrun'
    BY <2>1, <2>2, <1>1
  <2>4. ASSUME NEW u \in Sessions, NEW t \in Tasks \ undone, fired'[u][t] # 0 PROVE Restrained(u, t)'
    <3>1. CASE u # s
      BY <3>1, <2>1, <2>4, <1>1, <1>5 DEF Restrained
    <3>2. CASE u = s /\ t \in gone
      BY <3>2, <1>1, <1>4 DEF Restrained
    <3>3. CASE u = s /\ t \in again
      <4>1. /\ t \in DOMAIN Reschedule(s, again, gone)
            /\ Reschedule(s, again, gone)[t] = NextRun(t, now)
        BY <3>3, <1>2, <1>3 DEF Reschedule
      <4>2. t \in Recurring /\ fired'[s][t] = now /\ NextRun(t, fired'[s][t]) = NextRun(t, now)
        BY <3>3, <1>2, <1>3, <1>5
      <4> QED BY <4>1, <4>2, <3>3, <1>5 DEF Restrained, NextRun
    <3>4. CASE u = s /\ t \notin due
      <4>1. fired'[s][t] = fired[s][t] /\ fired[s][t] # 0 /\ owner = s
        BY <3>4, <2>4, <1>0, <1>5 DEF Fresh
      <4>2. Restrained(s, t)
        BY <4>1, <2>1
      <4>3. CASE t \in DOMAIN disk /\ t \in Recurring /\ t \in DOMAIN nextFireAt[s]
                 /\ nextFireAt[s][t] = NextRun(t, fired[s][t])
        <5>1. t \in DOMAIN tasks[s] /\ t \notin gone /\ t \notin again
          BY <2>1, <2>4, <4>1, <4>3, <3>4, <1>3
        <5>2. /\ t \in DOMAIN Reschedule(s, again, gone)
              /\ Reschedule(s, again, gone)[t] = nextFireAt[s][t]
          BY <5>1, <4>1, <4>3 DEF Reschedule, FireTime
        <5> QED BY <5>2, <4>1, <4>3, <3>4, <1>5 DEF Restrained, NextRun
      <4> QED BY <4>2, <4>3, <3>4, <1>1 DEF Restrained
    <3> QED BY <3>1, <3>2, <3>3, <3>4, <1>3
  <2>5. ASSUME NEW u \in Sessions, NEW t \in Tasks \ undone, fired'[u][t] # 0, t \in DOMAIN disk
        PROVE  t \in DOMAIN tasks[u]
    BY <2>1, <2>5, <1>2, <1>5
  <2> QED BY <2>3, <2>4, <2>5, <1>1 DEF Once
<1> QED BY <1>7, <1>8, <1>9, <1>10, <1>11, <1>12 DEF CInv
-----------------------------------------------------------------------------
(* The steps on the file.                                                  *)

LEMMA CreateKeeps ==
  ASSUME CInv, NEW s \in Sessions, NEW t \in Tasks, Create(s, t)
  PROVE  CInv'
<1> DEFINE new == [by |-> s, kind |-> "add", ids |-> {t}, read |-> None]
<1>0. Types /\ Schedules /\ Flights /\ Fresh /\ Additions /\ Once
  BY DEF CInv
<1>1. /\ s \in up /\ t \notin DOMAIN createdAt
      /\ createdAt' = Over([u \in {t} |-> now], createdAt)
      /\ jobs' = jobs \cup {new}
      /\ UNCHANGED <<now, disk, up, owner, tasks, nextFireAt, inFlight, stale, failures, crashes,
                     fired, refired, undone, outrun>>
  BY DEF Create, Job, sessionVars, bounds, history
<1>2. new \in Jobs /\ new.by = s /\ new.kind = "add" /\ new.ids = {t} /\ new.read = None
  BY DEF Jobs
<1> HIDE DEF new
<1>3. createdAt' \in Files /\ DOMAIN createdAt' = {t} \cup DOMAIN createdAt
  <2> DEFINE f == [u \in {t} |-> now]
  <2>1. DOMAIN f = {t} /\ \A u \in DOMAIN f : f[u] \in Times
    BY <1>0 DEF Types
  <2>2. createdAt \in Files /\ createdAt' = Over(f, createdAt) /\ DOMAIN f \subseteq Tasks
    BY <1>0, <1>1 DEF Types
  <2> HIDE DEF f
  <2>3. /\ Over(f, createdAt) \in Files /\ DOMAIN Over(f, createdAt) = DOMAIN f \cup DOMAIN createdAt
    BY <2>1, <2>2, OverInFiles, Zenon
  <2> QED BY <2>1, <2>2, <2>3
<1>4. Types' /\ Schedules'
  BY <1>0, <1>1, <1>2, <1>3 DEF Types, Schedules
<1>5. Flights'
  <2>1. \A u \in Sessions : {i \in jobs' : i.by = u /\ Fires(i)} = {i \in jobs : i.by = u /\ Fires(i)}
    BY <1>1, <1>2 DEF Fires
  <2> QED BY <2>1, <1>0, <1>1, <1>2 DEF Flights, Fires
<1>6. Fresh'
  BY <1>0, <1>1, <1>2, <1>3 DEF Fresh
<1>7. IsNew(t)
  BY <1>0, <1>1 DEF IsNew, Fresh
<1>8. Additions'
  <2>1. \A u : IsNew(u) => IsNew(u)'
    BY <1>1, <1>2 DEF IsNew
  <2>2. \A j \in jobs : t \notin j.ids
    BY <1>0, <1>1 DEF Fresh
  <2> QED BY <2>1, <2>2, <1>0, <1>1, <1>2, <1>7 DEF Additions
<1>9. Once'
  BY <1>0, <1>1 DEF Once, Restrained
<1> QED BY <1>4, <1>5, <1>6, <1>8, <1>9 DEF CInv

LEMMA DeleteKeeps ==
  ASSUME CInv, NEW s \in Sessions, NEW t \in Tasks, Delete(s, t)
  PROVE  CInv'
<1> DEFINE new == [by |-> s, kind |-> "delete", ids |-> {t}, read |-> None]
<1>0. Types /\ Schedules /\ Flights /\ Fresh /\ Additions /\ Once
  BY DEF CInv
<1>1. /\ s \in up /\ t \in DOMAIN disk
      /\ jobs' = jobs \cup {new}
      /\ UNCHANGED <<now, createdAt, disk, up, owner, tasks, nextFireAt, inFlight, stale, failures,
                     crashes, fired, refired, undone, outrun>>
  BY DEF Delete, Job, timeVars, sessionVars, bounds, history
<1>2. new \in Jobs /\ new.by = s /\ new.kind = "delete" /\ new.ids = {t} /\ new.read = None
  BY DEF Jobs
<1> HIDE DEF new
<1>3. Types' /\ Schedules'
  BY <1>0, <1>1, <1>2 DEF Types, Schedules
<1>4. Flights'
  <2>1. \A u \in Sessions : {i \in jobs' : i.by = u /\ Fires(i)} = {i \in jobs : i.by = u /\ Fires(i)}
    BY <1>1, <1>2 DEF Fires
  <2> QED BY <2>1, <1>0, <1>1, <1>2 DEF Flights, Fires
<1>5. Fresh'
  BY <1>0, <1>1, <1>2 DEF Fresh
<1>6. Additions'
  <2>1. \A u : IsNew(u) => IsNew(u)'
    BY <1>1, <1>2 DEF IsNew
  <2> QED BY <2>1, <1>0, <1>1, <1>2 DEF Additions
<1>7. Once'
  BY <1>0, <1>1 DEF Once, Restrained
<1> QED BY <1>3, <1>4, <1>5, <1>6, <1>7 DEF CInv

\* A job that is over takes its tasks out of flight, and only these.
LEMMA SettledIs ==
  ASSUME Types, Flights, NEW j \in jobs, Settled(j), UNCHANGED <<up, owner>>
  PROVE  /\ jobs' = jobs \ {j} /\ inFlight' \in [Sessions -> SUBSET Tasks] /\ Flights'
<1>1. jobs' = jobs \ {j} /\ j.by \in Sessions /\ j.ids \subseteq Tasks
  BY DEF Settled, Types, Jobs
<1>2. /\ inFlight' \in [Sessions -> SUBSET Tasks]
      /\ \A u \in Sessions : inFlight'[u] = IF Fires(j) /\ u = j.by THEN inFlight[u] \ j.ids ELSE inFlight[u]
  BY <1>1 DEF Settled, Types, Fires
<1>3. ASSUME NEW u \in Sessions
      PROVE  /\ inFlight'[u] = UNION {i.ids : i \in {k \in jobs' : k.by = u /\ Fires(k)}}
             /\ inFlight'[u] # {} => owner' = u
  <2>1. /\ inFlight[u] = UNION {i.ids : i \in {k \in jobs : k.by = u /\ Fires(k)}}
        /\ inFlight[u] # {} => owner = u
    BY DEF Flights
  <2>2. \A i \in jobs \ {j} : i.by = j.by /\ Fires(i) /\ Fires(j) => i.ids \cap j.ids = {}
    BY DEF Flights
  <2> QED BY <1>1, <1>2, <2>1, <2>2
<1>4. Flights'
  BY <1>1, <1>3 DEF Flights
<1> QED BY <1>1, <1>2, <1>4

\* What the end of a job that changes nothing keeps.
LEMMA EndKeeps ==
  ASSUME CInv, NEW j \in jobs, Settled(j),
         j.kind # "fired" \/ j.ids \cap DOMAIN disk = {} \/ j.ids \subseteq undone',
         undone \subseteq undone', undone' \subseteq Tasks, failures' \in 0..MaxFailures,
         UNCHANGED <<now, createdAt, disk, up, owner, tasks, nextFireAt, stale, crashes, fired,
                     refired, outrun>>
  PROVE  CInv'
<1>0. Types /\ Schedules /\ Flights /\ Fresh /\ Additions /\ Once
  BY DEF CInv
<1>1. jobs' = jobs \ {j} /\ inFlight' \in [Sessions -> SUBSET Tasks] /\ Flights'
  BY <1>0, SettledIs
<1>2. Types' /\ Schedules' /\ Fresh'
  BY <1>0, <1>1 DEF Types, Schedules, Fresh
<1>3. Additions'
  BY <1>0, <1>1 DEF Additions, IsNew
<1>4. Once'
  <2> SUFFICES ASSUME NEW s \in Sessions, NEW t \in Tasks \ undone', fired[s][t] # 0
               PROVE  Restrained(s, t)'
    BY <1>0 DEF Once
  <2>1. Restrained(s, t) /\ t \notin undone
    BY <1>0 DEF Once
  <2> QED BY <2>1, <1>1 DEF Restrained
<1> QED BY <1>1, <1>2, <1>3, <1>4 DEF CInv

LEMMA JobReadsKeeps ==
  ASSUME CInv, NEW j \in jobs, JobReads(j)
  PROVE  CInv'
<1> DEFINE k == [j EXCEPT !.read = disk]
<1>0. Types /\ Schedules /\ Flights /\ Fresh /\ Additions /\ Once
  BY DEF CInv
<1>1. /\ j.read = None
      /\ UNCHANGED <<now, createdAt, disk, up, owner, tasks, nextFireAt, stale, failures, crashes,
                     fired, refired, undone, outrun>>
  BY DEF JobReads, timeVars, sessionVars, bounds, history
<1>2. CASE j.kind # "add" /\ j.ids \cap DOMAIN disk = {}
  <2>1. Settled(j) /\ failures' \in 0..MaxFailures /\ undone' \subseteq Tasks
    BY <1>0, <1>1, <1>2 DEF JobReads, Types
  <2> QED BY <1>1, <1>2, <2>1, EndKeeps
<1>3. CASE j.kind = "add" \/ j.ids \cap DOMAIN disk # {}
  <2>1. jobs' = (jobs \ {j}) \cup {k} /\ inFlight' = inFlight
    BY <1>3 DEF JobReads
  <2>2. /\ k \in Jobs /\ k.by = j.by /\ k.kind = j.kind /\ k.ids = j.ids /\ k.read = disk
        /\ (Fires(k) <=> Fires(j))
    BY <1>0 DEF Types, Jobs, Fires
  <2> HIDE DEF k
  <2>3. Types' /\ Schedules'
    BY <1>0, <1>1, <2>1, <2>2 DEF Types, Schedules
  <2>4. Flights'
    <3>1. ASSUME NEW u \in Sessions
          PROVE  UNION {i.ids : i \in {h \in jobs' : h.by = u /\ Fires(h)}}
                   = UNION {i.ids : i \in {h \in jobs : h.by = u /\ Fires(h)}}
      BY <2>1, <2>2
    <3>2. \A h \in jobs', i \in jobs' :
            h # i /\ h.by = i.by /\ Fires(h) /\ Fires(i) => h.ids \cap i.ids = {}
      BY <1>0, <2>1, <2>2 DEF Flights
    <3>3. \A h \in jobs' : h.by \in up'
      BY <1>0, <1>1, <2>1, <2>2 DEF Flights
    <3> QED BY <3>1, <3>2, <3>3, <1>0, <1>1, <2>1 DEF Flights
  <2>5. Fresh'
    BY <1>0, <1>1, <2>1, <2>2 DEF Fresh
  <2>6. Additions'
    <3>1. \A u : IsNew(u) => IsNew(u)'
      BY <1>1, <2>1, <2>2 DEF IsNew
    <3> QED BY <3>1, <1>0, <2>1, <2>2 DEF Additions
  <2>7. Once'
    <3>1. \A s, t : Restrained(s, t) => Restrained(s, t)'
      BY <1>1, <2>1, <2>2 DEF Restrained, NextRun
    <3> QED BY <3>1, <1>0, <1>1 DEF Once
  <2> QED BY <2>3, <2>4, <2>5, <2>6, <2>7 DEF CInv
<1> QED BY <1>2, <1>3

LEMMA JobWritesKeeps ==
  ASSUME CInv, NEW j \in jobs, JobWrites(j)
  PROVE  CInv'
<1>0. Types /\ Schedules /\ Flights /\ Fresh /\ Additions /\ Once
  BY DEF CInv
<1>1. /\ j.read # None /\ disk' = Updated(j) /\ stale' = up
      /\ undone' = undone \cup
           ((DOMAIN disk' \ DOMAIN disk) \ (IF j.kind = "add" THEN j.ids ELSE {}))
      /\ Settled(j)
      /\ UNCHANGED <<now, createdAt, up, owner, tasks, nextFireAt, failures, crashes, fired, refired,
                     outrun>>
  BY DEF JobWrites, timeVars, sessionVars, bounds, history
<1>2. jobs' = jobs \ {j} /\ inFlight' \in [Sessions -> SUBSET Tasks] /\ Flights'
  BY <1>0, <1>1, SettledIs
<1>3. /\ disk' \in Files
      /\ DOMAIN disk' \subseteq DOMAIN j.read \cup (IF j.kind = "add" THEN j.ids ELSE {})
      /\ j.kind = "fired" => DOMAIN disk' \cap j.ids = {}
  BY <1>0, <1>1, UpdatedIs
<1>4. Types' /\ Schedules'
  <2>1. undone' \subseteq Tasks
    BY <1>0, <1>1, <1>3, FilesAre DEF Types
  <2> QED BY <2>1, <1>0, <1>1, <1>2, <1>3 DEF Types, Schedules
<1>5. Fresh'
  BY <1>0, <1>1, <1>2, <1>3 DEF Fresh
<1>6. Additions'
  <2>1. ASSUME NEW i \in jobs', i.kind = "add", NEW t \in i.ids PROVE IsNew(t)'
    <3>1. i \in jobs /\ i # j /\ IsNew(t) /\ (j.kind = "add" => t \notin j.ids)
      BY <2>1, <1>0, <1>2 DEF Additions
    <3> QED BY <3>1, <1>1, <1>2, <1>3 DEF IsNew
  <2> QED BY <2>1, <1>0, <1>2 DEF Additions
<1>7. Once'
  <2> SUFFICES ASSUME NEW s \in Sessions, NEW t \in Tasks \ undone', fired[s][t] # 0
               PROVE  Restrained(s, t)' /\ (t \in DOMAIN disk' => t \in DOMAIN tasks[s])
    BY <1>0, <1>1 DEF Once
  <2>1. t \notin undone /\ Restrained(s, t) /\ (t \in DOMAIN disk => t \in DOMAIN tasks[s])
    BY <1>0, <1>1 DEF Once
  <2>2. j.kind = "add" => t \notin j.ids
    BY <1>0 DEF Additions, IsNew
  <2>3. t \notin DOMAIN disk => t \notin DOMAIN disk'
    BY <1>1, <2>2
  <2> QED BY <2>1, <2>3, <1>1, <1>2, <1>3 DEF Restrained, NextRun
<1> QED BY <1>2, <1>4, <1>5, <1>6, <1>7 DEF CInv

LEMMA JobFailsKeeps ==
  ASSUME CInv, NEW j \in jobs, JobFails(j)
  PROVE  CInv'
<1>1. /\ failures < MaxFailures /\ failures' = failures + 1 /\ Settled(j)
      /\ undone' = undone \cup (IF j.kind = "fired" THEN j.ids ELSE {})
      /\ UNCHANGED <<now, createdAt, disk, up, owner, tasks, nextFireAt, stale, crashes, fired,
                     refired, outrun>>
  BY DEF JobFails, timeVars, sessionVars, history
<1>2. failures \in 0..MaxFailures /\ MaxFailures \in Nat /\ undone \subseteq Tasks /\ j.ids \subseteq Tasks
  BY CronAssumption DEF CInv, Types, Jobs
<1>3. failures' \in 0..MaxFailures /\ undone' \subseteq Tasks /\ undone \subseteq undone'
  BY <1>1, <1>2
<1>4. j.kind = "fired" => j.ids \subseteq undone'
  BY <1>1
<1> QED BY <1>1, <1>3, <1>4, EndKeeps

LEMMA AdvanceKeeps ==
  ASSUME CInv, Advance
  PROVE  CInv'
<1>0. Types /\ Schedules /\ Flights /\ Fresh /\ Additions /\ Once
  BY DEF CInv
<1>1. /\ now < MaxTime /\ now' = now + 1
      /\ UNCHANGED <<createdAt, disk, up, owner, tasks, nextFireAt, inFlight, stale, jobs, failures,
                     crashes, fired, refired, undone, outrun>>
  BY DEF Advance, sessionVars, bounds, history
<1>2. now' \in Times
  BY <1>0, <1>1, CronAssumption DEF Types, Times
<1>3. Types' /\ Schedules' /\ Flights' /\ Fresh'
  BY <1>0, <1>1, <1>2 DEF Types, Schedules, Flights, Fresh
<1>4. Additions' /\ Once'
  BY <1>0, <1>1 DEF Additions, IsNew, Once, Restrained, NextRun
<1> QED BY <1>3, <1>4 DEF CInv
-----------------------------------------------------------------------------
(* The invariant of the scheduler.                                         *)

LEMMA CronStarts ==
  ASSUME Init
  PROVE  CInv
<1>1. /\ now = 0 /\ createdAt = [t \in Initial |-> 0] /\ disk = createdAt
      /\ up = {} /\ owner = None
      /\ tasks = [s \in Sessions |-> Empty] /\ nextFireAt = [s \in Sessions |-> Empty]
      /\ inFlight = [s \in Sessions |-> {}]
      /\ stale = {} /\ jobs = {} /\ failures = 0 /\ crashes = 0
      /\ fired = [s \in Sessions |-> [t \in Tasks |-> 0]] /\ refired = {}
      /\ undone = {} /\ outrun = {}
  BY DEF Init
<1>2. /\ Initial \subseteq Tasks /\ 0 \in Times /\ 0 \in 0..MaxFailures /\ 0 \in 0..MaxCrashes
  BY CronAssumption DEF Times
<1>3. Empty \in Files /\ DOMAIN Empty = {}
  <2>1. DOMAIN Empty = {} /\ Empty = [t \in DOMAIN Empty |-> Empty[t]]
    BY DEF Empty
  <2> QED BY <2>1, FilesAre
<1>4. createdAt \in Files /\ DOMAIN createdAt = Initial
  <2>1. DOMAIN createdAt = Initial /\ createdAt \in [Initial -> Times]
    BY <1>1, <1>2
  <2> QED BY <2>1, <1>2 DEF Files
<1>5. Types
  BY <1>1, <1>2, <1>3, <1>4 DEF Types
<1>6. Schedules
  BY <1>1, <1>3 DEF Schedules
<1>7. Flights
  BY <1>1 DEF Flights
<1>8. Fresh
  BY <1>1, <1>3 DEF Fresh
<1>9. Additions /\ Once
  BY <1>1 DEF Additions, Once
<1> QED BY <1>5, <1>6, <1>7, <1>8, <1>9 DEF CInv

LEMMA CronKeeps ==
  ASSUME CInv, [Next]_vars
  PROVE  CInv'
<1>1. CASE UNCHANGED vars
  BY <1>1 DEF vars, CInv, Types, Schedules, Flights, Fresh, Additions, IsNew, Once, Restrained, NextRun
<1>2. ASSUME NEW s \in Sessions,
             \/ Start(s) \/ TakeOver(s) \/ Reload(s) \/ Check(s) \/ Crash(s)
             \/ \E t \in Tasks : Create(s, t) \/ Delete(s, t)
      PROVE  CInv'
  BY <1>2, StartKeeps, TakeOverKeeps, ReloadKeeps, CheckKeeps, CrashKeeps, CreateKeeps, DeleteKeeps
<1>3. ASSUME NEW j \in jobs, JobReads(j) \/ JobWrites(j) \/ JobFails(j)
      PROVE  CInv'
  BY <1>3, JobReadsKeeps, JobWritesKeeps, JobFailsKeeps
<1>4. CASE Advance
  BY <1>4, AdvanceKeeps
<1> QED BY <1>1, <1>2, <1>3, <1>4, Zenon DEF Next, JobSteps

LEMMA CronInvHolds == Spec => []CInv
BY CronStarts, CronKeeps, PTL DEF Spec

\* A session fires a task twice for one of its times only if its removal was undone by an
\* overlapping update, or failed, or if a tick came between the removal and the watcher's
\* report, for whatever tasks, sessions, schedules and crashes: a task that fired is in flight
\* until it is off the file; or it has been rescheduled, and stays so for as long as it is on
\* file.  (And the state is well typed: what is in flight is in jobs of the owner.)
THEOREM FiresOnceHolds == Spec => []FiresOnceUnlessUndone
<1>1. ASSUME CInv PROVE FiresOnceUnlessUndone
  <2>0. Types /\ Schedules /\ Flights /\ Fresh /\ Once
    BY <1>1 DEF CInv
  <2>1. ASSUME NEW s \in Sessions
        PROVE  /\ tasks[s] \in Files
               /\ DOMAIN nextFireAt[s] \subseteq Tasks
               /\ inFlight[s] =
                    UNION {j.ids : j \in {i \in jobs : i.by = s /\ i.kind \in {"fired", "mark"}}}
               /\ inFlight[s] # {} => owner = s
    BY <2>0 DEF Types, Schedules, Flights, Fires
  <2>2. \A j \in jobs : j.by \in up /\ j.ids \subseteq Tasks
    BY <2>0 DEF Types, Flights, Jobs
  <2>3. TypeOK
    BY <2>0, <2>1, <2>2 DEF Types, TypeOK
  <2>4. refired \subseteq undone \cup outrun
    BY <2>0 DEF Once
  <2> QED BY <2>3, <2>4 DEF FiresOnceUnlessUndone
<1> QED BY <1>1, CronInvHolds, PTL
===============================================================================
