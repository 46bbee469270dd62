----------------------------- MODULE CronScheduler -----------------------------
(***************************************************************************)
(* The cron scheduler (utils/cronScheduler.ts) on the tasks of a project's *)
(* scheduled_tasks.json (utils/cronTasks.ts), in several sessions that     *)
(* share the file.  The lock is an abstract one here: it has one owner at  *)
(* most (SchedulerLock says how far that is true).                         *)
(*                                                                         *)
(* Every update of the file is a job that reads, and later writes what it  *)
(* read with its change; nothing keeps two jobs apart.  A load() is one    *)
(* step.  Time is counted in units that are long for a job: the clock      *)
(* moves only when no job and no reload is outstanding.                    *)
(***************************************************************************)
EXTENDS Naturals, Sequences, Functions

CONSTANTS
  None,
  Sessions,
  OneShots, Recurring, \* the tasks, by kind; all of them are on file
  Initial,     \* the tasks that are there when the first session starts
  Every,       \* Every[t]: t is due at the multiples of Every[t]
  ToolUsers,   \* the sessions in which the model uses the cron tools
  Deletable,   \* the tasks that it deletes there
  MaxAge,      \* recurringMaxAgeMs
  MaxTime,     \* bound on the clock
  MaxCrashes,  \* bound on the sessions that die
  MaxFailures  \* bound on the updates of the file that fail

Tasks == OneShots \cup Recurring

\* None is no session.
ASSUME CronAssumption ==
  /\ None \notin Sessions
  /\ OneShots \cap Recurring = {} /\ Initial \subseteq Tasks
  /\ ToolUsers \subseteq Sessions /\ Deletable \subseteq Tasks
  /\ Every \in [Tasks -> Nat \ {0}]
  /\ {MaxAge, MaxTime, MaxCrashes, MaxFailures} \subseteq Nat

VARIABLES
  now,
  createdAt, \* createdAt[t], for the tasks created so far
  disk,      \* the file: the tasks in it with lastFiredAt ?? createdAt
  up,        \* the sessions whose scheduler runs
  owner,     \* the session that has the lock, or None
  tasks,     \* tasks[s]: the file as s loaded it last
  nextFireAt, \* nextFireAt[s]
  inFlight,  \* inFlight[s]
  stale,     \* the sessions the watcher owes a change event
  jobs,      \* updates of the file under way
  failures, crashes,
  fired,     \* history: when t last fired in the present life of s, or 0
  refired,   \* history: the tasks that a session fired once too often
  surfaced,  \* history: the missed tasks s asked the user about, likewise
  undone,    \* history: the tasks that an update wrote back after another had taken
             \* them off the file, or whose removal failed
  outrun     \* history: the tasks that a tick fired again from memory when the
             \* file had them no longer, before the watcher told

timeVars == <<now, createdAt>>
bounds == <<failures, crashes>>
sessionVars == <<tasks, nextFireAt>>
history == <<fired, refired, surfaced, outrun>>
vars == <<now, createdAt, disk, up, owner, tasks, nextFireAt, inFlight, stale,
          jobs, failures, crashes, fired, refired, surfaced, undone, outrun>>

Times == 0..MaxTime
Never == MaxTime + 1 \* Infinity
Empty == [t \in {} |-> 0]

\* What g says, but for what f says.
Over(f, g) == [t \in DOMAIN f \cup DOMAIN g |-> IF t \in DOMAIN f THEN f[t] ELSE g[t]]

Files == UNION {[T -> Times] : T \in SUBSET Tasks}
Jobs == [by : Sessions, kind : {"fired", "mark", "missed", "delete", "add"},
         ids : SUBSET Tasks, read : Files \cup {None}]

\* The types; only the owner has tasks in flight, and for each a job that will
\* take it out again.
TypeOK ==
  /\ now \in Times /\ createdAt \in Files /\ disk \in Files
  /\ up \subseteq Sessions /\ owner \in up \cup {None} /\ stale \subseteq up
  /\ \A s \in Sessions :
       /\ tasks[s] \in Files
       /\ DOMAIN nextFireAt[s] \subseteq Tasks
       /\ inFlight[s] =
            UNION {j.ids : j \in {i \in jobs : i.by = s /\ i.kind \in {"fired", "mark"}}}
       /\ inFlight[s] # {} => owner = s
  /\ \A j \in jobs : j.by \in up /\ j.ids \subseteq Tasks
  /\ failures \in 0..MaxFailures /\ crashes \in 0..MaxCrashes
  /\ {refired, undone, outrun} \subseteq SUBSET Tasks

Init ==
  /\ now = 0 /\ createdAt = [t \in Initial |-> 0]
  /\ disk = createdAt
  /\ up = {} /\ owner = None
  /\ tasks = [s \in Sessions |-> Empty]
  /\ nextFireAt = [s \in Sessions |-> Empty]
  /\ inFlight = [s \in Sessions |-> {}]
  /\ stale = {} /\ jobs = {} /\ failures = 0 /\ crashes = 0
  /\ fired = [s \in Sessions |-> [t \in Tasks |-> 0]] /\ refired = {}
  /\ surfaced = [s \in Sessions |-> {}]
  /\ undone = {} /\ outrun = {}

\* nextCronRunMs(): the first time after n that cron expression t matches.
NextRun(t, n) == Every[t] * (n \div Every[t] + 1)

\* isRecurringTaskAged()
Aged(t) == t \in Recurring /\ now - createdAt[t] >= MaxAge

\* A call of removeCronTasks(), markCronTasksFired() or addCronTask().
Job(s, kind, ids) ==
  IF ids = {} THEN {}
  ELSE {[by |-> s, kind |-> kind, ids |-> ids, read |-> None]}
-------------------------------------------------------------------------------
(* The scheduler *)

\* enable() and its load(true).  The missed one-shots are taken off the
\* schedule, shown to the user and removed, whether s owns the lock or not.
Start(s) ==
  /\ s \notin up
  /\ up' = up \cup {s}
  /\ owner' = IF owner = None THEN s ELSE owner
  /\ tasks' = [tasks EXCEPT ![s] = disk]
  /\ LET missed == {t \in DOMAIN disk \cap OneShots : NextRun(t, createdAt[t]) < now}
     IN /\ nextFireAt' = [nextFireAt EXCEPT ![s] = [t \in missed |-> Never]]
        /\ surfaced' = [surfaced EXCEPT ![s] = missed]
        /\ jobs' = jobs \cup Job(s, "missed", missed)
  /\ UNCHANGED <<timeVars, disk, inFlight, stale, bounds, fired, refired, undone, outrun>>

\* The probe of a session that does not own the lock.
TakeOver(s) ==
  /\ s \in up /\ owner = None
  /\ owner' = s
  /\ UNCHANGED <<timeVars, disk, up, sessionVars, inFlight, stale, jobs, bounds,
                 history, undone>>

\* load(false)
Reload(s) ==
  /\ s \in stale
  /\ tasks' = [tasks EXCEPT ![s] = disk]
  /\ stale' = stale \ {s}
  /\ UNCHANGED <<timeVars, disk, up, owner, nextFireAt, inFlight, jobs, bounds,
                 history, undone>>

\* (mutant of FireTime) A task seen for the first time is anchored at now.
FireTimeFromNow(s, t) ==
  IF t \in DOMAIN nextFireAt[s] THEN nextFireAt[s][t] ELSE NextRun(t, now)

\* When t is to fire in s: as scheduled or, at first sight, from its anchor.
FireTime(s, t) ==
  IF t \in DOMAIN nextFireAt[s] THEN nextFireAt[s][t] ELSE NextRun(t, tasks[s][t])

\* (mutant of DueTasks) A task in flight is not passed over.
DueTasksAgain(s) ==
  IF owner = s THEN {t \in DOMAIN tasks[s] : FireTime(s, t) <= now} ELSE {}

\* The tasks that check() fires now: tasks on file fire in the owner only.
DueTasks(s) ==
  IF owner = s
  THEN {t \in DOMAIN tasks[s] \ inFlight[s] : FireTime(s, t) <= now}
  ELSE {}

\* The schedule after a tick: what was seen, rescheduled from now if it fired;
\* everything else is evicted.
Reschedule(s, again, gone) ==
  LET seen == IF owner = s THEN DOMAIN tasks[s] ELSE {}
      scheduled == seen \cap (DOMAIN nextFireAt[s] \cup (seen \ inFlight[s]))
  IN  [t \in scheduled \ gone |->
         IF t \in again THEN NextRun(t, now) ELSE FireTime(s, t)]

\* (history) The tasks among them that have fired in s, and are not due again.
FiredAgain(s) ==
  {t \in DueTasks(s) : /\ fired[s][t] # 0
                       /\ t \in OneShots \/ now < NextRun(t, fired[s][t])}

\* check(), whether or not the watcher has reported what changed since the last tick.
Check(s) ==
  /\ s \in up
  /\ LET gone == {t \in DueTasks(s) : t \in OneShots \/ Aged(t)}
         again == DueTasks(s) \ gone
     IN /\ nextFireAt' = [nextFireAt EXCEPT ![s] = Reschedule(s, again, gone)]
        /\ jobs' = jobs \cup Job(s, "mark", again)
                        \cup UNION {Job(s, "fired", {t}) : t \in gone}
        /\ inFlight' = [inFlight EXCEPT ![s] = @ \cup gone \cup again]
        /\ fired' = [fired EXCEPT ![s] = Over([t \in gone \cup again |-> now], @)]
        /\ refired' = refired \cup FiredAgain(s)
        /\ outrun' = outrun \cup (FiredAgain(s) \ DOMAIN disk)
  /\ UNCHANGED <<timeVars, disk, up, owner, tasks, stale, bounds, surfaced, undone>>

\* A process dies; its updates end where they are, its lock is found stale.
Crash(s) ==
  /\ s \in up /\ crashes < MaxCrashes
  /\ crashes' = crashes + 1
  /\ up' = up \ {s} /\ stale' = stale \ {s}
  /\ owner' = IF owner = s THEN None ELSE owner
  /\ tasks' = [tasks EXCEPT ![s] = Empty]
  /\ nextFireAt' = [nextFireAt EXCEPT ![s] = Empty]
  /\ inFlight' = [inFlight EXCEPT ![s] = {}]
  /\ jobs' = {j \in jobs : j.by # s}
  /\ fired' = [fired EXCEPT ![s] = [t \in Tasks |-> 0]]
  /\ surfaced' = [surfaced EXCEPT ![s] = {}]
  /\ UNCHANGED <<timeVars, disk, failures, refired, undone, outrun>>
-------------------------------------------------------------------------------
(* The file *)

\* CronCreate with durable: true, and CronDelete.
Create(s, t) ==
  /\ s \in up \cap ToolUsers /\ t \notin DOMAIN createdAt
  /\ createdAt' = Over([u \in {t} |-> now], createdAt)
  /\ jobs' = jobs \cup Job(s, "add", {t})
  /\ UNCHANGED <<now, disk, up, owner, sessionVars, inFlight, stale, bounds,
                 history, undone>>

Delete(s, t) ==
  /\ s \in up \cap ToolUsers /\ t \in DOMAIN disk \cap Deletable /\ jobs = {}
  /\ jobs' = jobs \cup Job(s, "delete", {t})
  /\ UNCHANGED <<timeVars, disk, up, owner, sessionVars, inFlight, stale, bounds,
                 history, undone>>

\* The job is over; the finally block of check() takes its tasks out of flight.
Settled(j) ==
  /\ jobs' = jobs \ {j}
  /\ inFlight' = IF j.kind \in {"fired", "mark"}
                 THEN [inFlight EXCEPT ![j.by] = @ \ j.ids] ELSE inFlight

\* readCronTasks(); without a task to change the call is over.
JobReads(j) ==
  /\ j.read = None
  /\ IF j.kind = "add" \/ j.ids \cap DOMAIN disk # {}
     THEN /\ jobs' = (jobs \ {j}) \cup {[j EXCEPT !.read = disk]}
          /\ UNCHANGED inFlight
     ELSE Settled(j)
  /\ UNCHANGED <<timeVars, disk, up, owner, sessionVars, stale, bounds, history,
                 undone>>

\* What the job makes of the file it read.
Updated(j) ==
  CASE j.kind = "add"  -> Over([t \in j.ids |-> createdAt[t]], j.read)
    [] j.kind = "mark" -> Over([t \in DOMAIN j.read \cap j.ids |-> now], j.read)
    [] OTHER           -> Restrict(j.read, DOMAIN j.read \ j.ids)

\* writeCronTasks(): every session will be told.
JobWrites(j) ==
  /\ j.read # None
  /\ disk' = Updated(j)
  /\ stale' = up
  /\ undone' = undone \cup
       ((DOMAIN disk' \ DOMAIN disk) \ (IF j.kind = "add" THEN j.ids ELSE {}))
  /\ Settled(j)
  /\ UNCHANGED <<timeVars, up, owner, sessionVars, bounds, history>>

\* The write fails; readCronTasks() does not throw.
JobFails(j) ==
  /\ j.read # None /\ failures < MaxFailures
  /\ failures' = failures + 1
  /\ undone' = undone \cup (IF j.kind = "fired" THEN j.ids ELSE {})
  /\ Settled(j)
  /\ UNCHANGED <<timeVars, disk, up, owner, sessionVars, stale, crashes, history>>

Advance ==
  /\ now < MaxTime /\ jobs = {} /\ stale = {}
  /\ now' = now + 1
  /\ UNCHANGED <<createdAt, disk, up, owner, sessionVars, inFlight, stale, jobs,
                 bounds, history, undone>>

JobSteps == \E j \in jobs : JobReads(j) \/ JobWrites(j)

Next ==
  \/ \E s \in Sessions :
       \/ Start(s) \/ TakeOver(s) \/ Reload(s) \/ Check(s) \/ Crash(s)
       \/ \E t \in Tasks : Create(s, t) \/ Delete(s, t)
  \/ JobSteps
  \/ \E j \in jobs : JobFails(j)
  \/ Advance

Spec == Init /\ [][Next]_vars

\* Timers fire, the watcher reports, file operations end, time goes on.
FairSpec ==
  /\ Spec
  /\ WF_vars(JobSteps) /\ WF_vars(Advance)
  /\ \A s \in Sessions : WF_vars(TakeOver(s)) /\ WF_vars(Reload(s)) /\ WF_vars(Check(s))
-------------------------------------------------------------------------------
(* Properties *)

\* "Prevents double-fire if the interval ticks again before removeCronTasks
\* lands" (line 169): a session fires a one-shot task once, if the updates of
\* the file do not fail.  (Does not hold: README, section 5.)
FiresOnce == failures = 0 => refired \cap OneShots = {}

\* A session fires a one-shot twice, or a recurring task twice for one of its times
\* ("Reschedule from now (not from next) to avoid rapid catch-up", line 316), only if
\* the removal of that task was undone by an overlapping update, or failed, or if a
\* tick came between the removal and the watcher's report, when inFlight has let the
\* task go (line 342) and the memory has it still.  No other interleaving of ticks,
\* updates, reloads, failed marks and take-overs makes it fire again.  (And the state
\* is well typed.)
FiresOnceUnlessUndone == TypeOK /\ refired \subseteq undone \cup outrun

\* A one-shot task that is due, missed or not, is fired or shown to the user,
\* through crashes, failures and lost updates, unless nobody is there or it is
\* no longer on file.
Served(t) == \E s \in up : fired[s][t] # 0 \/ t \in surfaced[s]
DueIsServed ==
  []<>(\/ up = {}
       \/ \A t \in DOMAIN disk \cap OneShots :
            NextRun(t, createdAt[t]) <= now => Served(t))
===============================================================================
