----------------------------- MODULE Scheduler -----------------------------
(***************************************************************************)
(* Durable schedules (platform/scheduler.py): people create, edit, pause   *)
(* and delete them at any moment; runners tick under scheduler.lock, turn  *)
(* each due occurrence into a job with an idempotency key and then advance *)
(* the schedule.  Runners are the desktop's background thread              *)
(* (platform/desktop.py), `atbots runner --once` and the cloud worker.     *)
(*                                                                         *)
(* A tick reads all schedules first and decides about them one by one      *)
(* later, each read and write a transaction of its own, so everything a    *)
(* person does can fall in between.  Time is counted in units of Grace,    *)
(* the cron trigger is a multiple of Period.                               *)
(***************************************************************************)
EXTENDS Integers

CONSTANTS
  Agents,       \* registered agents
  Schedules,    \* schedule identities
  Runners,      \* threads and processes that may tick
  Desktop,      \* the one that serves in a loop and counts its failures
  Nobody,       \* no lock holder, no schedule, no agent
  Policies,     \* the pairs of missed and overlap policy explored
  Period,       \* distance between two occurrences of a cron schedule
  Grace,        \* lateness at which an occurrence counts as missed
  MaxAttempts,  \* failures after which the desktop runner gives up (3)
  MaxTime,      \* bound: the clock
  MaxEvents     \* bound: steps of people and crashes explored

ASSUME NamesAssumption ==
  /\ Desktop \in Runners
  /\ Nobody \notin Agents \union Schedules \union Runners

ASSUME PoliciesAssumption ==
  Policies \subseteq [missed : {"skip", "catch_up_once"}, overlap : {"skip", "queue"}]

ASSUME BoundsAssumption ==
  /\ Period \in Nat \ {0}
  /\ Grace \in Nat
  /\ MaxAttempts \in Nat \ {0}
  /\ MaxTime \in Nat \ {0}
  /\ MaxEvents \in Nat

VARIABLES
  now,        \* the clock
  active,     \* agents whose registry row says "active"
  schedules,  \* the schedules table
  jobs,       \* the jobs of occurrences, by schedule and occurrence
  lock,       \* scheduler.lock, by holder
  pc,         \* where each runner is
  local,      \* the local variables of its tick
  attempts,   \* failures of the desktop runner since it was started
  events      \* steps of people and crashes so far, counted for MaxEvents

vars == <<now, active, schedules, jobs, lock, pc, local, attempts, events>>

Times == 1..MaxTime

Rows ==
  [kind : {"none", "once", "cron", "deleted"}, agent : Agents \union {Nobody},
   next : Nat, missed : {"skip", "catch_up_once"}, overlap : {"skip", "queue"},
   enabled : BOOLEAN]

NoRow ==
  [kind |-> "none", agent |-> Nobody, next |-> 0, missed |-> "skip",
   overlap |-> "skip", enabled |-> FALSE]

\* "waiting": queued or running ever since it was submitted; "resumed": queued
\* again after somebody had paused it.  "at" is the submitting tick's time,
\* "policy" the overlap policy it followed; "copies" counts inserts of a key.
JobRows ==
  [status : {"none", "waiting", "paused", "resumed", "over"}, at : Nat,
   policy : {"skip", "queue"}, copies : Nat]

NoJob == [status |-> "none", at |-> 0, policy |-> "queue", copies |-> 0]

Locals ==
  [current : Nat, todo : SUBSET Schedules, snap : [Schedules -> Rows],
   this : Schedules \union {Nobody}]

Idle ==
  [current |-> 0, todo |-> {}, snap |-> [s \in Schedules |-> NoRow], this |-> Nobody]

PCs == {"idle", "locking", "ticking", "submitting", "advancing", "blocked"}

Init ==
  /\ now = 0
  /\ active = Agents
  /\ schedules = [s \in Schedules |-> NoRow]
  /\ jobs = [s \in Schedules |-> [t \in Times |-> NoJob]]
  /\ lock = Nobody
  /\ pc = [r \in Runners |-> "idle"]
  /\ local = [r \in Runners |-> Idle]
  /\ attempts = 0
  /\ events = 0

-----------------------------------------------------------------------------
(* People: create, edit, pause, resume, delete; agents; jobs; the clock.   *)

Exists(s) == schedules[s].kind \in {"once", "cron"}

\* Mutated form: the next occurrence after the one that fired.
NextFireAfter(fired, current) == (fired \div Period + 1) * Period

\* _next: the first occurrence after the tick's time, whichever fired.
NextFire(fired, current) == (current \div Period + 1) * Period

\* What create and edit may write: a future one-shot or a cron, any policies.
Planned(a, enabled) ==
  {[kind |-> k[1], agent |-> a, next |-> k[2], missed |-> p.missed,
    overlap |-> p.overlap, enabled |-> enabled] :
     k \in ({"once"} \X ((now + 1)..MaxTime)) \union {<<"cron", NextFire(now, now)>>},
     p \in Policies}

Event ==
  /\ events < MaxEvents
  /\ events' = events + 1

Write(s, row) ==
  /\ Event
  /\ schedules' = [schedules EXCEPT ![s] = row]
  /\ UNCHANGED <<now, active, jobs, lock, pc, local, attempts>>

Create(s, a) ==
  /\ schedules[s].kind = "none"
  /\ \E row \in Planned(a, TRUE) : Write(s, row)

Edit(s) ==
  /\ Exists(s)
  /\ \E row \in Planned(schedules[s].agent, schedules[s].enabled) : Write(s, row)

Enable(s, enabled) ==
  /\ Exists(s)
  /\ Write(s, [schedules[s] EXCEPT !.enabled = enabled])

Delete(s) ==
  /\ Exists(s)
  /\ Write(s, [NoRow EXCEPT !.kind = "deleted", !.agent = schedules[s].agent])

\* configure(state=...): pause or activate.
ToggleAgent(a) ==
  /\ Event
  /\ active' = IF a \in active THEN active \ {a} ELSE active \union {a}
  /\ UNCHANGED <<now, schedules, jobs, lock, pc, local, attempts>>

\* Somebody pauses or resumes the job, or it reaches a settled status.
MoveJob(s, t) ==
  /\ Event
  /\ \E move \in {<<"waiting", "paused">>, <<"waiting", "over">>, <<"paused", "resumed">>,
                  <<"resumed", "paused">>, <<"resumed", "over">>} :
       /\ jobs[s][t].status = move[1]
       /\ jobs' = [jobs EXCEPT ![s][t].status = move[2]]
  /\ UNCHANGED <<now, active, schedules, lock, pc, local, attempts>>

TimePasses ==
  /\ now < MaxTime
  /\ now' = now + 1
  /\ UNCHANGED <<active, schedules, jobs, lock, pc, local, attempts, events>>

-----------------------------------------------------------------------------
(* tick.                                                                   *)

Go(r, from, to) ==
  /\ pc[r] = from
  /\ pc' = [pc EXCEPT ![r] = to]

LockFree == lock = Nobody

\* current is read before the lock is tried.
Wake(r) ==
  /\ Go(r, "idle", "locking")
  /\ local' = [local EXCEPT ![r].current = now]
  /\ UNCHANGED <<now, active, schedules, jobs, lock, attempts, events>>

Lock(r) ==
  /\ Go(r, "locking", "ticking")
  /\ LockFree
  /\ lock' = r
  /\ local' = [local EXCEPT ![r].todo = {s \in Schedules : Exists(s)}]
  /\ UNCHANGED <<now, active, schedules, jobs, attempts, events>>

\* Mutated form: one retry too many.
GivesUpLate(r) == r = Desktop /\ attempts = MaxAttempts

GivesUp(r) == r = Desktop /\ attempts + 1 = MaxAttempts

\* An exception leaves tick and the lock.  serve is retried MaxAttempts times
\* in the desktop's life; every other runner is a process that ends.
Fail(r) ==
  /\ pc' = [pc EXCEPT ![r] = IF GivesUp(r) THEN "blocked" ELSE "idle"]
  /\ attempts' = IF r = Desktop THEN attempts + 1 ELSE attempts
  /\ local' = [local EXCEPT ![r] = Idle]
  /\ lock' = IF lock = r THEN Nobody ELSE lock
  /\ UNCHANGED <<now, active, schedules, jobs, events>>

LockBusy(r) ==
  /\ pc[r] = "locking"
  /\ ~LockFree
  /\ Fail(r)

\* list() reads the identities, then row by row; a row deleted meanwhile is
\* an "Unknown schedule" error.
ReadRow(r, s) ==
  /\ pc[r] = "ticking"
  /\ s \in local[r].todo
  /\ local[r].snap[s] = NoRow
  /\ Exists(s)
  /\ local' = [local EXCEPT ![r].snap[s] = schedules[s]]
  /\ UNCHANGED <<now, active, schedules, jobs, lock, pc, attempts, events>>

RowGone(r, s) ==
  /\ pc[r] = "ticking"
  /\ s \in local[r].todo
  /\ local[r].snap[s] = NoRow
  /\ ~Exists(s)
  /\ Fail(r)

Listed(r) == \A s \in local[r].todo : local[r].snap[s] # NoRow

\* The schedule being decided about, as it was read.
Row(r) == local[r].snap[local[r].this]

ActiveJobOf(a) ==
  \E s \in Schedules, t \in Times :
    schedules[s].agent = a /\ jobs[s][t].status \in {"waiting", "resumed"}

Due(r, s) ==
  LET row == local[r].snap[s] IN
  row.agent \in active /\ row.enabled /\ row.next <= local[r].current

\* Mutated form: overlap="skip" is not looked at.
FiresAnyhow(r, s) ==
  LET row == local[r].snap[s] IN
  ~(local[r].current - row.next > Grace /\ row.missed = "skip")

Fires(r, s) ==
  LET row == local[r].snap[s] IN
  /\ ~(local[r].current - row.next > Grace /\ row.missed = "skip")
  /\ ~(ActiveJobOf(row.agent) /\ row.overlap = "skip")

NotDue(r, s) ==
  /\ pc[r] = "ticking"
  /\ Listed(r)
  /\ s \in local[r].todo
  /\ ~Due(r, s)
  /\ local' = [local EXCEPT ![r].todo = @ \ {s}, ![r].snap[s] = NoRow]
  /\ UNCHANGED <<now, active, schedules, jobs, lock, pc, attempts, events>>

\* Mutated form: an occurrence that is not fired is left as it is.
DecidedToLeave(r, s) == IF Fires(r, s) THEN "submitting" ELSE "ticking"

Decided(r, s) == IF Fires(r, s) THEN "submitting" ELSE "advancing"

\* The job list is read here, the job is submitted in a later transaction.
Decide(r, s) ==
  /\ Listed(r)
  /\ s \in local[r].todo
  /\ Due(r, s)
  /\ Go(r, "ticking", Decided(r, s))
  /\ local' = [local EXCEPT ![r].todo = @ \ {s}, ![r].this = s]
  /\ UNCHANGED <<now, active, schedules, jobs, lock, attempts, events>>

\* Mutated form: submit without its look-up of the idempotency key.
SubmittedNever(s, t) == FALSE

Submitted(s, t) == jobs[s][t].copies > 0

\* submit(idempotency="schedule:<id>:<next>"): a job that carries the key is
\* returned as it is.  Its objective is the schedule's: a key is only used
\* again after a crash, and an edit in between moves the occurrence.
SubmitOccurrence(r) ==
  LET s == local[r].this
      t == Row(r).next
  IN
  /\ Go(r, "submitting", "advancing")
  /\ Row(r).agent \in active
  /\ jobs' = IF Submitted(s, t) THEN jobs
             ELSE [jobs EXCEPT ![s][t] =
                     [status |-> "waiting", at |-> local[r].current,
                      policy |-> Row(r).overlap, copies |-> @.copies + 1]]
  /\ UNCHANGED <<now, active, schedules, lock, local, attempts, events>>

\* The agent was paused since Decide: submit raises and tick with it.
SubmitRefused(r) ==
  /\ pc[r] = "submitting"
  /\ Row(r).agent \notin active
  /\ Fail(r)

\* UPDATE ... WHERE id=?: the column that is written follows from the row as
\* it was read, whatever the table holds by now.
Advanced(r, row) ==
  IF Row(r).kind = "cron"
  THEN [row EXCEPT !.next = NextFire(Row(r).next, local[r].current)]
  ELSE [row EXCEPT !.enabled = FALSE]

Advance(r) ==
  LET s == local[r].this IN
  /\ Go(r, "advancing", "ticking")
  /\ schedules' = [schedules EXCEPT ![s] = IF Exists(s) THEN Advanced(r, @) ELSE @]
  /\ local' = [local EXCEPT ![r].this = Nobody, ![r].snap[s] = NoRow]
  /\ UNCHANGED <<now, active, jobs, lock, attempts, events>>

\* reconcile_stale and the launches that follow: module Jobs.
Release(r) ==
  /\ Go(r, "ticking", "idle")
  /\ local[r].todo = {}
  /\ lock' = Nobody
  /\ local' = [local EXCEPT ![r] = Idle]
  /\ UNCHANGED <<now, active, schedules, jobs, attempts, events>>

\* The process dies; the operating system drops its lock.  The desktop
\* starts again with all its attempts, also when its runner was blocked.
Crash(r) ==
  /\ Event
  /\ pc[r] # "idle"
  /\ pc' = [pc EXCEPT ![r] = "idle"]
  /\ local' = [local EXCEPT ![r] = Idle]
  /\ lock' = IF lock = r THEN Nobody ELSE lock
  /\ attempts' = IF r = Desktop THEN 0 ELSE attempts
  /\ UNCHANGED <<now, active, schedules, jobs>>

-----------------------------------------------------------------------------
PeopleStep ==
  \/ \E s \in Schedules :
       \/ \E a \in Agents : Create(s, a)
       \/ Edit(s)
       \/ \E enabled \in BOOLEAN : Enable(s, enabled)
       \/ Delete(s)
  \/ \E a \in Agents : ToggleAgent(a)
  \/ \E s \in Schedules, t \in Times : MoveJob(s, t)

TickStep(r) ==
  \/ Wake(r) \/ Lock(r) \/ LockBusy(r)
  \/ \E s \in Schedules : ReadRow(r, s) \/ RowGone(r, s) \/ NotDue(r, s) \/ Decide(r, s)
  \/ SubmitOccurrence(r) \/ SubmitRefused(r) \/ Advance(r) \/ Release(r)

Next ==
  \/ PeopleStep
  \/ TimePasses
  \/ \E r \in Runners : TickStep(r) \/ Crash(r)

Spec == Init /\ [][Next]_vars

\* The desktop's thread wakes every two seconds, and a process that began a
\* tick goes on with it; nobody promises to run `runner --once`.
Fairness ==
  /\ WF_vars(TickStep(Desktop))
  /\ \A r \in Runners : WF_vars(pc[r] # "idle" /\ TickStep(r))

FairSpec == Spec /\ Fairness

-----------------------------------------------------------------------------
(* Properties.                                                             *)

\* Every variable, row and local variable keeps its type.
TypeOK ==
  /\ now \in Nat
  /\ active \in SUBSET Agents
  /\ schedules \in [Schedules -> Rows]
  /\ jobs \in [Schedules -> [Times -> JobRows]]
  /\ lock \in Runners \union {Nobody}
  /\ pc \in [Runners -> PCs]
  /\ local \in [Runners -> Locals]
  /\ attempts \in 0..MaxAttempts
  /\ events \in Nat

\* An occurrence becomes one job however often it is tried: by a second
\* runner, after an error, after a crash between submit and advance
\* (scheduler.py tick, jobs.py submit).
OccurrenceOnce ==
  \A s \in Schedules, t \in Times : jobs[s][t].copies <= 1

\* Downtime that spans several occurrences is caught up once: a schedule
\* fires no occurrence that was already past when it fired another one, and
\* none before its time (scheduler.py tick and _next; docs, "Missed runs skip
\* or catch up once").  It takes a single runner: a second one that read the
\* clock before the first one's tick and locks after its crash advances the
\* schedule to an occurrence the first one had caught up with.
CatchUpOnce ==
  \A s \in Schedules, t, u \in Times :
    Submitted(s, t) => /\ t <= jobs[s][t].at
                       /\ Submitted(s, u) /\ u > t => u > jobs[s][t].at

\* overlap="skip": an occurrence is not fired while another job of the agent
\* that a tick submitted is still queued or running, whichever runner and
\* schedule it came from.  A job that somebody resumed in the meantime is
\* the exception (scheduler.py tick under scheduler.lock).
OverlapSkipHolds ==
  [][\A s, q \in Schedules, t, u \in Times :
       /\ jobs'[s][t].copies > jobs[s][t].copies
       /\ jobs'[s][t].policy = "skip"
       /\ schedules[q].agent = schedules[s].agent
       => jobs[q][u].status # "waiting"]_vars

\* A due occurrence of an active agent is handled: fired, or skipped by its
\* policy, and the schedule moves on - unless the desktop's runner has used
\* up its attempts (scheduler.py serve, desktop.py runner).
DueIsHandled ==
  \A s \in Schedules, t \in Times :
    (schedules[s].enabled /\ schedules[s].next = t /\ t <= now)
      ~> \/ ~schedules[s].enabled
         \/ schedules[s].next # t
         \/ schedules[s].agent \notin active
         \/ pc[Desktop] = "blocked"

-----------------------------------------------------------------------------
(* What the code says and does not always do.                              *)

\* scheduler.py:218, "A cross-process lock protects occurrence advancement":
\* a runner never disables or moves an occurrence that lies in the future.
FutureOccurrenceKept ==
  [][local' # local =>
       \A s \in Schedules :
         schedules[s].enabled /\ schedules[s].next > now => schedules'[s] = schedules[s]]_vars

\* The condition under which it does: nobody edits a schedule that a tick has
\* read and not decided about.
EditsBetweenTicks ==
  \A s \in Schedules : Edit(s) => \A r \in Runners : local[r].snap[s] = NoRow

SpecEditedBetweenTicks == Init /\ [][Next /\ EditsBetweenTicks]_vars
=============================================================================
