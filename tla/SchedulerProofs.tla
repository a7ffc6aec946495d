---------------------------- MODULE SchedulerProofs ----------------------------
(***************************************************************************)
(* What the scheduler keeps, for any agents, schedules, runners, policies, *)
(* period and grace: its types, one job per occurrence, overlap="skip"     *)
(* through everything that may fall between reading the job list and the   *)
(* submit, and - for a single runner - one catch-up after downtime.        *)
(***************************************************************************)
EXTENDS Scheduler, TLAPS

\* What a runner does under scheduler.lock.
Inside == {"ticking", "submitting", "advancing"}

Held == \A r \in Runners : pc[r] \in Inside => lock = r

\* The desktop's runner is blocked with its last failure.
Guarded == pc[Desktop] # "blocked" => attempts < MaxAttempts

\* A schedule that was created keeps its agent, whatever is made of it.
Known(s) == schedules[s].kind # "none"

\* A row that a tick has read is of such a schedule.
Read(r, s) ==
  \/ local[r].snap[s] = NoRow
  \/ /\ local[r].snap[s].kind # "none"
     /\ Known(s)
     /\ local[r].snap[s].agent = schedules[s].agent

Reads == \A r \in Runners, s \in Schedules : Read(r, s)

\* The schedule being decided about has been read.
Deciding ==
  \A r \in Runners :
    pc[r] \in {"submitting", "advancing"} =>
      local[r].this \in Schedules /\ Row(r).kind # "none"

JobsKnown ==
  \A s \in Schedules, t \in Times : jobs[s][t].status # "none" => Known(s)

\* No job of the agent waits from Decide until the submit that follows: only
\* the holder of the lock submits.
Quiet(r) ==
  pc[r] = "submitting" /\ Row(r).overlap = "skip" =>
    \A q \in Schedules, u \in Times :
      schedules[q].agent = Row(r).agent => jobs[q][u].status # "waiting"

IInv ==
  /\ TypeOK /\ Held /\ Guarded /\ Reads /\ Deciding /\ JobsKnown
  /\ \A r \in Runners : Quiet(r)
  /\ OccurrenceOnce

-----------------------------------------------------------------------------
(* The steps, by what they write.                                          *)

\* The next occurrence lies after the tick's time.
LEMMA NextFireAhead ==
  ASSUME NEW fired, NEW current \in Nat
  PROVE  NextFire(fired, current) \in Nat /\ NextFire(fired, current) > current
<1> DEFINE d == current \div Period
<1>1. Period \in Nat /\ Period > 0
  BY BoundsAssumption
<1>2. d \in Nat /\ current < (d + 1) * Period
  BY <1>1
<1>3. (d + 1) * Period \in Nat
  BY <1>1, <1>2
<1> QED BY <1>2, <1>3 DEF NextFire

\* Everything a person does to a schedule writes a row of it, keeps its agent,
\* and puts an occurrence that it moves into the future.
Writes(s, row) ==
  /\ Write(s, row)
  /\ row \in Rows
  /\ row.kind # "none"
  /\ Known(s) => row.agent = schedules[s].agent
  /\ \/ row.kind = "deleted"
     \/ row.next > now /\ (~Known(s) \/ Edit(s))
     \/ Exists(s) /\ row.next = schedules[s].next

\* What a person does is one of these.
LEMMA Writing ==
  ASSUME TypeOK, NEW s \in Schedules,
         \/ \E a \in Agents : Create(s, a)
         \/ Edit(s)
         \/ \E enabled \in BOOLEAN : Enable(s, enabled)
         \/ Delete(s)
  PROVE  \E row \in Rows : Writes(s, row)
<1>1. schedules[s] \in Rows /\ now \in Nat
  BY DEF TypeOK
<1>2. ASSUME NEW a \in Agents \union {Nobody}, NEW enabled \in BOOLEAN,
             NEW row \in Planned(a, enabled)
      PROVE  row \in Rows /\ row.kind \in {"once", "cron"} /\ row.agent = a /\ row.next > now
  <2>1. PICK k \in ({"once"} \X ((now + 1)..MaxTime)) \union {<<"cron", NextFire(now, now)>>},
             p \in Policies :
          row = [kind |-> k[1], agent |-> a, next |-> k[2], missed |-> p.missed,
                 overlap |-> p.overlap, enabled |-> enabled]
    BY <1>2 DEF Planned
  <2>2. k[1] \in {"once", "cron"} /\ k[2] \in Nat /\ k[2] > now
    BY <1>1, <2>1, NextFireAhead, BoundsAssumption
  <2>3. p.missed \in {"skip", "catch_up_once"} /\ p.overlap \in {"skip", "queue"}
    BY <2>1, PoliciesAssumption
  <2> QED BY <1>2, <2>1, <2>2, <2>3 DEF Rows
<1>3. ASSUME NEW a \in Agents, Create(s, a)
      PROVE  \E row \in Rows : Writes(s, row)
  BY <1>2, <1>3 DEF Create, Writes, Known
<1>4. ASSUME Edit(s)
      PROVE  \E row \in Rows : Writes(s, row)
  <2>1. schedules[s].agent \in Agents \union {Nobody} /\ schedules[s].enabled \in BOOLEAN
    BY <1>1 DEF Rows
  <2> QED BY <1>2, <1>4, <2>1 DEF Edit, Writes, Known
<1>5. ASSUME NEW enabled \in BOOLEAN, Enable(s, enabled)
      PROVE  \E row \in Rows : Writes(s, row)
  <2>1. [schedules[s] EXCEPT !.enabled = enabled] \in Rows
    BY <1>1 DEF Rows
  <2>2. /\ [schedules[s] EXCEPT !.enabled = enabled].kind = schedules[s].kind
        /\ [schedules[s] EXCEPT !.enabled = enabled].agent = schedules[s].agent
        /\ [schedules[s] EXCEPT !.enabled = enabled].next = schedules[s].next
    BY <1>1 DEF Rows
  <2> QED BY <1>5, <2>1, <2>2 DEF Enable, Exists, Writes
<1>6. ASSUME Delete(s)
      PROVE  \E row \in Rows : Writes(s, row)
  <2> DEFINE row == [NoRow EXCEPT !.kind = "deleted", !.agent = schedules[s].agent]
  <2>1. row \in Rows /\ row.kind = "deleted" /\ row.agent = schedules[s].agent
    BY <1>1 DEF Rows, NoRow
  <2> HIDE DEF row
  <2>2. Write(s, row)
    BY <1>6 DEF Delete, row
  <2> QED BY <2>1, <2>2 DEF Writes
<1> QED BY <1>3, <1>4, <1>5, <1>6

\* Every step is one of these.
LEMMA Steps ==
  ASSUME TypeOK, Next
  PROVE  \/ \E s \in Schedules, row \in Rows : Writes(s, row)
         \/ \E a \in Agents : ToggleAgent(a)
         \/ \E s \in Schedules, t \in Times : MoveJob(s, t)
         \/ TimePasses
         \/ \E r \in Runners :
              \/ Wake(r) \/ Lock(r) \/ SubmitOccurrence(r) \/ Advance(r)
              \/ Release(r) \/ Crash(r)
              \/ pc[r] \in {"locking", "ticking", "submitting"} /\ Fail(r)
              \/ \E s \in Schedules : ReadRow(r, s) \/ NotDue(r, s) \/ Decide(r, s)
<1>1. ASSUME PeopleStep
      PROVE  \/ \E s \in Schedules, row \in Rows : Writes(s, row)
             \/ \E a \in Agents : ToggleAgent(a)
             \/ \E s \in Schedules, t \in Times : MoveJob(s, t)
  BY <1>1, Writing DEF PeopleStep
<1>2. ASSUME NEW r \in Runners, TickStep(r)
      PROVE  \/ Wake(r) \/ Lock(r) \/ SubmitOccurrence(r) \/ Advance(r) \/ Release(r)
             \/ pc[r] \in {"locking", "ticking", "submitting"} /\ Fail(r)
             \/ \E s \in Schedules : ReadRow(r, s) \/ NotDue(r, s) \/ Decide(r, s)
  BY <1>2 DEF TickStep, LockBusy, RowGone, SubmitRefused
<1> QED BY <1>1, <1>2 DEF Next

-----------------------------------------------------------------------------
(* Typing.                                                                 *)

\* The empty rows and locals have their types.
LEMMA Empty == NoRow \in Rows /\ NoJob \in JobRows /\ Idle \in Locals
<1>1. NoRow \in Rows /\ NoJob \in JobRows
  BY DEF NoRow, Rows, NoJob, JobRows
<1> QED BY <1>1 DEF Idle, Locals

\* Every step keeps the types, and the desktop its attempts.
LEMMA Typed ==
  ASSUME IInv, Next
  PROVE  TypeOK' /\ Guarded'
<1> USE NamesAssumption, BoundsAssumption DEF TypeOK, Guarded
<1>0. TypeOK /\ Guarded
  BY DEF IInv
<1>1. ASSUME NEW s \in Schedules, NEW row \in Rows, Writes(s, row)
      PROVE  TypeOK' /\ Guarded'
  BY <1>0, <1>1 DEF Writes, Write, Event
<1>2. ASSUME NEW a \in Agents, ToggleAgent(a)
      PROVE  TypeOK' /\ Guarded'
  BY <1>0, <1>2 DEF ToggleAgent, Event
<1>3. ASSUME NEW s \in Schedules, NEW t \in Times, MoveJob(s, t)
      PROVE  TypeOK' /\ Guarded'
  <2>1. PICK move \in {<<"waiting", "paused">>, <<"waiting", "over">>, <<"paused", "resumed">>,
                       <<"resumed", "paused">>, <<"resumed", "over">>} :
          jobs' = [jobs EXCEPT ![s][t].status = move[2]]
    BY <1>3 DEF MoveJob
  <2>0. move[2] \in {"paused", "over", "resumed"} /\ jobs[s][t] \in JobRows
    BY <1>0, <2>1
  <2>2. [jobs[s][t] EXCEPT !.status = move[2]] \in JobRows
    BY <2>0 DEF JobRows
  <2>3. jobs' \in [Schedules -> [Times -> JobRows]]
    BY <1>0, <2>1, <2>2
  <2> QED BY <1>0, <1>3, <2>3 DEF MoveJob, Event
<1>4. ASSUME TimePasses
      PROVE  TypeOK' /\ Guarded'
  BY <1>0, <1>4 DEF TimePasses
<1>5. ASSUME NEW r \in Runners, Wake(r)
      PROVE  TypeOK' /\ Guarded'
  <2>1. [local[r] EXCEPT !.current = now] \in Locals
    BY <1>0 DEF Locals
  <2> QED BY <1>0, <1>5, <2>1 DEF Wake, Go, PCs
<1>6. ASSUME NEW r \in Runners, Lock(r)
      PROVE  TypeOK' /\ Guarded'
  <2>0. {s \in Schedules : Exists(s)} \in SUBSET Schedules /\ local[r] \in Locals
    BY <1>0
  <2>1. [local[r] EXCEPT !.todo = {s \in Schedules : Exists(s)}] \in Locals
    BY <2>0 DEF Locals
  <2> QED BY <1>0, <1>6, <2>1 DEF Lock, Go, PCs
<1>7. ASSUME NEW r \in Runners, SubmitOccurrence(r)
      PROVE  TypeOK' /\ Guarded'
  <2> DEFINE s == local[r].this  t == Row(r).next
             new == [status |-> "waiting", at |-> local[r].current,
                     policy |-> Row(r).overlap, copies |-> jobs[s][t].copies + 1]
  <2>1. s \in Schedules /\ local[r] \in Locals
    BY <1>0, <1>7 DEF IInv, Deciding, SubmitOccurrence, Go
  <2>2. Row(r) \in Rows /\ local[r].current \in Nat
    BY <1>0, <2>1 DEF Row, Locals
  <2>3. t \in Times => new \in JobRows
    BY <1>0, <2>1, <2>2 DEF JobRows, Rows
  <2>4. jobs' = jobs \/ jobs' = [jobs EXCEPT ![s] = [jobs[s] EXCEPT ![t] = new]]
    BY <1>0, <1>7, <2>1 DEF SubmitOccurrence
  <2> HIDE DEF s, t, new
  <2>0. [jobs[s] EXCEPT ![t] = new] \in [Times -> JobRows]
    <3>1. jobs[s] \in [Times -> JobRows]
      BY <1>0, <2>1
    <3> QED BY <2>3, <3>1
  <2>5. jobs' \in [Schedules -> [Times -> JobRows]]
    BY <1>0, <2>1, <2>4, <2>0
  <2> QED BY <1>0, <1>7, <2>5 DEF SubmitOccurrence, Go, PCs
<1>8. ASSUME NEW r \in Runners, Advance(r)
      PROVE  TypeOK' /\ Guarded'
  <2> DEFINE s == local[r].this
  <2>1. s \in Schedules /\ local[r] \in Locals /\ schedules[s] \in Rows
    BY <1>0, <1>8 DEF IInv, Deciding, Advance, Go
  <2>2. NextFire(Row(r).next, local[r].current) \in Nat
    BY <2>1, NextFireAhead DEF Locals
  <2>3. Advanced(r, schedules[s]) \in Rows
    BY <2>1, <2>2 DEF Advanced, Rows
  <2>4. schedules' \in [Schedules -> Rows]
    BY <1>0, <1>8, <2>3 DEF Advance
  <2>5. [local[r] EXCEPT !.this = Nobody, !.snap[s] = NoRow] \in Locals
    BY <2>1, Empty DEF Locals
  <2>6. local' \in [Runners -> Locals]
    BY <1>0, <1>8, <2>5 DEF Advance
  <2> QED BY <1>0, <1>8, <2>4, <2>6 DEF Advance, Go, PCs
<1>9. ASSUME NEW r \in Runners, Release(r) \/ Crash(r)
      PROVE  TypeOK' /\ Guarded'
  BY <1>0, <1>9, Empty DEF Release, Crash, Event, Go, PCs
<1>10. ASSUME NEW r \in Runners, pc[r] \in {"locking", "ticking", "submitting"}, Fail(r)
       PROVE  TypeOK' /\ Guarded'
  BY <1>0, <1>10, Empty DEF Fail, GivesUp, PCs
<1>11. ASSUME NEW r \in Runners, NEW s \in Schedules, ReadRow(r, s)
       PROVE  TypeOK' /\ Guarded'
  <2>0. local[r] \in Locals /\ schedules[s] \in Rows
    BY <1>0
  <2>00. [local[r].snap EXCEPT ![s] = schedules[s]] \in [Schedules -> Rows]
    BY <2>0 DEF Locals
  <2>1. [local[r] EXCEPT !.snap = [local[r].snap EXCEPT ![s] = schedules[s]]] \in Locals
    BY <2>0, <2>00 DEF Locals
  <2>2. local' \in [Runners -> Locals]
    BY <1>0, <1>11, <2>1 DEF ReadRow
  <2> QED BY <1>0, <1>11, <2>2 DEF ReadRow
<1>12. ASSUME NEW r \in Runners, NEW s \in Schedules, NotDue(r, s)
       PROVE  TypeOK' /\ Guarded'
  <2> DEFINE after == [local[r] EXCEPT !.todo = local[r].todo \ {s}, !.snap[s] = NoRow]
  <2>1. after \in Locals
    BY <1>0, Empty DEF Locals
  <2>2. local' = [local EXCEPT ![r] = after]
    BY <1>12 DEF NotDue
  <2> HIDE DEF after
  <2>3. local' \in [Runners -> Locals]
    BY <1>0, <2>1, <2>2
  <2> QED BY <1>0, <1>12, <2>3 DEF NotDue
<1>13. ASSUME NEW r \in Runners, NEW s \in Schedules, Decide(r, s)
       PROVE  TypeOK' /\ Guarded'
  <2> DEFINE after == [local[r] EXCEPT !.todo = local[r].todo \ {s}, !.this = s]
  <2>0. local[r] \in Locals
    BY <1>0
  <2>1. after \in Locals
    BY <2>0 DEF Locals
  <2>2. local' = [local EXCEPT ![r] = after]
    BY <1>13 DEF Decide
  <2> HIDE DEF after
  <2>3. local' \in [Runners -> Locals]
    BY <1>0, <2>1, <2>2
  <2>4. pc[r] = "ticking" /\ \E to \in PCs \ {"blocked"} : pc' = [pc EXCEPT ![r] = to]
    BY <1>13 DEF Decide, Decided, Go, PCs
  <2>5. pc' \in [Runners -> PCs] /\ (pc'[Desktop] # "blocked" => pc[Desktop] # "blocked")
    BY <1>0, <2>4
  <2> QED BY <1>0, <1>13, <2>3, <2>5 DEF Decide
<1> QED BY <1>1, <1>2, <1>3, <1>4, <1>5, <1>6, <1>7, <1>8, <1>9, <1>10, <1>11, <1>12, <1>13,
           Steps DEF IInv

-----------------------------------------------------------------------------
(* What a step changes.                                                    *)

\* A schedule once created keeps its agent, and no row is forgotten.
LEMMA KnownKept ==
  ASSUME IInv, Next, NEW q \in Schedules, Known(q)
  PROVE  Known(q)' /\ schedules'[q].agent = schedules[q].agent
<1>0. TypeOK /\ schedules \in [Schedules -> Rows]
  BY DEF IInv, TypeOK
<1>1. ASSUME NEW s \in Schedules, NEW row \in Rows, Writes(s, row)
      PROVE  Known(q)' /\ schedules'[q].agent = schedules[q].agent
  BY <1>0, <1>1 DEF Writes, Write, Known
<1>2. ASSUME NEW r \in Runners, Advance(r)
      PROVE  Known(q)' /\ schedules'[q].agent = schedules[q].agent
  <2>1. \A row \in Rows : Advanced(r, row).kind = row.kind /\ Advanced(r, row).agent = row.agent
    BY DEF Advanced, Rows
  <2> QED BY <1>0, <1>2, <2>1 DEF Advance, Known
<1>3. ASSUME UNCHANGED schedules
      PROVE  Known(q)' /\ schedules'[q].agent = schedules[q].agent
  BY <1>3 DEF Known
<1> QED BY <1>0, <1>1, <1>2, <1>3, Steps
        DEF ToggleAgent, MoveJob, TimePasses, Wake, Lock, SubmitOccurrence, Release, Crash,
            Fail, ReadRow, NotDue, Decide

\* The submit of an occurrence inserts its first job.
Inserts(r, q, u) ==
  /\ SubmitOccurrence(r)
  /\ q = local[r].this
  /\ u = Row(r).next
  /\ jobs[q][u].copies = 0
  /\ jobs'[q][u] = [status |-> "waiting", at |-> local[r].current,
                    policy |-> Row(r).overlap, copies |-> 1]

\* A job stays, is moved to another status by somebody, or is inserted.
LEMMA JobStep ==
  ASSUME IInv, Next, NEW q \in Schedules, NEW u \in Times
  PROVE  \/ jobs'[q][u] = jobs[q][u]
         \/ /\ jobs[q][u].status # "none" /\ jobs'[q][u].status # "waiting"
            /\ jobs'[q][u].copies = jobs[q][u].copies
            /\ jobs'[q][u].at = jobs[q][u].at
         \/ \E r \in Runners : Inserts(r, q, u)
<1>0. TypeOK /\ jobs \in [Schedules -> [Times -> JobRows]] /\ Deciding
  BY DEF IInv, TypeOK
<1>1. ASSUME NEW s \in Schedules, NEW t \in Times, MoveJob(s, t)
      PROVE  \/ jobs'[q][u] = jobs[q][u]
             \/ /\ jobs[q][u].status # "none" /\ jobs'[q][u].status # "waiting"
                /\ jobs'[q][u].copies = jobs[q][u].copies
                /\ jobs'[q][u].at = jobs[q][u].at
  <2>1. PICK move \in {<<"waiting", "paused">>, <<"waiting", "over">>, <<"paused", "resumed">>,
                       <<"resumed", "paused">>, <<"resumed", "over">>} :
          jobs[s][t].status = move[1] /\ jobs' = [jobs EXCEPT ![s][t].status = move[2]]
    BY <1>1 DEF MoveJob
  <2>2. move[1] # "none" /\ move[2] # "waiting"
    BY <2>1
  <2>3. CASE q = s /\ u = t
    BY <1>0, <2>1, <2>2, <2>3 DEF JobRows
  <2>4. CASE ~(q = s /\ u = t)
    BY <1>0, <2>1, <2>4
  <2> QED BY <2>3, <2>4
<1>2. ASSUME NEW r \in Runners, SubmitOccurrence(r)
      PROVE  jobs'[q][u] = jobs[q][u] \/ Inserts(r, q, u)
  <2> DEFINE s == local[r].this  t == Row(r).next
  <2>1. s \in Schedules
    BY <1>0, <1>2 DEF Deciding, SubmitOccurrence, Go
  <2>2. CASE Submitted(s, t)
    BY <1>2, <2>2 DEF SubmitOccurrence
  <2>3. CASE ~Submitted(s, t) /\ q = s /\ u = t
    <3>1. jobs[q][u].copies = 0
      BY <1>0, <2>3 DEF Submitted, JobRows
    <3>2. jobs'[q][u] = [status |-> "waiting", at |-> local[r].current,
                         policy |-> Row(r).overlap, copies |-> 1]
      BY <1>0, <1>2, <2>1, <2>3, <3>1 DEF SubmitOccurrence
    <3> QED BY <1>2, <2>3, <3>1, <3>2 DEF Inserts
  <2>4. CASE ~Submitted(s, t) /\ ~(q = s /\ u = t)
    BY <1>0, <1>2, <2>1, <2>4 DEF SubmitOccurrence
  <2> QED BY <2>2, <2>3, <2>4
<1>3. ASSUME NEW s \in Schedules, NEW row \in Rows, Writes(s, row)
      PROVE  UNCHANGED jobs
  BY <1>3 DEF Writes, Write
<1> QED BY <1>0, <1>1, <1>2, <1>3, Steps
        DEF ToggleAgent, TimePasses, Wake, Lock, Release, Crash, Fail, ReadRow, NotDue,
           Decide,
            Advance

\* Steps of others leave a runner where it is.
LEMMA OwnSteps ==
  ASSUME IInv, Next, NEW r \in Runners
  PROVE  \/ UNCHANGED <<pc[r], local[r]>>
         \/ Wake(r) \/ Lock(r) \/ SubmitOccurrence(r) \/ Advance(r) \/ Release(r)
         \/ Crash(r) \/ Fail(r)
         \/ \E s \in Schedules : ReadRow(r, s) \/ NotDue(r, s) \/ Decide(r, s)
<1>0. TypeOK /\ pc \in [Runners -> PCs] /\ local \in [Runners -> Locals]
  BY DEF IInv, TypeOK
<1>1. ASSUME NEW x \in Runners \ {r},
             \/ Wake(x) \/ Lock(x) \/ SubmitOccurrence(x) \/ Advance(x) \/ Release(x)
             \/ Crash(x) \/ Fail(x)
             \/ \E s \in Schedules : ReadRow(x, s) \/ NotDue(x, s) \/ Decide(x, s)
      PROVE  UNCHANGED <<pc[r], local[r]>>
  BY <1>0, <1>1 DEF Wake, Lock, SubmitOccurrence, Advance, Release, Crash, Fail, ReadRow,
     NotDue,
     Decide, Go
<1>2. ASSUME NEW s \in Schedules, NEW row \in Rows, Writes(s, row)
      PROVE  UNCHANGED <<pc, local>>
  BY <1>2 DEF Writes, Write
<1> QED BY <1>0, <1>1, <1>2, Steps DEF ToggleAgent, MoveJob, TimePasses

-----------------------------------------------------------------------------
(* Each part of the invariant is kept.                                     *)

\* scheduler.lock has the runner inside for its holder.
LEMMA HeldKept ==
  ASSUME IInv, Next
  PROVE  Held'
<1> USE NamesAssumption DEF Held, Inside
<1>0. TypeOK /\ Held /\ pc \in [Runners -> PCs]
  BY DEF IInv, TypeOK
<1>1. ASSUME NEW r \in Runners,
             \/ Wake(r) \/ Lock(r) \/ SubmitOccurrence(r) \/ Advance(r)
             \/ \E s \in Schedules : ReadRow(r, s) \/ NotDue(r, s) \/ Decide(r, s)
      PROVE  Held'
  BY <1>0, <1>1 DEF Wake, Lock, LockFree, SubmitOccurrence, Advance, ReadRow, NotDue,
     Decide, Go
<1>2. ASSUME NEW r \in Runners, Release(r)
      PROVE  Held'
  BY <1>0, <1>2 DEF Release, Go
<1>3. ASSUME NEW r \in Runners, Fail(r) \/ Crash(r)
      PROVE  Held'
  BY <1>0, <1>3 DEF Fail, Crash
<1>4. ASSUME UNCHANGED <<pc, lock>>
      PROVE  Held'
  BY <1>0, <1>4
<1>5. ASSUME NEW s \in Schedules, NEW row \in Rows, Writes(s, row)
      PROVE  UNCHANGED <<pc, lock>>
  BY <1>5 DEF Writes, Write
<1> HIDE DEF Held
<1> QED BY <1>0, <1>1, <1>2, <1>3, <1>4, <1>5, Steps DEF ToggleAgent, MoveJob, TimePasses

\* What a tick has read stays a row of a known schedule and of its agent.
LEMMA ReadsKept ==
  ASSUME IInv, Next
  PROVE  Reads' /\ Deciding'
<1> SUFFICES ASSUME NEW r \in Runners
             PROVE  /\ \A s \in Schedules : Read(r, s)'
                    /\ pc'[r] \in {"submitting", "advancing"} =>
                         local'[r].this \in Schedules /\ Row(r)'.kind # "none"
  BY DEF Reads, Deciding
<1>0. /\ TypeOK /\ pc \in [Runners -> PCs] /\ local \in [Runners -> Locals]
      /\ local[r] \in Locals
      /\ \A s \in Schedules : Read(r, s)
      /\ pc[r] \in {"submitting", "advancing"} =>
           local[r].this \in Schedules /\ Row(r).kind # "none"
  BY DEF IInv, TypeOK, Reads, Deciding
<1>1. ASSUME NEW s \in Schedules, local'[r].snap[s] \in {NoRow, local[r].snap[s]}
      PROVE  Read(r, s)'
  BY <1>0, <1>1, KnownKept DEF Read
<1>2. CASE UNCHANGED <<pc[r], local[r]>>
  BY <1>0, <1>1, <1>2 DEF Row
<1>3. CASE Wake(r) \/ Lock(r)
  <2>1. local'[r].snap = local[r].snap /\ pc'[r] \notin {"submitting", "advancing"}
    BY <1>0, <1>3 DEF Wake, Lock, Go, Locals
  <2> QED BY <1>1, <2>1
<1>4. CASE Release(r) \/ Crash(r) \/ Fail(r)
  <2>1. local'[r] = Idle /\ pc'[r] \notin {"submitting", "advancing"}
    BY <1>0, <1>4 DEF Release, Crash, Fail, Go
  <2> QED BY <1>1, <2>1 DEF Idle
<1>5. CASE SubmitOccurrence(r)
  <2>1. UNCHANGED local /\ pc[r] = "submitting"
    BY <1>5 DEF SubmitOccurrence, Go
  <2> QED BY <1>0, <1>1, <2>1 DEF Row
<1>6. CASE Advance(r)
  <2>1. /\ local' = [local EXCEPT ![r].this = Nobody, ![r].snap[local[r].this] = NoRow]
        /\ pc'[r] = "ticking" /\ local[r].this \in Schedules
    BY <1>0, <1>6 DEF Advance, Go
  <2>2. \A s \in Schedules : local'[r].snap[s] \in {NoRow, local[r].snap[s]}
    BY <1>0, <2>1 DEF Locals
  <2> QED BY <1>1, <2>1, <2>2
<1>7. CASE \E s \in Schedules : ReadRow(r, s)
  <2>1. PICK s \in Schedules : ReadRow(r, s)
    BY <1>7
  <2>2. /\ local' = [local EXCEPT ![r].snap[s] = schedules[s]]
        /\ Known(s) /\ pc'[r] = "ticking" /\ UNCHANGED schedules
    BY <1>0, <2>1 DEF ReadRow, Exists, Known
  <2>3. \A q \in Schedules :
          local'[r].snap[q] = IF q = s THEN schedules[s] ELSE local[r].snap[q]
    BY <1>0, <2>2 DEF Locals
  <2> QED BY <1>1, <2>2, <2>3 DEF Read, Known
<1>8. CASE \E s \in Schedules : NotDue(r, s)
  <2>1. PICK s \in Schedules : NotDue(r, s)
    BY <1>8
  <2>2. /\ local' = [local EXCEPT ![r].todo = local[r].todo \ {s}, ![r].snap[s] = NoRow]
        /\ pc'[r] = "ticking"
    BY <1>0, <2>1 DEF NotDue
  <2>3. \A q \in Schedules : local'[r].snap[q] \in {NoRow, local[r].snap[q]}
    BY <1>0, <2>2 DEF Locals
  <2> QED BY <1>1, <2>2, <2>3
<1>9. CASE \E s \in Schedules : Decide(r, s)
  <2>1. PICK s \in Schedules : Decide(r, s)
    BY <1>9
  <2>2. /\ local' = [local EXCEPT ![r].todo = local[r].todo \ {s}, ![r].this = s]
        /\ local[r].snap[s] # NoRow
    BY <1>0, <2>1 DEF Decide, Listed
  <2>3. local'[r].snap = local[r].snap /\ local'[r].this = s
    BY <1>0, <2>2 DEF Locals
  <2>4. local[r].snap[s].kind # "none"
    BY <1>0, <2>2 DEF Read
  <2> QED BY <1>1, <2>3, <2>4 DEF Row
<1> QED BY <1>2, <1>3, <1>4, <1>5, <1>6, <1>7, <1>8, <1>9, OwnSteps

\* Only occurrences of known schedules have jobs, and each has one.
LEMMA JobsKept ==
  ASSUME IInv, Next
  PROVE  JobsKnown' /\ OccurrenceOnce'
<1>0. /\ TypeOK /\ JobsKnown /\ OccurrenceOnce /\ Deciding /\ Reads
      /\ jobs' \in [Schedules -> [Times -> JobRows]]
  BY Typed DEF IInv, TypeOK
<1> SUFFICES ASSUME NEW q \in Schedules, NEW u \in Times
             PROVE  (jobs'[q][u].status # "none" => Known(q)') /\ jobs'[q][u].copies <= 1
  BY DEF JobsKnown, OccurrenceOnce
<1>1. ASSUME NEW r \in Runners, Inserts(r, q, u)
      PROVE  Known(q) /\ jobs'[q][u].copies <= 1
  <2>1. Row(r).kind # "none" /\ Read(r, q)
    BY <1>0, <1>1 DEF Inserts, SubmitOccurrence, Go, Deciding, Reads
  <2>2. Known(q)
    BY <1>1, <2>1 DEF Inserts, Row, Read, NoRow
  <2> QED BY <1>1, <2>2 DEF Inserts
<1> QED BY <1>0, <1>1, JobStep, KnownKept DEF JobsKnown, OccurrenceOnce

\* Between Decide and the submit no job of the agent begins to wait.
LEMMA QuietKept ==
  ASSUME IInv, Next, NEW r \in Runners
  PROVE  Quiet(r)'
<1>0. /\ TypeOK /\ pc \in [Runners -> PCs] /\ local \in [Runners -> Locals]
      /\ local[r] \in Locals /\ Held /\ Quiet(r) /\ Deciding /\ JobsKnown /\ Reads
  BY DEF IInv, TypeOK
<1>1. CASE UNCHANGED <<pc[r], local[r]>> /\ pc[r] = "submitting"
  <2> SUFFICES ASSUME Row(r).overlap = "skip", NEW q \in Schedules, NEW u \in Times,
                      schedules'[q].agent = Row(r).agent, jobs'[q][u].status = "waiting"
               PROVE  FALSE
    BY <1>1 DEF Quiet, Row
  <2>1. ~\E x \in Runners : Inserts(x, q, u)
    <3> SUFFICES ASSUME NEW x \in Runners, Inserts(x, q, u)
                 PROVE  FALSE
      OBVIOUS
    <3>1. pc[x] = "submitting" /\ pc' = [pc EXCEPT ![x] = "advancing"]
      BY DEF Inserts, SubmitOccurrence, Go
    <3>2. x = r
      BY <1>0, <1>1, <3>1 DEF Held, Inside
    <3> QED BY <1>0, <1>1, <3>1, <3>2
  <2>2. jobs[q][u].status = "waiting"
    BY <2>1, JobStep
  <2>3. schedules'[q].agent = schedules[q].agent
    BY <1>0, <2>2, KnownKept DEF JobsKnown
  <2> QED BY <1>0, <1>1, <2>2, <2>3 DEF Quiet
<1>2. ASSUME NEW s \in Schedules, Decide(r, s), pc'[r] = "submitting"
      PROVE  Quiet(r)'
  <2>1. /\ local' = [local EXCEPT ![r].todo = local[r].todo \ {s}, ![r].this = s]
        /\ Fires(r, s) /\ UNCHANGED <<jobs, schedules>>
    BY <1>0, <1>2 DEF Decide, Decided, Go
  <2>2. Row(r)' = local[r].snap[s]
    BY <1>0, <2>1 DEF Locals, Row
  <2> QED BY <2>1, <2>2 DEF Quiet, Fires, ActiveJobOf
<1>3. CASE pc'[r] # "submitting"
  BY <1>3 DEF Quiet
<1>4. ASSUME \/ Wake(r) \/ Lock(r) \/ SubmitOccurrence(r) \/ Advance(r) \/ Release(r)
             \/ Crash(r) \/ Fail(r)
             \/ \E s \in Schedules : ReadRow(r, s) \/ NotDue(r, s)
      PROVE  pc'[r] # "submitting"
  BY <1>0, <1>4 DEF Wake, Lock, SubmitOccurrence, Advance, Release, Crash, Fail, ReadRow,
     NotDue, Go
<1> QED BY <1>1, <1>2, <1>3, <1>4, OwnSteps

-----------------------------------------------------------------------------
(* The theorems.                                                           *)

\* Without schedules nothing is read, due or queued.
LEMMA Initially ==
  ASSUME Init
  PROVE  IInv
<1> USE NamesAssumption, BoundsAssumption DEF Init
<1>1. TypeOK
  BY Empty DEF TypeOK, PCs
<1>2. Held /\ Guarded /\ Deciding /\ \A r \in Runners : Quiet(r)
  BY DEF Held, Inside, Guarded, Deciding, Quiet
<1>3. Reads /\ JobsKnown /\ OccurrenceOnce
  BY DEF Reads, Read, Idle, JobsKnown, NoJob, OccurrenceOnce
<1> QED BY <1>1, <1>2, <1>3 DEF IInv

\* A step that changes nothing keeps the invariant.
LEMMA Stuttering ==
  ASSUME IInv, UNCHANGED vars
  PROVE  IInv'
BY DEF IInv, TypeOK, Held, Guarded, Reads, Read, Known, Deciding, Row, JobsKnown, Quiet,
       OccurrenceOnce, vars

\* Every step of people, agents, jobs, runners and the clock, and every crash,
\* keeps the invariant.
THEOREM Invariance == Spec => []IInv
<1>1. Init => IInv
  BY Initially
<1>2. IInv /\ [Next]_vars => IInv'
  <2>1. ASSUME IInv, Next PROVE IInv'
    BY <2>1, Typed, HeldKept, ReadsKept, JobsKept, QuietKept DEF IInv
  <2> QED BY <2>1, Stuttering
<1> QED BY <1>1, <1>2, PTL DEF Spec

\* Every variable keeps its type; the desktop never counts past its attempts.
THEOREM TypeCorrect == Spec => []TypeOK
<1>1. IInv => TypeOK
  BY DEF IInv
<1> QED BY <1>1, Invariance, PTL

\* An occurrence becomes one job, however many runners, errors and crashes.
THEOREM OneJobPerOccurrence == Spec => []OccurrenceOnce
<1>1. IInv => OccurrenceOnce
  BY DEF IInv
<1> QED BY <1>1, Invariance, PTL

\* A job that follows overlap="skip" is inserted when no other job that a tick
\* submitted for the agent has waited ever since: the list read by Decide is
\* still right about them at the submit.
THEOREM OverlapSkipped == Spec => OverlapSkipHolds
<1>1. IInv /\ [Next]_vars =>
        [\A s, q \in Schedules, t, u \in Times :
           /\ jobs'[s][t].copies > jobs[s][t].copies
           /\ jobs'[s][t].policy = "skip"
           /\ schedules[q].agent = schedules[s].agent
           => jobs[q][u].status # "waiting"]_vars
  <2> SUFFICES ASSUME IInv, Next, NEW s \in Schedules, NEW q \in Schedules,
                      NEW t \in Times, NEW u \in Times,
                      jobs'[s][t].copies > jobs[s][t].copies,
                      jobs'[s][t].policy = "skip",
                      schedules[q].agent = schedules[s].agent
               PROVE  jobs[q][u].status # "waiting"
    OBVIOUS
  <2>0. jobs[s][t].copies \in Nat /\ Deciding /\ Reads /\ \A r \in Runners : Quiet(r)
    BY DEF IInv, TypeOK, JobRows
  <2>1. PICK r \in Runners : Inserts(r, s, t)
    BY <2>0, JobStep
  <2>2. pc[r] = "submitting" /\ Row(r).overlap = "skip" /\ Row(r).kind # "none" /\ Read(r, s)
    BY <2>0, <2>1 DEF Inserts, SubmitOccurrence, Go, Deciding, Reads
  <2>3. Row(r).agent = schedules[s].agent
    BY <2>1, <2>2 DEF Inserts, Row, Read, NoRow
  <2> QED BY <2>0, <2>2, <2>3 DEF Quiet
<1> QED BY <1>1, Invariance, PTL DEF Spec, OverlapSkipHolds

-----------------------------------------------------------------------------
(* One catch-up: the desktop's runner alone.                               *)

\* What a tick took, it took from the past; before it takes the lock it has
\* read nothing.
Clock ==
  \A r \in Runners :
    /\ local[r].current <= now
    /\ pc[r] \notin Inside => \A s \in Schedules : local[r].snap[s] = NoRow
    /\ pc[r] \in {"submitting", "advancing"} => Row(r).next <= local[r].current

\* An occurrence that fired was due, before now and before the tick at work.
Fired(s, t) ==
  Submitted(s, t) =>
    /\ t <= jobs[s][t].at
    /\ jobs[s][t].at <= now
    /\ \A r \in Runners : pc[r] \in Inside \union {"locking"} =>
         jobs[s][t].at <= local[r].current

\* The next occurrence of a schedule is the one that fired, or one that was
\* still ahead when it fired.
Follows(next, s, t) == Submitted(s, t) => next = t \/ next > jobs[s][t].at

Ahead(s, t) ==
  /\ Exists(s) => Follows(schedules[s].next, s, t)
  /\ \A r \in Runners : local[r].snap[s] # NoRow => Follows(local[r].snap[s].next, s, t)

\* A schedule that a tick has read is as it was, or moved past the tick.
Moved(s) ==
  \A r \in Runners :
    local[r].snap[s] # NoRow /\ Exists(s) =>
      \/ schedules[s].next = local[r].snap[s].next
      \/ schedules[s].next > local[r].current

CInv ==
  /\ Clock
  /\ \A s \in Schedules : Moved(s)
  /\ \A s \in Schedules, t \in Times : Fired(s, t) /\ Ahead(s, t)
  /\ CatchUpOnce

\* The numbers that the argument compares.
Numbers ==
  /\ now \in Nat
  /\ \A r \in Runners : local[r].current \in Nat
  /\ \A s \in Schedules :
       schedules[s].next \in Nat /\ \A r \in Runners : local[r].snap[s].next \in Nat
  /\ \A s \in Schedules, t \in Times : jobs[s][t].at \in Nat /\ jobs[s][t].copies \in Nat
  /\ Times \subseteq Nat

\* They are numbers, by their types.
LEMMA Numbered ==
  ASSUME TypeOK
  PROVE  Numbers
<1>1. \A r \in Runners : local[r] \in Locals
  BY DEF TypeOK
<1>2. \A s \in Schedules : schedules[s] \in Rows
  BY DEF TypeOK
<1>3. \A r \in Runners, s \in Schedules : local[r].snap[s] \in Rows
  BY <1>1 DEF Locals
<1>4. \A s \in Schedules, t \in Times : jobs[s][t] \in JobRows
  BY DEF TypeOK
<1>5. Times \subseteq Nat
  BY BoundsAssumption DEF Times
<1> QED BY <1>1, <1>2, <1>3, <1>4, <1>5 DEF Numbers, TypeOK, Locals, Rows, JobRows

\* The clock does not go back.
LEMMA TimeGoesOn ==
  ASSUME IInv, Next
  PROVE  now' \in Nat /\ now <= now'
<1>1. ASSUME NEW s \in Schedules, NEW row \in Rows, Writes(s, row)
      PROVE  UNCHANGED now
  BY <1>1 DEF Writes, Write
<1>2. TypeOK /\ now \in Nat
  BY DEF IInv, TypeOK
<1>3. UNCHANGED now \/ now' = now + 1
  BY <1>1, <1>2, Steps DEF ToggleAgent, MoveJob, TimePasses, Wake, Lock, SubmitOccurrence,
     Release, Crash, Fail, ReadRow, NotDue, Decide, Advance
<1> QED
  BY <1>2, <1>3

\* No step of any runner takes an occurrence before its time.
LEMMA ClockKept ==
  ASSUME IInv, Clock, Next
  PROVE  Clock'
<1> SUFFICES ASSUME NEW r \in Runners
             PROVE  /\ local'[r].current <= now'
                    /\ pc'[r] \notin Inside => \A s \in Schedules : local'[r].snap[s] = NoRow
                    /\ pc'[r] \in {"submitting", "advancing"} =>
                         Row(r)'.next <= local'[r].current
  BY DEF Clock
<1>0. /\ pc \in [Runners -> PCs] /\ local \in [Runners -> Locals] /\ local[r] \in Locals
      /\ Numbers /\ Deciding
      /\ local[r].current <= now
      /\ pc[r] \notin Inside => \A s \in Schedules : local[r].snap[s] = NoRow
      /\ pc[r] \in {"submitting", "advancing"} => Row(r).next <= local[r].current
  BY Numbered DEF IInv, TypeOK, Clock
<1>1. now' \in Nat /\ now <= now'
  BY TimeGoesOn
<1>2. CASE UNCHANGED <<pc[r], local[r]>>
  BY <1>0, <1>1, <1>2 DEF Row, Numbers
<1>3. CASE Wake(r)
  <2>1. /\ pc[r] = "idle" /\ pc'[r] = "locking" /\ UNCHANGED now
        /\ local'[r].current = now /\ local'[r].snap = local[r].snap
    BY <1>0, <1>3 DEF Wake, Go, Locals
  <2> QED
    BY <1>0, <2>1 DEF Inside, Numbers
<1>4. CASE Lock(r)
  <2>1. /\ pc[r] = "locking" /\ pc'[r] = "ticking" /\ UNCHANGED now
        /\ local'[r].current = local[r].current
    BY <1>0, <1>4 DEF Lock, Go, Locals
  <2> QED
    BY <1>0, <2>1 DEF Inside, Numbers
<1>5. CASE Release(r) \/ Crash(r) \/ Fail(r)
  <2>1. local'[r] = Idle /\ pc'[r] \notin {"submitting", "advancing"}
    BY <1>0, <1>5 DEF Release, Crash, Fail, Go
  <2> QED
    BY <1>1, <2>1 DEF Idle
<1>6. CASE SubmitOccurrence(r)
  <2>1. /\ pc[r] = "submitting" /\ pc'[r] = "advancing" /\ UNCHANGED <<now, local>>
    BY <1>0, <1>6 DEF SubmitOccurrence, Go
  <2> QED
    BY <1>0, <2>1 DEF Inside, Row
<1>7. CASE Advance(r) \/ \E s \in Schedules : ReadRow(r, s) \/ NotDue(r, s)
  <2>1. /\ pc'[r] = "ticking" /\ UNCHANGED now
        /\ local'[r].current = local[r].current
    <3>1. CASE Advance(r)
      BY <1>0, <3>1 DEF Advance, Go, Locals
    <3>2. CASE \E s \in Schedules : ReadRow(r, s) \/ NotDue(r, s)
      BY <1>0, <3>2 DEF ReadRow, NotDue, Locals
    <3> QED
      BY <1>7, <3>1, <3>2
  <2> QED
    BY <1>0, <2>1 DEF Inside
<1>8. ASSUME NEW s \in Schedules, Decide(r, s)
      PROVE  /\ local'[r].current <= now' /\ pc'[r] \in Inside
             /\ Row(r)'.next <= local'[r].current
  <2>1. /\ local' = [local EXCEPT ![r].todo = local[r].todo \ {s}, ![r].this = s]
        /\ local[r].snap[s].next <= local[r].current
        /\ pc'[r] \in Inside /\ UNCHANGED now
    BY <1>0, <1>8 DEF Decide, Due, Go, Decided, Inside
  <2>2. /\ local'[r].current = local[r].current
        /\ local'[r].snap = local[r].snap /\ local'[r].this = s
    BY <1>0, <2>1 DEF Locals
  <2> QED
    BY <1>0, <2>1, <2>2 DEF Row
<1> QED
  BY <1>2, <1>3, <1>4, <1>5, <1>6, <1>7, <1>8, OwnSteps

\* A step that inserts no job and writes no schedule, in which what the tick
\* has read stays or is forgotten, keeps the invariant if it keeps the clock.
LEMMA CaughtUpApart ==
  ASSUME IInv, CInv, Clock',
         UNCHANGED schedules, now \in Nat, now' \in Nat, now <= now',
         \A s \in Schedules, t \in Times :
           jobs'[s][t].copies = jobs[s][t].copies /\ jobs'[s][t].at = jobs[s][t].at,
         \A r \in Runners, s \in Schedules :
           \/ local'[r].snap[s] = NoRow
           \/ local'[r].snap[s] = local[r].snap[s] /\ local'[r].current = local[r].current,
         \A r \in Runners :
           pc'[r] \in Inside \union {"locking"} =>
             \/ local'[r].current = now
             \/ pc[r] \in Inside \union {"locking"} /\ local'[r].current = local[r].current
  PROVE  CInv'
<1>0. Numbers
  BY Numbered DEF IInv
<1>1. \A s \in Schedules, t \in Times : Submitted(s, t)' <=> Submitted(s, t)
  BY DEF Submitted
<1>2. ASSUME NEW s \in Schedules PROVE Moved(s)'
  BY DEF CInv, Moved, Exists
<1>3. ASSUME NEW s \in Schedules, NEW t \in Times PROVE Fired(s, t)'
  <2>1. Fired(s, t)
    BY DEF CInv
  <2> QED BY <1>0, <1>1, <2>1 DEF Fired, Numbers
<1>4. ASSUME NEW s \in Schedules, NEW t \in Times PROVE Ahead(s, t)'
  <2>1. Ahead(s, t)
    BY DEF CInv
  <2> QED BY <1>1, <2>1 DEF Ahead, Follows, Exists
<1>5. CatchUpOnce'
  BY <1>1 DEF CInv, CatchUpOnce
<1> QED BY <1>2, <1>3, <1>4, <1>5 DEF CInv

\* With one runner every step keeps it.
LEMMA CaughtUp ==
  ASSUME Runners = {Desktop}, IInv, CInv, Next
  PROVE  CInv'
<1>00. Clock'
  BY ClockKept DEF CInv
<1>0. /\ TypeOK /\ pc \in [Runners -> PCs] /\ local \in [Runners -> Locals]
      /\ schedules \in [Schedules -> Rows] /\ Numbers /\ Deciding /\ Reads
  BY Numbered DEF IInv, TypeOK
<1>1. ASSUME NEW s \in Schedules, NEW row \in Rows, Writes(s, row)
      PROVE  CInv'
  <2>1. /\ schedules' = [schedules EXCEPT ![s] = row]
        /\ UNCHANGED <<now, jobs, pc, local>>
    BY <1>1 DEF Writes, Write
  <2>2. \/ row.kind = "deleted"
        \/ row.next > now
        \/ Exists(s) /\ row.next = schedules[s].next
    BY <1>1 DEF Writes
  <2>3. row.next \in Nat
    BY DEF Rows
  <2>4. \A r \in Runners : local[r].current <= now
    BY DEF CInv, Clock
  <2>5. ASSUME NEW q \in Schedules PROVE Moved(q)'
    <3>1. CASE q # s
      BY <1>0, <2>1, <3>1 DEF CInv, Moved, Exists
    <3>2. CASE q = s
      <4>1. schedules'[s] = row
        BY <1>0, <2>1
      <4> QED BY <1>0, <2>1, <2>2, <2>3, <2>4, <3>2, <4>1 DEF CInv, Moved, Exists, Numbers
    <3> QED BY <3>1, <3>2
  <2>6. ASSUME NEW q \in Schedules, NEW t \in Times PROVE Fired(q, t)' /\ Ahead(q, t)'
    <3>1. Fired(q, t) /\ Ahead(q, t)
      BY DEF CInv
    <3>2. Fired(q, t)'
      BY <2>1, <3>1 DEF Fired, Submitted
    <3>3. CASE q # s
      BY <1>0, <2>1, <3>1, <3>2, <3>3 DEF Ahead, Follows, Exists, Submitted
    <3>4. CASE q = s
      <4>1. schedules'[s] = row
        BY <1>0, <2>1
      <4> QED BY <1>0, <2>1, <2>2, <2>3, <3>1, <3>2, <3>4, <4>1
              DEF Ahead, Follows, Exists, Submitted, Fired, Numbers
    <3> QED BY <3>2, <3>3, <3>4
  <2>7. CatchUpOnce'
    BY <2>1 DEF CInv, CatchUpOnce, Submitted
  <2> QED BY <1>00, <2>5, <2>6, <2>7 DEF CInv
<1>2. ASSUME NEW a \in Agents, ToggleAgent(a)
      PROVE  CInv'
  BY <1>2 DEF ToggleAgent, CInv, Clock, Moved, Fired, Ahead, Follows, CatchUpOnce,
     Submitted, Exists, Row
<1>3. ASSUME NEW s \in Schedules, NEW t \in Times, MoveJob(s, t)
      PROVE  CInv'
  <2>1. UNCHANGED <<schedules, now, pc, local>>
    BY <1>3 DEF MoveJob
  <2>2. \A q \in Schedules, u \in Times :
          jobs'[q][u].copies = jobs[q][u].copies /\ jobs'[q][u].at = jobs[q][u].at
    <3>1. PICK status : jobs' = [jobs EXCEPT ![s][t].status = status]
      BY <1>3 DEF MoveJob
    <3>2. jobs \in [Schedules -> [Times -> JobRows]]
      BY <1>0 DEF TypeOK
    <3> QED BY <3>1, <3>2 DEF JobRows
  <2> QED BY <1>0, <2>1, <2>2, <1>00, CaughtUpApart DEF Numbers
<1>4. ASSUME TimePasses
      PROVE  CInv'
  <2>1. now' = now + 1 /\ UNCHANGED <<schedules, pc, local, jobs>>
    BY <1>4 DEF TimePasses
  <2> QED BY <1>0, <2>1, <1>00, CaughtUpApart DEF Numbers
<1>5. ASSUME Wake(Desktop)
      PROVE  CInv'
  <2>1. /\ UNCHANGED <<schedules, jobs, now>>
        /\ pc[Desktop] = "idle" /\ pc'[Desktop] = "locking"
        /\ local' = [local EXCEPT ![Desktop].current = now]
    BY <1>0, <1>5 DEF Wake, Go
  <2>2. local'[Desktop].current = now /\ local'[Desktop].snap = local[Desktop].snap
    BY <1>0, <2>1 DEF Locals
  <2>3. \A s \in Schedules : local[Desktop].snap[s] = NoRow
    BY <2>1 DEF CInv, Clock, Inside
  <2>5. \A r \in Runners, s \in Schedules : local'[r].snap[s] = NoRow
    BY <2>2, <2>3
  <2>6. \A r \in Runners : local'[r].current = now
    BY <2>2
  <2>7. \A r \in Runners, s \in Schedules :
          \/ local'[r].snap[s] = NoRow
          \/ local'[r].snap[s] = local[r].snap[s] /\ local'[r].current = local[r].current
    BY <2>5
  <2>8. \A r \in Runners :
          pc'[r] \in Inside \union {"locking"} =>
            \/ local'[r].current = now
            \/ pc[r] \in Inside \union {"locking"} /\ local'[r].current = local[r].current
    BY <2>6
  <2>9. \A s \in Schedules, t \in Times :
          jobs'[s][t].copies = jobs[s][t].copies /\ jobs'[s][t].at = jobs[s][t].at
    BY <2>1
  <2>10. now \in Nat /\ now' \in Nat /\ now <= now' /\ UNCHANGED schedules
    BY <1>0, <2>1 DEF Numbers
  <2> QED BY <1>00, <2>7, <2>8, <2>9, <2>10, CaughtUpApart
<1>6. ASSUME Lock(Desktop)
      PROVE  CInv'
  <2>1. /\ UNCHANGED <<schedules, jobs, now>>
        /\ pc[Desktop] = "locking" /\ pc'[Desktop] = "ticking"
        /\ local'[Desktop].current = local[Desktop].current
        /\ local'[Desktop].snap = local[Desktop].snap
    BY <1>0, <1>6 DEF Lock, Go, Locals
  <2> QED BY <1>0, <2>1, <1>00, CaughtUpApart DEF Numbers
<1>7. ASSUME Release(Desktop) \/ Crash(Desktop) \/ Fail(Desktop)
      PROVE  CInv'
  <2>1. /\ UNCHANGED <<schedules, jobs, now>> /\ pc'[Desktop] \in {"idle", "blocked"}
        /\ local'[Desktop] = Idle
    BY <1>0, <1>7 DEF Release, Crash, Fail, Go
  <2>3. \A r \in Runners, s \in Schedules : local'[r].snap[s] = NoRow
    BY <2>1 DEF Idle
  <2>4. \A r \in Runners : pc'[r] \notin Inside \union {"locking"}
    BY <2>1 DEF Inside
  <2>5. \A r \in Runners, s \in Schedules :
          \/ local'[r].snap[s] = NoRow
          \/ local'[r].snap[s] = local[r].snap[s] /\ local'[r].current = local[r].current
    BY <2>3
  <2>6. \A r \in Runners :
          pc'[r] \in Inside \union {"locking"} =>
            \/ local'[r].current = now
            \/ pc[r] \in Inside \union {"locking"} /\ local'[r].current = local[r].current
    BY <2>4
  <2>7. \A s \in Schedules, t \in Times :
          jobs'[s][t].copies = jobs[s][t].copies /\ jobs'[s][t].at = jobs[s][t].at
    BY <2>1
  <2>8. now \in Nat /\ now' \in Nat /\ now <= now' /\ UNCHANGED schedules
    BY <1>0, <2>1 DEF Numbers
  <2> QED BY <1>00, <2>5, <2>6, <2>7, <2>8, CaughtUpApart
<1>8. ASSUME NEW s \in Schedules, NotDue(Desktop, s)
      PROVE  CInv'
  <2>1. /\ UNCHANGED <<schedules, jobs, now, pc>> /\ pc[Desktop] = "ticking"
        /\ local' = [local EXCEPT ![Desktop].todo = local[Desktop].todo \ {s},
                                  ![Desktop].snap[s] = NoRow]
    BY <1>8 DEF NotDue
  <2>2. /\ local'[Desktop].current = local[Desktop].current
        /\ \A q \in Schedules : local'[Desktop].snap[q] \in {NoRow, local[Desktop].snap[q]}
    BY <1>0, <2>1 DEF Locals
  <2> QED BY <1>0, <2>1, <2>2, <1>00, CaughtUpApart DEF Numbers, Inside
<1>9. ASSUME NEW s \in Schedules, Decide(Desktop, s)
      PROVE  CInv'
  <2>1. /\ UNCHANGED <<schedules, jobs, now>>
        /\ pc[Desktop] = "ticking"
        /\ local' = [local EXCEPT ![Desktop].todo = local[Desktop].todo \ {s},
                                  ![Desktop].this = s]
        /\ pc'[Desktop] \in Inside /\ local[Desktop].snap[s].next <= local[Desktop].current
    BY <1>0, <1>9 DEF Decide, Go, Decided, Due, Inside
  <2>2. /\ local'[Desktop].current = local[Desktop].current
        /\ local'[Desktop].snap = local[Desktop].snap /\ local'[Desktop].this = s
    BY <1>0, <2>1 DEF Locals
  <2> QED BY <1>0, <2>1, <2>2, <1>00, CaughtUpApart DEF Numbers, Inside
<1>10. ASSUME NEW s \in Schedules, ReadRow(Desktop, s)
       PROVE  CInv'
  <2>1. /\ UNCHANGED <<schedules, jobs, now, pc>> /\ pc[Desktop] = "ticking" /\ Exists(s)
        /\ local' = [local EXCEPT ![Desktop].snap[s] = schedules[s]]
    BY <1>10 DEF ReadRow
  <2>2. /\ local'[Desktop].current = local[Desktop].current
        /\ \A q \in Schedules :
             local'[Desktop].snap[q] = IF q = s THEN schedules[s] ELSE local[Desktop].snap[q]
    BY <1>0, <2>1 DEF Locals
  <2>4. ASSUME NEW q \in Schedules PROVE Moved(q)'
    BY <1>0, <2>1, <2>2 DEF CInv, Moved, Exists
  <2>5. ASSUME NEW q \in Schedules, NEW t \in Times PROVE Fired(q, t)' /\ Ahead(q, t)'
    <3>1. Fired(q, t) /\ Ahead(q, t)
      BY DEF CInv
    <3> QED BY <1>0, <2>1, <2>2, <3>1 DEF Fired, Ahead, Follows, Exists, Submitted
  <2>6. CatchUpOnce'
    BY <2>1 DEF CInv, CatchUpOnce, Submitted
  <2> QED BY <1>00, <2>4, <2>5, <2>6 DEF CInv
<1>11. ASSUME Advance(Desktop)
       PROVE  CInv'
  <2> DEFINE s == local[Desktop].this
  <2>1. /\ UNCHANGED <<jobs, now>> /\ pc[Desktop] = "advancing" /\ pc'[Desktop] = "ticking"
        /\ local' = [local EXCEPT ![Desktop].this = Nobody, ![Desktop].snap[s] = NoRow]
        /\ schedules' = [schedules EXCEPT ![s] =
                           IF Exists(s) THEN Advanced(Desktop, schedules[s]) ELSE schedules[s]]
        /\ s \in Schedules
    BY <1>0, <1>11 DEF Advance, Go, Deciding
  <2>2. /\ local'[Desktop].current = local[Desktop].current
        /\ \A q \in Schedules :
             local'[Desktop].snap[q] = IF q = s THEN NoRow ELSE local[Desktop].snap[q]
    BY <1>0, <2>1 DEF Locals
  <2>3. /\ \A q \in Schedules : q # s => schedules'[q] = schedules[q]
        /\ schedules'[s].kind = schedules[s].kind
        /\ \/ schedules'[s].next = schedules[s].next
           \/ schedules'[s].next \in Nat /\ schedules'[s].next > local[Desktop].current
    <3>1. NextFire(Row(Desktop).next, local[Desktop].current) \in Nat
          /\ NextFire(Row(Desktop).next, local[Desktop].current) > local[Desktop].current
      BY <1>0, NextFireAhead DEF Numbers
    <3> HIDE DEF s
    <3> QED BY <1>0, <2>1, <3>1 DEF Advanced, Rows
  <2> HIDE DEF s
  <2>5. ASSUME NEW q \in Schedules PROVE Moved(q)'
    BY <1>0, <2>1, <2>2, <2>3 DEF CInv, Moved, Exists
  <2>6. ASSUME NEW q \in Schedules, NEW t \in Times PROVE Fired(q, t)' /\ Ahead(q, t)'
    <3>1. Fired(q, t) /\ Ahead(q, t)
      BY DEF CInv
    <3>2. Fired(q, t)'
      BY <1>0, <2>1, <2>2, <3>1 DEF Fired, Submitted, Inside
    <3>3. Submitted(q, t) => jobs[q][t].at <= local[Desktop].current
      BY <1>0, <2>1, <3>1 DEF Fired, Inside
    <3> QED BY <1>0, <2>1, <2>2, <2>3, <3>1, <3>2, <3>3
            DEF Ahead, Follows, Exists, Submitted, Numbers
  <2>7. CatchUpOnce'
    BY <2>1 DEF CInv, CatchUpOnce, Submitted
  <2> QED BY <1>00, <2>5, <2>6, <2>7 DEF CInv
<1>12. ASSUME SubmitOccurrence(Desktop)
       PROVE  CInv'
  <2> DEFINE s == local[Desktop].this
  <2>1. /\ UNCHANGED <<schedules, now, local>> /\ pc[Desktop] = "submitting"
        /\ pc'[Desktop] = "advancing" /\ s \in Schedules /\ Row(Desktop).kind # "none"
    BY <1>0, <1>12 DEF SubmitOccurrence, Go, Deciding
  <2>2. Row(Desktop) = local[Desktop].snap[s] /\ local[Desktop].snap[s] # NoRow
        /\ Row(Desktop).next <= local[Desktop].current
    BY <1>0, <2>1 DEF Row, NoRow, CInv, Clock
  <2> HIDE DEF s
  <2>3. ASSUME NEW q \in Schedules, NEW u \in Times
        PROVE  \/ jobs'[q][u].copies = jobs[q][u].copies /\ jobs'[q][u].at = jobs[q][u].at
               \/ /\ q = s /\ u = local[Desktop].snap[s].next
                  /\ jobs'[q][u].copies = 1 /\ jobs'[q][u].at = local[Desktop].current
    BY <2>2, JobStep DEF Inserts, s
  <2>5. ASSUME NEW q \in Schedules PROVE Moved(q)'
    BY <2>1 DEF CInv, Moved, Exists
  <2>6. ASSUME NEW q \in Schedules, NEW u \in Times PROVE Fired(q, u)' /\ Ahead(q, u)'
    <3>1. Fired(q, u) /\ Ahead(q, u) /\ Moved(q)
      BY DEF CInv
    <3>2. CASE jobs'[q][u].copies = jobs[q][u].copies /\ jobs'[q][u].at = jobs[q][u].at
      BY <1>0, <2>1, <3>1, <3>2 DEF Fired, Ahead, Follows, Exists, Submitted, Inside
    <3>3. CASE /\ q = s /\ u = local[Desktop].snap[s].next
               /\ jobs'[q][u].copies = 1 /\ jobs'[q][u].at = local[Desktop].current
      <4>1. local[Desktop].current <= now
        BY <1>0 DEF CInv, Clock
      <4>2. Fired(q, u)'
        BY <1>0, <2>1, <2>2, <3>3, <4>1 DEF Fired, Numbers
      <4>3. Exists(q)' => schedules'[q].next = u \/ schedules'[q].next > jobs'[q][u].at
        BY <2>1, <2>2, <3>1, <3>3 DEF Moved, Exists
      <4>4. \A r \in Runners : local'[r].snap[q].next = u
        BY <2>1, <3>3
      <4> QED BY <4>2, <4>3, <4>4 DEF Ahead, Follows
    <3> QED BY <2>3, <3>2, <3>3
  <2>7. CatchUpOnce'
    <3> SUFFICES ASSUME NEW q \in Schedules, NEW t \in Times, NEW u \in Times,
                        Submitted(q, t)', Submitted(q, u)', u > t
                 PROVE  u > jobs'[q][t].at
      BY <2>6 DEF CatchUpOnce, Fired
    <3>1. CASE UNCHANGED <<jobs[q][t].copies, jobs[q][t].at, jobs[q][u].copies>>
      BY <3>1 DEF CInv, CatchUpOnce, Submitted
    <3>2. CASE q = s /\ u = local[Desktop].snap[s].next
      <4>1. t # u /\ Submitted(q, t) /\ jobs'[q][t].at = jobs[q][t].at
        BY <1>0, <2>3, <3>2 DEF Submitted, Numbers
      <4>2. Ahead(q, t)
        BY DEF CInv
      <4> QED BY <1>0, <2>2, <3>2, <4>1, <4>2 DEF Ahead, Follows
    <3>3. CASE q = s /\ t = local[Desktop].snap[s].next /\ u # local[Desktop].snap[s].next
      <4>1. Submitted(q, u) /\ Ahead(q, u) /\ Fired(q, u)
        BY <2>3, <3>3 DEF Submitted, CInv
      <4> QED BY <1>0, <2>2, <3>3, <4>1 DEF Ahead, Follows, Fired, Numbers
    <3> QED BY <2>3, <3>1, <3>2, <3>3
  <2> QED BY <1>00, <2>5, <2>6, <2>7 DEF CInv
<1> QED BY <1>1, <1>2, <1>3, <1>4, <1>5, <1>6, <1>7, <1>8, <1>9, <1>10, <1>11, <1>12, Steps
        DEF IInv

\* Downtime is caught up once where one runner ticks, whatever people do to its
\* schedules meanwhile and however often it crashes between submit and advance.
THEOREM CaughtUpOnce ==
  ASSUME Runners = {Desktop}
  PROVE  Spec => []CatchUpOnce
<1>1. Init => CInv
  <2> SUFFICES ASSUME Init PROVE CInv
    OBVIOUS
  <2>1. \A s \in Schedules, t \in Times : ~Submitted(s, t)
    BY DEF Init, Submitted, NoJob
  <2> QED BY <2>1 DEF Init, Idle, CInv, Clock, Moved, Fired, Ahead, Follows, CatchUpOnce
<1>2. IInv /\ CInv /\ [Next]_vars => CInv'
  <2>1. ASSUME CInv, UNCHANGED vars PROVE CInv'
    BY <2>1 DEF vars, CInv, Clock, Moved, Fired, Ahead, Follows, CatchUpOnce, Submitted,
       Exists, Row
  <2> QED BY <2>1, CaughtUp
<1>3. CInv => CatchUpOnce
  BY DEF CInv
<1> QED BY <1>1, <1>2, <1>3, Invariance, PTL DEF Spec

-----------------------------------------------------------------------------
(* Any number of runners: what is kept without the desktop being alone.    *)

\* The inserted occurrence was due at the tick that took it.
NeverEarly ==
  \A s \in Schedules, t \in Times :
    Submitted(s, t) => t <= jobs[s][t].at /\ jobs[s][t].at <= now

\* Whoever ticks and whatever people edit between the reading of a schedule and
\* the submit, no occurrence is queued before its time (scheduler.py tick).
THEOREM NeverFiredEarly == Spec => [](Clock /\ NeverEarly)
<1>1. Init => Clock /\ NeverEarly
  <2> SUFFICES ASSUME Init PROVE Clock /\ NeverEarly
    OBVIOUS
  <2>1. \A s \in Schedules, t \in Times : ~Submitted(s, t)
    BY DEF Init, Submitted, NoJob
  <2> QED
    BY <2>1 DEF Init, Idle, Clock, NeverEarly
<1>2. ASSUME IInv, Clock, NeverEarly, Next
      PROVE  NeverEarly'
  <2> SUFFICES ASSUME NEW s \in Schedules, NEW t \in Times, Submitted(s, t)'
               PROVE  t <= jobs'[s][t].at /\ jobs'[s][t].at <= now'
    BY DEF NeverEarly
  <2>0. Numbers /\ Clock'
    BY <1>2, Numbered, ClockKept DEF IInv
  <2>1. now' \in Nat /\ now <= now'
    BY <1>2, TimeGoesOn
  <2>2. CASE \E r \in Runners : Inserts(r, s, t)
    <3>1. PICK r \in Runners : Inserts(r, s, t)
      BY <2>2
    <3>2. pc[r] = "submitting" /\ jobs'[s][t].at = local[r].current /\ t = Row(r).next
      BY <3>1 DEF Inserts, SubmitOccurrence, Go
    <3> QED
      BY <1>2, <2>0, <2>1, <3>2 DEF Clock, Numbers
  <2>3. CASE jobs'[s][t].copies = jobs[s][t].copies /\ jobs'[s][t].at = jobs[s][t].at
    BY <1>2, <2>0, <2>1, <2>3 DEF NeverEarly, Submitted, Numbers
  <2> QED
    BY <1>2, <2>2, <2>3, JobStep
<1>3. ASSUME Clock, NeverEarly, UNCHANGED vars
      PROVE  Clock' /\ NeverEarly'
  BY <1>3 DEF vars, Clock, NeverEarly, Submitted, Row
<1>4. IInv /\ Clock /\ NeverEarly /\ [Next]_vars => Clock' /\ NeverEarly'
  BY <1>2, <1>3, ClockKept
<1> QED
  BY <1>1, <1>4, Invariance, PTL DEF Spec

\* What a tick has read is still the occurrence the table holds.
Untouched ==
  \A r \in Runners, s \in Schedules :
    local[r].snap[s] # NoRow /\ Exists(s) => schedules[s].next = local[r].snap[s].next

\* The table is written by people and by the tick that moves a schedule on.
LEMMA ScheduleStep ==
  ASSUME TypeOK, Next
  PROVE  \/ UNCHANGED schedules
         \/ \E s \in Schedules, row \in Rows : Writes(s, row)
         \/ \E r \in Runners : Advance(r)
BY Steps DEF ToggleAgent, MoveJob, TimePasses, Wake, Lock, SubmitOccurrence, Release, Crash,
   Fail, ReadRow, NotDue, Decide

\* A tick forgets what it has read of a schedule, keeps it, or reads the table.
LEMMA SnapStep ==
  ASSUME IInv, Next, NEW r \in Runners, NEW s \in Schedules
  PROVE  \/ local'[r].snap[s] \in {NoRow, local[r].snap[s]}
         \/ local'[r].snap[s] = schedules[s] /\ UNCHANGED schedules
<1>0. local \in [Runners -> Locals] /\ local[r] \in Locals
  BY DEF IInv, TypeOK
<1>1. CASE Wake(r) \/ Lock(r) \/ SubmitOccurrence(r) \/ \E q \in Schedules : Decide(r, q)
  BY <1>0, <1>1 DEF Wake, Lock, SubmitOccurrence, Decide, Locals
<1>2. CASE Release(r) \/ Crash(r) \/ Fail(r)
  BY <1>0, <1>2 DEF Release, Crash, Fail, Idle
<1>3. CASE Advance(r)
  BY <1>0, <1>3 DEF Advance, Locals
<1>4. CASE \E q \in Schedules : NotDue(r, q)
  BY <1>0, <1>4 DEF NotDue, Locals
<1>5. CASE \E q \in Schedules : ReadRow(r, q)
  BY <1>0, <1>5 DEF ReadRow, Locals
<1> QED
  BY <1>1, <1>2, <1>3, <1>4, <1>5, OwnSteps

\* Only an edit moves an occurrence under a tick that has read it: the lock
\* keeps the other ticks away.
LEMMA UntouchedKept ==
  ASSUME IInv, Clock, Untouched, Next, EditsBetweenTicks
  PROVE  Untouched'
<1> SUFFICES ASSUME NEW r \in Runners, NEW s \in Schedules,
                    local'[r].snap[s] # NoRow, Exists(s)'
             PROVE  schedules'[s].next = local'[r].snap[s].next
  BY DEF Untouched
<1>0. /\ TypeOK /\ schedules \in [Schedules -> Rows] /\ Held /\ Read(r, s) /\ Deciding
      /\ local[r].snap[s] # NoRow /\ Exists(s) => schedules[s].next = local[r].snap[s].next
      /\ pc[r] \notin Inside => local[r].snap[s] = NoRow
  BY DEF IInv, TypeOK, Reads, Untouched, Clock
<1>1. CASE UNCHANGED schedules
  BY <1>0, <1>1, SnapStep DEF Exists
<1>2. ASSUME NEW q \in Schedules, NEW row \in Rows, Writes(q, row)
      PROVE  schedules'[s].next = local'[r].snap[s].next
  <2>1. schedules' = [schedules EXCEPT ![q] = row] /\ UNCHANGED local
    BY <1>2 DEF Writes, Write
  <2>2. CASE q # s
    BY <1>0, <2>1, <2>2 DEF Exists
  <2>3. CASE q = s
    <3>1. Known(s) /\ ~Edit(s)
      BY <1>0, <2>1, <2>3 DEF EditsBetweenTicks, Read
    <3>2. schedules'[s] = row
      BY <1>0, <2>1, <2>3
    <3>3. Exists(s) /\ row.next = schedules[s].next
      BY <1>2, <2>3, <3>1, <3>2 DEF Writes, Exists
    <3> QED
      BY <1>0, <2>1, <3>2, <3>3
  <2> QED
    BY <2>2, <2>3
<1>3. ASSUME NEW x \in Runners, Advance(x)
      PROVE  schedules'[s].next = local'[r].snap[s].next
  <2>1. /\ local[x].this \in Schedules /\ pc[x] \in Inside
        /\ \A q \in Schedules : q # local[x].this => schedules'[q] = schedules[q]
    BY <1>0, <1>3 DEF Advance, Go, Deciding, Inside
  <2>2. CASE s # local[x].this
    BY <1>0, <2>1, <2>2, SnapStep DEF Exists
  <2>3. CASE s = local[x].this /\ r = x
    BY <1>0, <1>3, <2>1, <2>3 DEF Advance, TypeOK, Locals
  <2>4. CASE r # x
    <3>1. pc[r] \notin Inside /\ local'[r] = local[r]
      BY <1>0, <1>3, <2>1, <2>4 DEF Held, Advance, TypeOK
    <3> QED
      BY <1>0, <3>1
  <2> QED
    BY <2>2, <2>3, <2>4
<1> QED
  BY <1>0, <1>1, <1>2, <1>3, ScheduleStep

\* scheduler.py:218, "A cross-process lock protects occurrence advancement",
\* holds of every run in which nobody edits a schedule between a tick's reading
\* and its deciding: the lock orders the ticks, and only the edit is outside it.
THEOREM FutureKeptBetweenTicks ==
  Spec /\ [][EditsBetweenTicks]_vars => FutureOccurrenceKept
<1>1. Init => Untouched
  BY DEF Init, Untouched, Idle
<1>2. IInv /\ Clock /\ Untouched /\ [Next]_vars /\ [EditsBetweenTicks]_vars => Untouched'
  <2>1. ASSUME Untouched, UNCHANGED vars PROVE Untouched'
    BY <2>1 DEF vars, Untouched, Exists
  <2> QED
    BY <2>1, UntouchedKept DEF vars
<1>3. IInv /\ Clock /\ Untouched /\ [Next]_vars =>
        [local' # local =>
           \A s \in Schedules :
             schedules[s].enabled /\ schedules[s].next > now => schedules'[s] = schedules[s]]_vars
  <2> SUFFICES ASSUME IInv, Clock, Untouched, Next, local' # local, NEW s \in Schedules,
                      schedules[s].next > now
               PROVE  schedules'[s] = schedules[s]
    OBVIOUS
  <2>0. Numbers /\ Deciding /\ TypeOK /\ schedules \in [Schedules -> Rows]
    BY Numbered DEF IInv, TypeOK
  <2>1. ASSUME NEW r \in Runners, Advance(r)
        PROVE  schedules'[s] = schedules[s]
    <3>1. CASE s # local[r].this \/ ~Exists(s)
      BY <2>0, <2>1, <3>1 DEF Advance
    <3>2. CASE s = local[r].this /\ Exists(s)
      <4>1. /\ Row(r) = local[r].snap[s] /\ Row(r).kind # "none"
            /\ Row(r).next <= local[r].current /\ local[r].current <= now
        BY <2>0, <2>1, <3>2 DEF Advance, Go, Deciding, Clock, Row
      <4>2. schedules[s].next = local[r].snap[s].next
        BY <3>2, <4>1 DEF Untouched, NoRow
      <4> QED
        BY <2>0, <4>1, <4>2 DEF Numbers
    <3> QED
      BY <3>1, <3>2
  <2>2. ASSUME NEW q \in Schedules, NEW row \in Rows, Writes(q, row)
        PROVE  FALSE
    BY <2>2 DEF Writes, Write
  <2> QED
    BY <2>0, <2>1, <2>2, ScheduleStep
<1> QED
  BY <1>1, <1>2, <1>3, Invariance, NeverFiredEarly, PTL DEF Spec, FutureOccurrenceKept
================================================================================
