----------------------------- MODULE JobsProofs -----------------------------
(***************************************************************************)
(* Proofs about Jobs for any sets of agents, jobs and workers.  The        *)
(* argument is one inductive invariant, IInv: rows are filled in, a        *)
(* claiming or running worker holds its agent's lock, and a job has one    *)
(* claimant for life in whose name everything else happens.                *)
(***************************************************************************)
EXTENDS Jobs, TLAPS

USE DEF Job, Agent

(* Initial states satisfy the inductive invariant. *)
LEMMA InitInv == Init => IInv
<1> SUFFICES ASSUME Init PROVE IInv
  OBVIOUS
<1> USE DEF Init, AbsentJob
<1>1. TypeOK
  BY NamesAssumption, BoundsAssumption
  DEF TypeOK, AgentRows, JobRows, Locals, PCs, Beats, Statuses, Active, Settled
<1>2. RowsFilled
  BY DEF RowsFilled
<1>3. LockHeld /\ TurnUnderOneDefinition
  BY DEF LockHeld, TurnUnderOneDefinition
<1>4. ClaimedOnce
  BY DEF ClaimedOnce
<1>5. OneActivePerAgent /\ ReplyFromExecutor
  BY DEF OneActivePerAgent, ReplyFromExecutor, Active
<1> QED
  BY <1>1, <1>2, <1>3, <1>4, <1>5 DEF IInv

(* The updates the actions make to a job row keep it a job row. *)
LEMMA RowUpdates ==
  ASSUME NEW r \in JobRows, NEW w \in Workers
  PROVE  /\ \A s \in Statuses : [r EXCEPT !.status = s] \in JobRows
         /\ [r EXCEPT !.objective = @ + 1] \in JobRows
         /\ [r EXCEPT !.status = "running", !.token = w, !.lease = "live"] \in JobRows
         /\ \A s \in Statuses :
              [r EXCEPT !.status = s, !.lease = "none", !.result = w] \in JobRows
         /\ \A l \in {"none", "live", "lapsed"} : [r EXCEPT !.lease = l] \in JobRows
<1>1. \A s \in Statuses : [r EXCEPT !.status = s] \in JobRows
  BY DEF JobRows
<1>2. [r EXCEPT !.objective = @ + 1] \in JobRows
  BY DEF JobRows
<1>3. [r EXCEPT !.status = "running", !.token = w, !.lease = "live"] \in JobRows
  BY DEF JobRows, Statuses, Active
<1>4. \A s \in Statuses :
        [r EXCEPT !.status = s, !.lease = "none", !.result = w] \in JobRows
  BY DEF JobRows
<1>5. \A l \in {"none", "live", "lapsed"} : [r EXCEPT !.lease = l] \in JobRows
  BY DEF JobRows
<1> QED
  BY <1>1, <1>2, <1>3, <1>4, <1>5

(* A reconciled row is a job row; it needs no worker. *)
LEMMA ReviewRowType ==
  ASSUME NEW j \in Jobs, jobs[j] \in JobRows
  PROVE  ReviewRow(j) \in JobRows
BY DEF ReviewRow, JobRows, Statuses, Settled

(* The updates the actions make to a worker's locals keep them locals. *)
LEMMA LocalUpdates ==
  ASSUME NEW l \in Locals
  PROVE  /\ \A j \in Jobs : [l EXCEPT !.job = j] \in Locals
         /\ \A o, r \in Nat : [l EXCEPT !.objective = o, !.revision = r] \in Locals
         /\ \A r \in Nat : [l EXCEPT !.session = r] \in Locals
         /\ \A c \in BOOLEAN : [l EXCEPT !.cancelled = c] \in Locals
BY DEF Locals

(* No step leaves the types or empties a row. *)
LEMMA TypeStep ==
  ASSUME TypeOK, RowsFilled, [Next]_vars
  PROVE  TypeOK' /\ RowsFilled'
<1> USE NamesAssumption, BoundsAssumption DEF TypeOK
<1>1. ASSUME NEW j \in Jobs, NEW a \in Agents, Submit(j, a)
      PROVE  TypeOK' /\ RowsFilled'
  <2>1. agents[a].revision \in Nat
    BY DEF AgentRows
  <2>2. jobs' \in [Jobs -> JobRows]
    BY <1>1, <2>1 DEF Submit, AbsentJob, JobRows, Statuses
  <2> QED
    BY <1>1, <2>2 DEF Submit, AbsentJob, RowsFilled
<1>2. ASSUME NEW j \in Jobs, Cancel(j) \/ Pause(j) \/ Resume(j)
      PROVE  TypeOK' /\ RowsFilled'
  <2>1. PICK from \in Statuses \ {"absent"}, to \in Statuses \ {"absent"} : SetStatus(j, from, to)
    BY <1>2 DEF Cancel, Pause, Resume, Statuses, Active, Settled
  <2>2. [jobs[j] EXCEPT !.status = to] \in JobRows
    BY DEF JobRows
  <2>3. TypeOK'
    BY <2>1, <2>2 DEF SetStatus
  <2>4. RowsFilled'
    BY <2>1 DEF SetStatus, RowsFilled, JobRows
  <2> QED
    BY <2>3, <2>4
<1>3. ASSUME NEW j \in Jobs, Amend(j)
      PROVE  TypeOK' /\ RowsFilled'
  <2>1. [jobs[j] EXCEPT !.objective = @ + 1] \in JobRows
    BY DEF JobRows
  <2>2. TypeOK'
    BY <1>3, <2>1 DEF Amend
  <2>3. RowsFilled'
    BY <1>3 DEF Amend, RowsFilled, JobRows
  <2> QED
    BY <2>2, <2>3
<1>4. ASSUME NEW a \in Agents, Configure(a) \/ BeginSessionTurn(a) \/ EndSessionTurn(a)
      PROVE  TypeOK' /\ RowsFilled'
  <2>1. \A s \in {"active", "paused"} :
          [state |-> s, revision |-> agents[a].revision + 1] \in AgentRows
    BY DEF AgentRows
  <2>2. TypeOK'
    BY <1>4, <2>1 DEF Configure, BeginSessionTurn, EndSessionTurn
  <2>3. RowsFilled'
    BY <1>4 DEF Configure, BeginSessionTurn, EndSessionTurn, RowsFilled
  <2> QED
    BY <2>2, <2>3
<1>5. ASSUME NEW w \in Workers, NEW j \in Jobs, Launch(w, j)
      PROVE  TypeOK' /\ RowsFilled'
  <2>1. [local[w] EXCEPT !.job = j] \in Locals
    BY DEF Locals
  <2>2. TypeOK'
    BY <1>5, <2>1 DEF Launch, Go, PCs
  <2>3. RowsFilled'
    BY <1>5 DEF Launch, Go, RowsFilled, Locals
  <2> QED
    BY <2>2, <2>3
<1>6. ASSUME NEW w \in Workers, ReadJob(w)
      PROVE  TypeOK' /\ RowsFilled'
  <2>1. Job(w) \in Jobs
    BY <1>6 DEF ReadJob, Go, RowsFilled
  <2>2. jobs[Job(w)].objective \in Nat /\ jobs[Job(w)].revision \in Nat
    BY <2>1 DEF JobRows
  <2>3. [local[w] EXCEPT !.objective = jobs[Job(w)].objective,
                         !.revision = jobs[Job(w)].revision] \in Locals
    BY <2>2, LocalUpdates
  <2>4. TypeOK'
    BY <1>6, <2>3 DEF ReadJob, Go, PCs
  <2>5. RowsFilled'
    BY <1>6 DEF ReadJob, Go, RowsFilled, Locals
  <2> QED
    BY <2>4, <2>5
<1>7. ASSUME NEW w \in Workers, LockForClaim(w) \/ ClaimBusy(w) \/ ClaimRefused(w)
      PROVE  TypeOK' /\ RowsFilled'
  <2>1. TypeOK'
    BY <1>7 DEF LockForClaim, ClaimBusy, ClaimRefused, HoldLock, FreeLock, Go, PCs
  <2>2. RowsFilled'
    BY <1>7 DEF LockForClaim, ClaimBusy, ClaimRefused, Go, RowsFilled
  <2> QED
    BY <2>1, <2>2
<1>8. ASSUME NEW w \in Workers, Claim(w)
      PROVE  TypeOK' /\ RowsFilled'
  <2>1. Job(w) \in Jobs
    BY <1>8 DEF Claim, Go, RowsFilled
  <2>2. [jobs[Job(w)] EXCEPT !.status = "running", !.token = w, !.lease = "live"] \in JobRows
    BY <2>1, RowUpdates
  <2>3. TypeOK'
    BY <1>8, <2>1, <2>2 DEF Claim, FreeLock, Go, PCs, Beats
  <2>4. RowsFilled'
    BY <1>8, <2>1 DEF Claim, Go, RowsFilled, JobRows
  <2> QED
    BY <2>3, <2>4
<1>9. ASSUME NEW w \in Workers, CheckRevision(w) \/ TurnRefused(w)
      PROVE  TypeOK' /\ RowsFilled'
  <2>1. TypeOK'
    BY <1>9 DEF CheckRevision, TurnRefused, Go, PCs
  <2>2. RowsFilled'
    BY <1>9 DEF CheckRevision, TurnRefused, Go, RowsFilled
  <2> QED
    BY <2>1, <2>2
<1>10. ASSUME NEW w \in Workers, OpenSession(w)
      PROVE  TypeOK' /\ RowsFilled'
  <2>1. Job(w) \in Jobs /\ jobs[Job(w)].agent \in Agents
    BY <1>10 DEF OpenSession, Go, RowsFilled
  <2>2. agents[Agent(w)].revision \in Nat
    BY <2>1 DEF AgentRows
  <2>3. [local[w] EXCEPT !.session = agents[Agent(w)].revision] \in Locals
    BY <2>2 DEF Locals
  <2>4. TypeOK'
    BY <1>10, <2>3 DEF OpenSession, Go, PCs
  <2>5. RowsFilled'
    BY <1>10 DEF OpenSession, Go, RowsFilled, Locals
  <2> QED
    BY <2>4, <2>5
<1>11. ASSUME NEW w \in Workers, StartTurn(w) \/ EndTurn(w)
      PROVE  TypeOK' /\ RowsFilled'
  <2>1. Job(w) \in Jobs
    BY <1>11 DEF StartTurn, EndTurn, Go, RowsFilled
  <2>2. TypeOK'
    BY <1>11, <2>1 DEF StartTurn, EndTurn, FreeLock, Go, PCs
  <2>3. RowsFilled'
    BY <1>11 DEF StartTurn, EndTurn, Go, RowsFilled
  <2> QED
    BY <2>2, <2>3
<1>12. ASSUME NEW w \in Workers, Finish(w)
      PROVE  TypeOK' /\ RowsFilled'
  <2>1. Job(w) \in Jobs
    BY <1>12 DEF Finish, Go, RowsFilled
  <2>2. Outcome(w) \in Statuses \ {"absent"}
    BY DEF Outcome, Statuses, Settled
  <2>3. [jobs[Job(w)] EXCEPT !.status = Outcome(w), !.lease = "none", !.result = w] \in JobRows
    BY <2>1, <2>2, RowUpdates
  <2>4. TypeOK'
    BY <1>12, <2>1, <2>3 DEF Finish, Go, PCs
  <2>5. RowsFilled'
    BY <1>12, <2>1, <2>2 DEF Finish, Go, RowsFilled, JobRows
  <2> QED
    BY <2>4, <2>5
<1>13. ASSUME NEW w \in Workers, FinishFenced(w) \/ Exit(w) \/ Crash(w)
      PROVE  TypeOK' /\ RowsFilled'
  <2>1. TypeOK'
    BY <1>13 DEF FinishFenced, Exit, Crash, Go, PCs, Beats
  <2>2. RowsFilled'
    BY <1>13 DEF FinishFenced, Exit, Crash, Go, RowsFilled
  <2> QED
    BY <2>1, <2>2
<1>14. ASSUME NEW w \in Workers, HeartbeatRead(w)
      PROVE  TypeOK' /\ RowsFilled'
  <2>1. [local[w] EXCEPT !.cancelled = @ \/ jobs[Job(w)].token # w] \in Locals
    BY LocalUpdates
  <2>2. TypeOK'
    BY <1>14, <2>1 DEF HeartbeatRead, Beats
  <2>3. RowsFilled'
    BY <1>14 DEF HeartbeatRead, RowsFilled, Locals
  <2> QED
    BY <2>2, <2>3
<1>15. ASSUME NEW w \in Workers, HeartbeatWrite(w)
      PROVE  TypeOK' /\ RowsFilled'
  <2>1. Job(w) \in Jobs
    BY <1>15 DEF HeartbeatWrite, RowsFilled
  <2>2. [local[w] EXCEPT !.cancelled = @ \/ beat[w] = "renew_cancel"] \in Locals
    BY LocalUpdates
  <2>3. [jobs[Job(w)] EXCEPT !.lease =
           IF jobs[Job(w)].token = w THEN "live" ELSE @] \in JobRows
    BY <2>1 DEF JobRows
  <2>4. TypeOK'
    BY <1>15, <2>1, <2>2, <2>3 DEF HeartbeatWrite, Beats
  <2>5. RowsFilled'
    BY <1>15, <2>1 DEF HeartbeatWrite, RowsFilled, Locals, JobRows
  <2> QED
    BY <2>4, <2>5
<1>16. ASSUME NEW j \in Jobs, LeaseLapses(j)
      PROVE  TypeOK' /\ RowsFilled'
  <2>1. [jobs[j] EXCEPT !.lease = "lapsed"] \in JobRows
    BY DEF JobRows
  <2>2. TypeOK'
    BY <1>16, <2>1 DEF LeaseLapses
  <2>3. RowsFilled'
    BY <1>16 DEF LeaseLapses, RowsFilled, JobRows
  <2> QED
    BY <2>2, <2>3
<1>17. CASE ReconcileRead
  BY <1>17 DEF ReconcileRead, Lapsed, RowsFilled, Active
<1>18. CASE ReconcileWrite
  <2>1. \A j \in Jobs : ReviewRow(j) \in JobRows
    BY ReviewRowType
  <2>2. TypeOK'
    BY <1>18, <2>1 DEF ReconcileWrite
  <2>3. \A j \in Jobs : jobs'[j].agent = jobs[j].agent
    BY <1>18 DEF ReconcileWrite, ReviewRow, JobRows
  <2>4. \A j \in Jobs : jobs'[j].status \in {jobs[j].status, "needs_review"}
    BY <1>18 DEF ReconcileWrite, ReviewRow, JobRows
  <2>5. RowsFilled'
    BY <1>18, <2>3, <2>4 DEF ReconcileWrite, RowsFilled, Locals
  <2> QED
    BY <2>2, <2>5
<1>19. CASE UNCHANGED vars
  BY <1>19 DEF vars, RowsFilled
<1> QED
  BY <1>1, <1>2, <1>3, <1>4, <1>5, <1>6, <1>7, <1>8, <1>9, <1>10, <1>11, <1>12,
     <1>13, <1>14, <1>15, <1>16, <1>17, <1>18, <1>19
  DEF Next, UserStep, ExecuteStep

(* What SetStatus does to the rows of the job table. *)
LEMMA SetStatusRows ==
  ASSUME TypeOK, NEW j \in Jobs, NEW from, NEW to, SetStatus(j, from, to)
  PROVE  /\ jobs[j].status = from
         /\ jobs'[j].status = to
         /\ \A k \in Jobs : /\ jobs'[k].agent = jobs[k].agent
                            /\ jobs'[k].token = jobs[k].token
                            /\ jobs'[k].result = jobs[k].result
                            /\ k # j => jobs'[k].status = jobs[k].status
BY DEF TypeOK, JobRows, SetStatus

(* What the reconciler's commit does to the rows of the job table. *)
LEMMA ReconcileRows ==
  ASSUME TypeOK, ReconcileWrite
  PROVE  \A j \in Jobs :
           /\ jobs'[j].agent = jobs[j].agent
           /\ j \notin stale => jobs'[j] = jobs[j]
           /\ j \in stale => /\ jobs'[j].status = "needs_review"
                             /\ jobs'[j].token = Nobody
                             /\ jobs'[j].result = Reconciler
<1> SUFFICES ASSUME NEW j \in Jobs
             PROVE  /\ jobs'[j].agent = jobs[j].agent
                    /\ j \notin stale => jobs'[j] = jobs[j]
                    /\ j \in stale => /\ jobs'[j].status = "needs_review"
                                      /\ jobs'[j].token = Nobody
                                      /\ jobs'[j].result = Reconciler
  OBVIOUS
<1>1. jobs'[j] = IF j \in stale THEN ReviewRow(j) ELSE jobs[j]
  BY DEF ReconcileWrite
<1> QED
  BY <1>1 DEF TypeOK, JobRows, ReviewRow

(* The turn lock stays with the worker that is claiming or running a turn. *)
LEMMA LockStep ==
  ASSUME IInv, [Next]_vars
  PROVE  LockHeld'
<1> USE NamesAssumption
    DEF IInv, TypeOK, RowsFilled, JobRows, Locals, AgentRows, Statuses, Active, Settled,
        LockHeld
<1>1. ASSUME NEW j \in Jobs, NEW a \in Agents, Submit(j, a)
      PROVE  LockHeld'
  BY <1>1 DEF Submit, AbsentJob
<1>2. ASSUME NEW j \in Jobs, Cancel(j) \/ Pause(j) \/ Resume(j)
      PROVE  LockHeld'
  <2>1. PICK from, to \in Statuses :
          /\ SetStatus(j, from, to)
          /\ <<from, to>> \in {<<"queued", "cancelled">>, <<"running", "cancel_requested">>,
                               <<"queued", "paused">>, <<"paused", "queued">>}
    BY <1>2 DEF Cancel, Pause, Resume
  <2> QED
    BY <2>1, SetStatusRows DEF SetStatus
<1>3. ASSUME NEW j \in Jobs, Amend(j)
      PROVE  LockHeld'
  BY <1>3 DEF Amend
<1>4. ASSUME NEW a \in Agents, Configure(a)
      PROVE  LockHeld'
  BY <1>4 DEF Configure, Configurable
<1>5. ASSUME NEW a \in Agents, BeginSessionTurn(a) \/ EndSessionTurn(a)
      PROVE  LockHeld'
  BY <1>5 DEF BeginSessionTurn, EndSessionTurn
<1>6. ASSUME NEW w \in Workers, NEW j \in Jobs, Launch(w, j)
      PROVE  LockHeld'
  BY <1>6 DEF Launch, Go
<1>7. ASSUME NEW w \in Workers, ReadJob(w)
      PROVE  LockHeld'
  BY <1>7 DEF ReadJob, Go
<1>8. ASSUME NEW w \in Workers, LockForClaim(w) \/ ClaimBusy(w) \/ ClaimRefused(w)
      PROVE  LockHeld'
  BY <1>8 DEF LockForClaim, ClaimBusy, ClaimRefused, HoldLock, FreeLock, Go
<1>9. ASSUME NEW w \in Workers, Claim(w)
      PROVE  LockHeld'
  BY <1>9 DEF Claim, Claimable, FreeLock, Go
<1>10. ASSUME NEW w \in Workers, CheckRevision(w) \/ TurnRefused(w)
      PROVE  LockHeld'
  BY <1>10 DEF CheckRevision, TurnRefused, Go
<1>11. ASSUME NEW w \in Workers, OpenSession(w)
      PROVE  LockHeld'
  BY <1>11 DEF OpenSession, Go
<1>12. ASSUME NEW w \in Workers, StartTurn(w)
      PROVE  LockHeld'
  BY <1>12 DEF StartTurn, TurnAllowed, Go
<1>13. ASSUME NEW w \in Workers, EndTurn(w)
      PROVE  LockHeld'
  BY <1>13 DEF EndTurn, FreeLock, Go
<1>14. ASSUME NEW w \in Workers, Finish(w)
      PROVE  LockHeld'
  BY <1>14 DEF Finish, Outcome, Owns, Go
<1>15. ASSUME NEW w \in Workers, FinishFenced(w) \/ Exit(w) \/ Crash(w)
      PROVE  LockHeld'
  BY <1>15 DEF FinishFenced, Exit, Crash, Go
<1>16. ASSUME NEW w \in Workers, HeartbeatRead(w)
      PROVE  LockHeld'
  BY <1>16 DEF HeartbeatRead
<1>17. ASSUME NEW w \in Workers, HeartbeatWrite(w)
      PROVE  LockHeld'
  BY <1>17 DEF HeartbeatWrite
<1>18. ASSUME NEW j \in Jobs, LeaseLapses(j)
      PROVE  LockHeld'
  BY <1>18 DEF LeaseLapses
<1>19. CASE ReconcileRead
  BY <1>19 DEF ReconcileRead, Lapsed
<1>20. CASE ReconcileWrite
  BY <1>20, ReconcileRows DEF ReconcileWrite
<1>21. CASE UNCHANGED vars
  BY <1>21 DEF vars
<1> QED
  BY <1>1, <1>2, <1>3, <1>4, <1>5, <1>6, <1>7, <1>8, <1>9, <1>10, <1>11,
     <1>12, <1>13, <1>14, <1>15, <1>16, <1>17, <1>18, <1>19, <1>20, <1>21
  DEF Next, UserStep, ExecuteStep

(* A job keeps its one claimant. *)
LEMMA ClaimStep ==
  ASSUME IInv, [Next]_vars
  PROVE  ClaimedOnce'
<1> USE NamesAssumption
    DEF IInv, TypeOK, RowsFilled, JobRows, Locals, AgentRows, Statuses, Active, Settled,
        ClaimedOnce
<1>1. ASSUME NEW j \in Jobs, NEW a \in Agents, Submit(j, a)
      PROVE  ClaimedOnce'
  BY <1>1 DEF Submit, AbsentJob
<1>2. ASSUME NEW j \in Jobs, Cancel(j) \/ Pause(j) \/ Resume(j)
      PROVE  ClaimedOnce'
  <2>1. PICK from, to \in Statuses :
          /\ SetStatus(j, from, to)
          /\ <<from, to>> \in {<<"queued", "cancelled">>, <<"running", "cancel_requested">>,
                               <<"queued", "paused">>, <<"paused", "queued">>}
    BY <1>2 DEF Cancel, Pause, Resume
  <2> QED
    BY <2>1, SetStatusRows DEF SetStatus
<1>3. ASSUME NEW j \in Jobs, Amend(j)
      PROVE  ClaimedOnce'
  BY <1>3 DEF Amend
<1>4. ASSUME NEW a \in Agents, Configure(a)
      PROVE  ClaimedOnce'
  BY <1>4 DEF Configure, Configurable
<1>5. ASSUME NEW a \in Agents, BeginSessionTurn(a) \/ EndSessionTurn(a)
      PROVE  ClaimedOnce'
  BY <1>5 DEF BeginSessionTurn, EndSessionTurn
<1>6. ASSUME NEW w \in Workers, NEW j \in Jobs, Launch(w, j)
      PROVE  ClaimedOnce'
  BY <1>6 DEF Launch, Go
<1>7. ASSUME NEW w \in Workers, ReadJob(w)
      PROVE  ClaimedOnce'
  BY <1>7 DEF ReadJob, Go
<1>8. ASSUME NEW w \in Workers, LockForClaim(w) \/ ClaimBusy(w) \/ ClaimRefused(w)
      PROVE  ClaimedOnce'
  <2>1. CASE LockForClaim(w)
    BY <2>1 DEF LockForClaim, HoldLock, FreeLock, Go
  <2>2. CASE ClaimBusy(w)
    BY <2>2 DEF ClaimBusy, HoldLock, FreeLock, Go
  <2>3. CASE ClaimRefused(w)
    BY <2>3 DEF ClaimRefused, HoldLock, FreeLock, Go
  <2> QED
    BY <1>8, <2>1, <2>2, <2>3
<1>9. ASSUME NEW w \in Workers, Claim(w)
      PROVE  ClaimedOnce'
  BY <1>9 DEF Claim, Claimable, FreeLock, Go
<1>10. ASSUME NEW w \in Workers, CheckRevision(w) \/ TurnRefused(w)
      PROVE  ClaimedOnce'
  <2>1. CASE CheckRevision(w)
    BY <2>1 DEF CheckRevision, Go
  <2>2. CASE TurnRefused(w)
    BY <2>2 DEF TurnRefused, Go
  <2> QED
    BY <1>10, <2>1, <2>2
<1>11. ASSUME NEW w \in Workers, OpenSession(w)
      PROVE  ClaimedOnce'
  BY <1>11 DEF OpenSession, Go
<1>12. ASSUME NEW w \in Workers, StartTurn(w)
      PROVE  ClaimedOnce'
  BY <1>12 DEF StartTurn, TurnAllowed, Go
<1>13. ASSUME NEW w \in Workers, EndTurn(w)
      PROVE  ClaimedOnce'
  BY <1>13 DEF EndTurn, FreeLock, Go
<1>14. ASSUME NEW w \in Workers, Finish(w)
      PROVE  ClaimedOnce'
  BY <1>14 DEF Finish, Outcome, Owns, Go
<1>15. ASSUME NEW w \in Workers, FinishFenced(w) \/ Exit(w) \/ Crash(w)
      PROVE  ClaimedOnce'
  <2>1. CASE FinishFenced(w)
    <3>1. /\ pc' = [pc EXCEPT ![w] = pc'[w]]
          /\ pc'[w] \in {"failing", "stopping"}
      BY <2>1 DEF FinishFenced, Go
    <3> QED
      BY <2>1, <3>1 DEF FinishFenced
  <2>2. CASE Exit(w)
    BY <2>2 DEF Exit, Go
  <2>3. CASE Crash(w)
    BY <2>3 DEF Crash, Go
  <2> QED
    BY <1>15, <2>1, <2>2, <2>3
<1>16. ASSUME NEW w \in Workers, HeartbeatRead(w)
      PROVE  ClaimedOnce'
  BY <1>16 DEF HeartbeatRead
<1>17. ASSUME NEW w \in Workers, HeartbeatWrite(w)
      PROVE  ClaimedOnce'
  BY <1>17 DEF HeartbeatWrite
<1>18. ASSUME NEW j \in Jobs, LeaseLapses(j)
      PROVE  ClaimedOnce'
  BY <1>18 DEF LeaseLapses
<1>19. CASE ReconcileRead
  BY <1>19 DEF ReconcileRead, Lapsed
<1>20. CASE ReconcileWrite
  BY <1>20, ReconcileRows DEF ReconcileWrite
<1>21. CASE UNCHANGED vars
  BY <1>21 DEF vars
<1> QED
  BY <1>1, <1>2, <1>3, <1>4, <1>5, <1>6, <1>7, <1>8, <1>9, <1>10, <1>11,
     <1>12, <1>13, <1>14, <1>15, <1>16, <1>17, <1>18, <1>19, <1>20, <1>21
  DEF Next, UserStep, ExecuteStep

(* An agent never comes to own two active jobs. *)
LEMMA OneActiveStep ==
  ASSUME IInv, [Next]_vars
  PROVE  OneActivePerAgent'
<1> USE NamesAssumption
    DEF IInv, TypeOK, RowsFilled, JobRows, Locals, AgentRows, Statuses, Active, Settled,
        OneActivePerAgent
<1>1. ASSUME NEW j \in Jobs, NEW a \in Agents, Submit(j, a)
      PROVE  OneActivePerAgent'
  BY <1>1 DEF Submit, AbsentJob
<1>2. ASSUME NEW j \in Jobs, Cancel(j) \/ Pause(j) \/ Resume(j)
      PROVE  OneActivePerAgent'
  <2>1. PICK from, to \in Statuses :
          /\ SetStatus(j, from, to)
          /\ <<from, to>> \in {<<"queued", "cancelled">>, <<"running", "cancel_requested">>,
                               <<"queued", "paused">>, <<"paused", "queued">>}
    BY <1>2 DEF Cancel, Pause, Resume
  <2> QED
    BY <2>1, SetStatusRows DEF SetStatus
<1>3. ASSUME NEW j \in Jobs, Amend(j)
      PROVE  OneActivePerAgent'
  BY <1>3 DEF Amend
<1>4. ASSUME NEW a \in Agents, Configure(a)
      PROVE  OneActivePerAgent'
  BY <1>4 DEF Configure, Configurable
<1>5. ASSUME NEW a \in Agents, BeginSessionTurn(a) \/ EndSessionTurn(a)
      PROVE  OneActivePerAgent'
  BY <1>5 DEF BeginSessionTurn, EndSessionTurn
<1>6. ASSUME NEW w \in Workers, NEW j \in Jobs, Launch(w, j)
      PROVE  OneActivePerAgent'
  BY <1>6 DEF Launch, Go
<1>7. ASSUME NEW w \in Workers, ReadJob(w)
      PROVE  OneActivePerAgent'
  BY <1>7 DEF ReadJob, Go
<1>8. ASSUME NEW w \in Workers, LockForClaim(w) \/ ClaimBusy(w) \/ ClaimRefused(w)
      PROVE  OneActivePerAgent'
  BY <1>8 DEF LockForClaim, ClaimBusy, ClaimRefused, HoldLock, FreeLock, Go
<1>9. ASSUME NEW w \in Workers, Claim(w)
      PROVE  OneActivePerAgent'
  BY <1>9 DEF Claim, Claimable, FreeLock, Go
<1>10. ASSUME NEW w \in Workers, CheckRevision(w) \/ TurnRefused(w)
      PROVE  OneActivePerAgent'
  BY <1>10 DEF CheckRevision, TurnRefused, Go
<1>11. ASSUME NEW w \in Workers, OpenSession(w)
      PROVE  OneActivePerAgent'
  BY <1>11 DEF OpenSession, Go
<1>12. ASSUME NEW w \in Workers, StartTurn(w)
      PROVE  OneActivePerAgent'
  BY <1>12 DEF StartTurn, TurnAllowed, Go
<1>13. ASSUME NEW w \in Workers, EndTurn(w)
      PROVE  OneActivePerAgent'
  BY <1>13 DEF EndTurn, FreeLock, Go
<1>14. ASSUME NEW w \in Workers, Finish(w)
      PROVE  OneActivePerAgent'
  BY <1>14 DEF Finish, Outcome, Owns, Go
<1>15. ASSUME NEW w \in Workers, FinishFenced(w) \/ Exit(w) \/ Crash(w)
      PROVE  OneActivePerAgent'
  BY <1>15 DEF FinishFenced, Exit, Crash, Go
<1>16. ASSUME NEW w \in Workers, HeartbeatRead(w)
      PROVE  OneActivePerAgent'
  BY <1>16 DEF HeartbeatRead
<1>17. ASSUME NEW w \in Workers, HeartbeatWrite(w)
      PROVE  OneActivePerAgent'
  BY <1>17 DEF HeartbeatWrite
<1>18. ASSUME NEW j \in Jobs, LeaseLapses(j)
      PROVE  OneActivePerAgent'
  BY <1>18 DEF LeaseLapses
<1>19. CASE ReconcileRead
  BY <1>19 DEF ReconcileRead, Lapsed
<1>20. CASE ReconcileWrite
  BY <1>20, ReconcileRows DEF ReconcileWrite
<1>21. CASE UNCHANGED vars
  BY <1>21 DEF vars
<1> QED
  BY <1>1, <1>2, <1>3, <1>4, <1>5, <1>6, <1>7, <1>8, <1>9, <1>10, <1>11,
     <1>12, <1>13, <1>14, <1>15, <1>16, <1>17, <1>18, <1>19, <1>20, <1>21
  DEF Next, UserStep, ExecuteStep

(* The definition does not move under a running turn. *)
LEMMA DefinitionStep ==
  ASSUME IInv, [Next]_vars
  PROVE  TurnUnderOneDefinition'
<1> USE NamesAssumption
    DEF IInv, TypeOK, RowsFilled, JobRows, Locals, AgentRows, Statuses, Active, Settled,
        TurnUnderOneDefinition, LockHeld
<1>1. ASSUME NEW j \in Jobs, NEW a \in Agents, Submit(j, a)
      PROVE  TurnUnderOneDefinition'
  BY <1>1 DEF Submit, AbsentJob
<1>2. ASSUME NEW j \in Jobs, Cancel(j) \/ Pause(j) \/ Resume(j)
      PROVE  TurnUnderOneDefinition'
  <2>1. PICK from, to \in Statuses :
          /\ SetStatus(j, from, to)
          /\ <<from, to>> \in {<<"queued", "cancelled">>, <<"running", "cancel_requested">>,
                               <<"queued", "paused">>, <<"paused", "queued">>}
    BY <1>2 DEF Cancel, Pause, Resume
  <2> QED
    BY <2>1, SetStatusRows DEF SetStatus
<1>3. ASSUME NEW j \in Jobs, Amend(j)
      PROVE  TurnUnderOneDefinition'
  BY <1>3 DEF Amend
<1>4. ASSUME NEW a \in Agents, Configure(a)
      PROVE  TurnUnderOneDefinition'
  BY <1>4 DEF Configure, Configurable
<1>5. ASSUME NEW a \in Agents, BeginSessionTurn(a) \/ EndSessionTurn(a)
      PROVE  TurnUnderOneDefinition'
  BY <1>5 DEF BeginSessionTurn, EndSessionTurn
<1>6. ASSUME NEW w \in Workers, NEW j \in Jobs, Launch(w, j)
      PROVE  TurnUnderOneDefinition'
  BY <1>6 DEF Launch, Go
<1>7. ASSUME NEW w \in Workers, ReadJob(w)
      PROVE  TurnUnderOneDefinition'
  BY <1>7 DEF ReadJob, Go
<1>8. ASSUME NEW w \in Workers, LockForClaim(w) \/ ClaimBusy(w) \/ ClaimRefused(w)
      PROVE  TurnUnderOneDefinition'
  BY <1>8 DEF LockForClaim, ClaimBusy, ClaimRefused, HoldLock, FreeLock, Go
<1>9. ASSUME NEW w \in Workers, Claim(w)
      PROVE  TurnUnderOneDefinition'
  BY <1>9 DEF Claim, Claimable, FreeLock, Go
<1>10. ASSUME NEW w \in Workers, CheckRevision(w) \/ TurnRefused(w)
      PROVE  TurnUnderOneDefinition'
  BY <1>10 DEF CheckRevision, TurnRefused, Go
<1>11. ASSUME NEW w \in Workers, OpenSession(w)
      PROVE  TurnUnderOneDefinition'
  BY <1>11 DEF OpenSession, Go
<1>12. ASSUME NEW w \in Workers, StartTurn(w)
      PROVE  TurnUnderOneDefinition'
  BY <1>12 DEF StartTurn, TurnAllowed, Go
<1>13. ASSUME NEW w \in Workers, EndTurn(w)
      PROVE  TurnUnderOneDefinition'
  BY <1>13 DEF EndTurn, FreeLock, Go
<1>14. ASSUME NEW w \in Workers, Finish(w)
      PROVE  TurnUnderOneDefinition'
  BY <1>14 DEF Finish, Outcome, Owns, Go
<1>15. ASSUME NEW w \in Workers, FinishFenced(w) \/ Exit(w) \/ Crash(w)
      PROVE  TurnUnderOneDefinition'
  BY <1>15 DEF FinishFenced, Exit, Crash, Go
<1>16. ASSUME NEW w \in Workers, HeartbeatRead(w)
      PROVE  TurnUnderOneDefinition'
  BY <1>16 DEF HeartbeatRead
<1>17. ASSUME NEW w \in Workers, HeartbeatWrite(w)
      PROVE  TurnUnderOneDefinition'
  BY <1>17 DEF HeartbeatWrite
<1>18. ASSUME NEW j \in Jobs, LeaseLapses(j)
      PROVE  TurnUnderOneDefinition'
  BY <1>18 DEF LeaseLapses
<1>19. CASE ReconcileRead
  BY <1>19 DEF ReconcileRead, Lapsed
<1>20. CASE ReconcileWrite
  BY <1>20, ReconcileRows DEF ReconcileWrite
<1>21. CASE UNCHANGED vars
  BY <1>21 DEF vars
<1> QED
  BY <1>1, <1>2, <1>3, <1>4, <1>5, <1>6, <1>7, <1>8, <1>9, <1>10, <1>11,
     <1>12, <1>13, <1>14, <1>15, <1>16, <1>17, <1>18, <1>19, <1>20, <1>21
  DEF Next, UserStep, ExecuteStep

(* A reply stays the answer of its executor. *)
LEMMA ReplyStep ==
  ASSUME IInv, [Next]_vars
  PROVE  ReplyFromExecutor'
<1> USE NamesAssumption
    DEF IInv, TypeOK, RowsFilled, JobRows, Locals, AgentRows, Statuses, Active, Settled,
        ReplyFromExecutor, ClaimedOnce
<1>1. ASSUME NEW j \in Jobs, NEW a \in Agents, Submit(j, a)
      PROVE  ReplyFromExecutor'
  BY <1>1 DEF Submit, AbsentJob
<1>2. ASSUME NEW j \in Jobs, Cancel(j) \/ Pause(j) \/ Resume(j)
      PROVE  ReplyFromExecutor'
  <2>1. PICK from, to \in Statuses :
          /\ SetStatus(j, from, to)
          /\ <<from, to>> \in {<<"queued", "cancelled">>, <<"running", "cancel_requested">>,
                               <<"queued", "paused">>, <<"paused", "queued">>}
    BY <1>2 DEF Cancel, Pause, Resume
  <2> QED
    BY <2>1, SetStatusRows DEF SetStatus
<1>3. ASSUME NEW j \in Jobs, Amend(j)
      PROVE  ReplyFromExecutor'
  BY <1>3 DEF Amend
<1>4. ASSUME NEW a \in Agents, Configure(a)
      PROVE  ReplyFromExecutor'
  BY <1>4 DEF Configure, Configurable
<1>5. ASSUME NEW a \in Agents, BeginSessionTurn(a) \/ EndSessionTurn(a)
      PROVE  ReplyFromExecutor'
  BY <1>5 DEF BeginSessionTurn, EndSessionTurn
<1>6. ASSUME NEW w \in Workers, NEW j \in Jobs, Launch(w, j)
      PROVE  ReplyFromExecutor'
  BY <1>6 DEF Launch, Go
<1>7. ASSUME NEW w \in Workers, ReadJob(w)
      PROVE  ReplyFromExecutor'
  BY <1>7 DEF ReadJob, Go
<1>8. ASSUME NEW w \in Workers, LockForClaim(w) \/ ClaimBusy(w) \/ ClaimRefused(w)
      PROVE  ReplyFromExecutor'
  BY <1>8 DEF LockForClaim, ClaimBusy, ClaimRefused, HoldLock, FreeLock, Go
<1>9. ASSUME NEW w \in Workers, Claim(w)
      PROVE  ReplyFromExecutor'
  BY <1>9 DEF Claim, Claimable, FreeLock, Go
<1>10. ASSUME NEW w \in Workers, CheckRevision(w) \/ TurnRefused(w)
      PROVE  ReplyFromExecutor'
  BY <1>10 DEF CheckRevision, TurnRefused, Go
<1>11. ASSUME NEW w \in Workers, OpenSession(w)
      PROVE  ReplyFromExecutor'
  BY <1>11 DEF OpenSession, Go
<1>12. ASSUME NEW w \in Workers, StartTurn(w)
      PROVE  ReplyFromExecutor'
  BY <1>12 DEF StartTurn, TurnAllowed, Go
<1>13. ASSUME NEW w \in Workers, EndTurn(w)
      PROVE  ReplyFromExecutor'
  BY <1>13 DEF EndTurn, FreeLock, Go
<1>14. ASSUME NEW w \in Workers, Finish(w)
      PROVE  ReplyFromExecutor'
  BY <1>14 DEF Finish, Outcome, Owns, Go
<1>15. ASSUME NEW w \in Workers, FinishFenced(w) \/ Exit(w) \/ Crash(w)
      PROVE  ReplyFromExecutor'
  BY <1>15 DEF FinishFenced, Exit, Crash, Go
<1>16. ASSUME NEW w \in Workers, HeartbeatRead(w)
      PROVE  ReplyFromExecutor'
  BY <1>16 DEF HeartbeatRead
<1>17. ASSUME NEW w \in Workers, HeartbeatWrite(w)
      PROVE  ReplyFromExecutor'
  BY <1>17 DEF HeartbeatWrite
<1>18. ASSUME NEW j \in Jobs, LeaseLapses(j)
      PROVE  ReplyFromExecutor'
  BY <1>18 DEF LeaseLapses
<1>19. CASE ReconcileRead
  BY <1>19 DEF ReconcileRead, Lapsed
<1>20. CASE ReconcileWrite
  BY <1>20, ReconcileRows DEF ReconcileWrite
<1>21. CASE UNCHANGED vars
  BY <1>21 DEF vars
<1> QED
  BY <1>1, <1>2, <1>3, <1>4, <1>5, <1>6, <1>7, <1>8, <1>9, <1>10, <1>11,
     <1>12, <1>13, <1>14, <1>15, <1>16, <1>17, <1>18, <1>19, <1>20, <1>21
  DEF Next, UserStep, ExecuteStep

(* IInv holds in every reachable state. *)
THEOREM Invariance == Spec => []IInv
<1>1. ASSUME IInv, [Next]_vars PROVE IInv'
  <2>1. TypeOK' /\ RowsFilled'
    BY <1>1, TypeStep DEF IInv
  <2> QED
    BY <1>1, <2>1, LockStep, ClaimStep, OneActiveStep, DefinitionStep, ReplyStep DEF IInv
<1> QED
  BY <1>1, InitInv, PTL DEF Spec

(* Every variable keeps its type. *)
THEOREM TypeCorrect == Spec => []TypeOK
BY Invariance, PTL DEF IInv

(* An agent never owns two active jobs, for any number of agents, jobs and
   worker processes (jobs.py claim). *)
THEOREM OneActive == Spec => []OneActivePerAgent
BY Invariance, PTL DEF IInv

(* No job's turn is ever begun by two workers (jobs.py claim,
   reconcile_stale; worker.py execute). *)
THEOREM AtMostOnce == Spec => []ExecutedAtMostOnce
<1>1. IInv => ExecutedAtMostOnce
  BY DEF IInv, ClaimedOnce, ExecutedAtMostOnce
<1> QED
  BY <1>1, Invariance, PTL

(* A worker's turn runs under one definition of an active agent
   (store.py configure, session.py chat). *)
THEOREM StableDefinition == Spec => []TurnUnderOneDefinition
BY Invariance, PTL DEF IInv

(* A published answer is its executor's (jobs.py finish). *)
THEOREM RepliesAreOwned == Spec => []ReplyFromExecutor
BY Invariance, PTL DEF IInv

-----------------------------------------------------------------------------
(* Only these actions touch what the ledger and the action properties see. *)
LEMMA VisibleSteps ==
  ASSUME [Next]_vars
  PROVE  \/ \E j \in Jobs, a \in Agents : Submit(j, a)
         \/ \E j \in Jobs : Cancel(j) \/ Pause(j) \/ Resume(j) \/ Amend(j) \/ LeaseLapses(j)
         \/ \E w \in Workers : Claim(w) \/ StartTurn(w) \/ Finish(w) \/ HeartbeatWrite(w)
         \/ ReconcileWrite
         \/ UNCHANGED <<jobs, claimant, ran>>
BY DEF Next, UserStep, ExecuteStep, Configure, BeginSessionTurn, EndSessionTurn, Launch,
       ReadJob, LockForClaim, ClaimBusy, ClaimRefused, CheckRevision, OpenSession,
       TurnRefused, EndTurn, FinishFenced, Exit, Crash, HeartbeatRead, ReconcileRead, vars

(* An amendment and a lease leave the columns the properties read alone. *)
LEMMA QuietRows ==
  ASSUME TypeOK, RowsFilled,
         (\E j \in Jobs : Amend(j) \/ LeaseLapses(j)) \/ (\E w \in Workers : HeartbeatWrite(w))
  PROVE  /\ \A k \in Jobs : /\ jobs'[k].status = jobs[k].status
                            /\ jobs'[k].agent = jobs[k].agent
                            /\ jobs'[k].token = jobs[k].token
                            /\ jobs'[k].result = jobs[k].result
         /\ UNCHANGED <<claimant, ran>>
<1>1. ASSUME NEW j \in Jobs, Amend(j) \/ LeaseLapses(j)
      PROVE  /\ \A k \in Jobs : /\ jobs'[k].status = jobs[k].status
                                /\ jobs'[k].agent = jobs[k].agent
                                /\ jobs'[k].token = jobs[k].token
                                /\ jobs'[k].result = jobs[k].result
             /\ UNCHANGED <<claimant, ran>>
  BY <1>1 DEF TypeOK, JobRows, Amend, LeaseLapses
<1>2. ASSUME NEW w \in Workers, HeartbeatWrite(w)
      PROVE  /\ \A k \in Jobs : /\ jobs'[k].status = jobs[k].status
                                /\ jobs'[k].agent = jobs[k].agent
                                /\ jobs'[k].token = jobs[k].token
                                /\ jobs'[k].result = jobs[k].result
             /\ UNCHANGED <<claimant, ran>>
  BY <1>2 DEF TypeOK, JobRows, HeartbeatWrite
<1> QED
  BY <1>1, <1>2

(* What a worker's report does to the rows of the job table. *)
LEMMA FinishRows ==
  ASSUME TypeOK, RowsFilled, NEW w \in Workers, Finish(w)
  PROVE  /\ Job(w) \in Jobs
         /\ jobs'[Job(w)].status = Outcome(w)
         /\ jobs'[Job(w)].agent = jobs[Job(w)].agent
         /\ \A k \in Jobs : k # Job(w) => jobs'[k] = jobs[k]
         /\ UNCHANGED <<claimant, ran>>
<1>1. Job(w) \in Jobs
  BY DEF RowsFilled, Finish, Go
<1> QED
  BY <1>1 DEF TypeOK, JobRows, Finish

(* A job asked to cancel ends in review, whatever its worker answers
   (jobs.py finish). *)
THEOREM CancelledNeverReplied == Spec => CancelNeverReplied
<1>1. ASSUME IInv, [Next]_vars
      PROVE  \A j \in Jobs : jobs[j].status = "cancel_requested" =>
               jobs'[j].status \in {"cancel_requested", "needs_review"}
  <2> SUFFICES ASSUME NEW j \in Jobs, jobs[j].status = "cancel_requested"
               PROVE  jobs'[j].status \in {"cancel_requested", "needs_review"}
    OBVIOUS
  <2> USE <1>1 DEF IInv
  <2>1. ASSUME NEW k \in Jobs, NEW a \in Agents, Submit(k, a)
        PROVE  jobs'[j] = jobs[j]
    BY <2>1 DEF Submit, TypeOK
  <2>2. ASSUME NEW k \in Jobs, Cancel(k) \/ Pause(k) \/ Resume(k)
        PROVE  jobs'[j].status = "cancel_requested"
    BY <2>2, SetStatusRows DEF Cancel, Pause, Resume
  <2>3. ASSUME NEW w \in Workers, Claim(w)
        PROVE  jobs'[j] = jobs[j]
    BY <2>3 DEF Claim, Claimable, Go, TypeOK
  <2>4. ASSUME NEW w \in Workers, Finish(w)
        PROVE  jobs'[j].status \in {"cancel_requested", "needs_review"}
    <3>1. CASE Job(w) = j
      <4>1. Outcome(w) = "needs_review"
        BY <3>1 DEF Outcome
      <4> QED
        BY <2>4, <3>1, <4>1, FinishRows
    <3>2. CASE Job(w) # j
      BY <2>4, <3>2, FinishRows
    <3> QED
      BY <3>1, <3>2
  <2>5. CASE ReconcileWrite
    BY <2>5, ReconcileRows
  <2>6. ASSUME NEW w \in Workers, StartTurn(w)
        PROVE  jobs' = jobs
    BY <2>6 DEF StartTurn
  <2> QED
    BY VisibleSteps, QuietRows, <2>1, <2>2, <2>3, <2>4, <2>5, <2>6
<1> QED
  BY <1>1, Invariance, PTL DEF CancelNeverReplied, Spec

(* A fenced claim never writes a result again (jobs.py finish). *)
THEOREM FencingHolds == Spec => FencedResultNeverLands
<1>1. ASSUME IInv, [Next]_vars
      PROVE  \A j \in Jobs : claimant[j] # Nobody /\ jobs[j].token = Nobody =>
               jobs'[j].result \in {jobs[j].result, Reconciler}
  <2> SUFFICES ASSUME NEW j \in Jobs, claimant[j] # Nobody, jobs[j].token = Nobody
               PROVE  jobs'[j].result \in {jobs[j].result, Reconciler}
    OBVIOUS
  <2> USE <1>1 DEF IInv
  <2>1. ASSUME NEW k \in Jobs, NEW a \in Agents, Submit(k, a)
        PROVE  jobs'[j] = jobs[j]
    BY <2>1 DEF Submit, TypeOK, ClaimedOnce
  <2>2. ASSUME NEW k \in Jobs, Cancel(k) \/ Pause(k) \/ Resume(k)
        PROVE  jobs'[j].result = jobs[j].result
    BY <2>2, SetStatusRows DEF Cancel, Pause, Resume
  <2>3. ASSUME NEW w \in Workers, Claim(w)
        PROVE  jobs'[j] = jobs[j]
    BY <2>3 DEF Claim, Claimable, Go, TypeOK, ClaimedOnce
  <2>4. ASSUME NEW w \in Workers, Finish(w)
        PROVE  jobs'[j] = jobs[j]
    <3>1. Job(w) # j
      BY <2>4, NamesAssumption DEF Finish, Owns
    <3> QED
      BY <2>4, <3>1, FinishRows
  <2>5. CASE ReconcileWrite
    BY <2>5, ReconcileRows
  <2>6. ASSUME NEW w \in Workers, StartTurn(w)
        PROVE  jobs' = jobs
    BY <2>6 DEF StartTurn
  <2> QED
    BY VisibleSteps, QuietRows, <2>1, <2>2, <2>3, <2>4, <2>5, <2>6
<1> QED
  BY <1>1, Invariance, PTL DEF FencedResultNeverLands, Spec

-----------------------------------------------------------------------------
(* Phases of the statuses, spelled out. *)
LEMMA PhaseValues ==
  /\ Phase("absent") = "absent"
  /\ Phase("queued") = "waiting" /\ Phase("paused") = "waiting"
  /\ \A s \in Active : Phase(s) = "owned"
  /\ \A s \in Settled : Phase(s) = "settled"
BY DEF Phase, Active, Settled

(* A step that changes nobody's status, agent, claimant or history is a
   stutter of the ledger. *)
LEMMA LedgerStutters ==
  ASSUME \A k \in Jobs : jobs'[k].status = jobs[k].status /\ jobs'[k].agent = jobs[k].agent,
         UNCHANGED <<claimant, ran>>
  PROVE  UNCHANGED Ledger!ledger
BY DEF Ledger!ledger

(* Each kind of step of the ledger is one of its next-state relation. *)
LEMMA TakeMoves ==
  ASSUME NEW w \in Workers, NEW j \in Jobs, Ledger!Take(w, j)
  PROVE  Ledger!LedgerNext
BY DEF Ledger!LedgerNext

\* Beginning a job is a step of the ledger.
LEMMA BeginMoves ==
  ASSUME NEW w \in Workers, NEW j \in Jobs, Ledger!Begin(w, j)
  PROVE  Ledger!LedgerNext
BY DEF Ledger!LedgerNext

\* Settling jobs is a step of the ledger.
LEMMA SettleMoves ==
  ASSUME NEW S \in SUBSET Jobs, Ledger!Settle(S)
  PROVE  Ledger!LedgerNext
BY DEF Ledger!LedgerNext

(* Every step of the job table is a ledger step or a stutter. *)
LEMMA LedgerStep ==
  ASSUME IInv, [Next]_vars
  PROVE  [Ledger!LedgerNext]_(Ledger!ledger)
<1> USE DEF IInv
<1>1. ASSUME NEW j \in Jobs, NEW a \in Agents, Submit(j, a)
      PROVE  Ledger!Accept(j, a)
  <2>1. jobs'[j].status = "queued" /\ jobs'[j].agent = a
    BY <1>1 DEF Submit, TypeOK, AbsentJob
  <2>2. \A k \in Jobs : k # j => jobs'[k] = jobs[k]
    BY <1>1 DEF Submit, TypeOK
  <2>3. Phase(jobs[j].status) = "absent" /\ Phase(jobs'[j].status) = "waiting"
    BY <1>1, <2>1, PhaseValues DEF Submit
  <2>4. UNCHANGED <<claimant, ran>>
    BY <1>1 DEF Submit
  <2> QED
    BY <2>1, <2>2, <2>3, <2>4 DEF Ledger!Accept
<1>2. ASSUME NEW j \in Jobs, Cancel(j) \/ Pause(j) \/ Resume(j)
      PROVE  Ledger!Withdraw(j) \/ UNCHANGED Ledger!ledger
  <2>1. UNCHANGED <<claimant, ran>>
    BY <1>2 DEF Cancel, Pause, Resume, SetStatus
  <2>2. CASE SetStatus(j, "queued", "cancelled")
    <3>1. Phase(jobs[j].status) = "waiting" /\ Phase(jobs'[j].status) = "settled"
      BY <2>2, SetStatusRows, PhaseValues DEF Settled
    <3> QED
      BY <2>1, <2>2, <3>1, SetStatusRows DEF Ledger!Withdraw
  <2>3. ASSUME NEW from \in Statuses, NEW to \in Statuses, SetStatus(j, from, to),
               Phase(from) = Phase(to)
        PROVE  UNCHANGED Ledger!ledger
    BY <2>1, <2>3, SetStatusRows DEF Ledger!ledger
  <2> QED
    BY <1>2, <2>2, <2>3, PhaseValues DEF Cancel, Pause, Resume, Statuses, Active
<1>3. ASSUME NEW w \in Workers, Claim(w)
      PROVE  Ledger!Take(w, Job(w))
  <2>1. Job(w) \in Jobs /\ jobs[Job(w)].status = "queued"
    BY <1>3 DEF Claim, Claimable, Go, RowsFilled
  <2>2. jobs'[Job(w)].status = "running" /\ jobs'[Job(w)].agent = jobs[Job(w)].agent
    BY <1>3, <2>1 DEF Claim, TypeOK, JobRows
  <2>3. \A k \in Jobs : k # Job(w) => jobs'[k] = jobs[k]
    BY <1>3, <2>1 DEF Claim, TypeOK
  <2>4. \A k \in Jobs : Phase(jobs[k].status) = "owned" => jobs[k].status \in Active
    BY DEF Phase
  <2>5. \A k \in Jobs : Phase(jobs[k].status) = "owned" => jobs[k].agent # jobs[Job(w)].agent
    BY <1>3, <2>4 DEF Claim, Claimable
  <2>6. Phase(jobs'[Job(w)].status) = "owned" /\ Phase(jobs[Job(w)].status) = "waiting"
    BY <2>1, <2>2, PhaseValues DEF Active
  <2> QED
    BY <1>3, <2>1, <2>2, <2>3, <2>5, <2>6 DEF Claim, Ledger!Take
<1>4. ASSUME NEW w \in Workers, StartTurn(w)
      PROVE  Ledger!LedgerNext
  <2>1. Job(w) \in Jobs /\ claimant[Job(w)] = w /\ ran[Job(w)] = {}
    BY <1>4 DEF StartTurn, Go, RowsFilled, ClaimedOnce
  <2>2. PICK j \in Jobs : j = Job(w)
    BY <2>1
  <2>3. ran' = [ran EXCEPT ![j] = {w}] /\ UNCHANGED <<jobs, claimant>>
    BY <1>4, <2>1, <2>2 DEF StartTurn
  <2>4. {k \in Jobs : ran'[k] # {}} = {k \in Jobs : ran[k] # {}} \union {j}
    BY <2>2, <2>3 DEF TypeOK
  <2>5. Ledger!Begin(w, j)
    BY <2>1, <2>2, <2>3, <2>4 DEF Ledger!Begin
  <2> QED
    BY <2>2, <2>5, BeginMoves
<1>5. ASSUME NEW w \in Workers, Finish(w)
      PROVE  Ledger!Settle({Job(w)})
  <2>1. Job(w) \in Jobs /\ jobs[Job(w)].status \in Active
    BY <1>5, FinishRows DEF Finish, Owns
  <2>2. Phase(jobs[Job(w)].status) = "owned" /\ Phase(jobs'[Job(w)].status) = "settled"
    BY <1>5, <2>1, FinishRows, PhaseValues DEF Outcome, Settled
  <2> QED
    BY <1>5, <2>1, <2>2, FinishRows DEF Ledger!Settle
<1>6. ASSUME ReconcileWrite
      PROVE  Ledger!Settle({j \in stale : jobs[j].status \in Active}) \/ UNCHANGED Ledger!ledger
  <2> DEFINE S == {j \in stale : jobs[j].status \in Active}
  <2>1. UNCHANGED <<claimant, ran>>
    BY <1>6 DEF ReconcileWrite
  <2>2. \A j \in stale : jobs[j].status \in Active \union Settled
    BY DEF ClaimedOnce, TypeOK, JobRows, Statuses
  <2>3. \A j \in S : j \in Jobs /\ Phase(jobs[j].status) = "owned"
                                /\ Phase(jobs'[j].status) = "settled"
    BY <1>6, ReconcileRows, PhaseValues DEF TypeOK, Settled
  <2>4. \A j \in Jobs : j \notin S => Phase(jobs'[j].status) = Phase(jobs[j].status)
    BY <1>6, <2>2, ReconcileRows, PhaseValues DEF Settled
  <2>5. \A j \in Jobs : jobs'[j].agent = jobs[j].agent
    BY <1>6, ReconcileRows
  <2>6. CASE S = {}
    BY <2>1, <2>4, <2>5, <2>6 DEF Ledger!ledger
  <2>7. CASE S # {}
    BY <2>1, <2>3, <2>4, <2>5, <2>7 DEF Ledger!Settle
  <2> QED
    BY <2>6, <2>7
<1>7. ASSUME (\E j \in Jobs : Amend(j) \/ LeaseLapses(j)) \/ (\E w \in Workers : HeartbeatWrite(w))
      PROVE  UNCHANGED Ledger!ledger
  BY <1>7, QuietRows, LedgerStutters
<1>8. CASE UNCHANGED <<jobs, claimant, ran>>
  BY <1>8, LedgerStutters
<1>9. ASSUME NEW w \in Workers, Claim(w) \/ StartTurn(w) \/ Finish(w)
      PROVE  Ledger!LedgerNext
  <2>1. Job(w) \in Jobs /\ {Job(w)} \in SUBSET Jobs
    BY <1>9 DEF Claim, StartTurn, Finish, Go, RowsFilled
  <2>2. CASE Claim(w)
    BY <1>3, <2>1, <2>2, TakeMoves
  <2>3. CASE StartTurn(w)
    BY <1>4, <2>3
  <2>4. CASE Finish(w)
    BY <1>5, <2>1, <2>4, SettleMoves
  <2> QED
    BY <1>9, <2>2, <2>3, <2>4
<1>10. CASE ReconcileWrite
  <2>1. {j \in stale : jobs[j].status \in Active} \in SUBSET Jobs
    BY DEF TypeOK
  <2> QED
    BY <1>6, <1>10, <2>1 DEF Ledger!LedgerNext
<1>11. ASSUME NEW j \in Jobs, NEW a \in Agents, Submit(j, a)
       PROVE  Ledger!LedgerNext
  BY <1>1, <1>11 DEF Ledger!LedgerNext
<1>12. ASSUME NEW j \in Jobs, Cancel(j) \/ Pause(j) \/ Resume(j)
       PROVE  [Ledger!LedgerNext]_(Ledger!ledger)
  BY <1>2, <1>12 DEF Ledger!LedgerNext
<1> QED
  BY VisibleSteps, <1>7, <1>8, <1>9, <1>10, <1>11, <1>12

(* Leases, locks, heartbeats, crashes and reconciliation together keep the
   promise of JobLedger: accepted once, owned once, begun once, settled for
   good (jobs.py and worker.py as a whole). *)
THEOREM Refinement == Spec => ImplementsLedger
<1>1. Init => Ledger!LedgerInit
  BY PhaseValues DEF Init, AbsentJob, Ledger!LedgerInit
<1>2. IInv /\ [Next]_vars => [Ledger!LedgerNext]_(Ledger!ledger)
  BY LedgerStep
<1> QED
  BY <1>1, <1>2, Invariance, PTL DEF Spec, ImplementsLedger, Ledger!LedgerSpec
-----------------------------------------------------------------------------
(* What holds outside the three windows: jobs.py:243, worker.py:32 and     *)
(* jobs.py:344 are right when nothing falls between a reading and the      *)
(* write that relies on it.                                                *)

(* The rows a reconcile has selected are still at work. *)
SelectedAtWork == \A j \in stale : jobs[j].status \in Active

(* Only the reconciler writes its selection. *)
LEMMA StaleSteps ==
  ASSUME [Next]_vars
  PROVE  UNCHANGED stale \/ ReconcileRead \/ ReconcileWrite
BY DEF Next, UserStep, ExecuteStep, Submit, Cancel, Pause, Resume, Amend, SetStatus, Configure,
       BeginSessionTurn, EndSessionTurn, Launch, ReadJob, LockForClaim, ClaimBusy, Claim,
       ClaimRefused, CheckRevision, OpenSession, StartTurn, TurnRefused, EndTurn, Finish,
       FinishFenced, Exit, Crash, HeartbeatRead, HeartbeatWrite, LeaseLapses, vars

(* Every other step leaves a selected row at work, and a settled one as it is. *)
LEMMA SelectedStep ==
  ASSUME IInv, [Next]_vars, SelectedAtWork, SettlesUnselected \/ UNCHANGED vars
  PROVE  /\ SelectedAtWork'
         /\ \A j \in Jobs : jobs[j].status \in Settled =>
              jobs'[j].status = jobs[j].status /\ jobs'[j].result = jobs[j].result
<1> USE DEF IInv
<1>1. ASSUME NEW j \in Jobs
      PROVE  /\ j \in stale /\ ~ReconcileWrite => jobs'[j].status \in Active
             /\ jobs[j].status \in Settled =>
                  jobs'[j].status = jobs[j].status /\ jobs'[j].result = jobs[j].result
  <2>0. (j \in stale => jobs[j].status \in Active) /\ "absent" \notin Active
        /\ Settled \cap Active = {} /\ Settled \cap {"absent", "queued", "paused"} = {}
        /\ Active = {"running", "cancel_requested"}
    BY DEF SelectedAtWork, Active, Settled
  <2>1. ASSUME NEW k \in Jobs, NEW a \in Agents, Submit(k, a)
        PROVE  jobs[k].status = "absent" /\ \A x \in Jobs : x # k => jobs'[x] = jobs[x]
    BY <2>1 DEF Submit, TypeOK
  <2>2. ASSUME NEW k \in Jobs, Cancel(k) \/ Pause(k) \/ Resume(k)
        PROVE  /\ j \in stale => jobs'[j].status \in Active
               /\ jobs[j].status \in Settled =>
                    jobs'[j].status = jobs[j].status /\ jobs'[j].result = jobs[j].result
    <3>1. PICK from \in {"queued", "running", "paused"},
               to \in {"cancelled", "cancel_requested", "paused", "queued"} :
            SetStatus(k, from, to) /\ (from = "running" => to = "cancel_requested")
      BY <2>2 DEF Cancel, Pause, Resume
    <3> QED
      BY <2>0, <3>1, SetStatusRows
  <2>3. ASSUME NEW w \in Workers, Claim(w)
        PROVE  /\ jobs[Job(w)].status = "queued"
               /\ \A x \in Jobs : x # Job(w) => jobs'[x] = jobs[x]
    BY <2>3 DEF Claim, Claimable, TypeOK
  <2>4. ASSUME NEW w \in Workers, Finish(w)
        PROVE  /\ jobs[Job(w)].status \in Active /\ Job(w) \notin stale
               /\ \A x \in Jobs : x # Job(w) => jobs'[x] = jobs[x]
    <3>1. pc'[w] # pc[w]
      BY <2>4 DEF Finish, Go, TypeOK
    <3> QED
      BY <2>4, <3>1, FinishRows DEF Finish, Owns, SettlesUnselected, vars
  <2>5. CASE ReconcileWrite
    BY <2>0, <2>5, ReconcileRows
  <2>6. ASSUME NEW w \in Workers, StartTurn(w)
        PROVE  jobs' = jobs
    BY <2>6 DEF StartTurn
  <2> QED
    BY VisibleSteps, QuietRows, <2>0, <2>1, <2>2, <2>3, <2>4, <2>5, <2>6
<1>2. CASE ReconcileRead
  BY <1>1, <1>2 DEF ReconcileRead, Lapsed, SelectedAtWork
<1>3. CASE ReconcileWrite
  BY <1>1, <1>3 DEF ReconcileWrite, SelectedAtWork
<1>4. CASE UNCHANGED stale /\ ~ReconcileWrite
  BY <1>1, <1>4 DEF SelectedAtWork, TypeOK
<1> QED
  BY <1>2, <1>3, <1>4, StaleSteps

(* jobs.py:243, "no terminal state was overwritten", holds of every run in
   which no worker reports between the select and the update of a reconcile. *)
THEOREM TerminalKept ==
  Spec /\ [][SettlesUnselected]_vars => NoTerminalOverwritten
<1>1. Init => SelectedAtWork
  BY DEF Init, SelectedAtWork
<1>2. IInv /\ SelectedAtWork /\ [Next]_vars /\ [SettlesUnselected]_vars => SelectedAtWork'
  BY SelectedStep
<1>3. IInv /\ SelectedAtWork /\ [Next]_vars /\ [SettlesUnselected]_vars =>
        [\A j \in Jobs : jobs[j].status \in Settled =>
           /\ jobs'[j].status = jobs[j].status
           /\ jobs'[j].result = jobs[j].result]_vars
  BY SelectedStep
<1> QED
  BY <1>1, <1>2, <1>3, Invariance, PTL DEF Spec, NoTerminalOverwritten

(* A job once submitted keeps its agent and its revision; its objective
   changes by an amendment alone. *)
LEMMA RowsKept ==
  ASSUME IInv, [Next]_vars, NEW j \in Jobs, jobs[j].status # "absent"
  PROVE  /\ jobs'[j].agent = jobs[j].agent
         /\ jobs'[j].revision = jobs[j].revision
         /\ jobs'[j].objective = jobs[j].objective \/ Amend(j)
<1> USE DEF IInv, TypeOK, JobRows
<1>1. ASSUME NEW k \in Jobs, NEW a \in Agents, Submit(k, a)
      PROVE  jobs'[j] = jobs[j]
  BY <1>1 DEF Submit
<1>2. ASSUME NEW k \in Jobs, Cancel(k) \/ Pause(k) \/ Resume(k) \/ LeaseLapses(k)
      PROVE  /\ jobs'[j].agent = jobs[j].agent /\ jobs'[j].revision = jobs[j].revision
             /\ jobs'[j].objective = jobs[j].objective
  BY <1>2 DEF Cancel, Pause, Resume, SetStatus, LeaseLapses
<1>3. ASSUME NEW k \in Jobs, Amend(k)
      PROVE  /\ jobs'[j].agent = jobs[j].agent /\ jobs'[j].revision = jobs[j].revision
             /\ jobs'[j].objective = jobs[j].objective \/ Amend(j)
  BY <1>3 DEF Amend
<1>4. ASSUME NEW w \in Workers, Claim(w) \/ Finish(w) \/ HeartbeatWrite(w)
      PROVE  /\ jobs'[j].agent = jobs[j].agent /\ jobs'[j].revision = jobs[j].revision
             /\ jobs'[j].objective = jobs[j].objective
  <2>1. CASE Claim(w)
    BY <2>1 DEF Claim
  <2>2. CASE Finish(w)
    BY <2>2 DEF Finish
  <2>3. CASE HeartbeatWrite(w)
    BY <2>3 DEF HeartbeatWrite
  <2> QED
    BY <1>4, <2>1, <2>2, <2>3
<1>5. CASE ReconcileWrite
  BY <1>5 DEF ReconcileWrite, ReviewRow
<1>6. ASSUME NEW w \in Workers, StartTurn(w)
      PROVE  jobs' = jobs
  BY <1>6 DEF StartTurn
<1> QED
  BY VisibleSteps, <1>1, <1>2, <1>3, <1>4, <1>5, <1>6

(* What a worker keeps of the row and of the definition it has read. *)
Keeps(w) ==
  /\ local'[w].job = local[w].job
  /\ local'[w].objective = local[w].objective
  /\ local'[w].revision = local[w].revision
  /\ local'[w].session = local[w].session

(* Where a worker goes until its turn runs; the heartbeat and other workers
   leave it where it is. *)
LEMMA WorkerSteps ==
  ASSUME IInv, [Next]_vars, NEW w \in Workers
  PROVE  \/ UNCHANGED pc[w] /\ Keeps(w)
         \/ ReadJob(w) \/ CheckRevision(w) \/ OpenSession(w)
         \/ /\ <<pc[w], pc'[w]>> \in {<<"read", "claiming">>, <<"claiming", "claimed">>,
                                      <<"opened", "turn">>}
            /\ Keeps(w)
         \/ pc'[w] \in {"started", "finishing", "failing", "stopping", "exited"}
<1>0. pc \in [Workers -> PCs] /\ local \in [Workers -> Locals]
  BY DEF IInv, TypeOK
<1>1. ASSUME UNCHANGED <<pc, local>> PROVE UNCHANGED pc[w] /\ Keeps(w)
  BY <1>1 DEF Keeps
<1>2. ASSUME UserStep \/ (\E j \in Jobs : LeaseLapses(j)) \/ ReconcileRead \/ ReconcileWrite
      PROVE  (UNCHANGED pc[w] /\ Keeps(w)) \/ pc'[w] = "started"
  <2>1. ASSUME NEW x \in Workers, NEW j \in Jobs, Launch(x, j)
        PROVE  (UNCHANGED pc[w] /\ Keeps(w)) \/ pc'[w] = "started"
    BY <1>0, <2>1 DEF Launch, Go, Keeps
  <2> QED
    BY <1>1, <1>2, <2>1 DEF UserStep, Cancel, Pause, Resume, SetStatus, Amend, Submit,
       Configure, BeginSessionTurn, EndSessionTurn, LeaseLapses, ReconcileRead, ReconcileWrite
<1>3. ASSUME NEW x \in Workers, HeartbeatRead(x) \/ HeartbeatWrite(x)
      PROVE  UNCHANGED pc[w] /\ Keeps(w)
  <2>1. PICK c : local' = [local EXCEPT ![x].cancelled = c]
    BY <1>3 DEF HeartbeatRead, HeartbeatWrite
  <2>2. UNCHANGED pc
    BY <1>3 DEF HeartbeatRead, HeartbeatWrite
  <2> QED
    BY <1>0, <2>1, <2>2 DEF Locals, Keeps
<1>4. ASSUME NEW x \in Workers, x # w, ExecuteStep(x) \/ Crash(x)
      PROVE  UNCHANGED pc[w] /\ Keeps(w)
  <2>1. pc'[w] = pc[w]
    BY <1>0, <1>4 DEF ExecuteStep, ReadJob, LockForClaim, ClaimBusy, Claim, ClaimRefused,
       CheckRevision, OpenSession, StartTurn, TurnRefused, EndTurn, Finish, FinishFenced,
       Exit, Crash, Go
  <2>2. local'[w] = local[w]
    BY <1>0, <1>4 DEF ExecuteStep, ReadJob, LockForClaim, ClaimBusy, Claim, ClaimRefused,
       CheckRevision, OpenSession, StartTurn, TurnRefused, EndTurn, Finish, FinishFenced,
       Exit, Crash
  <2> QED
    BY <2>1, <2>2 DEF Keeps
<1>5. ASSUME LockForClaim(w) \/ Claim(w) \/ StartTurn(w)
      PROVE  /\ <<pc[w], pc'[w]>> \in {<<"read", "claiming">>, <<"claiming", "claimed">>,
                                       <<"opened", "turn">>}
             /\ Keeps(w)
  BY <1>0, <1>5 DEF LockForClaim, Claim, StartTurn, Go, Keeps
<1>6. ASSUME \/ ClaimBusy(w) \/ ClaimRefused(w) \/ TurnRefused(w) \/ EndTurn(w) \/ Finish(w)
             \/ FinishFenced(w) \/ Exit(w) \/ Crash(w)
      PROVE  pc'[w] \in {"finishing", "failing", "stopping", "exited"}
  BY <1>0, <1>6 DEF ClaimBusy, ClaimRefused, TurnRefused, EndTurn, Finish, FinishFenced,
     Exit, Crash, Go
<1>7. CASE UNCHANGED vars
  BY <1>1, <1>7 DEF vars
<1> QED
  BY <1>2, <1>3, <1>4, <1>5, <1>6, <1>7 DEF Next, ExecuteStep

(* From its reading on a worker has the objective that the row records. *)
ReadsObjective ==
  \A w \in Workers :
    pc[w] \in {"read", "claiming", "claimed", "approved", "opened", "turn"} =>
      local[w].objective = jobs[Job(w)].objective

(* A claimed row is not amended, and an amendment before the claim is the
   window. *)
LEMMA ObjectiveStep ==
  ASSUME IInv, [Next]_vars, ReadsObjective, AmendsUnread \/ UNCHANGED vars
  PROVE  ReadsObjective'
<1> SUFFICES ASSUME NEW w \in Workers,
                    pc'[w] \in {"read", "claiming", "claimed", "approved", "opened", "turn"}
             PROVE  local'[w].objective = jobs'[local'[w].job].objective
  BY DEF ReadsObjective
<1>0. /\ TypeOK /\ pc \in [Workers -> PCs] /\ local \in [Workers -> Locals]
      /\ pc[w] # "unborn" => Job(w) \in Jobs /\ jobs[Job(w)].status # "absent"
  BY DEF IInv, TypeOK, RowsFilled
<1>1. ASSUME pc[w] \in {"read", "claiming", "claimed", "approved", "opened", "turn"}, Keeps(w)
      PROVE  local'[w].objective = jobs'[local'[w].job].objective
  <2>1. ~Amend(Job(w)) \/ UNCHANGED vars
    <3>1. CASE pc[w] \in {"read", "claiming"}
      BY <1>0, <1>1, <3>1 DEF AmendsUnread
    <3>2. CASE pc[w] \in {"claimed", "approved", "opened", "turn"}
      <4>1. claimant[Job(w)] = w /\ w # Nobody
        BY <3>2, NamesAssumption DEF IInv, ClaimedOnce
      <4> QED
        BY <1>0, <1>1, <4>1 DEF IInv, ClaimedOnce, Amend
    <3> QED
      BY <1>1, <3>1, <3>2
  <2>2. jobs'[Job(w)].objective = jobs[Job(w)].objective
    BY <1>0, <1>1, <2>1, RowsKept DEF vars
  <2> QED
    BY <1>1, <2>2 DEF Keeps, ReadsObjective
<1>2. CASE ReadJob(w)
  <2>1. local'[w].objective = jobs[Job(w)].objective /\ local'[w].job = local[w].job
    BY <1>0, <1>2 DEF ReadJob, Locals
  <2> QED
    BY <1>2, <2>1 DEF ReadJob
<1>3. CASE CheckRevision(w)
  <2>1. pc[w] = "claimed" /\ Keeps(w)
    BY <1>3 DEF CheckRevision, Go, Keeps
  <2> QED
    BY <1>1, <2>1
<1>4. CASE OpenSession(w)
  <2>1. pc[w] = "approved" /\ UNCHANGED jobs
        /\ local'[w].objective = local[w].objective /\ local'[w].job = local[w].job
    BY <1>0, <1>4 DEF OpenSession, Go, Locals
  <2> QED
    BY <2>1 DEF ReadsObjective
<1> QED
  BY <1>0, <1>1, <1>2, <1>3, <1>4, WorkerSteps

(* jobs.py:344, "Running work cannot be silently amended", holds of every run
   in which nobody amends a job between a worker's reading of it and its claim. *)
THEOREM ObjectiveKept ==
  Spec /\ [][AmendsUnread]_vars => []RunsRecordedObjective
<1>1. Init => ReadsObjective
  BY DEF Init, ReadsObjective
<1>2. IInv /\ ReadsObjective /\ [Next]_vars /\ [AmendsUnread]_vars => ReadsObjective'
  BY ObjectiveStep
<1>3. ReadsObjective => RunsRecordedObjective
  BY DEF ReadsObjective, RunsRecordedObjective
<1> QED
  BY <1>1, <1>2, <1>3, Invariance, PTL DEF Spec

(* From its check on a worker runs under the revision that the row records. *)
RunsItsRevision ==
  \A w \in Workers :
    /\ pc[w] \in {"read", "claiming", "claimed", "approved", "opened", "turn"} =>
         local[w].revision = jobs[Job(w)].revision
    /\ pc[w] = "approved" => agents[Agent(w)].revision = local[w].revision
    /\ pc[w] \in {"opened", "turn"} => local[w].session = local[w].revision

(* A definition that does not change between the check and the opening of the
   session is the one the session is opened with. *)
LEMMA RevisionStep ==
  ASSUME IInv, [Next]_vars, RunsItsRevision, ConfiguresUnopened \/ UNCHANGED vars
  PROVE  RunsItsRevision'
<1> SUFFICES ASSUME NEW w \in Workers,
                    pc'[w] \in {"read", "claiming", "claimed", "approved", "opened", "turn"}
             PROVE  /\ local'[w].revision = jobs'[local'[w].job].revision
                    /\ pc'[w] = "approved" =>
                         agents'[jobs'[local'[w].job].agent].revision = local'[w].revision
                    /\ pc'[w] \in {"opened", "turn"} => local'[w].session = local'[w].revision
  BY DEF RunsItsRevision
<1>0. /\ TypeOK /\ pc \in [Workers -> PCs] /\ local \in [Workers -> Locals]
      /\ agents \in [Agents -> AgentRows]
      /\ pc[w] # "unborn" => Job(w) \in Jobs /\ jobs[Job(w)].status # "absent"
      /\ pc[w] \in {"read", "claiming", "claimed", "approved", "opened", "turn"} =>
           local[w].revision = jobs[Job(w)].revision
      /\ pc[w] = "approved" => agents[Agent(w)].revision = local[w].revision
      /\ pc[w] \in {"opened", "turn"} => local[w].session = local[w].revision
  BY DEF IInv, TypeOK, RowsFilled, RunsItsRevision
<1>1. pc[w] # "unborn" => /\ jobs'[Job(w)].revision = jobs[Job(w)].revision
                          /\ jobs'[Job(w)].agent = jobs[Job(w)].agent
  BY <1>0, RowsKept
<1>2. ASSUME UNCHANGED pc[w], Keeps(w), pc[w] = "approved"
      PROVE  agents'[Agent(w)] = agents[Agent(w)]
  <2>1. ASSUME NEW a \in Agents, Configure(a)
        PROVE  agents'[Agent(w)] = agents[Agent(w)]
    <3>1. a # Agent(w) \/ UNCHANGED vars
      BY <1>2, <2>1 DEF ConfiguresUnopened
    <3> QED
      BY <1>0, <2>1, <3>1 DEF Configure, vars
  <2>2. UNCHANGED agents \/ \E a \in Agents : Configure(a)
    BY DEF Next, UserStep, ExecuteStep, Submit, Cancel, Pause, Resume, Amend, SetStatus,
       BeginSessionTurn, EndSessionTurn, Launch, ReadJob, LockForClaim, ClaimBusy, Claim,
       ClaimRefused, CheckRevision, OpenSession, StartTurn, TurnRefused, EndTurn, Finish,
       FinishFenced, Exit, Crash, HeartbeatRead, HeartbeatWrite, LeaseLapses, ReconcileRead,
       ReconcileWrite, vars
  <2> QED
    BY <2>1, <2>2
<1>3. CASE UNCHANGED pc[w] /\ Keeps(w)
  BY <1>0, <1>1, <1>2, <1>3 DEF Keeps
<1>4. CASE /\ <<pc[w], pc'[w]>> \in {<<"read", "claiming">>, <<"claiming", "claimed">>,
                                      <<"opened", "turn">>}
           /\ Keeps(w)
  BY <1>0, <1>1, <1>4 DEF Keeps
<1>5. CASE ReadJob(w)
  <2>1. /\ local'[w].revision = jobs[Job(w)].revision /\ local'[w].job = local[w].job
        /\ pc'[w] = "read" /\ UNCHANGED jobs
    BY <1>0, <1>5 DEF ReadJob, Go, Locals
  <2> QED
    BY <2>1
<1>6. CASE CheckRevision(w)
  <2>1. /\ pc[w] = "claimed" /\ UNCHANGED <<agents, jobs, local>>
        /\ pc'[w] = IF agents[Agent(w)].revision = local[w].revision
                    THEN "approved" ELSE "failing"
    BY <1>0, <1>6 DEF CheckRevision, Go
  <2> QED
    BY <1>0, <2>1
<1>7. CASE OpenSession(w)
  <2>1. /\ pc[w] = "approved" /\ UNCHANGED jobs /\ pc'[w] # "approved"
        /\ local'[w].session = agents[Agent(w)].revision
        /\ local'[w].revision = local[w].revision /\ local'[w].job = local[w].job
    BY <1>0, <1>7 DEF OpenSession, Go, Locals
  <2> QED
    BY <1>0, <2>1
<1> QED
  BY <1>3, <1>4, <1>5, <1>6, <1>7, WorkerSteps

(* worker.py:32, "Agent definition changed after job approval" is an error,
   holds of every run in which nobody configures the agent between that check
   and the opening of the session. *)
THEOREM ApprovedDefinitionRuns ==
  Spec /\ [][ConfiguresUnopened]_vars => []RunsApprovedDefinition
<1>1. Init => RunsItsRevision
  BY DEF Init, RunsItsRevision
<1>2. IInv /\ RunsItsRevision /\ [Next]_vars /\ [ConfiguresUnopened]_vars => RunsItsRevision'
  BY RevisionStep
<1>3. RunsItsRevision => RunsApprovedDefinition
  BY DEF RunsItsRevision, RunsApprovedDefinition
<1> QED
  BY <1>1, <1>2, <1>3, Invariance, PTL DEF Spec
=============================================================================
