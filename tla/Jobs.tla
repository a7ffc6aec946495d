-------------------------------- MODULE Jobs --------------------------------
(***************************************************************************)
(* Durable background work of the agent platform: the job table            *)
(* (platform/jobs.py), the worker process that executes one job            *)
(* (platform/worker.py), the part of a session's turn that a worker relies *)
(* on (platform/session.py) and the registry rows and per-agent turn lock  *)
(* they share (platform/store.py).                                         *)
(*                                                                         *)
(* An action is one database transaction or one acquisition or release of  *)
(* the turn lock: BEGIN IMMEDIATE makes submit, claim and finish atomic,   *)
(* while heartbeat and reconcile_stale read in one transaction and write   *)
(* in a later one, so each of them is two actions.                         *)
(***************************************************************************)
EXTENDS Integers

CONSTANTS
  Agents,        \* registered agents
  Jobs,          \* job identities
  Workers,       \* worker processes; one process makes one claim
  Session,       \* an interactive turn (command line, web) holding a turn lock
  Reconciler,    \* author of the result reconcile_stale writes
  Nobody,        \* the NULL of token, result and lock holder
  MaxRevision,   \* bound: definition revisions explored
  MaxObjective   \* bound: versions of an objective explored

ASSUME NamesAssumption ==
  /\ {Session, Reconciler, Nobody} \cap Workers = {}
  /\ Nobody \notin Agents
  /\ Session # Nobody
  /\ Reconciler # Nobody

ASSUME BoundsAssumption ==
  /\ MaxRevision \in Nat \ {0}
  /\ MaxObjective \in Nat \ {0}

VARIABLES
  agents,    \* registry row: state and definition revision
  jobs,      \* the jobs table
  turnLock,  \* the file lock workspaces/<id>/locks/turn.lock, by holder
  pc,        \* where each worker process is
  local,     \* the local variables of execute and of its session
  beat,      \* the worker's heartbeat thread
  stale,     \* rows reconcile_stale selected and has not written yet
  claimant,  \* history: the worker whose claim of the job committed
  ran        \* history: the workers that began a turn for the job

vars == <<agents, jobs, turnLock, pc, local, beat, stale, claimant, ran>>

Active == {"running", "cancel_requested"}
Settled == {"replied", "failed", "needs_review", "cancelled"}
Statuses == {"absent", "queued", "paused"} \union Active \union Settled

JobRows ==
  [status : Statuses, agent : Agents \union {Nobody}, revision : Nat,
   objective : Nat, token : Workers \union {Nobody},
   lease : {"none", "live", "lapsed"},
   result : Workers \union {Reconciler, Nobody}]

AgentRows == [state : {"active", "paused"}, revision : Nat]

Locals ==
  [job : Jobs \union {Nobody}, objective : Nat, revision : Nat,
   session : Nat, cancelled : BOOLEAN]

\* Where execute() can be between two of its atomic steps.
PCs == {"unborn", "started", "read", "claiming", "claimed", "approved",
        "opened", "turn", "finishing", "failing", "stopping", "exited"}

\* "renew" and "renew_cancel": the heartbeat has read the status and has not
\* yet written the new lease.
Beats == {"off", "waiting", "renew", "renew_cancel"}

AbsentJob ==
  [status |-> "absent", agent |-> Nobody, revision |-> 0, objective |-> 0,
   token |-> Nobody, lease |-> "none", result |-> Nobody]

Init ==
  /\ agents = [a \in Agents |-> [state |-> "active", revision |-> 1]]
  /\ jobs = [j \in Jobs |-> AbsentJob]
  /\ turnLock = [a \in Agents |-> Nobody]
  /\ pc = [w \in Workers |-> "unborn"]
  /\ local = [w \in Workers |->
                [job |-> Nobody, objective |-> 0, revision |-> 0,
                 session |-> 0, cancelled |-> FALSE]]
  /\ beat = [w \in Workers |-> "off"]
  /\ stale = {}
  /\ claimant = [j \in Jobs |-> Nobody]
  /\ ran = [j \in Jobs |-> {}]

-----------------------------------------------------------------------------
(* Requests of people and of the scheduler: jobs.py, store.py.             *)

\* The definition is read before the insert; a pause or a new revision in
\* between leaves the same row as one that comes right after the insert.
Submit(j, a) ==
  /\ jobs[j].status = "absent"
  /\ agents[a].state = "active"
  /\ jobs' = [jobs EXCEPT ![j] =
                [AbsentJob EXCEPT !.status = "queued", !.agent = a,
                                  !.revision = agents[a].revision,
                                  !.objective = 1]]
  /\ UNCHANGED <<agents, turnLock, pc, local, beat, stale, claimant, ran>>

SetStatus(j, from, to) ==
  /\ jobs[j].status = from
  /\ jobs' = [jobs EXCEPT ![j].status = to]
  /\ UNCHANGED <<agents, turnLock, pc, local, beat, stale, claimant, ran>>

\* action("cancel"): a queued job is cancelled at once, a running one only
\* asked to stop; any other status is left alone.
Cancel(j) ==
  \/ SetStatus(j, "queued", "cancelled")
  \/ SetStatus(j, "running", "cancel_requested")

Pause(j) == SetStatus(j, "queued", "paused")

Resume(j) == SetStatus(j, "paused", "queued")

Amend(j) ==
  /\ jobs[j].status \in {"queued", "paused"}
  /\ jobs[j].objective < MaxObjective
  /\ jobs' = [jobs EXCEPT ![j].objective = @ + 1]
  /\ UNCHANGED <<agents, turnLock, pc, local, beat, stale, claimant, ran>>

\* Mutated form: configure without the turn lock.
ConfigurableUnlocked(a) == agents[a].revision < MaxRevision

Configurable(a) ==
  /\ turnLock[a] = Nobody
  /\ agents[a].revision < MaxRevision

\* store.configure: held under the turn lock from its first read to its
\* commit, so nothing that needs the lock falls inside.
Configure(a) ==
  /\ Configurable(a)
  /\ \E s \in {"active", "paused"} :
       agents' = [agents EXCEPT ![a] = [state |-> s, revision |-> @.revision + 1]]
  /\ UNCHANGED <<jobs, turnLock, pc, local, beat, stale, claimant, ran>>

BeginSessionTurn(a) ==
  /\ turnLock[a] = Nobody
  /\ agents[a].state = "active"
  /\ turnLock' = [turnLock EXCEPT ![a] = Session]
  /\ UNCHANGED <<agents, jobs, pc, local, beat, stale, claimant, ran>>

EndSessionTurn(a) ==
  /\ turnLock[a] = Session
  /\ turnLock' = [turnLock EXCEPT ![a] = Nobody]
  /\ UNCHANGED <<agents, jobs, pc, local, beat, stale, claimant, ran>>

-----------------------------------------------------------------------------
(* The worker process: worker.py execute.                                  *)

Job(w) == local[w].job
Agent(w) == jobs[Job(w)].agent

Go(w, from, to) ==
  /\ pc[w] = from
  /\ pc' = [pc EXCEPT ![w] = to]

HoldLock(w) ==
  /\ turnLock[Agent(w)] = Nobody
  /\ turnLock' = [turnLock EXCEPT ![Agent(w)] = w]

FreeLock(w) == turnLock' = [turnLock EXCEPT ![Agent(w)] = Nobody]

\* launch: nothing stops a second launch of a job that is still queued.
Launch(w, j) ==
  /\ jobs[j].status = "queued"
  /\ agents[jobs[j].agent].state = "active"
  /\ Go(w, "unborn", "started")
  /\ local' = [local EXCEPT ![w].job = j]
  /\ UNCHANGED <<agents, jobs, turnLock, beat, stale, claimant, ran>>

\* job = ops.get(identity), before the claim.
ReadJob(w) ==
  /\ Go(w, "started", "read")
  /\ local' = [local EXCEPT ![w] =
                 [@ EXCEPT !.objective = jobs[Job(w)].objective,
                           !.revision = jobs[Job(w)].revision]]
  /\ UNCHANGED <<agents, jobs, turnLock, beat, stale, claimant, ran>>

\* claim takes the turn lock without waiting; busy ends the process.
LockForClaim(w) ==
  /\ Go(w, "read", "claiming")
  /\ HoldLock(w)
  /\ UNCHANGED <<agents, jobs, local, beat, stale, claimant, ran>>

ClaimBusy(w) ==
  /\ Go(w, "read", "exited")
  /\ turnLock[Agent(w)] # Nobody
  /\ UNCHANGED <<agents, jobs, turnLock, local, beat, stale, claimant, ran>>

\* Mutated forms: a claim that forgets the status of the row, and one that
\* forgets the agent's other work.
ClaimableAnyStatus(j) ==
  /\ agents[jobs[j].agent].state = "active"
  /\ ~\E k \in Jobs : jobs[k].agent = jobs[j].agent /\ jobs[k].status \in Active

ClaimableBesideOthers(j) ==
  /\ agents[jobs[j].agent].state = "active"
  /\ jobs[j].status = "queued"

Claimable(j) ==
  /\ agents[jobs[j].agent].state = "active"
  /\ ~\E k \in Jobs : jobs[k].agent = jobs[j].agent /\ jobs[k].status \in Active
  /\ jobs[j].status = "queued"

\* The claim's transaction commits and the turn lock is released.
Claim(w) ==
  /\ Go(w, "claiming", "claimed")
  /\ Claimable(Job(w))
  /\ jobs' = [jobs EXCEPT ![Job(w)] =
                [@ EXCEPT !.status = "running", !.token = w, !.lease = "live"]]
  /\ FreeLock(w)
  /\ beat' = [beat EXCEPT ![w] = "waiting"]
  /\ claimant' = [claimant EXCEPT ![Job(w)] = w]
  /\ UNCHANGED <<agents, local, stale, ran>>

ClaimRefused(w) ==
  /\ Go(w, "claiming", "exited")
  /\ ~Claimable(Job(w))
  /\ FreeLock(w)
  /\ UNCHANGED <<agents, jobs, local, beat, stale, claimant, ran>>

CheckRevision(w) ==
  /\ Go(w, "claimed", IF agents[Agent(w)].revision = local[w].revision
                      THEN "approved" ELSE "failing")
  /\ UNCHANGED <<agents, jobs, turnLock, local, beat, stale, claimant, ran>>

\* AgentSession.__init__ reads the definition again; it may also raise.
OpenSession(w) ==
  /\ \/ Go(w, "approved", "opened")
     \/ Go(w, "approved", "failing")
  /\ local' = [local EXCEPT ![w].session = agents[Agent(w)].revision]
  /\ UNCHANGED <<agents, jobs, turnLock, beat, stale, claimant, ran>>

TurnAllowed(w) ==
  /\ turnLock[Agent(w)] = Nobody
  /\ agents[Agent(w)].state = "active"
  /\ agents[Agent(w)].revision = local[w].session

\* chat: lock, then check state and revision, then run the model and tools.
StartTurn(w) ==
  /\ Go(w, "opened", "turn")
  /\ TurnAllowed(w)
  /\ turnLock' = [turnLock EXCEPT ![Agent(w)] = w]
  /\ ran' = [ran EXCEPT ![Job(w)] = @ \union {w}]
  /\ UNCHANGED <<agents, jobs, local, beat, stale, claimant>>

TurnRefused(w) ==
  /\ Go(w, "opened", "failing")
  /\ ~TurnAllowed(w)
  /\ UNCHANGED <<agents, jobs, turnLock, local, beat, stale, claimant, ran>>

\* The turn ends with an answer, or with an exception (provider failure,
\* timeout, screened output, cancellation).
EndTurn(w) ==
  /\ \/ Go(w, "turn", "finishing")
     \/ Go(w, "turn", "failing")
  /\ FreeLock(w)
  /\ UNCHANGED <<agents, jobs, local, beat, stale, claimant, ran>>

\* Mutated forms: finish without its token and status conditions, and
\* without the override that turns a cancelled job's answer into a review.
OwnsAnyRow(w) == jobs[Job(w)].status # "absent"

OutcomeAsReported(w) ==
  IF local[w].cancelled THEN "needs_review"
  ELSE IF pc[w] = "finishing" THEN "replied" ELSE "failed"

Owns(w) ==
  /\ jobs[Job(w)].token = w
  /\ jobs[Job(w)].status \in Active

\* The status execute passes to finish, and finish's own override.
Outcome(w) ==
  IF local[w].cancelled \/ jobs[Job(w)].status = "cancel_requested" THEN "needs_review"
  ELSE IF pc[w] = "finishing" THEN "replied" ELSE "failed"

Finish(w) ==
  /\ \/ Go(w, "finishing", "stopping")
     \/ Go(w, "failing", "stopping")
  /\ Owns(w)
  /\ jobs' = [jobs EXCEPT ![Job(w)] =
                [@ EXCEPT !.status = Outcome(w), !.lease = "none", !.result = w]]
  /\ UNCHANGED <<agents, turnLock, local, beat, stale, claimant, ran>>

\* finish raises when fenced; raised in the try it reaches the handler,
\* which calls finish again and lets the second error end the process.
FinishFenced(w) ==
  /\ \/ Go(w, "finishing", "failing")
     \/ Go(w, "failing", "stopping")
  /\ ~Owns(w)
  /\ UNCHANGED <<agents, jobs, turnLock, local, beat, stale, claimant, ran>>

\* stopped.set() and join: the heartbeat thread ends with the process.
Exit(w) ==
  /\ Go(w, "stopping", "exited")
  /\ beat' = [beat EXCEPT ![w] = "off"]
  /\ UNCHANGED <<agents, jobs, turnLock, local, stale, claimant, ran>>

\* The process dies anywhere; the operating system drops its file lock.
Crash(w) ==
  /\ pc[w] \notin {"unborn", "exited"}
  /\ pc' = [pc EXCEPT ![w] = "exited"]
  /\ turnLock' = [a \in Agents |-> IF turnLock[a] = w THEN Nobody ELSE turnLock[a]]
  /\ beat' = [beat EXCEPT ![w] = "off"]
  /\ UNCHANGED <<agents, jobs, local, stale, claimant, ran>>

-----------------------------------------------------------------------------
(* The heartbeat thread: worker.py monitor, jobs.py heartbeat.             *)

HeartbeatRead(w) ==
  /\ beat[w] = "waiting"
  /\ LET row == jobs[Job(w)] IN
     /\ beat' = [beat EXCEPT ![w] =
          CASE row.token # w -> "off"
            [] row.token = w /\ row.status = "running" -> "renew"
            [] row.token = w /\ row.status = "cancel_requested" -> "renew_cancel"
            [] OTHER -> "waiting"]
     /\ local' = [local EXCEPT ![w].cancelled = @ \/ row.token # w]
  /\ UNCHANGED <<agents, jobs, turnLock, pc, stale, claimant, ran>>

\* The update is guarded by the token alone; the status read before it
\* decides whether the worker's cancellation token is set.
HeartbeatWrite(w) ==
  /\ beat[w] \in {"renew", "renew_cancel"}
  /\ jobs' = [jobs EXCEPT ![Job(w)].lease =
                IF jobs[Job(w)].token = w THEN "live" ELSE @]
  /\ local' = [local EXCEPT ![w].cancelled = @ \/ beat[w] = "renew_cancel"]
  /\ beat' = [beat EXCEPT ![w] = "waiting"]
  /\ UNCHANGED <<agents, turnLock, pc, stale, claimant, ran>>

\* Thirty seconds pass without a committed heartbeat: the worker is dead,
\* its heartbeat thread is, or the machine slept.
LeaseLapses(j) ==
  /\ jobs[j].status \in Active
  /\ jobs[j].lease = "live"
  /\ jobs' = [jobs EXCEPT ![j].lease = "lapsed"]
  /\ UNCHANGED <<agents, turnLock, pc, local, beat, stale, claimant, ran>>

-----------------------------------------------------------------------------
(* reconcile_stale, run by one runner at a time (scheduler.lock).          *)

\* Mutated forms: a select that forgets cancel_requested, an update that puts
\* lapsed work back in the queue, and one that writes an unknown status.
LapsedRunning == {j \in Jobs : jobs[j].status = "running" /\ jobs[j].lease = "lapsed"}

RequeuedRow(j) == [jobs[j] EXCEPT !.status = "queued", !.token = Nobody]

ExpiredRow(j) == [jobs[j] EXCEPT !.status = "expired", !.token = Nobody]

Lapsed == {j \in Jobs : jobs[j].status \in Active /\ jobs[j].lease = "lapsed"}

ReviewRow(j) ==
  [jobs[j] EXCEPT !.status = "needs_review", !.token = Nobody, !.result = Reconciler]

\* A runner that dies after its select is replaced by one that selects anew.
ReconcileRead ==
  /\ stale' = Lapsed
  /\ UNCHANGED <<agents, jobs, turnLock, pc, local, beat, claimant, ran>>

\* One commit; WHERE id=? only, so whatever the row holds by now is replaced.
ReconcileWrite ==
  /\ stale # {}
  /\ jobs' = [j \in Jobs |-> IF j \in stale THEN ReviewRow(j) ELSE jobs[j]]
  /\ stale' = {}
  /\ UNCHANGED <<agents, turnLock, pc, local, beat, claimant, ran>>

-----------------------------------------------------------------------------
UserStep ==
  \/ \E j \in Jobs : Cancel(j) \/ Pause(j) \/ Resume(j) \/ Amend(j)
  \/ \E j \in Jobs, a \in Agents : Submit(j, a)
  \/ \E a \in Agents : Configure(a) \/ BeginSessionTurn(a) \/ EndSessionTurn(a)
  \/ \E w \in Workers, j \in Jobs : Launch(w, j)

\* The program steps of a worker process, in the order of execute().
ExecuteStep(w) ==
  \/ ReadJob(w) \/ LockForClaim(w) \/ ClaimBusy(w) \/ Claim(w) \/ ClaimRefused(w)
  \/ CheckRevision(w) \/ OpenSession(w) \/ StartTurn(w) \/ TurnRefused(w)
  \/ EndTurn(w) \/ Finish(w) \/ FinishFenced(w) \/ Exit(w)

Next ==
  \/ UserStep
  \/ \E w \in Workers :
       ExecuteStep(w) \/ Crash(w) \/ HeartbeatRead(w) \/ HeartbeatWrite(w)
  \/ \E j \in Jobs : LeaseLapses(j)
  \/ ReconcileRead
  \/ ReconcileWrite

Spec == Init /\ [][Next]_vars

\* A started process is scheduled until it exits or dies, a turn is cut off
\* by its time limit, time passes for the lease of a dead worker, and a
\* runner keeps ticking.  People promise nothing.
Fairness ==
  /\ \A w \in Workers : WF_vars(ExecuteStep(w))
  /\ \A j \in Jobs : WF_vars(LeaseLapses(j) /\ pc[claimant[j]] = "exited")
  /\ WF_vars(ReconcileRead)
  /\ WF_vars(ReconcileWrite)

FairSpec == Spec /\ Fairness

-----------------------------------------------------------------------------
(* Properties.                                                             *)

\* Every variable, row and local variable keeps its type.
TypeOK ==
  /\ agents \in [Agents -> AgentRows]
  /\ jobs \in [Jobs -> JobRows]
  /\ turnLock \in [Agents -> Workers \union {Session, Nobody}]
  /\ pc \in [Workers -> PCs]
  /\ local \in [Workers -> Locals]
  /\ beat \in [Workers -> Beats]
  /\ stale \in SUBSET Jobs
  /\ claimant \in [Jobs -> Workers \union {Nobody}]
  /\ ran \in [Jobs -> SUBSET Workers]

\* An agent never owns two active jobs, whatever number of workers was
\* launched for its queue (jobs.py claim).
OneActivePerAgent ==
  \A j, k \in Jobs :
    /\ jobs[j].status \in Active
    /\ jobs[k].status \in Active
    /\ jobs[j].agent = jobs[k].agent
    => j = k

\* The turn of a job, with its external effects, is begun by at most one
\* worker ever: no relaunch, expired lease, resume or crash replays it
\* (jobs.py claim, reconcile_stale; worker.py execute).
ExecutedAtMostOnce ==
  \A j \in Jobs : \A v, w \in ran[j] : v = w

\* While a worker's turn runs its agent is active and its definition is the
\* one the session was opened with: configure cannot slip in between
\* (store.py configure and turn_lock, session.py chat).
TurnUnderOneDefinition ==
  \A w \in Workers : pc[w] = "turn" =>
    /\ turnLock[Agent(w)] = w
    /\ agents[Agent(w)].state = "active"
    /\ agents[Agent(w)].revision = local[w].session

\* A published answer comes from the one worker that claimed the job and ran
\* its turn, and that worker was never fenced (jobs.py finish).
ReplyFromExecutor ==
  \A j \in Jobs : jobs[j].status = "replied" =>
    /\ jobs[j].result = claimant[j]
    /\ jobs[j].token = claimant[j]
    /\ ran[j] = {claimant[j]}

\* Once a running job was asked to cancel, no later answer is reported as a
\* plain reply: it ends in review (jobs.py finish and reconcile_stale).
CancelNeverReplied ==
  [][\A j \in Jobs : jobs[j].status = "cancel_requested" =>
       jobs'[j].status \in {"cancel_requested", "needs_review"}]_vars

\* A claim whose token was taken away never writes a result again, however
\* late its worker finishes (jobs.py finish, "Worker result was fenced").
FencedResultNeverLands ==
  [][\A j \in Jobs : claimant[j] # Nobody /\ jobs[j].token = Nobody =>
       jobs'[j].result \in {jobs[j].result, Reconciler}]_vars

\* The detailed machine keeps the promise of JobLedger.
Phase(status) ==
  CASE status \in {"queued", "paused"} -> "waiting"
    [] status \in Active -> "owned"
    [] status \in Settled -> "settled"
    [] OTHER -> "absent"

Ledger == INSTANCE JobLedger WITH
  phase <- [j \in Jobs |-> Phase(jobs[j].status)],
  agentOf <- [j \in Jobs |-> jobs[j].agent],
  owner <- claimant,
  begun <- {j \in Jobs : ran[j] # {}}

\* Every run of leases, locks, crashes and reconciliations is a run of the
\* ledger: accepted once, owned once, begun once, settled for good.
ImplementsLedger == Ledger!LedgerSpec

\* Claimed work does not stay "running" for ever: its worker reports, or the
\* lease lapses and the runner hands it to a person (jobs.py reconcile_stale).
ClaimedWorkSettles ==
  \A j \in Jobs : jobs[j].status \in Active ~> jobs[j].status \in Settled

-----------------------------------------------------------------------------
(* The inductive invariant behind the safety properties.                   *)

\* Rows are filled in: an accepted job has an agent, a started process a job.
RowsFilled ==
  /\ \A j \in Jobs : jobs[j].status # "absent" => jobs[j].agent \in Agents
  /\ \A w \in Workers : pc[w] # "unborn" =>
       Job(w) \in Jobs /\ jobs[Job(w)].status # "absent"
  /\ \A w \in Workers : beat[w] # "off" => pc[w] # "unborn"
  /\ \A j \in stale : jobs[j].status # "absent"

\* A worker that is claiming or running a turn holds its agent's lock.
LockHeld ==
  \A w \in Workers : pc[w] \in {"claiming", "turn"} => turnLock[Agent(w)] = w

\* Who claimed a job never changes, and everything that acts in the name of
\* a claim is that worker.
ClaimedOnce ==
  /\ \A j \in Jobs : claimant[j] = Nobody <=>
       jobs[j].status \in {"absent", "queued", "paused", "cancelled"}
  /\ \A j \in Jobs : jobs[j].token \in {claimant[j], Nobody}
  /\ \A j \in Jobs : ran[j] \subseteq {claimant[j]} \ {Nobody}
  /\ \A j \in stale : claimant[j] # Nobody
  /\ \A w \in Workers : pc[w] \in {"claimed", "approved", "opened", "turn", "finishing"} =>
       claimant[Job(w)] = w
  /\ \A w \in Workers : pc[w] \in {"turn", "finishing"} => w \in ran[Job(w)]
  /\ \A w \in Workers : pc[w] \in {"claimed", "approved", "opened"} => ran[Job(w)] = {}

IInv ==
  /\ TypeOK
  /\ RowsFilled
  /\ LockHeld
  /\ ClaimedOnce
  /\ OneActivePerAgent
  /\ TurnUnderOneDefinition
  /\ ReplyFromExecutor

-----------------------------------------------------------------------------
(* What the code says and does not always do.                              *)

\* jobs.py:243, "no terminal state was overwritten": a settled job keeps its
\* status and its result.
NoTerminalOverwritten ==
  [][\A j \in Jobs : jobs[j].status \in Settled =>
       /\ jobs'[j].status = jobs[j].status
       /\ jobs'[j].result = jobs[j].result]_vars

\* worker.py:32, "Agent definition changed after job approval" is an error:
\* a job's turn runs under the definition revision the job was queued with.
RunsApprovedDefinition ==
  \A w \in Workers : pc[w] = "turn" => local[w].session = jobs[Job(w)].revision

\* jobs.py:344, "Running work cannot be silently amended": the objective a
\* worker executes is the objective the job records.
RunsRecordedObjective ==
  \A w \in Workers : pc[w] = "turn" => local[w].objective = jobs[Job(w)].objective

-----------------------------------------------------------------------------
(* The windows in which these three fail; outside of them they hold.       *)

\* A worker settles a job between the select and the update of a reconcile.
SettlesUnselected == \A w \in Workers : Finish(w) => Job(w) \notin stale

\* The definition changes between a worker's check and the opening of its session.
ConfiguresUnopened ==
  \A a \in Agents : Configure(a) => \A w \in Workers : pc[w] = "approved" => Agent(w) # a

\* The objective changes between a worker's reading of the row and its claim.
AmendsUnread ==
  \A j \in Jobs : Amend(j) =>
    \A w \in Workers : pc[w] \in {"read", "claiming"} => Job(w) # j

SpecOutsideWindows ==
  Init /\ [][Next /\ SettlesUnselected /\ ConfiguresUnopened /\ AmendsUnread]_vars
=============================================================================
