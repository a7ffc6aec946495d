# AtBots in TLA+

TLA+ models of the AtBots agent platform (`src/atbots`), with the TLC runs that
check them on small instances and the TLAPS proofs of what holds for every
instance. Every definition is translated from the source; `PROJECT.json` maps
it to its lines.

## 1. The system

AtBots runs agents on one machine. A *store* is a directory with a SQLite
registry; several processes and threads work on it at once: the web server's
request threads, command lines, the desktop's runner thread, one worker process
per job. They share the database, a file lock per agent (`turn.lock`) and a
file lock per store (`scheduler.lock`, `runner.lock`). There is no coordinator:
correctness rests on which reads and writes share a transaction or a lock.

| Component | State | Operations | Talks to |
|---|---|---|---|
| Job table, `platform/jobs.py` | `jobs`, `job_events` | submit, claim, heartbeat, finish, action, amend, launch, reconcile_stale | registry (state, revision), turn lock |
| Worker, `platform/worker.py` | one process: job read, token, heartbeat thread | execute | job table, session |
| Agent registry, `platform/store.py` | `agents`, `conversations`, `turns`, `handoffs`, turn lock | create, configure, save_turn, record_failure, share_memory | everybody |
| Session, `platform/session.py` | the definition it was opened with | chat: lock, checks, model run, save | registry, memory |
| Control room, `platform/control.py` and the approval half of `jobs.py` | `approvals` | dispatch, approve, reject | registry, memory, jobs, schedules, AtSys, cloud |
| Environment tools, `platform/environment.py` | none | request_* (proposals made inside a turn) | approvals |
| Scheduler, `platform/scheduler.py` | `schedules`, `scheduler.lock` | create, edit, action, tick, serve, run_once | job table |
| Desktop, `platform/desktop.py` | owner and start locks, `desktop.json`, runner thread and its attempts | open, run, reopen | scheduler, web server |
| Cloud handoff, `platform/deployment.py` | `handoffs`, the object and its `.lease` | stage, pack, unpack, restore | registry, bucket |
| Cloud worker, `platform/cloud_worker.py` | lease, generation, execution count | one execution | bucket, scheduler, worker |
| Task loop, `agent.py` | calls seen, failures, nudges, budget | run | provider, tools |
| Credentials, `auth.py`, `providers/authenticated.py` | chunks and manifest in the keychain, profile lock | load, save, delete, login, logout, refresh | OS keychain, provider |
| Connections, `platform/connections.py` | the table of sign-ins, API keys | start, save, load, models | credentials |
| Maintenance, `platform/components.py`, `platform/web.py` | maintenance state and its lock, runner lock | upgrade, restart, request gate | runner, supervision, package index |
| Supervision, `platform/supervision_service.py`, `integrations.py` | `dashboard.json`, setup lock, delegation rows, child processes | start, stop, delegate | AtSys over HTTP |
| Memory, `platform/memory.py` | none of its own | context, confirm, capture, remember, correct, forget | AtMem |
| Provider router, tools, browser, companion, CLI | (caches) | adapters | external services |

What is hard here: rows read in one transaction and used in the next; the gap
between a check and the lock that should cover it; a worker that is slow, dead
or fenced while its effects are real; a tick that overlaps an edit; a plan half
applied when its process dies; a bucket whose replies get lost; a credential
written in pieces and a token that is spent before its successor is saved;
packages replaced under a running application; a model at work for minutes on
what was checked at the start. What makes each
part correct is listed as properties in section 3; the hazards they answer are
in `PROJECT.json`, at their lines.

## 2. Modules

| Module | Models | Role |
|---|---|---|
| `JobLedger` | what the job table promises: accepted, taken by one owner, begun once, settled for good | abstract specification |
| `Jobs` | jobs.py, worker.py, the lock and revision rules of store.py and session.py | detailed machine, implements `JobLedger` |
| `JobsProofs` | | theorems about `Jobs` and the refinement |
| `ReceiptLedger` | what the control room promises: a plan is spent at most once, only a spent one acts, and at the revision it was proposed for | abstract specification |
| `Approvals` | the receipts of jobs.py, control.py approve/_apply, environment.py requests | detailed machine, implements `ReceiptLedger` |
| `ApprovalsProofs` | | theorems about `Approvals` and the refinement |
| `Scheduler` | scheduler.py, the runner of desktop.py, submit as the tick uses it | machine |
| `SchedulerProofs` | | theorems about `Scheduler` |
| `Custody` | what a handoff promises: one owner or none, no place gets back what it gave away, each state of an object worked on by one execution | abstract specification |
| `CloudHandoff` | deployment.py stage/pack/unpack/restore, cloud_worker.py | detailed machine, implements `Custody` |
| `CloudHandoffProofs` | | theorems about `CloudHandoff` and the refinement |
| `TaskLoop` | agent.py run | machine |
| `TaskLoopProofs` | | theorems about `TaskLoop` |
| `CredentialRegister` | what the credential store promises: one register per profile, written inside a session | abstract specification |
| `Credentials` | auth.py, authenticated.py, connections.py, session.py configured_model | detailed machine, implements `CredentialRegister` |
| `CredentialsProofs` | | theorems about `Credentials` and the refinement |
| `Workstation` | desktop.py, web.py gates, components.py, supervision_service.py, runner and fleet as they meet them | composition |
| `WorkstationProofs` | | theorems about `Workstation` |
| `AtomicTurns` | what a conversation promises: a turn happens at one instant | abstract specification |
| `Conversation` | session.py chat, store.py save_turn/record_failure/configure, memory.py as the turn uses it | detailed machine, implements `AtomicTurns` |
| `ConversationProofs` | | theorems about `Conversation` and the refinement |
| `MC*` | symmetry sets and constant values for TLC | |

### How the models correspond to the code

**Granularity.** One action is one database transaction, one acquisition or
release of a file lock, or one call to something external. Code that holds
nothing between two of these gets two actions with a `pc` value between them, so
that everybody else's steps fall in between. `BEGIN IMMEDIATE` (submit, claim,
finish, consume, propose) makes a whole function atomic. What runs under an
agent's turn lock is one action only where every reader of what it writes takes
that lock too.

**Jobs.** `jobs` is the table, `agents` the registry's state and revision,
`turnLock` the lock by holder. `pc[w]` walks through `execute`: read the job,
claim under the lock, compare the revision, open a session (which reads the
definition again), take the lock for the turn, finish. `beat[w]` is the
heartbeat thread: it may be waiting, or hold a status it has read and not yet
written a lease for. `stale` is what `reconcile_stale` selected and has not yet
updated. A token is the worker that holds it, because a process claims once.
Time is the lease: live until `LeaseLapses`, which may happen to a healthy
worker too, as its heartbeat can fail or be delayed. `claimant` and `ran` are
history. "paused" stands for every state of an agent that is not active.

**Approvals.** A receipt goes absent, pending, executing, applied or rejected;
an operator's `pc` walks through dispatch (count, insert) or approve (preview,
consume, the branch of `_apply`, finish_approval). Plans are grouped by what
their branch checks and writes (`PlanKinds`); memory_remember and memory_share
follow the memory branch without its digest. `Abandon` is every error and every
death of the process. `ReceiptLedger` sees the receipts, what is done of each
plan and the agent, and neither operators nor previews. Requests made by an agent's own tools bypass the cap on
open receipts, as in the code. `seen` records the revision and the memory
version a plan met when it took effect.

**Scheduler.** A tick reads all rows, then handles one after the other: due or
not, decide (skip, fire), submit, advance. The snapshot, the tick's clock and
the row at hand are `local[r]`. A cron calendar is the multiples of `Period`;
what the code takes from croniter is only "the first occurrence after t". The
jobs here are the jobs of occurrences; people's own jobs are in `Jobs`. The
clock does not run backwards. The desktop counts failures and stops at
`MaxAttempts` (`blocked`); another runner just ends.

**CloudHandoff.** Local roots, objects and executions. `mover` is where a stage
or restore command is, `exec` an execution of the cloud job. A write with
`if_generation_match` is atomic; `GivesUp` and `Fails` stand for a refusal, an
error and a death, and a lost reply is the write followed by one of them. The
archive is reduced to the agent's revision and one job. `RemoveLease` is a
person who deletes the lease of an execution that may be alive. The bucket is
external, modelled by how the code uses it. `state export` and `state import`,
which document that they do not transfer ownership, are not part of it. Of all this
`Custody` sees who owns the agent, the generations of the objects and what was
worked on; its owner is read off rows, leases and the commands under way.

**TaskLoop.** One run, step by step; the model, the provider and the tools
answer anything. `trace` is the code's trace with the kind of each recovery.
`Listed` is what the prompt offers and a push-back names, destructive tools
included; `Permitted` is what `invoke` lets through.

**Credentials.** A credential is the number of its token. `manifest` and `cells`
are the keychain: the entry of a profile, and the text of each chunk; with
`Parts = 0` the credential is one entry. Each call of the keychain is a step of
`proc[p]`, may raise, and may be the last of its process. `SaveRaises` is the
except branch of save, which cleans up what was written; `Cleaned` is the
cleanup, whose errors the code swallows. A load reads the manifest and then one
chunk after the other, with or without the profile lock as its caller has it
(`Probed` and `ListLoaded` are the two that do not). `Refresh` is the provider
granting a new token for the old one, before anything is saved; `Replay` is the
same token presented again. `jobs` is the table of browser sign-ins and `Report`
the thread that settles its row. Two simplifications: a request refreshes at most
once, and a call of the keychain that raises has had no effect.
`CredentialRegister` sees none of the chunks.

**Workstation.** `phase[d]` is the main thread of a desktop, `runner[d]` its
runner thread, `actor[d]` its maintenance thread and `actor[t]` a request or a
command of another terminal. `state[d]` is `Components.state` with its lock,
`ticking` the runner.lock with its holder. `Request` is do_POST's look at the
gate, what follows is the route: a change of the fleet, a chat (`Plans`, then
`Changes`, with a model in between), start and stop of the private AtSys, an
upgrade whose checks are one read each, a restart. `Command` is what a terminal
does without a gate. `Dies` is the end of a process at any point: its threads,
its memory and its locks go, `pip` and what the files say stay. The fleet is one
agent: active or not, its job, its delegated task. `Scheduler` has what a tick
does, here it is an interval. Maintenance leaves runner.lock and records how it
ended in one step; in the code the record follows the release.

**Conversation.** `session[p]` is one `AgentSession`, walking through chat:
lock, check of the definition, history, capture, package of memory, model,
confirmation, save; or a configuration change of an operator (`Asks`,
`ChangeBegins`, `ChecksFence`, `Reconfigures`). `turns` holds the receipts
with the revision and the version of memory each records, `conversation` the
history with its revision. Memory is a version that every
admitted record, correction or removal moves on. A session may stay open between
turns, as `atbots chat` and the control room keep theirs, with the definition it
was opened with.

## 3. What is checked

Bounds are the smallest at which each of the listed cases happens: two actors
for every race, two rows so that one can be confused with the other, two
revisions so that "changed in between" exists, one crash or more everywhere.
Constants described as bounds in their module appear only in guards.

| Run | Instance | Shows |
|---|---|---|
| `jobs_safety` | 1 agent, 2 jobs, 2 workers, 2 revisions | `TypeOK`, `OneActivePerAgent`, `ExecutedAtMostOnce`, `TurnUnderOneDefinition`, `ReplyFromExecutor`, `CancelNeverReplied`, `FencedResultNeverLands` |
| `jobs_liveness` | 1 job, 2 workers, 2 revisions, 2 objectives | `ImplementsLedger`, `ClaimedWorkSettles` under fairness |
| `approvals_safety` | 2 receipts of every kind, 2 operators | `TypeOK`, `LockedPlansMeetTheirRevision`, `OneChangePerRevision`, `ImplementsReceipts` |
| `scheduler_safety` | 2 schedules of an agent, 2 runners, 2 units of time, 3 events | `TypeOK`, `OccurrenceOnce`, `OverlapSkipHolds` |
| `scheduler_desktop` | the desktop's runner alone, all policies, 3 units of time | `CatchUpOnce`, and `DueIsHandled` under fairness |
| `cloud_handoff` | 2 roots, 2 objects, 2 executions, allowance 1 | `TypeOK`, `SingleAuthority`, `CountsEveryCheckpoint`, `SourceWorkStaysHome`, `ImplementsCustody` |
| `task_loop` | 4 tools, one destructive, one not allowed, 3 arguments, 5 steps | `TypeOK`, `NoCallTwice`, `BrokenToolLeftAlone`, `EndsForItsReason` |
| `credentials` | 2 processes, 1 account, 1 API key, 2 chunks each, 2 tokens | `TypeOK`, `LoadsAreWhole`, `RotatedTokenNotReused`, `NothingLeftBehind`, `ImplementsRegister` |
| `credentials_signin` | 2 processes, 1 account in one entry, 2 sign-ins, a table of 1 | `SignInSettles` under fairness |
| `workstation` | 2 desktops, 1 request or terminal, 2 attempts of a runner | `TypeOK`, `NoTickDuringInstall`, and `MaintenanceSettles` under fairness |
| `maintenance_gate` | the same with 2 requests | a chat admitted before an upgrade works during the install: `NoWorkDuringInstall` (violation) |
| `conversation` | 3 processes, 3 turns, 3 revisions, 2 versions of memory | `TypeOK`, `TurnIsUndisturbed`, `RepliesAreReceipted`, `TurnsAreAtomic` |

Notes on the bounds. In `jobs_safety` the second job of the same agent is what
`OneActivePerAgent` needs and the second worker what fencing needs; a third of
either adds no new kind of interference, and the theorems cover every number.
`scheduler_safety` has an event bound (edits, pauses, deletions and crashes
together) of three: a crash, a pause and a resume, or two edits and a crash, fit.
`cloud_handoff` explores a full circle: stage, execute, restore, activate,
pause, stage again. In `credentials` two chunks are what a mix of generations
takes, two tokens a replacement or a refresh; a third process would only wait
for the lock or load without it, as the second can. `workstation` lets one
desktop reopen another and a crashed one leave its installer behind;
`maintenance_gate` needs the second request, one that is at work and one that
upgrades. `conversation` has a third process so that a configuration change, a
turn and a stale session meet. Deadlock is checked except in `scheduler_desktop` (the
runner has given up and the events are used up), `cloud_handoff` (all executions
ended) and the task loop (the run ended), where the system really stops.

**Fairness.** `Jobs!Fairness`: a started process goes on until it exits or dies
(the operating system schedules it; a turn has a time limit), the lease of a
dead worker lapses (time passes; only its heartbeat renews it), and somebody
keeps reconciling (the runner's loop every two seconds). Nothing is assumed of
people, of a healthy worker's lease, or of crashes. `Scheduler!Fairness`: the
desktop's thread wakes up, and a tick that began goes on; nobody promises
`runner --once`. `Credentials!Fairness`: a thread inside an operation goes on,
because each call of the keychain or the provider returns or raises, and the
waits for the profile lock and for the browser have timeouts; nothing is assumed
of when operations start. `Workstation!Fairness`: the maintenance thread goes on,
since its join, its lock, the stop of AtSys and the installer all have limits;
nothing is assumed of runners, which need not stop, of requests, of other
terminals or of AtSys. `Approvals`, `CloudHandoff`, `TaskLoop` and `Conversation`
state safety only.

### Where code and documents disagree

`maintenance_gate` is a listed run. The others have their configuration in this
directory, each with the one property its module states for it; TLC finds the
counterexample in seconds (`tlc -config jobs_overwrite.cfg MCJobs`).

1. `web.py:303`, `maintenance_gate`: the gate is looked at once, before the
   request is handled, and upgrade does not look at requests.
2. `jobs.py:292`, `jobs_overwrite` (`NoTerminalOverwritten`): `reconcile_stale`
   updates by id, so a result written between its select and its update is
   replaced by needs_review.
3. `worker.py:31`, `jobs_definition` (`RunsApprovedDefinition`): the revision is
   compared before the session reads the definition again; the turn may run
   under another one. The same shape holds for the objective (`worker.py:14`,
   `jobs_amend`, `RunsRecordedObjective`): it is read before the claim, and an
   amendment may come in between.
4. `control.py:421`, `approvals_digest` (`MemoryPlansMeetTheirRecord`): the
   memory digest is compared outside the lock.
5. `scheduler.py:243`, `scheduler_edit` (`FutureOccurrenceKept`): the advance
   follows a row read before an edit.
6. `agent.py:184`, `task_loop_finish` (`LastFinishKept`): a finish is pushed back
   without a look at the budget.
7. `auth.py:353`: a token whose successor could not be saved is presented again,
   where the comment says it must never be. `RotatedTokenNotReused` states what
   the code does keep, with that exception.

Where the fault is a window between two steps, its module names the window as a
condition on steps, and a configuration of the same module runs the
specification that stays outside it: `jobs_windows` (items 2 and 3),
`approvals_window`, `scheduler_window` and `maintenance_window` (item 1, with one
desktop). They pass, and section 4 proves that the named window is the only one.

| Configuration | Condition on steps | Theorem |
|---|---|---|
| `maintenance_window` | `CommitsUnattended`: no chat is being handled when an upgrade is committed | `GateHolds` |
| `jobs_windows` | `SettlesUnselected`: no worker finishes a job the reconciler has selected | `TerminalKept` |
| `jobs_windows` | `AmendsUnread`: no amendment between a worker's read and its claim | `ObjectiveKept` |
| `jobs_windows` | `ConfiguresUnopened`: no configuration between a worker's check and its session | `ApprovedDefinitionRuns` |
| `approvals_window` | `KeepsRecord`: the record keeps its version between the comparison and the lock | `RecordMetWhenKept` |
| `scheduler_window` | `EditsBetweenTicks`: no edit of a row a tick has read and not decided about | `FutureKeptBetweenTicks` |

Each condition speaks of one moment of the other process, so it also says what a
repair has to close: the update must look at the status it selected, the session
must open what was checked, the advance must compare the row it read.

`CatchUpOnce` holds for one runner only, as its comment says; the documentation
asks not to start a second runner for the same root.

## 4. What is proved

The theorems hold for any sets and bounds that satisfy the named assumptions of
the modules (identities are distinct, bounds are positive). Each proof module
states an inductive invariant, proves that it holds at first and that every step
keeps it (one lemma per part or one step per action), and derives the properties.

**Jobs.** `IInv` has three parts beside the safety properties. `RowsFilled`: an
accepted job has an agent, a started process a job. `LockHeld`: a worker that
claims or runs a turn holds its agent's lock. `ClaimedOnce`: a job's claimant is
set when it leaves the queue and never changes; its token, its result, the
reconciler's list and every worker past its claim agree with it. None of the
properties is inductive without the last one: that a turn is begun once follows
from "a worker before its turn finds `ran` empty", which needs that the claimant
is unique. `Invariance` proves `Spec => []IInv`; `TypeCorrect`, `OneActive`,
`AtMostOnce`, `StableDefinition` and `RepliesAreOwned` follow; the action
properties (`CancelledNeverReplied`, `FencingHolds`) and the refinement
(`Refinement`: each step is a step of `JobLedger` or leaves its variables
unchanged) are proved from it step by step. The three properties that the code
violates are proved of every behaviour that stays outside their window, with one
more invariant each: the rows a reconcile selected are still at work
(`SelectedAtWork`); from its reading on a worker has the objective its row records
(`ReadsObjective`); and the revision it read, the agent's at its check and its
session's afterwards are that of the row (`RunsItsRevision`).

**Approvals.** The invariant adds to the properties who holds a spent receipt:
an executing receipt has at most one operator inside its plan, and what is done
matches that operator's position. `SingleUse`, `RejectedNeverActs`,
`AppliedMeansDone` and `ApprovedRevision` follow. `OneChange` needs in addition
that the agent's revision has moved past the revision of every change that took
effect: then a second change approved for the same revision finds another one.
`ReceiptsImplemented` maps a receipt to its phase and forgets the operators;
`StateSteps` is the table of receipts, `ApplyActs` the branches of `_apply`, each
of which is one part of a plan that is executing, or an invisible step.
`RecordMetWhenKept` uses `DigestHolds`: from the comparison to the lock the digest
is that of the record.

**TaskLoop.** Each property needs the loop's counters to mean what the trace
says. `Remembered`: a call in the trace is in `seen`, so a call that is not in
`seen` is new (`CallsAreMadeOnce`). `StreakIsRecent`: the last `broken`
entries are provider failures and the one before them is not, so the counter is
at its limit when, and only when, the last failures in a row are; `Decided` says
how the counters and the last entry end the run, and both together that it ends
for the reason its trace shows (`EndsWithReason`). `FailuresCounted`: a tool's
counter is the number of its failed entries, so the check before an invocation bounds what came before
it (`BrokenToolsAreLeftAlone`). `StepKinds` reduces the eight actions to the
four ways a step can touch these.

**Scheduler.** Two jobs of one occurrence are impossible because submit finds
the first, so `OccurrenceOnce` needs little; `OverlapSkipHolds` needs `Quiet`:
from the decision not to skip until the submit that follows, no job of the agent
that a tick submitted waits, because only the holder of the lock submits
(`Held`), and what it read of a schedule's agent is still true (`Reads`,
`Deciding`). `Guarded` bounds the desktop's attempts. `CaughtUpOnce` assumes that
the desktop's runner is the only one, and uses a second invariant: the clock a
tick took is past (`Clock`, from which `NeverFiredEarly` follows for any number of
runners), an occurrence that fired was due (`Fired`), a row
still points at what fired last or past it (`Ahead`), and a row read by the tick
is as it was or has moved past the tick (`Moved`). `FutureKeptBetweenTicks` needs
that a row a tick has read and not handled still names the same occurrence
(`Untouched`), so that what it moves on was due.

**CloudHandoff.** `OneOwner` rests on `Sole`: of the stores that may still use
or upload the agent and the objects that may still be leased, at most one
exists; `Rows` ties that to the fence a command has put. `Counts` gives
`EveryCheckpointCounted`, also when leases are deleted. While none is
(`~removed`), `Leased` says that an execution keeps its lease and its generation
to its end, and `Once` that work on the present state of an object belongs to
the execution that holds, or has died with, its lease: so no generation is
worked on twice, and the work is counted by an injection into the allowance
(`Effects`). `Sourced`: what leaves a store is newer than the jobs in it
(`StaysHome`). `OwnersAssumption` keeps
stores, executions and objects apart.

`CustodyImplemented` reads the owner off the state: a store that is not handed
off, or the object that no lease has yet taken away. Six actions are visible.
A fence and the claim of a restore let a place go (`FenceLeaves`,
`RestoreLeaves`); unpacking and the upload give the agent a place, when by `Sole`
nobody else has it (`UnpackEnters`, `UploadAppears`); work and checkpoint belong to
the owner while nobody removed a lease (`HolderOwns`, `WorkWorks`,
`CheckpointSaves`). Two facts had to be added to the invariant for it: who
checkpoints has recorded its work (`Recorded`), which is why a generation never
passes without effects being counted, and a store that does not exist has no
fence (`Rows`), without which unpacking would revive one.

**Workstation.** The tick of another process is kept out by runner.lock alone,
so `NoTick` needs: maintenance past its lock holds runner.lock (`Tasked`), a
runner that serves holds it (`Serves`), who ticks is its holder and never
maintenance (`TickHeld`), and the installer of a live desktop belongs to its
maintenance thread (`Piped`). That the thread is the only one of its desktop
comes from `Admitted`: an upgrade past its lock keeps components.lock, and finds
maintenance not running. `GateHolds` keeps `Gated`: while maintenance runs on a
desktop, no request handled there is a chat at work; requests that arrive later
meet the gate, and the condition keeps out those that arrived before.

**Conversation.** `TurnIsUndisturbed` needs that who is past the lock holds it
(`Holds`) and that every writer of the definition, the fence or the memory takes
it too (`Undisturbed`, `Rests`). `RepliesAreReceipted` needs that the turn at
work is the last one begun and has no receipt (`Numbered`, `Counted`), that the
history it appends to is the registry's (`Based`), and that its package is
confirmed before it saves (`Packaged`). `TurnsImplemented` is the linearizability
of a turn: everything it read (definition, history, package) is still so at
the instant of the save, hence `SavesAnswer` maps the save to `Answer` and
`FailuresMiss` the receipt of a failed turn to `Miss`; every other step is
invisible or one of configuration, handoff and memory.

**Credentials.** The invariant says of each process where its operation can be
(`Walks`), that it then holds its account's lock (`Locked`) or adds a key nobody
has yet (`Keyed`), and what its save, load or refresh has made of the profile
(`Saving`, `Loading`, `Renewing`). Of the store: `Stored`, every manifest names a
credential of its own whose chunks are all there; `Rotated`, a rotated token has
been saved and a manifest that still names it means that its successor has not;
`Swept`, every other chunk is pending in some process, unless litter was left.
The others do not notice a step (`Others`), because who writes is alone at its
profile (`Exclusive`): the lock for an account, the fresh profile for a key. One
lemma does this for the steps that leave the store alone (`Quiet`), one for those
that write (`Written`). `WholeLoads`, `TokensNotReused` and `NothingLeft` follow;
`RegisterImplemented` reads the registers off the manifests (`Manifests`, from
`Stored`): a commit installs, a removal removes, taking and leaving the lock
opens and closes the session, and no other step is visible.

**Proved and no longer run.** `PerformedAtMostOnce`, `OnlySpentReceiptsAct`,
`AppliedIsComplete` and `EffectsAreCounted` are consequences of the refinements
that `approvals_safety` and `cloud_handoff` check in their place; the theorems
`SingleUse`, `RejectedNeverActs`, `AppliedMeansDone` and `Effects` still state them.

**Only model-checked.** Liveness (`ClaimedWorkSettles`, `DueIsHandled`,
`SignInSettles`, `MaintenanceSettles`), which is outside the proof system. Every
invariant and action property that a passing run checks is also a theorem.
`CatchUpOnce` is proved for the desktop's runner alone, as it is checked.
`RotatedTokenNotReused` carries the exception of item 7 above. `LastFinishKept`
(item 6) fails at one step and not in a window, so it has no conditional form.

## 5. Not modelled, and why

- Data: prompts, answers, tool results, archive content, time zones and DST.
- Dollar and token limits of a turn: they depend on provider telemetry.
- Browser, MCP, skills, file tools: I/O inside one turn.
- The companion, the service and the gateway: straight-line adapters.
- The provider router's choice, request formats and the cache of context sizes
  (`ollama_ctx.py`): one assignment decides what is cached.
- `share_memory`: it only deletes rows that older releases left.
- Pages, authentication and parsing of the web server; the routes' effects are
  in the modules of the operations they call.
- The cap on open receipts as a limit: nothing promises it (`Approvals` has the
  count and the insert as two steps, and requests that bypass it).
- What a person does about a restore that failed with its lease claimed.
- Definitions and bindings of agents: validation of data.
- Evaluations and qualification scripts: harnesses, not the program.
- `CloudRun`, `build_container`: one external command each, without state.
- Command lines, doctor, package exports: parsing and printing; the commands
  that change state are the people's actions of the modules.

## 6. Plan

Done: 1 `JobLedger`, `Jobs` and proofs; 2 `Approvals` and proofs; 3 `Scheduler`
and proofs; 4 `CloudHandoff` and proofs; 5 `TaskLoop` and proofs; 6
`CredentialRegister`, `Credentials` and proofs; 7 `Workstation` and proofs, which composes
the desktop, maintenance and supervision; 8 `Conversation` and proofs; 9 the abstract specifications
`AtomicTurns`, `ReceiptLedger` and `Custody` with the refinement proofs, so that
every machine whose steps outsiders see as one (jobs, receipts, handoffs,
credentials, turns) has one; 10 the theorems that bound the windows of section 3.

Left: the delegations' remote owner (`integrations.py`), of which only the POST
and the link row are modelled, as parts of a supervise plan in `Approvals`.
