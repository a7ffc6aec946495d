------------------------------ MODULE Approvals ------------------------------
(***************************************************************************)
(* The approval receipts of the control room: a plan is proposed and       *)
(* stored, a person approves or rejects it, and an approved plan is        *)
(* applied to the registry, the agent's memory, the job table or a remote  *)
(* owner (platform/control.py dispatch, approve, _apply, reject;           *)
(* platform/jobs.py propose, consume, finish_approval, reject;             *)
(* platform/environment.py, its requests).                                 *)
(*                                                                         *)
(* approve() runs in a web thread or a terminal, several at once over one  *)
(* database, and nothing is held from its first read to its last write:    *)
(* each read, transaction and remote call is an action.  What runs under   *)
(* the agent's turn lock is one action.                                    *)
(***************************************************************************)
EXTENDS Integers, FiniteSets

CONSTANTS
  Approvals,    \* approval identities
  Operators,    \* threads and terminals that may be inside approve()
  Kinds,        \* the kinds of plan explored, some of PlanKinds
  Nothing,      \* no approval, no kind
  MaxPending,   \* open receipts at which dispatch refuses another (100)
  MaxRevision,  \* bound: revision up to which somebody configures by hand
  MaxMemory     \* bound: version up to which somebody edits memory by hand

\* The branches of _apply, by what they check and write:
\*   "configure"  configure, atflows_connect: compare-and-swap of the revision
\*   "memory"     memory_correct, memory_forget: revision, under the turn lock
\*   "create"     the agent's row, then its capabilities (without: "direct")
\*   "work"       revision; then the job is submitted, then launched
\*   "remote"     supervise: revision; then the POST, then the link row
\*   "single"     cloud_*, schedule_create: revision, then one effect
\*   "direct"     job_*, schedule_*, supervision_*: one effect
PlanKinds == {"configure", "memory", "create", "work", "remote", "single", "direct"}

ASSUME KindsAssumption == Kinds \subseteq PlanKinds

ASSUME NothingAssumption == Nothing \notin Approvals

ASSUME BoundsAssumption ==
  /\ MaxPending \in Nat \ {0}
  /\ MaxRevision \in Nat \ {0}
  /\ MaxMemory \in Nat

VARIABLES
  receipts,  \* the approvals table
  agent,     \* the agent's registry row: revision, and state = active
  memory,    \* version of the memory record the plans name
  turn,      \* somebody else (a session's turn) holds the agent's turn lock
  queue,     \* the job a "work" plan submitted: "none", "queued", "taken"
  pc,        \* where each operator is inside dispatch() or approve()
  plan,      \* the approval each operator is applying
  done,      \* history: parts of the approval's plan performed so far
  seen       \* history: revision and memory version a locked plan met

vars == <<receipts, agent, memory, turn, queue, pc, plan, done, seen>>

States == {"absent", "pending", "executing", "applied", "rejected"}
PCs == {"idle", "counted", "previewed", "consumed", "checked", "half", "complete"}

Receipts ==
  [state : States, kind : Kinds \union {Nothing}, revision : Nat, digest : Nat,
   expired : BOOLEAN]

\* Plans applied under the turn lock.
Locked == {"configure", "memory"}

\* Plans whose effect is two separate writes.
Parts(id) == IF receipts[id].kind \in {"create", "work", "remote"} THEN 2 ELSE 1

Init ==
  /\ receipts = [id \in Approvals |->
                   [state |-> "absent", kind |-> Nothing, revision |-> 0,
                    digest |-> 0, expired |-> FALSE]]
  /\ agent = [revision |-> 1, active |-> TRUE]
  /\ memory = 0
  /\ turn = FALSE
  /\ queue = [id \in Approvals |-> "none"]
  /\ pc = [o \in Operators |-> "idle"]
  /\ plan = [o \in Operators |-> Nothing]
  /\ done = [id \in Approvals |-> 0]
  /\ seen = [id \in Approvals |-> [revision |-> 0, memory |-> 0]]

-----------------------------------------------------------------------------
(* Proposals, rejections, time.                                            *)

Open == {id \in Approvals :
           receipts[id].state \in {"pending", "executing"} /\ ~receipts[id].expired}

Go(o, from, to) ==
  /\ pc[o] = from
  /\ pc' = [pc EXCEPT ![o] = to]

\* The revision, and the digest of a memory plan, are read just before the
\* insert; a change in between leaves the same receipt as one right after it.
Insert(id, k) ==
  /\ receipts[id].state = "absent"
  /\ receipts' = [receipts EXCEPT ![id] =
       [state |-> "pending", kind |-> k,
        revision |-> IF k = "create" THEN 0 ELSE agent.revision,
        digest |-> IF k = "memory" THEN memory ELSE 0, expired |-> FALSE]]

\* dispatch counts the open receipts in one read and inserts in a later one.
Count(o) ==
  /\ Go(o, "idle", "counted")
  /\ Cardinality(Open) < MaxPending
  /\ UNCHANGED <<receipts, agent, memory, turn, queue, plan, done, seen>>

Dispatch(o, id, k) ==
  /\ Go(o, "counted", "idle")
  /\ k # "memory"
  /\ Insert(id, k)
  /\ UNCHANGED <<agent, memory, turn, queue, plan, done, seen>>

\* The tools of an agent's own turn and its memory view do not count.
Request(id, k) ==
  /\ k \in {"memory", "remote", "single", "direct"}
  /\ Insert(id, k)
  /\ UNCHANGED <<agent, memory, turn, queue, pc, plan, done, seen>>

Rejectable(id) == receipts[id].state = "pending"

\* Mutated form: a state no other statement knows.
RejectedTypo(id) == [receipts[id] EXCEPT !.state = "denied"]

Rejected(id) == [receipts[id] EXCEPT !.state = "rejected"]

Reject(id) ==
  /\ Rejectable(id)
  /\ receipts' = [receipts EXCEPT ![id] = Rejected(id)]
  /\ UNCHANGED <<agent, memory, turn, queue, pc, plan, done, seen>>

\* Five minutes pass.
Expire(id) ==
  /\ id \in Open
  /\ receipts' = [receipts EXCEPT ![id].expired = TRUE]
  /\ UNCHANGED <<agent, memory, turn, queue, pc, plan, done, seen>>

-----------------------------------------------------------------------------
(* approve(): preview, consume, _apply, finish_approval.                   *)

\* Mutated form: consume forgets that the receipt was used.
UsableAgain(id) == receipts[id].state \in {"pending", "executing"} /\ ~receipts[id].expired

Usable(id) == receipts[id].state = "pending" /\ ~receipts[id].expired

\* consume(preview=True) and the checks before the receipt is spent; when
\* one fails approve raises and nothing has changed.
Preview(o, id) ==
  /\ Go(o, "idle", "previewed")
  /\ Usable(id)
  /\ receipts[id].kind = "memory" => receipts[id].digest = memory
  /\ receipts[id].kind = "remote" => receipts[id].revision = agent.revision
  /\ plan' = [plan EXCEPT ![o] = id]
  /\ UNCHANGED <<receipts, agent, memory, turn, queue, done, seen>>

Consume(o) ==
  /\ Go(o, "previewed", "consumed")
  /\ Usable(plan[o])
  /\ receipts' = [receipts EXCEPT ![plan[o]].state = "executing"]
  /\ UNCHANGED <<agent, memory, turn, queue, plan, done, seen>>

Kind(o) == receipts[plan[o]].kind

\* Mutated form: only the state of the agent is looked at.
CurrentWhenActive(o) == agent.active

Current(o) == agent.revision = receipts[plan[o]].revision

\* One part of the plan takes effect.
Perform(o) ==
  LET id == plan[o] IN
  /\ done' = [done EXCEPT ![id] = @ + 1]
  /\ seen' = [seen EXCEPT ![id] =
       IF Kind(o) \in Locked THEN [revision |-> agent.revision, memory |-> memory] ELSE @]

\* The revision check of work, supervise, cloud_* and schedule_create.
Check(o) ==
  /\ Go(o, "consumed", "checked")
  /\ Kind(o) \in {"work", "remote", "single"}
  /\ Current(o)
  /\ UNCHANGED <<receipts, agent, memory, turn, queue, plan, done, seen>>

\* Mutated form: configure writes whatever revision it was approved for.
SwapsBlindly(o) == ~turn

Swaps(o) == ~turn /\ Current(o)

\* store.configure: its update compares the revision, under the turn lock.
ApplyConfigure(o) ==
  /\ Go(o, "consumed", "complete")
  /\ Kind(o) = "configure"
  /\ Swaps(o)
  /\ \E active \in BOOLEAN :
       agent' = [revision |-> agent.revision + 1, active |-> active]
  /\ Perform(o)
  /\ UNCHANGED <<receipts, memory, turn, queue, plan>>

\* The turn lock is held from the revision check to the change; the digest
\* was compared before the receipt was spent.
ApplyMemory(o) ==
  /\ Go(o, "consumed", "complete")
  /\ Kind(o) = "memory"
  /\ ~turn
  /\ Current(o)
  /\ memory' = memory + 1
  /\ Perform(o)
  /\ UNCHANGED <<receipts, agent, turn, queue, plan>>

\* submit reads the definition again and records the revision it finds.
SubmitWork(o) ==
  /\ Go(o, "checked", "half")
  /\ Kind(o) = "work"
  /\ agent.active
  /\ queue' = [queue EXCEPT ![plan[o]] = "queued"]
  /\ Perform(o)
  /\ UNCHANGED <<receipts, agent, memory, turn, plan>>

LaunchWork(o) ==
  /\ Go(o, "half", "complete")
  /\ Kind(o) = "work"
  /\ queue[plan[o]] = "queued"
  /\ agent.active
  /\ Perform(o)
  /\ UNCHANGED <<receipts, agent, memory, turn, queue, plan>>

\* The row of a new agent, the POST to AtSys; then the rest of the plan.
\* A reply lost after the POST arrived leaves the first part done alone.
FirstPart(o) ==
  /\ \/ Go(o, "consumed", "half") /\ Kind(o) = "create"
     \/ Go(o, "checked", "half") /\ Kind(o) = "remote"
  /\ Perform(o)
  /\ UNCHANGED <<receipts, agent, memory, turn, queue, plan>>

SecondPart(o) ==
  /\ Go(o, "half", "complete")
  /\ Kind(o) \in {"create", "remote"}
  /\ Perform(o)
  /\ UNCHANGED <<receipts, agent, memory, turn, queue, plan>>

OnlyPart(o) ==
  /\ \/ Go(o, "checked", "complete") /\ Kind(o) = "single"
     \/ Go(o, "consumed", "complete") /\ Kind(o) = "direct"
  /\ Perform(o)
  /\ UNCHANGED <<receipts, agent, memory, turn, queue, plan>>

Finishable(o) == pc[o] = "complete"

\* finish_approval updates WHERE state='executing'.
Finish(o) ==
  /\ Finishable(o)
  /\ pc' = [pc EXCEPT ![o] = "idle"]
  /\ receipts' = [receipts EXCEPT ![plan[o]].state =
                    IF @ = "executing" THEN "applied" ELSE @]
  /\ plan' = [plan EXCEPT ![o] = Nothing]
  /\ UNCHANGED <<agent, memory, turn, queue, done, seen>>

\* Any call may raise (a check, a busy lock, a remote error, a lost reply)
\* and the process may die: whatever was written stays.
Abandon(o) ==
  /\ pc[o] # "idle"
  /\ pc' = [pc EXCEPT ![o] = "idle"]
  /\ plan' = [plan EXCEPT ![o] = Nothing]
  /\ UNCHANGED <<receipts, agent, memory, turn, queue, done, seen>>

-----------------------------------------------------------------------------
(* The rest of the platform.                                               *)

BeginTurn ==
  /\ ~turn
  /\ turn' = TRUE
  /\ UNCHANGED <<receipts, agent, memory, queue, pc, plan, done, seen>>

EndTurn ==
  /\ turn
  /\ turn' = FALSE
  /\ UNCHANGED <<receipts, agent, memory, queue, pc, plan, done, seen>>

\* management_cli: configure and memory correct/forget without a receipt.
ConfigureByHand ==
  /\ ~turn
  /\ agent.revision < MaxRevision
  /\ \E active \in BOOLEAN :
       agent' = [revision |-> agent.revision + 1, active |-> active]
  /\ UNCHANGED <<receipts, memory, turn, queue, pc, plan, done, seen>>

ChangeMemoryByHand ==
  /\ ~turn
  /\ memory < MaxMemory
  /\ memory' = memory + 1
  /\ UNCHANGED <<receipts, agent, turn, queue, pc, plan, done, seen>>

\* The runner launches the queued job before launch() looks at it, or
\* somebody cancels it.
TakeJob(id) ==
  /\ queue[id] = "queued"
  /\ queue' = [queue EXCEPT ![id] = "taken"]
  /\ UNCHANGED <<receipts, agent, memory, turn, pc, plan, done, seen>>

-----------------------------------------------------------------------------
ApplyStep(o) ==
  \/ Check(o) \/ ApplyConfigure(o) \/ ApplyMemory(o) \/ SubmitWork(o)
  \/ LaunchWork(o) \/ FirstPart(o) \/ SecondPart(o) \/ OnlyPart(o)

OperatorStep(o) ==
  \/ \E id \in Approvals : Preview(o, id) \/ (\E k \in Kinds : Dispatch(o, id, k))
  \/ Count(o) \/ Consume(o) \/ ApplyStep(o) \/ Finish(o) \/ Abandon(o)

Next ==
  \/ \E o \in Operators : OperatorStep(o)
  \/ \E id \in Approvals :
       Reject(id) \/ Expire(id) \/ TakeJob(id) \/ (\E k \in Kinds : Request(id, k))
  \/ BeginTurn \/ EndTurn \/ ConfigureByHand \/ ChangeMemoryByHand

Spec == Init /\ [][Next]_vars

-----------------------------------------------------------------------------
(* Properties.                                                             *)

\* Every variable, row and local variable keeps its type.
TypeOK ==
  /\ receipts \in [Approvals -> Receipts]
  /\ agent \in [revision : Nat, active : BOOLEAN]
  /\ memory \in Nat
  /\ turn \in BOOLEAN
  /\ queue \in [Approvals -> {"none", "queued", "taken"}]
  /\ pc \in [Operators -> PCs]
  /\ plan \in [Operators -> Approvals \union {Nothing}]
  /\ done \in [Approvals -> Nat]
  /\ seen \in [Approvals -> [revision : Nat, memory : Nat]]

\* An approved plan takes effect at most once, however many people approve
\* it at the same time, retry after an error or come back after a crash
\* (jobs.py consume, control.py approve).
PerformedAtMostOnce == \A id \in Approvals : done[id] <= Parts(id)

\* A plan that was rejected, or never approved, has no effect, not even
\* when the rejection arrives while an approval is under way (jobs.py
\* reject and consume).
OnlySpentReceiptsAct ==
  \A id \in Approvals : done[id] > 0 => receipts[id].state \in {"executing", "applied"}

\* "applied" means the whole plan: what failed half-way, lost its reply or
\* crashed stays "executing" (control.py approve, jobs.py finish_approval).
AppliedIsComplete ==
  \A id \in Approvals : receipts[id].state = "applied" => done[id] = Parts(id)

\* A configuration or memory change lands on the very definition revision
\* its proposer saw (store.py configure, control.py _apply).
LockedPlansMeetTheirRevision ==
  \A id \in Approvals :
    receipts[id].kind \in Locked /\ done[id] > 0 =>
      seen[id].revision = receipts[id].revision

\* Of the configurations proposed for one revision of the agent, one at most
\* is ever applied, whoever approves the others, and when (store.py configure).
OneChangePerRevision ==
  \A a, b \in Approvals :
    /\ receipts[a].kind = "configure" /\ done[a] > 0
    /\ receipts[b].kind = "configure" /\ done[b] > 0
    /\ receipts[a].revision = receipts[b].revision
    => a = b

-----------------------------------------------------------------------------
(* The approvals table as its users see it.                                *)

Phase(id) ==
  IF receipts[id].state = "pending" /\ receipts[id].expired THEN "lapsed" ELSE receipts[id].state

Ledger == INSTANCE ReceiptLedger WITH
            Plans <- Approvals,
            Two <- {"create", "work", "remote"},
            phase <- [id \in Approvals |-> Phase(id)],
            kind <- [id \in Approvals |-> receipts[id].kind],
            basis <- [id \in Approvals |-> receipts[id].revision],
            revision <- agent.revision

\* Whatever operators, crashes, rejections and changes by hand come between
\* the steps of an approval, the table behaves as a ledger in which a receipt
\* is spent at one instant and acts only afterwards (control.py approve).
ImplementsReceipts == Ledger!Ledger

-----------------------------------------------------------------------------
(* The inductive invariant behind the safety properties.                   *)

Applying == {"consumed", "checked", "half", "complete"}

\* A spent receipt is in the hands of at most one operator.
OneHolder ==
  \A o, p \in Operators :
    /\ pc[o] \in Applying
    /\ pc[p] \in Applying
    /\ plan[o] = plan[p]
    => o = p

\* What an operator has done so far follows from where it is.
HolderProgress ==
  \A o \in Operators :
    /\ pc[o] \in Applying \union {"previewed"} => plan[o] \in Approvals
    /\ pc[o] = "previewed" => receipts[plan[o]].state # "absent"
    /\ pc[o] \in Applying => receipts[plan[o]].state = "executing"
    /\ pc[o] \in {"consumed", "checked"} => done[plan[o]] = 0
    /\ pc[o] = "half" => done[plan[o]] = 1 /\ Parts(plan[o]) = 2
    /\ pc[o] = "complete" => done[plan[o]] = Parts(plan[o])

\* A configuration that was applied has left its revision behind.
RevisionMovedOn ==
  \A id \in Approvals :
    receipts[id].kind = "configure" /\ done[id] > 0 => agent.revision > receipts[id].revision

IInv ==
  /\ TypeOK
  /\ PerformedAtMostOnce
  /\ OnlySpentReceiptsAct
  /\ AppliedIsComplete
  /\ LockedPlansMeetTheirRevision
  /\ OneChangePerRevision
  /\ RevisionMovedOn
  /\ OneHolder
  /\ HolderProgress

-----------------------------------------------------------------------------
(* What the documentation says and the code does not always do.            *)

\* docs/agent-platform.md:72, "Revisions and memory digests reject stale
\* approvals": a memory change acts on the record its proposer saw.
MemoryPlansMeetTheirRecord ==
  \A id \in Approvals :
    receipts[id].kind = "memory" /\ done[id] > 0 => seen[id].memory = receipts[id].digest

\* The window in which it fails: the record changes while another operator is
\* between the comparison of the digest and the turn lock.
KeepsRecord ==
  memory' # memory =>
    \A o \in Operators :
      pc'[o] \in {"previewed", "consumed"} => receipts[plan[o]].kind # "memory"

SpecKeepingRecord == Init /\ [][Next /\ KeepsRecord]_vars
=============================================================================
