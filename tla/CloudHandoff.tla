---------------------------- MODULE CloudHandoff ----------------------------
(***************************************************************************)
(* One agent moves between local stores and cloud objects, one owner at a  *)
(* time: a paused source is fenced, packed and uploaded once (platform/    *)
(* deployment.py stage_cloud_state, pack_state), executions of the cloud   *)
(* job work on the object under an exclusive lease and a bounded count     *)
(* (platform/cloud_worker.py), and a restore claims the lease for good     *)
(* before it unpacks into an empty root (restore_cloud_state).             *)
(*                                                                         *)
(* The bucket is external: a create-only or generation-matched write is    *)
(* atomic, and its reply may be lost, which the writer sees as a failure.  *)
(* Every process may die between any two actions.                          *)
(***************************************************************************)
EXTENDS Integers, FiniteSets

CONSTANTS
  Roots,        \* local stores, empty but for Home
  Home,         \* the store that owns the agent at first
  Uris,         \* cloud objects, one per reviewed plan
  Executions,   \* executions of the cloud job, each started at most once
  Nobody,       \* no lease, no uri
  Allowance,    \* ATBOTS_MAX_EXECUTIONS of every plan
  MaxRevision   \* bound: revision up to which people configure

ASSUME HomeAssumption == Home \in Roots

ASSUME NobodyAssumption == Nobody \notin Roots \union Uris \union Executions

ASSUME OwnersAssumption ==
  /\ Roots \intersect Executions = {}
  /\ Roots \intersect Uris = {}

ASSUME BoundsAssumption ==
  /\ Allowance \in 1..100
  /\ MaxRevision \in Nat \ {0}

VARIABLES
  local,    \* per root: the agent's row, its handoffs row, its one job
  submit,   \* per root: the revision submit() saw active, 0 when not inside
  mover,    \* per root: where its stage or restore command is
  target,   \* per root: the object that command moves to or from
  packed,   \* per root: the payload the command packed
  object,   \* per uri: the object, generation 0 while there is none
  lease,    \* per uri: the owner named by the .lease object
  exec,     \* per execution: its uri, step, and what it has read
  removed,  \* somebody deleted the lease of an execution
  worked,   \* history: <<uri, generation, execution>> whose effects began
  ran       \* history: the places where the local job was executed

vars == <<local, submit, mover, target, packed, object, lease, exec, removed,
          worked, ran>>

JobStates == {"none", "queued", "running", "done"}
Jobs == [status : JobStates, revision : Nat]
NoJob == [status |-> "none", revision |-> 0]

Locals == [exists : BOOLEAN, revision : Nat, active : BOOLEAN,
           handoff : {"none", "staging", "staged"}, job : Jobs]
Payloads == [revision : Nat, job : Jobs]
NoPayload == [revision |-> 0, job |-> NoJob]

Movers == {"idle", "fenced", "checked", "packed", "uploaded", "claimed", "unpacked"}
ExecSteps == {"idle", "leased", "read", "working", "worked", "owned",
              "checkpointed", "over"}

\* An execution before its start or after its end.
Outside(step) ==
  [uri |-> Nobody, step |-> step, generation |-> 0, count |-> 0, state |-> NoPayload]

Init ==
  /\ local = [r \in Roots |->
                [exists |-> r = Home, revision |-> IF r = Home THEN 1 ELSE 0,
                 active |-> r = Home, handoff |-> "none", job |-> NoJob]]
  /\ submit = [r \in Roots |-> 0]
  /\ mover = [r \in Roots |-> "idle"]
  /\ target = [r \in Roots |-> Nobody]
  /\ packed = [r \in Roots |-> NoPayload]
  /\ object = [u \in Uris |-> [generation |-> 0, count |-> 0, state |-> NoPayload]]
  /\ lease = [u \in Uris |-> Nobody]
  /\ exec = [e \in Executions |-> Outside("idle")]
  /\ removed = FALSE
  /\ worked = {}
  /\ ran = {}

-----------------------------------------------------------------------------
(* The local store.                                                        *)

remote == <<object, lease, exec, removed, worked>>
moving == <<mover, target, packed>>

Put(r, row) == local' = [local EXCEPT ![r] = row]

\* configure, with its look at the handoffs table; the state or another field.
Configure(r) ==
  /\ local[r].exists
  /\ local[r].handoff = "none"
  /\ local[r].revision < MaxRevision
  /\ \E active \in BOOLEAN :
       Put(r, [local[r] EXCEPT !.active = active, !.revision = @ + 1])
  /\ UNCHANGED <<submit, moving, remote, ran>>

\* submit reads the definition before its transaction.
SubmitReads(r) ==
  /\ local[r].active
  /\ local[r].job.status = "none"
  /\ submit[r] = 0
  /\ submit' = [submit EXCEPT ![r] = local[r].revision]
  /\ UNCHANGED <<local, moving, remote, ran>>

SubmitInserts(r) ==
  /\ submit[r] # 0
  /\ Put(r, [local[r] EXCEPT !.job = [status |-> "queued", revision |-> submit[r]]])
  /\ submit' = [submit EXCEPT ![r] = 0]
  /\ UNCHANGED <<moving, remote, ran>>

\* A worker claims the job and runs it, for the definition it was queued with
\* only (the window inside that comparison is in Jobs).
Claim(r) ==
  /\ local[r].active
  /\ local[r].job.status = "queued"
  /\ Put(r, [local[r] EXCEPT !.job.status = "running"])
  /\ UNCHANGED <<submit, moving, remote, ran>>

\* Mutated form: a worker that does not compare the revisions.
AnyDefinition(state) == TRUE

SameDefinition(state) == state.job.revision = state.revision

Execute(r) ==
  /\ local[r].job.status = "running"
  /\ ran' = IF local[r].active /\ SameDefinition(local[r]) THEN ran \union {r} ELSE ran
  /\ Put(r, [local[r] EXCEPT !.job.status = "done"])
  /\ UNCHANGED <<submit, moving, remote>>

-----------------------------------------------------------------------------
(* stage_cloud_state.                                                      *)

Moves(r, from, to) ==
  /\ mover[r] = from
  /\ mover' = [mover EXCEPT ![r] = to]

\* The command ends.
Forgets(r) ==
  /\ target' = [target EXCEPT ![r] = Nobody]
  /\ packed' = [packed EXCEPT ![r] = NoPayload]

\* Under the turn lock and the write lock; the key of handoffs is the agent.
Stageable(row) == row.exists /\ row.handoff = "none" /\ ~row.active

Fence(r, u) ==
  /\ Moves(r, "idle", "fenced")
  /\ Stageable(local[r])
  /\ Put(r, [local[r] EXCEPT !.handoff = "staging"])
  /\ target' = [target EXCEPT ![r] = u]
  /\ UNCHANGED <<submit, packed, remote, ran>>

\* pack_state looks at every job before it takes the turn lock ...
CheckJobs(r) ==
  /\ Moves(r, "fenced", "checked")
  /\ local[r].job.status \notin {"queued", "running"}
  /\ UNCHANGED <<local, submit, target, packed, remote, ran>>

\* ... and only at running ones under it; the clone alone becomes active.
Pack(r) ==
  /\ Moves(r, "checked", "packed")
  /\ local[r].job.status # "running"
  /\ packed' = [packed EXCEPT ![r] =
       [revision |-> local[r].revision + 1, job |-> local[r].job]]
  /\ UNCHANGED <<local, submit, target, remote, ran>>

\* if_generation_match=0.
Upload(r) ==
  LET u == target[r] IN
  /\ Moves(r, "packed", "uploaded")
  /\ object[u].generation = 0
  /\ object' = [object EXCEPT ![u] = [generation |-> 1, count |-> 0, state |-> packed[r]]]
  /\ UNCHANGED <<local, submit, target, packed, lease, exec, removed, worked, ran>>

\* Mutated form: a state outside the vocabulary of the table.
StagedTypo(row) == [row EXCEPT !.handoff = "stage"]

StagedRow(row) == [row EXCEPT !.handoff = "staged"]

Staged(r) ==
  /\ Moves(r, "uploaded", "idle")
  /\ Put(r, StagedRow(local[r]))
  /\ Forgets(r)
  /\ UNCHANGED <<submit, remote, ran>>

-----------------------------------------------------------------------------
(* restore_cloud_state.                                                    *)

\* Mutated form: a restore that takes a lease over.
ClaimableAnyhow(u) == lease[u] \notin Roots

\* Create-only: if_generation_match=0.
Claimable(u) == lease[u] = Nobody

Restore(r, u) ==
  /\ Moves(r, "idle", "claimed")
  /\ ~local[r].exists
  /\ Claimable(u)
  /\ lease' = [lease EXCEPT ![u] = r]
  /\ target' = [target EXCEPT ![r] = u]
  /\ UNCHANGED <<local, submit, packed, object, exec, removed, worked, ran>>

\* Unpacked, the copy is active until the configure that follows.
Unpack(r) ==
  LET state == object[target[r]].state IN
  /\ Moves(r, "claimed", "unpacked")
  /\ object[target[r]].generation > 0
  /\ Put(r, [exists |-> TRUE, revision |-> state.revision, active |-> TRUE,
             handoff |-> "none", job |-> state.job])
  /\ UNCHANGED <<submit, target, packed, remote, ran>>

\* The revision expected is the one unpacked.
PauseRestored(r) ==
  /\ Moves(r, "unpacked", "idle")
  /\ local[r].handoff = "none"
  /\ local[r].revision = object[target[r]].state.revision
  /\ Put(r, [local[r] EXCEPT !.active = FALSE, !.revision = @ + 1])
  /\ Forgets(r)
  /\ UNCHANGED <<submit, remote, ran>>

\* A refusal, a lost reply or the death of the command.  What it has written
\* stays: the handoffs row, the object, the claimed lease.
GivesUp(r) ==
  /\ mover[r] # "idle"
  /\ mover' = [mover EXCEPT ![r] = "idle"]
  /\ Forgets(r)
  /\ UNCHANGED <<local, submit, remote, ran>>

-----------------------------------------------------------------------------
(* The cloud worker.                                                       *)

here == <<local, submit, moving>>

Steps(e, from, to) ==
  /\ exec[e].step = from
  /\ exec' = [exec EXCEPT ![e].step = to]

Ends(e) == exec' = [exec EXCEPT ![e] = Outside("over")]

Start(e, u) ==
  /\ exec[e].step = "idle"
  /\ Claimable(u)
  /\ lease' = [lease EXCEPT ![u] = e]
  /\ exec' = [exec EXCEPT ![e].step = "leased", ![e].uri = u]
  /\ UNCHANGED <<here, object, removed, worked, ran>>

\* reload: the generation and the executions recorded in the metadata.
Read(e) ==
  LET o == object[exec[e].uri] IN
  /\ exec[e].step = "leased"
  /\ o.generation > 0
  /\ exec' = [exec EXCEPT ![e].step = "read", ![e].generation = o.generation,
                          ![e].count = o.count]
  /\ UNCHANGED <<here, object, lease, removed, worked, ran>>

Exhausted(e) ==
  /\ Steps(e, "read", "checkpointed")
  /\ exec[e].count >= Allowance
  /\ UNCHANGED <<here, object, lease, removed, worked, ran>>

Allowed(count) == count < Allowance

\* The download is for the generation read.
Download(e) ==
  LET o == object[exec[e].uri] IN
  /\ exec[e].step = "read"
  /\ Allowed(exec[e].count)
  /\ o.generation = exec[e].generation
  /\ exec' = [exec EXCEPT ![e].step = "working", ![e].state = o.state]
  /\ UNCHANGED <<here, object, lease, removed, worked, ran>>

\* tick and the queued jobs: the effects of this execution.  A job that came
\* with the source is claimed like any other; an error of another may keep
\* the worker from reaching it.
Work(e) ==
  LET s == exec[e].state IN
  /\ exec[e].step = "working"
  /\ worked' = worked \union {<<exec[e].uri, exec[e].generation, e>>}
  /\ \E reached \in BOOLEAN :
       /\ reached => s.job.status = "queued"
       /\ exec' = [exec EXCEPT ![e].step = "worked",
                     ![e].state.job.status = IF reached THEN "done" ELSE @]
       /\ ran' = IF reached /\ SameDefinition(s)
                 THEN ran \union {exec[e].uri} ELSE ran
  /\ UNCHANGED <<here, object, lease, removed>>

\* The owner named by the lease, then the upload for the generation read.
CheckOwner(e) ==
  /\ Steps(e, "worked", "owned")
  /\ lease[exec[e].uri] = e
  /\ UNCHANGED <<here, object, lease, removed, worked, ran>>

\* Mutated form: an upload without if_generation_match.
UploadableAnyhow(e) == object[exec[e].uri].generation > 0

Uploadable(e) == object[exec[e].uri].generation = exec[e].generation

\* When the reply is lost the execution ends as if the upload had failed.
Checkpoint(e) ==
  LET u == exec[e].uri IN
  /\ \/ Steps(e, "owned", "checkpointed")
     \/ exec[e].step = "owned" /\ Ends(e)
  /\ Uploadable(e)
  /\ object' = [object EXCEPT ![u] =
       [generation |-> @.generation + 1, count |-> exec[e].count + 1,
        state |-> exec[e].state]]
  /\ UNCHANGED <<here, lease, removed, worked, ran>>

\* if checkpointed: lease.delete(if_generation_match=lease_generation).
Release(e) ==
  LET u == exec[e].uri IN
  /\ exec[e].step = "checkpointed"
  /\ Ends(e)
  /\ lease' = [lease EXCEPT ![u] = IF @ = e THEN Nobody ELSE @]
  /\ UNCHANGED <<here, object, removed, worked, ran>>

\* Mutated form: the lease is deleted however the execution ends.
LeaseIsDeleted(u, e) == IF lease[u] = e THEN Nobody ELSE lease[u]

LeaseAfterFailure(u, e) == lease[u]

\* An error, a lease that names another owner, a refused write or the death of
\* the execution: not checkpointed.
Fails(e) ==
  LET u == exec[e].uri IN
  /\ exec[e].step \notin {"idle", "checkpointed", "over"}
  /\ Ends(e)
  /\ lease' = [lease EXCEPT ![u] = LeaseAfterFailure(u, e)]
  /\ UNCHANGED <<here, object, removed, worked, ran>>

\* A person deletes the lease of an execution, dead or only believed dead.
RemoveLease(u) ==
  /\ ~removed
  /\ lease[u] \in Executions
  /\ lease' = [lease EXCEPT ![u] = Nobody]
  /\ removed' = TRUE
  /\ UNCHANGED <<here, object, exec, worked, ran>>

-----------------------------------------------------------------------------

Next ==
  \/ \E r \in Roots :
       \/ Configure(r) \/ SubmitReads(r) \/ SubmitInserts(r) \/ Claim(r) \/ Execute(r)
       \/ CheckJobs(r) \/ Pack(r) \/ Upload(r) \/ Staged(r)
       \/ Unpack(r) \/ PauseRestored(r) \/ GivesUp(r)
       \/ \E u \in Uris : Fence(r, u) \/ Restore(r, u)
  \/ \E e \in Executions :
       \/ Read(e) \/ Exhausted(e) \/ Download(e) \/ Work(e) \/ CheckOwner(e)
       \/ Checkpoint(e) \/ Release(e) \/ Fails(e)
       \/ \E u \in Uris : Start(e, u)
  \/ \E u \in Uris : RemoveLease(u)

Spec == Init /\ [][Next]_vars

-----------------------------------------------------------------------------
(* Properties.                                                             *)

\* Every variable keeps its type.
TypeOK ==
  /\ local \in [Roots -> Locals]
  /\ submit \in [Roots -> Nat]
  /\ mover \in [Roots -> Movers]
  /\ target \in [Roots -> Uris \union {Nobody}]
  /\ packed \in [Roots -> Payloads]
  /\ object \in [Uris -> [generation : Nat, count : Nat, state : Payloads]]
  /\ lease \in [Uris -> Executions \union Roots \union {Nobody}]
  /\ exec \in [Executions -> [uri : Uris \union {Nobody}, step : ExecSteps,
                              generation : Nat, count : Nat, state : Payloads]]
  /\ removed \in BOOLEAN
  /\ worked \subseteq Uris \X Nat \X Executions
  /\ ran \subseteq Roots \union Uris

\* Where work may start or go on: an active local row, an object that
\* executions can still lease, an execution that has not done its work.
Authorities ==
  {r \in Roots : local[r].active}
    \union {u \in Uris : object[u].generation > 0 /\ lease[u] \notin Roots}
    \union {exec[e].uri : e \in {f \in Executions : exec[f].step = "working"}}

\* The agent has one owner at a time, through any number of handoffs, failed
\* stagings and crashed restores, as long as nobody deletes a lease
\* ("activates only the encrypted destination", docs/agent-platform.md).
SingleAuthority == ~removed => Cardinality(Authorities) <= 1

\* No state of the object is worked on twice: a crashed or uncertain
\* execution keeps its lease, so its effects are not replayed from the state
\* before them (the finally of cloud_worker.main); and the executions that may
\* have had effects stay within the allowance of the plan ("the persisted
\* counter bounds remote invocations").
EffectsAreCounted ==
  ~removed =>
    /\ \A w1, w2 \in worked : w1[1] = w2[1] /\ w1[2] = w2[2] => w1[3] = w2[3]
    /\ \A u \in Uris : Cardinality({w \in worked : w[1] = u}) <= Allowance

\* Even when leases are deleted under live executions, no checkpoint is
\* overwritten unseen: the count is the number of checkpoints.
CountsEveryCheckpoint ==
  \A u \in Uris :
    object[u].generation > 0 =>
      /\ object[u].generation = object[u].count + 1
      /\ object[u].count <= Allowance

\* A job queued at the source never runs at the destination, although submit
\* may slip it past the check of unfinished work: the destination has a newer
\* revision, which the worker refuses.
SourceWorkStaysHome == ran \intersect Uris = {}

\* Where the agent lives: a store that has not handed it off, an object that
\* no restore has claimed; and the places it has left.
Owners ==
  {r \in Roots : local[r].exists /\ local[r].handoff = "none"}
    \union {u \in Uris : object[u].generation > 0 /\ lease[u] \notin Roots}

Left == {r \in Roots : local[r].handoff # "none"} \union {u \in Uris : lease[u] \in Roots}

Custodian == INSTANCE Custody WITH
  Stores <- Roots,
  Objects <- Uris,
  owners <- Owners,
  left <- Left,
  generation <- [u \in Uris |-> object[u].generation],
  effects <- worked,
  intact <- ~removed

\* Every run of stagings, restores and executions, with their crashes and lost
\* replies, passes the agent from one owner to the next and each of its states
\* from one execution to the next (deployment.py, cloud_worker.py main).
ImplementsCustody == Custodian!Spec
=============================================================================
