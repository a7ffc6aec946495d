--------------------------- MODULE CloudHandoffProofs ---------------------------
(***************************************************************************)
(* What the handoff of an agent keeps, for any number of stores, objects   *)
(* and executions and any allowance: its types; one owner at a time; every *)
(* checkpoint counted; no state of an object worked on twice; and work     *)
(* queued at the source refused at the destination.                        *)
(***************************************************************************)
EXTENDS CloudHandoff, FiniteSetTheorems, TLAPS

Records == [generation : Nat, count : Nat, state : Payloads]
Runs == [uri : Uris \union {Nobody}, step : ExecSteps, generation : Nat, count : Nat,
         state : Payloads]

Ready == {"idle", "over"}
Holds == {"read", "working", "worked", "owned"}

\* A command and an execution have an object.
Aimed ==
  /\ \A r \in Roots : mover[r] # "idle" => target[r] \in Uris
  /\ \A e \in Executions : exec[e].step \notin Ready => exec[e].uri \in Uris

\* An object counts its checkpoints, an execution reads the count with the
\* generation, and what it read is never ahead of the object.
Counts ==
  /\ CountsEveryCheckpoint
  /\ \A e \in Executions :
       exec[e].step \in Holds =>
         /\ exec[e].generation > 0
         /\ exec[e].generation = exec[e].count + 1
         /\ exec[e].generation <= object[exec[e].uri].generation
         /\ exec[e].step # "read" => exec[e].count < Allowance

\* Jobs of a store are not newer than its definition; in what leaves it they
\* are older.
Older(payload) == payload.job.revision < payload.revision

Sourced ==
  /\ \A r \in Roots :
       /\ local[r].job.revision <= local[r].revision
       /\ submit[r] <= local[r].revision
       /\ submit[r] # 0 => local[r].exists
       /\ mover[r] = "packed" => Older(packed[r])
  /\ \A u \in Uris : object[u].generation > 0 => Older(object[u].state)
  /\ \A e \in Executions : exec[e].step \in {"working", "worked", "owned"} => Older(exec[e].state)
  /\ SourceWorkStaysHome

\* What a row says of the command at work on it.
Rows ==
  \A r \in Roots :
    /\ local[r].active => local[r].exists /\ local[r].handoff = "none"
    /\ mover[r] \in {"fenced", "checked", "packed", "uploaded"} => local[r].handoff = "staging"
    /\ mover[r] = "claimed" => ~local[r].exists /\ lease[target[r]] = r
    /\ mover[r] = "unpacked" => local[r].exists
    /\ ~local[r].exists => local[r].handoff = "none"

\* Who has the agent, or may still get it without a lease: a store that is not
\* handed off, a staging that may yet upload, a restore of what it claimed, an
\* object that executions can lease.
Owns(r) ==
  \/ local[r].exists /\ local[r].handoff = "none"
  \/ mover[r] \in {"fenced", "checked", "packed"}
  \/ mover[r] = "claimed" /\ object[target[r]].generation > 0

Live(u) == object[u].generation > 0 /\ lease[u] \notin Roots

Sole ==
  /\ \A r, q \in Roots : Owns(r) /\ Owns(q) => r = q
  /\ \A u, v \in Uris : Live(u) /\ Live(v) => u = v
  /\ \A r \in Roots, u \in Uris : ~(Owns(r) /\ Live(u))

\* An execution keeps its lease to its end, and nobody writes meanwhile.
Leased ==
  /\ \A e \in Executions :
       /\ exec[e].step \notin Ready => lease[exec[e].uri] = e
       /\ exec[e].step \in Holds => exec[e].generation = object[exec[e].uri].generation
  /\ \A u \in Uris, e \in Executions :
       lease[u] = e => exec[e].step # "idle" /\ (exec[e].step = "over" \/ exec[e].uri = u)

\* Work on the present state of an object is of the execution that holds, or
\* has died with, its lease.
Present(w) ==
  object[w[1]].generation = w[2] =>
    /\ lease[w[1]] = w[3]
    /\ exec[w[3]].step \in {"worked", "owned", "over"}

Once ==
  /\ \A w \in worked : w[2] \in 1..Allowance /\ w[2] <= object[w[1]].generation /\ Present(w)
  /\ \A w, x \in worked : w[1] = x[1] /\ w[2] = x[2] => w[3] = x[3]

\* An execution that has done its work, and may checkpoint it, has said so.
Recorded ==
  \A e \in Executions :
    exec[e].step \in {"worked", "owned"} => <<exec[e].uri, exec[e].generation, e>> \in worked

IInv == TypeOK /\ Recorded /\ Aimed /\ Counts /\ Sourced /\ Rows /\ Sole /\ (~removed => Leased /\ Once)

-----------------------------------------------------------------------------
(* Typing.                                                                 *)

\* The empty payload and an execution outside its run have their types.
LEMMA Empty ==
  /\ NoPayload \in Payloads /\ NoJob \in Jobs
  /\ Outside("idle") \in Runs /\ Outside("over") \in Runs
<1>1. NoJob \in Jobs
  BY DEF NoJob, Jobs, JobStates
<1>2. NoPayload \in Payloads
  BY <1>1 DEF NoPayload, Payloads
<1> QED BY <1>1, <1>2 DEF Outside, Runs, ExecSteps

\* The updates of rows and runs keep their types.
LEMMA Updates ==
  /\ \A row \in Locals, active \in BOOLEAN, revision \in Nat :
       [row EXCEPT !.active = active, !.revision = revision] \in Locals
  /\ \A row \in Locals, status \in JobStates : [row EXCEPT !.job.status = status] \in Locals
  /\ \A run \in Runs, step \in ExecSteps, generation \in Nat, count \in Nat :
       [run EXCEPT !.step = step, !.generation = generation, !.count = count] \in Runs
  /\ \A run \in Runs, step \in ExecSteps, state \in Payloads :
       [run EXCEPT !.step = step, !.state = state] \in Runs
  /\ \A run \in Runs, step \in ExecSteps, u \in Uris :
       [run EXCEPT !.step = step, !.uri = u] \in Runs
  /\ \A run \in Runs, step \in ExecSteps, status \in JobStates :
       [run EXCEPT !.step = step, !.state.job.status = status] \in Runs
<1>1. \A row \in Locals, active \in BOOLEAN, revision \in Nat :
        [row EXCEPT !.active = active, !.revision = revision] \in Locals
  BY DEF Locals
<1>2. ASSUME NEW row \in Locals, NEW status \in JobStates
      PROVE  [row EXCEPT !.job.status = status] \in Locals
  <2>1. [row.job EXCEPT !.status = status] \in Jobs
    BY DEF Locals, Jobs
  <2>2. \A job \in Jobs : [row EXCEPT !.job = job] \in Locals
    BY DEF Locals
  <2>3. [row EXCEPT !.job.status = status] = [row EXCEPT !.job = [row.job EXCEPT !.status = status]]
    OBVIOUS
  <2> QED BY <2>1, <2>2, <2>3
<1>3. \A run \in Runs, step \in ExecSteps, generation \in Nat, count \in Nat :
        [run EXCEPT !.step = step, !.generation = generation, !.count = count] \in Runs
  BY DEF Runs
<1>4. \A run \in Runs, step \in ExecSteps, state \in Payloads :
        [run EXCEPT !.step = step, !.state = state] \in Runs
  BY DEF Runs
<1>5. \A run \in Runs, step \in ExecSteps, u \in Uris :
        [run EXCEPT !.step = step, !.uri = u] \in Runs
  BY DEF Runs
<1>6. ASSUME NEW run \in Runs, NEW step \in ExecSteps, NEW status \in JobStates
      PROVE  [run EXCEPT !.step = step, !.state.job.status = status] \in Runs
  <2>1. run.state \in Payloads /\ run.state.job \in Jobs
    BY DEF Runs, Payloads
  <2>2. [run.state.job EXCEPT !.status = status] \in Jobs
    BY <2>1 DEF Jobs
  <2>3. \A job \in Jobs : [run.state EXCEPT !.job = job] \in Payloads
    BY <2>1 DEF Payloads
  <2>4. [run EXCEPT !.step = step, !.state.job.status = status]
          = [run EXCEPT !.step = step, !.state =
               [run.state EXCEPT !.job = [run.state.job EXCEPT !.status = status]]]
    OBVIOUS
  <2> QED BY <1>4, <2>2, <2>3, <2>4
<1> QED BY <1>1, <1>2, <1>3, <1>4, <1>5, <1>6

\* Every step keeps the types.
LEMMA Typed ==
  ASSUME IInv, Next
  PROVE  TypeOK'
<1> USE HomeAssumption, NobodyAssumption, BoundsAssumption DEF remote, moving, here
<1>0. /\ TypeOK
      /\ local \in [Roots -> Locals] /\ submit \in [Roots -> Nat] /\ mover \in [Roots -> Movers]
      /\ target \in [Roots -> Uris \union {Nobody}] /\ packed \in [Roots -> Payloads]
      /\ object \in [Uris -> Records] /\ exec \in [Executions -> Runs]
      /\ lease \in [Uris -> Executions \union Roots \union {Nobody}]
      /\ Aimed
  BY DEF IInv, TypeOK, Records, Runs
<1>1. ASSUME NEW r \in Roots, Configure(r)
      PROVE  TypeOK'
  <2>1. PICK active \in BOOLEAN :
          local' = [local EXCEPT ![r] =
                     [local[r] EXCEPT !.active = active, !.revision = local[r].revision + 1]]
    BY <1>1 DEF Configure, Put
  <2>2. local[r].revision + 1 \in Nat
    BY <1>0 DEF Locals
  <2> QED BY <1>0, <1>1, <2>1, <2>2, Updates DEF TypeOK, Configure
<1>2. ASSUME NEW r \in Roots, SubmitReads(r)
      PROVE  TypeOK'
  <2>1. local[r].revision \in Nat
    BY <1>0 DEF Locals
  <2> QED BY <1>0, <1>2, <2>1 DEF TypeOK, SubmitReads
<1>3. ASSUME NEW r \in Roots, SubmitInserts(r)
      PROVE  TypeOK'
  <2>1. [status |-> "queued", revision |-> submit[r]] \in Jobs
    BY <1>0 DEF Jobs, JobStates
  <2>2. [local[r] EXCEPT !.job = [status |-> "queued", revision |-> submit[r]]] \in Locals
    BY <1>0, <2>1 DEF Locals
  <2> QED BY <1>0, <1>3, <2>2 DEF TypeOK, SubmitInserts, Put
<1>4. ASSUME NEW r \in Roots, Claim(r)
      PROVE  TypeOK'
  <2>1. "running" \in JobStates
    BY DEF JobStates
  <2>3. local' \in [Roots -> Locals]
    BY <1>0, <1>4, <2>1, Updates DEF Claim, Put
  <2> QED BY <1>0, <1>4, <2>3 DEF TypeOK, Claim
<1>5. ASSUME NEW r \in Roots, Execute(r)
      PROVE  TypeOK'
  <2>1. "done" \in JobStates
    BY DEF JobStates
  <2>3. local' \in [Roots -> Locals]
    BY <1>0, <1>5, <2>1, Updates DEF Execute, Put
  <2> QED BY <1>0, <1>5, <2>3 DEF TypeOK, Execute
<1>6. ASSUME NEW r \in Roots, CheckJobs(r)
      PROVE  TypeOK'
  BY <1>0, <1>6 DEF TypeOK, CheckJobs, Moves, Movers
<1>7. ASSUME NEW r \in Roots, Pack(r)
      PROVE  TypeOK'
  <2>1. [revision |-> local[r].revision + 1, job |-> local[r].job] \in Payloads
    BY <1>0 DEF Locals, Payloads
  <2> QED BY <1>0, <1>7, <2>1 DEF TypeOK, Pack, Moves, Movers
<1>8. ASSUME NEW r \in Roots, Upload(r)
      PROVE  TypeOK'
  <2>1. [generation |-> 1, count |-> 0, state |-> packed[r]] \in Records
    BY <1>0 DEF Records
  <2> QED BY <1>0, <1>8, <2>1 DEF TypeOK, Upload, Moves, Movers, Records
<1>9. ASSUME NEW r \in Roots, Staged(r)
      PROVE  TypeOK'
  <2>1. [local[r] EXCEPT !.handoff = "staged"] \in Locals
    BY <1>0 DEF Locals
  <2> QED BY <1>0, <1>9, <2>1, Empty DEF TypeOK, Staged, StagedRow, Put, Forgets, Moves,
      Movers
<1>10. ASSUME NEW r \in Roots, Unpack(r)
       PROVE  TypeOK'
  <2>1. object[target[r]].state \in Payloads
    BY <1>0, <1>10 DEF Unpack, Moves, Aimed, Records
  <2>2. [exists |-> TRUE, revision |-> object[target[r]].state.revision, active |-> TRUE,
         handoff |-> "none", job |-> object[target[r]].state.job] \in Locals
    BY <2>1 DEF Locals, Payloads
  <2> QED BY <1>0, <1>10, <2>2 DEF TypeOK, Unpack, Put, Moves, Movers
<1>11. ASSUME NEW r \in Roots, PauseRestored(r)
       PROVE  TypeOK'
  <2>1. local[r].revision + 1 \in Nat
    BY <1>0 DEF Locals
  <2> QED BY <1>0, <1>11, <2>1, Empty, Updates DEF TypeOK, PauseRestored, Put, Forgets,
      Moves, Movers
<1>12. ASSUME NEW r \in Roots, GivesUp(r)
       PROVE  TypeOK'
  BY <1>0, <1>12, Empty DEF TypeOK, GivesUp, Forgets, Movers
<1>13. ASSUME NEW r \in Roots, NEW u \in Uris, Fence(r, u)
       PROVE  TypeOK'
  <2>1. [local[r] EXCEPT !.handoff = "staging"] \in Locals
    BY <1>0 DEF Locals
  <2> QED BY <1>0, <1>13, <2>1 DEF TypeOK, Fence, Put, Moves, Movers
<1>14. ASSUME NEW r \in Roots, NEW u \in Uris, Restore(r, u)
       PROVE  TypeOK'
  BY <1>0, <1>14 DEF TypeOK, Restore, Moves, Movers
<1>15. ASSUME NEW e \in Executions, Read(e)
       PROVE  TypeOK'
  <2>1. object[exec[e].uri] \in Records
    BY <1>0, <1>15 DEF Read, Aimed, Ready
  <2>2. [exec[e] EXCEPT !.step = "read", !.generation = object[exec[e].uri].generation,
                       !.count = object[exec[e].uri].count] \in Runs
    BY <1>0, <2>1, Updates DEF Records, ExecSteps
  <2> QED BY <1>0, <1>15, <2>2 DEF TypeOK, Read, Runs, Records
<1>16. ASSUME NEW e \in Executions, Exhausted(e)
       PROVE  TypeOK'
  <2>1. [exec[e] EXCEPT !.step = "checkpointed"] \in Runs
    BY <1>0 DEF Runs, ExecSteps
  <2> QED BY <1>0, <1>16, <2>1 DEF TypeOK, Exhausted, Steps, Runs, Records
<1>17. ASSUME NEW e \in Executions, Download(e)
       PROVE  TypeOK'
  <2>1. object[exec[e].uri].state \in Payloads
    BY <1>0, <1>17 DEF Download, Aimed, Ready, Records
  <2>2. [exec[e] EXCEPT !.step = "working", !.state = object[exec[e].uri].state] \in Runs
    BY <1>0, <2>1, Updates DEF ExecSteps
  <2> QED BY <1>0, <1>17, <2>2 DEF TypeOK, Download, Runs, Records
<1>18. ASSUME NEW e \in Executions, Work(e)
       PROVE  TypeOK'
  <2>1. PICK status \in JobStates, at \in {"worked"} :
          exec' = [exec EXCEPT ![e].step = at, ![e].state.job.status = status]
    <3>1. exec[e].state.job.status \in JobStates /\ "done" \in JobStates
      BY <1>0 DEF Runs, Payloads, Jobs, JobStates
    <3> QED BY <1>18, <3>1 DEF Work
  <2>2. [exec[e] EXCEPT !.step = at, !.state.job.status = status] \in Runs
    BY <1>0, Updates DEF ExecSteps
  <2>3. exec' \in [Executions -> Runs]
    BY <1>0, <2>1, <2>2
  <2>4. exec[e].uri \in Uris /\ exec[e].generation \in Nat
    BY <1>0, <1>18 DEF Work, Aimed, Ready, Runs
  <2>5. worked' \subseteq Uris \X Nat \X Executions /\ ran' \subseteq Roots \union Uris
    BY <1>0, <1>18, <2>4 DEF TypeOK, Work
  <2> QED BY <1>0, <1>18, <2>3, <2>5 DEF TypeOK, Work, Runs, Records
<1>19. ASSUME NEW e \in Executions, CheckOwner(e)
       PROVE  TypeOK'
  <2>1. [exec[e] EXCEPT !.step = "owned"] \in Runs
    BY <1>0 DEF Runs, ExecSteps
  <2> QED BY <1>0, <1>19, <2>1 DEF TypeOK, CheckOwner, Steps, Runs, Records
<1>20. ASSUME NEW e \in Executions, Checkpoint(e)
       PROVE  TypeOK'
  <2>1. exec[e].uri \in Uris
    BY <1>0, <1>20 DEF Checkpoint, Steps, Aimed, Ready
  <2>2. [generation |-> object[exec[e].uri].generation + 1, count |-> exec[e].count + 1,
         state |-> exec[e].state] \in Records
    BY <1>0, <2>1 DEF Records, Runs
  <2>3. object' \in [Uris -> Records]
    BY <1>0, <1>20, <2>2 DEF Checkpoint
  <2>4. [exec[e] EXCEPT !.step = "checkpointed"] \in Runs
    BY <1>0 DEF Runs, ExecSteps
  <2>5. exec' \in [Executions -> Runs]
    BY <1>0, <1>20, <2>4, Empty DEF Checkpoint, Steps, Ends
  <2> QED BY <1>0, <1>20, <2>3, <2>5 DEF TypeOK, Checkpoint, Runs, Records
<1>21. ASSUME NEW e \in Executions, Release(e)
       PROVE  TypeOK'
  <2>1. exec[e].uri \in Uris
    BY <1>0, <1>21 DEF Release, Aimed, Ready
  <2> QED BY <1>0, <1>21, <2>1, Empty DEF TypeOK, Release, Ends, Runs, Records
<1>22. ASSUME NEW e \in Executions, Fails(e)
       PROVE  TypeOK'
  <2>1. exec[e].uri \in Uris
    BY <1>0, <1>22 DEF Fails, Aimed, Ready
  <2> QED BY <1>0, <1>22, <2>1, Empty DEF TypeOK, Fails, LeaseAfterFailure, Ends, Runs,
      Records
<1>23. ASSUME NEW e \in Executions, NEW u \in Uris, Start(e, u)
       PROVE  TypeOK'
  <2>1. [exec[e] EXCEPT !.step = "leased", !.uri = u] \in Runs
    BY <1>0, Updates DEF ExecSteps
  <2> QED BY <1>0, <1>23, <2>1 DEF TypeOK, Start, Runs, Records
<1>24. ASSUME NEW u \in Uris, RemoveLease(u)
       PROVE  TypeOK'
  BY <1>0, <1>24 DEF TypeOK, RemoveLease
<1> QED BY <1>1, <1>2, <1>3, <1>4, <1>5, <1>6, <1>7, <1>8, <1>9, <1>10, <1>11, <1>12,
    <1>13, <1>14, <1>15, <1>16, <1>17, <1>18, <1>19, <1>20, <1>21, <1>22, <1>23, <1>24
    DEF Next

-----------------------------------------------------------------------------
(* What the steps of an execution change, field by field.                  *)

\* A download takes the state of the generation that was read.
LEMMA DownloadTakes ==
  ASSUME IInv, NEW e \in Executions, Download(e)
  PROVE  /\ exec[e].step = "read" /\ exec[e].uri \in Uris /\ exec[e].count < Allowance
         /\ object[exec[e].uri].generation = exec[e].generation
         /\ exec'[e].step = "working" /\ exec'[e].uri = exec[e].uri
         /\ exec'[e].generation = exec[e].generation /\ exec'[e].count = exec[e].count
         /\ exec'[e].state = object[exec[e].uri].state
         /\ \A f \in Executions \ {e} : exec'[f] = exec[f]
         /\ UNCHANGED <<local, submit, mover, target, packed, object, lease, removed, worked, ran>>
  BY DEF IInv, TypeOK, Aimed, Ready, Download, Allowed, here, moving

\* Work records the generation it works on and settles at most one job.
LEMMA WorkRecords ==
  ASSUME IInv, NEW e \in Executions, Work(e)
  PROVE  /\ exec[e].step = "working" /\ exec[e].uri \in Uris
         /\ exec'[e].step = "worked" /\ exec'[e].uri = exec[e].uri
         /\ exec'[e].generation = exec[e].generation /\ exec'[e].count = exec[e].count
         /\ exec'[e].state.revision = exec[e].state.revision
         /\ exec'[e].state.job.revision = exec[e].state.job.revision
         /\ \A f \in Executions \ {e} : exec'[f] = exec[f]
         /\ worked' = worked \union {<<exec[e].uri, exec[e].generation, e>>}
         /\ ran' = ran \/ (ran' = ran \union {exec[e].uri} /\ SameDefinition(exec[e].state))
         /\ UNCHANGED <<local, submit, mover, target, packed, object, lease, removed>>
<1>0. exec \in [Executions -> Runs] /\ exec[e].step = "working" /\ Aimed
  BY DEF IInv, TypeOK, Runs, Work
<1>1. PICK status : exec' = [exec EXCEPT ![e].step = "worked", ![e].state.job.status = status]
  BY DEF Work
<1>2. exec'[e] = [exec[e] EXCEPT !.step = "worked", !.state.job.status = status]
  BY <1>0, <1>1
<1>3. /\ exec'[e].step = "worked" /\ exec'[e].uri = exec[e].uri
      /\ exec'[e].generation = exec[e].generation /\ exec'[e].count = exec[e].count
      /\ exec'[e].state = [exec[e].state EXCEPT !.job.status = status]
  BY <1>0, <1>2 DEF Runs
<1>4. /\ exec'[e].state.revision = exec[e].state.revision
      /\ exec'[e].state.job.revision = exec[e].state.job.revision
  <2>1. exec[e].state \in Payloads /\ exec[e].state.job \in Jobs
    BY <1>0 DEF Runs, Payloads
  <2> QED BY <1>3, <2>1 DEF Payloads, Jobs
<1>5. \A f \in Executions \ {e} : exec'[f] = exec[f]
  BY <1>0, <1>1
<1>6. exec[e].uri \in Uris
  BY <1>0 DEF Aimed, Ready
<1>7. ran' = ran \/ (ran' = ran \union {exec[e].uri} /\ SameDefinition(exec[e].state))
  <2>1. \E reached \in BOOLEAN :
          ran' = IF reached /\ SameDefinition(exec[e].state) THEN ran \union {exec[e].uri} ELSE ran
    BY ZenonT(30) DEF Work
  <2> QED BY <2>1
<1>8. /\ worked' = worked \union {<<exec[e].uri, exec[e].generation, e>>}
      /\ UNCHANGED <<local, submit, mover, target, packed, object, lease, removed>>
  BY DEF Work, here, moving
<1> QED BY <1>0, <1>3, <1>4, <1>5, <1>6, <1>7, <1>8

\* A checkpoint writes the next generation of the object it read.
LEMMA CheckpointWrites ==
  ASSUME IInv, NEW e \in Executions, Checkpoint(e)
  PROVE  /\ exec[e].step = "owned" /\ exec[e].uri \in Uris
         /\ object[exec[e].uri].generation = exec[e].generation
         /\ object'[exec[e].uri].generation = exec[e].generation + 1
         /\ object'[exec[e].uri].count = exec[e].count + 1
         /\ object'[exec[e].uri].state = exec[e].state
         /\ \A v \in Uris \ {exec[e].uri} : object'[v] = object[v]
         /\ \A f \in Executions \ {e} : exec'[f] = exec[f]
         /\ exec'[e].step \in {"checkpointed", "over"}
         /\ exec'[e].step = "checkpointed" => exec'[e].uri = exec[e].uri
         /\ UNCHANGED <<local, submit, mover, target, packed, lease, removed, worked, ran>>
<1>0. /\ exec \in [Executions -> Runs] /\ object \in [Uris -> Records]
      /\ exec[e].step = "owned" /\ exec[e].uri \in Uris
  BY DEF IInv, TypeOK, Aimed, Ready, Runs, Records, Checkpoint, Steps
<1>1. /\ \A f \in Executions \ {e} : exec'[f] = exec[f]
      /\ exec'[e].step \in {"checkpointed", "over"}
      /\ exec'[e].step = "checkpointed" => exec'[e].uri = exec[e].uri
  <2>1. CASE Steps(e, "owned", "checkpointed")
    BY <1>0, <2>1 DEF Steps, Runs
  <2>2. CASE Ends(e)
    BY <1>0, <2>2 DEF Ends, Outside
  <2> QED BY <2>1, <2>2 DEF Checkpoint
<1>2. /\ object[exec[e].uri].generation = exec[e].generation
      /\ object'[exec[e].uri] = [generation |-> object[exec[e].uri].generation + 1,
                                count |-> exec[e].count + 1, state |-> exec[e].state]
      /\ \A v \in Uris \ {exec[e].uri} : object'[v] = object[v]
      /\ UNCHANGED <<local, submit, mover, target, packed, lease, removed, worked, ran>>
  BY <1>0 DEF Checkpoint, Uploadable, here, moving
<1> QED BY <1>0, <1>1, <1>2

-----------------------------------------------------------------------------

(* Each part of the invariant is kept.                                     *)

\* Commands and executions keep their object.
LEMMA AimedKept ==
  ASSUME IInv, Next
  PROVE  Aimed'
<1> USE HomeAssumption, NobodyAssumption, OwnersAssumption, BoundsAssumption
    DEF remote, moving, here
<1>0. /\ TypeOK
      /\ local \in [Roots -> Locals] /\ submit \in [Roots -> Nat] /\ mover \in [Roots -> Movers]
      /\ target \in [Roots -> Uris \union {Nobody}] /\ packed \in [Roots -> Payloads]
      /\ object \in [Uris -> Records] /\ exec \in [Executions -> Runs]
      /\ lease \in [Uris -> Executions \union Roots \union {Nobody}]
      /\ Aimed
  BY DEF IInv, TypeOK, Records, Runs
<1>1. ASSUME NEW r \in Roots, CheckJobs(r)
      PROVE  Aimed'
  BY <1>0, <1>1 DEF CheckJobs, Moves, Aimed, Ready, Runs
<1>2. ASSUME NEW r \in Roots, Pack(r)
      PROVE  Aimed'
  BY <1>0, <1>2 DEF Pack, Moves, Aimed, Ready, Runs
<1>3. ASSUME NEW r \in Roots, Upload(r)
      PROVE  Aimed'
  BY <1>0, <1>3 DEF Upload, Moves, Aimed, Ready, Runs
<1>4. ASSUME NEW r \in Roots, Staged(r)
      PROVE  Aimed'
  BY <1>0, <1>4 DEF Staged, Moves, Put, Forgets, StagedRow, Aimed, Ready, Runs
<1>5. ASSUME NEW r \in Roots, Unpack(r)
      PROVE  Aimed'
  BY <1>0, <1>5 DEF Unpack, Moves, Put, Aimed, Ready, Runs
<1>6. ASSUME NEW r \in Roots, PauseRestored(r)
      PROVE  Aimed'
  BY <1>0, <1>6 DEF PauseRestored, Moves, Put, Forgets, Aimed, Ready, Runs
<1>7. ASSUME NEW r \in Roots, GivesUp(r)
      PROVE  Aimed'
  BY <1>0, <1>7 DEF GivesUp, Forgets, Aimed, Ready, Runs
<1>8. ASSUME NEW r \in Roots, NEW u \in Uris, Fence(r, u)
      PROVE  Aimed'
  BY <1>0, <1>8 DEF Fence, Moves, Put, Stageable, Aimed, Ready, Runs
<1>9. ASSUME NEW r \in Roots, NEW u \in Uris, Restore(r, u)
      PROVE  Aimed'
  BY <1>0, <1>9 DEF Restore, Moves, Claimable, Aimed, Ready, Runs
<1>10. ASSUME NEW e \in Executions, Read(e)
       PROVE  Aimed'
  BY <1>0, <1>10 DEF Read, Aimed, Ready, Runs
<1>11. ASSUME NEW e \in Executions, Exhausted(e)
       PROVE  Aimed'
  BY <1>0, <1>11 DEF Exhausted, Steps, Aimed, Ready, Runs
<1>12. ASSUME NEW e \in Executions, Download(e)
       PROVE  Aimed'
  BY <1>0, <1>12 DEF Download, Allowed, Aimed, Ready, Runs
<1>13. ASSUME NEW e \in Executions, Work(e)
       PROVE  Aimed'
  BY <1>0, <1>13 DEF Work, Aimed, Ready, Runs
<1>14. ASSUME NEW e \in Executions, CheckOwner(e)
       PROVE  Aimed'
  BY <1>0, <1>14 DEF CheckOwner, Steps, Aimed, Ready, Runs
<1>15. ASSUME NEW e \in Executions, Checkpoint(e)
       PROVE  Aimed'
  BY <1>0, <1>15 DEF Checkpoint, Steps, Ends, Uploadable, Outside, Aimed, Ready, Runs
<1>16. ASSUME NEW e \in Executions, Release(e)
       PROVE  Aimed'
  BY <1>0, <1>16 DEF Release, Ends, Outside, Aimed, Ready, Runs
<1>17. ASSUME NEW e \in Executions, Fails(e)
       PROVE  Aimed'
  BY <1>0, <1>17 DEF Fails, Ends, LeaseAfterFailure, Outside, Aimed, Ready, Runs
<1>18. ASSUME NEW e \in Executions, NEW u \in Uris, Start(e, u)
       PROVE  Aimed'
  BY <1>0, <1>18 DEF Start, Claimable, Aimed, Ready, Runs
<1>19. ASSUME \/ \E r \in Roots : Configure(r) \/ SubmitReads(r) \/ SubmitInserts(r)
                     \/ Claim(r) \/ Execute(r)
              \/ \E u \in Uris : RemoveLease(u)
       PROVE  Aimed'
  BY <1>0, <1>19 DEF Configure, SubmitReads, SubmitInserts, Claim, Execute, RemoveLease,
      remote, moving, here, Aimed
<1> QED BY <1>1, <1>2, <1>3, <1>4, <1>5, <1>6, <1>7, <1>8, <1>9, <1>10, <1>11, <1>12,
    <1>13, <1>14, <1>15, <1>16, <1>17, <1>18, <1>19 DEF Next

\* Counts follow the generations.
LEMMA CountsKept ==
  ASSUME IInv, Next
  PROVE  Counts'
<1> USE HomeAssumption, NobodyAssumption, OwnersAssumption, BoundsAssumption
    DEF remote, moving, here
<1>0. /\ TypeOK
      /\ local \in [Roots -> Locals] /\ submit \in [Roots -> Nat] /\ mover \in [Roots -> Movers]
      /\ target \in [Roots -> Uris \union {Nobody}] /\ packed \in [Roots -> Payloads]
      /\ object \in [Uris -> Records] /\ exec \in [Executions -> Runs]
      /\ lease \in [Uris -> Executions \union Roots \union {Nobody}]
      /\ Aimed /\ Counts
  BY DEF IInv, TypeOK, Records, Runs
<1>1. ASSUME NEW r \in Roots, Upload(r)
      PROVE  Counts'
  BY <1>0, <1>1 DEF Upload, Moves, Aimed, Counts, CountsEveryCheckpoint, Ready, Holds,
      Runs, Records
<1>2. ASSUME NEW e \in Executions, Read(e)
      PROVE  Counts'
  <2>1. exec[e].uri \in Uris /\ exec[e].step = "leased"
    BY <1>0, <1>2 DEF Read, Aimed, Ready
  <2>2. /\ exec'[e].generation = object[exec[e].uri].generation
        /\ exec'[e].count = object[exec[e].uri].count
        /\ exec'[e].uri = exec[e].uri /\ exec'[e].step = "read"
        /\ exec'[e].generation > 0
        /\ \A f \in Executions \ {e} : exec'[f] = exec[f]
        /\ object' = object
    BY <1>0, <1>2 DEF Read, Runs
  <2> QED BY <1>0, <2>1, <2>2 DEF Counts, CountsEveryCheckpoint, Holds, Records
<1>3. ASSUME NEW e \in Executions, Exhausted(e)
      PROVE  Counts'
  BY <1>0, <1>3 DEF Exhausted, Steps, Aimed, Counts, CountsEveryCheckpoint, Ready,
      Holds, Runs, Records
<1>4. ASSUME NEW e \in Executions, Download(e)
      PROVE  Counts'
  BY <1>0, <1>4 DEF Download, Allowed, Aimed, Counts, CountsEveryCheckpoint, Ready,
      Holds, Runs, Records
<1>5. ASSUME NEW e \in Executions, Work(e)
      PROVE  Counts'
  BY <1>0, <1>5 DEF Work, Aimed, Counts, CountsEveryCheckpoint, Ready, Holds, Runs,
      Records
<1>6. ASSUME NEW e \in Executions, CheckOwner(e)
      PROVE  Counts'
  BY <1>0, <1>6 DEF CheckOwner, Steps, Aimed, Counts, CountsEveryCheckpoint, Ready,
      Holds, Runs, Records
<1>7. ASSUME NEW e \in Executions, Checkpoint(e)
      PROVE  Counts'
  BY <1>0, <1>7 DEF Checkpoint, Steps, Ends, Uploadable, Outside, Aimed, Counts,
      CountsEveryCheckpoint, Ready, Holds, Runs, Records
<1>8. ASSUME NEW e \in Executions, Release(e)
      PROVE  Counts'
  BY <1>0, <1>8 DEF Release, Ends, Outside, Aimed, Counts, CountsEveryCheckpoint, Ready,
      Holds, Runs, Records
<1>9. ASSUME NEW e \in Executions, Fails(e)
      PROVE  Counts'
  BY <1>0, <1>9 DEF Fails, Ends, LeaseAfterFailure, Outside, Aimed, Counts,
      CountsEveryCheckpoint, Ready, Holds, Runs, Records
<1>10. ASSUME NEW e \in Executions, NEW u \in Uris, Start(e, u)
       PROVE  Counts'
  BY <1>0, <1>10 DEF Start, Claimable, Aimed, Counts, CountsEveryCheckpoint, Ready,
      Holds, Runs, Records
<1>11. ASSUME \/ \E r \in Roots : Configure(r) \/ SubmitReads(r) \/ SubmitInserts(r)
                     \/ Claim(r) \/ Execute(r) \/ CheckJobs(r) \/ Pack(r) \/ Staged(r)
                     \/ Unpack(r) \/ PauseRestored(r) \/ GivesUp(r)
                     \/ \E u \in Uris : Fence(r, u) \/ Restore(r, u)
              \/ \E u \in Uris : RemoveLease(u)
       PROVE  Counts'
  BY <1>0, <1>11 DEF Configure, SubmitReads, SubmitInserts, Claim, Execute, CheckJobs,
      Pack, Staged, Unpack, PauseRestored, GivesUp, Fence, Restore, RemoveLease, remote,
      moving, here, Counts, CountsEveryCheckpoint
<1> QED BY <1>1, <1>2, <1>3, <1>4, <1>5, <1>6, <1>7, <1>8, <1>9, <1>10, <1>11 DEF Next

\* What leaves a store is newer than its jobs.
LEMMA SourcedKept ==
  ASSUME IInv, Next
  PROVE  Sourced'
<1> USE HomeAssumption, NobodyAssumption, OwnersAssumption, BoundsAssumption
    DEF remote, moving, here
<1>0. /\ TypeOK
      /\ local \in [Roots -> Locals] /\ submit \in [Roots -> Nat] /\ mover \in [Roots -> Movers]
      /\ target \in [Roots -> Uris \union {Nobody}] /\ packed \in [Roots -> Payloads]
      /\ object \in [Uris -> Records] /\ exec \in [Executions -> Runs]
      /\ lease \in [Uris -> Executions \union Roots \union {Nobody}]
      /\ Aimed /\ Counts /\ Rows /\ Sourced
  BY DEF IInv, TypeOK, Records, Runs
<1>1. ASSUME NEW r \in Roots, Configure(r)
      PROVE  Sourced'
  BY <1>0, <1>1 DEF Configure, Put, Sourced, Older, Aimed, Rows, SourceWorkStaysHome,
      Ready, Locals, Jobs, Payloads, Runs, Records
<1>2. ASSUME NEW r \in Roots, SubmitReads(r)
      PROVE  Sourced'
  BY <1>0, <1>2 DEF SubmitReads, Sourced, Older, Aimed, Rows, SourceWorkStaysHome,
      Ready, Locals, Jobs, Payloads, Runs, Records
<1>3. ASSUME NEW r \in Roots, SubmitInserts(r)
      PROVE  Sourced'
  BY <1>0, <1>3 DEF SubmitInserts, Put, Sourced, Older, Aimed, Rows,
      SourceWorkStaysHome, Ready, Locals, Jobs, Payloads, Runs, Records
<1>4. ASSUME NEW r \in Roots, Claim(r)
      PROVE  Sourced'
  BY <1>0, <1>4 DEF Claim, Put, Sourced, Older, Aimed, Rows, SourceWorkStaysHome, Ready,
      Locals, Jobs, Payloads, Runs, Records
<1>5. ASSUME NEW r \in Roots, Execute(r)
      PROVE  Sourced'
  BY <1>0, <1>5 DEF Execute, Put, Sourced, Older, Aimed, Rows, SourceWorkStaysHome,
      Ready, Locals, Jobs, Payloads, Runs, Records
<1>6. ASSUME NEW r \in Roots, CheckJobs(r)
      PROVE  Sourced'
  BY <1>0, <1>6 DEF CheckJobs, Moves, Sourced, Older, Aimed, Rows, SourceWorkStaysHome,
      Ready, Locals, Jobs, Payloads, Runs, Records
<1>7. ASSUME NEW r \in Roots, Pack(r)
      PROVE  Sourced'
  BY <1>0, <1>7 DEF Pack, Moves, Sourced, Older, Aimed, Rows, SourceWorkStaysHome,
      Ready, Locals, Jobs, Payloads, Runs, Records
<1>8. ASSUME NEW r \in Roots, Upload(r)
      PROVE  Sourced'
  BY <1>0, <1>8 DEF Upload, Moves, Sourced, Older, Aimed, Rows, SourceWorkStaysHome,
      Ready, Locals, Jobs, Payloads, Runs, Records
<1>9. ASSUME NEW r \in Roots, Staged(r)
      PROVE  Sourced'
  BY <1>0, <1>9 DEF Staged, Moves, Put, Forgets, StagedRow, Sourced, Older, Aimed, Rows,
      SourceWorkStaysHome, Ready, Locals, Jobs, Payloads, Runs, Records
<1>10. ASSUME NEW r \in Roots, Unpack(r)
       PROVE  Sourced'
  BY <1>0, <1>10 DEF Unpack, Moves, Put, Sourced, Older, Aimed, Rows,
      SourceWorkStaysHome, Ready, Locals, Jobs, Payloads, Runs, Records
<1>11. ASSUME NEW r \in Roots, PauseRestored(r)
       PROVE  Sourced'
  BY <1>0, <1>11 DEF PauseRestored, Moves, Put, Forgets, Sourced, Older, Aimed, Rows,
      SourceWorkStaysHome, Ready, Locals, Jobs, Payloads, Runs, Records
<1>12. ASSUME NEW r \in Roots, GivesUp(r)
       PROVE  Sourced'
  BY <1>0, <1>12 DEF GivesUp, Forgets, Sourced, Older, Aimed, Rows, SourceWorkStaysHome,
      Ready, Locals, Jobs, Payloads, Runs, Records
<1>13. ASSUME NEW r \in Roots, NEW u \in Uris, Fence(r, u)
       PROVE  Sourced'
  BY <1>0, <1>13 DEF Fence, Moves, Put, Stageable, Sourced, Older, Aimed, Rows,
      SourceWorkStaysHome, Ready, Locals, Jobs, Payloads, Runs, Records
<1>14. ASSUME NEW r \in Roots, NEW u \in Uris, Restore(r, u)
       PROVE  Sourced'
  BY <1>0, <1>14 DEF Restore, Moves, Claimable, Sourced, Older, Aimed, Rows,
      SourceWorkStaysHome, Ready, Locals, Jobs, Payloads, Runs, Records
<1>15. ASSUME NEW e \in Executions, Read(e)
       PROVE  Sourced'
  BY <1>0, <1>15 DEF Read, Sourced, Older, Aimed, Rows, SourceWorkStaysHome, Ready,
      Locals, Jobs, Payloads, Runs, Records
<1>16. ASSUME NEW e \in Executions, Exhausted(e)
       PROVE  Sourced'
  BY <1>0, <1>16 DEF Exhausted, Steps, Sourced, Older, Aimed, Rows, SourceWorkStaysHome,
      Ready, Locals, Jobs, Payloads, Runs, Records
<1>17. ASSUME NEW e \in Executions, Download(e)
       PROVE  Sourced'
  <2>1. exec[e].generation > 0
    BY <1>0, <1>17, DownloadTakes DEF Counts, Holds
  <2>2. Older(object[exec[e].uri].state)
    BY <1>0, <1>17, <2>1, DownloadTakes DEF Sourced
  <2> QED BY <1>0, <1>17, <2>2, DownloadTakes DEF Sourced, Older, SourceWorkStaysHome
<1>18. ASSUME NEW e \in Executions, Work(e)
       PROVE  Sourced'
  <2>1. Older(exec[e].state)
    BY <1>0, <1>18, WorkRecords DEF Sourced
  <2>2. exec[e].state.job.revision \in Nat /\ exec[e].state.revision \in Nat
    BY <1>0 DEF Runs, Payloads, Jobs
  <2>3. ~SameDefinition(exec[e].state)
    BY <2>1, <2>2 DEF Older, SameDefinition
  <2>4. ran' = ran /\ Older(exec'[e].state)
    BY <1>18, <2>1, <2>3, WorkRecords DEF Older
  <2> QED BY <1>0, <1>18, <2>4, WorkRecords DEF Sourced, Older, SourceWorkStaysHome
<1>19. ASSUME NEW e \in Executions, CheckOwner(e)
       PROVE  Sourced'
  BY <1>0, <1>19 DEF CheckOwner, Steps, Sourced, Older, Aimed, Rows,
      SourceWorkStaysHome, Ready, Locals, Jobs, Payloads, Runs, Records
<1>20. ASSUME NEW e \in Executions, Checkpoint(e)
       PROVE  Sourced'
  <2>1. Older(exec[e].state)
    BY <1>0, <1>20, CheckpointWrites DEF Sourced
  <2>0. object'[exec[e].uri].state = exec[e].state
    BY <1>20, CheckpointWrites
  <2>2. Older(object'[exec[e].uri].state)
    BY <2>0, <2>1
  <2>3. \A u \in Uris : object'[u].generation > 0 => Older(object'[u].state)
    <3>1. \A u \in Uris \ {exec[e].uri} : object'[u] = object[u]
      BY <1>20, CheckpointWrites
    <3> QED BY <1>0, <2>2, <3>1 DEF Sourced
  <2>4. \A f \in Executions :
          exec'[f].step \in {"working", "worked", "owned"} => Older(exec'[f].state)
    BY <1>0, <1>20, CheckpointWrites DEF Sourced, Older
  <2> QED BY <1>0, <1>20, <2>3, <2>4, CheckpointWrites DEF Sourced, Older,
      SourceWorkStaysHome
<1>21. ASSUME NEW e \in Executions, Release(e)
       PROVE  Sourced'
  BY <1>0, <1>21 DEF Release, Ends, Outside, Sourced, Older, Aimed, Rows,
      SourceWorkStaysHome, Ready, Locals, Jobs, Payloads, Runs, Records
<1>22. ASSUME NEW e \in Executions, Fails(e)
       PROVE  Sourced'
  BY <1>0, <1>22 DEF Fails, Ends, LeaseAfterFailure, Outside, Sourced, Older, Aimed,
      Rows, SourceWorkStaysHome, Ready, Locals, Jobs, Payloads, Runs, Records
<1>23. ASSUME NEW e \in Executions, NEW u \in Uris, Start(e, u)
       PROVE  Sourced'
  BY <1>0, <1>23 DEF Start, Claimable, Sourced, Older, Aimed, Rows, SourceWorkStaysHome,
      Ready, Locals, Jobs, Payloads, Runs, Records
<1>24. ASSUME \/ \E u \in Uris : RemoveLease(u)
       PROVE  Sourced'
  BY <1>0, <1>24 DEF RemoveLease, remote, moving, here, Sourced, SourceWorkStaysHome
<1> QED BY <1>1, <1>2, <1>3, <1>4, <1>5, <1>6, <1>7, <1>8, <1>9, <1>10, <1>11, <1>12,
    <1>13, <1>14, <1>15, <1>16, <1>17, <1>18, <1>19, <1>20, <1>21, <1>22, <1>23, <1>24
    DEF Next

\* Rows follow the commands at work on them.
LEMMA RowsKept ==
  ASSUME IInv, Next
  PROVE  Rows'
<1> USE HomeAssumption, NobodyAssumption, OwnersAssumption, BoundsAssumption
    DEF remote, moving, here
<1>0. /\ TypeOK
      /\ local \in [Roots -> Locals] /\ submit \in [Roots -> Nat] /\ mover \in [Roots -> Movers]
      /\ target \in [Roots -> Uris \union {Nobody}] /\ packed \in [Roots -> Payloads]
      /\ object \in [Uris -> Records] /\ exec \in [Executions -> Runs]
      /\ lease \in [Uris -> Executions \union Roots \union {Nobody}]
      /\ Aimed /\ Rows
  BY DEF IInv, TypeOK, Records, Runs
<1>1. ASSUME NEW r \in Roots, Configure(r)
      PROVE  Rows'
  BY <1>0, <1>1 DEF Configure, Put, Rows, Aimed, Ready, Locals
<1>2. ASSUME NEW r \in Roots, SubmitInserts(r)
      PROVE  Rows'
  BY <1>0, <1>2 DEF SubmitInserts, Put, Rows, Aimed, Ready, Locals
<1>3. ASSUME NEW r \in Roots, Claim(r)
      PROVE  Rows'
  BY <1>0, <1>3 DEF Claim, Put, Rows, Aimed, Ready, Locals
<1>4. ASSUME NEW r \in Roots, Execute(r)
      PROVE  Rows'
  BY <1>0, <1>4 DEF Execute, Put, Rows, Aimed, Ready, Locals
<1>5. ASSUME NEW r \in Roots, CheckJobs(r)
      PROVE  Rows'
  BY <1>0, <1>5 DEF CheckJobs, Moves, Rows, Aimed, Ready, Locals
<1>6. ASSUME NEW r \in Roots, Pack(r)
      PROVE  Rows'
  BY <1>0, <1>6 DEF Pack, Moves, Rows, Aimed, Ready, Locals
<1>7. ASSUME NEW r \in Roots, Upload(r)
      PROVE  Rows'
  BY <1>0, <1>7 DEF Upload, Moves, Rows, Aimed, Ready, Locals
<1>8. ASSUME NEW r \in Roots, Staged(r)
      PROVE  Rows'
  BY <1>0, <1>8 DEF Staged, Moves, Put, Forgets, StagedRow, Rows, Aimed, Ready, Locals
<1>9. ASSUME NEW r \in Roots, Unpack(r)
      PROVE  Rows'
  BY <1>0, <1>9 DEF Unpack, Moves, Put, Rows, Aimed, Ready, Locals
<1>10. ASSUME NEW r \in Roots, PauseRestored(r)
       PROVE  Rows'
  BY <1>0, <1>10 DEF PauseRestored, Moves, Put, Forgets, Rows, Aimed, Ready, Locals
<1>11. ASSUME NEW r \in Roots, GivesUp(r)
       PROVE  Rows'
  BY <1>0, <1>11 DEF GivesUp, Forgets, Rows, Aimed, Ready, Locals
<1>12. ASSUME NEW r \in Roots, NEW u \in Uris, Fence(r, u)
       PROVE  Rows'
  BY <1>0, <1>12 DEF Fence, Moves, Put, Stageable, Rows, Aimed, Ready, Locals
<1>13. ASSUME NEW r \in Roots, NEW u \in Uris, Restore(r, u)
       PROVE  Rows'
  BY <1>0, <1>13 DEF Restore, Moves, Claimable, Rows, Aimed, Ready, Locals
<1>14. ASSUME NEW e \in Executions, Release(e)
       PROVE  Rows'
  BY <1>0, <1>14 DEF Release, Ends, Outside, Rows, Aimed, Ready, Locals
<1>15. ASSUME NEW e \in Executions, Fails(e)
       PROVE  Rows'
  BY <1>0, <1>15 DEF Fails, Ends, LeaseAfterFailure, Outside, Rows, Aimed, Ready, Locals
<1>16. ASSUME NEW e \in Executions, NEW u \in Uris, Start(e, u)
       PROVE  Rows'
  BY <1>0, <1>16 DEF Start, Claimable, Rows, Aimed, Ready, Locals
<1>17. ASSUME NEW u \in Uris, RemoveLease(u)
       PROVE  Rows'
  BY <1>0, <1>17 DEF RemoveLease, Rows, Aimed, Ready, Locals
<1>18. ASSUME \/ \E r \in Roots : SubmitReads(r)
              \/ \E e \in Executions : Read(e) \/ Exhausted(e) \/ Download(e) \/ Work(e)
                     \/ CheckOwner(e) \/ Checkpoint(e)
       PROVE  Rows'
  BY <1>0, <1>18 DEF SubmitReads, Read, Exhausted, Download, Work, CheckOwner,
      Checkpoint, remote, moving, here, Rows
<1> QED BY <1>1, <1>2, <1>3, <1>4, <1>5, <1>6, <1>7, <1>8, <1>9, <1>10, <1>11, <1>12,
    <1>13, <1>14, <1>15, <1>16, <1>17, <1>18 DEF Next

\* The agent passes from one owner to the next.
LEMMA SoleKept ==
  ASSUME IInv, Next
  PROVE  Sole'
<1> USE HomeAssumption, NobodyAssumption, OwnersAssumption, BoundsAssumption
    DEF remote, moving, here
<1>0. /\ TypeOK
      /\ local \in [Roots -> Locals] /\ submit \in [Roots -> Nat] /\ mover \in [Roots -> Movers]
      /\ target \in [Roots -> Uris \union {Nobody}] /\ packed \in [Roots -> Payloads]
      /\ object \in [Uris -> Records] /\ exec \in [Executions -> Runs]
      /\ lease \in [Uris -> Executions \union Roots \union {Nobody}]
      /\ Aimed /\ Counts /\ Rows /\ Sole
  BY DEF IInv, TypeOK, Records, Runs
<1>1. ASSUME NEW r \in Roots, Configure(r)
      PROVE  Sole'
  BY <1>0, <1>1 DEF Configure, Put, Sole, Owns, Live, Rows, Aimed, Ready, Locals, Records
<1>2. ASSUME NEW r \in Roots, SubmitInserts(r)
      PROVE  Sole'
  BY <1>0, <1>2 DEF SubmitInserts, Put, Sole, Owns, Live, Rows, Aimed, Ready, Locals,
      Records
<1>3. ASSUME NEW r \in Roots, Claim(r)
      PROVE  Sole'
  BY <1>0, <1>3 DEF Claim, Put, Sole, Owns, Live, Rows, Aimed, Ready, Locals, Records
<1>4. ASSUME NEW r \in Roots, Execute(r)
      PROVE  Sole'
  BY <1>0, <1>4 DEF Execute, Put, Sole, Owns, Live, Rows, Aimed, Ready, Locals, Records
<1>5. ASSUME NEW r \in Roots, CheckJobs(r)
      PROVE  Sole'
  BY <1>0, <1>5 DEF CheckJobs, Moves, Sole, Owns, Live, Rows, Aimed, Ready, Locals,
      Records
<1>6. ASSUME NEW r \in Roots, Pack(r)
      PROVE  Sole'
  BY <1>0, <1>6 DEF Pack, Moves, Sole, Owns, Live, Rows, Aimed, Ready, Locals, Records
<1>7. ASSUME NEW r \in Roots, Upload(r)
      PROVE  Sole'
  BY <1>0, <1>7 DEF Upload, Moves, Sole, Owns, Live, Rows, Aimed, Ready, Locals, Records
<1>8. ASSUME NEW r \in Roots, Staged(r)
      PROVE  Sole'
  BY <1>0, <1>8 DEF Staged, Moves, Put, Forgets, StagedRow, Sole, Owns, Live, Rows,
      Aimed, Ready, Locals, Records
<1>9. ASSUME NEW r \in Roots, Unpack(r)
      PROVE  Sole'
  BY <1>0, <1>9 DEF Unpack, Moves, Put, Sole, Owns, Live, Rows, Aimed, Ready, Locals,
      Records
<1>10. ASSUME NEW r \in Roots, PauseRestored(r)
       PROVE  Sole'
  BY <1>0, <1>10 DEF PauseRestored, Moves, Put, Forgets, Sole, Owns, Live, Rows, Aimed,
      Ready, Locals, Records
<1>11. ASSUME NEW r \in Roots, GivesUp(r)
       PROVE  Sole'
  BY <1>0, <1>11 DEF GivesUp, Forgets, Sole, Owns, Live, Rows, Aimed, Ready, Locals,
      Records
<1>12. ASSUME NEW r \in Roots, NEW u \in Uris, Fence(r, u)
       PROVE  Sole'
  BY <1>0, <1>12 DEF Fence, Moves, Put, Stageable, Sole, Owns, Live, Rows, Aimed, Ready,
      Locals, Records
<1>13. ASSUME NEW r \in Roots, NEW u \in Uris, Restore(r, u)
       PROVE  Sole'
  BY <1>0, <1>13 DEF Restore, Moves, Claimable, Sole, Owns, Live, Rows, Aimed, Ready,
      Locals, Records
<1>14. ASSUME NEW e \in Executions, Checkpoint(e)
       PROVE  Sole'
  <2>1. \A u \in Uris : object'[u].generation > 0 <=> object[u].generation > 0
    <3>1. exec[e].generation > 0 /\ exec[e].generation \in Nat
      BY <1>0, <1>14, CheckpointWrites DEF Counts, Holds, Runs
    <3>2. /\ object[exec[e].uri].generation = exec[e].generation
          /\ object'[exec[e].uri].generation = exec[e].generation + 1
          /\ \A u \in Uris \ {exec[e].uri} : object'[u] = object[u]
      BY <1>14, CheckpointWrites
    <3> QED BY <3>1, <3>2
  <2>2. UNCHANGED <<local, mover, target, lease>>
    BY <1>14, CheckpointWrites
  <2>3. \A r \in Roots : Owns(r)' <=> Owns(r)
    BY <1>0, <2>1, <2>2 DEF Owns, Aimed
  <2>4. \A u \in Uris : Live(u)' <=> Live(u)
    BY <2>1, <2>2 DEF Live
  <2> QED BY <1>0, <2>3, <2>4 DEF Sole
<1>15. ASSUME NEW e \in Executions, Release(e)
       PROVE  Sole'
  BY <1>0, <1>15 DEF Release, Ends, Outside, Sole, Owns, Live, Rows, Aimed, Ready,
      Locals, Records
<1>16. ASSUME NEW e \in Executions, Fails(e)
       PROVE  Sole'
  BY <1>0, <1>16 DEF Fails, Ends, LeaseAfterFailure, Outside, Sole, Owns, Live, Rows,
      Aimed, Ready, Locals, Records
<1>17. ASSUME NEW e \in Executions, NEW u \in Uris, Start(e, u)
       PROVE  Sole'
  BY <1>0, <1>17 DEF Start, Claimable, Sole, Owns, Live, Rows, Aimed, Ready, Locals,
      Records
<1>18. ASSUME NEW u \in Uris, RemoveLease(u)
       PROVE  Sole'
  BY <1>0, <1>18 DEF RemoveLease, Sole, Owns, Live, Rows, Aimed, Ready, Locals, Records
<1>19. ASSUME \/ \E r \in Roots : SubmitReads(r)
              \/ \E e \in Executions : Read(e) \/ Exhausted(e) \/ Download(e) \/ Work(e)
                     \/ CheckOwner(e)
       PROVE  Sole'
  BY <1>0, <1>19 DEF SubmitReads, Read, Exhausted, Download, Work, CheckOwner, remote,
      moving, here, Sole, Owns, Live
<1> QED BY <1>1, <1>2, <1>3, <1>4, <1>5, <1>6, <1>7, <1>8, <1>9, <1>10, <1>11, <1>12,
    <1>13, <1>14, <1>15, <1>16, <1>17, <1>18, <1>19 DEF Next

\* Until a lease is removed, the conditional part of the invariant holds.
LEMMA Unremoved ==
  ASSUME IInv, Next, ~removed'
  PROVE  ~removed /\ Leased /\ Once
<1>1. ASSUME NEW r \in Roots,
             \/ Configure(r) \/ SubmitReads(r) \/ SubmitInserts(r) \/ Claim(r) \/ Execute(r)
             \/ CheckJobs(r) \/ Pack(r) \/ Upload(r) \/ Staged(r)
             \/ Unpack(r) \/ PauseRestored(r) \/ GivesUp(r)
             \/ \E u \in Uris : Fence(r, u) \/ Restore(r, u)
      PROVE  removed' = removed
  BY <1>1 DEF Configure, SubmitReads, SubmitInserts, Claim, Execute, CheckJobs, Pack,
      Upload,
    Staged, Unpack, PauseRestored, GivesUp, Fence, Restore, remote
<1>2. ASSUME NEW e \in Executions,
             \/ Read(e) \/ Exhausted(e) \/ Download(e) \/ Work(e) \/ CheckOwner(e)
             \/ Checkpoint(e) \/ Release(e) \/ Fails(e)
             \/ \E u \in Uris : Start(e, u)
      PROVE  removed' = removed
  BY <1>2 DEF Read, Exhausted, Download, Work, CheckOwner, Checkpoint, Release, Fails,
      Start
<1>3. ASSUME NEW u \in Uris, RemoveLease(u)
      PROVE  FALSE
  BY <1>3 DEF RemoveLease
<1> QED BY <1>1, <1>2, <1>3 DEF Next, IInv

\* An execution keeps its lease and its generation.
LEMMA LeasedKept ==
  ASSUME IInv, Next, ~removed'
  PROVE  Leased'
<1> USE HomeAssumption, NobodyAssumption, OwnersAssumption, BoundsAssumption
    DEF remote, moving, here
<1>0. /\ TypeOK
      /\ local \in [Roots -> Locals] /\ submit \in [Roots -> Nat] /\ mover \in [Roots -> Movers]
      /\ target \in [Roots -> Uris \union {Nobody}] /\ packed \in [Roots -> Payloads]
      /\ object \in [Uris -> Records] /\ exec \in [Executions -> Runs]
      /\ lease \in [Uris -> Executions \union Roots \union {Nobody}]
      /\ Aimed /\ Counts /\ Leased
  BY Unremoved DEF IInv, TypeOK, Records, Runs
<1>1. ASSUME NEW r \in Roots, Upload(r)
      PROVE  Leased'
  <2>1. target[r] \in Uris /\ object[target[r]].generation = 0
    BY <1>0, <1>1 DEF Upload, Moves, Aimed
  <2>2. \A u \in Uris \ {target[r]} : object'[u] = object[u]
    BY <1>0, <1>1 DEF Upload
  <2>3. UNCHANGED <<exec, lease>>
    BY <1>1 DEF Upload
  <2> QED BY <1>0, <2>1, <2>2, <2>3 DEF Leased, Counts, Holds, Aimed, Ready
<1>2. ASSUME NEW r \in Roots, NEW u \in Uris, Restore(r, u)
      PROVE  Leased'
  BY <1>0, <1>2 DEF Restore, Moves, Claimable, Leased, Ready, Holds, Aimed, Runs, Records
<1>3. ASSUME NEW e \in Executions, Read(e)
      PROVE  Leased'
  <2>1. exec[e].uri \in Uris /\ exec[e].step = "leased"
    BY <1>0, <1>3 DEF Read, Aimed, Ready
  <2>2. /\ exec'[e].generation = object[exec[e].uri].generation
        /\ exec'[e].uri = exec[e].uri /\ exec'[e].step = "read"
        /\ \A f \in Executions \ {e} : exec'[f] = exec[f]
        /\ UNCHANGED <<object, lease>>
    BY <1>0, <1>3 DEF Read, Runs
  <2> QED BY <1>0, <2>1, <2>2 DEF Leased, Ready, Holds
<1>4. ASSUME NEW e \in Executions, Exhausted(e)
      PROVE  Leased'
  BY <1>0, <1>4 DEF Exhausted, Steps, Leased, Ready, Holds, Aimed, Runs, Records
<1>5. ASSUME NEW e \in Executions, Download(e)
      PROVE  Leased'
  BY <1>0, <1>5, DownloadTakes DEF Leased, Ready, Holds
<1>6. ASSUME NEW e \in Executions, Work(e)
      PROVE  Leased'
  BY <1>0, <1>6, WorkRecords DEF Leased, Ready, Holds
<1>7. ASSUME NEW e \in Executions, CheckOwner(e)
      PROVE  Leased'
  BY <1>0, <1>7 DEF CheckOwner, Steps, Leased, Ready, Holds, Aimed, Runs, Records
<1>8. ASSUME NEW e \in Executions, Checkpoint(e)
      PROVE  Leased'
  BY <1>0, <1>8, CheckpointWrites DEF Leased, Ready, Holds, Aimed
<1>9. ASSUME NEW e \in Executions, Release(e)
      PROVE  Leased'
  BY <1>0, <1>9 DEF Release, Ends, Outside, Leased, Ready, Holds, Aimed, Runs, Records
<1>10. ASSUME NEW e \in Executions, Fails(e)
       PROVE  Leased'
  BY <1>0, <1>10 DEF Fails, Ends, LeaseAfterFailure, Outside, Leased, Ready, Holds,
      Aimed, Runs, Records
<1>11. ASSUME NEW e \in Executions, NEW u \in Uris, Start(e, u)
       PROVE  Leased'
  BY <1>0, <1>11 DEF Start, Claimable, Leased, Ready, Holds, Aimed, Runs, Records
<1>12. ASSUME NEW u \in Uris, RemoveLease(u)
       PROVE  Leased'
  BY <1>0, <1>12 DEF RemoveLease, Leased, Ready, Holds, Aimed, Runs, Records
<1>13. ASSUME \/ \E r \in Roots : Configure(r) \/ SubmitReads(r) \/ SubmitInserts(r)
                     \/ Claim(r) \/ Execute(r) \/ CheckJobs(r) \/ Pack(r) \/ Staged(r)
                     \/ Unpack(r) \/ PauseRestored(r) \/ GivesUp(r)
                     \/ \E u \in Uris : Fence(r, u)
       PROVE  Leased'
  BY <1>0, <1>13 DEF Configure, SubmitReads, SubmitInserts, Claim, Execute, CheckJobs,
      Pack, Staged, Unpack, PauseRestored, GivesUp, Fence, remote, moving, here, Leased
<1> QED BY <1>1, <1>2, <1>3, <1>4, <1>5, <1>6, <1>7, <1>8, <1>9, <1>10, <1>11, <1>12,
    <1>13 DEF Next

\* No state of an object is worked on by two executions.
LEMMA OnceKept ==
  ASSUME IInv, Next, ~removed'
  PROVE  Once'
<1> USE HomeAssumption, NobodyAssumption, OwnersAssumption, BoundsAssumption
    DEF remote, moving, here
<1>0. /\ TypeOK
      /\ local \in [Roots -> Locals] /\ submit \in [Roots -> Nat] /\ mover \in [Roots -> Movers]
      /\ target \in [Roots -> Uris \union {Nobody}] /\ packed \in [Roots -> Payloads]
      /\ object \in [Uris -> Records] /\ exec \in [Executions -> Runs]
      /\ lease \in [Uris -> Executions \union Roots \union {Nobody}]
      /\ Aimed /\ Counts /\ Leased /\ Once
      /\ \A w \in worked : w[1] \in Uris /\ w[2] \in Nat /\ w[3] \in Executions
  BY Unremoved DEF IInv, TypeOK, Records, Runs
<1>1. ASSUME NEW r \in Roots, Upload(r)
      PROVE  Once'
  <2>1. target[r] \in Uris /\ object[target[r]].generation = 0
    BY <1>0, <1>1 DEF Upload, Moves, Aimed
  <2>2. /\ \A u \in Uris \ {target[r]} : object'[u] = object[u]
        /\ UNCHANGED <<exec, lease, worked>>
    BY <1>0, <1>1 DEF Upload
  <2>3. \A w \in worked : w[1] # target[r]
    BY <1>0, <2>1 DEF Once
  <2> QED BY <1>0, <2>2, <2>3 DEF Once, Present
<1>2. ASSUME NEW r \in Roots, NEW u \in Uris, Restore(r, u)
      PROVE  Once'
  BY <1>0, <1>2 DEF Restore, Moves, Claimable, Once, Present, Leased, Ready, Runs, Records
<1>3. ASSUME NEW e \in Executions, Read(e)
      PROVE  Once'
  BY <1>0, <1>3 DEF Read, Once, Present, Leased, Ready, Runs, Records
<1>4. ASSUME NEW e \in Executions, Exhausted(e)
      PROVE  Once'
  BY <1>0, <1>4 DEF Exhausted, Steps, Once, Present, Leased, Ready, Runs, Records
<1>5. ASSUME NEW e \in Executions, Download(e)
      PROVE  Once'
  BY <1>0, <1>5, DownloadTakes DEF Once, Present
<1>6. ASSUME NEW e \in Executions, Work(e)
      PROVE  Once'
  <2>1. /\ exec[e].generation = object[exec[e].uri].generation
        /\ lease[exec[e].uri] = e
        /\ exec[e].generation \in 1..Allowance
        /\ exec[e].step = "working" /\ exec[e].uri \in Uris
    BY <1>0, <1>6, WorkRecords DEF Leased, Counts, Holds, Ready, Runs
  <2>2. PICK n : n = <<exec[e].uri, exec[e].generation, e>>
    OBVIOUS
  <2>3. /\ worked' = worked \union {n}
        /\ exec'[e].step = "worked" /\ \A f \in Executions \ {e} : exec'[f] = exec[f]
        /\ UNCHANGED <<object, lease>>
    BY <1>6, <2>2, WorkRecords
  <2>4. n[1] = exec[e].uri /\ n[2] = exec[e].generation /\ n[3] = e
    BY <2>2
  <2>5. \A w \in worked : Present(w)'
    BY <1>0, <2>1, <2>3 DEF Once, Present
  <2>6. Present(n)'
    BY <2>1, <2>3, <2>4 DEF Present
  <2>7. \A w \in worked : w[1] = n[1] /\ w[2] = n[2] => w[3] = n[3]
    BY <1>0, <2>1, <2>4 DEF Once, Present
  <2>8. n[2] <= object[n[1]].generation
    BY <1>0, <2>1, <2>4 DEF Records
  <2> QED BY <1>0, <2>1, <2>3, <2>4, <2>5, <2>6, <2>7, <2>8 DEF Once
<1>7. ASSUME NEW e \in Executions, CheckOwner(e)
      PROVE  Once'
  BY <1>0, <1>7 DEF CheckOwner, Steps, Once, Present, Leased, Ready, Runs, Records
<1>8. ASSUME NEW e \in Executions, Checkpoint(e)
      PROVE  Once'
  <2>1. \A w \in worked : w[1] = exec[e].uri => ~(object'[w[1]].generation = w[2])
    BY <1>0, <1>8, CheckpointWrites DEF Once, Records, Runs
  <2>2. \A w \in worked : w[1] # exec[e].uri => object'[w[1]] = object[w[1]]
    BY <1>0, <1>8, CheckpointWrites
  <2>3. \A w \in worked : Present(w)'
    BY <1>0, <1>8, <2>1, <2>2, CheckpointWrites DEF Once, Present, Leased
  <2>4. \A w \in worked : w[2] <= object'[w[1]].generation
    BY <1>0, <1>8, <2>2, CheckpointWrites DEF Once, Records, Runs
  <2> QED BY <1>0, <1>8, <2>3, <2>4, CheckpointWrites DEF Once
<1>9. ASSUME NEW e \in Executions, Release(e)
      PROVE  Once'
  BY <1>0, <1>9 DEF Release, Ends, Outside, Once, Present, Leased, Ready, Runs, Records
<1>10. ASSUME NEW e \in Executions, Fails(e)
       PROVE  Once'
  BY <1>0, <1>10 DEF Fails, Ends, LeaseAfterFailure, Outside, Once, Present, Leased,
      Ready, Runs, Records
<1>11. ASSUME NEW e \in Executions, NEW u \in Uris, Start(e, u)
       PROVE  Once'
  BY <1>0, <1>11 DEF Start, Claimable, Once, Present, Leased, Ready, Runs, Records
<1>12. ASSUME NEW u \in Uris, RemoveLease(u)
       PROVE  Once'
  BY <1>0, <1>12 DEF RemoveLease, Once, Present, Leased, Ready, Runs, Records
<1>13. ASSUME \/ \E r \in Roots : Configure(r) \/ SubmitReads(r) \/ SubmitInserts(r)
                     \/ Claim(r) \/ Execute(r) \/ CheckJobs(r) \/ Pack(r) \/ Staged(r)
                     \/ Unpack(r) \/ PauseRestored(r) \/ GivesUp(r)
                     \/ \E u \in Uris : Fence(r, u)
       PROVE  Once'
  BY <1>0, <1>13 DEF Configure, SubmitReads, SubmitInserts, Claim, Execute, CheckJobs,
      Pack, Staged, Unpack, PauseRestored, GivesUp, Fence, remote, moving, here, Once,
      Present
<1> QED BY <1>1, <1>2, <1>3, <1>4, <1>5, <1>6, <1>7, <1>8, <1>9, <1>10, <1>11, <1>12,
    <1>13 DEF Next

\* Work is recorded by the step that does it.
LEMMA RecordedKept ==
  ASSUME IInv, Next
  PROVE  Recorded'
<1> USE DEF remote, moving, here
<1>0. exec \in [Executions -> Runs] /\ Recorded
  BY DEF IInv, TypeOK, Runs
<1>1. ASSUME NEW e \in Executions, Read(e)
      PROVE  Recorded'
  <2>1. exec'[e].step = "read" /\ \A f \in Executions \ {e} : exec'[f] = exec[f]
    BY <1>0, <1>1 DEF Read, Runs
  <2> QED BY <1>0, <1>1, <2>1 DEF Read, Recorded
<1>2. ASSUME NEW e \in Executions, Exhausted(e)
      PROVE  Recorded'
  BY <1>0, <1>2 DEF Exhausted, Steps, Recorded, Runs
<1>3. ASSUME NEW e \in Executions, Download(e)
      PROVE  Recorded'
  BY <1>0, <1>3, DownloadTakes DEF Recorded
<1>4. ASSUME NEW e \in Executions, Work(e)
      PROVE  Recorded'
  BY <1>0, <1>4, WorkRecords DEF Recorded
<1>5. ASSUME NEW e \in Executions, CheckOwner(e)
      PROVE  Recorded'
  BY <1>0, <1>5 DEF CheckOwner, Steps, Recorded, Runs
<1>6. ASSUME NEW e \in Executions, Checkpoint(e)
      PROVE  Recorded'
  BY <1>0, <1>6, CheckpointWrites DEF Recorded
<1>7. ASSUME NEW e \in Executions, Release(e) \/ Fails(e)
      PROVE  Recorded'
  BY <1>0, <1>7 DEF Release, Fails, Ends, Outside, Recorded, Runs
<1>8. ASSUME NEW e \in Executions, NEW u \in Uris, Start(e, u)
      PROVE  Recorded'
  BY <1>0, <1>8 DEF Start, Recorded, Runs
<1>9. ASSUME \/ \E r \in Roots : Configure(r) \/ SubmitReads(r) \/ SubmitInserts(r)
                    \/ Claim(r) \/ Execute(r) \/ CheckJobs(r) \/ Pack(r) \/ Upload(r)
                    \/ Staged(r) \/ Unpack(r) \/ PauseRestored(r) \/ GivesUp(r)
                    \/ \E u \in Uris : Fence(r, u) \/ Restore(r, u)
             \/ \E u \in Uris : RemoveLease(u)
      PROVE  Recorded'
  <2>1. UNCHANGED <<exec, worked>>
    BY <1>9 DEF Configure, SubmitReads, SubmitInserts, Claim, Execute, CheckJobs, Pack,
      Upload, Staged, Unpack, PauseRestored, GivesUp, Fence, Restore, RemoveLease
  <2> QED BY <1>0, <2>1 DEF Recorded
<1> QED BY <1>1, <1>2, <1>3, <1>4, <1>5, <1>6, <1>7, <1>8, <1>9 DEF Next

-----------------------------------------------------------------------------
(* The theorems.                                                           *)

\* At first the agent is at home, nothing is in the cloud.
LEMMA Initially == Init => IInv
<1> SUFFICES ASSUME Init
             PROVE  IInv
  OBVIOUS
<1> USE HomeAssumption, NobodyAssumption, OwnersAssumption, BoundsAssumption
<1>1. TypeOK
  <2>1. local \in [Roots -> Locals]
    BY Empty DEF Init, Locals
  <2>2. object \in [Uris -> Records]
    BY Empty DEF Init, Records
  <2>3. exec \in [Executions -> Runs]
    BY Empty DEF Init
  <2> QED BY <2>1, <2>2, <2>3, Empty DEF Init, TypeOK, Movers, Runs, Records
<1>2. \A e \in Executions : exec[e].step = "idle" /\ exec[e].uri = Nobody
  BY DEF Init, Outside
<1>3. \A u \in Uris : object[u].generation = 0 /\ lease[u] = Nobody
  BY DEF Init
<1>4. \A r \in Roots :
        /\ mover[r] = "idle" /\ submit[r] = 0
        /\ local[r].job.revision = 0 /\ local[r].handoff = "none"
        /\ local[r].revision = (IF r = Home THEN 1 ELSE 0)
        /\ local[r].exists <=> r = Home
        /\ local[r].active <=> r = Home
  BY DEF Init, NoJob
<1>5. Aimed
  BY <1>2, <1>4 DEF Aimed, Ready
<1>6. Counts
  BY <1>2, <1>3 DEF Counts, CountsEveryCheckpoint, Holds
<1>7. Sourced
  BY <1>2, <1>3, <1>4 DEF Sourced, SourceWorkStaysHome, Init
<1>8. Rows
  BY <1>4 DEF Rows
<1>9. Sole
  <2>1. \A r \in Roots : Owns(r) => r = Home
    BY <1>4 DEF Owns
  <2>2. \A u \in Uris : ~Live(u)
    BY <1>3 DEF Live
  <2> QED BY <2>1, <2>2 DEF Sole
<1>10. Leased
  BY <1>2, <1>3 DEF Leased, Ready, Holds
<1>11. Once
  BY DEF Once, Init
<1>12. Recorded
  BY <1>2 DEF Recorded
<1> QED BY <1>1, <1>12, <1>5, <1>6, <1>7, <1>8, <1>9, <1>10, <1>11 DEF IInv

\* Every step keeps the invariant.
LEMMA Kept == IInv /\ [Next]_vars => IInv'
<1>1. ASSUME IInv, Next
      PROVE  IInv'
  <2>1. ASSUME ~removed'
        PROVE  Leased' /\ Once'
    BY <1>1, <2>1, LeasedKept, OnceKept
  <2> QED BY <1>1, <2>1, Typed, AimedKept, CountsKept, SourcedKept, RowsKept, SoleKept,
      RecordedKept DEF IInv
<1>2. ASSUME IInv, UNCHANGED vars
      PROVE  IInv'
  BY <1>2 DEF vars, IInv, TypeOK, Aimed, Counts, CountsEveryCheckpoint, Sourced, Older,
    SourceWorkStaysHome, Rows, Sole, Owns, Live, Leased, Once, Present,
    Recorded
<1> QED BY <1>1, <1>2

\* The invariant holds in every state of the system.
THEOREM Invariance == Spec => []IInv
<1> QED BY Initially, Kept, PTL DEF Spec

\* The variables keep their types, for every instance.
THEOREM TypeCorrect == Spec => []TypeOK
<1>1. IInv => TypeOK
  BY DEF IInv
<1> QED BY <1>1, Invariance, PTL

\* stage_cloud_state, the cloud worker's lease and restore_cloud_state: while
\* nobody deletes a lease by hand, at most one place may start or go on with
\* the work of the agent.
THEOREM OneOwner == Spec => []SingleAuthority
<1>1. ASSUME IInv, ~removed
      PROVE  Cardinality(Authorities) <= 1
  <2> USE HomeAssumption, NobodyAssumption, OwnersAssumption
  <2>1. ASSUME NEW x \in Authorities
        PROVE  (x \in Roots /\ Owns(x)) \/ (x \in Uris /\ Live(x))
    <3>1. CASE x \in {r \in Roots : local[r].active}
      BY <1>1, <3>1 DEF IInv, Rows, Owns
    <3>2. CASE x \in {u \in Uris : object[u].generation > 0 /\ lease[u] \notin Roots}
      BY <3>2 DEF Live
    <3>3. CASE x \in {exec[e].uri : e \in {f \in Executions : exec[f].step = "working"}}
      <4>1. PICK e \in Executions : exec[e].step = "working" /\ x = exec[e].uri
        BY <3>3
      <4>2. x \in Uris /\ lease[x] = e
        BY <1>1, <4>1 DEF IInv, Aimed, Leased, Ready
      <4>3. exec[e].generation = object[x].generation /\ exec[e].generation > 0
        BY <1>1, <4>1 DEF IInv, Counts, Leased, Holds
      <4> QED BY <4>2, <4>3 DEF Live
    <3> QED BY <2>1, <3>1, <3>2, <3>3 DEF Authorities
  <2>2. \A x, y \in Authorities : x = y
    BY <1>1, <2>1 DEF IInv, Sole
  <2>3. CASE Authorities = {}
    BY <2>3, FS_EmptySet
  <2>4. CASE Authorities # {}
    <3>1. PICK x : x \in Authorities
      BY <2>4
    <3>2. Authorities = {x}
      BY <2>2, <3>1
    <3> QED BY <3>2, FS_Singleton
  <2> QED BY <2>3, <2>4
<1>2. IInv => SingleAuthority
  BY <1>1 DEF SingleAuthority
<1> QED BY <1>2, Invariance, PTL

\* cloud_worker's if_generation_match: the count of every object is the number
\* of its checkpoints and within the allowance, also when leases are deleted
\* under live executions.
THEOREM EveryCheckpointCounted == Spec => []CountsEveryCheckpoint
<1>1. IInv => CountsEveryCheckpoint
  BY DEF IInv, Counts
<1> QED BY <1>1, Invariance, PTL

\* cloud_worker.main's kept lease: no generation of an object has the effects
\* of two executions, and no more executions have effects than the plan allows.
THEOREM Effects == Spec => []EffectsAreCounted
<1>1. ASSUME IInv, ~removed, NEW u \in Uris
      PROVE  Cardinality({w \in worked : w[1] = u}) <= Allowance
  <2> DEFINE S == {w \in worked : w[1] = u}
             f == [w \in S |-> w[2]]
  <2>1. worked \subseteq Uris \X Nat \X Executions /\ Once
    BY <1>1 DEF IInv, TypeOK
  <2>2. \A w \in S : w = <<u, w[2], w[3]>> /\ w[2] \in 1..Allowance
    BY <2>1 DEF Once
  <2>3. \A w, x \in S : w[2] = x[2] => w = x
    <3>1. \A w, x \in S : w[2] = x[2] => w[3] = x[3]
      BY <2>1 DEF Once
    <3> QED BY <2>2, <3>1
  <2>4. f \in Injection(S, 1..Allowance)
    BY <2>2, <2>3 DEF Injection, IsInjective
  <2>5. Allowance \in Nat /\ IsFiniteSet(1..Allowance) /\ Cardinality(1..Allowance) = Allowance
    BY BoundsAssumption, FS_Interval
  <2> HIDE DEF S, f
  <2>6. Cardinality(S) <= Cardinality(1..Allowance)
    BY <2>4, <2>5, FS_Injection
  <2> QED BY <2>5, <2>6 DEF S
<1>2. IInv => EffectsAreCounted
  BY <1>1 DEF EffectsAreCounted, IInv, Once
<1> QED BY <1>2, Invariance, PTL

\* submit, pack_state and WorkerProcess.once: a job queued at the source, also
\* one that slips past the check of unfinished work, never runs in the cloud.
THEOREM StaysHome == Spec => []SourceWorkStaysHome
<1>1. IInv => SourceWorkStaysHome
  BY DEF IInv, Sourced
<1> QED BY <1>1, Invariance, PTL
-----------------------------------------------------------------------------
(* The handoff implements Custody.                                         *)

\* Who is an owner, and what has been left, row by row and lease by lease.
LEMMA Places ==
  ASSUME OwnersAssumption
  PROVE  /\ \A r \in Roots : /\ r \in Owners <=> local[r].exists /\ local[r].handoff = "none"
                             /\ r \in Left <=> local[r].handoff # "none"
         /\ \A u \in Uris : /\ u \in Owners <=> Live(u)
                            /\ u \in Left <=> lease[u] \in Roots
         /\ Owners \subseteq Roots \union Uris
BY DEF Owners, Left, Live, OwnersAssumption

\* stage_cloud_state's handoffs row: the store gives the agent away.
LEMMA FenceLeaves ==
  ASSUME IInv, NEW r \in Roots, NEW u \in Uris, Fence(r, u)
  PROVE  Custodian!Leave(r)
<1> USE OwnersAssumption DEF remote, moving
<1>1. local \in [Roots -> Locals] /\ local[r].exists /\ local[r].handoff = "none"
  BY DEF IInv, TypeOK, Fence, Stageable
<1>2. /\ local'[r].handoff = "staging"
      /\ \A q \in Roots \ {r} : local'[q] = local[q]
      /\ UNCHANGED <<object, lease, worked, removed>>
  BY <1>1 DEF Fence, Put, Locals
<1>3. r \notin Left
  BY <1>1, Places
<1>4. Left' = Left \union {r}
  BY <1>1, <1>2 DEF Left
<1>5. Owners' = Owners \ {r}
  BY <1>1, <1>2 DEF Owners
<1> QED BY <1>2, <1>3, <1>4, <1>5 DEF Custodian!Leave

\* restore_cloud_state's lease: executions can no longer have the object.
LEMMA RestoreLeaves ==
  ASSUME IInv, NEW r \in Roots, NEW u \in Uris, Restore(r, u)
  PROVE  Custodian!Leave(u)
<1> USE OwnersAssumption, NobodyAssumption DEF moving
<1>1. lease \in [Uris -> Executions \union Roots \union {Nobody}] /\ lease[u] = Nobody
  BY DEF IInv, TypeOK, Restore, Claimable
<1>2. /\ lease'[u] \in Roots
      /\ \A v \in Uris \ {u} : lease'[v] = lease[v]
      /\ UNCHANGED <<local, object, worked, removed>>
  BY <1>1 DEF Restore
<1>3. u \notin Left
  BY <1>1, Places
<1>4. Left' = Left \union {u}
  BY <1>2 DEF Left
<1>5. Owners' = Owners \ {u}
  BY <1>2 DEF Owners
<1> QED BY <1>2, <1>3, <1>4, <1>5 DEF Custodian!Leave

\* The unpacked store is the owner of an agent nobody had.
LEMMA UnpackEnters ==
  ASSUME IInv, NEW r \in Roots, Unpack(r)
  PROVE  Custodian!Enter(r)
<1> USE OwnersAssumption DEF remote, moving
<1>1. /\ local \in [Roots -> Locals] /\ mover[r] = "claimed"
      /\ ~local[r].exists /\ local[r].handoff = "none" /\ Owns(r)
  BY DEF IInv, TypeOK, Rows, Unpack, Moves, Owns
<1>2. /\ local'[r].exists /\ local'[r].handoff = "none"
      /\ \A q \in Roots \ {r} : local'[q] = local[q]
      /\ UNCHANGED <<object, lease, worked, removed>>
  BY <1>1 DEF Unpack, Put
<1>3. r \notin Left /\ Owners = {}
  <2>1. ASSUME NEW p \in Owners
        PROVE  FALSE
    <3>1. p \in Roots => Owns(p) /\ p # r
      BY <1>1, Places DEF Owns
    <3>2. p \in Uris => Live(p)
      BY Places
    <3> QED BY <1>1, <3>1, <3>2, Places DEF IInv, Sole
  <2> QED BY <1>1, <2>1, Places
<1>4. Left' = Left
  BY <1>1, <1>2 DEF Left
<1>5. Owners' = Owners \union {r}
  BY <1>2 DEF Owners
<1> QED BY <1>2, <1>3, <1>4, <1>5 DEF Custodian!Enter

\* The upload makes an object of an agent nobody has.
LEMMA UploadAppears ==
  ASSUME IInv, NEW r \in Roots, Upload(r)
  PROVE  \E u \in Uris : Custodian!Appear(u)
<1> USE OwnersAssumption
<1>0. PICK u : u = target[r]
  OBVIOUS
<1>1. /\ object \in [Uris -> Records] /\ mover[r] = "packed" /\ u \in Uris
      /\ object[u].generation = 0 /\ Owns(r) /\ local[r].handoff = "staging"
  BY <1>0 DEF IInv, TypeOK, Records, Aimed, Rows, Upload, Moves, Owns
<1>2. /\ object' = [object EXCEPT ![u] = [generation |-> 1, count |-> 0, state |-> packed[r]]]
      /\ UNCHANGED <<local, lease, worked, removed>>
  BY <1>0 DEF Upload
<1>3. /\ object'[u].generation = 1
      /\ \A v \in Uris \ {u} : object'[v] = object[v]
  BY <1>1, <1>2
<1>4. Owners = {}
  <2>1. ASSUME NEW p \in Owners
        PROVE  FALSE
    <3>1. p \in Roots => Owns(p) /\ p # r
      BY <1>1, Places DEF Owns
    <3>2. p \in Uris => Live(p)
      BY Places
    <3> QED BY <1>1, <3>1, <3>2, Places DEF IInv, Sole
  <2> QED BY <2>1
<1>5. Left' = Left
  BY <1>2 DEF Left
<1>6. Owners' = {u} \ Left
  <2>1. \A q \in Roots : q \notin Owners'
    BY <1>2, <1>4 DEF Owners
  <2>2. \A v \in Uris : v \in Owners' <=> v = u /\ lease[v] \notin Roots
    BY <1>1, <1>2, <1>3, <1>4 DEF Owners
  <2>3. Owners' \subseteq Roots \union Uris
    BY DEF Owners
  <2> QED BY <1>1, <2>1, <2>2, <2>3, Places
<1>7. [v \in Uris |-> object[v].generation]' =
        [[v \in Uris |-> object[v].generation] EXCEPT ![u] = 1]
  BY <1>1, <1>3
<1>8. Custodian!Appear(u)
  BY <1>1, <1>2, <1>4, <1>5, <1>6, <1>7 DEF Custodian!Appear
<1> QED BY <1>1, <1>8

\* While nobody deletes a lease, an execution that has read the object works
\* for its owner.
LEMMA HolderOwns ==
  ASSUME IInv, ~removed, NEW e \in Executions, exec[e].step \in Holds
  PROVE  Owners = {exec[e].uri} /\ exec[e].generation = object[exec[e].uri].generation
<1> USE OwnersAssumption, NobodyAssumption
<1>1. exec[e].uri \in Uris /\ lease[exec[e].uri] = e
  BY DEF IInv, Aimed, Leased, Ready, Holds
<1>2. exec[e].generation = object[exec[e].uri].generation /\ exec[e].generation > 0
  BY DEF IInv, Counts, Leased
<1>3. Live(exec[e].uri)
  BY <1>1, <1>2 DEF Live
<1>4. \A p \in Owners : p = exec[e].uri
  <2>1. ASSUME NEW p \in Owners
        PROVE  p = exec[e].uri
    <3>1. p \in Roots => Owns(p)
      BY Places DEF Owns
    <3>2. p \in Uris => Live(p)
      BY Places
    <3> QED BY <1>1, <1>3, <3>1, <3>2, Places DEF IInv, Sole
  <2> QED BY <2>1
<1> QED BY <1>1, <1>2, <1>3, <1>4, Places

\* tick and the queued jobs: an execution works on the owner's state, which no
\* other execution has worked on.
LEMMA WorkWorks ==
  ASSUME IInv, NEW e \in Executions, Work(e)
  PROVE  \E u \in Uris, n \in 1..Allowance : Custodian!Work(u, n, e)
<1>1. PICK u, n : u = exec[e].uri /\ n = exec[e].generation
  OBVIOUS
<1>2. /\ exec[e].step = "working" /\ u \in Uris
      /\ worked' = worked \union {<<u, n, e>>}
      /\ UNCHANGED <<local, object, lease, removed>>
  BY <1>1, WorkRecords
<1>3. n \in 1..Allowance
  BY <1>1, <1>2, BoundsAssumption DEF IInv, TypeOK, Counts, Holds
<1>4. ~removed => /\ Owners = {u} /\ object[u].generation = n
                  /\ \A f \in Executions : <<u, n, f>> \notin worked
  <2>1. ASSUME ~removed
        PROVE  Owners = {u} /\ object[u].generation = n /\ lease[u] = e
    BY <1>1, <1>2, <2>1, HolderOwns DEF Holds, IInv, Leased, Ready
  <2>2. ASSUME ~removed, NEW f \in Executions, <<u, n, f>> \in worked
        PROVE  FALSE
    <3>1. Present(<<u, n, f>>)
      BY <2>2 DEF IInv, Once
    <3>2. f = e /\ exec[f].step \in {"worked", "owned", "over"}
      BY <2>1, <2>2, <3>1 DEF Present
    <3> QED BY <1>2, <3>2
  <2> QED BY <2>1, <2>2
<1>5. UNCHANGED <<Owners, Left, [v \in Uris |-> object[v].generation], ~removed>>
  BY <1>2 DEF Owners, Left
<1>6. object[u].generation = [v \in Uris |-> object[v].generation][u]
  BY <1>2
<1>7. Custodian!Work(u, n, e)
  BY <1>2, <1>4, <1>5, <1>6 DEF Custodian!Work
<1> QED BY <1>2, <1>3, <1>7

\* The checkpoint replaces a state that was worked on, within the allowance.
LEMMA CheckpointSaves ==
  ASSUME IInv, NEW e \in Executions, Checkpoint(e)
  PROVE  \E u \in Uris : Custodian!Save(u)
<1>1. PICK u : u = exec[e].uri
  OBVIOUS
<1>2. /\ exec[e].step = "owned" /\ u \in Uris
      /\ object[u].generation = exec[e].generation
      /\ object'[u].generation = object[u].generation + 1
      /\ \A v \in Uris \ {u} : object'[v] = object[v]
      /\ UNCHANGED <<local, lease, worked, removed>>
  BY <1>1, CheckpointWrites
<1>3. object[u].generation \in 1..Allowance
  BY <1>2, BoundsAssumption DEF IInv, TypeOK, Counts, Holds
<1>4. ~removed => Owners = {u}
  BY <1>1, <1>2, HolderOwns DEF Holds
<1>5. <<u, object[u].generation, e>> \in worked
  BY <1>1, <1>2 DEF IInv, Recorded
<1>6. UNCHANGED <<Owners, Left, worked, ~removed>>
  BY <1>2, <1>3 DEF Owners, Left
<1>7. [v \in Uris |-> object[v].generation]' =
        [[v \in Uris |-> object[v].generation] EXCEPT ![u] = @ + 1]
  BY <1>2
<1>8. object[u].generation = [v \in Uris |-> object[v].generation][u]
  BY <1>2
<1>9. Custodian!Save(u)
  BY <1>3, <1>4, <1>5, <1>6, <1>7, <1>8 DEF Custodian!Save
<1> QED BY <1>2, <1>9

\* Every step of the system is a step of Custody, or changes nothing of it.
LEMMA CustodyStep ==
  ASSUME IInv, Next
  PROVE  [Custodian!Step]_(Custodian!custody)
<1> USE HomeAssumption, OwnersAssumption, NobodyAssumption DEF remote, moving, here
<1>0. /\ local \in [Roots -> Locals] /\ object \in [Uris -> Records]
      /\ lease \in [Uris -> Executions \union Roots \union {Nobody}]
      /\ exec \in [Executions -> Runs]
  BY DEF IInv, TypeOK, Records, Runs
<1>1. ASSUME NEW r \in Roots, NEW u \in Uris, Fence(r, u) \/ Restore(r, u)
      PROVE  Custodian!Step
  BY <1>1, FenceLeaves, RestoreLeaves DEF Custodian!Step
<1>2. ASSUME NEW r \in Roots, Unpack(r)
      PROVE  Custodian!Step
  BY <1>2, UnpackEnters DEF Custodian!Step
<1>3. ASSUME NEW r \in Roots, Upload(r)
      PROVE  Custodian!Step
  BY <1>3, UploadAppears DEF Custodian!Step
<1>4. ASSUME NEW e \in Executions, Work(e)
      PROVE  Custodian!Step
  BY <1>4, WorkWorks DEF Custodian!Step
<1>5. ASSUME NEW e \in Executions, Checkpoint(e)
      PROVE  Custodian!Step
  BY <1>5, CheckpointSaves DEF Custodian!Step
<1>6. ASSUME NEW u \in Uris, RemoveLease(u)
      PROVE  Custodian!Step
  <2>1. /\ ~removed /\ removed' /\ removed' = TRUE
        /\ UNCHANGED <<local, object, worked>>
    BY <1>6 DEF RemoveLease
  <2>2. \A v \in Uris : lease'[v] \in Roots <=> lease[v] \in Roots
    BY <1>0, <1>6 DEF RemoveLease
  <2>3. UNCHANGED <<Owners, Left, [v \in Uris |-> object[v].generation]>>
    BY <2>1, <2>2 DEF Owners, Left
  <2>4. Custodian!Meddle
    BY <2>1, <2>3 DEF Custodian!Meddle
  <2> QED BY <2>4 DEF Custodian!Step
<1>7. ASSUME NEW r \in Roots,
             \/ Configure(r) \/ SubmitReads(r) \/ SubmitInserts(r) \/ Claim(r)
             \/ Execute(r) \/ CheckJobs(r) \/ Pack(r) \/ Staged(r) \/ PauseRestored(r)
             \/ GivesUp(r)
      PROVE  UNCHANGED Custodian!custody
  <2>1. UNCHANGED <<object, lease, worked, removed>>
    BY <1>7 DEF Configure, SubmitReads, SubmitInserts, Claim, Execute, CheckJobs, Pack,
      Staged, PauseRestored, GivesUp
  <2>2. \A q \in Roots : /\ local'[q].exists = local[q].exists
                        /\ (local'[q].handoff = "none") = (local[q].handoff = "none")
    <3>1. CASE Configure(r)
      BY <1>0, <3>1 DEF Configure, Put, Locals
    <3>5. CASE SubmitInserts(r)
      BY <1>0, <3>5 DEF SubmitInserts, Put, Locals
    <3>6. CASE Claim(r)
      BY <1>0, <3>6 DEF Claim, Put, Locals
    <3>7. CASE Execute(r)
      BY <1>0, <3>7 DEF Execute, Put, Locals
    <3>2. CASE SubmitReads(r) \/ CheckJobs(r) \/ Pack(r) \/ GivesUp(r)
      BY <3>2 DEF SubmitReads, CheckJobs, Pack, GivesUp
    <3>3. CASE Staged(r)
      BY <1>0, <3>3 DEF IInv, Rows, Staged, StagedRow, Moves, Put, Locals
    <3>4. CASE PauseRestored(r)
      BY <1>0, <3>4 DEF PauseRestored, Put, Locals
    <3> QED BY <1>7, <3>1, <3>2, <3>3, <3>4, <3>5, <3>6, <3>7
  <2>3. {q \in Roots : local[q].exists /\ local[q].handoff = "none"}' =
          {q \in Roots : local[q].exists /\ local[q].handoff = "none"}
    BY <2>2
  <2>4. {q \in Roots : local[q].handoff # "none"}' = {q \in Roots : local[q].handoff # "none"}
    BY <2>2
  <2>5. UNCHANGED <<Owners, Left>>
    BY <2>1, <2>3, <2>4 DEF Owners, Left
  <2> QED BY <2>1, <2>5 DEF Custodian!custody
<1>8. ASSUME NEW e \in Executions,
             \/ Read(e) \/ Exhausted(e) \/ Download(e) \/ CheckOwner(e) \/ Release(e)
             \/ Fails(e) \/ \E u \in Uris : Start(e, u)
      PROVE  UNCHANGED Custodian!custody
  <2>1. UNCHANGED <<local, object, worked, removed>>
    BY <1>8 DEF Read, Exhausted, Download, CheckOwner, Release, Fails, Start
  <2>2. \A v \in Uris : lease'[v] \in Roots <=> lease[v] \in Roots
    <3>1. CASE Read(e) \/ Exhausted(e) \/ Download(e) \/ CheckOwner(e)
      BY <3>1 DEF Read, Exhausted, Download, CheckOwner
    <3>2. CASE Release(e)
      BY <1>0, <3>2 DEF Release
    <3>3. CASE Fails(e)
      BY <1>0, <3>3 DEF Fails, LeaseAfterFailure
    <3>4. CASE \E u \in Uris : Start(e, u)
      BY <1>0, <3>4 DEF Start, Claimable
    <3> QED BY <1>8, <3>1, <3>2, <3>3, <3>4
  <2>3. UNCHANGED <<Owners, Left>>
    BY <2>1, <2>2 DEF Owners, Left
  <2> QED BY <2>1, <2>3 DEF Custodian!custody
<1> QED BY <1>1, <1>2, <1>3, <1>4, <1>5, <1>6, <1>7, <1>8 DEF Next

\* deployment.py and cloud_worker.main: every run of stagings, restores and
\* executions, with their crashes, lost replies and deleted leases, passes the
\* agent from one owner to the next, and each of its states from one execution
\* to the next.
THEOREM CustodyImplemented == Spec => ImplementsCustody
<1>1. Init => Custodian!AtHome
  <2> SUFFICES ASSUME Init
               PROVE  Custodian!AtHome
    OBVIOUS
  <2> USE HomeAssumption, OwnersAssumption, NobodyAssumption
  <2>1. \A r \in Roots : local[r].handoff = "none" /\ (local[r].exists <=> r = Home)
    BY DEF Init
  <2>3. \A u \in Uris : object[u].generation = 0 /\ lease[u] = Nobody
    BY DEF Init
  <2>4. Owners = {Home} /\ Left = {}
    BY <2>1, <2>3 DEF Owners, Left
  <2>2. [u \in Uris |-> object[u].generation] = [u \in Uris |-> 0]
    BY DEF Init
  <2> QED BY <2>2, <2>4 DEF Init, Custodian!AtHome
<1>2. IInv /\ [Next]_vars => [Custodian!Step]_(Custodian!custody)
  <2>1. ASSUME UNCHANGED vars
        PROVE  UNCHANGED Custodian!custody
    BY <2>1 DEF vars, Custodian!custody, Owners, Left
  <2> QED BY <2>1, CustodyStep
<1> QED BY <1>1, <1>2, Invariance, PTL DEF Spec, ImplementsCustody, Custodian!Spec
=================================================================================
