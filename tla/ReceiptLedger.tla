--------------------------- MODULE ReceiptLedger ---------------------------
(***************************************************************************)
(* What the control room promises about plans that need approval, without  *)
(* the people and processes that approve them.  A plan is proposed once;   *)
(* while its receipt is open it is rejected or spent, never both, and not  *)
(* spent once it has lapsed; only a spent receipt acts, each part of its   *)
(* plan once; it is recorded as applied when every part is done; and a     *)
(* change of the agent acts at the very revision it was proposed for.      *)
(* Approvals.tla is shown to implement this module.                        *)
(***************************************************************************)
EXTENDS Integers

CONSTANTS
  Plans,     \* approval identities
  PlanKinds, \* what a plan may be
  Nothing,   \* the kind of a plan not proposed
  Two        \* the kinds whose plan has two parts

VARIABLES
  phase,     \* Plans -> "absent" | "pending" | "lapsed" | "executing" | "applied" | "rejected"
  kind,      \* Plans -> PlanKinds, or Nothing
  basis,     \* Plans -> the agent's revision the plan was proposed for
  done,      \* Plans -> the parts that took effect
  revision,  \* the agent's revision
  memory     \* version of the agent's memory

ledger == <<phase, kind, basis, done, revision, memory>>

Size(id) == IF kind[id] \in Two THEN 2 ELSE 1

Blank ==
  /\ phase = [id \in Plans |-> "absent"]
  /\ kind = [id \in Plans |-> Nothing]
  /\ basis = [id \in Plans |-> 0]
  /\ done = [id \in Plans |-> 0]
  /\ revision = 1
  /\ memory = 0

Turns(id, from, to) ==
  /\ phase[id] \in from
  /\ phase' = [phase EXCEPT ![id] = to]
  /\ UNCHANGED <<done, revision, memory>>

\* The plan of a new agent names no revision.
Propose(id, k) ==
  /\ Turns(id, {"absent"}, "pending")
  /\ kind' = [kind EXCEPT ![id] = k]
  /\ basis' = [basis EXCEPT ![id] = IF k = "create" THEN 0 ELSE revision]

Refuse(id) == Turns(id, {"pending", "lapsed"}, "rejected") /\ UNCHANGED <<kind, basis>>
Lapse(id) == Turns(id, {"pending"}, "lapsed") /\ UNCHANGED <<kind, basis>>
Spend(id) == Turns(id, {"pending"}, "executing") /\ UNCHANGED <<kind, basis>>

Settle(id) ==
  /\ done[id] = Size(id)
  /\ Turns(id, {"executing"}, "applied")
  /\ UNCHANGED <<kind, basis>>

\* One part of a spent plan takes effect.
Act(id) ==
  /\ phase[id] = "executing"
  /\ done[id] < Size(id)
  /\ done' = [done EXCEPT ![id] = @ + 1]
  /\ CASE kind[id] = "configure" ->
            revision = basis[id] /\ revision' = revision + 1 /\ UNCHANGED memory
       [] kind[id] = "memory" ->
            revision = basis[id] /\ memory' = memory + 1 /\ UNCHANGED revision
       [] OTHER -> UNCHANGED <<revision, memory>>
  /\ UNCHANGED <<phase, kind, basis>>

\* People change the agent without a plan.
ByHand ==
  /\ \/ revision' = revision + 1 /\ UNCHANGED memory
     \/ memory' = memory + 1 /\ UNCHANGED revision
  /\ UNCHANGED <<phase, kind, basis, done>>

Step ==
  \/ \E id \in Plans :
       \/ \E k \in PlanKinds : Propose(id, k)
       \/ Refuse(id) \/ Lapse(id) \/ Spend(id) \/ Act(id) \/ Settle(id)
  \/ ByHand

Ledger == Blank /\ [][Step]_ledger
=============================================================================
