----------------------------- MODULE JobLedger -----------------------------
(***************************************************************************)
(* What the platform promises about background work, without leases,       *)
(* locks, heartbeats or processes.  A job is accepted once, may be         *)
(* withdrawn while nobody owns it, is taken by at most one worker in its   *)
(* whole life, has its turn begun at most once and only by that worker,    *)
(* and once settled it stays settled.  An agent never owns two jobs.       *)
(* Jobs.tla is shown to implement this module.                             *)
(***************************************************************************)
CONSTANTS
  Agents,   \* the registered agents
  Jobs,     \* job identities (uuid4 in the code)
  Workers,  \* worker processes; a process serves one job and is never reused
  Nobody    \* no worker, no agent

VARIABLES
  phase,    \* Jobs -> "absent" | "waiting" | "owned" | "settled"
  agentOf,  \* Jobs -> Agents, or Nobody before the job is accepted
  owner,    \* Jobs -> the worker that ever took the job, or Nobody
  begun     \* the jobs whose turn has begun

ledger == <<phase, agentOf, owner, begun>>

Phases == {"absent", "waiting", "owned", "settled"}

LedgerInit ==
  /\ phase = [j \in Jobs |-> "absent"]
  /\ agentOf = [j \in Jobs |-> Nobody]
  /\ owner = [j \in Jobs |-> Nobody]
  /\ begun = {}

\* An objective is recorded for agent a.
Accept(j, a) ==
  /\ phase[j] = "absent"
  /\ phase' = [phase EXCEPT ![j] = "waiting"]
  /\ agentOf' = [agentOf EXCEPT ![j] = a]
  /\ UNCHANGED <<owner, begun>>

\* Work nobody owns is cancelled outright.
Withdraw(j) ==
  /\ phase[j] = "waiting"
  /\ phase' = [phase EXCEPT ![j] = "settled"]
  /\ UNCHANGED <<agentOf, owner, begun>>

\* One worker takes the job while the agent owns no other.
Take(w, j) ==
  /\ phase[j] = "waiting"
  /\ \A k \in Jobs : phase[k] = "owned" => agentOf[k] # agentOf[j]
  /\ phase' = [phase EXCEPT ![j] = "owned"]
  /\ owner' = [owner EXCEPT ![j] = w]
  /\ UNCHANGED <<agentOf, begun>>

\* The turn begins, once.  The job may have been settled as "needs review"
\* in between: a late start is reported for review, never repeated.
Begin(w, j) ==
  /\ owner[j] = w
  /\ j \notin begun
  /\ begun' = begun \union {j}
  /\ UNCHANGED <<phase, agentOf, owner>>

\* Jobs owned so far get their terminal status: one job when its worker
\* reports, several when a reconciliation settles all lapsed leases at once.
Settle(S) ==
  /\ S # {}
  /\ \A j \in S : phase[j] = "owned"
  /\ phase' = [j \in Jobs |-> IF j \in S THEN "settled" ELSE phase[j]]
  /\ UNCHANGED <<agentOf, owner, begun>>

LedgerNext ==
  \/ \E j \in Jobs, a \in Agents : Accept(j, a)
  \/ \E j \in Jobs : Withdraw(j)
  \/ \E w \in Workers, j \in Jobs : Take(w, j) \/ Begin(w, j)
  \/ \E S \in SUBSET Jobs : Settle(S)

LedgerSpec == LedgerInit /\ [][LedgerNext]_ledger
=============================================================================
