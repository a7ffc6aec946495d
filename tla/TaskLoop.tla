------------------------------ MODULE TaskLoop ------------------------------
(***************************************************************************)
(* The step loop of a task (agent.py TaskAgent.run): a small model asks    *)
(* for one tool call at a time or finishes, a provider and the tools may   *)
(* fail, and the loop ends with an answer, with the provider's error or at *)
(* its step budget.                                                        *)
(*                                                                         *)
(* One call of run() is sequential; what the model, the provider and the   *)
(* tools answer is chosen at every step.  A call is a tool with arguments; *)
(* what it returns is kept as ok, rejected or failed.                      *)
(***************************************************************************)
EXTENDS Integers, FiniteSets, Sequences

CONSTANTS
  Tools,                 \* names the model may say, permitted or not
  Listed,                \* allowed and installed: descriptions() in the prompt
  Destructive,           \* marked so: listed perhaps, but never invoked
  Recall,                \* memory_recall
  Arguments,             \* arguments the model may give
  MaxSteps,              \* max_task_steps (8)
  ProviderFailureLimit,  \* provider_failure_limit (3)
  FinishNudges,          \* finish_nudges (1)
  ToolFailureLimit       \* tool_failure_limit (2)

ASSUME ToolsAssumption == Listed \subseteq Tools

ASSUME LimitsAssumption ==
  /\ MaxSteps \in Nat \ {0}
  /\ ProviderFailureLimit \in Nat \ {0}
  /\ FinishNudges \in Nat
  /\ ToolFailureLimit \in Nat \ {0}

VARIABLES
  status,     \* running, or the status of the TaskResult
  step,       \* steps spent
  seen,       \* how each call ended, "no" before it was made
  attempted,  \* tools that were invoked
  failures,   \* tool_failures
  nudges,     \* push-backs of a finish
  broken,     \* provider_failures, in a row
  trace       \* what each step did

vars == <<status, step, seen, attempted, failures, nudges, broken, trace>>

Calls == Tools \X Arguments
Endings == {"ok", "rejected", "failed"}

\* What invoke lets through.
Permitted == Listed \ Destructive

\* What a step can do with the model's decision.
Events == {"provider_failed", "pushed_back", "unnamed", "repeated", "broken_tool",
           "finished"} \union Endings

Init ==
  /\ status = "new"
  /\ step = 0
  /\ seen = [c \in Calls |-> "no"]
  /\ attempted = {}
  /\ failures = [t \in Tools |-> 0]
  /\ nudges = 0
  /\ broken = 0
  /\ trace = <<>>

-----------------------------------------------------------------------------

\* The preflight recall: outside the budget, and not among the calls seen.
Preflight ==
  /\ status = "new"
  /\ status' = "running"
  /\ attempted' = {Recall} \intersect Listed
  /\ UNCHANGED <<step, seen, failures, nudges, broken, trace>>

\* Every branch of the loop spends one step and leaves one entry.
Spend(event, call) ==
  /\ status = "running"
  /\ step < MaxSteps
  /\ step' = step + 1
  /\ trace' = Append(trace, [event |-> event, call |-> call])

NoCall == <<>>

\* The loop's end is the end of the budget.
Continues == status' = IF step + 1 = MaxSteps THEN "step_limit" ELSE "running"

\* Mutated form: failures are counted over the whole run.
ResetNever == broken

Reset == 0

\* complete() raised: the run ends, or the model is told and tries again.
ProviderFails ==
  /\ Spend("provider_failed", NoCall)
  /\ broken' = broken + 1
  /\ IF broken + 1 >= ProviderFailureLimit THEN status' = "provider_error"
                                           ELSE Continues
  /\ UNCHANGED <<seen, attempted, failures, nudges>>

\* The push-back names what is listed, also a tool that invoke would refuse.
Untried == Listed \ attempted

PushesBack == Untried # {} /\ nudges < FinishNudges

PushBack ==
  /\ PushesBack
  /\ Spend("pushed_back", NoCall)
  /\ nudges' = nudges + 1
  /\ broken' = Reset
  /\ Continues
  /\ UNCHANGED <<seen, attempted, failures>>

\* A finish, or an answer labelled as a tool call without a tool.
Finish ==
  /\ ~PushesBack
  /\ Spend("finished", NoCall)
  /\ status' = "completed"
  /\ broken' = Reset
  /\ UNCHANGED <<seen, attempted, failures, nudges>>

\* A recovery without an invocation: no tool named, a call already made, a
\* tool that has failed too often.
Recover(event, call) ==
  /\ Spend(event, call)
  /\ broken' = Reset
  /\ Continues
  /\ UNCHANGED <<seen, attempted, failures, nudges>>

Unnamed == Recover("unnamed", NoCall)

\* Mutated form: only a call that succeeded counts as repeated.
RepeatedOk(c) == seen[c] = "ok"

Repeated(c) == seen[c] # "no"

\* Mutated form: the tool is given up one failure later.
GivenUpLate(t) == failures[t] > ToolFailureLimit

GivenUp(t) == failures[t] >= ToolFailureLimit

Repeat(c) == Repeated(c) /\ Recover("repeated", c)

Refuse(c) == ~Repeated(c) /\ GivenUp(c[1]) /\ Recover("broken_tool", c)

\* Permission and value errors, also those of the handler, are rejections;
\* any other exception is a failure of the tool.
Invoke(c) ==
  /\ ~Repeated(c)
  /\ ~GivenUp(c[1])
  /\ \E ending \in IF c[1] \in Permitted THEN Endings ELSE {"rejected"} :
       /\ Spend(ending, c)
       /\ seen' = [seen EXCEPT ![c] = ending]
       /\ failures' = IF ending = "failed" THEN [failures EXCEPT ![c[1]] = @ + 1]
                                           ELSE failures
  /\ attempted' = attempted \union {c[1]}
  /\ broken' = Reset
  /\ Continues
  /\ UNCHANGED nudges

Next ==
  \/ Preflight \/ ProviderFails \/ PushBack \/ Finish \/ Unnamed
  \/ \E c \in Calls : Repeat(c) \/ Refuse(c) \/ Invoke(c)

Spec == Init /\ [][Next]_vars

-----------------------------------------------------------------------------
(* Properties.                                                             *)

\* Every variable keeps its type, and the trace has an entry per step.
TypeOK ==
  /\ status \in {"new", "running", "completed", "provider_error", "step_limit"}
  /\ step \in 0..MaxSteps
  /\ seen \in [Calls -> Endings \union {"no"}]
  /\ attempted \subseteq Tools
  /\ failures \in [Tools -> 0..ToolFailureLimit]
  /\ nudges \in 0..FinishNudges
  /\ broken \in 0..ProviderFailureLimit
  /\ Len(trace) = step

Invoked(i) == trace[i].event \in Endings

\* No call is made twice by the steps of one run, whatever it returned and
\* whatever happened in between ("Repetition is the second most common
\* small-model loop failure", agent.py).
NoCallTwice ==
  \A i, j \in 1..Len(trace) :
    Invoked(i) /\ Invoked(j) /\ i # j => trace[i].call # trace[j].call

\* A tool is invoked at most ToolFailureLimit times with failure, however
\* the model varies the arguments, and not at all after the last of them.
BrokenToolLeftAlone ==
  \A i \in 1..Len(trace) :
    Invoked(i) =>
      Cardinality({j \in 1..i-1 : /\ trace[j].event = "failed"
                                  /\ trace[j].call[1] = trace[i].call[1]})
        < ToolFailureLimit

Answered == step > 0 /\ trace[step].event = "finished"

\* The last ProviderFailureLimit steps all failed for the provider.
ProviderGone ==
  /\ step >= ProviderFailureLimit
  /\ \A i \in step - ProviderFailureLimit + 1..step : trace[i].event = "provider_failed"

\* A run ends for a reason its trace shows: with an answer at the first finish
\* that is not pushed back; for its provider at once when, and only when, the
\* last ProviderFailureLimit steps in a row failed ("a model that drifts off
\* schema recovers; a model server that is misconfigured never does", and is
\* reported "instead of spending the budget and answering 'step limit'",
\* agent.py); at the step limit in no other case than a spent budget.
EndsForItsReason ==
  status # "new" =>
    /\ status = "completed" <=> Answered
    /\ status = "provider_error" <=> ProviderGone
    /\ status = "step_limit" <=> step = MaxSteps /\ ~Answered /\ ~ProviderGone

\* A finish offered with the last step of the budget is kept: the push-back
\* "is not repeated, so a genuinely toolless objective still finishes"
\* (agent.py).  It is not: task_loop_finish.cfg.
LastFinishKept ==
  status = "step_limit" => trace[Len(trace)].event # "pushed_back"
=============================================================================
