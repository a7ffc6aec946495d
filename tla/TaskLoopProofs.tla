--------------------------- MODULE TaskLoopProofs ---------------------------
(***************************************************************************)
(* What the step loop of a task guarantees for every set of tools and      *)
(* arguments and every budget: its types, that no call is made twice, that *)
(* a broken tool is left alone, and that a run ends for the reason its     *)
(* trace shows.                                                            *)
(***************************************************************************)
EXTENDS TaskLoop, FiniteSetTheorems, TLAPS

Entries == [event : Events, call : Calls \union {NoCall}]

TypeInv ==
  /\ status \in {"new", "running", "completed", "provider_error", "step_limit"}
  /\ step \in 0..MaxSteps
  /\ seen \in [Calls -> Endings \union {"no"}]
  /\ attempted \subseteq Tools
  /\ failures \in [Tools -> 0..ToolFailureLimit]
  /\ nudges \in 0..FinishNudges
  /\ broken \in 0..ProviderFailureLimit
  /\ status \in {"new", "running"} => broken < ProviderFailureLimit
  /\ trace \in Seq(Entries)
  /\ Len(trace) = step

\* A call that was made is remembered: the trace is never ahead of seen.
Remembered ==
  \A i \in 1..Len(trace) :
    Invoked(i) => trace[i].call \in Calls /\ seen[trace[i].call] # "no"

\* The counter of provider failures counts the end of the trace, and no more.
StreakIsRecent ==
  /\ broken <= step
  /\ \A i \in step - broken + 1..step : trace[i].event = "provider_failed"
  /\ broken < step => trace[step - broken].event # "provider_failed"

\* The counters decide how a run goes on.
Decided ==
  /\ status = "new" => step = 0
  /\ status = "running" => step < MaxSteps /\ ~Answered
  /\ status = "completed" => Answered
  /\ status = "provider_error" <=> broken = ProviderFailureLimit
  /\ status = "step_limit" => step = MaxSteps /\ ~Answered

\* The entries before the i-th in which the tool failed.
FailedBefore(i, t) ==
  {j \in 1..i-1 : trace[j].event = "failed" /\ trace[j].call[1] = t}

FailuresCounted ==
  \A t \in Tools : failures[t] = Cardinality(FailedBefore(Len(trace) + 1, t))

-----------------------------------------------------------------------------

\* A step that spends budget leaves the trace as it was but for its last entry.
LEMMA SpendFacts ==
  ASSUME TypeInv, NEW e \in Events, NEW c \in Calls \union {NoCall}, Spend(e, c)
  PROVE  /\ status = "running" /\ step \in 0..MaxSteps-1
         /\ step' = step + 1 /\ step' \in 0..MaxSteps
         /\ trace' \in Seq(Entries) /\ Len(trace') = step'
         /\ \A i \in 1..step : trace'[i] = trace[i]
         /\ trace'[step + 1] = [event |-> e, call |-> c]
         /\ trace'[step + 1].event = e /\ trace'[step + 1].call = c
         /\ Len(trace) = step /\ step \in Nat
<1> DEFINE x == [event |-> e, call |-> c]
<1>1. x \in Entries
  BY DEF Entries
<1>2. step \in Nat /\ MaxSteps \in Nat /\ step < MaxSteps
  BY LimitsAssumption DEF TypeInv, Spend
<1>3. trace' = Append(trace, x) /\ step' = step + 1 /\ status = "running"
  BY DEF Spend
<1>4. /\ Append(trace, x) \in Seq(Entries)
      /\ Len(Append(trace, x)) = Len(trace) + 1
      /\ \A i \in 1..Len(trace) : Append(trace, x)[i] = trace[i]
      /\ Append(trace, x)[Len(trace) + 1] = x
  BY <1>1 DEF TypeInv
<1>5. x.event = e /\ x.call = c
  OBVIOUS
<1> QED BY <1>2, <1>3, <1>4, <1>5 DEF TypeInv

\* Every step is one of these; an invocation is in Calls and unseen.
LEMMA Alternatives ==
  ASSUME Next
  PROVE  \/ Preflight \/ ProviderFails \/ PushBack \/ Finish \/ Unnamed
         \/ \E c \in Calls : Repeat(c)
         \/ \E c \in Calls : Refuse(c)
         \/ \E c \in Calls : Invoke(c)
BY DEF Next

\* The steps that only lose one step of the budget.
Idle(e, c) ==
  /\ Spend(e, c)
  /\ broken' = 0
  /\ status' \in {"running", "step_limit", "completed"}
  /\ nudges' \in {nudges, nudges + 1}
  /\ nudges' # nudges => nudges < FinishNudges
  /\ UNCHANGED <<seen, attempted, failures>>

\* The steps without an invocation leave the calls, the tools and their failures alone.
LEMMA IdleSteps ==
  ASSUME TypeInv, PushBack \/ Finish \/ Unnamed \/ \E c \in Calls : Repeat(c) \/ Refuse(c)
  PROVE  \E e \in Events \ (Endings \union {"provider_failed"}),
            c \in Calls \union {NoCall} : Idle(e, c)
<1> USE DEF Events, Endings, Reset, Continues, Idle
<1>1. CASE PushBack
  <2>1. "pushed_back" \in Events \ (Endings \union {"provider_failed"})
    OBVIOUS
  <2>2. Idle("pushed_back", NoCall)
    BY <1>1 DEF PushBack, PushesBack
  <2> QED BY <2>1, <2>2
<1>2. CASE Finish
  <2>1. "finished" \in Events \ (Endings \union {"provider_failed"})
    OBVIOUS
  <2>2. Idle("finished", NoCall)
    BY <1>2 DEF Finish
  <2> QED BY <2>1, <2>2
<1>3. CASE Unnamed
  <2>1. "unnamed" \in Events \ (Endings \union {"provider_failed"})
    OBVIOUS
  <2>2. Idle("unnamed", NoCall)
    BY <1>3 DEF Unnamed, Recover
  <2> QED BY <2>1, <2>2
<1>4. CASE \E c \in Calls : Repeat(c) \/ Refuse(c)
  <2>1. {"repeated", "broken_tool"} \subseteq Events \ (Endings \union {"provider_failed"})
    OBVIOUS
  <2>2. PICK c \in Calls : Repeat(c) \/ Refuse(c)
    BY <1>4
  <2>3. Idle("repeated", c) \/ Idle("broken_tool", c)
    BY <2>2 DEF Repeat, Refuse, Recover
  <2> QED BY <2>1, <2>3
<1> QED BY <1>1, <1>2, <1>3, <1>4

-----------------------------------------------------------------------------

\* The typing holds at the start of a run.
LEMMA TypeInit == Init => TypeInv
BY LimitsAssumption DEF Init, TypeInv

\* Every step keeps the typing.
LEMMA TypeStep == TypeInv /\ [Next]_vars => TypeInv'
<1> SUFFICES ASSUME TypeInv, [Next]_vars PROVE TypeInv'
  OBVIOUS
<1> USE LimitsAssumption
<1>1. CASE Preflight
  BY <1>1, ToolsAssumption DEF Preflight, TypeInv
<1>2. CASE ProviderFails
  <2>1. "provider_failed" \in Events
    BY DEF Events
  <2>2. Spend("provider_failed", NoCall)
    BY <1>2 DEF ProviderFails
  <2>3. /\ step' \in 0..MaxSteps /\ trace' \in Seq(Entries) /\ Len(trace') = step'
        /\ status = "running"
    BY <2>1, <2>2, SpendFacts
  <2>4. broken + 1 \in 1..ProviderFailureLimit
    BY <2>3 DEF TypeInv
  <2>5. /\ status' \in {"running", "step_limit", "provider_error"}
        /\ status' = "running" => broken' < ProviderFailureLimit
    BY <1>2, <2>4 DEF ProviderFails, Continues
  <2> QED BY <1>2, <2>3, <2>4, <2>5 DEF ProviderFails, TypeInv
<1>3. CASE PushBack \/ Finish \/ Unnamed \/ \E c \in Calls : Repeat(c) \/ Refuse(c)
  <2>1. PICK e \in Events, c \in Calls \union {NoCall} : Idle(e, c)
    BY <1>3, IdleSteps
  <2>2. /\ step' \in 0..MaxSteps /\ trace' \in Seq(Entries) /\ Len(trace') = step'
    BY <2>1, SpendFacts DEF Idle
  <2>3. nudges' \in 0..FinishNudges
    BY <2>1 DEF Idle, TypeInv
  <2> QED BY <2>1, <2>2, <2>3 DEF Idle, TypeInv
<1>4. CASE \E c \in Calls : Invoke(c)
  <2>1. PICK c \in Calls : Invoke(c)
    BY <1>4
  <2>2. PICK e \in Endings :
          /\ Spend(e, c)
          /\ seen' = [seen EXCEPT ![c] = e]
          /\ failures' = IF e = "failed" THEN [failures EXCEPT ![c[1]] = @ + 1]
                                         ELSE failures
    BY <2>1 DEF Invoke, Endings
  <2>3. /\ step' \in 0..MaxSteps /\ trace' \in Seq(Entries) /\ Len(trace') = step'
    BY <2>2, SpendFacts DEF Events
  <2>4. c[1] \in Tools
    BY DEF Calls
  <2>5. seen' \in [Calls -> Endings \union {"no"}]
    BY <2>2 DEF TypeInv
  <2>6. failures[c[1]] \in 0..ToolFailureLimit /\ failures[c[1]] < ToolFailureLimit
    BY <2>1, <2>4 DEF Invoke, GivenUp, TypeInv
  <2>7. failures' \in [Tools -> 0..ToolFailureLimit]
    BY <2>2, <2>4, <2>6 DEF TypeInv
  <2>8. status' \in {"running", "step_limit"} /\ attempted' \subseteq Tools
        /\ broken' = 0 /\ nudges' = nudges
    BY <2>1, <2>4 DEF Invoke, Continues, Reset, TypeInv
  <2> QED BY <2>3, <2>5, <2>7, <2>8 DEF TypeInv
<1>5. CASE UNCHANGED vars
  BY <1>5 DEF vars, TypeInv
<1> QED BY <1>1, <1>2, <1>3, <1>4, <1>5, Alternatives

\* The type invariant the runs check holds of every run of the loop, for every
\* budget and limits.
THEOREM TypesHold == Spec => []TypeOK
<1>1. TypeInv => TypeOK
  BY DEF TypeInv, TypeOK
<1> QED BY <1>1, TypeInit, TypeStep, PTL DEF Spec

\* The typing is an invariant.
LEMMA TypeAlways == Spec => []TypeInv
BY TypeInit, TypeStep, PTL DEF Spec

-----------------------------------------------------------------------------

\* What the three kinds of spending steps do to the counters.
LEMMA StepKinds ==
  ASSUME TypeInv, [Next]_vars
  PROVE  \/ UNCHANGED <<step, seen, failures, broken, trace>>
            /\ status' \in {status, "running"}
         \/ /\ Spend("provider_failed", NoCall)
            /\ broken' = broken + 1
            /\ status' = "provider_error" => broken + 1 >= ProviderFailureLimit
            /\ UNCHANGED <<seen, failures>>
         \/ \E e \in Events \ (Endings \union {"provider_failed"}),
               c \in Calls \union {NoCall} : Idle(e, c)
         \/ \E e \in Endings, c \in Calls :
              /\ Spend(e, c)
              /\ ~Repeated(c) /\ ~GivenUp(c[1])
              /\ seen' = [seen EXCEPT ![c] = e]
              /\ failures' = IF e = "failed" THEN [failures EXCEPT ![c[1]] = @ + 1]
                                             ELSE failures
              /\ broken' = 0 /\ status' # "provider_error"
<1>1. CASE Preflight \/ UNCHANGED vars
  BY <1>1 DEF Preflight, vars
<1>2. CASE ProviderFails
  BY <1>2 DEF ProviderFails, Continues
<1>3. CASE PushBack \/ Finish \/ Unnamed \/ \E c \in Calls : Repeat(c) \/ Refuse(c)
  BY <1>3, IdleSteps
<1>4. CASE \E c \in Calls : Invoke(c)
  <2>1. PICK c \in Calls : Invoke(c)
    BY <1>4
  <2>2. PICK e \in Endings :
          /\ Spend(e, c)
          /\ seen' = [seen EXCEPT ![c] = e]
          /\ failures' = IF e = "failed" THEN [failures EXCEPT ![c[1]] = @ + 1]
                                         ELSE failures
    BY <2>1 DEF Invoke, Endings
  <2>3. ~Repeated(c) /\ ~GivenUp(c[1]) /\ broken' = 0 /\ status' # "provider_error"
    BY <2>1 DEF Invoke, Continues, Reset
  <2> QED BY <2>2, <2>3
<1> QED BY <1>1, <1>2, <1>3, <1>4, Alternatives

-----------------------------------------------------------------------------
(* A call is made once.                                                    *)

\* At the start nothing has been called.
LEMMA OnceInit == Init => Remembered /\ NoCallTwice
BY DEF Init, Remembered, NoCallTwice

\* Every step remembers its call, and makes none that is remembered.
LEMMA OnceStep ==
  TypeInv /\ Remembered /\ NoCallTwice /\ [Next]_vars => Remembered' /\ NoCallTwice'
<1> SUFFICES ASSUME TypeInv, Remembered, NoCallTwice, [Next]_vars
             PROVE  Remembered' /\ NoCallTwice'
  OBVIOUS
<1>1. CASE UNCHANGED <<step, seen, failures, broken, trace>>
  BY <1>1 DEF Remembered, NoCallTwice, Invoked
<1>2. ASSUME NEW e \in Events \ Endings, NEW c \in Calls \union {NoCall},
             Spend(e, c), UNCHANGED seen
      PROVE  Remembered' /\ NoCallTwice'
  <2>1. /\ Len(trace') = step + 1 /\ Len(trace) = step /\ step \in Nat
        /\ \A i \in 1..step : trace'[i] = trace[i]
        /\ trace'[step + 1].event = e
    BY <1>2, SpendFacts
  <2>2. \A i \in 1..Len(trace') : Invoked(i)' => i \in 1..step /\ Invoked(i)
    BY <2>1 DEF Invoked
  <2> QED BY <1>2, <2>1, <2>2 DEF Remembered, NoCallTwice
<1>3. ASSUME NEW e \in Endings, NEW c \in Calls,
             Spend(e, c), ~Repeated(c), seen' = [seen EXCEPT ![c] = e]
      PROVE  Remembered' /\ NoCallTwice'
  <2>1. e \in Events
    BY DEF Events
  <2>2. /\ Len(trace') = step + 1 /\ Len(trace) = step /\ step \in Nat
        /\ \A i \in 1..step : trace'[i] = trace[i]
        /\ trace'[step + 1].call = c
    BY <1>3, <2>1, SpendFacts
  <2>3. seen[c] = "no" /\ seen'[c] # "no"
        /\ \A d \in Calls : seen[d] # "no" => seen'[d] # "no"
    BY <1>3 DEF Repeated, TypeInv, Endings
  <2>4. \A i \in 1..step : Invoked(i)' => /\ Invoked(i)
                                          /\ trace[i].call \in Calls
                                          /\ seen[trace[i].call] # "no"
    BY <2>2 DEF Remembered, Invoked
  <2>5. Remembered'
    BY <2>2, <2>3, <2>4 DEF Remembered
  <2>6. NoCallTwice'
    BY <2>2, <2>3, <2>4 DEF NoCallTwice
  <2> QED BY <2>5, <2>6
<1>4. CASE Spend("provider_failed", NoCall) /\ UNCHANGED seen
  BY <1>2, <1>4 DEF Events, Endings
<1>5. CASE \E e \in Events \ (Endings \union {"provider_failed"}),
              c \in Calls \union {NoCall} : Idle(e, c)
  BY <1>2, <1>5 DEF Idle
<1> QED BY <1>1, <1>3, <1>4, <1>5, StepKinds

\* No run of the loop makes a call twice, whatever it returned.
THEOREM CallsAreMadeOnce == Spec => []NoCallTwice
BY TypeInit, TypeStep, OnceInit, OnceStep, PTL DEF Spec

-----------------------------------------------------------------------------
(* A run ends for its reason.                                              *)

\* A step that is not a failure of the provider: how it ends the run, if it does.
Proceeds(e) ==
  /\ e # "provider_failed" /\ broken' = 0
  /\ \/ e = "finished" /\ status' = "completed"
     \/ e # "finished" /\ Continues

\* Every step starts the run, is a failure of the provider, or proceeds.
LEMMA Outcomes ==
  ASSUME TypeInv, [Next]_vars
  PROVE  \/ UNCHANGED vars
         \/ status = "new" /\ status' = "running" /\ UNCHANGED <<step, broken, trace>>
         \/ ProviderFails
         \/ \E e \in Events, c \in Calls \union {NoCall} : Spend(e, c) /\ Proceeds(e)
<1> USE DEF Events, Endings, Reset, Proceeds
<1>1. CASE Preflight
  BY <1>1 DEF Preflight
<1>2. CASE PushBack
  BY <1>2 DEF PushBack
<1>3. CASE Finish
  BY <1>3 DEF Finish
<1>4. CASE Unnamed
  BY <1>4 DEF Unnamed, Recover
<1>5. CASE \E c \in Calls : Repeat(c)
  BY <1>5 DEF Repeat, Recover
<1>6. CASE \E c \in Calls : Refuse(c)
  BY <1>6 DEF Refuse, Recover
<1>7. ASSUME NEW c \in Calls, Invoke(c)
      PROVE  \E e \in Events : Spend(e, c) /\ Proceeds(e)
  <2>1. PICK e \in Endings : Spend(e, c)
    BY <1>7 DEF Invoke
  <2> QED BY <1>7, <2>1 DEF Invoke
<1> QED BY <1>1, <1>2, <1>3, <1>4, <1>5, <1>6, <1>7, Alternatives

\* At the start no provider failure is counted and the run has not begun.
LEMMA StreakInit == Init => StreakIsRecent /\ Decided
BY LimitsAssumption DEF Init, StreakIsRecent, Decided

\* Every step keeps the count the length of the last streak, and ends the run
\* only as the counters say.
LEMMA StreakStep ==
  TypeInv /\ StreakIsRecent /\ Decided /\ [Next]_vars => StreakIsRecent' /\ Decided'
<1> SUFFICES ASSUME TypeInv, StreakIsRecent, Decided, [Next]_vars
             PROVE  StreakIsRecent' /\ Decided'
  OBVIOUS
<1> USE LimitsAssumption
<1>0. /\ step \in Nat /\ step \in 0..MaxSteps
      /\ broken \in 0..ProviderFailureLimit /\ TypeInv'
  BY TypeStep DEF TypeInv
<1>1. CASE UNCHANGED vars
  BY <1>1 DEF vars, StreakIsRecent, Decided, Answered
<1>2. CASE status = "new" /\ status' = "running" /\ UNCHANGED <<step, broken, trace>>
  BY <1>0, <1>2 DEF StreakIsRecent, Decided, Answered, TypeInv
<1>3. CASE ProviderFails
  <2>0. "provider_failed" \in Events /\ Spend("provider_failed", NoCall)
    BY <1>3 DEF Events, ProviderFails
  <2>1. /\ status = "running" /\ step' = step + 1
        /\ \A i \in 1..step : trace'[i] = trace[i]
        /\ trace'[step + 1].event = "provider_failed"
    BY <2>0, SpendFacts
  <2>2. broken' = broken + 1 /\ broken < ProviderFailureLimit
    BY <1>3, <2>1 DEF ProviderFails, TypeInv
  <2>3. \A i \in step' - broken' + 1..step' : trace'[i].event = "provider_failed"
    BY <1>0, <2>1, <2>2 DEF StreakIsRecent
  <2>4. broken' <= step' /\ step' - broken' = step - broken
    BY <1>0, <2>1, <2>2 DEF StreakIsRecent
  <2>5. broken' < step' => trace'[step' - broken'].event # "provider_failed"
    BY <1>0, <2>1, <2>2, <2>4 DEF StreakIsRecent
  <2>6. StreakIsRecent'
    BY <2>3, <2>4, <2>5 DEF StreakIsRecent
  <2>7. ~Answered'
    BY <2>1 DEF Answered
  <2>8. \/ status' = "provider_error" /\ broken' = ProviderFailureLimit
        \/ /\ broken' # ProviderFailureLimit
           /\ status' = IF step' = MaxSteps THEN "step_limit" ELSE "running"
    BY <1>0, <1>3, <2>1, <2>2 DEF ProviderFails, Continues
  <2>9. step' \in 0..MaxSteps
    BY <1>0 DEF TypeInv
  <2>10. Decided'
    BY <2>7, <2>8, <2>9 DEF Decided
  <2> QED BY <2>6, <2>10
<1>4. ASSUME NEW e \in Events, NEW c \in Calls \union {NoCall}, Spend(e, c), Proceeds(e)
      PROVE  StreakIsRecent' /\ Decided'
  <2>1. /\ step' = step + 1 /\ step' \in 0..MaxSteps
        /\ trace'[step + 1].event = e
    BY <1>4, SpendFacts
  <2>2. StreakIsRecent'
    BY <1>0, <1>4, <2>1 DEF StreakIsRecent, Proceeds
  <2>3. Answered' <=> e = "finished"
    BY <1>0, <2>1 DEF Answered
  <2>4. Decided'
    BY <1>0, <1>4, <2>1, <2>3 DEF Decided, Proceeds, Continues
  <2> QED BY <2>2, <2>4
<1> QED BY <1>1, <1>2, <1>3, <1>4, Outcomes

\* The counter reaches its limit when the last failures in a row do.
LEMMA GoneIsCounted ==
  ASSUME TypeInv, StreakIsRecent
  PROVE  ProviderGone <=> broken = ProviderFailureLimit
<1> USE LimitsAssumption
<1>0. step \in Nat /\ broken \in 0..ProviderFailureLimit
  BY DEF TypeInv
<1>1. broken = ProviderFailureLimit => ProviderGone
  BY <1>0 DEF StreakIsRecent, ProviderGone
<1>2. ASSUME ProviderGone, broken < ProviderFailureLimit PROVE FALSE
  <2>1. broken < step /\ step - broken \in step - ProviderFailureLimit + 1..step
    BY <1>0, <1>2 DEF ProviderGone
  <2> QED BY <1>2, <2>1 DEF ProviderGone, StreakIsRecent
<1> QED BY <1>0, <1>1, <1>2

\* A run ends with an answer, for its provider or at the step limit, each for
\* the reason its trace shows and no other, for every limit and every budget.
THEOREM EndsWithReason == Spec => []EndsForItsReason
<1>1. ASSUME TypeInv, StreakIsRecent, Decided
      PROVE  EndsForItsReason
  <2>1. ProviderGone <=> broken = ProviderFailureLimit
    BY <1>1, GoneIsCounted
  <2>2. ~(Answered /\ ProviderGone)
    BY <1>1, LimitsAssumption DEF Answered, ProviderGone, TypeInv
  <2>3. status \in {"new", "running", "completed", "provider_error", "step_limit"}
    BY <1>1 DEF TypeInv
  <2>4. status = "running" => step # MaxSteps /\ ~Answered
    BY <1>1, LimitsAssumption DEF Decided, TypeInv
  <2> QED BY <1>1, <2>1, <2>2, <2>3, <2>4 DEF EndsForItsReason, Decided
<1> QED BY <1>1, TypeInit, TypeStep, StreakInit, StreakStep, PTL DEF Spec

-----------------------------------------------------------------------------
(* A broken tool is left alone.                                            *)

\* The failed calls of a tool are finitely many.
LEMMA FailedFinite ==
  ASSUME NEW n \in Nat, NEW t
  PROVE  IsFiniteSet(FailedBefore(n + 1, t))
<1>1. IsFiniteSet(1..n)
  BY FS_Interval
<1>2. FailedBefore(n + 1, t) \subseteq 1..n
  BY DEF FailedBefore
<1> QED BY <1>1, <1>2, FS_Subset

\* Entries are only added: what failed before an entry stays what it was.
LEMMA PastIsFixed ==
  ASSUME NEW n \in Nat, n = step, TypeInv,
         NEW e \in Events, NEW c \in Calls \union {NoCall}, Spend(e, c)
  PROVE  /\ \A i \in 1..n + 1, t \in Tools : FailedBefore(i, t)' = FailedBefore(i, t)
         /\ \A t \in Tools : FailedBefore(n + 2, t)' =
              IF e = "failed" /\ c[1] = t THEN FailedBefore(n + 1, t) \union {n + 1}
                                          ELSE FailedBefore(n + 1, t)
<1>1. /\ \A i \in 1..n : trace'[i] = trace[i]
      /\ trace'[n + 1] = [event |-> e, call |-> c]
  BY SpendFacts DEF TypeInv
<1>2. \A i \in 1..n + 1, t \in Tools : FailedBefore(i, t)' = FailedBefore(i, t)
  BY <1>1 DEF FailedBefore
<1>3. ASSUME NEW t \in Tools
      PROVE  FailedBefore(n + 2, t)' =
               IF e = "failed" /\ c[1] = t THEN FailedBefore(n + 1, t) \union {n + 1}
                                           ELSE FailedBefore(n + 1, t)
  <2> DEFINE F == {j \in 1..n + 1 : trace'[j].event = "failed" /\ trace'[j].call[1] = t}
             P == {j \in 1..n : trace[j].event = "failed" /\ trace[j].call[1] = t}
  <2>1. F = P \union {j \in {n + 1} : e = "failed" /\ c[1] = t}
    BY <1>1
  <2>2. FailedBefore(n + 1, t) = P
    BY <1>1 DEF FailedBefore
  <2>3. FailedBefore(n + 2, t)' =
          {j \in 1..n + 2 - 1 : trace'[j].event = "failed" /\ trace'[j].call[1] = t}
    BY <1>2 DEF FailedBefore
  <2>4. n + 2 - 1 = n + 1
    BY <1>1
  <2> QED BY <2>1, <2>2, <2>3, <2>4
<1> QED BY <1>2, <1>3

\* At the start no failure is counted.
LEMMA FailuresInit == Init => FailuresCounted /\ BrokenToolLeftAlone
<1> SUFFICES ASSUME Init PROVE FailuresCounted /\ BrokenToolLeftAlone
  OBVIOUS
<1>1. \A t \in Tools : FailedBefore(Len(trace) + 1, t) = {}
  BY DEF Init, FailedBefore
<1> QED BY <1>1, FS_EmptySet DEF Init, FailuresCounted, BrokenToolLeftAlone

\* Every step keeps the counters of failures what the trace says.
LEMMA FailuresStep ==
  TypeInv /\ Remembered /\ FailuresCounted /\ BrokenToolLeftAlone /\ [Next]_vars
    => FailuresCounted' /\ BrokenToolLeftAlone'
<1> SUFFICES ASSUME TypeInv, Remembered, FailuresCounted, BrokenToolLeftAlone, [Next]_vars
             PROVE  FailuresCounted' /\ BrokenToolLeftAlone'
  OBVIOUS
<1>0. PICK n \in Nat : n = step /\ Len(trace) = n
  BY DEF TypeInv
<1>1. CASE UNCHANGED <<step, seen, failures, broken, trace>>
  BY <1>1 DEF FailuresCounted, BrokenToolLeftAlone, FailedBefore, Invoked
<1>2. ASSUME NEW e \in Events, NEW c \in Calls \union {NoCall}, Spend(e, c),
             NEW i \in 1..n, NEW t \in Tools, Invoked(i)', trace[i].call[1] = t
      PROVE  Cardinality(FailedBefore(i, t)') < ToolFailureLimit
  <2>1. trace'[i] = trace[i]
    BY <1>0, <1>2, SpendFacts
  <2>2. Invoked(i) /\ i \in 1..Len(trace)
    BY <1>0, <1>2, <2>1 DEF Invoked
  <2>3. Cardinality(FailedBefore(i, t)) < ToolFailureLimit
    BY <1>2, <2>2 DEF BrokenToolLeftAlone, FailedBefore
  <2>4. FailedBefore(i, t)' = FailedBefore(i, t)
    BY <1>0, <1>2, PastIsFixed
  <2> QED BY <2>3, <2>4
<1>3. ASSUME NEW e \in Events, NEW c \in Calls \union {NoCall}, Spend(e, c),
             e \in Endings => c \in Calls /\ ~GivenUp(c[1])
      PROVE  BrokenToolLeftAlone'
  <2>1. /\ Len(trace') = n + 1
        /\ \A i \in 1..n : trace'[i] = trace[i]
        /\ trace'[n + 1].event = e /\ trace'[n + 1].call = c
    BY <1>0, <1>3, SpendFacts
  <2>2. ASSUME NEW i \in 1..n, Invoked(i)', NEW t, t = trace'[i].call[1]
        PROVE  Cardinality(FailedBefore(i, t)') < ToolFailureLimit
    <3>1. trace'[i] = trace[i] /\ Invoked(i) /\ i \in 1..Len(trace)
      BY <1>0, <2>1, <2>2 DEF Invoked
    <3>2. t = trace[i].call[1] /\ t \in Tools
      BY <2>2, <3>1 DEF Remembered, Calls
    <3> QED BY <1>2, <1>3, <2>2, <3>2
  <2>3. ASSUME Invoked(n + 1)', NEW t, t = c[1]
        PROVE  Cardinality(FailedBefore(n + 1, t)') < ToolFailureLimit
    <3>1. e \in Endings
      BY <1>0, <2>1, <2>3 DEF Invoked
    <3>2. t \in Tools /\ failures[t] < ToolFailureLimit
      BY <1>3, <2>3, <3>1, LimitsAssumption DEF GivenUp, Calls, TypeInv
    <3>3. FailedBefore(n + 1, t)' = FailedBefore(n + 1, t)
      BY <1>0, <1>3, <3>2, PastIsFixed
    <3> QED BY <1>0, <3>2, <3>3 DEF FailuresCounted
  <2>4. ASSUME NEW i \in 1..n + 1, Invoked(i)', NEW t, t = trace'[i].call[1]
        PROVE  Cardinality(FailedBefore(i, t)') < ToolFailureLimit
    <3>1. CASE i \in 1..n
      BY <2>2, <2>4, <3>1
    <3>2. CASE i = n + 1
      BY <1>0, <2>1, <2>3, <2>4, <3>2
    <3> QED BY <3>1, <3>2
  <2> QED BY <1>0, <2>1, <2>4 DEF BrokenToolLeftAlone, FailedBefore
<1>4. ASSUME NEW e \in Events, NEW c \in Calls \union {NoCall}, Spend(e, c),
             failures' = IF e = "failed" THEN [failures EXCEPT ![c[1]] = @ + 1]
                                         ELSE failures
      PROVE  FailuresCounted'
  <2>1. Len(trace') = step' /\ step' = step + 1
    BY <1>0, <1>4, SpendFacts
  <2>2. Len(trace') + 1 = n + 2
    BY <1>0, <2>1
  <2>3. ASSUME NEW t \in Tools
        PROVE  failures'[t] = Cardinality(FailedBefore(n + 2, t)')
    <3> DEFINE P == FailedBefore(n + 1, t)
    <3>1. IsFiniteSet(P)
      BY FailedFinite
    <3>2. failures[t] = Cardinality(P)
      BY <1>0 DEF FailuresCounted
    <3>3. n + 1 \notin P
      BY <1>0 DEF FailedBefore
    <3>4. Cardinality(P \union {n + 1}) = failures[t] + 1
      BY <3>1, <3>2, <3>3, FS_AddElement
    <3>5. failures'[t] = IF e = "failed" /\ c[1] = t THEN failures[t] + 1 ELSE failures[t]
      BY <1>4 DEF TypeInv
    <3>6. FailedBefore(n + 2, t)' =
            IF e = "failed" /\ c[1] = t THEN P \union {n + 1} ELSE P
      BY <1>0, <1>4, PastIsFixed
    <3> QED BY <3>2, <3>4, <3>5, <3>6
  <2> QED BY <2>2, <2>3 DEF FailuresCounted
<1>5. CASE Spend("provider_failed", NoCall) /\ UNCHANGED failures
  BY <1>3, <1>4, <1>5 DEF Events, Endings
<1>6. CASE \E e \in Events \ (Endings \union {"provider_failed"}),
              c \in Calls \union {NoCall} : Idle(e, c)
  BY <1>3, <1>4, <1>6 DEF Idle, Endings
<1>7. CASE \E e \in Endings, c \in Calls :
              /\ Spend(e, c) /\ ~GivenUp(c[1])
              /\ failures' = IF e = "failed" THEN [failures EXCEPT ![c[1]] = @ + 1]
                                             ELSE failures
  BY <1>3, <1>4, <1>7 DEF Events
<1> QED BY <1>1, <1>5, <1>6, <1>7, StepKinds

\* A tool that failed ToolFailureLimit times is not invoked again, for every
\* set of tools and arguments.
THEOREM BrokenToolsAreLeftAlone == Spec => []BrokenToolLeftAlone
BY TypeInit, TypeStep, OnceInit, OnceStep, FailuresInit, FailuresStep, PTL DEF Spec
=============================================================================
