-------------------------- MODULE WorkstationProofs --------------------------
(***************************************************************************)
(* What a workstation keeps, for any number of desktops, requests and      *)
(* terminals and any number of attempts of a runner: its types, and that   *)
(* nobody ticks while a live desktop installs a package.                   *)
(***************************************************************************)
EXTENDS Workstation, TLAPS

Phases == {"unborn", "spawned", "serving", "closing", "reopening", "waiting", "gone"}
Runners == [at : {"off", "try", "serve", "over"}, failures : 0..MaxAttempts,
            stop : BOOLEAN]
Ticking == [by : Holders, now : BOOLEAN]
States == [status : {"idle", "running", "installed", "needs_attention"},
           restart : BOOLEAN, lock : Threads \union {Nobody}]
Activities == [op : Ops, at : Steps, on : Desktops \union {Nobody}, seen : BOOLEAN]
Fleets == [active : BOOLEAN, job : {"none", "queued", "running"},
           task : {"open", "closed"}]
Privates == [known : BOOLEAN, up : BOOLEAN, setup : Actors \union {Nobody}]

\* Maintenance past runner.lock; upgrade between its lock and its commit.
Holding == {"take", "read", "signal", "await", "install", "installing"}
Checking == {"agents", "jobs", "links", "commit"}

\* A runner starts with its server, and gives up with its last attempt.
Attempts(d) ==
  /\ phase[d] \in {"unborn", "spawned"} => runner[d].at = "off"
  /\ runner[d].at # "over" => runner[d].failures < MaxAttempts

\* A runner that serves holds runner.lock.
Serves(d) == runner[d].at = "serve" => ticking.by = Runner(d)

\* Who ticks is a runner or a console, never maintenance.
TickHeld ==
  ticking.now => ticking.by = Console \/ \E d \in Desktops : ticking.by = Runner(d)

\* The maintenance thread of a desktop lives as long as its state says running,
\* and from its lock on it keeps every runner out.
Tasked(d) ==
  /\ actor[d].at \in {"idle", "prepare", "lock"} \union Holding
  /\ actor[d].on \in {d, Nobody}
  /\ actor[d].at # "idle" => state[d].status = "running" /\ Alive(d)
  /\ actor[d].at \in Holding => ticking.by = Maintenance(d)

\* The installer of a live desktop belongs to its maintenance.
Piped(d) == d \in pip => phase[d] # "unborn" /\ (Alive(d) => actor[d].at = "installing")

\* A request is one of a live desktop; upgrade keeps components.lock, under
\* which maintenance cannot begin.
Admitted(t) ==
  /\ actor[t].on # Nobody => Alive(actor[t].on)
  /\ actor[t].at \in Checking =>
       /\ actor[t].on \in Desktops
       /\ state[actor[t].on].lock = t
       /\ state[actor[t].on].status # "running"

Desk(d) == Attempts(d) /\ Serves(d) /\ Tasked(d) /\ Piped(d)

IInv ==
  TypeOK /\ TickHeld /\ (\A d \in Desktops : Desk(d)) /\ \A t \in Threads : Admitted(t)

-----------------------------------------------------------------------------

\* TypeOK by its parts.
LEMMA Parts ==
  TypeOK <=>
    /\ phase \in [Desktops -> Phases]
    /\ owner \in Desktops \union {Nobody} /\ listed \in Desktops \union {Nobody}
    /\ starting \in Actors \union {Nobody}
    /\ runner \in [Desktops -> Runners]
    /\ ticking \in Ticking
    /\ state \in [Desktops -> States]
    /\ actor \in [Actors -> Activities]
    /\ pip \subseteq Desktops
    /\ fleet \in Fleets
    /\ private \in Privates
BY DEF TypeOK, Phases, Runners, Ticking, States, Activities, Fleets, Privates

\* A desktop is no thread, and each holder of runner.lock has its own name.
LEMMA Names ==
  /\ \A d \in Desktops, t \in Threads : d # t
  /\ \A d, e \in Desktops :
       /\ Runner(d) # Maintenance(e) /\ Runner(d) # Console /\ Runner(d) # NoRunner
       /\ Maintenance(d) # Console /\ Maintenance(d) # NoRunner
       /\ d # e => Runner(d) # Runner(e) /\ Maintenance(d) # Maintenance(e)
       /\ {Runner(d), Maintenance(d), Console, NoRunner} \subseteq Holders
  /\ Console # NoRunner /\ {Console, NoRunner} \subseteq Holders
BY NamesAssumption DEF Runner, Maintenance, Console, NoRunner, Holders

\* Every step is one of these.
LEMMA Alternatives ==
  ASSUME Next
  PROVE  \/ \E d \in Desktops :
              \/ Serve(d) \/ Close(d) \/ Dies(d) \/ \E e \in Desktops : Reopen(d, e)
              \/ RunnerLocks(d) \/ TickBegins(d) \/ TickEnds(d) \/ RunnerStops(d)
              \/ RunnerFails(d)
              \/ Prepares(d) \/ LocksRunner(d) \/ Installs(d) \/ PipEnds(d)
              \/ Installed(d) \/ MaintenanceFails(d)
         \/ \E x \in Actors : Stops(x) \/ ReadsPrivate(x) \/ Signals(x) \/ Stopped(x)
         \/ \E t \in Threads :
              \/ Opened(t) \/ Refused(t) \/ Changes(t) \/ Plans(t) \/ Restarts(t)
              \/ Starts(t) \/ Launches(t) \/ Started(t) \/ StopFails(t)
              \/ Checks(t) \/ Commit(t) \/ UpgradeRefused(t)
              \/ \E d \in Desktops : Open(t, d) \/ Upgrade(t, d)
              \/ \E d \in Desktops, op \in RequestOps : Request(t, d, op)
         \/ Command \/ TickLaunches \/ JobEnds \/ ConsoleRuns \/ ConsoleEnds \/ ProcessEnds
BY DEF Next, DesktopStep, RunnerStep, Maintains, Handles, Exit, Crash, Actors

-----------------------------------------------------------------------------
(* Typing.                                                                 *)

\* The fields of typed records, and the records the actions make of them.
LEMMA Actions ==
  /\ Idle \in Activities
  /\ \A s \in Activities :
       /\ s.op \in Ops /\ s.at \in Steps /\ s.on \in Desktops \union {Nobody} /\ s.seen \in BOOLEAN
       /\ \A at \in Steps : [s EXCEPT !.at = at] \in Activities
  /\ \A op \in Ops, at \in Steps, on \in Desktops \union {Nobody}, seen \in BOOLEAN :
       [op |-> op, at |-> at, on |-> on, seen |-> seen] \in Activities
  /\ [Idle EXCEPT !.op = "open", !.at = "child"] \in Activities
<1>1. Idle \in Activities
  BY DEF Activities, Idle, Ops, Steps
<1>2. \A s \in Activities :
        /\ s.op \in Ops /\ s.at \in Steps /\ s.on \in Desktops \union {Nobody} /\ s.seen \in BOOLEAN
        /\ \A at \in Steps : [s EXCEPT !.at = at] \in Activities
  BY DEF Activities
<1>3. \A op \in Ops, at \in Steps, on \in Desktops \union {Nobody}, seen \in BOOLEAN :
        [op |-> op, at |-> at, on |-> on, seen |-> seen] \in Activities
  BY DEF Activities
<1>4. \A s \in Activities, op \in Ops, at \in Steps :
        [s EXCEPT !.op = op, !.at = at] \in Activities
  BY DEF Activities
<1>5. "open" \in Ops /\ "child" \in Steps
  BY DEF Ops, Steps
<1> QED BY <1>1, <1>2, <1>3, <1>4, <1>5

\* What each step makes of the threads.
LEMMA Activity ==
  ASSUME TypeOK, Next
  PROVE  \/ actor' = actor
         \/ \E x \in Actors, at \in Steps : actor' = [actor EXCEPT ![x].at = at]
         \/ \E x \in Actors, r \in Activities : actor' = [actor EXCEPT ![x] = r]
         \/ \E t \in Threads : Commit(t) \/ Checks(t)
         \/ \E d \in Desktops : Dies(d)
<1> USE DEF Actors
<1>0. {"idle", "admitted", "working", "dashboard", "ready", "take", "read", "signal",
       "await", "agents", "jobs", "links", "commit", "child", "prepare", "lock",
       "install", "installing"} \subseteq Steps
  BY DEF Steps
<1>1. ASSUME NEW d \in Desktops,
             \/ Serve(d) \/ Close(d) \/ \E e \in Desktops : Reopen(d, e)
             \/ RunnerLocks(d) \/ TickBegins(d) \/ TickEnds(d) \/ RunnerStops(d)
             \/ RunnerFails(d) \/ PipEnds(d)
      PROVE  actor' = actor
  BY <1>1 DEF Serve, Close, Reopen, RunnerLocks, TickBegins, TickEnds, RunnerStops,
              RunnerFails, PipEnds, runnerFrame
<1>2. ASSUME Command \/ TickLaunches \/ JobEnds \/ ConsoleRuns \/ ConsoleEnds \/ ProcessEnds
      PROVE  actor' = actor
  BY <1>2 DEF Command, TickLaunches, JobEnds, ConsoleRuns, ConsoleEnds, ProcessEnds,
     runnerFrame
<1>3. ASSUME NEW d \in Desktops, Prepares(d) \/ LocksRunner(d) \/ Installs(d)
      PROVE  \E x \in Actors, at \in Steps : actor' = [actor EXCEPT ![x].at = at]
  BY <1>3, <1>0 DEF Prepares, LocksRunner, Installs, Moves
<1>4. ASSUME NEW d \in Desktops, Installed(d) \/ MaintenanceFails(d)
      PROVE  \E x \in Actors, r \in Activities : actor' = [actor EXCEPT ![x] = r]
  BY <1>4, Actions DEF Installed, MaintenanceFails, Records
<1>5. ASSUME NEW x \in Actors, Stops(x) \/ ReadsPrivate(x) \/ Signals(x)
      PROVE  \E at \in Steps : actor' = [actor EXCEPT ![x].at = at]
  BY <1>5, <1>0 DEF Stops, ReadsPrivate, Signals, Moves
<1>6. ASSUME NEW x \in Actors, Stopped(x)
      PROVE  \/ \E at \in Steps : actor' = [actor EXCEPT ![x].at = at]
             \/ \E r \in Activities : actor' = [actor EXCEPT ![x] = r]
  BY <1>6, <1>0, Actions DEF Stopped, Returns
<1>7. ASSUME NEW t \in Threads,
             \/ Opened(t) \/ Refused(t) \/ Changes(t) \/ Restarts(t) \/ Started(t)
             \/ StopFails(t) \/ UpgradeRefused(t)
      PROVE  \E r \in Activities : actor' = [actor EXCEPT ![t] = r]
  BY <1>7, Actions DEF Opened, Refused, Changes, Restarts, Started, StopFails,
     UpgradeRefused, Returns
<1>8. ASSUME NEW t \in Threads, Plans(t) \/ Starts(t) \/ Launches(t)
      PROVE  \E at \in Steps : actor' = [actor EXCEPT ![t].at = at]
  BY <1>8, <1>0 DEF Plans, Starts, Launches, Moves
<1>9. ASSUME NEW t \in Threads, NEW d \in Desktops,
             Open(t, d) \/ Upgrade(t, d) \/ \E op \in RequestOps : Request(t, d, op)
      PROVE  \E r \in Activities : actor' = [actor EXCEPT ![t] = r]
  <2>1. RequestOps \subseteq Ops /\ "upgrade" \in Ops
    BY DEF RequestOps, Ops
  <2> QED BY <1>9, <1>0, <2>1, Actions DEF Open, Upgrade, Request
<1> QED BY <1>1, <1>2, <1>3, <1>4, <1>5, <1>6, <1>7, <1>8, <1>9, Alternatives

\* Threads are replaced by threads.
LEMMA ActorTyped ==
  ASSUME TypeOK, Next
  PROVE  actor' \in [Actors -> Activities]
<1>0. actor \in [Actors -> Activities] /\ Threads \subseteq Actors /\ Desktops \subseteq Actors
  BY Parts DEF Actors
<1>1. ASSUME NEW t \in Threads, Checks(t)
      PROVE  actor' \in [Actors -> Activities]
  <2>1. private.known \in BOOLEAN
    BY DEF TypeOK
  <2>2. [actor[t] EXCEPT !.at = "commit", !.seen = private.known] \in Activities
    BY <1>0, <2>1 DEF Activities, Steps
  <2>3. {"jobs", "links"} \subseteq Steps
    BY DEF Steps
  <2>4. CASE \E at \in {"jobs", "links"} : actor' = [actor EXCEPT ![t].at = at]
    BY <1>0, <2>3, <2>4, Actions
  <2>5. CASE actor' = [actor EXCEPT ![t].at = "commit", ![t].seen = private.known]
    BY <1>0, <2>2, <2>5
  <2> QED BY <1>1, <2>4, <2>5 DEF Checks, Moves
<1>2. ASSUME NEW t \in Threads, Commit(t)
      PROVE  actor' \in [Actors -> Activities]
  <2>1. "maintain" \in Ops /\ "prepare" \in Steps
    BY DEF Ops, Steps
  <2> QED BY <1>0, <1>2, <2>1, Actions DEF Commit
<1>3. ASSUME NEW d \in Desktops, Dies(d)
      PROVE  actor' \in [Actors -> Activities]
  BY <1>0, <1>3, Actions DEF Dies
<1>4. ASSUME NEW x \in Actors, NEW at \in Steps, actor' = [actor EXCEPT ![x].at = at]
      PROVE  actor' \in [Actors -> Activities]
  BY <1>0, <1>4, Actions
<1>5. ASSUME NEW x \in Actors, NEW r \in Activities, actor' = [actor EXCEPT ![x] = r]
      PROVE  actor' \in [Actors -> Activities]
  BY <1>0, <1>5
<1> QED BY <1>0, <1>1, <1>2, <1>3, <1>4, <1>5, Activity

\* Everything but the threads.
Rest ==
  /\ phase \in [Desktops -> Phases]
  /\ owner \in Desktops \union {Nobody} /\ listed \in Desktops \union {Nobody}
  /\ starting \in Actors \union {Nobody}
  /\ runner \in [Desktops -> Runners]
  /\ ticking \in Ticking
  /\ state \in [Desktops -> States]
  /\ pip \subseteq Desktops
  /\ fleet \in Fleets
  /\ private \in Privates

\* They keep their types in every step.
LEMMA RestTyped ==
  ASSUME IInv, Next
  PROVE  Rest'
<1> USE NamesAssumption, AttemptsAssumption
    DEF Rest, desktop, runners, agent, runnerFrame, requestFrame, maintenanceFrame
<1>0. Rest /\ Threads \subseteq Actors /\ Desktops \subseteq Actors
  BY Parts DEF IInv, Actors
<1>1. ASSUME NEW d \in Desktops, Serve(d) PROVE Rest'
  BY <1>0, <1>1, Names DEF Serve, Phases, Runners
<1>2. ASSUME NEW d \in Desktops, Close(d) PROVE Rest'
  BY <1>0, <1>2, Names DEF Close, Phases, Runners
<1>3. ASSUME NEW d \in Desktops, Dies(d) PROVE Rest'
  <2>1. phase' \in [Desktops -> Phases] /\ runner' \in [Desktops -> Runners]
        /\ state' \in [Desktops -> States]
    BY <1>0, <1>3 DEF Dies, Phases, Runners, Unstarted, States, Fresh
  <2>2. ticking' \in Ticking
    BY <1>0, <1>3, Names DEF Dies, Ticking
  <2>3. private' \in Privates
    BY <1>0, <1>3 DEF Dies, Privates
  <2> QED BY <1>0, <1>3, <2>1, <2>2, <2>3 DEF Dies
<1>4. ASSUME NEW d \in Desktops, RunnerLocks(d) PROVE Rest'
  BY <1>0, <1>4, Names DEF RunnerLocks, Runners, Ticking
<1>5. ASSUME NEW d \in Desktops, TickBegins(d) PROVE Rest'
  BY <1>0, <1>5, Names DEF TickBegins, Ticking
<1>6. ASSUME NEW d \in Desktops, TickEnds(d) PROVE Rest'
  BY <1>0, <1>6, Names DEF TickEnds, Ticking
<1>7. ASSUME NEW d \in Desktops, RunnerStops(d) PROVE Rest'
  BY <1>0, <1>7, Names DEF RunnerStops, Ticking, Runners
<1>8. ASSUME NEW d \in Desktops, RunnerFails(d) PROVE Rest'
  <2>1. runner[d].failures < MaxAttempts /\ runner[d] \in Runners
    BY <1>0, <1>8 DEF IInv, Desk, Attempts, RunnerFails
  <2>2. runner[d].failures + 1 \in 0..MaxAttempts
    BY <2>1 DEF Runners
  <2>3. PICK at \in {"off", "try", "serve", "over"} :
          runner' = [runner EXCEPT ![d].failures = runner[d].failures + 1, ![d].at = at]
    BY <1>8 DEF RunnerFails
  <2>4. runner' \in [Desktops -> Runners]
    BY <1>0, <2>1, <2>2, <2>3 DEF Runners
  <2>5. CASE UNCHANGED ticking
    BY <1>0, <1>8, <2>4, <2>5 DEF RunnerFails
  <2>6. CASE ticking' = [by |-> NoRunner, now |-> FALSE]
    BY <1>0, <1>8, <2>4, <2>6, Names DEF RunnerFails, Ticking
  <2> QED BY <1>8, <2>5, <2>6 DEF RunnerFails
<1>9. ASSUME NEW d \in Desktops, Prepares(d) PROVE Rest'
  BY <1>0, <1>9, Names DEF Prepares, Runners
<1>10. ASSUME NEW d \in Desktops, LocksRunner(d) PROVE Rest'
  BY <1>0, <1>10, Names DEF LocksRunner, Ticking
<1>11. ASSUME NEW d \in Desktops, Installs(d) PROVE Rest'
  BY <1>0, <1>11, Names DEF Installs
<1>12. ASSUME NEW d \in Desktops, PipEnds(d) PROVE Rest'
  BY <1>0, <1>12, Names DEF PipEnds
<1>13. ASSUME NEW d \in Desktops, Installed(d) PROVE Rest'
  BY <1>0, <1>13, Names DEF Installed, States, Ticking, Privates, Records, Loose
<1>14. ASSUME NEW d \in Desktops, MaintenanceFails(d) PROVE Rest'
  BY <1>0, <1>14, Names DEF MaintenanceFails, States, Ticking, Privates, Records, Loose
<1>15. ASSUME NEW x \in Actors, Stops(x) PROVE Rest'
  BY <1>0, <1>15, Names DEF Stops, Privates, TakesSetup
<1>16. ASSUME NEW x \in Actors, ReadsPrivate(x) PROVE Rest'
  BY <1>0, <1>16, Names DEF ReadsPrivate
<1>17. ASSUME NEW x \in Actors, Signals(x) PROVE Rest'
  BY <1>0, <1>17, Names DEF Signals
<1>18. ASSUME NEW x \in Actors, Stopped(x) PROVE Rest'
  BY <1>0, <1>18, Names DEF Stopped, Privates, Loose
<1>19. ASSUME NEW t \in Threads, Opened(t) PROVE Rest'
  BY <1>0, <1>19, Names DEF Opened
<1>20. ASSUME NEW t \in Threads, Refused(t) PROVE Rest'
  BY <1>0, <1>20, Names DEF Refused
<1>21. ASSUME NEW t \in Threads, Changes(t) PROVE Rest'
  BY <1>0, <1>21, Names DEF Changes, Fleets, FleetChanges
<1>22. ASSUME NEW t \in Threads, Plans(t) PROVE Rest'
  BY <1>0, <1>22, Names DEF Plans
<1>23. ASSUME NEW t \in Threads, Restarts(t) PROVE Rest'
  BY <1>0, <1>23, Names DEF Restarts, Phases
<1>24. ASSUME NEW t \in Threads, Starts(t) PROVE Rest'
  BY <1>0, <1>24, Names DEF Starts, Privates, TakesSetup
<1>25. ASSUME NEW t \in Threads, Launches(t) PROVE Rest'
  BY <1>0, <1>25, Names DEF Launches, Privates
<1>26. ASSUME NEW t \in Threads, Started(t) PROVE Rest'
  BY <1>0, <1>26, Names DEF Started, Privates, Loose
<1>27. ASSUME NEW t \in Threads, StopFails(t) PROVE Rest'
  BY <1>0, <1>27, Names DEF StopFails, Privates, Loose
<1>28. ASSUME NEW t \in Threads, Checks(t) PROVE Rest'
  BY <1>0, <1>28, Names DEF Checks
<1>29. ASSUME NEW t \in Threads, Commit(t) PROVE Rest'
  BY <1>0, <1>29, Names DEF Commit, States
<1>30. ASSUME NEW t \in Threads, UpgradeRefused(t) PROVE Rest'
  BY <1>0, <1>30, Names DEF UpgradeRefused, States
<1>31. ASSUME Command PROVE Rest'
  BY <1>0, <1>31, Names DEF Command, Fleets, FleetChanges
<1>32. ASSUME TickLaunches PROVE Rest'
  BY <1>0, <1>32, Names DEF TickLaunches, Fleets
<1>33. ASSUME JobEnds PROVE Rest'
  BY <1>0, <1>33, Names DEF JobEnds, Fleets
<1>34. ASSUME ConsoleRuns PROVE Rest'
  BY <1>0, <1>34, Names DEF ConsoleRuns, Ticking
<1>35. ASSUME ConsoleEnds PROVE Rest'
  BY <1>0, <1>35, Names DEF ConsoleEnds, Ticking
<1>36. ASSUME ProcessEnds PROVE Rest'
  BY <1>0, <1>36, Names DEF ProcessEnds, Privates
<1>37. ASSUME NEW d \in Desktops, NEW e \in Desktops, Reopen(d, e) PROVE Rest'
  BY <1>0, <1>37 DEF Reopen, Phases
<1>38. ASSUME NEW t \in Threads, NEW d \in Desktops,
             Open(t, d) \/ Upgrade(t, d) \/ \E op \in RequestOps : Request(t, d, op)
      PROVE  Rest'
  BY <1>0, <1>38 DEF Open, Upgrade, Request, Phases, States
<1> QED BY <1>1, <1>2, <1>3, <1>4, <1>5, <1>6, <1>7, <1>8, <1>9, <1>10, <1>11, <1>12,
   <1>13, <1>14, <1>15, <1>16, <1>17, <1>18, <1>19, <1>20, <1>21, <1>22, <1>23, <1>24,
      <1>25, <1>26, <1>27, <1>28, <1>29, <1>30, <1>31, <1>32, <1>33, <1>34, <1>35,
         <1>36, <1>37, <1>38, Alternatives

-----------------------------------------------------------------------------
(* Runners and runner.lock.                                                *)

\* What the runners are bound by.
Locked == TickHeld /\ \A d \in Desktops : Attempts(d) /\ Serves(d)

\* The steps that touch neither the phases, nor the runners, nor their lock,
\* keep it.
LEMMA LockedApart ==
  ASSUME IInv, UNCHANGED <<phase, runner, ticking>>
  PROVE  Locked'
BY DEF IInv, Desk, Locked, TickHeld, Attempts, Serves

\* Every other step keeps it too.
LEMMA LockedKept ==
  ASSUME IInv, Next
  PROVE  Locked'
<1> USE NamesAssumption, AttemptsAssumption
    DEF Locked, Desk, TickHeld, Attempts, Serves, Rest, runnerFrame, desktop, agent
<1>0. Rest /\ Locked /\ TypeOK /\ Desktops \subseteq Actors
  BY Parts DEF IInv, Actors
<1>1. ASSUME NEW d \in Desktops, Serve(d) PROVE Locked'
  BY <1>0, <1>1, Names DEF Serve, Runners, Ticking
<1>2. ASSUME NEW d \in Desktops, Close(d) PROVE Locked'
  BY <1>0, <1>2, Names DEF Close, Runners, Ticking
<1>3. ASSUME NEW d \in Desktops, Dies(d) PROVE Locked'
  BY <1>0, <1>3, Names DEF Dies, Unstarted, Runners, Alive, Ticking
<1>4. ASSUME NEW d \in Desktops, RunnerLocks(d) PROVE Locked'
  BY <1>0, <1>4, Names DEF RunnerLocks, Runners, Ticking
<1>5. ASSUME NEW d \in Desktops, TickBegins(d) PROVE Locked'
  BY <1>0, <1>5, Names DEF TickBegins, Ticking
<1>6. ASSUME NEW d \in Desktops, TickEnds(d) PROVE Locked'
  BY <1>0, <1>6, Names DEF TickEnds, Ticking
<1>7. ASSUME NEW d \in Desktops, RunnerStops(d) PROVE Locked'
  BY <1>0, <1>7, Names DEF RunnerStops, Runners, Ticking
<1>8. ASSUME NEW d \in Desktops, RunnerFails(d) PROVE Locked'
  <2>1. runner[d] \in Runners /\ runner[d].failures < MaxAttempts /\ runner[d].at # "over"
    BY <1>0, <1>8 DEF RunnerFails
  <2>2. PICK at \in {"try", "over"} :
          /\ runner' = [runner EXCEPT ![d].failures = runner[d].failures + 1,
                                      ![d].at = at]
          /\ at = "try" => runner[d].failures + 1 # MaxAttempts
    BY <1>8 DEF RunnerFails, Exhausted
  <2>3. \A e \in Desktops : Attempts(e)'
    <3>1. phase[d] \notin {"unborn", "spawned"} /\ phase' = phase
      BY <1>0, <1>8 DEF RunnerFails
    <3>2. ASSUME NEW e \in Desktops, e # d PROVE runner'[e] = runner[e]
      BY <1>0, <2>2, <3>2
    <3>3. runner'[d].at = at /\ runner'[d].failures = runner[d].failures + 1
      BY <1>0, <2>2 DEF Runners
    <3>4. at = "try" => runner[d].failures + 1 < MaxAttempts
      BY <2>1, <2>2 DEF Runners
    <3> QED BY <1>0, <3>1, <3>2, <3>3, <3>4
  <2>4. CASE UNCHANGED ticking
    BY <1>0, <1>8, <2>2, <2>3, <2>4 DEF RunnerFails
  <2>5. CASE runner[d].at = "serve" /\ ticking' = [by |-> NoRunner, now |-> FALSE]
    BY <1>0, <2>2, <2>3, <2>5, Names DEF Ticking, Runners
  <2> QED BY <1>8, <2>4, <2>5 DEF RunnerFails
<1>9. ASSUME NEW d \in Desktops, Prepares(d) PROVE Locked'
  BY <1>0, <1>9, Names DEF Prepares, Runners, Ticking
<1>10. ASSUME NEW d \in Desktops, LocksRunner(d) PROVE Locked'
  BY <1>0, <1>10, Names DEF LocksRunner, Lockable, maintenanceFrame, Ticking
<1>11. ASSUME NEW d \in Desktops, Installed(d) PROVE Locked'
  BY <1>0, <1>11, Names DEF Installed, Records, maintenanceFrame, Ticking
<1>12. ASSUME NEW d \in Desktops, MaintenanceFails(d) PROVE Locked'
  BY <1>0, <1>12, Names DEF MaintenanceFails, Records, maintenanceFrame, Ticking
<1>13. ASSUME ConsoleRuns PROVE Locked'
  BY <1>0, <1>13, Names DEF ConsoleRuns, Ticking
<1>14. ASSUME ConsoleEnds PROVE Locked'
  BY <1>0, <1>14, Names DEF ConsoleEnds, Ticking
<1>15. ASSUME NEW t \in Threads, Restarts(t) PROVE Locked'
  BY <1>0, <1>15 DEF Restarts, runners
<1>16. ASSUME NEW d \in Desktops, NEW e \in Desktops, Reopen(d, e) PROVE Locked'
  BY <1>0, <1>16 DEF Reopen, runners
<1>17. ASSUME NEW t \in Threads, NEW d \in Desktops, Open(t, d) PROVE Locked'
  BY <1>0, <1>17 DEF Open, runners
<1>18. ASSUME NEW d \in Desktops, Installs(d) \/ PipEnds(d) PROVE Locked'
  BY <1>18, LockedApart DEF Installs, PipEnds, runners
<1>19. ASSUME NEW x \in Actors, Stops(x) \/ ReadsPrivate(x) \/ Signals(x) \/ Stopped(x)
       PROVE  Locked'
  BY <1>19, LockedApart DEF Stops, ReadsPrivate, Signals, Stopped, requestFrame, runners
<1>20. ASSUME NEW t \in Threads,
              \/ Opened(t) \/ Refused(t) \/ Changes(t) \/ Plans(t)
              \/ Starts(t) \/ Launches(t) \/ Started(t) \/ StopFails(t)
              \/ Checks(t) \/ Commit(t) \/ UpgradeRefused(t)
       PROVE  Locked'
  BY <1>20, LockedApart DEF Opened, Refused, Changes, Plans, Starts, Launches, Started,
     StopFails,
     Checks, Commit, UpgradeRefused, requestFrame, runners
<1>21. ASSUME NEW t \in Threads, NEW d \in Desktops,
              Upgrade(t, d) \/ \E op \in RequestOps : Request(t, d, op)
       PROVE  Locked'
  BY <1>21, LockedApart DEF Upgrade, Request, requestFrame, runners
<1>22. ASSUME Command \/ TickLaunches \/ JobEnds \/ ProcessEnds PROVE Locked'
  BY <1>22, LockedApart DEF Command, TickLaunches, JobEnds, ProcessEnds, requestFrame,
     runners
<1> HIDE DEF Locked, Desk, TickHeld, Attempts, Serves, Rest
<1> QED BY <1>1, <1>2, <1>3, <1>4, <1>5, <1>6, <1>7, <1>8, <1>9, <1>10, <1>11, <1>12,
   <1>13, <1>14, <1>15, <1>16, <1>17, <1>18, <1>19, <1>20, <1>21, <1>22, Alternatives

-----------------------------------------------------------------------------
(* Maintenance and its installer.                                          *)

\* What maintenance is bound by.
Maintained == \A d \in Desktops : Tasked(d) /\ Piped(d)

\* The steps of threads that touch no desktop, no runner.lock and no installer
\* keep it.
LEMMA MaintainedApart ==
  ASSUME IInv,
         \A d \in Desktops : actor'[d] = actor[d] /\ state'[d].status = state[d].status,
         UNCHANGED <<phase, ticking, pip>>
  PROVE  Maintained'
BY DEF IInv, Desk, Maintained, Tasked, Piped, Alive

\* Every other step keeps it too.
LEMMA MaintainedKept ==
  ASSUME IInv, Next
  PROVE  Maintained'
<1> USE NamesAssumption
    DEF Maintained, Desk, Tasked, Piped, Alive, Holding, Rest, runnerFrame,
    maintenanceFrame,
        requestFrame, desktop, runners, agent
<1>0. /\ Rest /\ TickHeld /\ TypeOK /\ Desktops \subseteq Actors /\ Threads \subseteq Actors
      /\ actor \in [Actors -> Activities] /\ \A d \in Desktops : Desk(d)
      /\ \A t \in Threads : Admitted(t)
  BY Parts DEF IInv, Actors
<1>1. ASSUME NEW d \in Desktops, Serve(d) PROVE Maintained'
  BY <1>0, <1>1, Names DEF Serve
<1>2. ASSUME NEW d \in Desktops, Close(d) PROVE Maintained'
  BY <1>0, <1>2, Names DEF Close
<1>3. ASSUME NEW d \in Desktops, Dies(d) PROVE Maintained'
  BY <1>0, <1>3, Names DEF Dies, States, Fresh, Idle, Ticking, Activities
<1>4. ASSUME NEW d \in Desktops, RunnerLocks(d) PROVE Maintained'
  BY <1>0, <1>4, Names DEF RunnerLocks, Ticking
<1>5. ASSUME NEW d \in Desktops, TickBegins(d) PROVE Maintained'
  BY <1>0, <1>5, Names DEF TickBegins, Ticking
<1>6. ASSUME NEW d \in Desktops, TickEnds(d) PROVE Maintained'
  BY <1>0, <1>6, Names DEF TickEnds, Ticking
<1>7. ASSUME NEW d \in Desktops, RunnerStops(d) PROVE Maintained'
  BY <1>0, <1>7, Names DEF RunnerStops, Serves
<1>8. ASSUME NEW d \in Desktops, RunnerFails(d) PROVE Maintained'
  BY <1>0, <1>8, Names DEF RunnerFails, Serves, Ticking
<1>9. ASSUME NEW d \in Desktops, Prepares(d) PROVE Maintained'
  BY <1>0, <1>9, Names DEF Prepares, Moves, Activities
<1>10. ASSUME NEW d \in Desktops, LocksRunner(d) PROVE Maintained'
  BY <1>0, <1>10, Names DEF LocksRunner, Lockable, Moves, Activities, Ticking
<1>11. ASSUME NEW d \in Desktops, Installs(d) PROVE Maintained'
  BY <1>0, <1>11, Names DEF Installs, Moves, Activities
<1>12. ASSUME NEW d \in Desktops, PipEnds(d) PROVE Maintained'
  BY <1>0, <1>12, Names DEF PipEnds
<1>13. ASSUME NEW d \in Desktops, Installed(d) PROVE Maintained'
  BY <1>0, <1>13, Names DEF Installed, Records, Idle, States, Activities, Ticking
<1>14. ASSUME NEW d \in Desktops, MaintenanceFails(d) PROVE Maintained'
  BY <1>0, <1>14, Names DEF MaintenanceFails, GivesUp, Records, Idle, States,
     Activities, Ticking
<1>15. ASSUME NEW x \in Actors, Stops(x) PROVE Maintained'
  <2>1. CASE x \in Threads
    BY <1>0, <1>15, <2>1, Names DEF Stops, Moves
  <2>2. CASE x \in Desktops
    <3>1. actor[x].at = "take" /\ actor' = [actor EXCEPT ![x].at = "read"]
      BY <1>0, <1>15, <2>2 DEF Stops, Moves
    <3>2. \A e \in Desktops : e # x => actor'[e] = actor[e]
      BY <1>0, <3>1
    <3>3. actor'[x].at = "read" /\ actor'[x].on = actor[x].on
      BY <1>0, <3>1 DEF Activities
    <3> QED BY <1>0, <1>15, <2>2, <3>1, <3>2, <3>3 DEF Stops
  <2> QED BY <2>1, <2>2 DEF Actors
<1>16. ASSUME NEW x \in Actors, ReadsPrivate(x) PROVE Maintained'
  BY <1>0, <1>16, Names DEF ReadsPrivate, Moves, Activities
<1>17. ASSUME NEW x \in Actors, Signals(x) PROVE Maintained'
  BY <1>0, <1>17, Names DEF Signals, Moves, Activities
<1>18. ASSUME NEW x \in Actors, Stopped(x) PROVE Maintained'
  BY <1>0, <1>18, Names DEF Stopped, Activities, Returns, Idle
<1>19. ASSUME ConsoleRuns PROVE Maintained'
  BY <1>0, <1>19, Names DEF ConsoleRuns, Ticking
<1>20. ASSUME ConsoleEnds PROVE Maintained'
  BY <1>0, <1>20, Names DEF ConsoleEnds, Ticking
<1>21. ASSUME NEW t \in Threads, Restarts(t) PROVE Maintained'
  BY <1>0, <1>21, Names DEF Restarts, Returns, Activities
<1>22. ASSUME NEW t \in Threads, Commit(t) PROVE Maintained'
  <2> DEFINE d == actor[t].on
  <2>1. d \in Desktops /\ Alive(d) /\ state[d].status # "running"
    BY <1>0, <1>22, Names DEF Commit, Admitted, Checking
  <2>2. actor[d].at = "idle" /\ d \notin pip
    BY <1>0, <2>1
  <2>3. /\ actor'[d].at = "prepare" /\ actor'[d].on = d /\ state'[d].status = "running"
        /\ UNCHANGED <<phase, pip, ticking>>
    BY <1>0, <1>22, <2>1, Names DEF Commit
  <2>4. \A e \in Desktops : e # d => actor'[e] = actor[e] /\ state'[e] = state[e]
    BY <1>0, <1>22, <2>1, Names DEF Commit
  <2> HIDE DEF d
  <2> QED BY <1>0, <2>1, <2>2, <2>3, <2>4
<1>23. ASSUME NEW d \in Desktops, NEW e \in Desktops, Reopen(d, e) PROVE Maintained'
  BY <1>0, <1>23 DEF Reopen
<1>24. ASSUME NEW t \in Threads, NEW d \in Desktops, Open(t, d) PROVE Maintained'
  BY <1>0, <1>24, Names DEF Open, Activities
<1>25. ASSUME NEW t \in Threads,
              \/ Opened(t) \/ Refused(t) \/ Changes(t) \/ Plans(t) \/ Starts(t) \/ Launches(t)
              \/ Started(t) \/ StopFails(t) \/ Checks(t) \/ UpgradeRefused(t)
       PROVE  Maintained'
  <2>1. \A d \in Desktops : actor'[d] = actor[d]
    BY <1>0, <1>25, Names DEF Opened, Refused, Changes, Plans, Starts, Launches,
       Started, StopFails,
       Checks, UpgradeRefused, Returns, Moves
  <2>2. \A d \in Desktops : state'[d].status = state[d].status
    BY <1>0, <1>25 DEF Opened, Refused, Changes, Plans, Starts, Launches, Started,
       StopFails,
       Checks, UpgradeRefused, States
  <2>3. UNCHANGED <<phase, ticking, pip>>
    BY <1>25 DEF Opened, Refused, Changes, Plans, Starts, Launches, Started, StopFails,
       Checks, UpgradeRefused
  <2> QED BY <2>1, <2>2, <2>3, MaintainedApart
<1>26. ASSUME NEW t \in Threads, NEW d \in Desktops,
              Upgrade(t, d) \/ \E op \in RequestOps : Request(t, d, op)
       PROVE  Maintained'
  <2>1. \A e \in Desktops : actor'[e] = actor[e]
    BY <1>0, <1>26, Names DEF Upgrade, Request
  <2>2. \A e \in Desktops : state'[e].status = state[e].status
    BY <1>0, <1>26 DEF Upgrade, Request, States
  <2>3. UNCHANGED <<phase, ticking, pip>>
    BY <1>26 DEF Upgrade, Request
  <2> QED BY <2>1, <2>2, <2>3, MaintainedApart
<1>27. ASSUME Command \/ TickLaunches \/ JobEnds \/ ProcessEnds PROVE Maintained'
  BY <1>27, MaintainedApart DEF Command, TickLaunches, JobEnds, ProcessEnds
<1> HIDE DEF Maintained, Desk, Tasked, Piped, Rest
<1> QED BY <1>1, <1>2, <1>3, <1>4, <1>5, <1>6, <1>7, <1>8, <1>9, <1>10, <1>11, <1>12,
   <1>13, <1>14, <1>15, <1>16, <1>17, <1>18, <1>19, <1>20, <1>21, <1>22, <1>23, <1>24,
      <1>25, <1>26, <1>27, Alternatives

-----------------------------------------------------------------------------
(* Requests.                                                               *)

\* A thread comes out of a step as it was, or outside the checks of upgrade.
Apart(t) ==
  \/ actor'[t] = actor[t]
  \/ actor'[t].on \in {Nobody, actor[t].on} /\ actor'[t].at \notin Checking

\* So does every thread when one of them moves on or is answered.
LEMMA Moving ==
  ASSUME actor \in [Actors -> Activities], NEW x \in Actors,
         \/ \E at \in Steps \ Checking : actor' = [actor EXCEPT ![x].at = at]
         \/ actor' = [actor EXCEPT ![x] = Idle]
  PROVE  \A t \in Threads : Apart(t)
<1>1. \A y \in Actors : y # x => actor'[y] = actor[y]
  OBVIOUS
<1>2. ASSUME NEW at \in Steps \ Checking, actor' = [actor EXCEPT ![x].at = at]
      PROVE  actor'[x].on = actor[x].on /\ actor'[x].at \notin Checking
  BY <1>2 DEF Activities
<1>3. ASSUME actor' = [actor EXCEPT ![x] = Idle]
      PROVE  actor'[x].on = Nobody /\ actor'[x].at \notin Checking
  BY <1>3 DEF Idle, Checking
<1> QED BY <1>1, <1>2, <1>3 DEF Apart, Actors

\* A step that leaves components.lock alone, and of which every thread comes
\* out as it was or outside the checks of upgrade, keeps what requests are
\* bound by.
LEMMA AdmittedApart ==
  ASSUME IInv,
         \A t \in Threads : Apart(t),
         \A d \in Desktops : Alive(d) => Alive(d)',
         Nobody \notin Desktops,
         UNCHANGED state
  PROVE  \A t \in Threads : Admitted(t)'
<1>1. actor \in [Actors -> Activities]
  BY Parts DEF IInv
<1>2. \A t \in Threads : Admitted(t) /\ actor[t].on \in Desktops \union {Nobody}
  BY <1>1 DEF IInv, Actors, Activities
<1> QED BY <1>2 DEF Admitted, Apart

\* Every step keeps it.
LEMMA AdmittedKept ==
  ASSUME IInv, Next
  PROVE  \A t \in Threads : Admitted(t)'
<1> USE NamesAssumption
    DEF Rest, runnerFrame, maintenanceFrame, requestFrame, desktop, runners, agent
<1>0. /\ Rest /\ TypeOK /\ Desktops \subseteq Actors /\ Threads \subseteq Actors
      /\ actor \in [Actors -> Activities]
      /\ \A t \in Threads : Admitted(t) /\ actor[t].on \in Desktops \union {Nobody}
  BY Parts DEF IInv, Actors, Activities
<1>00. {"idle", "working", "dashboard", "ready", "read", "signal", "await", "install",
   "child"}
        \subseteq Steps \ Checking
  BY DEF Steps, Checking
<1>1. ASSUME NEW d \in Desktops,
             \/ RunnerLocks(d) \/ TickBegins(d) \/ TickEnds(d) \/ RunnerStops(d) \/ RunnerFails(d)
             \/ Prepares(d) \/ LocksRunner(d) \/ Installs(d) \/ PipEnds(d)
      PROVE \A u \in Threads : Admitted(u)'
  <2>1. UNCHANGED <<phase, state>>
    BY <1>1 DEF RunnerLocks, TickBegins, TickEnds, RunnerStops, RunnerFails, Prepares,
       LocksRunner, Installs, PipEnds
  <2>2. \A u \in Threads : Apart(u)
    BY <1>0, <1>1, Names DEF Apart, RunnerLocks, TickBegins, TickEnds, RunnerStops,
       RunnerFails, Prepares, LocksRunner, Installs, PipEnds, Moves
  <2> QED BY <2>1, <2>2, AdmittedApart DEF Alive
<1>2. ASSUME Command \/ TickLaunches \/ JobEnds \/ ConsoleRuns \/ ConsoleEnds \/ ProcessEnds
      PROVE  \A u \in Threads : Admitted(u)'
  <2>1. UNCHANGED <<phase, state>>
    BY <1>2 DEF Command, TickLaunches, JobEnds, ConsoleRuns, ConsoleEnds, ProcessEnds
  <2>2. \A u \in Threads : Apart(u)
    BY <1>0, <1>2, Names DEF Apart, Command, TickLaunches, JobEnds, ConsoleRuns,
       ConsoleEnds, ProcessEnds
  <2> QED BY <2>1, <2>2, AdmittedApart DEF Alive
<1>3. ASSUME NEW x \in Actors, Stops(x) \/ ReadsPrivate(x) \/ Signals(x)
      PROVE  \A u \in Threads : Admitted(u)'
  <2>1. UNCHANGED <<phase, state>>
    BY <1>3 DEF Stops, ReadsPrivate, Signals
  <2>2. \A u \in Threads : Apart(u)
    BY <1>0, <1>3, <1>00, Moving DEF Stops, ReadsPrivate, Signals, Moves
  <2> QED BY <2>1, <2>2, AdmittedApart DEF Alive
<1>4. ASSUME NEW x \in Actors, Stopped(x) PROVE \A u \in Threads : Admitted(u)'
  <2>1. UNCHANGED <<phase, state>>
    BY <1>4 DEF Stopped
  <2>2. \A u \in Threads : Apart(u)
    BY <1>0, <1>4, <1>00, Moving DEF Stopped, Returns
  <2> QED BY <2>1, <2>2, AdmittedApart DEF Alive
<1>5. ASSUME NEW t \in Threads,
             \/ Opened(t) \/ Refused(t) \/ Changes(t) \/ Started(t) \/ StopFails(t)
      PROVE \A u \in Threads : Admitted(u)'
  <2>1. UNCHANGED <<phase, state>>
    BY <1>5 DEF Opened, Refused, Changes, Started, StopFails
  <2>2. \A u \in Threads : Apart(u)
    BY <1>0, <1>5, <1>00, Moving DEF Opened, Refused, Changes, Started, StopFails, Returns
  <2> QED BY <2>1, <2>2, AdmittedApart DEF Alive
<1>6. ASSUME NEW t \in Threads, Plans(t) \/ Starts(t) \/ Launches(t)
      PROVE  \A u \in Threads : Admitted(u)'
  <2>1. UNCHANGED <<phase, state>>
    BY <1>6 DEF Plans, Starts, Launches
  <2>2. \A u \in Threads : Apart(u)
    BY <1>0, <1>6, <1>00, Moving DEF Plans, Starts, Launches, Moves
  <2> QED BY <2>1, <2>2, AdmittedApart DEF Alive
<1>7. ASSUME NEW t \in Threads, Restarts(t) PROVE \A u \in Threads : Admitted(u)'
  <2>1. \A d \in Desktops : Alive(d) => Alive(d)'
    BY <1>0, <1>7 DEF Restarts, Alive
  <2>2. \A u \in Threads : Apart(u)
    BY <1>0, <1>7, <1>00, Moving DEF Restarts, Returns
  <2> QED BY <1>7, <2>1, <2>2, AdmittedApart DEF Restarts
<1>8. ASSUME NEW d \in Desktops, Serve(d) PROVE \A u \in Threads : Admitted(u)'
  BY <1>0, <1>8, AdmittedApart DEF Apart, Serve, Alive
<1>9. ASSUME NEW d \in Desktops, Close(d) PROVE \A u \in Threads : Admitted(u)'
  BY <1>0, <1>9, AdmittedApart DEF Apart, Close, Alive
<1>10. ASSUME NEW d \in Desktops, NEW e \in Desktops, Reopen(d, e)
       PROVE  \A u \in Threads : Admitted(u)'
  BY <1>0, <1>10, AdmittedApart DEF Apart, Reopen, Alive
<1>11. ASSUME NEW t \in Threads, NEW d \in Desktops, Open(t, d)
       PROVE  \A u \in Threads : Admitted(u)'
  <2>1. \A e \in Desktops : Alive(e) => Alive(e)'
    BY <1>0, <1>11 DEF Open, Alive
  <2>2. \A u \in Threads : Apart(u)
    BY <1>0, <1>11 DEF Open, Idle, Checking, Apart
  <2> QED BY <1>11, <2>1, <2>2, AdmittedApart DEF Open
<1>12. ASSUME NEW d \in Desktops, Dies(d) PROVE \A u \in Threads : Admitted(u)'
  <2>1. SUFFICES ASSUME NEW u \in Threads PROVE Admitted(u)'
    OBVIOUS
  <2>2. CASE actor[u].on = d
    BY <1>0, <1>12, <2>2 DEF Dies, Admitted, Idle, Checking
  <2>3. CASE actor[u].on # d
    BY <1>0, <1>12, <2>3, Names DEF Dies, Admitted, Alive
  <2> QED BY <2>2, <2>3
<1>13. ASSUME NEW d \in Desktops, NEW status \in {"installed", "needs_attention"}, Records(d, status),
              UNCHANGED phase
       PROVE  \A u \in Threads : Admitted(u)'
  <2>1. SUFFICES ASSUME NEW u \in Threads PROVE Admitted(u)'
    OBVIOUS
  <2>2. actor'[u] = actor[u] /\ \A e \in Desktops : e # d => state'[e] = state[e]
    BY <1>0, <1>13, Names DEF Records
  <2>3. actor[u].at \in Checking => actor[u].on # d
    BY <1>0, <1>13 DEF Records, Admitted
  <2> QED BY <1>0, <1>13, <2>2, <2>3 DEF Admitted, Alive
<1>14. ASSUME NEW d \in Desktops, Installed(d) \/ MaintenanceFails(d)
       PROVE  \A u \in Threads : Admitted(u)'
  BY <1>14, <1>13 DEF Installed, MaintenanceFails
<1>15. ASSUME NEW t \in Threads, Checks(t) PROVE \A u \in Threads : Admitted(u)'
  <2>1. SUFFICES ASSUME NEW u \in Threads PROVE Admitted(u)'
    OBVIOUS
  <2>2. UNCHANGED <<phase, state>> /\ actor[t].at \in Checking
    BY <1>15 DEF Checks, Moves, Checking
  <2>3. actor'[u].on = actor[u].on /\ (actor'[u].at \in Checking => actor[u].at \in Checking)
    BY <1>0, <1>15, <2>2 DEF Checks, Moves, Activities
  <2> QED BY <1>0, <2>2, <2>3 DEF Admitted, Alive
<1>16. ASSUME NEW t \in Threads, UpgradeRefused(t) PROVE \A u \in Threads : Admitted(u)'
  <2>1. SUFFICES ASSUME NEW u \in Threads PROVE Admitted(u)'
    OBVIOUS
  <2>2. CASE u = t
    BY <1>0, <1>16, <2>2 DEF UpgradeRefused, Returns, Idle, Checking, Admitted
  <2>3. CASE u # t
    <3>1. actor'[u] = actor[u] /\ UNCHANGED phase
      BY <1>0, <1>16, <2>3 DEF UpgradeRefused, Returns
    <3>2. actor[t].at \in Checking /\ state[actor[t].on].lock = t
      BY <1>0, <1>16 DEF UpgradeRefused, Checking, Admitted
    <3>3. actor[u].at \in Checking => state'[actor[u].on] = state[actor[u].on]
      BY <1>0, <1>16, <2>3, <3>2 DEF UpgradeRefused, Admitted
    <3> QED BY <1>0, <3>1, <3>3 DEF Admitted, Alive
  <2> QED BY <2>2, <2>3
<1>17. ASSUME NEW t \in Threads, Commit(t) PROVE \A u \in Threads : Admitted(u)'
  <2>1. SUFFICES ASSUME NEW u \in Threads PROVE Admitted(u)'
    OBVIOUS
  <2>2. actor[t].at \in Checking /\ actor[t].on \in Desktops /\ state[actor[t].on].lock = t
    BY <1>0, <1>17 DEF Commit, Checking, Admitted
  <2>3. CASE u = t
    <3>1. actor'[u] = Idle
      BY <1>0, <1>17, <2>2, <2>3, Names DEF Commit
    <3> QED BY <3>1 DEF Idle, Checking, Admitted
  <2>4. CASE u # t
    <3>1. actor'[u] = actor[u] /\ UNCHANGED phase
      BY <1>0, <1>17, <2>2, <2>4, Names DEF Commit
    <3>2. actor[u].at \in Checking => state'[actor[u].on] = state[actor[u].on]
      BY <1>0, <1>17, <2>2, <2>4 DEF Commit, Admitted
    <3> QED BY <1>0, <3>1, <3>2 DEF Admitted, Alive
  <2> QED BY <2>3, <2>4
<1>18. ASSUME NEW t \in Threads, NEW d \in Desktops, Upgrade(t, d)
       PROVE  \A u \in Threads : Admitted(u)'
  <2>1. SUFFICES ASSUME NEW u \in Threads PROVE Admitted(u)'
    OBVIOUS
  <2>2. phase'[d] = "serving" /\ state'[d].lock = t /\ state'[d].status # "running"
        /\ UNCHANGED phase
    BY <1>0, <1>18 DEF Upgrade, Replacing, States
  <2>3. CASE u = t
    BY <1>0, <1>18, <2>2, <2>3 DEF Upgrade, Admitted, Alive
  <2>4. CASE u # t
    <3>1. actor'[u] = actor[u]
      BY <1>0, <1>18, <2>4 DEF Upgrade
    <3>2. actor[u].at \in Checking => state'[actor[u].on] = state[actor[u].on]
      BY <1>0, <1>18 DEF Upgrade, Admitted
    <3> QED BY <1>0, <2>2, <3>1, <3>2 DEF Admitted, Alive
  <2> QED BY <2>3, <2>4
<1>19. ASSUME NEW t \in Threads, NEW d \in Desktops, NEW op \in RequestOps,
              Request(t, d, op)
       PROVE  \A u \in Threads : Admitted(u)'
  <2>1. SUFFICES ASSUME NEW u \in Threads PROVE Admitted(u)'
    OBVIOUS
  <2>2. CASE u = t
    BY <1>0, <1>19, <2>2 DEF Request, Admitted, Alive, Checking
  <2>3. CASE u # t
    BY <1>0, <1>19, <2>3 DEF Request, Admitted, Alive
  <2> QED BY <2>2, <2>3
<1> QED BY <1>1, <1>2, <1>3, <1>4, <1>5, <1>6, <1>7, <1>8, <1>9, <1>10, <1>11, <1>12,
   <1>14, <1>15, <1>16, <1>17, <1>18, <1>19, Alternatives

-----------------------------------------------------------------------------
(* The theorems.                                                           *)

\* A step that changes nothing keeps the invariant.
LEMMA Stuttering ==
  ASSUME IInv, UNCHANGED vars
  PROVE  IInv'
BY DEF IInv, TypeOK, TickHeld, Desk, Attempts, Serves, Tasked, Piped, Admitted, Alive,
       vars, desktop, runners, agent

\* Before the first desktop nobody holds anything.
LEMMA Initially ==
  ASSUME Init
  PROVE  IInv
<1> USE NamesAssumption, AttemptsAssumption DEF Init
<1>1. TypeOK
  BY Actions, Names DEF TypeOK, Unstarted, Fresh, Activities, Actors
<1>2. TickHeld
  BY DEF TickHeld
<1>3. \A d \in Desktops : Desk(d)
  BY DEF Desk, Attempts, Serves, Tasked, Piped, Unstarted, Idle, Actors, Holding
<1>4. \A t \in Threads : Admitted(t)
  BY DEF Admitted, Idle, Actors, Checking
<1> QED BY <1>1, <1>2, <1>3, <1>4 DEF IInv

\* Every step of a desktop, a runner, a request, a terminal or pip, and every
\* crash, keeps the invariant.
THEOREM Invariance == Spec => []IInv
<1>1. Init => IInv
  BY Initially
<1>2. IInv /\ [Next]_vars => IInv'
  <2>1. ASSUME IInv, Next PROVE IInv'
    <3>1. TypeOK'
      BY <2>1, ActorTyped, RestTyped
         DEF IInv, Rest, TypeOK, Phases, Runners, Ticking, States, Activities, Fleets,
         Privates
    <3> QED BY <2>1, <3>1, LockedKept, MaintainedKept, AdmittedKept
            DEF IInv, Locked, Maintained, Desk
  <2> QED BY <2>1, Stuttering
<1> QED BY <1>1, <1>2, PTL DEF Spec

\* Every variable keeps its type.
THEOREM TypeCorrect == Spec => []TypeOK
<1>1. IInv => TypeOK
  BY DEF IInv
<1> QED BY <1>1, Invariance, PTL

\* Nobody ticks while a live desktop installs a package: its installer belongs
\* to maintenance that holds runner.lock, and who ticks holds it too.
THEOREM NoTick == Spec => []NoTickDuringInstall
<1>1. IInv => NoTickDuringInstall
  <2> SUFFICES ASSUME IInv, NEW d \in Desktops, Installing(d)
               PROVE  ~ticking.now
    BY DEF NoTickDuringInstall
  <2>1. Desk(d) /\ TickHeld
    BY DEF IInv
  <2>2. actor[d].at = "installing"
    BY <2>1 DEF Desk, Piped, Installing
  <2>3. ticking.by = Maintenance(d)
    BY <2>1, <2>2 DEF Desk, Tasked, Holding
  <2> QED BY <2>1, <2>3, Names DEF TickHeld
<1> QED BY <1>1, Invariance, PTL
-----------------------------------------------------------------------------
(* The gate of do_POST, when upgrades are committed between requests.      *)

\* Who works is a chat, and no chat is handled while maintenance runs.
Gated ==
  \A t \in Threads :
    /\ actor[t].at = "working" => actor[t].op = "chat"
    /\ \A d \in Desktops :
         actor[t].op = "chat" /\ actor[t].on = d => state[d].status # "running"

\* What no step of a desktop, a runner or an installer changes of requests.
LEMMA RequestsKept ==
  ASSUME TypeOK, Next, Gated, CommitsUnattended
  PROVE  \A t \in Threads :
           \/ actor'[t] = actor[t]
           \/ actor'[t].op # "chat" /\ actor'[t].at # "working"
           \/ /\ actor'[t].op = actor[t].op /\ actor'[t].on = actor[t].on
              /\ actor'[t].at = "working" => actor'[t].op = "chat"
           \/ \E d \in Desktops :
                /\ ~Replacing(d) /\ state' = state
                /\ actor'[t].on = d /\ actor'[t].at = "admitted"
<1> USE DEF Actors
<1>0. actor \in [Actors -> Activities] /\ \A d \in Desktops, t \in Threads : d # t
  BY Parts, Names
<1>1. ASSUME NEW d \in Desktops,
             \/ Serve(d) \/ Close(d) \/ \E e \in Desktops : Reopen(d, e)
             \/ RunnerLocks(d) \/ TickBegins(d) \/ TickEnds(d) \/ RunnerStops(d)
             \/ RunnerFails(d) \/ PipEnds(d)
      PROVE  actor' = actor
  BY <1>1 DEF Serve, Close, Reopen, RunnerLocks, TickBegins, TickEnds, RunnerStops,
              RunnerFails, PipEnds, runnerFrame
<1>2. ASSUME Command \/ TickLaunches \/ JobEnds \/ ConsoleRuns \/ ConsoleEnds \/ ProcessEnds
      PROVE  actor' = actor
  BY <1>2 DEF Command, TickLaunches, JobEnds, ConsoleRuns, ConsoleEnds, ProcessEnds,
     runnerFrame
<1>3. ASSUME NEW d \in Desktops,
             Prepares(d) \/ LocksRunner(d) \/ Installs(d) \/ Installed(d) \/ MaintenanceFails(d)
      PROVE  \A t \in Threads : actor'[t] = actor[t]
  BY <1>0, <1>3 DEF Prepares, LocksRunner, Installs, Moves, Installed, MaintenanceFails,
     Records
<1>4. ASSUME NEW d \in Desktops, Dies(d), NEW t \in Threads
      PROVE  actor'[t] = actor[t] \/ (actor'[t].op # "chat" /\ actor'[t].at # "working")
  BY <1>0, <1>4 DEF Dies, Idle
<1>5. ASSUME NEW x \in Actors, NEW t \in Threads,
             \/ Stops(x) \/ ReadsPrivate(x) \/ Signals(x)
             \/ (x \in Threads /\ (Starts(x) \/ Launches(x) \/ Checks(x)))
      PROVE  \/ actor'[t] = actor[t]
             \/ /\ actor'[t].op = actor[t].op /\ actor'[t].on = actor[t].on
                /\ actor'[t].at # "working"
  <2>1. CASE Stops(x) \/ ReadsPrivate(x) \/ Signals(x)
    BY <1>0, <2>1 DEF Stops, ReadsPrivate, Signals, Moves, Activities
  <2>2. CASE x \in Threads /\ (Starts(x) \/ Launches(x))
    BY <1>0, <2>2 DEF Starts, Launches, Moves, Activities
  <2>3. CASE x \in Threads /\ Checks(x)
    BY <1>0, <2>3 DEF Checks, Moves, Activities
  <2> QED BY <1>5, <2>1, <2>2, <2>3
<1>6. ASSUME NEW x \in Actors, Stopped(x), NEW t \in Threads
      PROVE  \/ actor'[t] = actor[t]
             \/ actor'[t].op # "chat" /\ actor'[t].at # "working"
  BY <1>0, <1>6 DEF Stopped, Returns, Idle
<1>7. ASSUME NEW x \in Threads, NEW t \in Threads,
             \/ Opened(x) \/ Refused(x) \/ Changes(x) \/ Restarts(x) \/ Started(x)
             \/ StopFails(x) \/ UpgradeRefused(x)
      PROVE  \/ actor'[t] = actor[t]
             \/ actor'[t].op # "chat" /\ actor'[t].at # "working"
  <2>1. actor' = [actor EXCEPT ![x] = Idle]
    BY <1>7 DEF Opened, Refused, Changes, Restarts, Started, StopFails, UpgradeRefused,
       Returns
  <2> QED BY <1>0, <2>1 DEF Idle
<1>8. ASSUME NEW x \in Threads, Plans(x), NEW t \in Threads
      PROVE  \/ actor'[t] = actor[t]
             \/ actor'[t].op = "chat" /\ actor[t].op = "chat" /\ actor'[t].on = actor[t].on
  BY <1>0, <1>8 DEF Plans, Moves, Activities
<1>9. ASSUME NEW x \in Threads, Commit(x), NEW t \in Threads
      PROVE  \/ actor'[t] = actor[t]
             \/ actor'[t].op # "chat" /\ actor'[t].at # "working"
  <2>1. actor'[t] = IF t = x THEN Idle ELSE actor[t]
    <3>1. actor[x].on \notin Threads
      BY <1>0, NamesAssumption DEF Activities
    <3> QED BY <1>0, <1>9, <3>1 DEF Commit
  <2> QED BY <2>1 DEF Idle
<1>10. ASSUME NEW x \in Threads, NEW d \in Desktops, NEW t \in Threads,
              Open(x, d) \/ Upgrade(x, d)
       PROVE  \/ actor'[t] = actor[t]
              \/ actor'[t].op # "chat" /\ actor'[t].at # "working"
  <2>1. CASE Open(x, d)
    <3>1. PICK r : r = [Idle EXCEPT !.op = "open", !.at = "child"]
      OBVIOUS
    <3>2. r.op = "open" /\ r.at = "child"
      BY <3>1 DEF Idle
    <3>3. actor' = [actor EXCEPT ![x] = r]
      BY <2>1, <3>1 DEF Open
    <3> QED BY <1>0, <3>2, <3>3
  <2>2. CASE Upgrade(x, d)
    BY <1>0, <2>2 DEF Upgrade
  <2> QED BY <1>10, <2>1, <2>2
<1>11. ASSUME NEW x \in Threads, NEW d \in Desktops, NEW op \in RequestOps,
              Request(x, d, op), NEW t \in Threads
       PROVE  \/ actor'[t] = actor[t]
              \/ actor'[t].op # "chat" /\ actor'[t].at # "working"
              \/ /\ ~Replacing(d) /\ state' = state
                 /\ actor'[t].on = d /\ actor'[t].at = "admitted"
  BY <1>0, <1>11 DEF Request, requestFrame
<1> QED BY <1>1, <1>2, <1>3, <1>4, <1>5, <1>6, <1>7, <1>8, <1>9, <1>10, <1>11,
           Alternatives

\* Maintenance begins with a commit only.
LEMMA MaintenanceBegins ==
  ASSUME TypeOK, Next, NEW d \in Desktops, state'[d].status = "running"
  PROVE  state[d].status = "running" \/ \E t \in Threads : Commit(t) /\ actor[t].on = d
<1>0. state \in [Desktops -> States]
  BY Parts
<1>1. ASSUME NEW e \in Desktops,
             \/ Serve(e) \/ Close(e) \/ (\E g \in Desktops : Reopen(e, g))
             \/ RunnerLocks(e) \/ TickBegins(e) \/ TickEnds(e) \/ RunnerStops(e)
             \/ RunnerFails(e) \/ Prepares(e) \/ LocksRunner(e) \/ Installs(e) \/ PipEnds(e)
      PROVE  state' = state
  BY <1>1 DEF Serve, Close, Reopen, RunnerLocks, TickBegins, TickEnds, RunnerStops,
     RunnerFails, Prepares, LocksRunner, Installs, PipEnds, runnerFrame
<1>2. ASSUME NEW e \in Desktops, Dies(e)
      PROVE  state[d].status = "running"
  BY <1>0, <1>2 DEF Dies, Fresh
<1>3. ASSUME NEW e \in Desktops, Installed(e) \/ MaintenanceFails(e)
      PROVE  state[d].status = "running"
  BY <1>0, <1>3 DEF Installed, MaintenanceFails, Records
<1>4. ASSUME NEW x \in Actors, Stops(x) \/ ReadsPrivate(x) \/ Signals(x) \/ Stopped(x)
      PROVE  state' = state
  BY <1>4 DEF Stops, ReadsPrivate, Signals, Stopped, requestFrame
<1>5. ASSUME NEW t \in Threads,
             \/ Opened(t) \/ Refused(t) \/ Changes(t) \/ Plans(t) \/ Restarts(t)
             \/ Starts(t) \/ Launches(t) \/ Started(t) \/ StopFails(t) \/ Checks(t)
             \/ (\E e \in Desktops : Open(t, e))
             \/ (\E e \in Desktops, op \in RequestOps : Request(t, e, op))
      PROVE  state' = state
  BY <1>5 DEF Opened, Refused, Changes, Plans, Restarts, Starts, Launches, Started,
     StopFails, Checks, Open, Request, requestFrame
<1>6. ASSUME NEW t \in Threads, UpgradeRefused(t) \/ \E e \in Desktops : Upgrade(t, e)
      PROVE  state[d].status = "running"
  <2>1. PICK e, lock : state' = [state EXCEPT ![e].lock = lock]
    BY <1>6 DEF UpgradeRefused, Upgrade
  <2> QED BY <1>0, <2>1 DEF States
<1>7. ASSUME NEW t \in Threads, Commit(t)
      PROVE  state[d].status = "running" \/ actor[t].on = d
  BY <1>0, <1>7 DEF Commit
<1>8. ASSUME Command \/ TickLaunches \/ JobEnds \/ ConsoleRuns \/ ConsoleEnds \/ ProcessEnds
      PROVE  state' = state
  BY <1>8 DEF Command, TickLaunches, JobEnds, ConsoleRuns, ConsoleEnds, ProcessEnds,
     runnerFrame, requestFrame
<1> QED BY <1>1, <1>2, <1>3, <1>4, <1>5, <1>6, <1>7, <1>8, Alternatives

\* web.py:303-309: the gate does what it says when no chat is being handled at
\* the moment an upgrade is committed; that moment is its only window.
THEOREM GateHolds ==
  Spec /\ [][CommitsUnattended]_vars => []NoWorkDuringInstall
<1>1. Init => Gated
  BY DEF Init, Gated, Idle, Actors
<1>2. IInv /\ Gated /\ [Next]_vars /\ [CommitsUnattended]_vars => Gated'
  <2> SUFFICES ASSUME IInv, Gated, [Next]_vars, [CommitsUnattended]_vars
               PROVE  Gated'
    OBVIOUS
  <2>1. CASE UNCHANGED vars
    BY <2>1 DEF Gated, vars
  <2>2. CASE Next /\ CommitsUnattended
    <3>0. TypeOK /\ actor \in [Actors -> Activities]
      BY Parts DEF IInv
    <3>1. ASSUME NEW t \in Threads
          PROVE  actor'[t].at = "working" => actor'[t].op = "chat"
      BY <2>2, <3>0, <3>1, RequestsKept DEF Gated
    <3>2. ASSUME NEW t \in Threads, NEW d \in Desktops,
                 actor'[t].op = "chat", actor'[t].on = d
          PROVE  state'[d].status # "running"
      <4> SUFFICES ASSUME state'[d].status = "running"
                   PROVE  FALSE
        OBVIOUS
      <4>1. CASE \E e \in Desktops : ~Replacing(e) /\ state' = state /\ actor'[t].on = e
        BY <3>2, <4>1 DEF Replacing
      <4>2. CASE actor[t].op = "chat" /\ actor[t].on = d
        <5>1. state[d].status # "running"
          BY <4>2 DEF Gated
        <5>2. PICK x \in Threads : Commit(x) /\ actor[x].on = d
          BY <2>2, <3>0, <5>1, MaintenanceBegins
        <5> QED BY <2>2, <4>2, <5>2 DEF CommitsUnattended
      <4> QED BY <2>2, <3>0, <3>2, <4>1, <4>2, RequestsKept
    <3> QED BY <3>1, <3>2 DEF Gated
  <2> QED BY <2>1, <2>2
<1>3. IInv /\ Gated => NoWorkDuringInstall
  <2> SUFFICES ASSUME IInv, Gated, NEW d \in Desktops, NEW t \in Threads,
                      Installing(d), actor[t].on = d, actor[t].at = "working"
               PROVE  FALSE
    BY DEF NoWorkDuringInstall
  <2>1. actor[d].at = "installing"
    BY DEF IInv, Desk, Piped, Installing
  <2>2. state[d].status = "running"
    BY <2>1 DEF IInv, Desk, Tasked
  <2> QED BY <2>2 DEF Gated
<1> QED BY <1>1, <1>2, <1>3, Invariance, PTL DEF Spec
=============================================================================
