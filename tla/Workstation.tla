----------------------------- MODULE Workstation -----------------------------
(***************************************************************************)
(* The desktop application of one root and what runs beside it: its start, *)
(* reopening and shutdown (platform/desktop.py), the requests its server   *)
(* admits (platform/web.py), package maintenance (platform/components.py), *)
(* the private AtSys processes of an agent (platform/supervision_service.  *)
(* py), and commands of other terminals, which know nothing of its memory. *)
(*                                                                         *)
(* There is one ordinary agent.  pip and AtSys are external: an installer  *)
(* is a child process that outlives its desktop, AtSys takes a signal      *)
(* sooner or later.  Any call may fail, a desktop may die at any step; a   *)
(* dead process holds no file lock.                                        *)
(***************************************************************************)
EXTENDS Integers, FiniteSets

CONSTANTS
  Desktops,     \* processes of the desktop, each started at most once
  Threads,      \* requests being handled, and commands of other terminals
  Nobody,       \* no holder, no desktop
  MaxAttempts   \* failures after which the runner gives up (3)

ASSUME NamesAssumption ==
  /\ Desktops \intersect Threads = {}
  /\ Nobody \notin Desktops \union Threads

ASSUME AttemptsAssumption == MaxAttempts \in Nat \ {0}

VARIABLES
  phase,     \* per desktop: where its main thread is
  owner,     \* desktop-owner.lock
  listed,    \* the desktop named by desktop.json
  starting,  \* desktop-start.lock
  runner,    \* per desktop: its runner thread, failures and stop event
  ticking,   \* the runner.lock: by whom it is held, and whether it ticks
  state,     \* per desktop: Components.state and the holder of its lock
  actor,     \* what each thread, and the maintenance thread of each desktop, does
  pip,       \* desktops whose installer is running
  fleet,     \* the agent: active, its job, its delegated task
  private    \* its AtSys: dashboard.json, the processes up, atbots-setup.lock

desktop == <<phase, owner, listed, starting>>
runners == <<runner, ticking>>
agent == <<fleet, private>>
vars == <<desktop, runners, state, actor, pip, agent>>

Actors == Threads \union Desktops

Ops == {"none", "change", "chat", "start", "stop", "upgrade", "restart", "open", "maintain"}
Steps == {"idle", "admitted", "working", "dashboard", "ready", "take", "read", "signal",
          "await", "agents", "jobs", "links", "commit", "child", "prepare", "lock",
          "install", "installing"}
Idle == [op |-> "none", at |-> "idle", on |-> Nobody, seen |-> FALSE]

NoRunner == <<"none", Nobody>>
Console == <<"console", Nobody>>
Runner(d) == <<"runner", d>>
Maintenance(d) == <<"maintenance", d>>
Holders == {NoRunner, Console} \union {Runner(d) : d \in Desktops}
             \union {Maintenance(d) : d \in Desktops}

Unstarted == [at |-> "off", failures |-> 0, stop |-> FALSE]
Fresh == [status |-> "idle", restart |-> FALSE, lock |-> Nobody]

Alive(d) == phase[d] \notin {"unborn", "gone"}

Init ==
  /\ phase = [d \in Desktops |-> "unborn"]
  /\ owner = Nobody
  /\ listed = Nobody
  /\ starting = Nobody
  /\ runner = [d \in Desktops |-> Unstarted]
  /\ ticking = [by |-> NoRunner, now |-> FALSE]
  /\ state = [d \in Desktops |-> Fresh]
  /\ actor = [x \in Actors |-> Idle]
  /\ pip = {}
  /\ fleet = [active |-> TRUE, job |-> "none", task |-> "closed"]
  /\ private = [known |-> FALSE, up |-> FALSE, setup |-> Nobody]

-----------------------------------------------------------------------------
(* Control shared by the threads.                                          *)

Moves(x, from, to) ==
  /\ actor[x].at = from
  /\ actor' = [actor EXCEPT ![x].at = to]

\* A request is answered; maintenance records its end under components.lock.
Returns(x) ==
  /\ x \in Threads
  /\ actor' = [actor EXCEPT ![x] = Idle]

Loose(x) == IF private.setup = x THEN [private EXCEPT !.setup = Nobody] ELSE private

-----------------------------------------------------------------------------
(* platform/desktop.py: one desktop of a root.                             *)

Live == listed # Nobody /\ phase[listed] = "serving"

\* open_desktop in a terminal: under the start lock a live desktop is shown,
\* and otherwise one is started.
Open(t, d) ==
  /\ actor[t] = Idle
  /\ starting = Nobody
  /\ ~Live
  /\ phase[d] = "unborn"
  /\ phase' = [phase EXCEPT ![d] = "spawned"]
  /\ starting' = t
  /\ actor' = [actor EXCEPT ![t] = [Idle EXCEPT !.op = "open", !.at = "child"]]
  /\ UNCHANGED <<owner, listed, runners, state, pip, agent>>

\* The child answers, has ended, or the deadline passes.
Opened(t) ==
  /\ actor[t].at = "child"
  /\ starting' = Nobody
  /\ Returns(t)
  /\ UNCHANGED <<phase, owner, listed, runners, state, pip, agent>>

\* run: the owner lock is tried once, then the server is listed.
Serve(d) ==
  /\ phase[d] = "spawned"
  /\ owner = Nobody
  /\ phase' = [phase EXCEPT ![d] = "serving"]
  /\ owner' = d
  /\ listed' = d
  /\ runner' = [runner EXCEPT ![d].at = "try"]
  /\ UNCHANGED <<starting, ticking, state, actor, pip, agent>>

\* serve_forever has returned: stop is set and the runner joined for 5 s,
\* whether it ends or not; the desktop that desktop.json names removes it, the
\* owner lock is left, and main opens the next one if it was asked to.
Close(d) ==
  /\ phase[d] = "closing"
  /\ runner' = [runner EXCEPT ![d].stop = TRUE]
  /\ listed' = IF listed = d THEN Nobody ELSE listed
  /\ owner' = Nobody
  /\ phase' = [phase EXCEPT ![d] = "reopening"]
  /\ UNCHANGED <<starting, ticking, state, actor, pip, agent>>

Reopen(d, e) ==
  /\ phase[d] = "reopening"
  /\ starting = Nobody
  /\ ~Live
  /\ phase[e] = "unborn"
  /\ phase' = [phase EXCEPT ![d] = "waiting", ![e] = "spawned"]
  /\ starting' = d
  /\ UNCHANGED <<owner, listed, runners, state, actor, pip, agent>>

\* The process ends: with it its memory, its threads and every lock they
\* hold, but neither pip nor what the files say.
Dies(d) ==
  /\ Alive(d)
  /\ phase' = [phase EXCEPT ![d] = "gone"]
  /\ owner' = IF owner = d THEN Nobody ELSE owner
  /\ starting' = IF starting = d THEN Nobody ELSE starting
  /\ runner' = [runner EXCEPT ![d] = Unstarted]
  /\ state' = [state EXCEPT ![d] = Fresh]
  /\ ticking' = IF ticking.by \in {Runner(d), Maintenance(d)}
                THEN [by |-> NoRunner, now |-> FALSE] ELSE ticking
  /\ actor' = [x \in Actors |-> IF x = d \/ actor[x].on = d THEN Idle ELSE actor[x]]
  /\ private' = IF private.setup # Nobody
                   /\ (private.setup = d \/ actor[private.setup].on = d)
                THEN [private EXCEPT !.setup = Nobody] ELSE private
  /\ UNCHANGED <<listed, pip, fleet>>

\* The owner lock is taken, or run() and the reopening have returned.
Exit(d) ==
  /\ \/ phase[d] = "spawned" /\ owner # Nobody
     \/ phase[d] \in {"reopening", "waiting"}
  /\ Dies(d)

\* kill, a fault, the machine is switched off.
Crash(d) == Dies(d)

-----------------------------------------------------------------------------
(* The runner thread: Scheduler.serve under runner.lock.                   *)

runnerFrame == <<desktop, state, actor, pip, agent>>

\* The lock is tried without waiting.
RunnerLocks(d) ==
  /\ runner[d].at = "try"
  /\ ticking.by = NoRunner
  /\ ticking' = [by |-> Runner(d), now |-> FALSE]
  /\ runner' = [runner EXCEPT ![d].at = "serve"]
  /\ UNCHANGED runnerFrame

TickBegins(d) ==
  /\ runner[d].at = "serve"
  /\ ~runner[d].stop
  /\ ~ticking.now
  /\ ticking' = [ticking EXCEPT !.now = TRUE]
  /\ UNCHANGED <<runner, runnerFrame>>

\* run_once launches queued work of an active agent.
TickLaunches ==
  /\ ticking.now
  /\ fleet.active
  /\ fleet.job = "queued"
  /\ fleet' = [fleet EXCEPT !.job = "running"]
  /\ UNCHANGED <<desktop, runners, state, actor, pip, private>>

TickEnds(d) ==
  /\ ticking.by = Runner(d)
  /\ ticking.now
  /\ ticking' = [ticking EXCEPT !.now = FALSE]
  /\ UNCHANGED <<runner, runnerFrame>>

\* serve returns when it looks at the stop event, between two ticks.
RunnerStops(d) ==
  /\ runner[d].at = "serve"
  /\ runner[d].stop
  /\ ~ticking.now
  /\ runner' = [runner EXCEPT ![d].at = "over"]
  /\ ticking' = [ticking EXCEPT !.by = NoRunner]
  /\ UNCHANGED runnerFrame

\* Mutated form: one attempt more.
ExhaustedAfter(failures) == failures > MaxAttempts

Exhausted(failures) == failures = MaxAttempts

\* A refused lock or an error of a tick: three attempts, unless told to stop.
RunnerFails(d) ==
  LET failures == runner[d].failures + 1 IN
  /\ \/ runner[d].at = "try" /\ ticking.by # NoRunner /\ UNCHANGED ticking
     \/ /\ runner[d].at = "serve" /\ ticking.now
        /\ ticking' = [by |-> NoRunner, now |-> FALSE]
  /\ runner' = [runner EXCEPT ![d].failures = failures,
       ![d].at = IF runner[d].stop \/ Exhausted(failures) THEN "over" ELSE "try"]
  /\ UNCHANGED runnerFrame

\* `atbots runner` in a terminal takes the same lock, and is interrupted.
ConsoleRuns ==
  /\ ticking.by = NoRunner
  /\ ticking' = [by |-> Console, now |-> TRUE]
  /\ UNCHANGED <<runner, runnerFrame>>

ConsoleEnds ==
  /\ ticking.by = Console
  /\ ticking' = [by |-> NoRunner, now |-> FALSE]
  /\ UNCHANGED <<runner, runnerFrame>>

\* The worker of a launched job ends.
JobEnds ==
  /\ fleet.job = "running"
  /\ fleet' = [fleet EXCEPT !.job = "none"]
  /\ UNCHANGED <<desktop, runners, state, actor, pip, private>>

-----------------------------------------------------------------------------
(* Requests and commands.                                                  *)

requestFrame == <<desktop, runners, state, pip>>

\* Maintenance runs, or has ended and asks for a restart.
Replacing(d) == state[d].status = "running" \/ state[d].restart

\* do_POST looks at the maintenance state once, through its lock; a restart
\* only asks that maintenance is not running.
Request(t, d, op) ==
  /\ actor[t] = Idle
  /\ phase[d] = "serving"
  /\ state[d].lock = Nobody
  /\ IF op = "restart" THEN state[d].status # "running" ELSE ~Replacing(d)
  /\ actor' = [actor EXCEPT ![t] = [op |-> op, at |-> "admitted", on |-> d, seen |-> FALSE]]
  /\ UNCHANGED <<requestFrame, agent>>

\* A refusal, an error, or nothing to do.
Refused(t) ==
  /\ actor[t].at \in {"admitted", "working"}
  /\ Returns(t)
  /\ UNCHANGED <<requestFrame, agent>>

\* An agent is paused or resumed, a job submitted or cancelled, an action
\* taken on the delegated task.
FleetChanges ==
  \/ \E active \in BOOLEAN : fleet' = [fleet EXCEPT !.active = active]
  \/ fleet.active /\ fleet.job = "none" /\ fleet' = [fleet EXCEPT !.job = "queued"]
  \/ fleet.job = "queued" /\ fleet' = [fleet EXCEPT !.job = "none"]
  \/ \E task \in {"open", "closed"} : fleet' = [fleet EXCEPT !.task = task]

Changes(t) ==
  /\ \/ actor[t].op = "change" /\ actor[t].at = "admitted"
     \/ actor[t].op = "chat" /\ actor[t].at = "working"
  /\ FleetChanges
  /\ Returns(t)
  /\ UNCHANGED <<requestFrame, private>>

\* A command of another terminal has no gate: the state of maintenance is in
\* the memory of the desktop.
Command ==
  /\ FleetChanges
  /\ UNCHANGED <<requestFrame, actor, private>>

\* The control room asks its model for a plan, then applies it.
Plans(t) ==
  /\ actor[t].op = "chat"
  /\ Moves(t, "admitted", "working")
  /\ UNCHANGED <<requestFrame, agent>>

\* Restart: the fleet is looked at once, then the server is shut down, with
\* status["restart_requested"] for main.
Restarts(t) ==
  LET d == actor[t].on IN
  /\ actor[t].op = "restart"
  /\ ~fleet.active /\ fleet.job = "none"
  /\ phase[d] = "serving"
  /\ phase' = [phase EXCEPT ![d] = "closing"]
  /\ Returns(t)
  /\ UNCHANGED <<owner, listed, starting, runners, state, pip, agent>>

-----------------------------------------------------------------------------
(* platform/supervision_service.py.                                        *)

\* FileLock(atbots-setup.lock, timeout=0).
TakesSetup(x) ==
  /\ private.setup = Nobody
  /\ private' = [private EXCEPT !.setup = x]

Starts(t) ==
  /\ actor[t].op = "start"
  /\ TakesSetup(t)
  /\ Moves(t, "admitted", "dashboard")
  /\ UNCHANGED <<requestFrame, fleet>>

\* `atsys ui` writes dashboard.json; the watchdog of `atsys service start` is
\* one process with it here.
Launches(t) ==
  /\ Moves(t, "dashboard", "ready")
  /\ private' = [private EXCEPT !.known = TRUE, !.up = TRUE]
  /\ UNCHANGED <<requestFrame, fleet>>

\* Ready, or an error: what was launched stays.
Started(t) ==
  /\ actor[t].at \in {"dashboard", "ready"}
  /\ Returns(t)
  /\ private' = Loose(t)
  /\ UNCHANGED <<requestFrame, fleet>>

\* stop_private, for a request or for maintenance.
Stops(x) ==
  /\ \/ actor[x].op = "stop" /\ Moves(x, "admitted", "read")
     \/ actor[x].op = "maintain" /\ Moves(x, "take", "read")
  /\ private.known
  /\ TakesSetup(x)
  /\ UNCHANGED <<requestFrame, fleet>>

\* Every task has ended, its processes are this agent's own.
Stoppable == fleet.task = "closed"

ReadsPrivate(x) ==
  /\ Moves(x, "read", "signal")
  /\ Stoppable
  /\ UNCHANGED <<requestFrame, agent>>

\* SIGTERM, and no other signal.
Signals(x) ==
  /\ Moves(x, "signal", "await")
  /\ UNCHANGED <<requestFrame, agent>>

ProcessEnds ==
  /\ \E x \in Actors : actor[x].at = "await"
  /\ private.up
  /\ private' = [private EXCEPT !.up = FALSE]
  /\ UNCHANGED <<requestFrame, actor, fleet>>

\* Stopped: a request returns, maintenance goes on to install.
Stopped(x) ==
  /\ actor[x].at = "await"
  /\ ~private.up
  /\ private' = Loose(x)
  /\ IF x \in Threads THEN Returns(x)
     ELSE actor' = [actor EXCEPT ![x].at = "install"]
  /\ UNCHANGED <<requestFrame, fleet>>

\* A refusal, or the shutdown is still pending after five seconds.
StopFails(t) ==
  /\ actor[t].at \in {"read", "signal", "await"}
  /\ Returns(t)
  /\ private' = Loose(t)
  /\ UNCHANGED <<requestFrame, fleet>>

-----------------------------------------------------------------------------
(* platform/components.py.                                                 *)

maintenanceFrame == <<desktop, runner, fleet>>

\* upgrade holds components.lock from its first check to its last.
Upgrade(t, d) ==
  /\ actor[t] = Idle
  /\ phase[d] = "serving"
  /\ state[d].lock = Nobody
  /\ ~Replacing(d)
  /\ state' = [state EXCEPT ![d].lock = t]
  /\ actor' = [actor EXCEPT ![t] = [op |-> "upgrade", at |-> "agents", on |-> d, seen |-> FALSE]]
  /\ UNCHANGED <<desktop, runners, pip, agent>>

\* One read each: the agents, the jobs, and the private and delegated work.
Checks(t) ==
  /\ \/ ~fleet.active /\ Moves(t, "agents", "jobs")
     \/ fleet.job = "none" /\ Moves(t, "jobs", "links")
     \/ /\ actor[t].at = "links"
        /\ fleet.task = "closed"
        /\ actor' = [actor EXCEPT ![t].at = "commit", ![t].seen = private.known]
  /\ UNCHANGED <<requestFrame, agent>>

\* state["status"] = "running", and the thread that performs it.
Commit(t) ==
  LET d == actor[t].on IN
  /\ actor[t].at = "commit"
  /\ state' = [state EXCEPT ![d] = [status |-> "running", restart |-> FALSE, lock |-> Nobody]]
  /\ actor' = [actor EXCEPT ![t] = Idle,
       ![d] = [op |-> "maintain", at |-> "prepare", on |-> d, seen |-> actor[t].seen]]
  /\ UNCHANGED <<desktop, runners, pip, agent>>

UpgradeRefused(t) ==
  LET d == actor[t].on IN
  /\ actor[t].at \in {"agents", "jobs", "links"}
  /\ state' = [state EXCEPT ![d].lock = Nobody]
  /\ Returns(t)
  /\ UNCHANGED <<desktop, runners, pip, agent>>

\* perform: prepare stops the runner of this desktop and joins it ...
Prepares(d) ==
  /\ actor[d].at = "prepare"
  /\ runner' = [runner EXCEPT ![d].stop = TRUE]
  /\ Moves(d, "prepare", "lock")
  /\ UNCHANGED <<desktop, ticking, state, pip, agent>>

\* Mutated form: its own runner has stopped, so nobody ticks.
LockableAfterJoin(d) == runner[d].at = "over"

\* ... and runner.lock keeps every other one away.
Lockable(d) == runner[d].at = "over" /\ ticking.by = NoRunner

LocksRunner(d) ==
  /\ Moves(d, "lock", IF actor[d].seen THEN "take" ELSE "install")
  /\ Lockable(d)
  /\ ticking' = [ticking EXCEPT !.by = Maintenance(d)]
  /\ UNCHANGED <<maintenanceFrame, state, pip, private>>

Installs(d) ==
  /\ Moves(d, "install", "installing")
  /\ pip' = pip \union {d}
  /\ UNCHANGED <<desktop, runners, state, agent>>

PipEnds(d) ==
  /\ d \in pip
  /\ pip' = pip \ {d}
  /\ UNCHANGED <<desktop, runners, state, actor, agent>>

Records(d, status) ==
  /\ state[d].lock = Nobody
  /\ state' = [state EXCEPT ![d] = [status |-> status, restart |-> TRUE, lock |-> Nobody]]
  /\ actor' = [actor EXCEPT ![d] = Idle]
  /\ ticking' = IF ticking.by = Maintenance(d) THEN [ticking EXCEPT !.by = NoRunner] ELSE ticking
  /\ private' = Loose(d)

Installed(d) ==
  /\ actor[d].at = "installing"
  /\ d \notin pip
  /\ \E status \in {"installed", "needs_attention"} : Records(d, status)
  /\ UNCHANGED <<maintenanceFrame, pip>>

\* Mutated form: runner.lock and the join are waited for without a limit.
GivesUpWhen(d) == actor[d].at \in {"take", "read", "signal", "await"}

\* The runner is not joined, the lock is held, the private AtSys does not
\* stop: every wait of perform has a limit.
GivesUp(d) == actor[d].at \in {"lock", "take", "read", "signal", "await"}

MaintenanceFails(d) ==
  /\ GivesUp(d)
  /\ Records(d, "needs_attention")
  /\ UNCHANGED <<maintenanceFrame, pip>>
-----------------------------------------------------------------------------

RequestOps == {"change", "chat", "start", "stop", "restart"}

DesktopStep(d) ==
  \/ Serve(d) \/ Close(d) \/ Exit(d) \/ Crash(d)
  \/ \E e \in Desktops : Reopen(d, e)

RunnerStep(d) ==
  RunnerLocks(d) \/ TickBegins(d) \/ TickEnds(d) \/ RunnerStops(d) \/ RunnerFails(d)

\* The maintenance thread of a desktop.
Maintains(d) ==
  \/ Prepares(d) \/ LocksRunner(d) \/ Installs(d) \/ Installed(d) \/ MaintenanceFails(d)
  \/ Stops(d) \/ ReadsPrivate(d) \/ Signals(d) \/ Stopped(d)

Handles(t) ==
  \/ Opened(t)
  \/ Refused(t) \/ Changes(t) \/ Plans(t) \/ Restarts(t)
  \/ Starts(t) \/ Launches(t) \/ Started(t)
  \/ Stops(t) \/ ReadsPrivate(t) \/ Signals(t) \/ Stopped(t) \/ StopFails(t)
  \/ Checks(t) \/ Commit(t) \/ UpgradeRefused(t)

Next ==
  \/ \E d \in Desktops : DesktopStep(d) \/ RunnerStep(d) \/ Maintains(d) \/ PipEnds(d)
  \/ \E t \in Threads :
       \/ Handles(t)
       \/ \E d \in Desktops : Open(t, d) \/ Upgrade(t, d)
       \/ \E d \in Desktops, op \in RequestOps : Request(t, d, op)
  \/ Command \/ TickLaunches \/ JobEnds \/ ConsoleRuns \/ ConsoleEnds \/ ProcessEnds

\* Every wait of perform has a limit, and so has the installer (timeout=300).
\* Nothing is assumed of runners, requests and other terminals.
Fairness == \A d \in Desktops : WF_vars(Maintains(d)) /\ WF_vars(PipEnds(d))

Spec == Init /\ [][Next]_vars /\ Fairness

-----------------------------------------------------------------------------
(* Properties.                                                             *)

TypeOK ==
  /\ phase \in [Desktops -> {"unborn", "spawned", "serving", "closing", "reopening",
                             "waiting", "gone"}]
  /\ {owner, listed} \subseteq Desktops \union {Nobody}
  /\ starting \in Actors \union {Nobody}
  /\ runner \in [Desktops -> [at : {"off", "try", "serve", "over"},
                              failures : 0..MaxAttempts, stop : BOOLEAN]]
  /\ ticking \in [by : Holders, now : BOOLEAN]
  /\ state \in [Desktops -> [status : {"idle", "running", "installed", "needs_attention"},
                             restart : BOOLEAN, lock : Threads \union {Nobody}]]
  /\ actor \in [Actors -> [op : Ops, at : Steps, on : Desktops \union {Nobody}, seen : BOOLEAN]]
  /\ pip \subseteq Desktops
  /\ fleet \in [active : BOOLEAN, job : {"none", "queued", "running"}, task : {"open", "closed"}]
  /\ private \in [known : BOOLEAN, up : BOOLEAN, setup : Actors \union {Nobody}]

Installing(d) == Alive(d) /\ d \in pip

\* Nobody ticks while a live desktop replaces packages: not its own runner,
\* which is joined, not that of another process, which runner.lock keeps out,
\* though the fleet may be resumed and given work meanwhile.
NoTickDuringInstall == \A d \in Desktops : Installing(d) => ~ticking.now

\* web.py:309 of a request it refuses: "Package maintenance requires
\* restarting AtBots before further changes or model work".
\* So no request of that desktop is at work while its installer runs.
NoWorkDuringInstall ==
  \A d \in Desktops, t \in Threads :
    Installing(d) /\ actor[t].on = d => actor[t].at # "working"

\* The window in which it fails: an upgrade is committed while a chat that
\* passed the gate is being handled.
CommitsUnattended ==
  \A t \in Threads : Commit(t) =>
    \A x \in Threads : actor[x].op = "chat" => actor[x].on # actor[t].on

SpecUnattended == Init /\ [][Next /\ CommitsUnattended]_vars

\* Maintenance that was committed reaches an end that can be read, or its
\* desktop is gone: a runner that does not stop, a console that keeps
\* runner.lock, an AtSys that ignores its signal never hold it for good.
MaintenanceSettles ==
  \A d \in Desktops :
    state[d].status = "running" ~> state[d].status # "running" \/ ~Alive(d)
=============================================================================
