----------------------------- MODULE Daemonize ------------------------------
(***************************************************************************)
(* The daemon as a process: main and its steps of daemonization, the run   *)
(* loop of the engine, and the init script that starts, stops and restarts *)
(* it. FileServer models what the process keeps over its runs; here it is  *)
(* who runs at all, and who is told so.                                    *)
(*                                                                         *)
(* A launch is one call of the program. The process called (the original)  *)
(* forks and waits at a pipe; the daemon writes its id into the locked PID *)
(* file, makes its engine with the IPC socket, and reports over the pipe.  *)
(* With --no-daemon there is neither original nor PID file.                *)
(*                                                                         *)
(* External: the kernel (a lock belongs to a file, not to its name, and    *)
(* ends with its owner; a write to a pipe that nobody reads kills) and     *)
(* start-stop-daemon. Ids of processes are not used again.                 *)
(***************************************************************************)
EXTENDS Integers

CONSTANTS
    MaxLaunches,   \* bound: calls of the program
    AddressKinds   \* TRUE: a socket address in the file system, that stays when its owner dies

ASSUME DaemonizeAssumption ==
    /\ MaxLaunches \in Nat \ {0}
    /\ AddressKinds \subseteq BOOLEAN /\ AddressKinds # {}

Launches == 1 .. MaxLaunches
Nobody   == 0
Stale    == -1   \* of the address: a socket file without an owner

VARIABLES
    orig,        \* launch -> the original: "no", "waiting" or "interrupted" at the pipe, or its
                 \* exit: "success", "failure", or "aborted" (a failure) when it was interrupted
    pc,          \* launch -> the daemon
    text,        \* launch -> what the pipe holds: "nothing", "init_complete" or "error"
    term,        \* launches whose g_running is 0
    name,        \* the file that the name of the PID file stands for, or Nobody
    opened,      \* launch -> the file it has opened
    content,     \* file -> the launch whose id it holds, or Nobody
    lock,        \* file -> the launch that has locked it, or Nobody
    address,     \* the launch whose socket is bound to the IPC address
    stays,       \* kind of the address
    script,      \* what the init script does: its command, its step, the launch it waits for
    inits        \* history: launches whose engine was initialized

pidFile == << name, opened, content, lock >>
vars    == << orig, pc, text, term, pidFile, address, stays, script, inits >>

\* Files are named by the launch that created them.
Starting == {"forked", "opened", "locked", "written", "inited"}
Serving  == {"check", "spin", "poll", "exiting"}
Alive    == Starting \cup Serving \cup {"failing"}

Launched   == { l \in Launches : pc[l] # "no" }
NextLaunch == CHOOSE l \in Launches \ Launched : \A m \in Launches \ Launched : l <= m

Idle == [ command |-> "none", step |-> "none", l |-> Nobody ]

\* Processes, pipes, files and the script are in states they have.
TypeOK ==
    /\ orig \in [ Launches -> {"no", "waiting", "interrupted", "success", "failure", "aborted"} ]
    /\ pc \in [ Launches -> Alive \cup {"no", "dead"} ]
    /\ text \in [ Launches -> {"nothing", "init_complete", "error"} ]
    /\ term \subseteq Launches /\ inits \subseteq Launches
    /\ name \in Launches \cup {Nobody} /\ address \in Launches \cup {Nobody, Stale}
    /\ opened \in [ Launches -> Launches \cup {Nobody} ]
    /\ content \in [ Launches -> Launches \cup {Nobody} ]
    /\ lock \in [ Launches -> Launches \cup {Nobody} ]
    /\ stays \in AddressKinds
    /\ script \in [ command : {"none", "start", "stop", "restart"},
                     step : {"none", "test", "wait", "signal", "remove"},
                     l : Launches \cup {Nobody} ]

Init ==
    /\ orig = [ l \in Launches |-> "no" ] /\ pc = [ l \in Launches |-> "no" ]
    /\ text = [ l \in Launches |-> "nothing" ] /\ term = {}
    /\ name = Nobody
    /\ opened = [ l \in Launches |-> Nobody ]
    /\ content = [ l \in Launches |-> Nobody ]
    /\ lock = [ l \in Launches |-> Nobody ]
    /\ address = Nobody /\ stays \in AddressKinds
    /\ script = Idle /\ inits = {}

-----------------------------------------------------------------------------
(* Launching, and the original                                             *)

\* main, up to the first fork.
Launch(l, daemonized) ==
    /\ pc[l] = "no" /\ l = NextLaunch
    /\ pc' = [ pc EXCEPT ![l] = IF daemonized THEN "forked" ELSE "written" ]
    /\ orig' = [ orig EXCEPT ![l] = IF daemonized THEN "waiting" ELSE "no" ]
    /\ UNCHANGED << text, term, pidFile, address, stays, inits >>

LaunchByHand ==
    /\ \E l \in Launches, daemonized \in BOOLEAN : Launch(l, daemonized)
    /\ UNCHANGED script

\* The daemon holds the other end of the pipe until it has reported or died.
PipeIsClosed(l) == pc[l] \in Serving \cup {"dead"}

(* Slip: only an error that was written is a failure. *)
NoErrorIsSuccess(l) == IF text[l] = "error" THEN "failure" ELSE "success"

Verdict(l) == IF text[l] = "init_complete" THEN "success" ELSE "failure"

(* Slip: the original waits for a text, whether the daemon lives or not. *)
HasText(l) == text[l] # "nothing"

\* One read of the pipe returns what is there, or its end.
ReadReturns(l) == text[l] # "nothing" \/ PipeIsClosed(l)

\* step_15_exit_org_process
ExitOriginal(l) ==
    /\ orig[l] = "waiting" /\ ReadReturns(l)
    /\ orig' = [ orig EXCEPT ![l] = Verdict(l) ]
    /\ UNCHANGED << pc, text, term, pidFile, address, stays, script, inits >>

\* A signal makes the read fail; the pipe is open until the exit.
InterruptOriginal(l) ==
    /\ orig[l] = "waiting"
    /\ orig' = [ orig EXCEPT ![l] = "interrupted" ]
    /\ UNCHANGED << pc, text, term, pidFile, address, stays, script, inits >>

ExitInterrupted(l) ==
    /\ orig[l] = "interrupted"
    /\ orig' = [ orig EXCEPT ![l] = "aborted" ]
    /\ UNCHANGED << pc, text, term, pidFile, address, stays, script, inits >>

Original(l) == ExitOriginal(l) \/ ExitInterrupted(l)

-----------------------------------------------------------------------------
(* The steps of the daemon                                                 *)

Step(l, from, to) ==
    /\ pc[l] = from /\ pc' = [ pc EXCEPT ![l] = to ]
    /\ UNCHANGED << orig, stays, script >>

\* The kernel cleans up: the lock, the socket, the pipe. The PID file stays.
Dies(l) ==
    /\ pc[l] \in Alive /\ pc' = [ pc EXCEPT ![l] = "dead" ]
    /\ lock' = [ f \in Launches |-> IF lock[f] = l THEN Nobody ELSE lock[f] ]
    /\ address' = IF address # l THEN address ELSE IF stays THEN Stale ELSE Nobody
    /\ opened' = [ opened EXCEPT ![l] = Nobody ] /\ term' = term \ {l}
    /\ UNCHANGED << orig, text, name, content, stays, script, inits >>

HasReader(l) == orig[l] \in {"waiting", "interrupted"}

\* exitWithFailure and its like: the text first, then the exit. Without a reader
\* the text kills as well.
ReportsFailure(l) ==
    /\ text' = [ text EXCEPT ![l] = IF HasReader(l) THEN "error" ELSE @ ]
    /\ UNCHANGED << term, pidFile, address, inits >>

\* setsid, the second fork, /dev/null, umask, chdir; then step_12_create_pid_file:
\* open, with O_CREAT, ...
OpenPidFile(l) ==
    /\ Step(l, "forked", "opened")
    /\ name' = IF name = Nobody THEN l ELSE name
    /\ opened' = [ opened EXCEPT ![l] = name' ]
    /\ UNCHANGED << text, term, content, lock, address, inits >>

(* Slip: the result of lockf is not looked at. *)
AnyLock(l) == TRUE

MayLock(l) == lock[opened[l]] = Nobody

\* ... lockf, without waiting, ...
LockPidFile(l) ==
    /\ Step(l, "opened", "locked") /\ MayLock(l)
    /\ lock' = [ lock EXCEPT ![opened[l]] = l ]
    /\ UNCHANGED << text, term, name, opened, content, address, inits >>

LockFails(l) == Step(l, "opened", "failing") /\ ~MayLock(l) /\ ReportsFailure(l)

\* ... ftruncate, and the id.
WritePidFile(l) ==
    /\ Step(l, "locked", "written")
    /\ content' = [ content EXCEPT ![opened[l]] = l ]
    /\ UNCHANGED << text, term, name, opened, lock, address, inits >>

(* Slip: the engine goes on without its socket. *)
AnyAddress == TRUE

\* bind refuses an address that has an owner, and a socket file that is there.
MayBind == address = Nobody

\* loadConfig, setupLogging, and Engine::init: transport, node, file provider, and the IPC router with its socket.
InitEngine(l) ==
    /\ Step(l, "written", "inited") /\ MayBind
    /\ address' = l /\ inits' = inits \cup {l}
    /\ UNCHANGED << text, term, pidFile >>

BindFails(l) == Step(l, "written", "failing") /\ ~MayBind /\ ReportsFailure(l)

\* Any of these steps may fail, and says so.
StepFails(l) ==
    /\ \E from \in Starting \ {"inited"} : Step(l, from, "failing")
    /\ ReportsFailure(l)

ExitWithFailure(l) == pc[l] = "failing" /\ Dies(l)

MayNotify(l) == HasReader(l) \/ orig[l] = "no"

\* step_14_notify_init_complete, unless --no-daemon
NotifyInitComplete(l) ==
    /\ Step(l, "inited", "check") /\ MayNotify(l)
    /\ text' = IF HasReader(l) THEN [ text EXCEPT ![l] = "init_complete" ] ELSE text
    /\ UNCHANGED << term, pidFile, address, inits >>

\* SIGPIPE is not handled: without its original the daemon dies here.
NotifyKills(l) == pc[l] = "inited" /\ ~MayNotify(l) /\ Dies(l)

\* Engine::runWhile looks at the predicate, runs what is due, ...
Check(l) ==
    /\ Step(l, "check", IF l \in term THEN "exiting" ELSE "spin")
    /\ UNCHANGED << text, term, pidFile, address, inits >>

Spin(l) == Step(l, "spin", "poll") /\ UNCHANGED << text, term, pidFile, address, inits >>

(* Slip: the poll waits for a descriptor only. *)
NeverElapses == FALSE

\* "awake at least once per second"
Elapses == TRUE

\* ... and polls: for a second, or less if there is something to do.
PollEnds(l) ==
    /\ Elapses
    /\ Step(l, "poll", "check") /\ UNCHANGED << text, term, pidFile, address, inits >>

\* config->save() and the end of main.
Exit(l) == pc[l] = "exiting" /\ Dies(l)

Crash(l) == Dies(l)

DaemonStep(l) ==
    \/ OpenPidFile(l) \/ LockPidFile(l) \/ LockFails(l) \/ WritePidFile(l)
    \/ InitEngine(l) \/ BindFails(l)
    \/ ExitWithFailure(l) \/ NotifyInitComplete(l) \/ NotifyKills(l)
    \/ Check(l) \/ Spin(l) \/ PollEnds(l) \/ Exit(l)

-----------------------------------------------------------------------------
(* The init script. restart is stop and start, whatever stop says.         *)

ToStep(s) == script' = [ script EXCEPT !.step = s ]

Unmoved == UNCHANGED << orig, pc, text, term, pidFile, address, stays, inits >>

ScriptCalled(command) ==
    /\ script = Idle
    /\ script' = [ Idle EXCEPT !.command = command,
                               !.step = IF command = "start" THEN "test" ELSE "signal" ]
    /\ Unmoved

\* start: "is already running." if there is a PID file. Otherwise the program is
\* called; start-stop-daemon has no other process to find there.
ScriptTests ==
    /\ script.step = "test"
    /\ IF name # Nobody
         THEN script' = Idle /\ Unmoved
         ELSE \E l \in Launches : Launch(l, TRUE) /\ script' = [ script EXCEPT !.step = "wait", !.l = l ]

\* The program called has ended: "started." or "failed with exit code".
ScriptIsTold ==
    /\ script.step = "wait" /\ orig[script.l] \in {"success", "failure", "aborted"}
    /\ script' = Idle /\ Unmoved

\* SIGTERM, or SIGINT: g_running is 0, and a poll is interrupted.
Signal(l) ==
    /\ pc[l] \in Alive
    /\ term' = term \cup {l}
    /\ pc' = IF pc[l] = "poll" THEN [ pc EXCEPT ![l] = "check" ] ELSE pc
    /\ UNCHANGED << orig, text, pidFile, address, stays, inits >>

NamedProcess == IF name = Nobody THEN Nobody ELSE content[name]

\* stop: the process that the PID file names gets a SIGTERM, and is not waited for.
ScriptSignals ==
    /\ script.step = "signal"
    /\ IF name = Nobody
         THEN (IF script.command = "restart" THEN ToStep("test") ELSE script' = Idle) /\ Unmoved
         ELSE /\ ToStep("remove")
              /\ IF NamedProcess # Nobody /\ pc[NamedProcess] \in Alive
                   THEN Signal(NamedProcess) ELSE Unmoved

\* rm -f of the PID file.
ScriptRemoves ==
    /\ script.step = "remove"
    /\ IF script.command = "restart" THEN ToStep("test") ELSE script' = Idle
    /\ name' = Nobody
    /\ UNCHANGED << orig, pc, text, term, opened, content, lock, address, stays, inits >>

\* Ctrl-C, where the program has a terminal.
Interrupt == \E l \in Launches : orig[l] = "no" /\ Signal(l) /\ UNCHANGED script

Script ==
    \/ \E command \in {"start", "stop", "restart"} : ScriptCalled(command)
    \/ ScriptTests \/ ScriptIsTold \/ ScriptSignals \/ ScriptRemoves

Next ==
    \/ LaunchByHand \/ Interrupt \/ Script
    \/ \E l \in Launches :
         DaemonStep(l) \/ StepFails(l) \/ Crash(l) \/ Original(l) \/ InterruptOriginal(l)

\* The kernel lets every process run on.
Fairness == \A l \in Launches : WF_vars(DaemonStep(l)) /\ WF_vars(Original(l))

Spec == Init /\ [][Next]_vars /\ Fairness

-----------------------------------------------------------------------------
(***************************************************************************)
(* main.cpp: "The process that invoked the daemon must be able to rely on  *)
(* that this exit() happens after initialization is complete and all       *)
(* external communication channels are established and accessible." An     *)
(* original that exits with success leaves an engine that was initialized, *)
(* whenever the daemon dies. One that was told of a failure, or of nothing, *)
(* leaves no daemon behind. One whose wait was interrupted leaves none that *)
(* serves, unless that one reported between the interruption and the exit. *)
(***************************************************************************)
ExitCodeIsTrue ==
    \A l \in Launches :
        /\ orig[l] = "success" => l \in inits /\ pc[l] \in Serving \cup {"dead"}
        /\ orig[l] = "failure" => pc[l] \in {"failing", "dead"}
        /\ orig[l] = "aborted" /\ pc[l] \in Serving => text[l] = "init_complete"

(***************************************************************************)
(* The id in a PID file whose lock is held is that of the holder, once it  *)
(* has written it: `stop` signals no process but that one, although other  *)
(* launches open and (try to) lock the same file, and the script removes   *)
(* its name.                                                               *)
(***************************************************************************)
PidFileNamesHolder ==
    \A l \in Launches : opened[l] # Nobody /\ pc[l] \in Serving \cup {"written", "inited"}
        => content[opened[l]] = l /\ lock[opened[l]] = l

(***************************************************************************)
(* At most one engine serves the IPC address. The lock alone does not give *)
(* this: `stop` removes the PID file while the daemon still runs, and      *)
(* --no-daemon takes no lock.                                              *)
(***************************************************************************)
OneServes ==
    \A l, m \in Launches :
        {pc[l], pc[m]} \subseteq Serving \cup {"inited"} => l = m

(***************************************************************************)
(* A daemon that got a SIGTERM stops, also when the signal comes after the *)
(* look at g_running and before the poll.                                  *)
(***************************************************************************)
TermStops == \A l \in Launches : l \in term ~> pc[l] = "dead"

(***************************************************************************)
(* The program called comes to its end, whatever becomes of the daemon.    *)
(***************************************************************************)
OriginalExits == \A l \in Launches : orig[l] = "waiting" ~> orig[l] # "waiting"
=============================================================================
