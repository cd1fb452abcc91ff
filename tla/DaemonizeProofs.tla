-------------------------- MODULE DaemonizeProofs ---------------------------
(***************************************************************************)
(* Proofs about the daemon as a process, for every number of launches and  *)
(* every kind of address. The three safety properties of Daemonize follow  *)
(* from one inductive invariant: who owns the address, who owns a PID file *)
(* and what the pipe to the original may hold.                             *)
(***************************************************************************)
EXTENDS Daemonize, TLAPS

Bound == Serving \cup {"inited"}

\* An initialized engine is the one whose socket is bound.
OwnsAddress == \A l \in Launches : pc[l] \in Bound => address = l

\* A daemon that has opened a PID file holds its lock from then on, and its id is in it.
OwnsPidFile ==
    \A l \in Launches :
        /\ pc[l] = "no" => opened[l] = Nobody
        /\ pc[l] \in {"opened", "locked"} => opened[l] # Nobody
        /\ opened[l] # Nobody /\ pc[l] \in Bound \cup {"locked", "written"}
             => lock[opened[l]] = l
        /\ opened[l] # Nobody /\ pc[l] \in Bound \cup {"written"} => content[opened[l]] = l

\* What the pipe holds, and what the original made of it, is true of the daemon.
PipeTellsTruth ==
    \A l \in Launches :
        /\ pc[l] = "no" => orig[l] = "no"
        /\ pc[l] \in Bound => l \in inits
        /\ text[l] = "init_complete" => l \in inits /\ pc[l] \in Serving \cup {"dead"}
        /\ text[l] = "error" => pc[l] \in {"failing", "dead"}
        /\ pc[l] \in Serving => orig[l] = "no" \/ text[l] = "init_complete"
        /\ orig[l] = "success" => text[l] = "init_complete"
        /\ orig[l] = "failure" => pc[l] \in {"failing", "dead"}

\* The inductive invariant.
DaemonInv == TypeOK /\ OwnsAddress /\ OwnsPidFile /\ PipeTellsTruth

-----------------------------------------------------------------------------
\* Launches are numbers from 1 on: none is Nobody or Stale.
LEMMA LaunchesAreSomebody ==
    /\ Nobody \notin Launches /\ Stale \notin Launches /\ Launches \subseteq Int
BY DaemonizeAssumption DEF Launches, Nobody, Stale

\* Nothing runs at first, nothing is open, bound or told.
LEMMA DaemonInit == Init => DaemonInv
BY LaunchesAreSomebody DEF Init, Idle, DaemonInv, TypeOK, OwnsAddress, OwnsPidFile, PipeTellsTruth,
   Bound, Serving, Alive, Starting

\* main, up to the first fork, keeps the invariant: what is launched has done nothing yet.
LEMMA LaunchStep ==
    ASSUME DaemonInv, NEW l \in Launches, NEW daemonized \in BOOLEAN, Launch(l, daemonized),
           TypeOK'
    PROVE  DaemonInv'
<1> USE LaunchesAreSomebody DEF DaemonInv, TypeOK, Launch, pidFile, Bound, Serving
<1>1. OwnsAddress'
  BY DEF OwnsAddress
<1>2. OwnsPidFile'
  BY DEF OwnsPidFile
<1>3. PipeTellsTruth'
  BY DEF PipeTellsTruth
<1>. QED  BY <1>1, <1>2, <1>3

\* The end of a process frees what it owned, and nothing that another one owns.
LEMMA DiesStep ==
    ASSUME DaemonInv, NEW l \in Launches, Dies(l)
    PROVE  DaemonInv'
<1> USE LaunchesAreSomebody DEF DaemonInv, Dies, Bound, Serving
<1>0. TypeOK'
  BY DEF TypeOK, Alive
<1>1. OwnsAddress'
  BY DEF OwnsAddress, TypeOK
<1>2. OwnsPidFile'
  BY DEF OwnsPidFile, TypeOK
<1>3. PipeTellsTruth'
  BY DEF PipeTellsTruth, TypeOK
<1>. QED  BY <1>0, <1>1, <1>2, <1>3

\* A step that fails reports so before anything else, and what it owns no longer matters.
LEMMA FailsStep ==
    ASSUME DaemonInv, NEW l \in Launches, NEW from \in Starting \ {"inited"},
           Step(l, from, "failing"), ReportsFailure(l)
    PROVE  DaemonInv'
<1> USE LaunchesAreSomebody DEF DaemonInv, Step, ReportsFailure, pidFile, Bound, Serving, Starting
<1>0. TypeOK'
  BY DEF TypeOK, Alive
<1>1. OwnsAddress'
  BY DEF OwnsAddress, TypeOK
<1>2. OwnsPidFile'
  BY DEF OwnsPidFile, TypeOK
<1>3. PipeTellsTruth'
  BY DEF PipeTellsTruth, TypeOK, HasReader
<1>. QED  BY <1>0, <1>1, <1>2, <1>3

\* The steps of a daemon that come to something.
LEMMA StartsStep ==
    ASSUME DaemonInv, NEW l \in Launches,
           \/ OpenPidFile(l) \/ LockPidFile(l) \/ WritePidFile(l) \/ InitEngine(l)
           \/ NotifyInitComplete(l)
    PROVE  DaemonInv'
<1> USE LaunchesAreSomebody DEF DaemonInv, Step, pidFile, Bound, Serving
<1>1. CASE OpenPidFile(l)
  <2>0. TypeOK'
    BY <1>1 DEF OpenPidFile, TypeOK, Alive, Starting
  <2>1. OwnsAddress'
    BY <1>1 DEF OpenPidFile, OwnsAddress, TypeOK
  <2>2. OwnsPidFile'
    BY <1>1 DEF OpenPidFile, OwnsPidFile, TypeOK
  <2>3. PipeTellsTruth'
    BY <1>1 DEF OpenPidFile, PipeTellsTruth, TypeOK
  <2>. QED  BY <2>0, <2>1, <2>2, <2>3
<1>2. CASE LockPidFile(l)
  <2>0. TypeOK' /\ opened[l] \in Launches
    BY <1>2 DEF LockPidFile, TypeOK, OwnsPidFile, Alive, Starting
  <2>1. OwnsAddress'
    BY <1>2 DEF LockPidFile, OwnsAddress, TypeOK
  <2>2. OwnsPidFile'
    BY <1>2, <2>0 DEF LockPidFile, MayLock, OwnsPidFile, TypeOK
  <2>3. PipeTellsTruth'
    BY <1>2 DEF LockPidFile, PipeTellsTruth, TypeOK
  <2>. QED  BY <2>0, <2>1, <2>2, <2>3
<1>3. CASE WritePidFile(l)
  <2>0. TypeOK' /\ opened[l] \in Launches
    BY <1>3 DEF WritePidFile, TypeOK, OwnsPidFile, Alive, Starting
  <2>1. OwnsAddress'
    BY <1>3 DEF WritePidFile, OwnsAddress, TypeOK
  <2>2. OwnsPidFile'
    BY <1>3, <2>0 DEF WritePidFile, OwnsPidFile, TypeOK
  <2>3. PipeTellsTruth'
    BY <1>3 DEF WritePidFile, PipeTellsTruth, TypeOK
  <2>. QED  BY <2>0, <2>1, <2>2, <2>3
<1>4. CASE InitEngine(l)
  <2>0. TypeOK'
    BY <1>4 DEF InitEngine, TypeOK, Alive, Starting
  <2>1. OwnsAddress'
    BY <1>4 DEF InitEngine, MayBind, OwnsAddress, TypeOK
  <2>2. OwnsPidFile'
    BY <1>4 DEF InitEngine, OwnsPidFile, TypeOK
  <2>3. PipeTellsTruth'
    BY <1>4 DEF InitEngine, PipeTellsTruth, TypeOK
  <2>. QED  BY <2>0, <2>1, <2>2, <2>3
<1>5. CASE NotifyInitComplete(l)
  <2>0. TypeOK'
    BY <1>5 DEF NotifyInitComplete, TypeOK, Alive, Starting
  <2>1. OwnsAddress'
    BY <1>5 DEF NotifyInitComplete, OwnsAddress, TypeOK
  <2>2. OwnsPidFile'
    BY <1>5 DEF NotifyInitComplete, OwnsPidFile, TypeOK
  <2>3. PipeTellsTruth'
    BY <1>5 DEF NotifyInitComplete, MayNotify, HasReader, PipeTellsTruth, TypeOK
  <2>. QED  BY <2>0, <2>1, <2>2, <2>3
<1>. QED  BY <1>1, <1>2, <1>3, <1>4, <1>5

\* The run loop of the engine.
LEMMA LoopStep ==
    ASSUME DaemonInv, NEW l \in Launches, Check(l) \/ Spin(l) \/ PollEnds(l)
    PROVE  DaemonInv'
<1> USE LaunchesAreSomebody
        DEF DaemonInv, Check, Spin, PollEnds, Step, pidFile, Bound, Serving
<1>0. TypeOK'
  BY DEF TypeOK, Alive
<1>1. OwnsAddress'
  BY DEF OwnsAddress, TypeOK
<1>2. OwnsPidFile'
  BY DEF OwnsPidFile, TypeOK
<1>3. PipeTellsTruth'
  BY DEF PipeTellsTruth, TypeOK
<1>. QED  BY <1>0, <1>1, <1>2, <1>3

\* The original believes the text in the pipe, or its end.
LEMMA OriginalStep ==
    ASSUME DaemonInv, NEW l \in Launches, Original(l) \/ InterruptOriginal(l)
    PROVE  DaemonInv'
<1> USE LaunchesAreSomebody
        DEF DaemonInv, Original, ExitOriginal, ExitInterrupted, InterruptOriginal, pidFile, Bound, Serving
<1>0. TypeOK'
  BY DEF TypeOK, Verdict
<1>1. OwnsAddress'
  BY DEF OwnsAddress, TypeOK
<1>2. OwnsPidFile'
  BY DEF OwnsPidFile, TypeOK
<1>3. PipeTellsTruth'
  BY DEF PipeTellsTruth, TypeOK, Verdict, ReadReturns, PipeIsClosed
<1>. QED  BY <1>0, <1>1, <1>2, <1>3

\* A signal wakes a poll, and changes nothing else that the invariant is about.
LEMMA SignalStep ==
    ASSUME DaemonInv, NEW l \in Launches, Signal(l), TypeOK'
    PROVE  DaemonInv'
<1> USE LaunchesAreSomebody DEF DaemonInv, Signal, pidFile, Bound, Serving
<1>1. OwnsAddress'
  BY DEF OwnsAddress, TypeOK
<1>2. OwnsPidFile'
  BY DEF OwnsPidFile, TypeOK
<1>3. PipeTellsTruth'
  BY DEF PipeTellsTruth, TypeOK
<1>. QED  BY <1>1, <1>2, <1>3

\* A step that leaves the processes and what they own alone; it may remove the name of a file.
LEMMA BystanderStep ==
    ASSUME DaemonInv, TypeOK',
           UNCHANGED << orig, pc, text, opened, content, lock, address, inits >>
    PROVE  DaemonInv'
BY DEF DaemonInv, OwnsAddress, OwnsPidFile, PipeTellsTruth

\* The init script.
LEMMA ScriptStep ==
    ASSUME DaemonInv, Script
    PROVE  DaemonInv'
<1> USE DEF DaemonInv
<1>1. ASSUME NEW command \in {"start", "stop", "restart"}, ScriptCalled(command) PROVE DaemonInv'
  <2>1. TypeOK'
    BY <1>1 DEF ScriptCalled, Unmoved, Idle, TypeOK, pidFile
  <2>. QED  BY <1>1, <2>1, BystanderStep DEF ScriptCalled, Unmoved, pidFile
<1>2. CASE ScriptTests
  <2>1. CASE name # Nobody
    <3>1. TypeOK'
      BY <1>2, <2>1 DEF ScriptTests, Unmoved, Idle, TypeOK, pidFile
    <3>. QED  BY <1>2, <2>1, <3>1, BystanderStep DEF ScriptTests, Unmoved, pidFile
  <2>2. CASE name = Nobody
    <3>1. PICK l \in Launches : Launch(l, TRUE) /\ script' = [ script EXCEPT !.step = "wait", !.l = l ]
      BY <1>2, <2>2 DEF ScriptTests
    <3>2. TypeOK'
      BY <3>1 DEF Launch, TypeOK, pidFile, Alive, Starting
    <3>. QED  BY <3>1, <3>2, LaunchStep
  <2>. QED  BY <2>1, <2>2
<1>3. CASE ScriptIsTold
  <2>1. TypeOK'
    BY <1>3 DEF ScriptIsTold, Unmoved, Idle, TypeOK, pidFile
  <2>. QED  BY <1>3, <2>1, BystanderStep DEF ScriptIsTold, Unmoved, pidFile
<1>4. CASE ScriptSignals
  <2>1. script' \in [ command : {"none", "start", "stop", "restart"},
                      step : {"none", "test", "wait", "signal", "remove"},
                      l : Launches \cup {Nobody} ]
    BY <1>4 DEF ScriptSignals, ToStep, Idle, TypeOK
  <2>2. CASE Unmoved
    <3>1. TypeOK'
      BY <2>1, <2>2 DEF Unmoved, TypeOK, pidFile
    <3>. QED  BY <2>2, <3>1, BystanderStep DEF Unmoved, pidFile
  <2>3. CASE ~Unmoved
    <3>1. name # Nobody /\ NamedProcess # Nobody /\ Signal(NamedProcess)
      BY <1>4, <2>3 DEF ScriptSignals
    <3>2. NamedProcess \in Launches
      BY <3>1 DEF NamedProcess, TypeOK
    <3>3. TypeOK'
      BY <2>1, <3>1, <3>2 DEF Signal, TypeOK, pidFile, Alive, Serving
    <3>. QED  BY <3>1, <3>2, <3>3, SignalStep
  <2>. QED  BY <2>2, <2>3
<1>5. CASE ScriptRemoves
  <2>1. TypeOK'
    BY <1>5 DEF ScriptRemoves, ToStep, Idle, TypeOK
  <2>. QED  BY <1>5, <2>1, BystanderStep DEF ScriptRemoves
<1>. QED  BY <1>1, <1>2, <1>3, <1>4, <1>5 DEF Script

\* Every step keeps the invariant.
LEMMA DaemonStepInv == DaemonInv /\ [Next]_vars => DaemonInv'
<1> SUFFICES ASSUME DaemonInv, [Next]_vars PROVE DaemonInv'
  OBVIOUS
<1>1. CASE UNCHANGED vars
  <2>1. TypeOK'
    BY <1>1 DEF vars, pidFile, DaemonInv, TypeOK
  <2>. QED  BY <1>1, <2>1, BystanderStep DEF vars, pidFile
<1>2. CASE LaunchByHand
  <2>1. PICK l \in Launches, daemonized \in BOOLEAN : Launch(l, daemonized)
    BY <1>2 DEF LaunchByHand
  <2>2. TypeOK'
    BY <1>2, <2>1 DEF LaunchByHand, Launch, DaemonInv, TypeOK, pidFile, Alive, Starting
  <2>. QED  BY <2>1, <2>2, LaunchStep
<1>3. CASE Interrupt
  <2>1. PICK l \in Launches : Signal(l) /\ UNCHANGED script
    BY <1>3 DEF Interrupt
  <2>2. TypeOK'
    BY <2>1 DEF Signal, DaemonInv, TypeOK, pidFile, Alive, Serving
  <2>. QED  BY <2>1, <2>2, SignalStep
<1>4. CASE Script
  BY <1>4, ScriptStep
<1>5. ASSUME NEW l \in Launches, DaemonStep(l) PROVE DaemonInv'
  <2>1. CASE LockFails(l) \/ BindFails(l)
    BY <2>1, FailsStep DEF LockFails, BindFails, Starting
  <2>2. CASE ExitWithFailure(l) \/ NotifyKills(l) \/ Exit(l)
    BY <2>2, DiesStep DEF ExitWithFailure, NotifyKills, Exit
  <2>. QED  BY <1>5, <2>1, <2>2, StartsStep, LoopStep DEF DaemonStep
<1>6. ASSUME NEW l \in Launches, StepFails(l) PROVE DaemonInv'
  BY <1>6, FailsStep DEF StepFails
<1>7. ASSUME NEW l \in Launches, Crash(l) PROVE DaemonInv'
  BY <1>7, DiesStep DEF Crash
<1>8. ASSUME NEW l \in Launches, Original(l) \/ InterruptOriginal(l) PROVE DaemonInv'
  BY <1>8, OriginalStep
<1>. QED  BY <1>1, <1>2, <1>3, <1>4, <1>5, <1>6, <1>7, <1>8 DEF Next

-----------------------------------------------------------------------------
(***************************************************************************)
(* The inductive invariant holds, whatever launches, signals, crashes and  *)
(* calls of the script happen.                                             *)
(***************************************************************************)
THEOREM DaemonInvariant == Spec => []DaemonInv
<1>1. Init => DaemonInv
  BY DaemonInit
<1>2. DaemonInv /\ [Next]_vars => DaemonInv'
  BY DaemonStepInv
<1>. QED  BY <1>1, <1>2, PTL DEF Spec

\* The exit code of the program is true of its daemon, for any number of launches.
THEOREM ExitCodesAreTrue == Spec => []ExitCodeIsTrue
<1>1. DaemonInv => ExitCodeIsTrue
  BY DEF DaemonInv, PipeTellsTruth, ExitCodeIsTrue, Bound, Serving
<1>. QED  BY <1>1, DaemonInvariant, PTL

\* A PID file whose owner lives names that owner, for any number of launches.
THEOREM PidFilesNameHolders == Spec => []PidFileNamesHolder
<1>1. DaemonInv => PidFileNamesHolder
  BY DEF DaemonInv, OwnsPidFile, PidFileNamesHolder, Bound, Serving
<1>. QED  BY <1>1, DaemonInvariant, PTL

\* At most one engine serves the IPC address, for any number of launches.
THEOREM AtMostOneServes == Spec => []OneServes
<1>1. DaemonInv => OneServes
  BY LaunchesAreSomebody DEF DaemonInv, OwnsAddress, OneServes, Bound
<1>. QED  BY <1>1, DaemonInvariant, PTL
=============================================================================
