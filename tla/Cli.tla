-------------------------------- MODULE Cli ---------------------------------
(***************************************************************************)
(* The command line tool: main runs its scenarios in turn ("Un/Comment     *)
(* needed scenario"), each a few operations with sync_wait of which the    *)
(* later ones may depend on the result of the first. It is the program     *)
(* that Senders leaves open.                                               *)
(*                                                                         *)
(* Logging is left out; so is setPriority, a write without an answer,      *)
(* which Relay models.                                                     *)
(***************************************************************************)
EXTENDS Senders

CONSTANTS
    Scenarios,  \* those main runs, in this order
    Patience,   \* timeout of an operation (2 s)
    Period      \* how long the loops of subscriber and publisher run

ASSUME CliAssumption ==
    /\ Patience \in Timeouts /\ Period \in Nat \ {0} /\ 0 .. Period \subseteq Timeouts
    /\ \A i \in DOMAIN Scenarios :
         Scenarios[i] \in { "resetNodes", "beginSoftwareUpdate", "pushRoot", "popRoot", "listRoots",
                            "regsOfNodes", "regsOfSingleNode", "subscriber", "publisher", "rpcClient" }

VARIABLES
    at,      \* the scenario that runs
    done,    \* operations of it that are done: 0, 1, 2, or 3 and more
    result,  \* of the last one
    until    \* time to until_timepoint of the loop

cliVars == << at, done, result, until >>
allVars == << vars, cliVars >>

Running == at <= Len(Scenarios)

This == Scenarios[at]

CliInit == Init /\ at = 1 /\ done = 0 /\ result = NoResult /\ until = 0

Loops == This \in {"subscriber", "publisher"} /\ done > 0

Failure == result \in {Failed, TimedOut}

-----------------------------------------------------------------------------
(* One operator per scenario: the senders it waits for, in order. The last *)
(* one is repeated in a loop.                                              *)

tryRequestScenario == << "request" >>

tryListReadWriteRegsOfNodesScenario == << "request", "request", "request" >>

tryListReadWriteRegsOfSingleNodeScenario == << "request", "request", "request" >>

trySubscriberScenario == << "subscribe", "receive" >>

tryPublisherScenario == << "connect", "call" >>

tryRpcClientScenario == << "connect", "call" >>

SendersOf(scenario) ==
    CASE scenario = "regsOfNodes"      -> tryListReadWriteRegsOfNodesScenario
      [] scenario = "regsOfSingleNode" -> tryListReadWriteRegsOfSingleNodeScenario
      [] scenario = "subscriber"       -> trySubscriberScenario
      [] scenario = "publisher"        -> tryPublisherScenario
      [] scenario = "rpcClient"        -> tryRpcClientScenario
      [] OTHER                         -> tryRequestScenario

\* Whether a scenario gives up: without its object, without the list of registers, or
\* in a loop. Reads and writes of registers go on after a failure.
GivesUp ==
    /\ done > 0 /\ Failure
    /\ \/ This \in {"subscriber", "publisher", "rpcClient"}
       \/ This = "regsOfNodes" /\ done = 1

ScenarioIsOver ==
    \/ GivesUp
    \/ IF Loops THEN until = 0 ELSE done >= Len(SendersOf(This))

\* until_timepoint - now() in a loop.
Timeout == IF Loops THEN until ELSE Patience

Operate ==
    /\ pc = "idle" /\ Running /\ ~ScenarioIsOver
    /\ Submit(SendersOf(This)[IF Loops THEN 2 ELSE done + 1], Timeout)
    /\ UNCHANGED cliVars

\* until_timepoint is set when the object is made. The publisher sleeps a second
\* after each message.
AfterResult(r) ==
    IF ~Loops THEN (IF This \in {"subscriber", "publisher"} THEN Period ELSE 0)
    ELSE IF This = "publisher" /\ r \notin {Failed, TimedOut} /\ until > Second THEN until - Second
    ELSE IF This = "publisher" THEN 0
    ELSE until

CliReturn ==
    /\ Return
    /\ result' = slot /\ done' = IF done < 3 THEN done + 1 ELSE done
    /\ until' = AfterResult(slot)
    /\ UNCHANGED at

(* Slip: main keeps the objects that scenarios made. *)
ObjectsStay == UNCHANGED vars

\* The locals of a scenario are destroyed: it has at most one object.
ObjectsGo == IF objects = {} THEN UNCHANGED vars ELSE \E o \in objects : Drop(o)

EndScenario ==
    /\ pc = "idle" /\ Running /\ ScenarioIsOver
    /\ ObjectsGo
    /\ at' = at + 1 /\ done' = 0 /\ result' = NoResult /\ until' = 0

\* Time also passes for the loop.
CliTick ==
    /\ Tick
    /\ until' = IF until > 0 /\ Loops THEN until - 1 ELSE until
    /\ UNCHANGED << at, done, result >>

CliWait ==
    /\ WaitStep
    /\ UNCHANGED cliVars

CliEnvironment ==
    /\ Running /\ Environment
    /\ UNCHANGED cliVars

CliStep == Operate \/ CliReturn \/ EndScenario \/ CliWait

CliNext == CliStep \/ CliTick \/ CliEnvironment

CliSpec == CliInit /\ [][CliNext]_allVars /\ WF_allVars(CliStep) /\ SF_allVars(CliTick)

-----------------------------------------------------------------------------
(***************************************************************************)
(* No receiver of a destroyed sender is called (AsSender and ThenSender    *)
(* capture `this` in it, and an object keeps it after sync_wait): between  *)
(* two operations on an object nothing spins the executor, and a scenario  *)
(* lets its object go before it waits for anything else.                   *)
(***************************************************************************)
NoStaleReceiver == ~touched

(***************************************************************************)
(* node_pub_sub.hpp: "to not miss any new message, user should immediately *)
(* initiate a new `receive` operation after getting the success result of  *)
(* the previous one". The subscriber scenario does so: it prints messages  *)
(* in order, none twice, and from its subscription on misses none but the  *)
(* ones that the daemon failed to write to its socket, which no one learns *)
(* of. One message for a call of the socket's callback, and a look at the  *)
(* predicate before the next poll.                                         *)
(***************************************************************************)
PrintsEveryMessage ==
    kind = "receive" /\ slot \in 1 .. MaxMsgs =>
      /\ prev < slot /\ slot \notin lost
      /\ prev + 1 .. slot - 1 \subseteq lost

(***************************************************************************)
(* The tool comes to its end, even when the daemon answers nothing.        *)
(***************************************************************************)
Terminates == <>(at > Len(Scenarios))
=============================================================================
