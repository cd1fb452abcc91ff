---------------------------- MODULE NodeRequests ----------------------------
(***************************************************************************)
(* One request to a set of Cyphal nodes, from the SDK client that issues   *)
(* it to the state machine (Fsm) that serves it in the daemon. There are   *)
(* three of them with the same skeleton:                                   *)
(*   exec    ExecCmdClient         / ExecCmdService         one call       *)
(*   list    ListRegistersClient   / ListRegistersService   until no name  *)
(*   access  AccessRegistersClient / AccessRegistersService per register   *)
(*                                                                         *)
(* The channel between them is the one IpcSystem models: in order, lost at *)
(* the sender if at all, silent after its end. The client's router is      *)
(* connected when the request is submitted. Cyphal is external: a client   *)
(* may fail to be made, a call may fail to start, and a started call       *)
(* answers or fails (its deadline passes) once.                            *)
(***************************************************************************)
EXTENDS Naturals, Sequences, FiniteSets, SequencesExt

CONSTANTS
    Services,     \* the services asked: "exec", "list", "access"
    Nodes,        \* Cyphal node ids
    MaxIds,       \* bound: length of the node ids span of an exec request
    MaxRegIds,    \* bound: the same for list and access requests
    ChunkSize,    \* ArrayCapacity::node_ids
    MaxRegs,      \* bound: registers of a node (list) or of the request (access)
    SendMayFail   \* whether a write to the pipe may fail

ASSUME NodeAssumption ==
    /\ Services \subseteq {"exec", "list", "access"}
    /\ MaxIds \in Nat /\ MaxRegIds \in Nat /\ MaxRegs \in Nat /\ ChunkSize \in Nat \ {0}
    /\ SendMayFail \in BOOLEAN

VARIABLES
    \* The request, and the registers that the nodes have (list).
    service, node_ids, asked_regs, node_regs,
    \* The SDK client.
    sender,       \* "made", "submitted" or "dropped"
    copen,        \* its gateway is registered
    collected,    \* node_id_to_response_ (or _registers_, _reg_vals_)
    results,      \* what its receiver was called with
    \* The channel.
    cup, sup,     \* the client's and the daemon's end of the connection
    c2s, s2c,
    wrote,        \* the client wrote something: the daemon may know the channel
    \* The Fsm.
    fsm,          \* "none", "collecting", "processing" or "released"
    cnxt,         \* keys of node_id_to_cnxt_
    reg_index,    \* of each context
    pending,      \* contexts with a promise
    registers,    \* size of registers_
    todo,         \* nodes left in the loop of handleEvent(Completed)
    \* History.
    write_lost,   \* a write failed and only the log tells
    failed        \* nodes that a call failed for, in whatever way

requestVars == << service, node_ids, asked_regs, node_regs >>
clientVars  == << sender, copen, collected, results >>
pipeVars    == << cup, sup >>
fsmVars     == << fsm, cnxt, reg_index, pending, registers, todo, write_lost, failed >>
vars        == << requestVars, clientVars, pipeVars, c2s, s2c, wrote, fsmVars >>

-----------------------------------------------------------------------------
(***************************************************************************)
(* Messages.                                                               *)
(***************************************************************************)
Scope(ids) == [ kind |-> "scope", ids |-> ids ]

Register == [ kind |-> "register" ]

End(keepAlive, e) == [ kind |-> "end", keep_alive |-> keepAlive, error |-> e ]

\* An answer about register reg of a node; NoKey where no register is named.
NoKey == MaxRegs + 1

Answer(n, reg, ok) == [ kind |-> "answer", node |-> n, reg |-> reg, ok |-> ok ]

\* The span of node ids, split to the capacity of a message.
Chunks(ids) ==
    [ i \in 1 .. (Len(ids) + ChunkSize - 1) \div ChunkSize |->
        ToSet(SubSeq(ids, (i - 1) * ChunkSize + 1,
                     IF i * ChunkSize < Len(ids) THEN i * ChunkSize ELSE Len(ids))) ]

buildRequests ==
    [ i \in 1 .. Len(Chunks(node_ids)) |-> Scope(Chunks(node_ids)[i]) ]
        \o [ i \in 1 .. asked_regs |-> Register ]

\* What the client writes when it gets Connected.
ConnectedWrites == Append(buildRequests, End(TRUE, "none"))

-----------------------------------------------------------------------------
\* What the client has on a node: nothing, its answers so far, or its failure.
NoEntry == [ is |-> "absent", items |-> << >> ]

FailedEntry == [ is |-> "failed", items |-> << >> ]

Answered(items) == [ is |-> "answered", items |-> items ]

Init ==
    /\ service \in Services
    /\ node_ids \in UNION { [ 1 .. n -> Nodes ] :
                             n \in 0 .. IF service = "exec" THEN MaxIds ELSE MaxRegIds }
    /\ asked_regs \in IF service = "access" THEN 0 .. MaxRegs ELSE {0}
    /\ node_regs \in IF service = "list" THEN [ Nodes -> 0 .. MaxRegs ]
                     ELSE { [ n \in Nodes |-> 0 ] }
    /\ sender = "made" /\ copen = TRUE
    /\ collected = [ n \in Nodes |-> NoEntry ]
    /\ results = << >>
    /\ cup = TRUE /\ sup = TRUE
    /\ c2s = << >> /\ s2c = << >> /\ wrote = FALSE
    /\ fsm = "none" /\ cnxt = {} /\ pending = {} /\ todo = << >>
    /\ reg_index = [ n \in Nodes |-> 0 ]
    /\ registers = 0
    /\ write_lost = FALSE /\ failed = {}

-----------------------------------------------------------------------------
(***************************************************************************)
(* The SDK client.                                                         *)
(***************************************************************************)
Success == [ ok |-> TRUE, map |-> collected, error |-> "none" ]

Failure(e) == [ ok |-> FALSE, map |-> << >>, error |-> e ]

(***************************************************************************)
(* submitImpl subscribes, and the router calls handleEvent(Connected): all *)
(* requests are written, then the keep-alive end. The first write to fail  *)
(* ends the loop and fails the request. The end of a channel nothing was   *)
(* sent on is not written at all (ClientComplete of ClientRouter), which   *)
(* is no failure.                                                          *)
(***************************************************************************)
Submit ==
    /\ sender = "made" /\ cup
    /\ sender' = "submitted"
    /\ LET all == IF buildRequests = << >> THEN << >> ELSE ConnectedWrites
       IN  \E k \in 0 .. Len(all) :
            /\ k < Len(all) => SendMayFail \/ ~sup
            /\ c2s' = IF sup THEN c2s \o SubSeq(all, 1, k) ELSE c2s
            /\ wrote' = (all # << >>)
            /\ results' = IF k < Len(all) THEN << Failure("Other") >> ELSE << >>
    /\ UNCHANGED << requestVars, copen, collected, pipeVars, s2c, fsmVars >>

(***************************************************************************)
(* read() and write() refuse a register key that is longer than Cyphal     *)
(* allows: the sender they make is just the failure, without a client and  *)
(* its channel, and calls the receiver as it is submitted.                 *)
(***************************************************************************)
RefuseLongKey ==
    /\ service = "access" /\ asked_regs > 0
    /\ sender = "made"
    /\ sender' = "submitted" /\ copen' = FALSE
    /\ results' = << Failure("InvalidArgument") >>
    /\ UNCHANGED << requestVars, collected, pipeVars, c2s, s2c, wrote, fsmVars >>

\* The owner drops the sender, and with it the channel.
Drop ==
    /\ sender # "dropped"
    /\ sender' = "dropped"
    /\ copen' = FALSE
    /\ \E ok \in BOOLEAN :
        /\ ok \/ SendMayFail
        /\ c2s' = IF ok /\ copen /\ wrote /\ cup /\ sup
                  THEN Append(c2s, End(FALSE, "none")) ELSE c2s
        /\ write_lost' = (write_lost \/ ~ok)
    /\ UNCHANGED << requestVars, collected, results, pipeVars, s2c, wrote, fsm, cnxt,
                    reg_index, pending, registers, todo, failed >>

\* An entry appended to what node n has so far; a failed node stays failed.
AppendItem(n, item) ==
    IF collected[n] = FailedEntry THEN FailedEntry
    ELSE Answered(Append(collected[n].items, item))

\* std::unordered_map::emplace: the first entry of a node wins.
Emplace(n, entry) == IF collected[n] = NoEntry THEN entry ELSE collected[n]

ExecInput(m) ==
    Emplace(m.node, IF m.ok THEN Answered(<< [ reg |-> m.reg, ok |-> TRUE ] >>) ELSE FailedEntry)

ListInput(m) ==
    IF ~m.ok THEN Emplace(m.node, FailedEntry)
    ELSE AppendItem(m.node, [ reg |-> m.reg, ok |-> TRUE ])

AccessInput(m) ==
    IF ~m.ok /\ m.reg = NoKey THEN Emplace(m.node, FailedEntry)
    ELSE AppendItem(m.node, [ reg |-> m.reg, ok |-> m.ok ])

ClientReads ==
    /\ cup /\ s2c # << >>
    /\ s2c' = Tail(s2c)

ClientInput ==
    /\ ClientReads /\ Head(s2c).kind = "answer"
    /\ LET m == Head(s2c)
       IN  collected' = IF ~copen THEN collected
                        ELSE [ collected EXCEPT ![m.node] =
                                CASE service = "exec"   -> ExecInput(m)
                                  [] service = "list"   -> ListInput(m)
                                  [] service = "access" -> AccessInput(m) ]
    /\ UNCHANGED << requestVars, sender, copen, results, pipeVars, c2s, wrote,
                    fsmVars >>

\* handleEvent(Completed), called for a terminal end or a disconnection.
ClientCompleted(e) ==
    /\ copen' = FALSE
    /\ results' = IF copen /\ sender = "submitted"
                  THEN Append(results, IF e = "none" THEN Success ELSE Failure(e)) ELSE results

ClientEnd ==
    /\ ClientReads /\ Head(s2c).kind = "end"
    /\ ClientCompleted(Head(s2c).error)
    /\ UNCHANGED << requestVars, sender, collected, pipeVars, c2s, wrote, fsmVars >>

ClientDisconnected ==
    /\ cup
    /\ cup' = FALSE /\ s2c' = << >>
    /\ ClientCompleted("Disconnected")
    /\ UNCHANGED << requestVars, sender, collected, sup, c2s, wrote, fsmVars >>

-----------------------------------------------------------------------------
(***************************************************************************)
(* The Fsm in the daemon. While todo is not empty, the daemon's thread is  *)
(* in the loop of handleEvent(Completed).                                  *)
(***************************************************************************)
ServiceReads(kinds) ==
    /\ sup /\ c2s # << >> /\ todo = << >>
    /\ Head(c2s).kind \in kinds
    /\ c2s' = Tail(c2s)

\* operator() for the first request, handleEvent(Input) for all of them.
ServiceInput ==
    /\ ServiceReads({"scope", "register"})
    /\ LET m     == Head(c2s)
           takes == fsm \in {"none", "collecting"}
       IN  /\ fsm' = IF takes THEN "collecting" ELSE fsm
           /\ cnxt' = IF takes /\ m.kind = "scope" THEN cnxt \cup m.ids ELSE cnxt
           /\ registers' = IF takes /\ m.kind = "register" THEN registers + 1 ELSE registers
    /\ UNCHANGED << requestVars, clientVars, pipeVars, s2c, wrote, reg_index, pending, todo,
                    write_lost, failed >>

\* (Slip: nothing is ever found to be nothing to do.)
AlwaysWork == FALSE

NothingToDo == cnxt = {} \/ (service = "access" /\ registers = 0)

(***************************************************************************)
(* complete() writes the end, and the disposal of the channel that follows *)
(* when the Fsm is released writes it again: the client sees the first one *)
(* that gets through.                                                      *)
(***************************************************************************)
Complete(answers, lost) ==
    /\ fsm' = "released" /\ cnxt' = {} /\ pending' = {}
    /\ \E ok \in BOOLEAN :
        /\ ok \/ SendMayFail
        /\ write_lost' = (write_lost \/ lost \/ ~ok)
        /\ s2c' = IF ok /\ cup THEN s2c \o answers \o << End(FALSE, "none") >>
                  ELSE IF cup THEN s2c \o answers ELSE s2c

\* handleEvent(Completed) with keep_alive: the work starts.
ServiceStarts ==
    /\ ServiceReads({"end"}) /\ Head(c2s).keep_alive
    /\ IF fsm # "collecting"
       THEN UNCHANGED << fsm, cnxt, pending, todo, s2c, write_lost >>
       ELSE IF NothingToDo
            THEN Complete(<< >>, FALSE) /\ UNCHANGED todo
            ELSE /\ fsm' = "processing"
                 /\ todo' \in { s \in [ 1 .. Cardinality(cnxt) -> cnxt ] : ToSet(s) = cnxt }
                 /\ UNCHANGED << cnxt, pending, s2c, write_lost >>
    /\ UNCHANGED << requestVars, clientVars, pipeVars, wrote, reg_index, registers,
                    failed >>

\* Terminal completions: complete(Canceled) finds the channel unregistered.
\* (Slip: a Fsm that has not started yet has nothing to cancel.)
CancelsProcessing ==
    /\ fsm' = IF fsm = "processing" THEN "released" ELSE fsm
    /\ cnxt' = {} /\ pending' = {}

Cancel ==
    /\ fsm' = IF fsm = "none" THEN "none" ELSE "released"
    /\ cnxt' = {} /\ pending' = {}

ServiceCanceled ==
    /\ ServiceReads({"end"}) /\ ~Head(c2s).keep_alive
    /\ Cancel
    /\ UNCHANGED << requestVars, clientVars, pipeVars, s2c, wrote, reg_index, registers, todo,
                    write_lost, failed >>

ServiceDisconnected ==
    /\ sup /\ todo = << >>
    /\ sup' = FALSE /\ c2s' = << >>
    /\ Cancel
    /\ UNCHANGED << requestVars, clientVars, cup, s2c, wrote, reg_index, registers, todo,
                    write_lost, failed >>

-----------------------------------------------------------------------------
(***************************************************************************)
(* What a piece of work on a node comes to: the answers it sends, whether  *)
(* the context is released at its end, the next register and whether a     *)
(* call failed.                                                            *)
(***************************************************************************)
Outcome(answers, last, index, fails) ==
    [ answers |-> answers, last |-> last, index |-> index, fails |-> fails ]

\* startCyExecCmdRpcCallFor
ExecCall(n) ==
    { Outcome(<< >>, FALSE, 0, FALSE), Outcome(<< Answer(n, NoKey, FALSE) >>, TRUE, 0, TRUE) }

\* startCyRegListRpcCallFor
ListCall(n, i) ==
    { Outcome(<< >>, FALSE, i, FALSE), Outcome(<< Answer(n, NoKey, FALSE) >>, TRUE, i, TRUE) }

\* startCyRegAccessRpcCallFor: calls that fail to start are answered one by one.
AccessCall(n, i) ==
    { Outcome([ k \in 1 .. f |-> Answer(n, i + k - 1, FALSE) ], i + f = registers, i + f, f > 0) :
        f \in 0 .. registers - i }

Call(n, i) ==
    CASE service = "exec"   -> ExecCall(n)
      [] service = "list"   -> ListCall(n, i)
      [] service = "access" -> AccessCall(n, i)

Then(answer, fails, next) ==
    { Outcome(<< answer >> \o o.answers, o.last, o.index, fails \/ o.fails) : o \in next }

\* handleNodeResponse of the three services: success of the call, or its failure.
ExecResponse(n, ok) == { Outcome(<< Answer(n, 0, ok) >>, TRUE, 0, ~ok) }

ListResponse(n, i, ok) ==
    IF ~ok THEN { Outcome(<< Answer(n, NoKey, FALSE) >>, TRUE, i, TRUE) }
    ELSE IF i < node_regs[n] THEN Then(Answer(n, i, TRUE), FALSE, ListCall(n, i + 1))
    ELSE { Outcome(<< >>, TRUE, i, FALSE) }

AccessResponse(n, i, ok) == Then(Answer(n, i, ok), ~ok, AccessCall(n, i + 1))

Response(n, i, ok) ==
    CASE service = "exec"   -> ExecResponse(n, ok)
      [] service = "list"   -> ListResponse(n, i, ok)
      [] service = "access" -> AccessResponse(n, i, ok)

\* releaseNodeContext: the last context to go completes the request.
\* (Slip: the first one does.)
FirstReleaseCompletes(n) == TRUE

LastRelease(n) == cnxt \ {n} = {}

\* The places, in order, of the answers whose write succeeds.
Kept(answers) ==
    { s \in UNION { [ 1 .. l -> 1 .. Len(answers) ] : l \in 0 .. Len(answers) } :
        \A i, j \in DOMAIN s : i < j => s[i] < s[j] }

\* sendResponse for every answer (a failed write is only logged), then the release.
Work(n, o) ==
    \E kept \in Kept(o.answers) :
        LET out  == [ k \in DOMAIN kept |-> o.answers[kept[k]] ]
            lost == kept # [ k \in 1 .. Len(o.answers) |-> k ]
        IN  /\ lost => SendMayFail
            /\ failed' = IF o.fails THEN failed \cup {n} ELSE failed
            /\ reg_index' = [ reg_index EXCEPT ![n] = o.index ]
            /\ \/ /\ o.last /\ LastRelease(n)
                  /\ Complete(out, lost)
               \/ /\ ~(o.last /\ LastRelease(n))
                  /\ cnxt' = IF o.last THEN cnxt \ {n} ELSE cnxt
                  /\ pending' = IF o.last THEN pending \ {n} ELSE pending \cup {n}
                  /\ s2c' = IF cup THEN s2c \o out ELSE s2c
                  /\ write_lost' = (write_lost \/ lost)
                  /\ UNCHANGED fsm

\* One turn of the loop: makeCyRpcClient.
MakeCyRpcClient ==
    /\ todo # << >>
    /\ todo' = Tail(todo)
    /\ LET n == Head(todo)
       IN  IF n \in cnxt
           THEN \E o \in {Outcome(<< Answer(n, NoKey, FALSE) >>, TRUE, 0, TRUE)} \cup Call(n, 0) :
                    Work(n, o)
           ELSE UNCHANGED << fsm, cnxt, reg_index, pending, s2c, write_lost, failed >>
    /\ UNCHANGED << requestVars, clientVars, pipeVars, c2s, wrote, registers >>

\* The promise of a node is fulfilled, or its deadline passes.
NodeResponds(n) ==
    /\ todo = << >> /\ n \in pending
    /\ \E ok \in BOOLEAN : \E o \in Response(n, reg_index[n], ok) : Work(n, o)
    /\ UNCHANGED << requestVars, clientVars, pipeVars, c2s, wrote, registers, todo >>

-----------------------------------------------------------------------------
ClientReceive == ClientInput \/ ClientEnd

ServiceReceive == ServiceInput \/ ServiceStarts \/ ServiceCanceled

Next ==
    \/ Submit \/ RefuseLongKey \/ Drop \/ ClientReceive \/ ClientDisconnected
    \/ ServiceReceive \/ ServiceDisconnected \/ MakeCyRpcClient
    \/ \E n \in Nodes : NodeResponds(n)

Spec == Init /\ [][Next]_vars

(***************************************************************************)
(* Both executors serve their sockets, a call ends at its deadline at the  *)
(* latest, and either side notices when the other is gone.                 *)
(***************************************************************************)
Fairness ==
    /\ WF_vars(ClientReceive) /\ WF_vars(ServiceReceive) /\ WF_vars(MakeCyRpcClient)
    /\ \A n \in Nodes : WF_vars(NodeResponds(n))
    /\ WF_vars(~sup /\ s2c = << >> /\ ClientDisconnected)
    /\ WF_vars(~cup /\ c2s = << >> /\ ServiceDisconnected)

FairSpec == Spec /\ Fairness

-----------------------------------------------------------------------------
(***************************************************************************)
(* Properties.                                                             *)
(***************************************************************************)
\* Every variable has its type.
TypeOK ==
    /\ sender \in {"made", "submitted", "dropped"}
    /\ fsm \in {"none", "collecting", "processing", "released"}
    /\ cnxt \subseteq Nodes /\ pending \subseteq cnxt /\ ToSet(todo) \subseteq Nodes
    /\ reg_index \in [ Nodes -> 0 .. MaxRegs ] /\ registers \in 0 .. MaxRegs
    /\ \A n \in Nodes :
        /\ collected[n].is \in {"absent", "answered", "failed"}
        /\ \A k \in DOMAIN collected[n].items : collected[n].items[k].reg \in 0 .. MaxRegs

Requested == ToSet(node_ids)

\* The registers that a node answers for, if none of its calls fails.
Expected(n) ==
    CASE service = "exec" -> 1 [] service = "list" -> node_regs[n] [] service = "access" -> asked_regs

(***************************************************************************)
(* What a request that succeeds reports, however its nodes were split into *)
(* messages and repeated, and in whatever order they answered: nothing of  *)
(* other nodes; an entry for every node with a failed call; of every other *)
(* node all its registers, once each, in the order they were asked for.    *)
(* A node that has nothing to answer for, like one without registers, has  *)
(* no entry although it responded, where the header promises "a map of     *)
(* node ID to its register names": list(node_id) fails with NoEntry.       *)
(* Entries of nodes with a failed call start from the first register too,  *)
(* but may stop early. Where a write of the daemon failed, answers are     *)
(* missing; nothing tells the client so.                                   *)
(***************************************************************************)
ReportIsComplete ==
    \A i \in DOMAIN results : results[i].ok /\ ~write_lost =>
        \A n \in Nodes :
            LET e == results[i].map[n]
            IN  /\ e = NoEntry <=> n \notin Requested \/ (n \notin failed /\ Expected(n) = 0)
                /\ n \in Requested \ failed => Len(e.items) = Expected(n) /\ e # FailedEntry
                /\ \A k \in DOMAIN e.items : e.items[k].reg = k - 1

(***************************************************************************)
(* The loop of handleEvent(Completed) never turns on a Fsm that was        *)
(* released by an earlier turn: each turn releases at most its own node.   *)
(* The types are checked along with it.                                    *)
(***************************************************************************)
LoopOnLiveFsm ==
    /\ TypeOK
    /\ todo # << >> => fsm = "processing" /\ ToSet(todo) \subseteq cnxt

(***************************************************************************)
(* A request of at least one message comes to a result, unless its sender  *)
(* is dropped or a write of the daemon failed (which nothing makes up for).*)
(***************************************************************************)
Resolves ==
    sender = "submitted" /\ buildRequests # << >>
        ~> results # << >> \/ sender = "dropped" \/ write_lost

\* When the sender is dropped, the daemon stops working for it.
Abandoned == sender = "dropped" ~> fsm \in {"none", "released"} \/ write_lost
=============================================================================
