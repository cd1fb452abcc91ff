------------------------------- MODULE Relay --------------------------------
(***************************************************************************)
(* The raw relay between an SDK user and the Cyphal network. Three pairs   *)
(* of SDK client and daemon service share one shape:                       *)
(*   rpc        RawRpcClient / NodeRpcClient     RawRpcClientService       *)
(*   publish    RawPublisherClient / Publisher   RawPublisherService       *)
(*   subscribe  RawSubscriberClient / Subscriber RawSubscriberService      *)
(* A create request opens the channel; its reply turns the client into an  *)
(* object on which the user starts operations, each with a receiver. The   *)
(* object keeps one payload and one receiver, not one per operation.       *)
(*                                                                         *)
(* The channel is the one of IpcSystem (in order, silent after its end),   *)
(* the client's router is connected. Cyphal is external: making a client,  *)
(* requesting and publishing may fail, a request is answered or expires.   *)
(***************************************************************************)
EXTENDS Naturals, Sequences

CONSTANTS
    Services,     \* the services used: "rpc", "publish", "subscribe"
    MaxOps,       \* bound: operations the user starts
    MaxMsgs,      \* bound: messages observed on the subject (subscribe)
    Priorities,   \* bound: priorities the user sets, in increasing order; 0 is the default
    Concurrent,   \* whether the user starts an operation while another is pending
    SendMayFail   \* whether a write to the pipe may fail

ASSUME RelayAssumption ==
    /\ Services \subseteq {"rpc", "publish", "subscribe"}
    /\ MaxOps \in Nat /\ MaxMsgs \in Nat /\ Priorities \subseteq Nat
    /\ Concurrent \in BOOLEAN /\ SendMayFail \in BOOLEAN

Ops == 1 .. MaxOps

\* Payloads are named by the operation they were given to; 0 is the empty payload.
Payloads == 0 .. MaxOps

VARIABLES
    service,
    \* The SDK client.
    stage,       \* "made", "creating", "open" or "dropped"
    creation,    \* what the receiver of the creation was called with
    copen,       \* its gateway is registered
    held,        \* the payload of requested_ (published_)
    started,     \* operations started: their senders exist
    submitted,   \* operations submitted
    receiver,    \* receiver_: the operation whose receiver it is, 0 if none
    reports,     \* operation -> what its receiver was called with
    completion,  \* completion_error_
    asked,       \* history: the priority in force at the client
    op_priority, \* history: the priority in force when an operation was submitted
    missed,      \* history: messages that came while no receive operation awaited one
    \* The channel.
    cup, sup, c2s, s2c, wrote, write_lost,
    \* The Fsm in the daemon.
    fsm,         \* "none", "ready" or "released"
    promise,     \* payload of the request whose answer cy_promise_ awaits, or NoPromise
    priority,    \* of cy_raw_svc_client_ (cy_raw_publisher_)
    observed,    \* messages observed on the subject
    executed     \* history: requests and publications given to Cyphal

userVars   == << creation, started, submitted, reports, asked, op_priority, missed >>
objectVars == << stage, copen, held, receiver, completion >>
linkVars   == << cup, sup >>
fsmVars    == << fsm, promise, priority, observed, executed >>
vars       == << service, userVars, objectVars, linkVars, c2s, s2c, wrote, write_lost,
                 fsmVars >>

NoPromise == MaxOps + 1

Create == [ kind |-> "create" ]

Config(p) == [ kind |-> "config", priority |-> p ]

Operation(payload) == [ kind |-> "operation", payload |-> payload ]

End(e) == [ kind |-> "end", error |-> e ]

Empty == [ kind |-> "empty" ]

Answer(n, ok) == [ kind |-> "answer", of |-> n, ok |-> ok ]

Report(is, n) == [ is |-> is, of |-> n ]

Init ==
    /\ service \in Services
    /\ stage = "made" /\ creation = << >> /\ copen = TRUE
    /\ held = 0 /\ started = {} /\ submitted = {} /\ receiver = 0
    /\ reports = [ op \in Ops |-> << >> ] /\ completion = "none"
    /\ asked = 0 /\ op_priority = [ op \in Ops |-> 0 ] /\ missed = {}
    /\ cup = TRUE /\ sup = TRUE /\ c2s = << >> /\ s2c = << >>
    /\ wrote = FALSE /\ write_lost = FALSE
    /\ fsm = "none" /\ promise = NoPromise /\ priority = 0 /\ observed = 0
    /\ executed = << >>

-----------------------------------------------------------------------------
(***************************************************************************)
(* The SDK client.                                                         *)
(***************************************************************************)
\* The client writes m; ok tells whether the write succeeds.
ClientPost(m, ok) ==
    /\ ok \/ SendMayFail \/ ~sup
    /\ c2s' = IF ok /\ sup THEN Append(c2s, m) ELSE c2s
    /\ wrote' = TRUE

\* submitImpl subscribes, Connected comes, the create request is written.
SubmitCreation ==
    /\ stage = "made" /\ cup
    /\ stage' = "creating"
    /\ \E ok \in BOOLEAN :
        /\ ClientPost(Create, ok)
        /\ creation' = IF ok THEN creation ELSE Append(creation, "failure")
    /\ UNCHANGED << service, started, submitted, reports, asked, op_priority, missed, copen,
                    held, receiver, completion, linkVars, s2c, write_lost, fsmVars >>

Pending(op) == op \in started /\ reports[op] = << >>

\* rawCall, rawPublish or rawReceive: the payload moves into the object.
Start(op) ==
    /\ stage = "open" /\ op \notin started /\ \A o \in Ops : o < op => o \in started
    /\ Concurrent \/ \A o \in Ops : ~Pending(o)
    /\ started' = started \cup {op}
    /\ held' = IF service = "subscribe" THEN held ELSE op
    /\ UNCHANGED << service, creation, submitted, reports, asked, op_priority, missed, stage,
                    copen, receiver, completion, linkVars, c2s, s2c, wrote, write_lost, fsmVars >>

\* The object calls the receiver of an operation.
Call(op, report) == reports' = [ reports EXCEPT ![op] = Append(@, report) ]

\* receiver_ once an operation is under way. (Slip: the first one stays.)
FirstReceiver(op) == IF receiver = 0 THEN op ELSE receiver

NewReceiver(op) == op

\* submit() of a NodeRpcClient or Publisher: what the object holds is written.
SubmitOperation(op) ==
    /\ service # "subscribe" /\ stage = "open" /\ op \in started \ submitted
    /\ submitted' = submitted \cup {op}
    /\ op_priority' = [ op_priority EXCEPT ![op] = asked ]
    /\ \/ /\ completion # "none"
          /\ Call(op, Report("refused", op))
          /\ UNCHANGED << held, receiver, c2s, wrote >>
       \/ /\ completion = "none"
          /\ held' = 0
          /\ \E ok \in BOOLEAN :
                /\ ClientPost(Operation(held), ok)
                /\ IF ok THEN receiver' = NewReceiver(op) /\ UNCHANGED reports
                   ELSE Call(op, Report("refused", op)) /\ UNCHANGED receiver
    /\ UNCHANGED << service, creation, started, asked, missed, stage, copen, completion, linkVars,
                    s2c, write_lost, fsmVars >>

\* submit() of a Subscriber.
SubmitReceive(op) ==
    /\ service = "subscribe" /\ stage = "open" /\ op \in started \ submitted
    /\ submitted' = submitted \cup {op}
    /\ IF completion # "none" THEN Call(op, Report("refused", op)) /\ UNCHANGED receiver
       ELSE receiver' = op /\ UNCHANGED reports
    /\ UNCHANGED << service, creation, started, asked, op_priority, missed, stage, copen, held,
                    completion, linkVars, c2s, s2c, wrote, write_lost, fsmVars >>

SetPriority(p) ==
    /\ service # "subscribe" /\ stage = "open" /\ completion = "none" /\ p > asked
    /\ \E ok \in BOOLEAN :
        /\ ClientPost(Config(p), ok)
        /\ asked' = IF ok THEN p ELSE asked
    /\ UNCHANGED << service, creation, started, submitted, reports, op_priority, missed,
                    objectVars, linkVars, s2c, write_lost, fsmVars >>

\* The user drops the object, and with it the channel.
Drop ==
    /\ stage # "dropped"
    /\ stage' = "dropped" /\ copen' = FALSE
    /\ \E ok \in BOOLEAN :
        /\ ok \/ (SendMayFail /\ copen /\ wrote /\ cup)
        /\ c2s' = IF ok /\ copen /\ wrote /\ cup /\ sup THEN Append(c2s, End("none")) ELSE c2s
        /\ write_lost' = (write_lost \/ ~ok)
    /\ UNCHANGED << service, userVars, held, receiver, completion, linkVars, s2c, wrote,
                    fsmVars >>

ClientReads ==
    /\ cup /\ s2c # << >>
    /\ s2c' = Tail(s2c)

\* receiver_ after it was called: it stays, and is called again for the next event.
AfterNotify == receiver

\* handleEvent(Input): of the creation, then of the object (notifyReceived).
ClientInput ==
    /\ ClientReads /\ Head(s2c).kind \in {"empty", "answer"}
    /\ LET m      == Head(s2c)
           opens  == copen /\ stage = "creating"
           report == copen /\ stage = "open" /\ m.kind = "answer" /\ receiver # 0
       IN  /\ stage' = IF opens THEN "open" ELSE stage
           /\ creation' = IF opens THEN Append(creation, "success") ELSE creation
           /\ IF report THEN Call(receiver, Report(IF m.ok THEN "success" ELSE "failure", m.of))
              ELSE UNCHANGED reports
           /\ receiver' = IF report THEN AfterNotify ELSE receiver
           /\ missed' = IF /\ service = "subscribe" /\ copen /\ stage = "open" /\ m.kind = "answer"
                           /\ ~\E op \in Ops : op = receiver /\ reports[op] = << >>
                        THEN missed \cup {m.of} ELSE missed
    /\ UNCHANGED << service, started, submitted, asked, op_priority, copen, held, completion,
                    linkVars, c2s, wrote, write_lost, fsmVars >>

\* handleEvent(Completed); an end without an error counts as Canceled.
ClientCompleted(e) ==
    /\ copen' = FALSE
    /\ creation' = IF copen /\ stage = "creating" THEN Append(creation, "failure") ELSE creation
    /\ completion' = IF copen /\ stage = "open" THEN (IF e = "none" THEN "Canceled" ELSE e)
                     ELSE completion
    /\ IF copen /\ stage = "open" /\ receiver # 0
       THEN Call(receiver, Report("completed", 0)) ELSE UNCHANGED reports

ClientEnd ==
    /\ ClientReads /\ Head(s2c).kind = "end"
    /\ ClientCompleted(Head(s2c).error)
    /\ UNCHANGED << service, started, submitted, asked, op_priority, missed, stage, held,
                    receiver, linkVars, c2s, wrote, write_lost, fsmVars >>

ClientDisconnected ==
    /\ cup
    /\ cup' = FALSE /\ s2c' = << >>
    /\ ClientCompleted("Disconnected")
    /\ UNCHANGED << service, started, submitted, asked, op_priority, missed, stage, held,
                    receiver, sup, c2s, wrote, write_lost, fsmVars >>

-----------------------------------------------------------------------------
(***************************************************************************)
(* The Fsm in the daemon.                                                  *)
(***************************************************************************)
ServiceReads(kind) ==
    /\ sup /\ c2s # << >> /\ Head(c2s).kind = kind
    /\ c2s' = Tail(c2s)

\* reply(): a write that fails is logged.
Reply(m) ==
    \E ok \in BOOLEAN :
        /\ ok \/ SendMayFail
        /\ s2c' = IF ok /\ cup THEN Append(s2c, m) ELSE s2c
        /\ write_lost' = (write_lost \/ ~ok)

\* complete(): the end is written, and once more by the disposal of the channel.
Complete(e) ==
    /\ fsm' = "released" /\ promise' = NoPromise
    /\ Reply(End(e))

\* start(): the Cyphal object is made and the empty reply written.
Created ==
    /\ fsm' = "ready"
    /\ s2c' = IF cup THEN Append(s2c, Empty) ELSE s2c
    /\ UNCHANGED << promise, write_lost >>

\* The Cyphal object cannot be made, or the reply to its creation not be written.
CreationFails == Complete("Other")

\* operator() and start().
ServiceCreate ==
    /\ ServiceReads("create") /\ fsm = "none"
    /\ Created \/ CreationFails
    /\ UNCHANGED << service, userVars, objectVars, linkVars, wrote, priority, observed,
                    executed >>

\* (Slip: the configuration is read and not applied.)
NotApplied(p) == priority

Applied(p) == p

ServiceConfig ==
    /\ ServiceReads("config")
    /\ priority' = IF fsm = "ready" THEN Applied(Head(c2s).priority) ELSE priority
    /\ UNCHANGED << service, userVars, objectVars, linkVars, s2c, wrote, write_lost, fsm,
                    promise, observed, executed >>

\* A request (publication) of a payload is given to Cyphal.
Execute(payload) == executed' = Append(executed, [ of |-> payload, priority |-> priority ])

\* A request that could not be sent is answered with its error.
\* (Slip: it is only logged.)
RefusalLogged(payload) == UNCHANGED << s2c, write_lost >>

ReplyRefusal(payload) == Reply(Answer(payload, FALSE))

\* handleInputEvent(call): a new promise takes the place of the one before.
ServiceCall ==
    /\ service = "rpc" /\ ServiceReads("operation")
    /\ LET payload == Head(c2s).payload
       IN  \/ /\ fsm = "ready"
              /\ promise' = payload
              /\ Execute(payload)
              /\ UNCHANGED << s2c, write_lost >>
           \/ /\ fsm = "ready"
              /\ ReplyRefusal(payload)
              /\ UNCHANGED << promise, executed >>
           \/ /\ fsm # "ready"
              /\ UNCHANGED << s2c, write_lost, promise, executed >>
    /\ UNCHANGED << service, userVars, objectVars, linkVars, wrote, fsm, priority, observed >>

\* handleInputEvent(publish): done at once, and answered with its result.
ServicePublish ==
    /\ service = "publish" /\ ServiceReads("operation")
    /\ LET payload == Head(c2s).payload
       IN  \/ /\ fsm = "ready"
              /\ Execute(payload)
              /\ \E done \in BOOLEAN : Reply(Answer(payload, done))
           \/ /\ fsm # "ready"
              /\ UNCHANGED << s2c, write_lost, executed >>
    /\ UNCHANGED << service, userVars, objectVars, linkVars, wrote, fsm, promise, priority,
                    observed >>

\* handleRpcResponse: the node responds, or the deadline of the response passes.
PromiseResolves ==
    /\ promise # NoPromise
    /\ promise' = NoPromise
    /\ \E ok \in BOOLEAN : Reply(Answer(promise, ok))
    /\ UNCHANGED << service, userVars, objectVars, linkVars, c2s, wrote, fsm, priority,
                    observed, executed >>

\* handleNodeMessage: what is observed on the subject is forwarded.
NodeMessage ==
    /\ service = "subscribe" /\ fsm = "ready" /\ observed < MaxMsgs
    /\ observed' = observed + 1
    /\ Reply(Answer(observed + 1, TRUE))
    /\ UNCHANGED << service, userVars, objectVars, linkVars, c2s, wrote, fsm, promise, priority,
                    executed >>

\* handleEvent(Completed): complete() finds the channel unregistered, nothing is written.
Released ==
    /\ fsm' = IF fsm = "ready" THEN "released" ELSE fsm
    /\ promise' = NoPromise

ServiceEnd ==
    /\ ServiceReads("end")
    /\ Released
    /\ UNCHANGED << service, userVars, objectVars, linkVars, s2c, wrote, write_lost, priority,
                    observed, executed >>

ServiceDisconnected ==
    /\ sup
    /\ sup' = FALSE /\ c2s' = << >>
    /\ Released
    /\ UNCHANGED << service, userVars, objectVars, cup, s2c, wrote, write_lost, priority,
                    observed, executed >>

-----------------------------------------------------------------------------
ClientReceive == ClientInput \/ ClientEnd

ServiceReceive ==
    ServiceCreate \/ ServiceConfig \/ ServiceCall \/ ServicePublish \/ ServiceEnd

Next ==
    \/ SubmitCreation \/ Drop \/ \E p \in Priorities : SetPriority(p)
    \/ \E op \in Ops : Start(op) \/ SubmitOperation(op) \/ SubmitReceive(op)
    \/ ClientReceive \/ ClientDisconnected
    \/ ServiceReceive \/ ServiceDisconnected \/ PromiseResolves \/ NodeMessage

(***************************************************************************)
(* Both executors serve their sockets, a promise is resolved at its        *)
(* deadline at the latest, and either side notices when the other is gone. *)
(***************************************************************************)
Fairness ==
    /\ WF_vars(ClientReceive) /\ WF_vars(ServiceReceive) /\ WF_vars(PromiseResolves)
    /\ WF_vars(~sup /\ s2c = << >> /\ ClientDisconnected)
    /\ WF_vars(~cup /\ c2s = << >> /\ ServiceDisconnected)

Spec == Init /\ [][Next]_vars /\ Fairness

-----------------------------------------------------------------------------
(***************************************************************************)
(* Properties.                                                             *)
(***************************************************************************)
\* Every variable has its type, and only a ready Fsm awaits an answer.
TypeOK ==
    /\ stage \in {"made", "creating", "open", "dropped"}
    /\ held \in Payloads /\ receiver \in 0 .. MaxOps /\ submitted \subseteq started
    /\ promise \in 0 .. NoPromise /\ (promise # NoPromise => fsm = "ready")
    /\ \A op \in Ops, i \in 1 .. 3 : i <= Len(reports[op]) =>
            reports[op][i].is \in {"success", "failure", "refused", "completed"}

\* The result of an operation is the first thing its receiver is called with (a sender
\* takes no other): here a message of the subject.
Received(op) == reports[op] # << >> /\ reports[op][1].is \in {"success", "failure"}

Result(op) == reports[op][1].of

(***************************************************************************)
(* Calls and publications made one after the other: a receiver is called   *)
(* at most once with the answer to its own operation (or the refusal to    *)
(* send it), and at most once more with the completion of the channel.     *)
(* Receive operations made one after the other: each takes the next        *)
(* message that comes once it is submitted, so their results are in the    *)
(* order of the subject and no message is the result of two. A message is  *)
(* passed over just if it came while no operation awaited one, which is    *)
(* why node_pub_sub.hpp:135 asks to receive again immediately, or if a     *)
(* write of the daemon failed.                                             *)
(***************************************************************************)
OwnAnswerOnce ==
    /\ service # "subscribe" => \A op \in Ops : \A i \in DOMAIN reports[op] :
        LET r == reports[op][i]
        IN  IF r.is = "completed" THEN i = Len(reports[op]) ELSE i = 1 /\ r.of = op
    /\ service = "subscribe" => \A op \in Ops : Received(op) =>
        /\ Result(op) \notin missed
        /\ \A o \in Ops : o < op /\ Received(o) => Result(o) < Result(op)
        /\ write_lost \/ \A n \in 1 .. Result(op) - 1 :
                n \in missed \/ \E o \in Ops : Received(o) /\ Result(o) = n

(***************************************************************************)
(* A request or publication goes out with the priority that was last set   *)
(* when it was submitted: configuration and operations stay in order. The  *)
(* types are checked along with it.                                        *)
(***************************************************************************)
PriorityInForce ==
    /\ TypeOK
    /\ \A i \in DOMAIN executed :
        executed[i].of # 0 => executed[i].priority = op_priority[executed[i].of]

(***************************************************************************)
(* A creation, a call and a publication come to a result, unless the user  *)
(* gives up or a write of the daemon failed; when the user gives up, the   *)
(* daemon stops working for it.                                            *)
(***************************************************************************)
Resolves ==
    /\ stage = "creating" ~> creation # << >> \/ stage = "dropped" \/ write_lost
    /\ \A op \in Ops : service # "subscribe" /\ op \in submitted
            ~> reports[op] # << >> \/ stage = "dropped" \/ write_lost
    /\ stage = "dropped" ~> fsm # "ready" \/ write_lost
=============================================================================
