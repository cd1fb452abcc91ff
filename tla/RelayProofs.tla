----------------------------- MODULE RelayProofs ----------------------------
(***************************************************************************)
(* Proofs about the raw relay, for any number of operations, messages and  *)
(* priorities: the answers that receivers get and the priorities that go   *)
(* out. The interfaces allow one operation at a time ("only one operation  *)
(* can be active at a time", node_pub_sub.hpp), which is what Concurrent   *)
(* being FALSE says; the theorems assume it where they need it.            *)
(***************************************************************************)
EXTENDS Relay, TLAPS

-----------------------------------------------------------------------------
(***************************************************************************)
(* The inductive invariant.                                                *)
(***************************************************************************)
Requests == [ kind : {"create"} ] \cup [ kind : {"config"}, priority : Nat ]
                \cup [ kind : {"operation"}, payload : Payloads ]
                \cup [ kind : {"end"}, error : {"none"} ]

Replies == [ kind : {"empty"} ] \cup [ kind : {"answer"}, of : Nat, ok : BOOLEAN ]
                \cup [ kind : {"end"}, error : {"none", "Other"} ]

Reports == [ is : {"success", "failure", "refused", "completed"}, of : Nat ]

\* Every variable has its type.
Types ==
    /\ service \in {"rpc", "publish", "subscribe"}
    /\ stage \in {"made", "creating", "open", "dropped"} /\ copen \in BOOLEAN
    /\ held \in Payloads /\ started \subseteq Ops /\ submitted \subseteq started
    /\ receiver \in 0 .. MaxOps /\ reports \in [ Ops -> Seq(Reports) ]
    /\ asked \in Nat /\ op_priority \in [ Ops -> Nat ] /\ missed \subseteq Nat
    /\ cup \in BOOLEAN /\ sup \in BOOLEAN /\ write_lost \in BOOLEAN
    /\ c2s \in Seq(Requests) /\ s2c \in Seq(Replies)
    /\ fsm \in {"none", "ready", "released"} /\ priority \in Nat /\ observed \in Nat
    /\ promise \in 0 .. NoPromise /\ (promise # NoPromise => fsm = "ready")
    /\ executed \in Seq([ of : Payloads, priority : Nat ])

\* One operation at a time: the one that is started and not submitted is the one whose
\* payload the object holds, and at most one has no report yet.
OneAtATime ==
    /\ receiver # 0 => receiver \in submitted
    /\ \A op \in Ops : reports[op] # << >> => op \in submitted
    /\ \A o, p \in Ops : Pending(o) /\ Pending(p) => o = p
    /\ service # "subscribe" => \A op \in started \ submitted : held = op

\* How far the creation has come.
Creation ==
    /\ stage = "open" /\ copen <=> stage = "open" /\ completion = "none"
    /\ copen => cup /\ stage # "dropped"
    /\ fsm = "none" => /\ stage \in {"made", "creating", "dropped"} /\ asked = 0 /\ priority = 0
                       /\ \A i \in DOMAIN c2s : c2s[i].kind \in {"create", "end"}
                       /\ s2c = << >>
    /\ started # {} \/ receiver # 0 => stage \in {"open", "dropped"}
    /\ stage \in {"made", "creating"} => /\ started = {} /\ asked = 0 /\ receiver = 0
                                      /\ completion = "none"
                                      /\ \A i \in DOMAIN c2s : c2s[i].kind \in {"create", "end"}

\* No configuration stands between two places of a queue to the daemon.
NoConfig(q, i, j) == \A k \in DOMAIN q : i < k /\ k < j => q[k].kind # "config"

\* Reading queue q from priority pr on sets the priorities "prs" of the operations in it, and
\* the last one is a.
Sets(q, pr, a, prs) ==
    /\ NoConfig(q, 0, Len(q) + 1) => pr = a
    /\ \A i \in DOMAIN q :
         /\ q[i].kind = "config" /\ NoConfig(q, i, Len(q) + 1) => q[i].priority = a
         /\ q[i].kind = "operation" /\ q[i].payload # 0 =>
              /\ NoConfig(q, 0, i) => pr = prs[q[i].payload]
              /\ \A j \in DOMAIN q : j < i /\ q[j].kind = "config" /\ NoConfig(q, j, i) =>
                    q[j].priority = prs[q[i].payload]

\* The priorities that are set while the queue is read are those of the operations in it.
PriorityUnderWay == sup /\ fsm # "released" => Sets(c2s, priority, asked, op_priority)

\* Only what is submitted is under way or was executed.
OnlySubmitted ==
    /\ \A i \in DOMAIN c2s : c2s[i].kind = "operation" /\ c2s[i].payload # 0 =>
            c2s[i].payload \in submitted
    /\ \A i \in DOMAIN executed : executed[i].of # 0 => executed[i].of \in submitted

\* An operation is in one place at most on its way to the daemon and back, and is the one
\* whose receiver the object holds, not called yet.
Asks(i)    == c2s[i].kind = "operation"
Answers(i) == s2c[i].kind = "answer"

Awaited(n) == n # 0 /\ receiver = n /\ reports[n] = << >>

\* A queue holds no, or at most one, message of a kind.
None(q, kind) == \A i \in DOMAIN q : q[i].kind # kind
One(q, kind)  == \A i, j \in DOMAIN q : q[i].kind = kind /\ q[j].kind = kind => i = j

OneUnderWay ==
    service # "subscribe" /\ copen =>
        /\ \A i \in DOMAIN c2s : Asks(i) => Awaited(c2s[i].payload)
        /\ \A i \in DOMAIN s2c : Answers(i) => Awaited(s2c[i].of)
        /\ promise # NoPromise => Awaited(promise)
        /\ One(c2s, "operation") /\ One(s2c, "answer")
        /\ None(c2s, "operation") \/ None(s2c, "answer")
        /\ promise # NoPromise => None(c2s, "operation") /\ None(s2c, "answer")

\* What a receiver was called with.
OwnReports ==
    /\ service # "subscribe" => \A op \in Ops : \A i \in DOMAIN reports[op] :
            IF reports[op][i].is = "completed" THEN i = Len(reports[op])
            ELSE i = 1 /\ reports[op][i].of = op
    /\ copen => \A op \in Ops : \A i \in DOMAIN reports[op] : reports[op][i].is # "completed"

\* Operations get their first report in turn.
InTurn == \A o, p \in Ops : o < p /\ p \in started => reports[o] # << >>

\* The reply to the creation is the first thing written to the client: no message of the
\* subject takes its place.
Opening ==
    /\ stage = "made" => c2s = << >> /\ fsm = "none"
    /\ copen /\ stage \in {"made", "creating"} =>
         /\ s2c # << >> => Head(s2c).kind # "answer"
         /\ fsm = "ready" => s2c # << >>

\* Queue q to the client holds an answer n; its answers are in order.
HasAnswer(q, n) == \E j \in DOMAIN q : q[j].kind = "answer" /\ q[j].of = n

Rising(q) ==
    \A i, j \in DOMAIN q : q[i].kind = "answer" /\ q[j].kind = "answer" /\ i < j => q[i].of < q[j].of

\* Message n came to the subscriber: it is the result of an operation, or was missed.
Taken(n) == \E o \in Ops : Received(o) /\ Result(o) = n

Came(n) == n \in missed \/ Taken(n)

\* The messages that are the results of operations.
InOrder ==
    \A op \in Ops : Received(op) =>
        /\ Result(op) \notin missed
        /\ \A o \in Ops : o < op /\ Received(o) => Result(o) < Result(op)

NoneLost ==
    write_lost \/ \A op \in Ops : Received(op) => \A n \in 1 .. Result(op) - 1 : Came(n)

\* What came to a subscriber, and what is on its way to it.
UnderWay ==
    /\ promise = NoPromise /\ Rising(s2c)
    /\ \A n : Came(n) => n \in Nat /\ n <= observed
    /\ \A i \in DOMAIN s2c : Answers(i) =>
         s2c[i].of <= observed /\ \A n : Came(n) => n < s2c[i].of
    /\ copen /\ ~write_lost => \A n \in 1 .. observed : Came(n) \/ HasAnswer(s2c, n)

Forwarded == service = "subscribe" => InOrder /\ NoneLost /\ UnderWay

RelayInv ==
    /\ Types
    /\ OneAtATime
    /\ Creation
    /\ PriorityUnderWay
    /\ OnlySubmitted
    /\ PriorityInForce
    /\ OneUnderWay
    /\ OwnReports
    /\ InTurn
    /\ Opening
    /\ Forwarded

-----------------------------------------------------------------------------
(***************************************************************************)
(* Lemmas about the messages and the queues.                               *)
(***************************************************************************)
LEMMA Constants ==
    /\ MaxOps \in Nat /\ MaxMsgs \in Nat /\ Priorities \subseteq Nat /\ NoPromise = MaxOps + 1
    /\ Services \subseteq {"rpc", "publish", "subscribe"}
    /\ Ops = 1 .. MaxOps /\ Payloads = 0 .. MaxOps /\ Ops \subseteq Payloads
BY RelayAssumption DEF NoPromise, Ops, Payloads

\* The fields of the requests.
LEMMA RequestFields ==
    /\ \A m \in Requests :
         /\ m.kind \in {"create", "config", "operation", "end"}
         /\ m.kind = "config" => m.priority \in Nat
         /\ m.kind = "operation" => m.payload \in Payloads
    /\ Create \in Requests /\ Create.kind = "create"
    /\ \A p \in Nat : Config(p) \in Requests /\ Config(p).kind = "config" /\ Config(p).priority = p
    /\ \A n \in Payloads :
         Operation(n) \in Requests /\ Operation(n).kind = "operation" /\ Operation(n).payload = n
    /\ End("none") \in Requests /\ End("none").kind = "end"
BY DEF Requests, Create, Config, Operation, End

\* The fields of the replies and the reports.
LEMMA ReplyFields ==
    /\ \A m \in Replies :
         /\ m.kind \in {"empty", "answer", "end"}
         /\ m.kind = "answer" => m.of \in Nat
    /\ Empty \in Replies /\ Empty.kind = "empty"
    /\ \A n \in Nat, ok \in BOOLEAN :
         Answer(n, ok) \in Replies /\ Answer(n, ok).kind = "answer" /\ Answer(n, ok).of = n
    /\ \A e \in {"none", "Other"} : End(e) \in Replies /\ End(e).kind = "end"
BY DEF Replies, Empty, Answer, End

LEMMA ReportFields ==
    /\ \A r \in Reports :
         r.is \in {"success", "failure", "refused", "completed"} /\ r.of \in Nat
    /\ \A is \in {"success", "failure", "refused", "completed"}, n \in Nat :
         Report(is, n) \in Reports /\ Report(is, n).is = is /\ Report(is, n).of = n
BY DEF Reports, Report

\* What reading the first element leaves of a queue.
LEMMA TailAt ==
    ASSUME NEW S, NEW q \in Seq(S), q # << >>
    PROVE  /\ Tail(q) \in Seq(S) /\ Head(q) \in S /\ Head(q) = q[1]
           /\ DOMAIN q = 1 .. Len(q) /\ 1 \in DOMAIN q /\ Len(q) \in Nat
           /\ Len(Tail(q)) = Len(q) - 1 /\ DOMAIN Tail(q) = 1 .. Len(q) - 1
           /\ \A i \in DOMAIN Tail(q) : i + 1 \in DOMAIN q /\ Tail(q)[i] = q[i + 1]
           /\ \A i \in DOMAIN q : i = 1 \/ (i - 1 \in DOMAIN Tail(q) /\ Tail(q)[i - 1] = q[i])
OBVIOUS

\* What writing adds to a queue.
LEMMA AppendAt ==
    ASSUME NEW S, NEW q \in Seq(S), NEW m \in S
    PROVE  /\ Append(q, m) \in Seq(S) /\ Append(q, m) # << >>
           /\ DOMAIN q = 1 .. Len(q) /\ Len(q) \in Nat
           /\ Len(Append(q, m)) = Len(q) + 1
           /\ DOMAIN Append(q, m) = DOMAIN q \cup {Len(q) + 1}
           /\ \A i \in DOMAIN q : Append(q, m)[i] = q[i] /\ i < Len(q) + 1
           /\ Append(q, m)[Len(q) + 1] = m
OBVIOUS

\* The receiver of one operation is called.
LEMMA Called ==
    ASSUME reports \in [ Ops -> Seq(Reports) ], NEW op \in Ops, NEW r \in Reports, Call(op, r)
    PROVE  /\ reports' \in [ Ops -> Seq(Reports) ]
           /\ reports'[op] = Append(reports[op], r)
           /\ reports'[op] # << >>
           /\ \A o \in Ops \ {op} : reports'[o] = reports[o]
<1>1. Append(reports[op], r) \in Seq(Reports) /\ Append(reports[op], r) # << >>
  OBVIOUS
<1>. QED  BY <1>1 DEF Call

-----------------------------------------------------------------------------
(***************************************************************************)
(* Every step preserves the parts of the invariant.                        *)
(***************************************************************************)
\* The actions, in the groups that the proofs treat alike.
LEMMA Cases ==
    ASSUME Next
    PROVE  \/ SubmitCreation \/ Drop \/ \E p \in Priorities : SetPriority(p)
           \/ \E op \in Ops : Start(op)
           \/ \E op \in Ops : SubmitOperation(op)
           \/ \E op \in Ops : SubmitReceive(op)
           \/ ClientInput \/ ClientEnd \/ ClientDisconnected
           \/ ServiceCreate \/ ServiceConfig \/ ServiceCall \/ ServicePublish \/ ServiceEnd
           \/ ServiceDisconnected \/ PromiseResolves \/ NodeMessage
BY DEF Next, ClientReceive, ServiceReceive

\* What the service reads is taken from the queue.
LEMMA ServiceReadsOne ==
    ASSUME Types, NEW kind, ServiceReads(kind)
    PROVE  /\ sup /\ c2s # << >> /\ c2s' = Tail(c2s) /\ c2s' \in Seq(Requests)
           /\ Head(c2s) \in Requests /\ Head(c2s) = c2s[1] /\ Head(c2s).kind = kind
BY DEF ServiceReads, Types

LEMMA TypesStep ==
    ASSUME Types, Next
    PROVE  Types'
<1> USE DEF Types
<1>0. \A ok \in BOOLEAN : \A m \in Requests : ClientPost(m, ok) => c2s' \in Seq(Requests)
  <2>1. \A m \in Requests : Append(c2s, m) \in Seq(Requests)
    OBVIOUS
  <2>. QED  BY <2>1 DEF ClientPost
<1>1. CASE SubmitCreation
  <2>1. PICK ok \in BOOLEAN : ClientPost(Create, ok)
    BY <1>1 DEF SubmitCreation
  <2>2. c2s' \in Seq(Requests)
    BY <1>0, <2>1, RequestFields
  <2>. QED  BY <1>1, <2>2 DEF SubmitCreation, linkVars, fsmVars
<1>2. CASE Drop
  <2>1. c2s' \in Seq(Requests) /\ write_lost' \in BOOLEAN
    BY <1>2, RequestFields DEF Drop
  <2>. QED  BY <1>2, <2>1 DEF Drop, userVars, linkVars, fsmVars
<1>3. ASSUME NEW p \in Priorities, SetPriority(p) PROVE Types'
  <2>1. PICK ok \in BOOLEAN : ClientPost(Config(p), ok) /\ asked' = IF ok THEN p ELSE asked
    BY <1>3 DEF SetPriority
  <2>2. c2s' \in Seq(Requests) /\ asked' \in Nat
    BY <1>0, <2>1, RequestFields, Constants
  <2>. QED  BY <1>3, <2>2 DEF SetPriority, objectVars, linkVars, fsmVars
<1>4. ASSUME NEW op \in Ops, Start(op) PROVE Types'
  BY <1>4, Constants DEF Start, linkVars, fsmVars
<1>5. ASSUME NEW op \in Ops, SubmitOperation(op) PROVE Types'
  <2>1. op_priority' \in [ Ops -> Nat ]
    BY <1>5 DEF SubmitOperation
  <2>2. Report("refused", op) \in Reports /\ op \in Nat
    BY ReportFields, Constants
  <2>3. reports' \in [ Ops -> Seq(Reports) ]
    BY <1>5, <2>2, Called DEF SubmitOperation
  <2>4. receiver' \in 0 .. MaxOps
    BY <1>5, Constants DEF SubmitOperation, NewReceiver
  <2>5. c2s' \in Seq(Requests) /\ held' \in Payloads
    BY <1>0, <1>5, RequestFields, Constants DEF SubmitOperation
  <2>. QED  BY <1>5, <2>1, <2>3, <2>4, <2>5 DEF SubmitOperation, linkVars, fsmVars
<1>6. ASSUME NEW op \in Ops, SubmitReceive(op) PROVE Types'
  <2>1. Report("refused", op) \in Reports /\ op \in Nat
    BY ReportFields, Constants
  <2>2. reports' \in [ Ops -> Seq(Reports) ] /\ receiver' \in 0 .. MaxOps
    BY <1>6, <2>1, Called, Constants DEF SubmitReceive
  <2>. QED  BY <1>6, <2>2 DEF SubmitReceive, linkVars, fsmVars
<1>7. CASE ClientInput
  <2>1. s2c # << >> /\ s2c' = Tail(s2c) /\ Head(s2c) \in Replies
    BY <1>7 DEF ClientInput, ClientReads
  <2>2. s2c' \in Seq(Replies)
    BY <2>1
  <2> DEFINE m == Head(s2c)
             report == copen /\ stage = "open" /\ m.kind = "answer" /\ receiver # 0
  <2>5. missed' \subseteq Nat
    <3>1. m.kind = "answer" => m.of \in Nat
      BY <2>1, ReplyFields
    <3>2. missed' = missed \/ (m.kind = "answer" /\ missed' = missed \cup {m.of})
      BY <1>7 DEF ClientInput
    <3>. QED  BY <3>1, <3>2
  <2>3. CASE report
    <3>0. receiver \in Ops
      BY <2>3, Constants
    <3>1. receiver \in Ops /\ m.of \in Nat
      BY <2>1, <2>3, <3>0, ReplyFields
    <3>2. Report(IF m.ok THEN "success" ELSE "failure", m.of) \in Reports
      BY <3>1, ReportFields
    <3>3. Call(receiver, Report(IF m.ok THEN "success" ELSE "failure", m.of))
      BY <1>7, <2>3 DEF ClientInput
    <3>4. reports' \in [ Ops -> Seq(Reports) ]
      BY <3>1, <3>2, <3>3, Called
    <3>. QED  BY <1>7, <2>2, <2>5, <3>4 DEF ClientInput, AfterNotify, linkVars, fsmVars
  <2>4. CASE ~report
    <3>1. UNCHANGED << reports, receiver >>
      BY <1>7, <2>4 DEF ClientInput
    <3>. QED  BY <1>7, <2>2, <2>5, <3>1 DEF ClientInput, linkVars, fsmVars
  <2>. QED  BY <2>3, <2>4
<1>8. CASE ClientEnd \/ ClientDisconnected
  <2>1. PICK e : ClientCompleted(e)
    BY <1>8 DEF ClientEnd, ClientDisconnected
  <2>2. Report("completed", 0) \in Reports
    BY ReportFields
  <2>3. reports' \in [ Ops -> Seq(Reports) ]
    BY <2>1, <2>2, Called, Constants DEF ClientCompleted
  <2>4. s2c' \in Seq(Replies)
    <3>1. CASE ClientEnd
      <4>1. s2c # << >> /\ s2c' = Tail(s2c)
        BY <3>1 DEF ClientEnd, ClientReads
      <4>. QED  BY <4>1
    <3>2. CASE ClientDisconnected
      BY <3>2 DEF ClientDisconnected
    <3>. QED  BY <1>8, <3>1, <3>2
  <2>. QED  BY <1>8, <2>1, <2>3, <2>4
       DEF ClientEnd, ClientDisconnected, ClientCompleted, linkVars, fsmVars
<1>9. \A m \in Replies : Append(s2c, m) \in Seq(Replies)
  OBVIOUS
<1>10. CASE ServiceCreate
  <2>1. c2s' \in Seq(Requests)
    BY <1>10, ServiceReadsOne DEF ServiceCreate
  <2>2. CASE Created
    BY <1>9, <1>10, <2>1, <2>2, ReplyFields DEF ServiceCreate, Created, userVars, objectVars, linkVars
  <2>3. CASE CreationFails
    <3>1. Reply(End("Other")) /\ fsm' = "released" /\ promise' = NoPromise
      BY <2>3 DEF CreationFails, Complete
    <3>2. s2c' \in Seq(Replies) /\ write_lost' \in BOOLEAN
      BY <1>9, <3>1, ReplyFields DEF Reply
    <3>3. promise' \in 0 .. NoPromise
      BY <3>1, Constants
    <3>. QED  BY <1>10, <2>1, <3>1, <3>2, <3>3 DEF ServiceCreate, userVars, objectVars, linkVars
  <2>. QED  BY <1>10, <2>2, <2>3 DEF ServiceCreate
<1>11. CASE ServiceConfig
  <2>1. c2s' \in Seq(Requests) /\ Head(c2s).priority \in Nat
    BY <1>11, ServiceReadsOne, RequestFields DEF ServiceConfig
  <2>. QED  BY <1>11, <2>1 DEF ServiceConfig, Applied, userVars, objectVars, linkVars
<1>12. ASSUME ServiceReads("operation"), Execute(Head(c2s).payload)
       PROVE  executed' \in Seq([ of : Payloads, priority : Nat ])
  <2>1. Head(c2s).payload \in Payloads
    BY <1>12, ServiceReadsOne, RequestFields
  <2>2. [ of |-> Head(c2s).payload, priority |-> priority ] \in [ of : Payloads, priority : Nat ]
    BY <2>1
  <2>. QED  BY <1>12, <2>2 DEF Execute
<1>13. CASE ServiceCall \/ ServicePublish
  <2> DEFINE n == Head(c2s).payload
  <2>1. c2s' \in Seq(Requests) /\ n \in Payloads /\ ServiceReads("operation")
    BY <1>13, ServiceReadsOne, RequestFields DEF ServiceCall, ServicePublish
  <2>2. n \in Nat /\ n \in 0 .. NoPromise /\ n # NoPromise
    BY <2>1, Constants
  <2>3. \/ UNCHANGED << s2c, write_lost >> \/ \E ok \in BOOLEAN : Reply(Answer(n, ok))
    BY <1>13 DEF ServiceCall, ServicePublish, ReplyRefusal
  <2>4. s2c' \in Seq(Replies) /\ write_lost' \in BOOLEAN
    <3>1. \A ok \in BOOLEAN : Answer(n, ok) \in Replies
      BY <2>2, ReplyFields
    <3>2. s2c' \in Seq(Replies)
      BY <1>9, <2>3, <3>1 DEF Reply
    <3>3. write_lost' \in BOOLEAN
      BY <2>3 DEF Reply
    <3>. QED  BY <3>2, <3>3
  <2>5. executed' \in Seq([ of : Payloads, priority : Nat ])
    BY <1>12, <1>13, <2>1 DEF ServiceCall, ServicePublish
  <2>6. promise' \in 0 .. NoPromise /\ (promise' # NoPromise => fsm' = "ready") /\ fsm' = fsm
    BY <1>13, <2>2 DEF ServiceCall, ServicePublish
  <2>. QED  BY <1>13, <2>1, <2>4, <2>5, <2>6
       DEF ServiceCall, ServicePublish, userVars, objectVars, linkVars
<1>14. CASE PromiseResolves
  <2>1. promise \in Nat /\ NoPromise \in 0 .. NoPromise
    BY Constants
  <2>2. s2c' \in Seq(Replies) /\ write_lost' \in BOOLEAN
    BY <1>9, <1>14, <2>1, ReplyFields DEF PromiseResolves, Reply
  <2>. QED  BY <1>14, <2>1, <2>2 DEF PromiseResolves, userVars, objectVars, linkVars
<1>15. CASE NodeMessage
  <2>1. observed + 1 \in Nat
    OBVIOUS
  <2>2. s2c' \in Seq(Replies) /\ write_lost' \in BOOLEAN
    <3>1. Answer(observed + 1, TRUE) \in Replies
      BY <2>1, ReplyFields
    <3>. QED  BY <1>9, <1>15, <3>1 DEF NodeMessage, Reply
  <2>. QED  BY <1>15, <2>1, <2>2 DEF NodeMessage, userVars, objectVars, linkVars
<1>16. CASE ServiceEnd \/ ServiceDisconnected
  <2>1. ServiceEnd => c2s' \in Seq(Requests)
    BY ServiceReadsOne DEF ServiceEnd
  <2>2. ServiceDisconnected => c2s' \in Seq(Requests)
    BY DEF ServiceDisconnected
  <2>3. promise' = NoPromise /\ NoPromise \in 0 .. NoPromise /\ fsm' \in {"none", "ready", "released"}
    BY <1>16, Constants DEF ServiceEnd, ServiceDisconnected, Released
  <2>. QED  BY <1>16, <2>1, <2>2, <2>3
       DEF ServiceEnd, ServiceDisconnected, userVars, objectVars, linkVars
<1>. QED  BY <1>1, <1>2, <1>3, <1>4, <1>5, <1>6, <1>7, <1>8, <1>10, <1>11, <1>13, <1>14, <1>15, <1>16,
     Cases

\* The steps of the daemon and of the connection leave the user's side alone.
LEMMA ServiceQuiet ==
    ASSUME ServiceCreate \/ ServiceConfig \/ ServiceCall \/ ServicePublish \/ ServiceEnd
             \/ ServiceDisconnected \/ PromiseResolves \/ NodeMessage
    PROVE  UNCHANGED << service, creation, started, submitted, reports, asked, op_priority, missed,
                        stage, copen, held, receiver, completion, cup >>
BY DEF ServiceCreate, ServiceConfig, ServiceCall, ServicePublish, ServiceEnd,
   ServiceDisconnected, PromiseResolves, NodeMessage, userVars, objectVars, linkVars

\* The object calls the receiver it holds, or none.
LEMMA ClientCalls ==
    ASSUME Types, ClientInput \/ ClientEnd \/ ClientDisconnected
    PROVE  /\ UNCHANGED << service, started, submitted, asked, op_priority, held, receiver >>
           /\ \/ UNCHANGED reports
              \/ /\ receiver # 0 /\ receiver \in Ops /\ copen /\ stage = "open"
                 /\ \E r \in Reports : Call(receiver, r)
           /\ \A o \in Ops : reports'[o] = << >> => reports[o] = << >>
           /\ \A o \in Ops : reports'[o] # << >> => reports[o] # << >> \/ o = receiver
<1>1. UNCHANGED << service, started, submitted, asked, op_priority, held, receiver >>
  BY DEF ClientInput, ClientEnd, ClientDisconnected, AfterNotify
<1>2. \/ UNCHANGED reports
      \/ /\ receiver # 0 /\ receiver \in Ops /\ copen /\ stage = "open"
         /\ \E r \in Reports : Call(receiver, r)
  <2>1. receiver # 0 => receiver \in Ops
    BY Constants DEF Types
  <2>2. CASE ClientInput
    <3> DEFINE m == Head(s2c)
               r == Report(IF m.ok THEN "success" ELSE "failure", m.of)
    <3>1. CASE copen /\ stage = "open" /\ m.kind = "answer" /\ receiver # 0
      <4>1. Call(receiver, r)
        BY <2>2, <3>1 DEF ClientInput
      <4>2. m \in Replies
        BY <2>2 DEF ClientInput, ClientReads, Types
      <4>3. r \in Reports
        BY <3>1, <4>2, ReplyFields, ReportFields
      <4>. QED  BY <2>1, <3>1, <4>1, <4>3
    <3>2. CASE ~(copen /\ stage = "open" /\ m.kind = "answer" /\ receiver # 0)
      BY <2>2, <3>2 DEF ClientInput
    <3>. QED  BY <3>1, <3>2
  <2>3. CASE ClientEnd \/ ClientDisconnected
    <3>1. \/ UNCHANGED reports
          \/ copen /\ stage = "open" /\ receiver # 0 /\ Call(receiver, Report("completed", 0))
      BY <2>3 DEF ClientEnd, ClientDisconnected, ClientCompleted
    <3>2. Report("completed", 0) \in Reports
      BY ReportFields
    <3>. QED  BY <2>1, <3>1, <3>2
  <2>. QED  BY <2>2, <2>3
<1>3. CASE UNCHANGED reports
  BY <1>1, <1>2, <1>3
<1>4. CASE receiver \in Ops /\ \E r \in Reports : Call(receiver, r)
  <2>1. PICK r \in Reports : Call(receiver, r)
    BY <1>4
  <2>2. PICK op \in Ops : op = receiver
    BY <1>4
  <2>3. Call(op, r)
    BY <2>1, <2>2
  <2>4. reports'[op] # << >> /\ \A o \in Ops \ {op} : reports'[o] = reports[o]
    BY <2>3, Called DEF Types
  <2>. QED  BY <1>1, <1>2, <2>2, <2>4
<1>. QED  BY <1>2, <1>3, <1>4

\* An operation that is submitted is refused or gets its receiver into the object.
LEMMA Submission ==
    ASSUME Types, NEW op \in Ops, SubmitOperation(op) \/ SubmitReceive(op)
    PROVE  /\ UNCHANGED << service, started, asked, missed, stage, copen, completion, cup, s2c >>
           /\ op \in started \ submitted /\ submitted' = submitted \cup {op}
           /\ \/ reports' = reports /\ receiver' = op /\ completion = "none"
              \/ Call(op, Report("refused", op)) /\ receiver' = receiver
           /\ \A o \in Ops \ {op} : reports'[o] = reports[o]
<1>1. CASE SubmitOperation(op)
  <2>1. /\ UNCHANGED << service, started, asked, missed, stage, copen, completion, cup, s2c >>
        /\ op \in started \ submitted /\ submitted' = submitted \cup {op}
        /\ \/ reports' = reports /\ receiver' = op /\ completion = "none"
           \/ Call(op, Report("refused", op)) /\ receiver' = receiver
    BY <1>1 DEF SubmitOperation, NewReceiver, linkVars
  <2>2. Report("refused", op) \in Reports
    BY ReportFields, Constants
  <2>. QED  BY <2>1, <2>2, Called DEF Types
<1>2. CASE SubmitReceive(op)
  <2>1. /\ UNCHANGED << service, started, asked, missed, stage, copen, completion, cup, s2c >>
        /\ op \in started \ submitted /\ submitted' = submitted \cup {op}
        /\ \/ reports' = reports /\ receiver' = op /\ completion = "none"
           \/ Call(op, Report("refused", op)) /\ receiver' = receiver
    BY <1>2 DEF SubmitReceive, linkVars
  <2>2. Report("refused", op) \in Reports
    BY ReportFields, Constants
  <2>. QED  BY <2>1, <2>2, Called DEF Types
<1>. QED  BY <1>1, <1>2

LEMMA OneAtATimeStep ==
    ASSUME Concurrent = FALSE, Types, OneAtATime, Next
    PROVE  OneAtATime'
<1> USE DEF OneAtATime, Pending
<1>0. /\ receiver \in 0 .. MaxOps /\ started \subseteq Ops /\ submitted \subseteq started
      /\ Ops = 1 .. MaxOps /\ MaxOps \in Nat
  BY Constants DEF Types
<1>1. ASSUME UNCHANGED << service, started, submitted, reports, held, receiver >> PROVE OneAtATime'
  BY <1>1
<1>2. ASSUME NEW op \in Ops, Start(op) PROVE OneAtATime'
  <2>1. /\ op \notin started /\ started' = started \cup {op}
        /\ \A o \in Ops : ~(o \in started /\ reports[o] = << >>)
        /\ held' = IF service = "subscribe" THEN held ELSE op
        /\ UNCHANGED << service, submitted, reports, receiver >>
    BY <1>2 DEF Start
  <2>2. \A o \in started \ submitted : FALSE
    BY <1>0, <2>1
  <2>. QED  BY <1>0, <2>1, <2>2
<1>3. ASSUME NEW op \in Ops, SubmitOperation(op) \/ SubmitReceive(op) PROVE OneAtATime'
  <2>1. /\ op \in started \ submitted /\ submitted' = submitted \cup {op} /\ started' = started
        /\ receiver' \in {receiver, op} /\ service' = service
        /\ \A o \in Ops \ {op} : reports'[o] = reports[o]
    BY <1>3, Submission
  <2>2. reports[op] = << >>
    BY <2>1
  <2>3. \A o \in started \ submitted : o = op
    BY <1>0, <2>1, <2>2
  <2>. QED  BY <1>0, <2>1, <2>2, <2>3
<1>4. CASE ClientInput \/ ClientEnd \/ ClientDisconnected
  <2>1. /\ UNCHANGED << service, started, submitted, held, receiver >>
        /\ \A o \in Ops : reports'[o] = << >> => reports[o] = << >>
        /\ \A o \in Ops : reports'[o] # << >> => reports[o] # << >> \/ o = receiver
    BY <1>4, ClientCalls
  <2>. QED  BY <1>0, <2>1
<1>5. CASE SubmitCreation \/ Drop \/ \E p \in Priorities : SetPriority(p)
  <2>1. UNCHANGED << service, started, submitted, reports, held, receiver >>
    BY <1>5 DEF SubmitCreation, Drop, SetPriority, userVars, objectVars
  <2>. QED  BY <1>1, <2>1
<1>6. CASE ServiceCreate \/ ServiceConfig \/ ServiceCall \/ ServicePublish \/ ServiceEnd
             \/ ServiceDisconnected \/ PromiseResolves \/ NodeMessage
  BY <1>1, <1>6, ServiceQuiet
<1>. QED  BY <1>2, <1>3, <1>4, <1>5, <1>6, Cases

\* The queue to the daemon while the Fsm is not made.
EarlyRequests == \A i \in DOMAIN c2s : c2s[i].kind \in {"create", "end"}

LEMMA CreationStep ==
    ASSUME Types, Creation, Next
    PROVE  Creation'
<1> USE DEF Creation, EarlyRequests
<1>0. c2s \in Seq(Requests) /\ stage \in {"made", "creating", "open", "dropped"}
      /\ fsm \in {"none", "ready", "released"} /\ copen \in BOOLEAN
  BY DEF Types
<1>1. ASSUME NEW m \in Requests, m.kind \in {"create", "end"}, EarlyRequests, c2s' \in {c2s, Append(c2s, m)}
      PROVE  EarlyRequests'
  BY <1>0, <1>1, AppendAt
<1>2. CASE SubmitCreation
  <2>1. EarlyRequests'
    <3>1. EarlyRequests /\ c2s' \in {c2s, Append(c2s, Create)}
      BY <1>2 DEF SubmitCreation, ClientPost
    <3>. QED  BY <1>1, <3>1, RequestFields
  <2>2. stage = "made" /\ stage' = "creating"
        /\ UNCHANGED << started, asked, receiver, copen, cup, completion, s2c, fsm, priority >>
    BY <1>2 DEF SubmitCreation, linkVars, fsmVars
  <2>. QED  BY <2>1, <2>2
<1>3. CASE Drop
  <2>1. EarlyRequests => EarlyRequests'
    <3>1. c2s' \in {c2s, Append(c2s, End("none"))}
      BY <1>3 DEF Drop
    <3>. QED  BY <1>1, <3>1, RequestFields
  <2>2. stage' = "dropped" /\ copen' = FALSE
        /\ UNCHANGED << started, asked, receiver, cup, completion, s2c, fsm, priority >>
    BY <1>3 DEF Drop, linkVars, fsmVars, userVars
  <2>. QED  BY <2>1, <2>2
<1>4. ASSUME NEW p \in Priorities, SetPriority(p) PROVE Creation'
  <2>1. stage = "open"
        /\ UNCHANGED << stage, started, receiver, copen, cup, completion, s2c, fsm, priority >>
    BY <1>4 DEF SetPriority, linkVars, fsmVars, objectVars
  <2>. QED  BY <2>1
<1>5. ASSUME NEW op \in Ops, Start(op) \/ SubmitOperation(op) \/ SubmitReceive(op) PROVE Creation'
  <2>1. stage = "open"
        /\ UNCHANGED << stage, asked, copen, cup, completion, s2c, fsm, priority >>
    BY <1>5 DEF Start, SubmitOperation, SubmitReceive, linkVars, fsmVars
  <2>. QED  BY <2>1
<1>6. CASE ClientInput
  <2>1. s2c # << >>
        /\ UNCHANGED << started, asked, copen, cup, completion, c2s, fsm, priority, receiver >>
    BY <1>6 DEF ClientInput, ClientReads, AfterNotify, linkVars, fsmVars
  <2>2. stage' = IF copen /\ stage = "creating" THEN "open" ELSE stage
    BY <1>6 DEF ClientInput
  <2>. QED  BY <1>0, <2>1, <2>2
<1>7. CASE ClientEnd
  <2>1. s2c # << >> /\ copen' = FALSE
        /\ UNCHANGED << stage, started, asked, cup, c2s, fsm, priority, receiver >>
    BY <1>7 DEF ClientEnd, ClientReads, ClientCompleted, linkVars, fsmVars
  <2>2. completion' = IF copen /\ stage = "open"
                      THEN (IF Head(s2c).error = "none" THEN "Canceled" ELSE Head(s2c).error)
                      ELSE completion
    BY <1>7 DEF ClientEnd, ClientCompleted
  <2>3. stage = "open" => completion' # "none"
    BY <1>0, <2>2
  <2>. QED  BY <1>0, <2>1, <2>2, <2>3
<1>8. CASE ClientDisconnected
  <2>1. s2c' = << >> /\ copen' = FALSE
        /\ UNCHANGED << stage, started, asked, c2s, fsm, priority, receiver >>
    BY <1>8 DEF ClientDisconnected, ClientCompleted, fsmVars
  <2>2. completion' = IF copen /\ stage = "open" THEN "Disconnected" ELSE completion
    BY <1>8 DEF ClientDisconnected, ClientCompleted
  <2>. QED  BY <1>0, <2>1, <2>2
<1>9. ASSUME c2s # << >>, c2s' = Tail(c2s), EarlyRequests PROVE EarlyRequests'
  BY <1>0, <1>9, TailAt
<1>10. CASE ServiceCreate
  <2>1. c2s # << >> /\ c2s' = Tail(c2s) /\ fsm' # "none"
    BY <1>10 DEF ServiceCreate, ServiceReads, Created, CreationFails, Complete
  <2>. QED  BY <1>9, <1>10, <2>1, ServiceQuiet
<1>11. ASSUME c2s # << >>, c2s' = Tail(c2s), fsm # "none", fsm' = fsm,
              UNCHANGED << stage, copen, cup, completion, started, receiver, asked >>
       PROVE  Creation'
  BY <1>9, <1>11
<1>12. CASE ServiceConfig
  <2>1. c2s # << >> /\ c2s' = Tail(c2s) /\ fsm' = fsm /\ Head(c2s).kind = "config"
    BY <1>12 DEF ServiceConfig, ServiceReads
  <2>2. fsm # "none"
    BY <1>0, <2>1, TailAt
  <2>. QED  BY <1>11, <1>12, <2>1, <2>2, ServiceQuiet
<1>13. CASE ServiceCall \/ ServicePublish
  <2>1. c2s # << >> /\ c2s' = Tail(c2s) /\ fsm' = fsm /\ Head(c2s).kind = "operation"
    BY <1>13 DEF ServiceCall, ServicePublish, ServiceReads
  <2>2. fsm # "none"
    BY <1>0, <2>1, TailAt
  <2>. QED  BY <1>11, <1>13, <2>1, <2>2, ServiceQuiet
<1>14. CASE PromiseResolves \/ NodeMessage
  <2>1. fsm = "ready" /\ fsm' = fsm /\ c2s' = c2s
    BY <1>14 DEF PromiseResolves, NodeMessage, Types
  <2>. QED  BY <1>14, <2>1, ServiceQuiet
<1>15. CASE ServiceEnd
  <2>1. c2s # << >> /\ c2s' = Tail(c2s) /\ UNCHANGED << s2c, priority >>
        /\ (fsm' = "none" <=> fsm = "none")
    BY <1>15 DEF ServiceEnd, ServiceReads, Released
  <2>. QED  BY <1>9, <1>15, <2>1, ServiceQuiet
<1>16. CASE ServiceDisconnected
  <2>1. c2s' = << >> /\ UNCHANGED << s2c, priority >> /\ (fsm' = "none" <=> fsm = "none")
    BY <1>16 DEF ServiceDisconnected, Released
  <2>2. EarlyRequests'
    BY <2>1
  <2>. QED  BY <1>16, <2>1, <2>2, ServiceQuiet
<1>. QED  BY <1>2, <1>3, <1>4, <1>5, <1>6, <1>7, <1>8, <1>10, <1>12, <1>13, <1>14, <1>15, <1>16, Cases

-----------------------------------------------------------------------------
(***************************************************************************)
(* The priority in force.                                                  *)
(***************************************************************************)
\* What is written, other than a configuration, is read with the last priority.
LEMMA SetsAppend ==
    ASSUME NEW q \in Seq(Requests), NEW m \in Requests, NEW pr, NEW a, NEW prs,
           Sets(q, pr, a, prs), m.kind # "config",
           m.kind = "operation" /\ m.payload # 0 => prs[m.payload] = a
    PROVE  Sets(Append(q, m), pr, a, prs)
<1> DEFINE r == Append(q, m)
<1>0. /\ DOMAIN q = 1 .. Len(q) /\ Len(q) \in Nat /\ Len(r) = Len(q) + 1
      /\ DOMAIN r = DOMAIN q \cup {Len(q) + 1}
      /\ \A i \in DOMAIN q : r[i] = q[i] /\ i < Len(q) + 1
      /\ r[Len(q) + 1] = m
  BY AppendAt
<1> HIDE DEF r
<1>1. \A i \in DOMAIN q \cup {0} : NoConfig(r, i, Len(r) + 1) => NoConfig(q, i, Len(q) + 1)
  BY <1>0 DEF NoConfig
<1>2. \A i \in DOMAIN q \cup {0} : NoConfig(r, i, Len(r)) => NoConfig(q, i, Len(q) + 1)
  BY <1>0 DEF NoConfig
<1>3. \A i \in DOMAIN q \cup {0}, j \in DOMAIN q : NoConfig(r, i, j) => NoConfig(q, i, j)
  BY <1>0 DEF NoConfig
<1>4. NoConfig(r, 0, Len(r) + 1) => pr = a
  BY <1>1 DEF Sets
<1>5. ASSUME NEW i \in DOMAIN q PROVE
         /\ r[i].kind = "config" /\ NoConfig(r, i, Len(r) + 1) => r[i].priority = a
         /\ r[i].kind = "operation" /\ r[i].payload # 0 =>
              /\ NoConfig(r, 0, i) => pr = prs[r[i].payload]
              /\ \A j \in DOMAIN r : j < i /\ r[j].kind = "config" /\ NoConfig(r, j, i) =>
                    r[j].priority = prs[r[i].payload]
  <2>1. r[i] = q[i] /\ i < Len(q) + 1
    BY <1>0
  <2>2. r[i].kind = "config" /\ NoConfig(r, i, Len(r) + 1) => r[i].priority = a
    BY <1>1, <2>1 DEF Sets
  <2>3. r[i].kind = "operation" /\ r[i].payload # 0 /\ NoConfig(r, 0, i) => pr = prs[r[i].payload]
    BY <1>3, <2>1 DEF Sets
  <2>4. ASSUME NEW j \in DOMAIN r, j < i, r[i].kind = "operation", r[i].payload # 0,
               r[j].kind = "config", NoConfig(r, j, i)
        PROVE  r[j].priority = prs[r[i].payload]
    <3>1. j \in DOMAIN q /\ r[j] = q[j]
      BY <1>0, <2>1, <2>4
    <3>. QED  BY <1>3, <2>1, <2>4, <3>1 DEF Sets
  <2>. QED  BY <2>2, <2>3, <2>4
<1>6. ASSUME m.kind = "operation", m.payload # 0
      PROVE  /\ NoConfig(r, 0, Len(r)) => pr = prs[m.payload]
             /\ \A j \in DOMAIN r : j < Len(r) /\ r[j].kind = "config" /\ NoConfig(r, j, Len(r)) =>
                    r[j].priority = prs[m.payload]
  BY <1>0, <1>2, <1>6 DEF Sets
<1>7. ASSUME NEW i \in DOMAIN r, i \notin DOMAIN q PROVE
         /\ r[i].kind = "config" /\ NoConfig(r, i, Len(r) + 1) => r[i].priority = a
         /\ r[i].kind = "operation" /\ r[i].payload # 0 =>
              /\ NoConfig(r, 0, i) => pr = prs[r[i].payload]
              /\ \A j \in DOMAIN r : j < i /\ r[j].kind = "config" /\ NoConfig(r, j, i) =>
                    r[j].priority = prs[r[i].payload]
  <2>1. i = Len(r) /\ r[i] = m
    BY <1>0, <1>7
  <2>. QED  BY <1>6, <2>1
<1>8. Sets(r, pr, a, prs)
  BY <1>4, <1>5, <1>7 DEF Sets
<1>. QED  BY <1>8 DEF r

\* A configuration that is written is the last one.
LEMMA SetsConfig ==
    ASSUME NEW q \in Seq(Requests), NEW p \in Nat, NEW pr, NEW a, NEW prs, Sets(q, pr, a, prs)
    PROVE  Sets(Append(q, Config(p)), pr, p, prs)
<1> DEFINE m == Config(p)
           r == Append(q, m)
<1>a. m \in Requests /\ m.kind = "config" /\ m.priority = p
  BY RequestFields
<1>0. /\ DOMAIN q = 1 .. Len(q) /\ Len(q) \in Nat /\ Len(r) = Len(q) + 1
      /\ DOMAIN r = DOMAIN q \cup {Len(q) + 1}
      /\ \A i \in DOMAIN q : r[i] = q[i] /\ i < Len(q) + 1
      /\ r[Len(q) + 1] = m
  BY <1>a, AppendAt
<1> HIDE DEF m, r
<1>1. \A i \in DOMAIN q \cup {0} : ~NoConfig(r, i, Len(r) + 1)
  <2>1. Len(q) + 1 \in DOMAIN r /\ r[Len(q) + 1].kind = "config"
    BY <1>a, <1>0
  <2>. QED  BY <1>0, <2>1 DEF NoConfig
<1>3. \A i \in DOMAIN q \cup {0}, j \in DOMAIN q : NoConfig(r, i, j) => NoConfig(q, i, j)
  BY <1>0 DEF NoConfig
<1>5. ASSUME NEW i \in DOMAIN q PROVE
         /\ r[i].kind = "config" /\ NoConfig(r, i, Len(r) + 1) => r[i].priority = p
         /\ r[i].kind = "operation" /\ r[i].payload # 0 =>
              /\ NoConfig(r, 0, i) => pr = prs[r[i].payload]
              /\ \A j \in DOMAIN r : j < i /\ r[j].kind = "config" /\ NoConfig(r, j, i) =>
                    r[j].priority = prs[r[i].payload]
  <2>1. r[i] = q[i] /\ i < Len(q) + 1
    BY <1>0
  <2>3. r[i].kind = "operation" /\ r[i].payload # 0 /\ NoConfig(r, 0, i) => pr = prs[r[i].payload]
    BY <1>3, <2>1 DEF Sets
  <2>4. ASSUME NEW j \in DOMAIN r, j < i, r[i].kind = "operation", r[i].payload # 0,
               r[j].kind = "config", NoConfig(r, j, i)
        PROVE  r[j].priority = prs[r[i].payload]
    <3>1. j \in DOMAIN q /\ r[j] = q[j]
      BY <1>0, <2>1, <2>4
    <3>. QED  BY <1>3, <2>1, <2>4, <3>1 DEF Sets
  <2>. QED  BY <1>1, <2>3, <2>4
<1>7. \A i \in DOMAIN r : i \notin DOMAIN q => r[i].kind = "config" /\ r[i].priority = p
  BY <1>a, <1>0
<1>8. Sets(r, pr, p, prs)
  BY <1>1, <1>5, <1>7 DEF Sets
<1>. QED  BY <1>8 DEF r, m

\* Reading the first request sets its priority, if it is a configuration.
LEMMA SetsTail ==
    ASSUME NEW q \in Seq(Requests), q # << >>, NEW pr, NEW a, NEW prs, Sets(q, pr, a, prs)
    PROVE  Sets(Tail(q), IF Head(q).kind = "config" THEN Head(q).priority ELSE pr, a, prs)
<1> DEFINE r == Tail(q)
           next == IF Head(q).kind = "config" THEN Head(q).priority ELSE pr
<1>0. /\ Head(q) = q[1] /\ Len(q) \in Nat /\ Len(q) # 0
      /\ DOMAIN q = 1 .. Len(q) /\ 1 \in DOMAIN q
      /\ Len(r) = Len(q) - 1 /\ DOMAIN r = 1 .. Len(q) - 1
      /\ \A i \in DOMAIN r : i + 1 \in DOMAIN q /\ r[i] = q[i + 1]
      /\ \A i \in DOMAIN q : i = 1 \/ (i - 1 \in DOMAIN r /\ r[i - 1] = q[i])
  BY TailAt
<1> HIDE DEF r
<1>a. ASSUME NEW i \in Nat, NEW j \in Nat, NoConfig(r, i, j) PROVE NoConfig(q, i + 1, j + 1)
  <2>1. SUFFICES ASSUME NEW k \in DOMAIN q, i + 1 < k, k < j + 1 PROVE q[k].kind # "config"
    BY DEF NoConfig
  <2>2. k \in Nat /\ k # 1 /\ i < k - 1 /\ k - 1 < j
    BY <1>0, <2>1
  <2>3. k - 1 \in DOMAIN r /\ r[k - 1] = q[k]
    BY <1>0, <2>2
  <2>. QED  BY <1>a, <2>2, <2>3 DEF NoConfig
<1>b. \A i \in DOMAIN r : i \in Nat
  BY <1>0
<1>1. \A i \in DOMAIN r : NoConfig(r, i, Len(r) + 1) => NoConfig(q, i + 1, Len(q) + 1)
  BY <1>0, <1>a, <1>b
<1>2. \A i, j \in DOMAIN r : NoConfig(r, i, j) => NoConfig(q, i + 1, j + 1)
  BY <1>a, <1>b
<1>3. \A j \in DOMAIN r : NoConfig(r, 0, j) => NoConfig(q, 1, j + 1)
  BY <1>a, <1>b
<1>4. NoConfig(r, 0, Len(r) + 1) => NoConfig(q, 1, Len(q) + 1)
  BY <1>0, <1>a
<1>5. ASSUME Head(q).kind # "config", NEW j \in Nat, NoConfig(q, 1, j) PROVE NoConfig(q, 0, j)
  BY <1>0, <1>5 DEF NoConfig
<1>6. NoConfig(r, 0, Len(r) + 1) => next = a
  BY <1>0, <1>4, <1>5 DEF Sets
<1>7. ASSUME NEW i \in DOMAIN r PROVE
         /\ r[i].kind = "config" /\ NoConfig(r, i, Len(r) + 1) => r[i].priority = a
         /\ r[i].kind = "operation" /\ r[i].payload # 0 =>
              /\ NoConfig(r, 0, i) => next = prs[r[i].payload]
              /\ \A j \in DOMAIN r : j < i /\ r[j].kind = "config" /\ NoConfig(r, j, i) =>
                    r[j].priority = prs[r[i].payload]
  <2>1. i + 1 \in DOMAIN q /\ r[i] = q[i + 1] /\ i + 1 \in Nat /\ 1 < i + 1
    BY <1>0
  <2>2. r[i].kind = "config" /\ NoConfig(r, i, Len(r) + 1) => r[i].priority = a
    BY <1>1, <2>1 DEF Sets
  <2>3. ASSUME r[i].kind = "operation", r[i].payload # 0, NoConfig(r, 0, i)
        PROVE  next = prs[r[i].payload]
    <3>1. NoConfig(q, 1, i + 1)
      BY <1>3, <2>3
    <3>2. CASE q[1].kind = "config"
      BY <1>0, <2>1, <2>3, <3>1, <3>2 DEF Sets
    <3>3. CASE q[1].kind # "config"
      <4>1. NoConfig(q, 0, i + 1)
        BY <1>0, <1>5, <2>1, <3>1, <3>3
      <4>. QED  BY <1>0, <2>1, <2>3, <3>3, <4>1 DEF Sets
    <3>. QED  BY <3>2, <3>3
  <2>4. ASSUME NEW j \in DOMAIN r, j < i, r[i].kind = "operation", r[i].payload # 0,
               r[j].kind = "config", NoConfig(r, j, i)
        PROVE  r[j].priority = prs[r[i].payload]
    <3>1. j + 1 \in DOMAIN q /\ r[j] = q[j + 1] /\ j + 1 < i + 1
      BY <1>0, <2>4
    <3>2. NoConfig(q, j + 1, i + 1)
      BY <1>2, <2>4
    <3>. QED  BY <2>1, <2>4, <3>1, <3>2 DEF Sets
  <2>. QED  BY <2>2, <2>3, <2>4
<1>8. Sets(r, next, a, prs)
  BY <1>6, <1>7 DEF Sets
<1>. QED  BY <1>8 DEF r

\* A submission writes the payload of its own operation, or nothing.
LEMMA SubmissionWrites ==
    ASSUME Types, OneAtATime, NEW op \in Ops, SubmitOperation(op)
    PROVE  /\ op_priority' = [ op_priority EXCEPT ![op] = asked ]
           /\ \/ c2s' = c2s
              \/ c2s' = Append(c2s, Operation(op)) /\ receiver' = op /\ reports' = reports
           /\ Operation(op) \in Requests /\ Operation(op).kind = "operation"
           /\ Operation(op).payload = op
           /\ UNCHANGED << fsm, promise, priority, observed, executed, sup, write_lost >>
<1>1. held = op
  BY DEF SubmitOperation, OneAtATime
<1>2. op \in Payloads
  BY Constants
<1>. QED  BY <1>1, <1>2, RequestFields
     DEF SubmitOperation, ClientPost, NewReceiver, fsmVars, linkVars

LEMMA PriorityUnderWayStep ==
    ASSUME Types, OneAtATime, Creation, OnlySubmitted, PriorityUnderWay, Next
    PROVE  PriorityUnderWay'
<1> USE DEF PriorityUnderWay
<1>0. c2s \in Seq(Requests)
  BY DEF Types
<1>1. ASSUME UNCHANGED << asked, priority, op_priority, sup, fsm, c2s >> PROVE PriorityUnderWay'
  BY <1>1
<1>2. ASSUME UNCHANGED << asked, priority, op_priority, sup, fsm >>,
             NEW m \in Requests, m.kind \in {"create", "end"}, c2s' \in {c2s, Append(c2s, m)}
      PROVE  PriorityUnderWay'
  BY <1>0, <1>2, SetsAppend
<1>3. CASE SubmitCreation
  <2>1. UNCHANGED << asked, priority, op_priority, sup, fsm >> /\ c2s' \in {c2s, Append(c2s, Create)}
    BY <1>3 DEF SubmitCreation, ClientPost, linkVars, fsmVars
  <2>. QED  BY <1>2, <2>1, RequestFields
<1>4. CASE Drop
  <2>1. UNCHANGED << asked, priority, op_priority, sup, fsm >>
        /\ c2s' \in {c2s, Append(c2s, End("none"))}
    BY <1>4 DEF Drop, linkVars, fsmVars, userVars
  <2>. QED  BY <1>2, <2>1, RequestFields
<1>5. ASSUME NEW p \in Priorities, SetPriority(p) PROVE PriorityUnderWay'
  <2>1. PICK ok \in BOOLEAN : ClientPost(Config(p), ok) /\ asked' = IF ok THEN p ELSE asked
    BY <1>5 DEF SetPriority
  <2>2. p \in Nat /\ UNCHANGED << priority, op_priority, sup, fsm >>
    BY <1>5, Constants DEF SetPriority, linkVars, fsmVars
  <2>3. CASE ok /\ sup
    BY <1>0, <2>1, <2>2, <2>3, SetsConfig DEF ClientPost
  <2>4. CASE ok /\ ~sup
    BY <2>2, <2>4
  <2>5. CASE ~ok
    BY <2>1, <2>2, <2>5 DEF ClientPost
  <2>. QED  BY <2>3, <2>4, <2>5
<1>6. ASSUME NEW op \in Ops, SubmitOperation(op) PROVE PriorityUnderWay'
  <2>1. /\ op \notin submitted /\ op_priority' = [ op_priority EXCEPT ![op] = asked ]
        /\ c2s' \in {c2s, Append(c2s, Operation(op))}
        /\ Operation(op) \in Requests /\ Operation(op).kind = "operation"
        /\ Operation(op).payload = op
        /\ UNCHANGED << asked, fsm, priority, sup >>
    BY <1>6, Submission, SubmissionWrites
  <2>2. op_priority'[op] = asked /\ \A o \in Ops \ {op} : op_priority'[o] = op_priority[o]
    BY <2>1 DEF Types
  <2>3. \A i \in DOMAIN c2s : c2s[i].kind = "operation" /\ c2s[i].payload # 0 =>
            op_priority'[c2s[i].payload] = op_priority[c2s[i].payload]
    BY <2>1, <2>2 DEF OnlySubmitted, Types
  <2>4. Sets(c2s, priority, asked, op_priority) => Sets(c2s, priority, asked, op_priority')
    BY <2>3 DEF Sets
  <2>5. Sets(c2s, priority, asked, op_priority') =>
            Sets(Append(c2s, Operation(op)), priority, asked, op_priority')
    BY <1>0, <2>1, <2>2, SetsAppend
  <2>. QED  BY <2>1, <2>4, <2>5
<1>7. CASE \/ \E op \in Ops : Start(op)
           \/ \E op \in Ops : SubmitReceive(op)
           \/ ClientInput \/ ClientEnd \/ ClientDisconnected \/ PromiseResolves \/ NodeMessage
  <2>1. UNCHANGED << asked, priority, op_priority, sup, fsm, c2s >>
    BY <1>7 DEF Start, SubmitReceive, ClientInput, ClientEnd, ClientDisconnected, PromiseResolves,
       NodeMessage, linkVars, fsmVars, userVars
  <2>. QED  BY <1>1, <2>1
<1>8. ASSUME c2s # << >>, c2s' = Tail(c2s), UNCHANGED << asked, op_priority, sup >>,
             fsm' # "released" => fsm # "released",
             fsm' # "released" =>
                priority' = IF Head(c2s).kind = "config" THEN Head(c2s).priority ELSE priority
      PROVE  PriorityUnderWay'
  <2> DEFINE next == IF Head(c2s).kind = "config" THEN Head(c2s).priority ELSE priority
  <2>1. Sets(c2s, priority, asked, op_priority) => Sets(Tail(c2s), next, asked, op_priority)
    BY <1>0, <1>8, SetsTail
  <2>. QED  BY <1>8, <2>1
<1>9. CASE ServiceCreate \/ ServiceCall \/ ServicePublish \/ ServiceEnd
  <2>1. c2s # << >> /\ c2s' = Tail(c2s) /\ Head(c2s).kind # "config" /\ priority' = priority
        /\ sup' = sup
    BY <1>9 DEF ServiceCreate, ServiceCall, ServicePublish, ServiceEnd, ServiceReads, linkVars
  <2>2. fsm' # "released" => fsm # "released"
    BY <1>9 DEF ServiceCreate, ServiceCall, ServicePublish, ServiceEnd, Released
  <2>. QED  BY <1>8, <1>9, <2>1, <2>2, ServiceQuiet
<1>10. CASE ServiceConfig
  <2>1. c2s # << >> /\ c2s' = Tail(c2s) /\ Head(c2s).kind = "config" /\ UNCHANGED << fsm, sup >>
        /\ priority' = IF fsm = "ready" THEN Head(c2s).priority ELSE priority
    BY <1>10 DEF ServiceConfig, ServiceReads, Applied, linkVars
  <2>2. fsm # "none"
    BY <1>0, <2>1, TailAt DEF Creation
  <2>3. fsm # "released" => fsm = "ready"
    BY <2>2 DEF Types
  <2>. QED  BY <1>8, <1>10, <2>1, <2>3, ServiceQuiet
<1>11. CASE ServiceDisconnected
  BY <1>11 DEF ServiceDisconnected
<1>. QED  BY <1>3, <1>4, <1>5, <1>6, <1>7, <1>9, <1>10, <1>11, Cases

\* What is given to Cyphal is the operation that is read.
LEMMA Executes ==
    ASSUME Types, Next
    PROVE  \/ executed' = executed
           \/ /\ c2s # << >> /\ c2s' = Tail(c2s) /\ Asks(1) /\ sup /\ fsm = "ready"
              /\ executed' = Append(executed, [ of |-> c2s[1].payload, priority |-> priority ])
              /\ UNCHANGED << submitted, op_priority >>
<1>1. CASE ServiceCall \/ ServicePublish
  <2>1. ServiceReads("operation") /\ (executed' = executed \/ (fsm = "ready" /\ Execute(Head(c2s).payload)))
    BY <1>1 DEF ServiceCall, ServicePublish
  <2>2. c2s # << >> /\ c2s' = Tail(c2s) /\ Head(c2s) = c2s[1] /\ sup /\ c2s[1].kind = "operation"
    BY <2>1, ServiceReadsOne
  <2>. QED  BY <1>1, <2>1, <2>2, ServiceQuiet DEF Execute, Asks
<1>2. CASE \/ SubmitCreation \/ Drop \/ \E p \in Priorities : SetPriority(p)
           \/ \E op \in Ops : Start(op)
           \/ \E op \in Ops : SubmitOperation(op)
           \/ \E op \in Ops : SubmitReceive(op)
           \/ ClientInput \/ ClientEnd \/ ClientDisconnected
  BY <1>2 DEF SubmitCreation, Drop, SetPriority, Start, SubmitOperation, SubmitReceive, ClientInput,
     ClientEnd, ClientDisconnected, fsmVars
<1>3. CASE ServiceCreate \/ ServiceConfig \/ ServiceEnd \/ ServiceDisconnected \/ PromiseResolves
             \/ NodeMessage
  BY <1>3 DEF ServiceCreate, ServiceConfig, ServiceEnd, ServiceDisconnected, PromiseResolves, NodeMessage
<1>. QED  BY <1>1, <1>2, <1>3, Cases

\* How the queue to the daemon changes.
LEMMA QueueStep ==
    ASSUME Types, OneAtATime, Next
    PROVE  /\ submitted \subseteq submitted'
           /\ \/ c2s' = c2s \/ c2s' = << >> \/ (c2s # << >> /\ c2s' = Tail(c2s))
              \/ \E m \in Requests :
                   /\ c2s' = Append(c2s, m)
                   /\ \/ m.kind # "operation"
                      \/ m.kind = "operation" /\ SubmitOperation(m.payload)
                         /\ m.payload \in Ops /\ receiver' = m.payload /\ reports' = reports
<1>1. CASE \E op \in Ops : SubmitOperation(op)
  <2>1. PICK op \in Ops : SubmitOperation(op)
    BY <1>1
  <2>. QED  BY <2>1, Submission, SubmissionWrites
<1>2. CASE SubmitCreation
  <2>1. submitted' = submitted /\ c2s' \in {c2s, Append(c2s, Create)}
    BY <1>2 DEF SubmitCreation, ClientPost
  <2>. QED  BY <2>1, RequestFields
<1>3. CASE Drop
  <2>1. submitted' = submitted /\ c2s' \in {c2s, Append(c2s, End("none"))}
    BY <1>3 DEF Drop, userVars
  <2>. QED  BY <2>1, RequestFields
<1>4. ASSUME NEW p \in Priorities, SetPriority(p)
      PROVE  submitted' = submitted
             /\ (c2s' = c2s \/ \E m \in Requests : c2s' = Append(c2s, m) /\ m.kind # "operation")
  <2>1. submitted' = submitted /\ c2s' \in {c2s, Append(c2s, Config(p))} /\ p \in Nat
    BY <1>4, Constants DEF SetPriority, ClientPost
  <2>. QED  BY <2>1, RequestFields
<1>5. CASE \/ \E op \in Ops : Start(op)
           \/ \E op \in Ops : SubmitReceive(op)
           \/ ClientInput \/ ClientEnd \/ ClientDisconnected
  BY <1>5 DEF Start, SubmitReceive, ClientInput, ClientEnd, ClientDisconnected
<1>6. CASE PromiseResolves \/ NodeMessage \/ ServiceDisconnected
  BY <1>6 DEF PromiseResolves, NodeMessage, ServiceDisconnected, userVars
<1>7. CASE ServiceCreate \/ ServiceConfig \/ ServiceCall \/ ServicePublish \/ ServiceEnd
  BY <1>7 DEF ServiceCreate, ServiceConfig, ServiceCall, ServicePublish, ServiceEnd, ServiceReads,
     userVars
<1>. QED  BY <1>1, <1>2, <1>3, <1>4, <1>5, <1>6, <1>7, Cases

LEMMA OnlySubmittedStep ==
    ASSUME Types, OneAtATime, OnlySubmitted, Next
    PROVE  OnlySubmitted'
<1>0. c2s \in Seq(Requests) /\ executed \in Seq([ of : Payloads, priority : Nat ])
      /\ submitted \subseteq submitted'
  BY QueueStep DEF Types
<1>1. ASSUME NEW i \in DOMAIN c2s', c2s'[i].kind = "operation", c2s'[i].payload # 0
      PROVE  c2s'[i].payload \in submitted'
  <2>1. CASE c2s' = c2s
    BY <1>0, <1>1, <2>1 DEF OnlySubmitted
  <2>2. CASE c2s' = << >>
    BY <1>1, <2>2
  <2>3. CASE c2s # << >> /\ c2s' = Tail(c2s)
    BY <1>0, <1>1, <2>3, TailAt DEF OnlySubmitted
  <2>4. ASSUME NEW m \in Requests, c2s' = Append(c2s, m),
               m.kind # "operation" \/ (SubmitOperation(m.payload) /\ m.payload \in Ops)
        PROVE  c2s'[i].payload \in submitted'
    <3>1. m.kind = "operation" => m.payload \in submitted'
      BY <2>4, Submission
    <3>2. (i \in DOMAIN c2s /\ c2s'[i] = c2s[i]) \/ c2s'[i] = m
      BY <1>0, <1>1, <2>4, AppendAt
    <3>. QED  BY <1>0, <1>1, <3>1, <3>2 DEF OnlySubmitted
  <2>. QED  BY <2>1, <2>2, <2>3, <2>4, QueueStep
<1>2. ASSUME NEW i \in DOMAIN executed', executed'[i].of # 0
      PROVE  executed'[i].of \in submitted'
  <2>1. CASE executed' = executed
    BY <1>0, <1>2, <2>1 DEF OnlySubmitted
  <2>2. CASE /\ c2s # << >> /\ Asks(1)
             /\ executed' = Append(executed, [ of |-> c2s[1].payload, priority |-> priority ])
    <3> DEFINE x == [ of |-> c2s[1].payload, priority |-> priority ]
    <3>1. 1 \in DOMAIN c2s /\ c2s[1] \in Requests
      BY <1>0, <2>2, TailAt
    <3>2. x \in [ of : Payloads, priority : Nat ] /\ x.of = c2s[1].payload
      BY <2>2, <3>1, RequestFields DEF Asks, Types
    <3>3. (i \in DOMAIN executed /\ executed'[i] = executed[i]) \/ executed'[i] = x
      BY <1>0, <1>2, <2>2, <3>2, AppendAt
    <3>. QED  BY <1>0, <1>2, <2>2, <3>1, <3>2, <3>3 DEF OnlySubmitted, Asks
  <2>. QED  BY <2>1, <2>2, Executes
<1>. QED  BY <1>1, <1>2 DEF OnlySubmitted

\* The types of the module follow from those of the invariant.
LEMMA TypesImply == Types => TypeOK
<1> SUFFICES ASSUME Types PROVE TypeOK
  OBVIOUS
<1>1. ASSUME NEW op \in Ops, NEW i \in 1 .. 3, i <= Len(reports[op])
      PROVE  reports[op][i].is \in {"success", "failure", "refused", "completed"}
  <2>1. reports[op] \in Seq(Reports)
    BY DEF Types
  <2>2. reports[op][i] \in Reports
    BY <1>1, <2>1
  <2>. QED  BY <2>2, ReportFields
<1>. QED  BY <1>1 DEF Types, TypeOK

LEMMA PriorityInForceStep ==
    ASSUME Types, OneAtATime, PriorityUnderWay, OnlySubmitted, PriorityInForce, Next, Types'
    PROVE  PriorityInForce'
<1>0. c2s \in Seq(Requests) /\ executed \in Seq([ of : Payloads, priority : Nat ])
  BY DEF Types
<1>a. TypeOK'
  BY TypesImply, PTL
<1>1. \A o \in submitted : op_priority'[o] = op_priority[o]
  <2>1. CASE \E op \in Ops : SubmitOperation(op)
    <3>1. PICK op \in Ops : SubmitOperation(op)
      BY <2>1
    <3>2. op \notin submitted /\ op_priority' = [ op_priority EXCEPT ![op] = asked ]
      BY <3>1, Submission, SubmissionWrites
    <3>. QED  BY <3>2 DEF Types
  <2>2. CASE \/ SubmitCreation \/ Drop \/ \E p \in Priorities : SetPriority(p)
             \/ \E op \in Ops : Start(op)
             \/ \E op \in Ops : SubmitReceive(op)
             \/ ClientInput \/ ClientEnd \/ ClientDisconnected
    BY <2>2 DEF SubmitCreation, Drop, SetPriority, Start, SubmitReceive, ClientInput,
       ClientEnd, ClientDisconnected, userVars
  <2>3. CASE ServiceCreate \/ ServiceConfig \/ ServiceCall \/ ServicePublish \/ ServiceEnd
             \/ ServiceDisconnected \/ PromiseResolves \/ NodeMessage
    BY <2>3, ServiceQuiet
  <2>. QED  BY <2>1, <2>2, <2>3, Cases
<1>2. \A i \in DOMAIN executed :
        executed[i].of # 0 => executed[i].priority = op_priority'[executed[i].of]
  BY <1>1 DEF PriorityInForce, OnlySubmitted
<1>3. CASE executed' = executed
  BY <1>a, <1>2, <1>3 DEF PriorityInForce
<1>4. CASE /\ c2s # << >> /\ Asks(1) /\ sup /\ fsm = "ready"
           /\ executed' = Append(executed, [ of |-> c2s[1].payload, priority |-> priority ])
           /\ UNCHANGED << submitted, op_priority >>
  <2> DEFINE x == [ of |-> c2s[1].payload, priority |-> priority ]
  <2>1. 1 \in DOMAIN c2s /\ c2s[1] \in Requests /\ \A k \in DOMAIN c2s : k \in Nat /\ k >= 1
    BY <1>0, <1>4, TailAt
  <2>2. x \in [ of : Payloads, priority : Nat ] /\ x.of = c2s[1].payload /\ x.priority = priority
    BY <1>4, <2>1, RequestFields DEF Asks, Types
  <2>3. NoConfig(c2s, 0, 1)
    BY <2>1 DEF NoConfig
  <2>4. x.of # 0 => x.priority = op_priority'[x.of]
    BY <1>4, <2>1, <2>2, <2>3 DEF PriorityUnderWay, Sets, Asks
  <2>5. \A i \in DOMAIN executed' : (i \in DOMAIN executed /\ executed'[i] = executed[i]) \/ executed'[i] = x
    BY <1>0, <1>4, <2>2, AppendAt
  <2>6. \A i \in DOMAIN executed' :
          executed'[i].of # 0 => executed'[i].priority = op_priority'[executed'[i].of]
    BY <1>2, <2>4, <2>5
  <2>. QED  BY <1>a, <2>6 DEF PriorityInForce
<1>. QED  BY <1>3, <1>4, Executes

-----------------------------------------------------------------------------
(***************************************************************************)
(* Calls and publications: one operation is under way.                     *)
(***************************************************************************)
\* Reading takes the first message away.
LEMMA TailOne ==
    ASSUME NEW S, NEW q \in Seq(S), q # << >>, NEW kind, One(q, kind)
    PROVE  /\ One(Tail(q), kind)
           /\ Head(q).kind = kind => None(Tail(q), kind)
           /\ None(q, kind) => None(Tail(q), kind)
<1>1. \A i \in DOMAIN Tail(q) : i \in Nat /\ i + 1 # 1 /\ i + 1 \in DOMAIN q /\ Tail(q)[i] = q[i + 1]
  BY TailAt
<1>2. Head(q) = q[1] /\ 1 \in DOMAIN q
  BY TailAt
<1>3. One(Tail(q), kind)
  <2>1. SUFFICES ASSUME NEW i \in DOMAIN Tail(q), NEW j \in DOMAIN Tail(q),
                        Tail(q)[i].kind = kind, Tail(q)[j].kind = kind
                 PROVE  i = j
    BY DEF One
  <2>2. i + 1 = j + 1
    BY <1>1, <2>1 DEF One
  <2>. QED  BY <1>1, <2>2
<1>4. Head(q).kind = kind => None(Tail(q), kind)
  BY <1>1, <1>2 DEF One, None
<1>. QED  BY <1>1, <1>3, <1>4 DEF None

\* Writing adds one.
LEMMA AppendOne ==
    ASSUME NEW S, NEW q \in Seq(S), NEW m \in S, NEW kind
    PROVE  /\ m.kind # kind /\ One(q, kind) => One(Append(q, m), kind)
           /\ m.kind # kind /\ None(q, kind) => None(Append(q, m), kind)
           /\ None(q, kind) => One(Append(q, m), kind)
BY AppendAt DEF One, None

LEMMA OneUnderWayStep ==
    ASSUME Types, OneAtATime, Creation, OneUnderWay, Next, service' # "subscribe", copen'
    PROVE  OneUnderWay'
<1>0. service' = service /\ copen
  BY Cases, Submission, ServiceQuiet, ClientCalls
     DEF SubmitCreation, Drop, SetPriority, Start, ClientInput, ClientEnd,
         ClientDisconnected, ClientCompleted, userVars, objectVars
<1>1. /\ \A i \in DOMAIN c2s : Asks(i) => Awaited(c2s[i].payload)
      /\ \A i \in DOMAIN s2c : Answers(i) => Awaited(s2c[i].of)
      /\ promise # NoPromise => Awaited(promise)
      /\ One(c2s, "operation") /\ One(s2c, "answer")
      /\ None(c2s, "operation") \/ None(s2c, "answer")
      /\ promise # NoPromise => None(c2s, "operation") /\ None(s2c, "answer")
      /\ c2s \in Seq(Requests) /\ s2c \in Seq(Replies) /\ cup
  BY <1>0 DEF OneUnderWay, Types, Creation
\* Nothing is under way, or only what is written in this step.
<1>2. ASSUME None(c2s', "operation"), None(s2c', "answer"), promise' = NoPromise
      PROVE  OneUnderWay'
  BY <1>2 DEF OneUnderWay, None, One, Asks, Answers
\* Nothing that counts changes.
<1>3. ASSUME UNCHANGED << receiver, reports >>, promise' \in {promise, NoPromise},
             \/ c2s' = c2s \/ (c2s # << >> /\ c2s' = Tail(c2s)) \/ c2s' = << >>
             \/ \E m \in Requests : c2s' = Append(c2s, m) /\ m.kind # "operation",
             \/ s2c' = s2c \/ (s2c # << >> /\ s2c' = Tail(s2c))
             \/ \E m \in Replies : s2c' = Append(s2c, m) /\ m.kind # "answer"
      PROVE  OneUnderWay'
  <2>1. /\ One(c2s', "operation") /\ (None(c2s, "operation") => None(c2s', "operation"))
        /\ \A i \in DOMAIN c2s' : c2s'[i].kind = "operation" =>
              \E j \in DOMAIN c2s : c2s[j].kind = "operation" /\ c2s'[i] = c2s[j]
    <3>1. CASE c2s' = c2s
      BY <1>1, <3>1
    <3>2. CASE c2s # << >> /\ c2s' = Tail(c2s)
      BY <1>1, <3>2, TailOne, TailAt
    <3>3. CASE c2s' = << >>
      BY <1>1, <3>3 DEF One, None
    <3>4. CASE \E m \in Requests : c2s' = Append(c2s, m) /\ m.kind # "operation"
      BY <1>1, <3>4, AppendOne, AppendAt
    <3>. QED  BY <1>3, <3>1, <3>2, <3>3, <3>4
  <2>2. /\ One(s2c', "answer") /\ (None(s2c, "answer") => None(s2c', "answer"))
        /\ \A i \in DOMAIN s2c' : s2c'[i].kind = "answer" =>
              \E j \in DOMAIN s2c : s2c[j].kind = "answer" /\ s2c'[i] = s2c[j]
    <3>1. CASE s2c' = s2c
      BY <1>1, <3>1
    <3>2. CASE s2c # << >> /\ s2c' = Tail(s2c)
      BY <1>1, <3>2, TailOne, TailAt
    <3>4. CASE \E m \in Replies : s2c' = Append(s2c, m) /\ m.kind # "answer"
      BY <1>1, <3>4, AppendOne, AppendAt
    <3>. QED  BY <1>3, <3>1, <3>2, <3>4
  <2>. QED  BY <1>1, <1>3, <2>1, <2>2 DEF OneUnderWay, Asks, Answers, Awaited
<1>4. CASE SubmitCreation
  <2>1. UNCHANGED << receiver, reports, promise, s2c >> /\ c2s' \in {c2s, Append(c2s, Create)}
    BY <1>4 DEF SubmitCreation, ClientPost, fsmVars
  <2>. QED  BY <1>3, <2>1, RequestFields
<1>5. CASE Drop
  BY <1>5 DEF Drop
<1>6. ASSUME NEW p \in Priorities, SetPriority(p) PROVE OneUnderWay'
  <2>1. UNCHANGED << receiver, reports, promise, s2c >> /\ c2s' \in {c2s, Append(c2s, Config(p))}
        /\ p \in Nat
    BY <1>6, Constants DEF SetPriority, ClientPost, fsmVars, objectVars
  <2>. QED  BY <1>3, <2>1, RequestFields
<1>7. CASE \E op \in Ops : Start(op)
  BY <1>3, <1>7 DEF Start, fsmVars
<1>8. ASSUME NEW op \in Ops, SubmitOperation(op) PROVE OneUnderWay'
  <2>1. /\ op \in started \ submitted /\ UNCHANGED << s2c, promise >>
        /\ \/ c2s' = c2s
           \/ c2s' = Append(c2s, Operation(op)) /\ receiver' = op /\ reports' = reports
        /\ Operation(op) \in Requests /\ Operation(op).kind = "operation"
        /\ Operation(op).payload = op
    BY <1>8, Submission, SubmissionWrites
  <2>2. Pending(op)
    BY <2>1 DEF OneAtATime, Pending
  <2>3. \A n : ~Awaited(n)
    <3>1. SUFFICES ASSUME NEW n, Awaited(n) PROVE FALSE
      OBVIOUS
    <3>2. n \in Ops /\ n \in submitted /\ Pending(n)
      BY <3>1 DEF Awaited, OneAtATime, Pending, Types
    <3>. QED  BY <2>1, <2>2, <3>2 DEF OneAtATime
  <2>4. None(c2s, "operation") /\ None(s2c, "answer") /\ promise = NoPromise
    BY <1>1, <2>3 DEF None, Asks, Answers
  <2>5. CASE c2s' = c2s
    BY <1>2, <2>1, <2>4, <2>5
  <2>6. CASE c2s' = Append(c2s, Operation(op)) /\ receiver' = op /\ reports' = reports
    <3>1. One(c2s', "operation")
      BY <1>1, <2>1, <2>4, <2>6, AppendOne
    <3>2. \A i \in DOMAIN c2s' : c2s'[i].kind = "operation" => c2s'[i].payload = op
      BY <1>1, <2>1, <2>4, <2>6, AppendAt DEF None
    <3>3. op # 0 /\ reports'[op] = << >>
      BY <2>2, <2>6, Constants DEF Pending
    <3>4. One(s2c', "answer") /\ None(s2c', "answer") /\ promise' = NoPromise
      BY <1>1, <2>1, <2>4
    <3>. QED  BY <2>6, <3>1, <3>2, <3>3, <3>4 DEF OneUnderWay, Asks, Answers, Awaited, None
  <2>. QED  BY <2>1, <2>5, <2>6
<1>9. CASE \E op \in Ops : SubmitReceive(op)
  BY <1>0, <1>9 DEF SubmitReceive
<1>10. CASE ClientInput
  <2>1. s2c # << >> /\ s2c' = Tail(s2c) /\ UNCHANGED << c2s, promise >>
    BY <1>10 DEF ClientInput, ClientReads, fsmVars
  <2>2. CASE Head(s2c).kind = "answer"
    <3>1. Answers(1) /\ 1 \in DOMAIN s2c
      BY <1>1, <2>1, <2>2, TailAt DEF Answers
    <3>2. None(s2c', "answer") /\ None(c2s', "operation") /\ promise' = NoPromise
      BY <1>1, <2>1, <2>2, <3>1, TailOne DEF None, Answers
    <3>. QED  BY <1>2, <3>2
  <2>3. CASE Head(s2c).kind # "answer"
    BY <1>3, <1>10, <2>1, <2>3 DEF ClientInput, AfterNotify
  <2>. QED  BY <2>2, <2>3
<1>11. CASE ClientEnd \/ ClientDisconnected
  BY <1>11 DEF ClientEnd, ClientDisconnected, ClientCompleted
<1>12. CASE ServiceCreate
  <2>1. c2s # << >> /\ c2s' = Tail(c2s)
    BY <1>12 DEF ServiceCreate, ServiceReads
  <2>2. promise' \in {promise, NoPromise} /\ s2c' \in {s2c, Append(s2c, Empty), Append(s2c, End("Other"))}
    BY <1>12 DEF ServiceCreate, Created, CreationFails, Complete, Reply
  <2>. QED  BY <1>3, <1>12, <2>1, <2>2, ServiceQuiet, ReplyFields
<1>13. CASE ServiceConfig \/ ServiceEnd
  <2>1. c2s # << >> /\ c2s' = Tail(c2s) /\ s2c' = s2c /\ promise' \in {promise, NoPromise}
    BY <1>13 DEF ServiceConfig, ServiceEnd, ServiceReads, Released
  <2>. QED  BY <1>3, <1>13, <2>1, ServiceQuiet
<1>14. CASE ServiceDisconnected
  <2>1. c2s' = << >> /\ s2c' = s2c /\ promise' = NoPromise
    BY <1>14 DEF ServiceDisconnected, Released
  <2>. QED  BY <1>3, <1>14, <2>1, ServiceQuiet
\* The answer to the operation that was under way is written.
<1>15. ASSUME NEW n \in Nat, NEW ok \in BOOLEAN, Awaited(n), UNCHANGED << receiver, reports >>,
              None(s2c, "answer"), None(c2s', "operation"), promise' = NoPromise,
              s2c' = Append(s2c, Answer(n, ok))
       PROVE  OneUnderWay'
  <2>1. Answer(n, ok) \in Replies /\ Answer(n, ok).of = n
    BY ReplyFields
  <2>2. One(s2c', "answer")
    BY <1>1, <1>15, <2>1, AppendOne
  <2>3. \A i \in DOMAIN s2c' : s2c'[i].kind = "answer" => s2c'[i].of = n
    BY <1>1, <1>15, <2>1, AppendAt DEF None
  <2>4. One(c2s', "operation")
    BY <1>15 DEF One, None
  <2>. QED  BY <1>15, <2>2, <2>3, <2>4 DEF OneUnderWay, Asks, Answers, Awaited, None
<1>16. CASE ServiceCall \/ ServicePublish
  <2> DEFINE n == c2s[1].payload
  <2>1. /\ c2s # << >> /\ c2s' = Tail(c2s) /\ Head(c2s).kind = "operation" /\ Head(c2s) = c2s[1]
        /\ Head(c2s) \in Requests /\ 1 \in DOMAIN c2s
    BY <1>1, <1>16, TailAt DEF ServiceCall, ServicePublish, ServiceReads
  <2>2. /\ Awaited(n) /\ None(c2s', "operation") /\ None(s2c, "answer") /\ promise = NoPromise
        /\ UNCHANGED << receiver, reports >>
    <3>1. Awaited(n)
      BY <1>1, <2>1 DEF Asks
    <3>2. None(c2s', "operation")
      BY <1>1, <2>1, TailOne
    <3>3. None(s2c, "answer") /\ promise = NoPromise
      BY <1>1, <2>1 DEF None
    <3>. QED  BY <1>16, <3>1, <3>2, <3>3, ServiceQuiet
  <2>3. n \in Nat
    BY <2>1, RequestFields, Constants
  <2>4. \/ s2c' = s2c /\ promise' \in {promise, n}
        \/ promise' = promise /\ \E ok \in BOOLEAN : s2c' = Append(s2c, Answer(n, ok))
    BY <1>16, <2>1 DEF ServiceCall, ServicePublish, ReplyRefusal, Reply
  <2>5. CASE s2c' = s2c /\ promise' = promise
    BY <1>2, <2>2, <2>5
  <2>6. CASE s2c' = s2c /\ promise' = n
    BY <1>1, <2>2, <2>6 DEF OneUnderWay, Asks, Answers, Awaited, None, One
  <2>7. CASE promise' = promise /\ \E ok \in BOOLEAN : s2c' = Append(s2c, Answer(n, ok))
    BY <1>15, <2>2, <2>3, <2>7
  <2>. QED  BY <2>4, <2>5, <2>6, <2>7
<1>17. CASE PromiseResolves
  <2>1. promise # NoPromise /\ promise' = NoPromise /\ c2s' = c2s /\ UNCHANGED << receiver, reports >>
    BY <1>17, ServiceQuiet DEF PromiseResolves
  <2>2. promise \in Nat
    BY Constants DEF Types
  <2>3. s2c' = s2c \/ \E ok \in BOOLEAN : s2c' = Append(s2c, Answer(promise, ok))
    BY <1>17 DEF PromiseResolves, Reply
  <2>. QED  BY <1>1, <1>2, <1>15, <2>1, <2>2, <2>3
<1>18. CASE NodeMessage
  BY <1>0, <1>18 DEF NodeMessage
<1>. QED  BY <1>4, <1>5, <1>6, <1>7, <1>8, <1>9, <1>10, <1>11, <1>12, <1>13, <1>14, <1>16, <1>17,
     <1>18, Cases

LEMMA OwnReportsStep ==
    ASSUME Types, OneAtATime, OneUnderWay, OwnReports, Next
    PROVE  OwnReports'
<1>0. /\ reports \in [ Ops -> Seq(Reports) ] /\ receiver \in 0 .. MaxOps
      /\ receiver # 0 => receiver \in Ops
  BY Constants DEF Types
<1>1. ASSUME UNCHANGED << service, reports >>, copen' => copen PROVE OwnReports'
  BY <1>1 DEF OwnReports
\* One more report of an operation.
<1>2. ASSUME NEW op \in Ops, NEW r \in Reports, Call(op, r), service' = service,
             r.is # "completed" => service = "subscribe" \/ (reports[op] = << >> /\ r.of = op),
             r.is = "completed" => copen /\ ~copen',
             copen' => copen
      PROVE  OwnReports'
  <2>1. reports'[op] = Append(reports[op], r) /\ \A o \in Ops \ {op} : reports'[o] = reports[o]
    BY <1>0, <1>2, Called
  <2>2. /\ Len(reports'[op]) = Len(reports[op]) + 1 /\ Len(reports[op]) \in Nat
        /\ DOMAIN reports[op] = 1 .. Len(reports[op])
        /\ DOMAIN reports'[op] = DOMAIN reports[op] \cup {Len(reports[op]) + 1}
        /\ \A i \in DOMAIN reports[op] : reports'[op][i] = reports[op][i]
        /\ reports'[op][Len(reports[op]) + 1] = r
    BY <1>0, <2>1, AppendAt
  <2>3. ASSUME service # "subscribe", NEW i \in DOMAIN reports'[op]
        PROVE  IF reports'[op][i].is = "completed" THEN i = Len(reports'[op])
               ELSE i = 1 /\ reports'[op][i].of = op
    <3>1. CASE i \in DOMAIN reports[op]
      <4>1. copen
        BY <1>2, <2>2, <2>3, <3>1
      <4>. QED  BY <2>2, <2>3, <3>1, <4>1 DEF OwnReports
    <3>2. CASE i = Len(reports[op]) + 1
      BY <1>2, <2>2, <2>3, <3>2
    <3>. QED  BY <2>2, <2>3, <3>1, <3>2
  <2>4. ASSUME copen', NEW i \in DOMAIN reports'[op] PROVE reports'[op][i].is # "completed"
    BY <1>2, <2>2, <2>4 DEF OwnReports
  <2>5. service # "subscribe" => \A o \in Ops : \A i \in DOMAIN reports'[o] :
            IF reports'[o][i].is = "completed" THEN i = Len(reports'[o])
            ELSE i = 1 /\ reports'[o][i].of = o
    <3>1. SUFFICES ASSUME service # "subscribe", NEW o \in Ops PROVE \A i \in DOMAIN reports'[o] :
            IF reports'[o][i].is = "completed" THEN i = Len(reports'[o])
            ELSE i = 1 /\ reports'[o][i].of = o
      OBVIOUS
    <3>2. CASE o = op
      BY <2>3, <3>1, <3>2
    <3>3. CASE o # op
      BY <2>1, <3>1, <3>3 DEF OwnReports
    <3>. QED  BY <3>2, <3>3
  <2>6. copen' => \A o \in Ops : \A i \in DOMAIN reports'[o] : reports'[o][i].is # "completed"
    <3>1. SUFFICES ASSUME copen', NEW o \in Ops
                   PROVE  \A i \in DOMAIN reports'[o] : reports'[o][i].is # "completed"
      OBVIOUS
    <3>2. CASE o = op
      BY <2>4, <3>1, <3>2
    <3>3. CASE o # op
      BY <1>2, <2>1, <3>1, <3>3 DEF OwnReports
    <3>. QED  BY <3>2, <3>3
  <2>. QED  BY <1>2, <2>5, <2>6 DEF OwnReports
<1>3. ASSUME NEW op \in Ops, SubmitOperation(op) \/ SubmitReceive(op) PROVE OwnReports'
  <2>1. /\ UNCHANGED << service, copen >> /\ op \notin submitted
        /\ reports' = reports \/ Call(op, Report("refused", op))
    BY <1>3, Submission
  <2>2. reports[op] = << >>
    BY <2>1 DEF OneAtATime
  <2>3. Report("refused", op) \in Reports /\ Report("refused", op).is = "refused"
        /\ Report("refused", op).of = op
    BY ReportFields, Constants
  <2>. QED  BY <1>1, <1>2, <2>1, <2>2, <2>3
<1>4. CASE ClientInput
  <2> DEFINE m == Head(s2c)
             is == IF m.ok THEN "success" ELSE "failure"
             r == Report(is, m.of)
  <2>1. UNCHANGED << service, copen >> /\ m \in Replies /\ 1 \in DOMAIN s2c /\ m = s2c[1]
    <3>1. s2c # << >>
      BY <1>4 DEF ClientInput, ClientReads
    <3>. QED  BY <1>4, <3>1, TailAt DEF ClientInput, Types
  <2>2. CASE copen /\ stage = "open" /\ m.kind = "answer" /\ receiver # 0
    <3>1. Call(receiver, r) /\ receiver \in Ops
      BY <1>0, <1>4, <2>2 DEF ClientInput
    <3>2. r \in Reports /\ r.is # "completed" /\ r.of = m.of
      BY <2>1, <2>2, ReplyFields, ReportFields
    <3>3. service = "subscribe" \/ (reports[receiver] = << >> /\ m.of = receiver)
      BY <2>1, <2>2 DEF OneUnderWay, Answers, Awaited
    <3>4. PICK op \in Ops : op = receiver
      BY <3>1
    <3>. QED  BY <1>2, <2>1, <3>1, <3>2, <3>3, <3>4
  <2>3. CASE ~(copen /\ stage = "open" /\ m.kind = "answer" /\ receiver # 0)
    BY <1>1, <1>4, <2>1, <2>3 DEF ClientInput
  <2>. QED  BY <2>2, <2>3
<1>5. CASE ClientEnd \/ ClientDisconnected
  <2>1. /\ service' = service /\ copen' = FALSE
        /\ \/ UNCHANGED reports
           \/ copen /\ receiver # 0 /\ Call(receiver, Report("completed", 0))
    BY <1>5 DEF ClientEnd, ClientDisconnected, ClientCompleted
  <2>2. Report("completed", 0) \in Reports /\ Report("completed", 0).is = "completed"
    BY ReportFields
  <2>. QED  BY <1>0, <1>1, <1>2, <2>1, <2>2
<1>6. CASE \/ SubmitCreation \/ Drop \/ \E p \in Priorities : SetPriority(p)
           \/ \E op \in Ops : Start(op)
  BY <1>1, <1>6 DEF SubmitCreation, Drop, SetPriority, Start, userVars, objectVars
<1>7. CASE ServiceCreate \/ ServiceConfig \/ ServiceCall \/ ServicePublish \/ ServiceEnd
             \/ ServiceDisconnected \/ PromiseResolves \/ NodeMessage
  BY <1>1, <1>7, ServiceQuiet
<1>. QED  BY <1>3, <1>4, <1>5, <1>6, <1>7, Cases

-----------------------------------------------------------------------------
(***************************************************************************)
(* Subscriptions: the messages that operations receive.                    *)
(***************************************************************************)
\* Reading keeps the answers in order, and leaves those after the first.
LEMMA TailForwarded ==
    ASSUME NEW q \in Seq(Replies), q # << >>, Rising(q)
    PROVE  /\ Rising(Tail(q))
           /\ Head(q).kind = "answer" =>
                \A i \in DOMAIN Tail(q) : Tail(q)[i].kind = "answer" => Head(q).of < Tail(q)[i].of
           /\ \A n : HasAnswer(q, n) => HasAnswer(Tail(q), n)
                                        \/ (Head(q).kind = "answer" /\ Head(q).of = n)
<1> DEFINE r == Tail(q)
<1>0. /\ Head(q) = q[1] /\ 1 \in DOMAIN q /\ \A i \in DOMAIN q : i \in Nat /\ q[i] \in Replies
      /\ \A i \in DOMAIN r : i \in Nat /\ 1 < i + 1 /\ i + 1 \in DOMAIN q /\ r[i] = q[i + 1]
      /\ \A i \in DOMAIN q : i = 1 \/ (i - 1 \in DOMAIN r /\ r[i - 1] = q[i])
  BY TailAt
<1>a. \A m \in Replies : m.kind = "answer" => m.of \in Nat
  BY ReplyFields
<1> HIDE DEF r
<1>1. Rising(r)
  <2>1. SUFFICES ASSUME NEW i \in DOMAIN r, NEW j \in DOMAIN r, r[i].kind = "answer",
                        r[j].kind = "answer", i < j
                 PROVE  r[i].of < r[j].of
    BY DEF Rising
  <2>2. i + 1 < j + 1 /\ i + 1 \in DOMAIN q /\ j + 1 \in DOMAIN q /\ r[i] = q[i + 1] /\ r[j] = q[j + 1]
    BY <1>0, <2>1
  <2>. QED  BY <2>1, <2>2 DEF Rising
<1>2. Head(q).kind = "answer" => \A i \in DOMAIN r : r[i].kind = "answer" => Head(q).of < r[i].of
  BY <1>0 DEF Rising
<1>3. \A n : HasAnswer(q, n) => HasAnswer(r, n) \/ (Head(q).kind = "answer" /\ Head(q).of = n)
  BY <1>0 DEF HasAnswer
<1>. QED  BY <1>1, <1>2, <1>3 DEF r

\* Writing something else than an answer changes nothing.
LEMMA AppendOther ==
    ASSUME NEW q \in Seq(Replies), NEW m \in Replies, m.kind # "answer"
    PROVE  /\ Rising(q) => Rising(Append(q, m))
           /\ \A n : HasAnswer(q, n) => HasAnswer(Append(q, m), n)
           /\ \A i \in DOMAIN Append(q, m) : Append(q, m)[i].kind = "answer" =>
                i \in DOMAIN q /\ Append(q, m)[i] = q[i]
<1> DEFINE r == Append(q, m)
<1>0. /\ DOMAIN r = DOMAIN q \cup {Len(q) + 1}
      /\ \A i \in DOMAIN q : r[i] = q[i]
      /\ r[Len(q) + 1] = m
  BY AppendAt
<1> HIDE DEF r
<1>1. \A i \in DOMAIN r : r[i].kind = "answer" => i \in DOMAIN q /\ r[i] = q[i]
  BY <1>0
<1>2. Rising(q) => Rising(r)
  BY <1>1 DEF Rising
<1>3. \A n : HasAnswer(q, n) => HasAnswer(r, n)
  BY <1>0 DEF HasAnswer
<1>. QED  BY <1>1, <1>2, <1>3 DEF r

\* Forwarding the next message.
LEMMA AppendNext ==
    ASSUME NEW q \in Seq(Replies), NEW n \in Nat, Rising(q),
           \A i \in DOMAIN q : q[i].kind = "answer" => q[i].of <= n
    PROVE  /\ Append(q, Answer(n + 1, TRUE)) \in Seq(Replies)
           /\ Rising(Append(q, Answer(n + 1, TRUE)))
           /\ \A k : HasAnswer(q, k) \/ k = n + 1 => HasAnswer(Append(q, Answer(n + 1, TRUE)), k)
           /\ \A i \in DOMAIN Append(q, Answer(n + 1, TRUE)) :
                \/ i \in DOMAIN q /\ Append(q, Answer(n + 1, TRUE))[i] = q[i]
                \/ Append(q, Answer(n + 1, TRUE))[i] = Answer(n + 1, TRUE)
<1> DEFINE m == Answer(n + 1, TRUE)
           r == Append(q, m)
<1>a. m \in Replies /\ m.kind = "answer" /\ m.of = n + 1
  <2>1. n + 1 \in Nat
    OBVIOUS
  <2>. QED  BY <2>1 DEF Replies, Answer
<1>b. \A i \in DOMAIN q : q[i].kind = "answer" => q[i].of \in Nat
  BY ReplyFields
<1> HIDE DEF m
<1>0. /\ DOMAIN r = DOMAIN q \cup {Len(q) + 1} /\ r \in Seq(Replies) /\ Len(q) \in Nat
      /\ DOMAIN q = 1 .. Len(q)
      /\ \A i \in DOMAIN q : r[i] = q[i] /\ i < Len(q) + 1
      /\ r[Len(q) + 1] = m
  BY <1>a, AppendAt
<1> HIDE DEF r
<1>1. Rising(r)
  <2>1. SUFFICES ASSUME NEW i \in DOMAIN r, NEW j \in DOMAIN r, r[i].kind = "answer",
                        r[j].kind = "answer", i < j
                 PROVE  r[i].of < r[j].of
    BY DEF Rising
  <2>2. i \in DOMAIN q /\ r[i] = q[i]
    BY <1>0, <2>1
  <2>3. CASE j \in DOMAIN q
    BY <1>0, <2>1, <2>2, <2>3 DEF Rising
  <2>4. CASE j = Len(q) + 1
    BY <1>0, <1>a, <1>b, <2>1, <2>2, <2>4
  <2>. QED  BY <1>0, <2>3, <2>4
<1>2. \A k : HasAnswer(q, k) \/ k = n + 1 => HasAnswer(r, k)
  BY <1>a, <1>0 DEF HasAnswer
<1>. QED  BY <1>0, <1>1, <1>2 DEF r, m

\* The first report of an operation stays.
LEMMA FirstReports ==
    ASSUME Types, NEW op \in Ops, NEW r \in Reports, Call(op, r)
    PROVE  /\ \A o \in Ops : reports[o] # << >> => reports'[o] # << >> /\ reports'[o][1] = reports[o][1]
           /\ reports'[op] # << >> /\ (reports[op] = << >> => reports'[op][1] = r)
           /\ \A o \in Ops \ {op} : reports'[o] = reports[o]
<1>1. /\ reports'[op] = Append(reports[op], r) /\ reports'[op] # << >>
      /\ \A o \in Ops \ {op} : reports'[o] = reports[o]
  BY Called DEF Types
<1>2. PICK q \in Seq(Reports) : q = reports[op]
  BY DEF Types
<1>3. (q # << >> => Append(q, r)[1] = q[1]) /\ (q = << >> => Append(q, r)[1] = r)
  BY AppendAt
<1>. QED  BY <1>1, <1>2, <1>3

\* What operations received is kept.
Keeps == \A o \in Ops : /\ Received(o)' <=> Received(o)
                        /\ Received(o) => Result(o)' = Result(o)

LEMMA CallKeeps ==
    ASSUME Types, NEW op \in Ops, NEW r \in Reports, Call(op, r),
           reports[op] # << >> \/ r.is \in {"refused", "completed"}
    PROVE  Keeps
<1>1. SUFFICES ASSUME NEW o \in Ops
               PROVE  /\ Received(o)' <=> Received(o)
                      /\ Received(o) => Result(o)' = Result(o)
  BY DEF Keeps
<1>2. CASE reports[o] # << >>
  BY <1>2, FirstReports DEF Received, Result
<1>3. CASE reports[o] = << >> /\ o # op
  BY <1>3, FirstReports DEF Received, Result
<1>4. CASE reports[o] = << >> /\ o = op
  <2>1. reports'[o][1] = r /\ r.is \in {"refused", "completed"}
    BY <1>4, FirstReports
  <2>. QED  BY <1>4, <2>1 DEF Received, Result
<1>. QED  BY <1>2, <1>3, <1>4

\* No operation is started before the one before it has a report.
LEMMA InTurnStep ==
    ASSUME Concurrent = FALSE, Types, InTurn, Next
    PROVE  InTurn'
<1>1. \A o \in Ops : reports[o] # << >> => reports'[o] # << >>
  <2>1. \/ UNCHANGED reports
        \/ \E op \in Ops, r \in Reports : Call(op, r)
    <3>1. CASE \E op \in Ops : SubmitOperation(op) \/ SubmitReceive(op)
      <4>1. PICK op \in Ops : SubmitOperation(op) \/ SubmitReceive(op)
        BY <3>1
      <4>2. Report("refused", op) \in Reports
        BY ReportFields, Constants
      <4>. QED  BY <4>1, <4>2, Submission
    <3>2. CASE ClientInput \/ ClientEnd \/ ClientDisconnected
      BY <3>2, ClientCalls
    <3>3. CASE \/ SubmitCreation \/ Drop \/ \E p \in Priorities : SetPriority(p)
               \/ \E op \in Ops : Start(op)
      BY <3>3 DEF SubmitCreation, Drop, SetPriority, Start, userVars
    <3>. QED  BY <3>1, <3>2, <3>3, Cases, ServiceQuiet
  <2>2. ASSUME NEW op \in Ops, NEW r \in Reports, Call(op, r)
        PROVE  \A o \in Ops : reports[o] # << >> => reports'[o] # << >>
    BY <2>2, FirstReports
  <2>. QED  BY <2>1, <2>2
<1>2. CASE \E op \in Ops : Start(op)
  <2>1. PICK op \in Ops : Start(op)
    BY <1>2
  <2>2. /\ started' = started \cup {op} /\ \A o \in Ops : o < op => o \in started
        /\ \A o \in Ops : ~(o \in started /\ reports[o] = << >>)
    BY <2>1 DEF Start, Pending
  <2>. QED  BY <1>1, <2>2 DEF InTurn
<1>3. CASE ~\E op \in Ops : Start(op)
  <2>1. started' = started
    <3>1. CASE \E op \in Ops : SubmitOperation(op) \/ SubmitReceive(op)
      BY <3>1, Submission
    <3>2. CASE ClientInput \/ ClientEnd \/ ClientDisconnected
      BY <3>2, ClientCalls
    <3>3. CASE SubmitCreation \/ Drop \/ \E p \in Priorities : SetPriority(p)
      BY <3>3 DEF SubmitCreation, Drop, SetPriority, userVars
    <3>. QED  BY <1>3, <3>1, <3>2, <3>3, Cases, ServiceQuiet
  <2>. QED  BY <1>1, <2>1 DEF InTurn
<1>. QED  BY <1>2, <1>3

\* The reply to the creation comes before any message.
LEMMA OpeningStep ==
    ASSUME Types, Creation, Opening, Next, Types', OneUnderWay, service # "subscribe" \/ promise = NoPromise
    PROVE  Opening'
<1>0. /\ s2c \in Seq(Replies) /\ c2s \in Seq(Requests) /\ copen \in BOOLEAN
      /\ stage \in {"made", "creating", "open", "dropped"}
  BY DEF Types
<1>1. ASSUME stage' \notin {"made", "creating"} \/ ~copen', stage' = "made" => FALSE PROVE Opening'
  BY <1>1 DEF Opening
<1>2. CASE SubmitCreation
  <2>1. stage = "made" /\ stage' = "creating" /\ UNCHANGED << s2c, fsm, copen >>
    BY <1>2 DEF SubmitCreation, fsmVars
  <2>. QED  BY <2>1 DEF Opening
<1>3. CASE Drop
  <2>1. stage' = "dropped"
    BY <1>3 DEF Drop
  <2>. QED  BY <1>1, <2>1
<1>4. CASE \/ \E p \in Priorities : SetPriority(p)
           \/ \E op \in Ops : Start(op) \/ SubmitOperation(op) \/ SubmitReceive(op)
  <2>1. stage' = "open"
    BY <1>4 DEF SetPriority, Start, SubmitOperation, SubmitReceive, objectVars
  <2>. QED  BY <1>1, <2>1
\* Nothing is read by the client before the creation is submitted.
<1>5. stage = "made" => s2c = << >> /\ fsm = "none" /\ c2s = << >>
  BY DEF Opening, Creation
<1>6. CASE ClientInput
  <2>1. /\ s2c # << >> /\ stage' = (IF copen /\ stage = "creating" THEN "open" ELSE stage)
        /\ copen' = copen
    BY <1>6 DEF ClientInput, ClientReads
  <2>2. stage # "made"
    BY <1>5, <2>1
  <2>. QED  BY <1>1, <2>1, <2>2
<1>7. CASE ClientEnd \/ ClientDisconnected
  <2>1. copen' = FALSE /\ UNCHANGED << stage, c2s, fsm >>
    BY <1>7 DEF ClientEnd, ClientDisconnected, ClientCompleted, fsmVars
  <2>. QED  BY <1>5, <2>1 DEF Opening
<1>8. CASE ServiceCreate
  <2>1. /\ UNCHANGED << stage, copen, cup >> /\ c2s # << >> /\ fsm = "none"
    BY <1>8, ServiceQuiet DEF ServiceCreate, ServiceReads
  <2>2. stage # "made" /\ s2c = << >>
    BY <1>5, <2>1 DEF Creation
  <2>3. CASE Created
    <3>1. fsm' = "ready" /\ s2c' = IF cup THEN Append(s2c, Empty) ELSE s2c
      BY <2>3 DEF Created
    <3>2. Append(<< >>, Empty) # << >> /\ Head(Append(<< >>, Empty)) = Empty /\ Empty.kind # "answer"
      BY ReplyFields
    <3>3. copen => cup
      BY DEF Creation
    <3>. QED  BY <2>1, <2>2, <3>1, <3>2, <3>3 DEF Opening
  <2>4. CASE CreationFails
    <3>1. fsm' = "released" /\ s2c' \in {s2c, Append(s2c, End("Other"))}
      BY <2>4 DEF CreationFails, Complete, Reply
    <3>2. Append(<< >>, End("Other")) # << >> /\ Head(Append(<< >>, End("Other"))) = End("Other")
          /\ End("Other").kind # "answer"
      BY ReplyFields
    <3>. QED  BY <2>1, <2>2, <3>1, <3>2 DEF Opening
  <2>. QED  BY <1>8, <2>3, <2>4 DEF ServiceCreate
<1>9. CASE ServiceConfig \/ ServiceEnd \/ ServiceDisconnected
  <2>1. UNCHANGED << stage, copen, s2c >> /\ fsm' \in {fsm, "released"}
        /\ (fsm = "none" => fsm' = "none") /\ (c2s = << >> => c2s' = << >>)
    BY <1>9, ServiceQuiet DEF ServiceConfig, ServiceEnd, ServiceDisconnected, Released, ServiceReads
  <2>. QED  BY <1>5, <2>1 DEF Opening
<1>10. CASE ServiceCall \/ ServicePublish
  <2>1. UNCHANGED << stage, copen >> /\ c2s # << >> /\ Head(c2s).kind = "operation"
    BY <1>10, ServiceQuiet DEF ServiceCall, ServicePublish, ServiceReads
  <2>2. c2s[1] = Head(c2s) /\ 1 \in DOMAIN c2s
    BY <1>0, <2>1, TailAt
  <2>3. stage \notin {"made", "creating"}
    BY <2>1, <2>2 DEF Creation
  <2>. QED  BY <1>1, <2>1, <2>3
<1>11. CASE PromiseResolves
  <2>1. UNCHANGED << stage, copen >> /\ promise # NoPromise /\ service # "subscribe"
    BY <1>11, ServiceQuiet DEF PromiseResolves
  <2>2. fsm = "ready"
    BY <2>1 DEF Types
  <2>3. copen => receiver # 0
    BY <2>1 DEF OneUnderWay, Awaited
  <2>4. copen => stage \notin {"made", "creating"}
    BY <2>3 DEF Creation
  <2>5. stage # "made"
    BY <1>5, <2>2
  <2>. QED  BY <1>1, <2>1, <2>4, <2>5
<1>12. CASE NodeMessage
  <2>1. UNCHANGED << stage, copen, fsm, c2s >> /\ fsm = "ready"
    BY <1>12, ServiceQuiet DEF NodeMessage
  <2>2. stage # "made"
    BY <1>5, <2>1
  <2>3. s2c' = s2c \/ \E m : s2c' = Append(s2c, m)
    BY <1>12 DEF NodeMessage, Reply
  <2>4. s2c # << >> => s2c' # << >> /\ Head(s2c') = Head(s2c)
    BY <1>0, <2>3
  <2>. QED  BY <2>1, <2>2, <2>4 DEF Opening
<1>. QED  BY <1>2, <1>3, <1>4, <1>6, <1>7, <1>8, <1>9, <1>10, <1>11, <1>12, Cases

\* As long as what operations received and what was missed stays, so does what is said of it.
LEMMA KeptForwarded ==
    ASSUME InOrder, NoneLost, Keeps, missed' = missed, write_lost => write_lost'
    PROVE  InOrder' /\ NoneLost' /\ \A n : Came(n)' <=> Came(n)
<1>1. \A n : Taken(n)' <=> Taken(n)
  BY DEF Keeps, Taken
<1>2. \A n : Came(n)' <=> Came(n)
  BY <1>1 DEF Came
<1>3. InOrder'
  BY DEF InOrder, Keeps
<1>4. NoneLost'
  BY <1>2 DEF NoneLost, Keeps
<1>. QED  BY <1>2, <1>3, <1>4

\* The next message comes to the subscriber: it is after all those that came before.
LEMMA MessageComes ==
    ASSUME Types, UnderWay, s2c # << >>, s2c' = Tail(s2c), Head(s2c).kind = "answer",
           UNCHANGED << promise, observed, write_lost, copen >>,
           \A n : Came(n)' <=> Came(n) \/ n = Head(s2c).of
    PROVE  /\ UnderWay' /\ Head(s2c).of \in Nat /\ \A n : Came(n) => n \in Nat /\ n < Head(s2c).of
           /\ copen /\ ~write_lost => \A n \in 1 .. Head(s2c).of - 1 : Came(n)
<1> DEFINE m == Head(s2c)
<1>0. /\ s2c \in Seq(Replies) /\ observed \in Nat /\ m \in Replies /\ m = s2c[1] /\ 1 \in DOMAIN s2c
      /\ \A i \in DOMAIN s2c : i \in Nat /\ 1 <= i
      /\ \A i \in DOMAIN Tail(s2c) : i + 1 \in DOMAIN s2c /\ Tail(s2c)[i] = s2c[i + 1]
  BY TailAt DEF Types
<1>1. m.of \in Nat
  BY <1>0, ReplyFields
<1>2. /\ promise = NoPromise /\ Rising(s2c)
      /\ \A n : Came(n) => n \in Nat /\ n <= observed
      /\ \A i \in DOMAIN s2c : s2c[i].kind = "answer" =>
           s2c[i].of <= observed /\ \A n : Came(n) => n < s2c[i].of
      /\ copen /\ ~write_lost => \A n \in 1 .. observed : Came(n) \/ HasAnswer(s2c, n)
  BY DEF UnderWay, Answers
<1>3. /\ Rising(Tail(s2c))
      /\ \A i \in DOMAIN Tail(s2c) : Tail(s2c)[i].kind = "answer" => m.of < Tail(s2c)[i].of
      /\ \A n : HasAnswer(s2c, n) => HasAnswer(Tail(s2c), n) \/ m.of = n
  BY <1>0, <1>2, TailForwarded
<1>4. m.of <= observed /\ \A n : Came(n) => n \in Nat /\ n < m.of
  BY <1>0, <1>2
<1>5. ASSUME copen, ~write_lost, NEW n \in 1 .. m.of - 1 PROVE Came(n)
  <2>1. n \in 1 .. observed /\ n < m.of /\ n \in Nat
    BY <1>0, <1>1, <1>4
  <2>2. ~HasAnswer(s2c, n)
    <3>1. SUFFICES ASSUME NEW j \in DOMAIN s2c, s2c[j].kind = "answer", s2c[j].of = n PROVE FALSE
      BY DEF HasAnswer
    <3>2. j = 1 \/ 1 < j
      BY <1>0
    <3>3. 1 < j => m.of < n
      BY <1>0, <1>2, <3>1 DEF Rising
    <3>. QED  BY <1>0, <1>1, <2>1, <3>1, <3>2, <3>3
  <2>. QED  BY <1>2, <1>5, <2>1, <2>2
<1>6. \A n : Came(n)' => n \in Nat /\ n <= observed
  BY <1>1, <1>2, <1>4
<1>7. ASSUME NEW i \in DOMAIN Tail(s2c), Tail(s2c)[i].kind = "answer"
      PROVE  Tail(s2c)[i].of <= observed /\ \A n : Came(n)' => n < Tail(s2c)[i].of
  BY <1>0, <1>2, <1>3, <1>7
<1>8. copen /\ ~write_lost => \A n \in 1 .. observed : Came(n)' \/ HasAnswer(Tail(s2c), n)
  BY <1>2, <1>3
<1>9. UnderWay'
  <2>1. promise' = NoPromise /\ Rising(s2c')
    BY <1>2, <1>3
  <2>2. \A n : Came(n)' => n \in Nat /\ n <= observed'
    BY <1>6
  <2>3. \A i \in DOMAIN s2c' : s2c'[i].kind = "answer" =>
          s2c'[i].of <= observed' /\ \A n : Came(n)' => n < s2c'[i].of
    BY <1>7
  <2>4. copen' /\ ~write_lost' => \A n \in 1 .. observed' : Came(n)' \/ HasAnswer(s2c', n)
    BY <1>8
  <2>. QED  BY <2>1, <2>2, <2>3, <2>4 DEF UnderWay, Answers
<1>. QED  BY <1>1, <1>4, <1>5, <1>9

LEMMA ForwardedStep ==
    ASSUME Types, Creation, InTurn, OneAtATime, Opening, Forwarded, Next, service' = "subscribe"
    PROVE  Forwarded'
<1>s. service = "subscribe"
  <2>1. CASE \E op \in Ops : SubmitOperation(op) \/ SubmitReceive(op)
    BY <2>1, Submission
  <2>2. CASE ClientInput \/ ClientEnd \/ ClientDisconnected
    BY <2>2, ClientCalls
  <2>3. CASE \/ SubmitCreation \/ Drop \/ \E p \in Priorities : SetPriority(p)
             \/ \E op \in Ops : Start(op)
    BY <2>3 DEF SubmitCreation, Drop, SetPriority, Start
  <2>. QED  BY <2>1, <2>2, <2>3, Cases, ServiceQuiet
<1>0. /\ s2c \in Seq(Replies) /\ observed \in Nat /\ copen \in BOOLEAN /\ write_lost \in BOOLEAN
      /\ InOrder /\ NoneLost /\ UnderWay
  BY <1>s DEF Types, Forwarded
<1>u. /\ promise = NoPromise /\ Rising(s2c)
      /\ \A n : Came(n) => n \in Nat /\ n <= observed
      /\ \A i \in DOMAIN s2c : s2c[i].kind = "answer" =>
           s2c[i].of <= observed /\ \A n : Came(n) => n < s2c[i].of
      /\ copen /\ ~write_lost => \A n \in 1 .. observed : Came(n) \/ HasAnswer(s2c, n)
  BY <1>0 DEF UnderWay, Answers
\* Nothing comes to the subscriber, the queue holds no other answers.
<1>1. ASSUME Keeps, missed' = missed, observed' = observed, write_lost => write_lost',
             promise' = NoPromise, copen' => copen, Rising(s2c'),
             \A i \in DOMAIN s2c' : s2c'[i].kind = "answer" =>
                 \E j \in DOMAIN s2c : s2c[j].kind = "answer" /\ s2c'[i] = s2c[j],
             copen' => \A n : HasAnswer(s2c, n) => HasAnswer(s2c', n)
      PROVE  Forwarded'
  <2>1. InOrder' /\ NoneLost' /\ \A n : Came(n)' <=> Came(n)
    BY <1>0, <1>1, KeptForwarded
  <2>2. \A n : Came(n)' => n \in Nat /\ n <= observed'
    BY <1>1, <1>u, <2>1
  <2>3. \A i \in DOMAIN s2c' : s2c'[i].kind = "answer" =>
          s2c'[i].of <= observed' /\ \A n : Came(n)' => n < s2c'[i].of
    BY <1>1, <1>u, <2>1
  <2>4. copen' /\ ~write_lost' => \A n \in 1 .. observed' : Came(n)' \/ HasAnswer(s2c', n)
    BY <1>0, <1>1, <1>u, <2>1
  <2>. QED  BY <1>1, <2>1, <2>2, <2>3, <2>4 DEF Forwarded, UnderWay, Answers
<1>2. ASSUME Keeps, missed' = missed, observed' = observed, s2c' = s2c, write_lost => write_lost',
             promise' = NoPromise, copen' => copen
      PROVE  Forwarded'
  BY <1>1, <1>2, <1>u
<1>k. reports' = reports => Keeps
  BY DEF Keeps, Received, Result
<1>3. CASE \/ SubmitCreation \/ Drop \/ \E p \in Priorities : SetPriority(p)
           \/ \E op \in Ops : Start(op)
  <2>a. copen' => copen
    BY <1>3 DEF SubmitCreation, Drop, SetPriority, Start, objectVars
  <2>b. write_lost => write_lost'
    <3>1. CASE Drop
      BY <3>1 DEF Drop
    <3>2. CASE ~Drop
      BY <1>3, <3>2 DEF SubmitCreation, SetPriority, Start
    <3>. QED  BY <3>1, <3>2
  <2>1. UNCHANGED << reports, missed, observed, s2c, promise >>
    BY <1>3 DEF SubmitCreation, Drop, SetPriority, Start, userVars, fsmVars
  <2>. QED  BY <1>2, <1>k, <1>u, <2>a, <2>b, <2>1
<1>4. ASSUME NEW op \in Ops, SubmitOperation(op) \/ SubmitReceive(op) PROVE Forwarded'
  <2>1. UNCHANGED << missed, s2c, copen >>
        /\ (reports' = reports \/ Call(op, Report("refused", op)))
    BY <1>4, Submission
  <2>2. UNCHANGED << observed, promise, write_lost >>
    BY <1>4 DEF SubmitOperation, SubmitReceive, fsmVars
  <2>3. Report("refused", op) \in Reports /\ Report("refused", op).is = "refused"
    BY ReportFields, Constants
  <2>4. Keeps
    BY <1>k, <2>1, <2>3, CallKeeps
  <2>. QED  BY <1>2, <1>u, <2>1, <2>2, <2>4
<1>5. ASSUME s2c # << >>, s2c' = Tail(s2c), Keeps, UNCHANGED << missed, observed, promise, write_lost >>,
             copen' => copen, copen' => Head(s2c).kind # "answer"
      PROVE  Forwarded'
  <2>1. \A i \in DOMAIN s2c' : i + 1 \in DOMAIN s2c /\ s2c'[i] = s2c[i + 1]
    BY <1>0, <1>5, TailAt
  <2>2. Rising(s2c') /\ \A n : HasAnswer(s2c, n) => HasAnswer(s2c', n)
                                     \/ (Head(s2c).kind = "answer" /\ Head(s2c).of = n)
    BY <1>0, <1>5, <1>u, TailForwarded
  <2>. QED  BY <1>1, <1>5, <1>u, <2>1, <2>2
<1>6. CASE ClientInput
  <2> DEFINE m == Head(s2c)
  <2>1. /\ s2c # << >> /\ s2c' = Tail(s2c)
        /\ UNCHANGED << observed, promise, write_lost, copen >>
    BY <1>6 DEF ClientInput, ClientReads, fsmVars
  <2>2. CASE ~(copen /\ m.kind = "answer")
    <3>1. UNCHANGED << reports, missed >>
      BY <1>6, <2>2 DEF ClientInput
    <3>. QED  BY <1>5, <1>k, <2>1, <2>2, <3>1
  <2>3. CASE copen /\ m.kind = "answer"
    <3>1. stage = "open"
      BY <2>1, <2>3 DEF Opening, Creation, Types
    <3>2. m \in Replies /\ m.of \in Nat
      BY <1>0, <2>1, <2>3, TailAt, ReplyFields
    <3> DEFINE r == Report(IF m.ok THEN "success" ELSE "failure", m.of)
    <3>3. r \in Reports /\ r.is \in {"success", "failure"} /\ r.of = m.of
      BY <3>2, ReportFields
    <3>4. receiver # 0 => Call(receiver, r)
      BY <1>6, <2>3, <3>1 DEF ClientInput
    <3>5. receiver = 0 => reports' = reports
      BY <1>6 DEF ClientInput
    <3>6. missed' = IF ~\E op \in Ops : op = receiver /\ reports[op] = << >>
                    THEN missed \cup {m.of} ELSE missed
      BY <1>6, <1>s, <2>3, <3>1 DEF ClientInput
    <3>7. receiver \in Ops \/ receiver = 0
      BY Constants DEF Types
    <3> HIDE DEF r, m
    <3>8. ASSUME \A n : Came(n)' <=> Came(n) \/ n = m.of
          PROVE  /\ UnderWay' /\ \A n : Came(n) => n \in Nat /\ n < m.of
                 /\ copen /\ ~write_lost => \A n \in 1 .. m.of - 1 : Came(n)
      BY <1>0, <2>1, <2>3, <3>8, MessageComes DEF m
    \* The message is the result of the operation that awaits one.
    <3>9. CASE receiver # 0 /\ reports[receiver] = << >>
      <4>1. PICK p \in Ops : p = receiver
        BY <3>7, <3>9
      <4>2. Call(p, r) /\ reports[p] = << >> /\ missed' = missed
        BY <3>4, <3>6, <3>9, <4>1
      <4>3. /\ reports'[p] # << >> /\ reports'[p][1] = r
            /\ \A o \in Ops \ {p} : reports'[o] = reports[o]
        BY <3>3, <4>2, FirstReports
      <4>4. /\ Received(p)' /\ Result(p)' = m.of /\ ~Received(p)
            /\ \A o \in Ops \ {p} : (Received(o)' <=> Received(o)) /\ Result(o)' = Result(o)
        BY <3>3, <4>2, <4>3 DEF Received, Result
      <4>5. \A n : Came(n)' <=> Came(n) \/ n = m.of
        <5>1. \A n : Taken(n)' <=> Taken(n) \/ n = m.of
          BY <4>4 DEF Taken
        <5>. QED  BY <4>2, <5>1 DEF Came
      <4>6. /\ UnderWay' /\ \A n : Came(n) => n \in Nat /\ n < m.of
            /\ ~write_lost => \A n \in 1 .. m.of - 1 : Came(n)
        BY <2>3, <3>8, <4>5
      <4>7. \A o \in Ops : Received(o) => Came(Result(o))
        BY DEF Came, Taken
      \* The operations that received something are those before it.
      <4>8. \A o \in Ops : Received(o) => ~(p < o)
        <5>1. \A o \in Ops : Received(o) => o \in started
          BY DEF Received, OneAtATime, Types
        <5>. QED  BY <4>2, <5>1 DEF InTurn
      <4>9. InOrder'
        <5>1. SUFFICES ASSUME NEW op \in Ops, Received(op)'
                       PROVE  /\ Result(op)' \notin missed'
                              /\ \A o \in Ops : o < op /\ Received(o)' => Result(o)' < Result(op)'
          BY DEF InOrder
        <5>2. CASE op = p
          <6>1. m.of \notin missed
            BY <3>2, <4>6 DEF Came
          <6>2. \A o \in Ops : o < op => o # p
            BY <5>2, Constants
          <6>. QED  BY <4>2, <4>4, <4>6, <4>7, <5>2, <6>1, <6>2
        <5>3. CASE op # p
          <6>1. Received(op) /\ Result(op)' = Result(op)
            BY <4>4, <5>1, <5>3
          <6>2. \A o \in Ops : o < op => o # p
            BY <4>8, <6>1
          <6>. QED  BY <1>0, <4>2, <4>4, <6>1, <6>2 DEF InOrder
        <5>. QED  BY <5>2, <5>3
      <4>10. NoneLost'
        <5>1. SUFFICES ASSUME ~write_lost, NEW op \in Ops, Received(op)', NEW n \in 1 .. Result(op)' - 1
                       PROVE  Came(n)'
          BY <2>1 DEF NoneLost
        <5>2. CASE op = p
          BY <4>4, <4>5, <4>6, <5>1, <5>2
        <5>3. CASE op # p
          BY <1>0, <4>4, <4>5, <5>1, <5>3 DEF NoneLost
        <5>. QED  BY <5>2, <5>3
      <4>. QED  BY <4>6, <4>9, <4>10 DEF Forwarded
    \* No operation awaits it.
    <3>10. CASE receiver = 0 \/ reports[receiver] # << >>
      <4>1. missed' = missed \cup {m.of}
        BY <3>6, <3>10, Constants
      <4>2. Keeps
        BY <1>k, <3>3, <3>4, <3>5, <3>7, <3>10, CallKeeps
      <4>3. \A n : Came(n)' <=> Came(n) \/ n = m.of
        <5>1. \A n : Taken(n)' <=> Taken(n)
          BY <4>2 DEF Keeps, Taken
        <5>. QED  BY <4>1, <5>1 DEF Came
      <4>4. UnderWay' /\ \A n : Came(n) => n \in Nat /\ n < m.of
        BY <3>8, <4>3
      <4>5. \A o \in Ops : Received(o) => Result(o) # m.of
        <5>1. \A o \in Ops : Received(o) => Came(Result(o))
          BY DEF Came, Taken
        <5>. QED  BY <3>2, <4>4, <5>1
      <4>6. InOrder'
        BY <1>0, <4>1, <4>2, <4>5 DEF InOrder, Keeps
      <4>7. NoneLost'
        BY <1>0, <2>1, <4>2, <4>3 DEF NoneLost, Keeps
      <4>. QED  BY <4>4, <4>6, <4>7 DEF Forwarded
    <3>. QED  BY <3>9, <3>10
  <2>. QED  BY <2>2, <2>3
<1>7. CASE ClientEnd \/ ClientDisconnected
  <2>1. /\ copen' = FALSE /\ UNCHANGED << missed, observed, promise, write_lost >>
        /\ reports' = reports \/ (receiver # 0 /\ Call(receiver, Report("completed", 0)))
    BY <1>7 DEF ClientEnd, ClientDisconnected, ClientCompleted, fsmVars
  <2>2. Report("completed", 0) \in Reports /\ Report("completed", 0).is = "completed"
    BY ReportFields
  <2>3. receiver # 0 => receiver \in Ops
    BY Constants DEF Types
  <2>4. Keeps
    BY <1>k, <2>1, <2>2, <2>3, CallKeeps
  <2>5. CASE ClientEnd
    <3>1. s2c # << >> /\ s2c' = Tail(s2c)
      BY <2>5 DEF ClientEnd, ClientReads
    <3>. QED  BY <1>5, <2>1, <2>4, <3>1
  <2>6. CASE ClientDisconnected
    <3>1. s2c' = << >>
      BY <2>6 DEF ClientDisconnected
    <3>2. DOMAIN s2c' = {} /\ Rising(s2c')
      BY <3>1 DEF Rising
    <3>. QED  BY <1>1, <1>u, <2>1, <2>4, <3>2
  <2>. QED  BY <1>7, <2>5, <2>6
<1>8. CASE ServiceCreate
  <2>1. /\ UNCHANGED << reports, missed, observed, copen >> /\ promise' = NoPromise
    BY <1>8, <1>u, ServiceQuiet DEF ServiceCreate, Created, CreationFails, Complete
  <2>2. write_lost => write_lost'
    BY <1>8 DEF ServiceCreate, Created, CreationFails, Complete, Reply
  <2>3. s2c' = s2c \/ \E m \in Replies : m.kind # "answer" /\ s2c' = Append(s2c, m)
    BY <1>8, ReplyFields DEF ServiceCreate, Created, CreationFails, Complete, Reply
  <2>4. CASE s2c' = s2c
    BY <1>2, <1>k, <2>1, <2>2, <2>4
  <2>5. ASSUME NEW m \in Replies, m.kind # "answer", s2c' = Append(s2c, m) PROVE Forwarded'
    <3>1. /\ Rising(s2c')
          /\ \A n : HasAnswer(s2c, n) => HasAnswer(s2c', n)
          /\ \A i \in DOMAIN s2c' : s2c'[i].kind = "answer" => i \in DOMAIN s2c /\ s2c'[i] = s2c[i]
      BY <1>0, <1>u, <2>5, AppendOther
    <3>. QED  BY <1>1, <1>k, <2>1, <2>2, <3>1
  <2>. QED  BY <2>3, <2>4, <2>5
<1>9. CASE ServiceConfig \/ ServiceEnd \/ ServiceDisconnected
  <2>1. UNCHANGED << reports, missed, observed, copen, s2c, write_lost >> /\ promise' = NoPromise
    BY <1>9, <1>u, ServiceQuiet DEF ServiceConfig, ServiceEnd, ServiceDisconnected, Released
  <2>. QED  BY <1>2, <1>k, <2>1
<1>10. CASE ServiceCall \/ ServicePublish \/ PromiseResolves
  BY <1>s, <1>u, <1>10 DEF ServiceCall, ServicePublish, PromiseResolves
<1>11. CASE NodeMessage
  <2>1. /\ UNCHANGED << reports, missed, copen, promise, cup >> /\ observed' = observed + 1
    BY <1>11, ServiceQuiet DEF NodeMessage
  <2>2. PICK ok \in BOOLEAN : /\ s2c' = IF ok /\ cup THEN Append(s2c, Answer(observed + 1, TRUE)) ELSE s2c
                              /\ write_lost' = (write_lost \/ ~ok)
    BY <1>11 DEF NodeMessage, Reply
  <2>3. InOrder' /\ NoneLost' /\ \A n : Came(n)' <=> Came(n)
    BY <1>0, <1>k, <2>1, <2>2, KeptForwarded
  <2>4. \A i \in DOMAIN s2c : s2c[i].kind = "answer" => s2c[i].of \in Nat
    BY <1>0, ReplyFields
  <2>5. \A n : Came(n)' => n \in Nat /\ n <= observed' /\ n < observed + 1
    BY <1>0, <1>u, <2>1, <2>3
  <2>6. CASE ok /\ cup
    <3> DEFINE m == Answer(observed + 1, TRUE)
    <3>1. m.of = observed + 1
      BY DEF Answer
    <3>2. /\ Rising(s2c')
          /\ \A k : HasAnswer(s2c, k) \/ k = observed + 1 => HasAnswer(s2c', k)
          /\ \A i \in DOMAIN s2c' : (i \in DOMAIN s2c /\ s2c'[i] = s2c[i]) \/ s2c'[i] = m
      BY <1>0, <1>u, <2>2, <2>6, AppendNext
    <3>3. ASSUME NEW i \in DOMAIN s2c', s2c'[i].kind = "answer"
          PROVE  s2c'[i].of <= observed' /\ \A n : Came(n)' => n < s2c'[i].of
      <4>1. CASE i \in DOMAIN s2c /\ s2c'[i] = s2c[i]
        BY <1>0, <1>u, <2>1, <2>3, <2>4, <3>3, <4>1
      <4>2. CASE s2c'[i] = m
        <5>1. s2c'[i].of = observed + 1
          BY <3>1, <4>2
        <5>. QED  BY <1>0, <2>1, <2>5, <5>1
      <4>. QED  BY <3>2, <3>3, <4>1, <4>2
    <3>4. \A n \in 1 .. observed' : n \in 1 .. observed \/ n = observed + 1
      BY <1>0, <2>1
    <3>5. copen' /\ ~write_lost' => \A n \in 1 .. observed' : Came(n)' \/ HasAnswer(s2c', n)
      BY <1>u, <2>1, <2>2, <2>3, <3>2, <3>4
    <3>. QED  BY <1>u, <2>1, <2>3, <2>5, <3>2, <3>3, <3>5 DEF Forwarded, UnderWay, Answers
  <2>7. CASE ~(ok /\ cup)
    <3>1. ~(copen' /\ ~write_lost') /\ s2c' = s2c
      BY <2>1, <2>2, <2>7 DEF Creation
    <3>2. \A i \in DOMAIN s2c' : s2c'[i].kind = "answer" =>
              s2c'[i].of <= observed' /\ \A n : Came(n)' => n < s2c'[i].of
      BY <1>0, <1>u, <2>1, <2>3, <2>4, <3>1
    <3>. QED  BY <1>u, <2>1, <2>3, <2>5, <3>1, <3>2 DEF Forwarded, UnderWay, Answers
  <2>. QED  BY <2>6, <2>7
<1>. QED  BY <1>3, <1>4, <1>6, <1>7, <1>8, <1>9, <1>10, <1>11, Cases

-----------------------------------------------------------------------------
(***************************************************************************)
(* The theorems.                                                           *)
(***************************************************************************)
\* A step that changes nothing keeps the invariant.
LEMMA RelayStutter ==
    ASSUME RelayInv, UNCHANGED vars
    PROVE  RelayInv'
<1> USE DEF RelayInv, vars, userVars, objectVars, linkVars, fsmVars
<1>1. Types' /\ OneAtATime' /\ Creation'
  BY DEF Types, OneAtATime, Creation, Pending
<1>2. PriorityUnderWay' /\ OnlySubmitted'
  BY DEF PriorityUnderWay, OnlySubmitted
<1>3. TypeOK'
  BY <1>1, TypesImply, PTL
<1>4. PriorityInForce'
  BY <1>3 DEF PriorityInForce
<1>5. OneUnderWay' /\ OwnReports'
  BY DEF OneUnderWay, OwnReports, Awaited, Asks, Answers
<1>6. InTurn' /\ Opening' /\ Forwarded'
  <2>1. InTurn' /\ Opening'
    BY DEF InTurn, Opening
  <2>2. Forwarded'
    BY DEF Forwarded, InOrder, NoneLost, UnderWay, Came, Taken, Received, Result, Answers
  <2>. QED  BY <2>1, <2>2
<1>. QED  BY <1>1, <1>2, <1>4, <1>5, <1>6

\* The initial states satisfy the invariant.
LEMMA RelayInit ==
    ASSUME Init
    PROVE  RelayInv
<1> USE DEF Init
<1>1. Types
  <2>1. reports \in [ Ops -> Seq(Reports) ] /\ op_priority \in [ Ops -> Nat ]
    OBVIOUS
  <2>2. c2s \in Seq(Requests) /\ s2c \in Seq(Replies) /\ missed \subseteq Nat
        /\ executed \in Seq([ of : Payloads, priority : Nat ])
    OBVIOUS
  <2>3. held \in Payloads /\ receiver \in 0 .. MaxOps /\ promise \in 0 .. NoPromise
    BY Constants
  <2>. QED  BY <2>1, <2>2, <2>3, Constants DEF Types
<1>2. OneAtATime /\ Creation /\ OnlySubmitted
  BY DEF OneAtATime, Creation, OnlySubmitted, Pending
<1>3. PriorityUnderWay
  BY DEF PriorityUnderWay, Sets
<1>4. PriorityInForce
  BY <1>1, TypesImply DEF PriorityInForce
<1>5. OneUnderWay
  BY DEF OneUnderWay, One, None
<1>6. OwnReports
  BY DEF OwnReports
<1>7. InTurn /\ Opening
  BY DEF InTurn, Opening
<1>8. Forwarded
  <2>1. \A o \in Ops : ~Received(o)
    BY DEF Received
  <2>2. \A n : ~Came(n)
    BY <2>1 DEF Came, Taken
  <2>. QED  BY <2>1, <2>2 DEF Forwarded, InOrder, NoneLost, UnderWay, Rising, Answers
<1>. QED  BY <1>1, <1>2, <1>3, <1>4, <1>5, <1>6, <1>7, <1>8 DEF RelayInv

(***************************************************************************)
(* The inductive invariant of the relay holds, however many operations     *)
(* there are, whatever fails and whoever disconnects, when the user starts *)
(* an operation only after the one before has its report.                  *)
(***************************************************************************)
THEOREM RelayInvariant ==
    ASSUME Concurrent = FALSE
    PROVE  Spec => []RelayInv
<1>1. Init => RelayInv
  BY RelayInit
<1>2. RelayInv /\ [Next]_vars => RelayInv'
  <2>1. SUFFICES ASSUME RelayInv, Next PROVE RelayInv'
    BY RelayStutter
  <2>2. Types' /\ OneAtATime' /\ Creation'
    BY <2>1, TypesStep, OneAtATimeStep, CreationStep DEF RelayInv
  <2>3. PriorityUnderWay' /\ OnlySubmitted' /\ PriorityInForce'
    BY <2>1, <2>2, PriorityUnderWayStep, OnlySubmittedStep, PriorityInForceStep DEF RelayInv
  <2>4. OneUnderWay'
    <3>1. CASE service' # "subscribe" /\ copen'
      BY <2>1, <3>1, OneUnderWayStep DEF RelayInv
    <3>2. CASE ~(service' # "subscribe" /\ copen')
      BY <3>2 DEF OneUnderWay
    <3>. QED  BY <3>1, <3>2
  <2>5. OwnReports' /\ InTurn'
    BY <2>1, <2>2, OwnReportsStep, InTurnStep DEF RelayInv
  <2>6. Opening'
    <3>1. service # "subscribe" \/ promise = NoPromise
      BY <2>1 DEF RelayInv, Forwarded, UnderWay
    <3>. QED  BY <2>1, <2>2, <3>1, OpeningStep DEF RelayInv
  <2>7. Forwarded'
    <3>1. CASE service' = "subscribe"
      BY <2>1, <3>1, ForwardedStep DEF RelayInv
    <3>2. CASE service' # "subscribe"
      BY <3>2 DEF Forwarded
    <3>. QED  BY <3>1, <3>2
  <2>. QED  BY <2>2, <2>3, <2>4, <2>5, <2>6, <2>7 DEF RelayInv
<1>. QED  BY <1>1, <1>2, PTL DEF Spec

(***************************************************************************)
(* A request or publication goes out with the priority that was last set   *)
(* when it was submitted: the configuration and the operation travel in    *)
(* order through the same queue.                                           *)
(***************************************************************************)
THEOREM PriorityIsInForce ==
    ASSUME Concurrent = FALSE
    PROVE  Spec => []PriorityInForce
<1>1. RelayInv => PriorityInForce
  BY DEF RelayInv
<1>. QED  BY <1>1, RelayInvariant, PTL

(***************************************************************************)
(* A receiver gets the answer to its own operation, once, and then at most *)
(* the completion of the channel. The results of receive operations are in *)
(* the order of the subject, no message is the result of two, and what is  *)
(* passed over came while no operation awaited it, unless a write of the   *)
(* daemon failed.                                                          *)
(***************************************************************************)
THEOREM AnswersAreOwn ==
    ASSUME Concurrent = FALSE
    PROVE  Spec => []OwnAnswerOnce
<1>1. RelayInv => OwnAnswerOnce
  <2>1. SUFFICES ASSUME RelayInv PROVE OwnAnswerOnce
    OBVIOUS
  <2>2. CASE service # "subscribe"
    BY <2>1, <2>2 DEF RelayInv, OwnReports, OwnAnswerOnce
  <2>3. CASE service = "subscribe"
    <3>1. InOrder /\ NoneLost
      BY <2>1, <2>3 DEF RelayInv, Forwarded
    <3>. QED  BY <2>3, <3>1 DEF OwnAnswerOnce, InOrder, NoneLost, Came, Taken
  <2>. QED  BY <2>2, <2>3
<1>. QED  BY <1>1, RelayInvariant, PTL
=============================================================================
