------------------------------ MODULE CliProofs -----------------------------
(***************************************************************************)
(* Proofs about sync_wait and the command line tool, for any scenarios in  *)
(* any order, any timeouts and any number of messages: what the four       *)
(* safety properties of Senders and Cli say, and the inductive invariant   *)
(* they follow from.                                                       *)
(***************************************************************************)
EXTENDS Cli, SequenceTheorems, TLAPS

-----------------------------------------------------------------------------
(***************************************************************************)
(* The inductive invariant.                                                *)
(***************************************************************************)
Messages == [ to : Channels \cup {"nobody"}, what : {Done, Failed, End} \cup 1 .. MaxMsgs ]

\* Every variable has its type.
TypeOK ==
    /\ pc \in {"idle", "check", "spin", "recheck", "poll"}
    /\ slot \in Results \cup {NoResult}
    /\ left \in Nat \cup {Never} /\ nap \in Nat /\ fired \in BOOLEAN
    /\ ready \in {"no", "before", "after"}
    /\ objects \subseteq Objects /\ completed \subseteq Objects
    /\ receiver \in [ Channels -> {"no", "current", "stale"} ]
    /\ socket \in Seq(Messages)
    /\ owed \subseteq {"request", "caller"}
    /\ published \in 0 .. MaxMsgs /\ prev \in 0 .. MaxMsgs
    /\ in_time \in BOOLEAN /\ touched \in BOOLEAN
    /\ done \in 0 .. 3

\* The callback of the socket is due only on the way from a poll to the end of the
\* spin after it, and nothing but the timer can have come before it.
ReadyInSpin ==
    ready # "no" => /\ pc \in {"check", "spin"}
                    /\ slot = NoResult \/ (pc = "spin" /\ ready = "after" /\ slot = TimedOut)

\* An answer reported in time is at the head of the socket until it is the result.
AnswerInTime ==
    in_time => /\ pc # "idle"
               /\ \/ slot \notin {NoResult, TimedOut}
                  \/ /\ slot = NoResult /\ ready = "before" /\ socket # << >>
                     /\ Head(socket).to \in Channels
                     /\ receiver[Head(socket).to] = "current"

\* The objects that a scenario can make, and the sender it waits for.
ObjectsOf(scenario) ==
    CASE scenario = "subscriber"               -> {"subscriber"}
      [] scenario \in {"publisher", "rpcClient"} -> {"caller"}
      [] OTHER                                 -> {}

Operation == SendersOf(This)[IF Loops THEN 2 ELSE done + 1]

\* The current sender is the one the scenario is at, and the objects are its own.
InScenario ==
    /\ IF pc = "idle" THEN kind = "none" /\ slot = NoResult
       ELSE Running /\ kind = Operation /\ (Loops \/ done < Len(SendersOf(This)))
    /\ objects \subseteq IF Running THEN ObjectsOf(This) ELSE {}
    /\ done = 0 /\ (pc = "idle" \/ slot = NoResult) => objects = {}

\* Who holds a receiver, and when one is stale.
Receivers ==
    /\ receiver["request"] # "stale"
    /\ \A o \in Objects : receiver[o] # "no" => o \in objects
    /\ \A c \in Channels : receiver[c] = "current" => pc # "idle" /\ c = ChannelOf(kind)
    /\ pc # "idle" /\ slot = NoResult => receiver[ChannelOf(kind)] = "current"
    /\ \A c \in Channels :
            receiver[c] = "stale" => pc = "idle" \/ (pc = "check" /\ slot # NoResult)

\* Element i of the socket is a message of the subject.
Observed(i) == socket[i].to = "subscriber" /\ socket[i].what # End

\* The message that the receiver got last from this subscription.
Printed ==
    CASE kind = "receive" /\ slot \in 1 .. MaxMsgs -> slot
      [] kind = "receive" /\ slot \notin 1 .. MaxMsgs -> prev
      [] kind = "none"                             -> prev
      [] OTHER                                     -> 0

\* The scenario may come to print another message.
GoesOn ==
    /\ "subscriber" \in objects
    /\ slot \notin {Failed, TimedOut}
    /\ pc = "idle" => result \notin {Failed, TimedOut}

\* What the socket holds of a subscription: messages in order and, as long as they
\* are printed, each one from the last one printed to the last one observed but for
\* those that were lost.
Subscription ==
    /\ "subscriber" \notin objects => published = 0
    /\ lost \subseteq 1 .. published
    /\ \A i \in DOMAIN socket :
         /\ socket[i].to = "subscriber" => "subscriber" \in objects
         /\ Observed(i) => socket[i].what \in (1 .. published) \ lost
    /\ \A i, j \in DOMAIN socket :
            Observed(i) /\ Observed(j) /\ i < j => socket[i].what < socket[j].what
    /\ GoesOn =>
         /\ Printed <= published
         /\ \A i \in DOMAIN socket : Observed(i) => socket[i].what > Printed
         /\ \A n \in (Printed + 1 .. published) \ lost :
                \E i \in DOMAIN socket : Observed(i) /\ socket[i].what = n
    /\ kind = "receive" => slot # Done

CliInv ==
    /\ TypeOK
    /\ ReadyInSpin
    /\ SleepsOnPurpose
    /\ AnswerInTime
    /\ InScenario
    /\ Receivers
    /\ NoStaleReceiver
    /\ Subscription
    /\ PrintsEveryMessage

-----------------------------------------------------------------------------
(***************************************************************************)
(* Lemmas about the constants, the scenarios and the messages.             *)
(***************************************************************************)
LEMMA Constants ==
    /\ Timeouts \subseteq Nat
    /\ Resolution \in Nat \ {0} /\ Second \in Nat \ {0}
    /\ MaxMsgs \in Nat \ {0} /\ MaxQueue \in Nat \ {0}
BY SendersAssumption

\* duration_cast to milliseconds rounds down.
LEMMA MillisecondsRoundDown ==
    ASSUME NEW t \in Nat
    PROVE  InMilliseconds(t) \in Nat /\ InMilliseconds(t) <= t
<1>1. ASSUME NEW r \in Nat \ {0}
      PROVE  t \div r \in Nat /\ (t \div r) * r <= t
  OBVIOUS
<1>2. ASSUME NEW q \in Nat, NEW r \in Nat PROVE q * r \in Nat
  OBVIOUS
<1>. QED  BY <1>1, <1>2, Constants DEF InMilliseconds

\* The senders a scenario waits for: the first one makes its object, if it has one, and
\* all the later ones are operations on that object.
LEMMA OperationFacts ==
    ASSUME done \in 0 .. 3, Loops \/ done < Len(SendersOf(This))
    PROVE  /\ Made(Operation) \subseteq ObjectsOf(This)
           /\ Operation # "none" /\ ChannelOf(Operation) \in Channels
           /\ done > 0 =>
                /\ Made(Operation) = {}
                /\ \A o \in ObjectsOf(This) :
                     ChannelOf(Operation) = o /\ (o = "subscriber" => Operation = "receive")
           /\ Operation = "receive" => done > 0 /\ This = "subscriber"
<1> USE DEF Operation, SendersOf, ObjectsOf, Made, ChannelOf, Loops, Channels, Objects
<1>1. CASE This = "subscriber"
  BY <1>1 DEF trySubscriberScenario
<1>2. CASE This = "publisher"
  BY <1>2 DEF tryPublisherScenario
<1>3. CASE This = "rpcClient"
  BY <1>3 DEF tryRpcClientScenario
<1>4. CASE This \in {"regsOfNodes", "regsOfSingleNode"}
  BY <1>4 DEF tryListReadWriteRegsOfNodesScenario, tryListReadWriteRegsOfSingleNodeScenario
<1>5. CASE This \notin {"subscriber", "publisher", "rpcClient", "regsOfNodes", "regsOfSingleNode"}
  BY <1>5 DEF tryRequestScenario
<1>. QED  BY <1>1, <1>2, <1>3, <1>4, <1>5

\* Every action of sync_wait, the program and the daemon is a case of the next-state relation.
LEMMA Cases ==
    ASSUME CliNext
    PROVE  \/ Operate \/ CliReturn \/ EndScenario \/ CliTick
           \/ (UNCHANGED cliVars /\ (Check \/ RunTimer \/ RunSocketInPart \/ RunSocket \/ SpinEnds))
           \/ (UNCHANGED cliVars /\ (Poll \/ PollReports \/ PollElapses \/ PollInterrupted))
           \/ (UNCHANGED cliVars /\ (DaemonAnswers \/ Publish \/ PublishFails \/ EndObject))
BY DEF CliNext, CliStep, CliWait, CliEnvironment, WaitStep, Environment

\* A message for a channel that is gone is for nobody; the others stay as they are.
LEMMA WithoutChannelFacts ==
    ASSUME socket \in Seq(Messages), NEW c
    PROVE  /\ WithoutChannel(c) \in Seq(Messages)
           /\ DOMAIN WithoutChannel(c) = DOMAIN socket
           /\ \A i \in DOMAIN socket :
                /\ WithoutChannel(c)[i].what = socket[i].what
                /\ WithoutChannel(c)[i].to = IF socket[i].to = c THEN "nobody" ELSE socket[i].to
<1> DEFINE n == Len(socket)
           r == WithoutChannel(c)
<1>1. n \in Nat /\ DOMAIN socket = 1 .. n /\ \A i \in 1 .. n : socket[i] \in Messages
  OBVIOUS
<1>2. r = [ i \in 1 .. n |->
              IF socket[i].to = c THEN [ socket[i] EXCEPT !.to = "nobody" ] ELSE socket[i] ]
  BY <1>1 DEF WithoutChannel
<1>3. ASSUME NEW i \in 1 .. n
      PROVE  /\ r[i] \in Messages /\ r[i].what = socket[i].what
             /\ r[i].to = IF socket[i].to = c THEN "nobody" ELSE socket[i].to
  <2>1. r[i] = IF socket[i].to = c THEN [ socket[i] EXCEPT !.to = "nobody" ] ELSE socket[i]
    BY <1>2
  <2>. QED  BY <1>1, <2>1 DEF Messages
<1>4. DOMAIN r = 1 .. n
  BY <1>2
<1>5. r \in [ 1 .. n -> Messages ]
  BY <1>2, <1>3
<1>6. r \in Seq(Messages)
  BY <1>1, <1>5
<1>. QED  BY <1>1, <1>3, <1>4, <1>6

\* A message read from the socket.
LEMMA HeadAndTail ==
    ASSUME NEW q \in Seq(Messages), q # << >>
    PROVE  /\ Head(q) \in Messages /\ Head(q) = q[1] /\ Tail(q) \in Seq(Messages)
           /\ DOMAIN q = 1 .. Len(q) /\ 1 \in DOMAIN q
           /\ Len(Tail(q)) = Len(q) - 1 /\ DOMAIN Tail(q) = 1 .. Len(q) - 1
           /\ \A i \in DOMAIN Tail(q) : i + 1 \in DOMAIN q /\ Tail(q)[i] = q[i + 1]
OBVIOUS

\* What a message that is read makes of the result.
LEMMA HandledResult ==
    ASSUME NEW m \in Messages, HandleMessage(m), slot \in Results \cup {NoResult}
    PROVE  /\ slot' \in Results \cup {NoResult}
           /\ slot # NoResult => slot' = slot
           /\ m.to \in Channels /\ receiver[m.to] = "current" /\ slot = NoResult =>
                slot' \notin {NoResult, TimedOut} /\ slot' \in ResultsOf(m)
           /\ ~(m.to \in Channels /\ receiver[m.to] = "current") => slot' = slot
<1>1. PICK r \in ResultsOf(m) :
        slot' = IF m.to \in Channels /\ receiver[m.to] = "current" THEN Complete(slot, r) ELSE slot
  BY DEF HandleMessage
<1>2. r \in Results /\ r \notin {NoResult, TimedOut}
  BY Constants DEF ResultsOf, Messages, Results, NoResult, TimedOut, Done, Failed, End
<1>. QED  BY <1>1, <1>2 DEF Complete

-----------------------------------------------------------------------------
(***************************************************************************)
(* Every step preserves the parts of the invariant.                        *)
(***************************************************************************)
LEMMA TypeStep ==
    ASSUME TypeOK, CliNext
    PROVE  TypeOK'
<1> USE DEF TypeOK
<1>1. CASE Operate
  <2> DEFINE k == Operation
             t == Timeout
  <2>1. Submit(k, t) /\ t \in Timeouts /\ UNCHANGED cliVars
    BY <1>1 DEF Operate, Submit, Operation
  <2> HIDE DEF k, t
  <2>2. ChannelOf(k) \in Channels /\ (k # "receive" => ChannelOf(k) \in {"request", "caller"})
    BY DEF ChannelOf, Channels, Objects
  <2>3. PICK r \in AtOnce(k) :
          /\ slot' = r
          /\ receiver' = IF ChannelOf(k) \in Objects /\ r = Failed THEN receiver
                         ELSE [ receiver EXCEPT ![ChannelOf(k)] = "current" ]
          /\ owed' = IF k = "receive" \/ r = Failed THEN owed ELSE owed \cup {ChannelOf(k)}
    BY <2>1 DEF Submit
  <2>4. slot' \in Results \cup {NoResult}
    BY <2>3 DEF AtOnce, Results
  <2>5. /\ receiver' \in [ Channels -> {"no", "current", "stale"} ]
        /\ owed' \subseteq {"request", "caller"}
    BY <2>2, <2>3
  <2>. QED  BY <2>1, <2>4, <2>5, Constants DEF Submit, cliVars, history
<1>2. CASE CliReturn
  <2>1. receiver' \in [ Channels -> {"no", "current", "stale"} ]
    BY <1>2 DEF CliReturn, Return
  <2>2. socket' \in Seq(Messages)
    BY <1>2, WithoutChannelFacts DEF CliReturn, Return
  <2>3. prev' \in 0 .. MaxMsgs /\ done' \in 0 .. 3 /\ slot' = NoResult /\ left' = Never
    BY <1>2, Constants DEF CliReturn, Return
  <2>. QED  BY <1>2, <2>1, <2>2, <2>3 DEF CliReturn, Return
<1>3. CASE EndScenario
  <2>1. CASE UNCHANGED vars
    BY <1>3, <2>1 DEF EndScenario, vars, waitVars, sdkVars, netVars, history
  <2>2. ASSUME NEW o \in objects, Drop(o) PROVE TypeOK'
    <3>1. socket' \in Seq(Messages)
      BY <2>2, WithoutChannelFacts DEF Drop
    <3>2. receiver' \in [ Channels -> {"no", "current", "stale"} ]
      BY <2>2 DEF Drop
    <3>3. published' \in 0 .. MaxMsgs /\ done' \in 0 .. 3
      BY <1>3, <2>2, Constants DEF EndScenario, Drop
    <3>4. /\ objects' \subseteq Objects /\ completed' \subseteq Objects
          /\ owed' \subseteq {"request", "caller"}
      BY <2>2 DEF Drop
    <3>. QED  BY <2>2, <3>1, <3>2, <3>3, <3>4 DEF Drop, waitVars, history
  <2>. QED  BY <1>3, <2>1, <2>2 DEF EndScenario, ObjectsGo
<1>4. CASE CliTick
  BY <1>4 DEF CliTick, Tick, sdkVars, netVars, history, Never
<1>5. CASE UNCHANGED cliVars /\ RunSocket
  <2>1. socket # << >> /\ socket' = Tail(socket) /\ HandleMessage(Head(socket))
    BY <1>5 DEF RunSocket, ReceiveOne
  <2>2. Head(socket) \in Messages /\ socket' \in Seq(Messages)
    BY <2>1, HeadAndTail
  <2>3. slot' \in Results \cup {NoResult}
    BY <2>1, <2>2, HandledResult
  <2>4. objects' \subseteq Objects /\ completed' \subseteq Objects /\ touched' \in BOOLEAN
    BY <2>1 DEF HandleMessage, Made, Objects
  <2>. QED  BY <1>5, <2>2, <2>3, <2>4 DEF RunSocket, cliVars
<1>6. CASE UNCHANGED cliVars /\ (Check \/ RunTimer \/ RunSocketInPart \/ SpinEnds)
  BY <1>6, Constants DEF Check, RunTimer, RunSocketInPart, SpinEnds, Complete, Results, cliVars,
     sdkVars, netVars, history
<1>7. CASE UNCHANGED cliVars /\ (Poll \/ PollReports \/ PollElapses \/ PollInterrupted)
  <2>1. PollTimeout \in Nat
    BY Constants DEF PollTimeout
  <2>2. InMilliseconds(PollTimeout) \in Nat
    BY <2>1, MillisecondsRoundDown
  <2>3. CASE Poll
    BY <1>7, <2>2, <2>3 DEF Poll, cliVars, sdkVars, netVars, history
  <2>4. CASE PollReports
    <3>1. in_time' \in BOOLEAN
      BY <2>4 DEF PollReports
    <3>2. ready' \in {"no", "before", "after"} /\ nap' \in Nat /\ pc' = "check"
      BY <2>4 DEF PollReports
    <3>. QED  BY <1>7, <2>4, <3>1, <3>2 DEF PollReports, cliVars, sdkVars, netVars
  <2>5. CASE PollElapses \/ PollInterrupted
    <3>1. nap' \in Nat /\ pc' = "check"
      BY <2>5 DEF PollElapses, PollInterrupted
    <3>. QED  BY <1>7, <2>5, <3>1
         DEF PollElapses, PollInterrupted, cliVars, sdkVars, netVars, history
  <2>. QED  BY <1>7, <2>3, <2>4, <2>5
<1>8. CASE UNCHANGED cliVars /\ (DaemonAnswers \/ Publish \/ PublishFails \/ EndObject)
  <2>1. \A c \in Channels : \A w \in {Done, Failed, End} \cup 1 .. MaxMsgs : Message(c, w) \in Messages
    BY DEF Message, Messages
  <2>2. owed \subseteq Channels /\ objects \subseteq Channels /\ "subscriber" \in Channels
    BY DEF Channels, Objects
  <2>3. CASE DaemonAnswers
    <3>1. PICK c \in owed :
            /\ owed' = owed \ {c}
            /\ \E a \in {Done, Failed} :
                    \/ socket' = Append(socket, Message(c, a))
                    \/ socket' = socket \o << Message(c, a), Message(c, End) >>
            /\ UNCHANGED << waitVars, sdkVars, published, lost, history >>
      BY <2>3 DEF DaemonAnswers
    <3>2. PICK a \in {Done, Failed} :
            \/ socket' = Append(socket, Message(c, a))
            \/ socket' = socket \o << Message(c, a), Message(c, End) >>
      BY <3>1
    <3>3. Message(c, a) \in Messages /\ Message(c, End) \in Messages
      BY <2>1, <2>2
    <3>4. << Message(c, a), Message(c, End) >> \in Seq(Messages)
      BY <3>3
    <3>5. ASSUME NEW two \in Seq(Messages) PROVE socket \o two \in Seq(Messages)
      OBVIOUS
    <3>6. Append(socket, Message(c, a)) \in Seq(Messages)
      BY <3>3
    <3>7. socket' \in Seq(Messages)
      BY <3>2, <3>4, <3>5, <3>6
    <3>. QED  BY <1>8, <3>1, <3>7 DEF cliVars, waitVars, sdkVars, history
  <2>4. CASE Publish
    <3>0. published' = published + 1 /\ published < MaxMsgs
      BY <2>4 DEF Publish, Observe
    <3>1. published' \in 1 .. MaxMsgs /\ socket' = Append(socket, Message("subscriber", published'))
      BY <2>4, <3>0, Constants DEF Publish
    <3>2. socket' \in Seq(Messages)
      BY <2>1, <2>2, <3>1
    <3>. QED  BY <1>8, <2>4, <3>1, <3>2, Constants DEF Publish, Observe, cliVars, waitVars, sdkVars, history
  <2>5. CASE EndObject
    <3>1. PICK o \in objects : socket' = Append(socket, Message(o, End))
      BY <2>5 DEF EndObject
    <3>2. socket' \in Seq(Messages)
      BY <2>1, <2>2, <3>1
    <3>. QED  BY <1>8, <2>5, <3>2 DEF EndObject, cliVars, waitVars, sdkVars, history
  <2>6. CASE PublishFails
    <3>1. published' \in 1 .. MaxMsgs /\ socket' = socket
      BY <2>6, Constants DEF PublishFails, Observe
    <3>. QED  BY <1>8, <2>6, <3>1 DEF PublishFails, Observe, cliVars, waitVars, sdkVars, history
  <2>. QED  BY <1>8, <2>3, <2>4, <2>5, <2>6
<1>. QED  BY <1>1, <1>2, <1>3, <1>4, <1>5, <1>6, <1>7, <1>8, Cases

\* What the daemon sends comes behind what is in the socket, and only the next message
\* of the subject or an end is for a subscriber.
LEMMA Arrivals ==
    ASSUME TypeOK, DaemonAnswers \/ Publish \/ PublishFails \/ EndObject
    PROVE  /\ UNCHANGED << waitVars, sdkVars, history >>
           /\ DOMAIN socket \subseteq DOMAIN socket'
           /\ \A i \in DOMAIN socket : socket'[i] = socket[i]
           /\ socket # << >> => socket' # << >> /\ Head(socket') = Head(socket)
           /\ \/ /\ published' = published /\ lost' = lost
                 /\ \A i \in DOMAIN socket' \ DOMAIN socket :
                      socket'[i].to = "subscriber" =>
                        "subscriber" \in objects /\ socket'[i].what = End
              \/ /\ published' = published + 1 /\ "subscriber" \in objects
                 /\ socket' = socket /\ lost' = lost \cup {published + 1}
              \/ /\ published' = published + 1 /\ "subscriber" \in objects /\ lost' = lost
                 /\ DOMAIN socket' = DOMAIN socket \cup {Len(socket) + 1}
                 /\ socket'[Len(socket) + 1] = Message("subscriber", published + 1)
<1>0. socket \in Seq(Messages)
  BY DEF TypeOK
<1>1. ASSUME NEW m PROVE
        /\ DOMAIN socket \subseteq DOMAIN Append(socket, m)
        /\ DOMAIN Append(socket, m) = DOMAIN socket \cup {Len(socket) + 1}
        /\ \A i \in DOMAIN socket : Append(socket, m)[i] = socket[i]
        /\ Append(socket, m)[Len(socket) + 1] = m
        /\ socket # << >> => Append(socket, m) # << >> /\ Head(Append(socket, m)) = Head(socket)
  BY <1>0
<1>2. CASE DaemonAnswers
  <2>1. PICK c \in owed :
          /\ \E a \in {Done, Failed} :
                  \/ socket' = Append(socket, Message(c, a))
                  \/ socket' = socket \o << Message(c, a), Message(c, End) >>
          /\ UNCHANGED << waitVars, sdkVars, published, lost, history >>
    BY <1>2 DEF DaemonAnswers
  <2>2. PICK a \in {Done, Failed} :
          \/ socket' = Append(socket, Message(c, a))
          \/ socket' = socket \o << Message(c, a), Message(c, End) >>
    BY <2>1
  <2>3. Message(c, a).to # "subscriber" /\ Message(c, End).to # "subscriber"
    BY DEF Message, TypeOK
  <2>4. CASE socket' = Append(socket, Message(c, a))
    BY <1>1, <2>1, <2>3, <2>4
  <2>5. CASE socket' = socket \o << Message(c, a), Message(c, End) >>
    <3>1. socket' = Append(Append(socket, Message(c, a)), Message(c, End))
      BY <1>0, <2>5
    <3> DEFINE q == Append(socket, Message(c, a))
               n == Len(socket)
    <3>2. /\ DOMAIN socket' = DOMAIN socket \cup {n + 1, n + 2}
          /\ socket'[n + 1] = Message(c, a) /\ socket'[n + 2] = Message(c, End)
          /\ \A i \in DOMAIN socket : socket'[i] = socket[i]
          /\ socket # << >> => socket' # << >> /\ Head(socket') = Head(socket)
      BY <1>0, <3>1
    <3>. QED  BY <2>1, <2>3, <3>2
  <2>. QED  BY <2>2, <2>4, <2>5
<1>3. CASE Publish
  BY <1>1, <1>3 DEF Publish, Observe
<1>4. CASE EndObject
  <2>1. PICK o \in objects : socket' = Append(socket, Message(o, End))
    BY <1>4 DEF EndObject
  <2>2. Message(o, End).what = End /\ Message(o, End).to = o
    BY DEF Message
  <2>. QED  BY <1>1, <1>4, <2>1, <2>2 DEF EndObject
<1>5. CASE PublishFails
  BY <1>5 DEF PublishFails, Observe
<1>. QED  BY <1>2, <1>3, <1>4, <1>5

\* waitPollingUntil polls without a result and no longer than sync_wait may wait.
LEMMA SleepStep ==
    ASSUME TypeOK, SleepsOnPurpose, CliNext
    PROVE  SleepsOnPurpose'
<1> USE DEF SleepsOnPurpose
<1>1. CASE Operate \/ CliReturn
  BY <1>1 DEF Operate, Submit, CliReturn, Return
<1>2. CASE EndScenario
  BY <1>2 DEF EndScenario, ObjectsGo, Drop, vars, waitVars
<1>3. CASE CliTick
  BY <1>3 DEF CliTick, Tick, TypeOK, Never
<1>4. CASE Check \/ RunTimer \/ RunSocketInPart \/ RunSocket \/ SpinEnds
  BY <1>4 DEF Check, RunTimer, RunSocketInPart, RunSocket, SpinEnds
<1>5. CASE Poll
  <2>1. PollTimeout \in Nat /\ (left # Never => PollTimeout <= left)
    BY Constants DEF PollTimeout, TypeOK
  <2>2. InMilliseconds(PollTimeout) \in Nat /\ InMilliseconds(PollTimeout) <= PollTimeout
    BY <2>1, MillisecondsRoundDown
  <2>. QED  BY <1>5, <2>1, <2>2 DEF Poll, StillWaiting, TypeOK, Never
<1>6. CASE PollReports \/ PollElapses \/ PollInterrupted
  BY <1>6 DEF PollReports, PollElapses, PollInterrupted
<1>7. CASE DaemonAnswers \/ Publish \/ PublishFails \/ EndObject
  BY <1>7, Arrivals DEF waitVars
<1>. QED  BY <1>1, <1>2, <1>3, <1>4, <1>5, <1>6, <1>7, Cases

\* The callback of the socket stays due until the spin, and only the timer overtakes it.
LEMMA ReadyStep ==
    ASSUME TypeOK, ReadyInSpin, SleepsOnPurpose, CliNext
    PROVE  ReadyInSpin'
<1> USE DEF ReadyInSpin
<1>1. CASE Operate \/ CliReturn
  BY <1>1 DEF Operate, Submit, CliReturn, Return, TypeOK
<1>2. CASE EndScenario
  BY <1>2 DEF EndScenario, ObjectsGo, Drop, vars, waitVars
<1>3. CASE CliTick
  BY <1>3 DEF CliTick, Tick
<1>4. CASE Check \/ RunTimer \/ RunSocketInPart \/ RunSocket \/ SpinEnds
  BY <1>4 DEF Check, RunTimer, RunSocketInPart, RunSocket, SpinEnds, Complete, TypeOK
<1>5. CASE Poll
  BY <1>5 DEF Poll
<1>6. CASE PollReports \/ PollElapses \/ PollInterrupted
  BY <1>6 DEF PollReports, PollElapses, PollInterrupted, SleepsOnPurpose
<1>7. CASE DaemonAnswers \/ Publish \/ PublishFails \/ EndObject
  BY <1>7, Arrivals DEF waitVars
<1>. QED  BY <1>1, <1>2, <1>3, <1>4, <1>5, <1>6, <1>7, Cases

\* An answer that a poll reported in time becomes the result.
LEMMA InTimeStep ==
    ASSUME TypeOK, ReadyInSpin, AnswerInTime, SleepsOnPurpose, CliNext
    PROVE  AnswerInTime'
<1> USE DEF AnswerInTime
<1>1. CASE Operate \/ CliReturn
  BY <1>1 DEF Operate, Submit, CliReturn, Return, history
<1>2. CASE EndScenario
  BY <1>2 DEF EndScenario, ObjectsGo, Drop, vars, waitVars, history
<1>3. CASE CliTick
  BY <1>3 DEF CliTick, Tick, sdkVars, netVars, history
<1>4. CASE Check \/ RunTimer \/ SpinEnds
  BY <1>4 DEF Check, RunTimer, SpinEnds, Complete, sdkVars, netVars, history
<1>5. CASE RunSocketInPart
  BY <1>5 DEF RunSocketInPart
<1>6. CASE RunSocket
  <2>1. socket # << >> /\ HandleMessage(Head(socket)) /\ Head(socket) \in Messages
    BY <1>6, HeadAndTail DEF RunSocket, ReceiveOne, TypeOK
  <2>. QED  BY <1>6, <2>1, HandledResult DEF RunSocket, TypeOK
<1>7. CASE Poll \/ PollElapses \/ PollInterrupted
  BY <1>7 DEF Poll, PollElapses, PollInterrupted, sdkVars, netVars, history
<1>8. CASE PollReports
  BY <1>8 DEF PollReports, SleepsOnPurpose, sdkVars, netVars
<1>9. CASE DaemonAnswers \/ Publish \/ PublishFails \/ EndObject
  BY <1>9, Arrivals DEF waitVars, sdkVars, history
<1>. QED  BY <1>1, <1>2, <1>3, <1>4, <1>5, <1>6, <1>7, <1>8, <1>9, Cases

\* The steps that neither the program nor a message takes: the objects, their receivers
\* and the scenario stay, and only the timer makes a result.
Elsewhere ==
    \/ CliTick
    \/ /\ UNCHANGED cliVars
       /\ \/ Check \/ RunTimer \/ RunSocketInPart \/ SpinEnds
          \/ Poll \/ PollReports \/ PollElapses \/ PollInterrupted
          \/ DaemonAnswers \/ Publish \/ PublishFails \/ EndObject

LEMMA ElsewhereStep ==
    ASSUME TypeOK, Elsewhere
    PROVE  /\ UNCHANGED << kind, objects, receiver, prev, touched, at, done, result >>
           /\ (pc' = "idle") = (pc = "idle")
           /\ slot' = slot \/ (slot = NoResult /\ slot' = TimedOut)
           /\ pc = "check" /\ slot # NoResult => pc' = pc /\ slot' = slot
           /\ pc = "idle" => slot' = slot
<1>1. CASE CliTick
  BY <1>1 DEF CliTick, Tick, sdkVars, history
<1>2. CASE UNCHANGED cliVars /\ (Check \/ RunTimer \/ RunSocketInPart \/ SpinEnds)
  BY <1>2 DEF Check, RunTimer, RunSocketInPart, SpinEnds, Complete, cliVars, sdkVars, history
<1>3. CASE UNCHANGED cliVars /\ (Poll \/ PollReports \/ PollElapses \/ PollInterrupted)
  BY <1>3 DEF Poll, PollReports, PollElapses, PollInterrupted, cliVars, sdkVars, history
<1>4. CASE UNCHANGED cliVars /\ (DaemonAnswers \/ Publish \/ PublishFails \/ EndObject)
  BY <1>4, Arrivals DEF cliVars, waitVars, sdkVars, history
<1>. QED  BY <1>1, <1>2, <1>3, <1>4 DEF Elsewhere

LEMMA FewCases ==
    ASSUME CliNext
    PROVE  \/ Operate \/ CliReturn \/ EndScenario \/ Elsewhere
           \/ (UNCHANGED cliVars /\ RunSocket)
BY Cases DEF Elsewhere

\* A scenario that is not over has a sender to wait for.
LEMMA NotOver ==
    ASSUME ~ScenarioIsOver, done \in 0 .. 3
    PROVE  Loops \/ done < Len(SendersOf(This))
<1>1. Len(SendersOf(This)) \in Nat
  BY DEF SendersOf, tryRequestScenario, tryListReadWriteRegsOfNodesScenario,
     tryListReadWriteRegsOfSingleNodeScenario, trySubscriberScenario, tryPublisherScenario,
     tryRpcClientScenario
<1>. QED  BY <1>1 DEF ScenarioIsOver

\* A scenario ends with the object it had, if any.
LEMMA ObjectsEnd ==
    ASSUME InScenario, EndScenario
    PROVE  /\ objects' = {} /\ pc' = "idle" /\ slot' = slot /\ kind' = kind
           /\ \A c \in Channels : receiver'[c] = receiver[c] \/ receiver'[c] = "no"
           /\ \A o \in objects : receiver \in [ Channels -> {"no", "current", "stale"} ] =>
                receiver'[o] = "no"
           /\ UNCHANGED << prev, touched >>
<1>1. \A o, p \in objects : o = p
  BY DEF InScenario, EndScenario, ObjectsOf
<1>2. CASE objects = {}
  BY <1>2 DEF EndScenario, ObjectsGo, vars, waitVars, sdkVars, history
<1>3. CASE objects # {}
  <2>1. PICK o \in objects : Drop(o)
    BY <1>3 DEF EndScenario, ObjectsGo
  <2>2. o \in Channels
    BY DEF InScenario, ObjectsOf, Channels, Objects
  <2>. QED  BY <1>1, <2>1, <2>2 DEF EndScenario, Drop, waitVars, history
<1>. QED  BY <1>2, <1>3

LEMMA ScenarioStep ==
    ASSUME TypeOK, InScenario, CliNext
    PROVE  InScenario'
<1> USE DEF InScenario
<1>1. CASE Operate
  <2>1. /\ pc = "idle" /\ pc' = "check" /\ Running /\ UNCHANGED << at, done, objects >>
        /\ kind' = Operation /\ (Loops \/ done < Len(SendersOf(This)))
    BY <1>1, NotOver DEF Operate, Submit, Operation, cliVars, TypeOK
  <2>2. Operation' = Operation /\ This' = This /\ Loops' = Loops /\ Running' = Running
    BY <2>1 DEF Operation, This, Loops, Running
  <2>. QED  BY <2>1, <2>2
<1>2. CASE CliReturn
  <2>1. /\ pc' = "idle" /\ kind' = "none" /\ slot' = NoResult
        /\ UNCHANGED << at, objects >> /\ done' > 0
    BY <1>2 DEF CliReturn, Return, TypeOK
  <2>2. This' = This /\ Running' = Running
    BY <2>1 DEF This, Running
  <2>. QED  BY <2>1, <2>2
<1>3. CASE EndScenario
  <2>1. objects' = {} /\ pc = "idle" /\ pc' = "idle" /\ kind' = kind /\ slot' = slot
    BY <1>3, ObjectsEnd DEF EndScenario
  <2>. QED  BY <2>1
<1>4. CASE Elsewhere
  <2>1. /\ UNCHANGED << kind, objects, at, done >> /\ (pc' = "idle") = (pc = "idle")
        /\ slot' = NoResult => slot = NoResult
        /\ pc = "idle" => slot' = slot
    BY <1>4, ElsewhereStep DEF NoResult, TimedOut
  <2>2. Operation' = Operation /\ This' = This /\ Loops' = Loops /\ Running' = Running
    BY <2>1 DEF Operation, This, Loops, Running
  <2>. QED  BY <2>1, <2>2
<1>5. CASE UNCHANGED cliVars /\ RunSocket
  <2>1. socket # << >> /\ HandleMessage(Head(socket)) /\ Head(socket) \in Messages
    BY <1>5, HeadAndTail DEF RunSocket, ReceiveOne, TypeOK
  <2>2. UNCHANGED << at, done, pc, kind >> /\ pc = "spin"
    BY <1>5 DEF RunSocket, cliVars
  <2>3. Operation' = Operation /\ This' = This /\ Loops' = Loops /\ Running' = Running
    BY <2>2 DEF Operation, This, Loops, Running
  <2>4. objects' \subseteq ObjectsOf(This)
    BY <2>1, <2>2, OperationFacts DEF HandleMessage, TypeOK
  <2>5. slot' = NoResult => slot = NoResult /\ objects' = objects
    BY <2>1, HandledResult DEF HandleMessage, TypeOK
  <2>. QED  BY <2>2, <2>3, <2>4, <2>5
<1>. QED  BY <1>1, <1>2, <1>3, <1>4, <1>5, FewCases

\* A receiver is stale only between operations, and when one failed at once.
LEMMA ReceiversStep ==
    ASSUME TypeOK, ReadyInSpin, InScenario, Receivers, CliNext
    PROVE  Receivers'
<1> USE DEF Receivers
<1>0. Objects \subseteq Channels /\ "request" \in Channels /\ "request" \notin Objects
      /\ Channels \subseteq Objects \cup {"request"}
      /\ receiver \in [ Channels -> {"no", "current", "stale"} ]
  BY DEF Channels, Objects, TypeOK
<1>1. CASE Operate
  <2> DEFINE k == Operation
             c == ChannelOf(k)
  <2>1. /\ Submit(k, Timeout) /\ pc = "idle" /\ kind' = k /\ pc' = "check" /\ Running
        /\ (Loops \/ done < Len(SendersOf(This))) /\ objects' = objects
        /\ k \in {"receive", "call"} => c \in objects
    BY <1>1, NotOver DEF Operate, Submit, Operation, TypeOK
  <2>2. c \in Channels /\ (c \in Objects => k \in {"receive", "call"})
        /\ (\A o \in ObjectsOf(This) : done > 0 => c = o)
    BY <2>1, OperationFacts DEF TypeOK, ChannelOf, Objects
  <2>3. PICK r \in AtOnce(k) :
          /\ slot' = r
          /\ receiver' = IF c \in Objects /\ r = Failed THEN receiver
                         ELSE [ receiver EXCEPT ![c] = "current" ]
    BY <2>1 DEF Submit
  <2>4. r \in {NoResult, Failed} /\ NoResult # Failed
    BY DEF AtOnce, NoResult, Failed
  <2>5. \A d \in Channels : receiver[d] = "stale" => d = c
    BY <1>0, <2>1, <2>2 DEF InScenario, TypeOK
  <2> HIDE DEF c, k
  <2>6. \A d \in Channels : receiver[d] # "current"
    BY <2>1
  <2>7. CASE c \in Objects /\ r = Failed
    BY <1>0, <2>1, <2>2, <2>3, <2>4, <2>5, <2>6, <2>7
  <2>8. CASE ~(c \in Objects /\ r = Failed)
    <3>1. receiver' = [ receiver EXCEPT ![c] = "current" ]
      BY <2>3, <2>8
    <3>2. receiver'[c] = "current" /\ \A d \in Channels : d # c => receiver'[d] = receiver[d]
      BY <1>0, <2>2, <3>1
    <3>3. c = ChannelOf(kind')
      BY <2>1 DEF c
    <3>4. c \in Objects => c \in objects'
      BY <2>1, <2>2
    <3>. QED  BY <1>0, <2>1, <2>2, <2>5, <2>6, <3>2, <3>3, <3>4
  <2>. QED  BY <2>7, <2>8
<1>2. CASE CliReturn
  <2>1. /\ pc' = "idle" /\ objects' = objects
        /\ receiver' = [ c \in Channels |->
                           IF c = "request" \/ receiver[c] = "no" THEN "no" ELSE "stale" ]
    BY <1>2 DEF CliReturn, Return
  <2>. QED  BY <1>0, <2>1
<1>3. CASE EndScenario
  <2>1. /\ \A c \in Channels : receiver'[c] = receiver[c] \/ receiver'[c] = "no"
        /\ \A o \in objects : receiver'[o] = "no"
        /\ pc = "idle" /\ pc' = "idle"
    BY <1>0, <1>3, ObjectsEnd DEF EndScenario
  <2>. QED  BY <1>0, <2>1
<1>4. CASE Elsewhere
  BY <1>4, ElsewhereStep DEF NoResult, TimedOut
<1>5. CASE UNCHANGED cliVars /\ RunSocket
  <2>1. socket # << >> /\ HandleMessage(Head(socket)) /\ Head(socket) \in Messages
    BY <1>5, HeadAndTail DEF RunSocket, ReceiveOne, TypeOK
  <2>2. objects \subseteq objects' /\ (slot' = NoResult => slot = NoResult)
    BY <2>1, HandledResult DEF HandleMessage, TypeOK
  <2>. QED  BY <1>5, <2>2 DEF RunSocket
<1>. QED  BY <1>1, <1>2, <1>3, <1>4, <1>5, FewCases

\* No receiver of a destroyed sender is called.
LEMMA NoStaleStep ==
    ASSUME TypeOK, InScenario, Receivers, NoStaleReceiver, CliNext
    PROVE  NoStaleReceiver'
<1> USE DEF NoStaleReceiver
<1>1. CASE Operate \/ CliReturn
  BY <1>1 DEF Operate, Submit, CliReturn, Return, history
<1>2. CASE EndScenario
  BY <1>2, ObjectsEnd
<1>3. CASE Elsewhere
  BY <1>3, ElsewhereStep
<1>4. CASE RunSocket
  BY <1>4 DEF RunSocket, ReceiveOne, HandleMessage, Receivers
<1>. QED  BY <1>1, <1>2, <1>3, <1>4, FewCases

\* The next message of the subject in the socket comes after the last one printed, and
\* the ones between were lost.
LEMMA NextIsFirst ==
    ASSUME TypeOK, Subscription, GoesOn, socket # << >>, Observed(1)
    PROVE  /\ socket[1].what \in (Printed + 1 .. published) \ lost
           /\ Printed + 1 .. socket[1].what - 1 \subseteq lost
<1>1. 1 \in DOMAIN socket /\ Printed \in Nat /\ published \in Nat
  BY Constants DEF TypeOK, Printed
<1>2. socket[1].what \in (Printed + 1 .. published) \ lost
  BY <1>1 DEF Subscription
<1>3. ASSUME NEW n \in Printed + 1 .. socket[1].what - 1, n \notin lost
      PROVE  FALSE
  <2>1. n \in (Printed + 1 .. published) \ lost /\ n < socket[1].what
    BY <1>1, <1>2, <1>3
  <2>2. PICK i \in DOMAIN socket : Observed(i) /\ socket[i].what = n
    BY <2>1 DEF Subscription
  <2>3. i = 1 \/ (i > 1 /\ socket[1].what < socket[i].what)
    BY <1>1, <2>2 DEF Subscription, TypeOK
  <2>. QED  BY <1>1, <1>2, <2>1, <2>2, <2>3
<1>. QED  BY <1>2, <1>3

\* A spin that reads a message of the subject hands it to the receiver of receive.
LEMMA ReadsForReceive ==
    ASSUME TypeOK, ReadyInSpin, InScenario, Receivers, RunSocket, "subscriber" \in objects
    PROVE  \/ slot = TimedOut
           \/ slot = NoResult /\ kind = "receive" /\ receiver["subscriber"] = "current"
<1>1. pc = "spin" /\ ready # "no"
  BY DEF RunSocket
<1>2. slot \in {NoResult, TimedOut}
  BY <1>1 DEF ReadyInSpin
<1>3. CASE slot = NoResult
  <2>1. done > 0 /\ "subscriber" \in ObjectsOf(This) /\ kind = Operation
        /\ (Loops \/ done < Len(SendersOf(This)))
    BY <1>1, <1>3 DEF InScenario, TypeOK
  <2>2. kind = "receive" /\ ChannelOf(kind) = "subscriber"
    BY <2>1, OperationFacts DEF TypeOK
  <2>. QED  BY <1>1, <1>3, <2>2 DEF Receivers
<1>. QED  BY <1>2, <1>3

\* What is in the socket for the subscriber stays in order, and gapless while it is printed.
LEMMA SubscriptionStep ==
    ASSUME TypeOK, ReadyInSpin, InScenario, Receivers, Subscription, PrintsEveryMessage, CliNext
    PROVE  Subscription' /\ PrintsEveryMessage'
<1>0. /\ socket \in Seq(Messages) /\ MaxMsgs \in Nat /\ published \in Nat /\ prev \in Nat
      /\ Done \notin 1 .. MaxMsgs /\ NoResult \notin 1 .. MaxMsgs
      /\ Failed \notin 1 .. MaxMsgs /\ TimedOut \notin 1 .. MaxMsgs /\ End \notin 1 .. MaxMsgs
      /\ Printed \in Nat
  BY Constants DEF TypeOK, Done, NoResult, Failed, TimedOut, End, Printed
<1>1. CASE Operate
  <2>1. /\ pc = "idle" /\ pc' = "check" /\ kind = "none" /\ kind' = Operation /\ slot = NoResult
        /\ slot' \in {NoResult, Failed} /\ UNCHANGED << socket, published, lost, objects, prev >>
        /\ Running /\ ~GivesUp /\ (Loops \/ done < Len(SendersOf(This)))
    BY <1>1, NotOver
    DEF Operate, Submit, Operation, AtOnce, ScenarioIsOver, TypeOK, InScenario, history
  <2>2. "subscriber" \in objects =>
          kind' = "receive" /\ done > 0 /\ "subscriber" \in ObjectsOf(This)
    BY <2>1, OperationFacts DEF InScenario, TypeOK
  <2>3. "subscriber" \in objects => result \notin {Failed, TimedOut}
    <3>1. SUFFICES ASSUME "subscriber" \in objects PROVE ~Failure
      BY DEF Failure
    <3>2. This = "subscriber"
      BY <2>2, <3>1 DEF ObjectsOf
    <3>. QED  BY <2>1, <2>2, <3>1, <3>2 DEF GivesUp
  <2>4. GoesOn' => GoesOn /\ Printed' = Printed
    BY <1>0, <2>1, <2>2, <2>3 DEF GoesOn, Printed, NoResult, Failed, TimedOut
  <2>5. slot' \notin 1 .. MaxMsgs /\ slot' # Done
    BY <1>0, <2>1 DEF Done, NoResult, Failed
  <2>. QED  BY <2>1, <2>4, <2>5 DEF Subscription, Observed, PrintsEveryMessage
<1>2. CASE CliReturn
  <2>1. /\ pc # "idle" /\ pc' = "idle" /\ kind' = "none" /\ slot # NoResult /\ slot' = NoResult
        /\ UNCHANGED << published, lost, objects >> /\ socket' = WithoutChannel("request")
        /\ result' = slot
        /\ prev' = IF kind = "receive" /\ slot \in 1 .. MaxMsgs THEN slot ELSE 0
    BY <1>2 DEF CliReturn, Return
  <2>2. /\ DOMAIN socket' = DOMAIN socket
        /\ \A i \in DOMAIN socket :
             /\ socket'[i].what = socket[i].what
             /\ (socket'[i].to = "subscriber") = (socket[i].to = "subscriber")
    BY <1>0, <2>1, WithoutChannelFacts
  <2>3. \A i \in DOMAIN socket : Observed(i)' = Observed(i)
    BY <2>2 DEF Observed
  <2>4. kind # "none"
    BY <2>1, OperationFacts DEF InScenario, TypeOK
  <2>5. slot \in {Done, Failed, TimedOut} \cup 1 .. MaxMsgs
    BY <2>1 DEF TypeOK, Results
  <2>6. GoesOn' => GoesOn /\ Printed' = Printed
    BY <1>0, <2>1, <2>4, <2>5 DEF GoesOn, Printed, Subscription
  <2>. QED  BY <2>1, <2>2, <2>3, <2>6 DEF Subscription, PrintsEveryMessage
<1>3. CASE EndScenario
  <2>1. objects' = {} /\ kind' = "none"
    BY <1>3, ObjectsEnd DEF InScenario, EndScenario
  <2>2. published' = 0 /\ lost' = {} /\ \A i \in DOMAIN socket' : socket'[i].to # "subscriber"
    <3>0. "subscriber" \notin objects =>
            published = 0 /\ lost = {} /\ \A i \in DOMAIN socket : socket[i].to # "subscriber"
      BY DEF Subscription
    <3>1. CASE objects = {}
      BY <1>3, <3>0, <3>1 DEF EndScenario, ObjectsGo, vars, netVars
    <3>2. CASE objects # {}
      <4>1. PICK o \in objects : Drop(o)
        BY <1>3, <3>2 DEF EndScenario, ObjectsGo
      <4>2. o = "subscriber" \/ "subscriber" \notin objects
        BY <1>3 DEF InScenario, EndScenario, ObjectsOf
      <4>3. /\ socket' = WithoutChannel(o)
            /\ published' = IF o = "subscriber" THEN 0 ELSE published
            /\ lost' = IF o = "subscriber" THEN {} ELSE lost
        BY <4>1 DEF Drop
      <4>. QED  BY <1>0, <3>0, <4>2, <4>3, WithoutChannelFacts
    <3>. QED  BY <3>1, <3>2
  <2>. QED  BY <2>1, <2>2 DEF Subscription, Observed, GoesOn, PrintsEveryMessage
<1>4. CASE Elsewhere
  <2>1. /\ UNCHANGED << kind, objects, prev, result >> /\ (pc' = "idle") = (pc = "idle")
        /\ slot' = slot \/ slot' = TimedOut
    BY <1>4, ElsewhereStep
  <2>2. GoesOn' => GoesOn /\ Printed' = Printed
    BY <2>1 DEF GoesOn, Printed
  <2>3. kind' = "receive" => slot' # Done
    BY <1>0, <2>1 DEF Subscription, TimedOut, Done
  <2>7. lost' = lost => PrintsEveryMessage'
    BY <1>0, <2>1 DEF PrintsEveryMessage
  <2>4. CASE UNCHANGED << socket, published, lost >>
    BY <2>1, <2>2, <2>3, <2>4, <2>7 DEF Subscription, Observed
  <2>5. CASE DaemonAnswers \/ Publish \/ PublishFails \/ EndObject
    <3>1. /\ DOMAIN socket \subseteq DOMAIN socket'
          /\ \A i \in DOMAIN socket : socket'[i] = socket[i] /\ Observed(i)' = Observed(i)
      BY <2>5, Arrivals DEF Observed
    <3>2. CASE published' = published /\ lost' = lost /\ \A i \in DOMAIN socket' \ DOMAIN socket :
                 socket'[i].to = "subscriber" => "subscriber" \in objects /\ socket'[i].what = End
      <4>1. \A i \in DOMAIN socket' : Observed(i)' => i \in DOMAIN socket
        BY <3>2 DEF Observed
      <4>. QED  BY <2>1, <2>2, <2>3, <2>7, <3>1, <3>2, <4>1 DEF Subscription
    <3>3. CASE /\ published' = published + 1 /\ "subscriber" \in objects /\ lost' = lost
               /\ DOMAIN socket' = DOMAIN socket \cup {Len(socket) + 1}
               /\ socket'[Len(socket) + 1] = Message("subscriber", published + 1)
      <4>0. PICK n \in Nat : n = Len(socket) + 1
        BY <1>0
      <4>1. /\ socket'[n].to = "subscriber" /\ socket'[n].what = published + 1
            /\ Observed(n)' /\ n \in DOMAIN socket'
        BY <1>0, <3>3, <4>0 DEF Message, Observed, End
      <4>2. \A i \in DOMAIN socket : i < n
        BY <1>0, <4>0
      <4>3. \A i \in DOMAIN socket' : i \in DOMAIN socket \/ i = n
        BY <3>3, <4>0
      <4>4. /\ "subscriber" \in objects'
            /\ \A i \in DOMAIN socket' : Observed(i)' => socket'[i].what \in (1 .. published') \ lost'
            /\ lost' \subseteq 1 .. published'
        BY <1>0, <2>1, <3>1, <3>3, <4>1, <4>3 DEF Subscription
      <4>5. \A i, j \in DOMAIN socket' :
              Observed(i)' /\ Observed(j)' /\ i < j => socket'[i].what < socket'[j].what
        <5>1. SUFFICES ASSUME NEW i \in DOMAIN socket', NEW j \in DOMAIN socket',
                              Observed(i)', Observed(j)', i < j
                       PROVE  socket'[i].what < socket'[j].what
          OBVIOUS
        <5>2. CASE i \in DOMAIN socket /\ j \in DOMAIN socket
          BY <3>1, <5>1, <5>2 DEF Subscription
        <5>3. CASE i \in DOMAIN socket /\ j = n
          BY <1>0, <3>1, <4>1, <5>1, <5>3 DEF Subscription
        <5>4. CASE i = n
          <6>1. n \in Nat /\ DOMAIN socket \subseteq Nat
            BY <1>0
          <6>. QED  BY <4>2, <4>3, <5>1, <5>4, <6>1
        <5>. QED  BY <4>3, <5>2, <5>3, <5>4
      <4>6. ASSUME GoesOn'
            PROVE  /\ Printed' <= published'
                   /\ \A i \in DOMAIN socket' : Observed(i)' => socket'[i].what > Printed'
                   /\ \A k \in (Printed' + 1 .. published') \ lost' :
                        \E i \in DOMAIN socket' : Observed(i)' /\ socket'[i].what = k
        <5>1. GoesOn /\ Printed' = Printed
          BY <2>2, <4>6
        <5>2. Printed <= published
          BY <5>1 DEF Subscription
        <5>3. \A i \in DOMAIN socket' : Observed(i)' => socket'[i].what > Printed'
          BY <1>0, <3>1, <4>1, <4>3, <5>1, <5>2 DEF Subscription
        <5>4. ASSUME NEW k \in (Printed + 1 .. published + 1) \ lost
              PROVE  \E i \in DOMAIN socket' : Observed(i)' /\ socket'[i].what = k
          <6>1. CASE k = published + 1
            BY <4>1, <6>1
          <6>2. CASE k # published + 1
            <7>1. k \in (Printed + 1 .. published) \ lost
              BY <1>0, <6>2
            <7>2. PICK i \in DOMAIN socket : Observed(i) /\ socket[i].what = k
              BY <5>1, <7>1 DEF Subscription
            <7>. QED  BY <3>1, <7>2
          <6>. QED  BY <6>1, <6>2
        <5>. QED  BY <1>0, <3>3, <5>1, <5>2, <5>3, <5>4
      <4>. QED  BY <2>3, <2>7, <3>3, <4>4, <4>5, <4>6 DEF Subscription
    <3>4. CASE /\ published' = published + 1 /\ "subscriber" \in objects
               /\ socket' = socket /\ lost' = lost \cup {published + 1}
      <4>1. DOMAIN socket' = DOMAIN socket /\ lost \subseteq 1 .. published
            /\ \A i \in DOMAIN socket : Observed(i) => socket[i].what \in (1 .. published) \ lost
        BY <3>4 DEF Subscription
      <4>5. \A p \in Nat : \A x \in 1 .. p : x \in 1 .. p + 1 /\ x # p + 1
        OBVIOUS
      <4>6. published + 1 \in 1 .. published + 1
        BY <1>0
      <4>2. /\ lost' \subseteq 1 .. published'
            /\ \A i \in DOMAIN socket : Observed(i) => socket[i].what \in (1 .. published') \ lost'
        BY ONLY <1>0, <3>4, <4>1, <4>5, <4>6
      <4>3. ASSUME GoesOn'
            PROVE  /\ Printed' <= published'
                   /\ \A k \in (Printed' + 1 .. published') \ lost' :
                        k \in (Printed + 1 .. published) \ lost
        <5>1. GoesOn /\ Printed' = Printed /\ Printed <= published
          BY <2>2, <4>3 DEF Subscription
        <5>. QED  BY <1>0, <3>4, <5>1
      <4>4. PrintsEveryMessage'
        <5>1. SUFFICES ASSUME kind = "receive", slot' \in 1 .. MaxMsgs
                       PROVE  /\ prev < slot' /\ slot' \notin lost'
                              /\ prev + 1 .. slot' - 1 \subseteq lost'
          BY <2>1 DEF PrintsEveryMessage
        <5>2. slot' = slot
          BY <1>0, <2>1, <5>1
        <5>3. GoesOn /\ Printed = slot
          <6>1. pc # "idle"
            BY <5>1 DEF InScenario
          <6>. QED  BY <1>0, <3>4, <5>1, <5>2, <6>1 DEF GoesOn, Printed
        <5>4. slot <= published /\ slot \in Nat
          BY <1>0, <5>1, <5>2, <5>3 DEF Subscription
        <5>. QED  BY <1>0, <3>4, <5>1, <5>2, <5>4 DEF PrintsEveryMessage
      <4>. QED  BY <2>1, <2>2, <2>3, <3>1, <3>4, <4>1, <4>2, <4>3, <4>4 DEF Subscription
    <3>. QED  BY <2>5, <3>2, <3>3, <3>4, Arrivals
  <2>. QED  BY <1>4, <2>4, <2>5 DEF Elsewhere, CliTick, Tick, Check, RunTimer, RunSocketInPart,
            SpinEnds, Poll, PollReports, PollElapses, PollInterrupted, netVars
<1>5. CASE UNCHANGED cliVars /\ RunSocket
  <2> DEFINE m == Head(socket)
  <2>1. /\ socket # << >> /\ HandleMessage(m) /\ m \in Messages /\ m = socket[1]
        /\ socket' = Tail(socket)
        /\ pc = "spin" /\ UNCHANGED << pc, kind, published, lost, prev, result >>
    BY <1>0, <1>5, HeadAndTail DEF RunSocket, ReceiveOne, cliVars
  <2>2. /\ DOMAIN socket' = 1 .. Len(socket) - 1 /\ DOMAIN socket = 1 .. Len(socket)
        /\ Len(socket) \in Nat
        /\ \A i \in DOMAIN socket' : i + 1 \in DOMAIN socket /\ socket'[i] = socket[i + 1]
    BY <1>0, <2>1, HeadAndTail
  <2>3. \A i \in DOMAIN socket' : Observed(i)' = Observed(i + 1)
    BY <2>2 DEF Observed
  <2>4. objects \subseteq objects'
    BY <2>1 DEF HandleMessage
  <2>5. \A i, j \in DOMAIN socket' :
          Observed(i)' /\ Observed(j)' /\ i < j => socket'[i].what < socket'[j].what
    <3>1. \A i, j \in DOMAIN socket' : i < j => i + 1 < j + 1
      BY <2>2
    <3>. QED  BY <2>2, <2>3, <3>1 DEF Subscription
  <2>6. /\ "subscriber" \notin objects' => published' = 0
        /\ \A i \in DOMAIN socket' :
             /\ socket'[i].to = "subscriber" => "subscriber" \in objects'
             /\ Observed(i)' => socket'[i].what \in (1 .. published') \ lost'
        /\ lost' \subseteq 1 .. published'
    BY <2>1, <2>2, <2>3, <2>4 DEF Subscription
  <2>7. CASE "subscriber" \notin objects
    <3>1. published = 0 /\ \A i \in DOMAIN socket : socket[i].to # "subscriber"
      BY <2>7 DEF Subscription
    <3>2. \A i \in DOMAIN socket' : ~Observed(i)'
      BY <2>2, <3>1 DEF Observed
    <3>3. GoesOn' => kind \notin {"receive", "none"}
      <4>1. SUFFICES ASSUME "subscriber" \in objects' PROVE kind \notin {"receive", "none"}
        BY DEF GoesOn
      <4>2. Made(kind) # {}
        BY <2>1, <2>7, <4>1 DEF HandleMessage
      <4>. QED  BY <4>2 DEF Made
    <3>4. GoesOn' => Printed' = 0
      BY <2>1, <3>3 DEF Printed
    <3>5. kind = "receive" => slot' # Done /\ slot' \notin 1 .. MaxMsgs
      <4>1. SUFFICES ASSUME kind = "receive"
                     PROVE  slot' # Done /\ slot' \notin 1 .. MaxMsgs
        OBVIOUS
      <4>2. receiver["subscriber"] = "no"
        BY <2>7 DEF Receivers, Objects
      <4>3. \A c \in Channels : receiver[c] # "current"
        BY <4>1, <4>2 DEF Receivers, ChannelOf
      <4>4. slot' = slot
        BY <2>1, <4>3, HandledResult DEF TypeOK
      <4>5. slot \in {NoResult, TimedOut}
        BY <1>5 DEF ReadyInSpin, RunSocket
      <4>. QED  BY <1>0, <4>4, <4>5 DEF NoResult, TimedOut, Done
    <3>. QED  BY <1>0, <2>1, <2>5, <2>6, <3>1, <3>2, <3>4, <3>5
              DEF Subscription, PrintsEveryMessage
  <2>8. CASE "subscriber" \in objects
    <3>1. \/ slot = TimedOut /\ slot' = TimedOut
          \/ slot = NoResult /\ kind = "receive" /\ receiver["subscriber"] = "current"
      BY <1>5, <2>1, <2>8, ReadsForReceive, HandledResult DEF TypeOK, NoResult, TimedOut
    <3>2. CASE slot = TimedOut /\ slot' = TimedOut
      <4>1. ~GoesOn' /\ slot' # Done /\ slot' \notin 1 .. MaxMsgs
        BY <1>0, <3>2 DEF GoesOn, TimedOut, Done
      <4>. QED  BY <2>5, <2>6, <4>1 DEF Subscription, PrintsEveryMessage
    <3>3. CASE slot = NoResult /\ kind = "receive" /\ receiver["subscriber"] = "current"
      <4>1. GoesOn /\ Printed = prev
        BY <1>0, <2>1, <2>8, <3>3 DEF GoesOn, Printed, NoResult, Failed, TimedOut
      <4>2. CASE Observed(1)
        <5>0. /\ m.what \in (prev + 1 .. published) \ lost
              /\ prev + 1 .. m.what - 1 \subseteq lost
              /\ m.to = "subscriber" /\ m.what # End
          BY <1>0, <2>1, <4>1, <4>2, NextIsFirst DEF Observed
        <5>1. m.what \in 1 .. MaxMsgs /\ prev < m.what
          BY <1>0, <5>0 DEF TypeOK
        <5>2. slot' \in {m.what, Failed}
          BY <2>1, <3>3, <5>0, HandledResult DEF ResultsOf, TypeOK, Channels, Objects
        <5>3. (kind = "receive" => slot' # Done) /\ PrintsEveryMessage'
          BY <1>0, <2>1, <5>0, <5>1, <5>2 DEF PrintsEveryMessage, Done, Failed
        <5>4. ASSUME GoesOn'
              PROVE  /\ Printed' <= published'
                     /\ \A i \in DOMAIN socket' : Observed(i)' => socket'[i].what > Printed'
                     /\ \A n \in (Printed' + 1 .. published') \ lost' :
                          \E i \in DOMAIN socket' : Observed(i)' /\ socket'[i].what = n
          <6>1. slot' = m.what
            BY <5>2, <5>4 DEF GoesOn
          <6>2. Printed' = m.what
            BY <2>1, <3>3, <5>1, <6>1 DEF Printed
          <6>3. m.what <= published
            BY <1>0, <5>0
          <6>4. ASSUME NEW i \in DOMAIN socket', Observed(i)'
                PROVE  socket'[i].what > m.what
            <7>1. Observed(i + 1) /\ i + 1 \in DOMAIN socket /\ 1 < i + 1 /\ 1 \in DOMAIN socket
              BY <2>2, <2>3, <6>4
            <7>2. socket[1].what < socket[i + 1].what /\ socket[i + 1].what \in Nat
              BY <1>0, <4>2, <7>1 DEF Subscription
            <7>. QED  BY <1>0, <2>1, <2>2, <5>1, <7>2
          <6>5. ASSUME NEW n \in (m.what + 1 .. published) \ lost
                PROVE  \E i \in DOMAIN socket' : Observed(i)' /\ socket'[i].what = n
            <7>1. n \in (Printed + 1 .. published) \ lost /\ n # m.what /\ n \in Nat
              BY <1>0, <4>1, <5>0, <5>1
            <7>2. PICK j \in DOMAIN socket : Observed(j) /\ socket[j].what = n
              BY <4>1, <7>1 DEF Subscription
            <7>3. j # 1
              BY <2>1, <7>1, <7>2
            <7>4. j - 1 \in DOMAIN socket' /\ j - 1 + 1 = j
              BY <2>2, <7>3
            <7>. QED  BY <2>2, <2>3, <7>2, <7>4
          <6>. QED  BY <1>0, <2>1, <6>2, <6>3, <6>4, <6>5
        <5>. QED  BY <2>1, <2>5, <2>6, <5>3, <5>4 DEF Subscription
      <4>3. CASE ~Observed(1)
        <5>1. slot' \in {NoResult, Failed}
          <6>1. CASE m.to = "subscriber"
            <7>1. m.what = End
              BY <2>1, <4>3, <6>1 DEF Observed
            <7>. QED  BY <2>1, <3>3, <6>1, <7>1, HandledResult DEF ResultsOf, TypeOK, Channels, Objects
          <6>2. CASE m.to # "subscriber"
            <7>1. ~(m.to \in Channels /\ receiver[m.to] = "current")
              BY <3>3, <6>2 DEF Receivers, ChannelOf
            <7>. QED  BY <2>1, <3>3, <7>1, HandledResult DEF TypeOK
          <6>. QED  BY <6>1, <6>2
        <5>2. slot' # Done /\ slot' \notin 1 .. MaxMsgs
          BY <1>0, <5>1 DEF NoResult, Failed, Done
        <5>3. Printed' = Printed
          BY <2>1, <3>3, <4>1, <5>2 DEF Printed
        <5>4. ASSUME NEW n \in (Printed + 1 .. published) \ lost
              PROVE  \E i \in DOMAIN socket' : Observed(i)' /\ socket'[i].what = n
          <6>1. PICK j \in DOMAIN socket : Observed(j) /\ socket[j].what = n
            BY <4>1 DEF Subscription
          <6>2. j - 1 \in DOMAIN socket' /\ j - 1 + 1 = j
            BY <2>2, <4>3, <6>1
          <6>. QED  BY <2>2, <2>3, <6>1, <6>2
        <5>5. \A i \in DOMAIN socket' : Observed(i)' => socket'[i].what > Printed'
          BY <2>2, <2>3, <4>1, <5>3 DEF Subscription
        <5>. QED  BY <2>1, <2>5, <2>6, <4>1, <5>2, <5>3, <5>4, <5>5
                  DEF Subscription, PrintsEveryMessage
      <4>. QED  BY <4>2, <4>3
    <3>. QED  BY <3>1, <3>2, <3>3
  <2>. QED  BY <2>7, <2>8
<1>. QED  BY <1>1, <1>2, <1>3, <1>4, <1>5, FewCases

-----------------------------------------------------------------------------
(***************************************************************************)
(* The results.                                                            *)
(***************************************************************************)
LEMMA CliInvInit == CliInit => CliInv
<1> SUFFICES ASSUME CliInit PROVE CliInv
  OBVIOUS
<1> USE DEF CliInit, Init
<1>1. TypeOK
  <2>1. receiver \in [ Channels -> {"no", "current", "stale"} ] /\ socket \in Seq(Messages)
    OBVIOUS
  <2>2. published \in 0 .. MaxMsgs /\ prev \in 0 .. MaxMsgs /\ done \in 0 .. 3 /\ nap \in Nat
    BY Constants
  <2>. QED  BY <2>1, <2>2 DEF TypeOK
<1>2. ReadyInSpin /\ SleepsOnPurpose /\ AnswerInTime /\ NoStaleReceiver /\ PrintsEveryMessage
  BY DEF ReadyInSpin, SleepsOnPurpose, AnswerInTime, NoStaleReceiver, PrintsEveryMessage
<1>3. InScenario /\ Subscription
  BY DEF InScenario, Subscription, Observed, GoesOn
<1>4. Receivers
  BY DEF Receivers, Channels, Objects
<1>. QED  BY <1>1, <1>2, <1>3, <1>4 DEF CliInv

LEMMA CliInvStep ==
    ASSUME CliInv, [CliNext]_allVars
    PROVE  CliInv'
<1> USE DEF CliInv
<1>1. CASE CliNext
  BY <1>1, TypeStep, ReadyStep, SleepStep, InTimeStep, ScenarioStep, ReceiversStep, NoStaleStep,
     SubscriptionStep
<1>2. CASE UNCHANGED allVars
  <2>1. UNCHANGED << vars, cliVars >>
    BY <1>2 DEF allVars
  <2>2. UNCHANGED << pc, kind, slot, left, fired, nap, ready, objects, completed, receiver, socket,
                     owed, published, lost, in_time, prev, touched, at, done, result, until >>
    BY <2>1 DEF vars, cliVars, waitVars, sdkVars, netVars, history
  <2>3. TypeOK' /\ ReadyInSpin' /\ SleepsOnPurpose' /\ AnswerInTime' /\ NoStaleReceiver'
    BY <2>2 DEF TypeOK, ReadyInSpin, SleepsOnPurpose, AnswerInTime, NoStaleReceiver
  <2>4. This' = This /\ Loops' = Loops /\ Running' = Running /\ Operation' = Operation
    BY <2>2 DEF This, Loops, Running, Operation
  <2>5. InScenario' /\ Receivers' /\ PrintsEveryMessage'
    BY <2>2, <2>4 DEF InScenario, Receivers, PrintsEveryMessage
  <2>6. Subscription'
    BY <2>2 DEF Subscription, Observed, GoesOn, Printed
  <2>. QED  BY <2>3, <2>5, <2>6
<1>. QED  BY <1>1, <1>2

(***************************************************************************)
(* The inductive invariant holds in every behaviour of the tool: how the   *)
(* polls, the timer and the socket of sync_wait, the receivers that the    *)
(* SDK keeps, and the messages under way fit the scenario that runs.       *)
(***************************************************************************)
THEOREM CliInvariant == CliSpec => []CliInv
<1>1. CliInv /\ [CliNext]_allVars => CliInv'
  BY CliInvStep
<1>. QED  BY <1>1, CliInvInit, PTL DEF CliSpec

(***************************************************************************)
(* waitPollingUntil never polls past the deadline of sync_wait, nor when   *)
(* the result is there, whatever the timeouts and their rounding.          *)
(***************************************************************************)
THEOREM PollsOnPurpose == CliSpec => []SleepsOnPurpose
<1>1. CliInv => SleepsOnPurpose
  BY DEF CliInv
<1>. QED  BY <1>1, CliInvariant, PTL

(***************************************************************************)
(* An answer that a poll reported before the deadline is the result of     *)
(* sync_wait, also when timeout_cb is due in the same spin.                *)
(***************************************************************************)
THEOREM TimelyAnswerWins == CliSpec => []InTimeWins
<1>1. CliInv => InTimeWins
  BY DEF CliInv, AnswerInTime, InTimeWins
<1>. QED  BY <1>1, CliInvariant, PTL

(***************************************************************************)
(* The receiver of a sender that is destroyed is never called, although    *)
(* publishers, subscribers and RPC clients keep it, for any scenarios in   *)
(* any order.                                                              *)
(***************************************************************************)
THEOREM ReceiversAreLive == CliSpec => []NoStaleReceiver
<1>1. CliInv => NoStaleReceiver
  BY DEF CliInv
<1>. QED  BY <1>1, CliInvariant, PTL

(***************************************************************************)
(* The subscriber scenario prints the messages in order, none twice, and   *)
(* from its subscription on each one but those that the daemon failed to   *)
(* write, however many are observed and however they interleave with its   *)
(* polls and timeouts.                                                     *)
(***************************************************************************)
THEOREM EveryMessageIsPrinted == CliSpec => []PrintsEveryMessage
<1>1. CliInv => PrintsEveryMessage
  BY DEF CliInv
<1>. QED  BY <1>1, CliInvariant, PTL
=============================================================================
