------------------------------ MODULE IpcProofs -----------------------------
(***************************************************************************)
(* Proofs about IpcSystem: that variables keep their types, that the IPC   *)
(* delivers in order and falls silent after an end, and that the routers   *)
(* and pipes implement ChannelContract, for every number of clients, tags, *)
(* messages and in-flight messages, and whether or not writes may fail.    *)
(* For the contract, the invariant IpcInv gives what the abstract guards   *)
(* ask for: that a message at the head of a queue may follow those already *)
(* handed over, and that a registered end has been opened.                 *)
(***************************************************************************)
EXTENDS IpcInductive, TLAPS

-----------------------------------------------------------------------------
(***************************************************************************)
(* Lemmas about messages.                                                  *)
(***************************************************************************)

\* Errors keep their type on the way through the wire.
LEMMA ErrorRoundTrip ==
    ASSUME NEW e \in OptErrors
    PROVE  dsdlErrorToOptError(optErrorToDsdlError(e)) \in OptErrors
BY DEF OptErrors, NoError, ErrorCode, dsdlErrorToOptError, optErrorToDsdlError

\* The fields of a message that is in flight.
LEMMA MessageFields ==
    ASSUME NEW m \in Messages
    PROVE  /\ m.kind \in {"connect", "msg", "end"}
           /\ m.kind = "msg" => m.tag \in Tags /\ m.sequence \in 0 .. MaxSeq
           /\ m.kind = "end" => /\ m.tag \in Tags /\ m.keep_alive \in BOOLEAN
                                /\ dsdlErrorToOptError(m.error) \in OptErrors
<1>1. CASE m = RouteConnect
  BY <1>1 DEF RouteConnect
<1>2. CASE \E t \in Tags, n \in 0 .. MaxSeq, s \in Services : m = ChMsg(t, n, s)
  BY <1>2 DEF ChMsg
<1>3. CASE \E t \in Tags, k \in BOOLEAN, e \in OptErrors : m = ChEnd(t, k, e)
  BY <1>3, ErrorRoundTrip DEF ChEnd
<1>. QED
  BY <1>1, <1>2, <1>3 DEF Messages

\* The messages the routers build.
LEMMA MessagesBuilt ==
    /\ RouteConnect \in Messages
    /\ \A ch \in Chan, n \in 0 .. MaxSeq : ChMsg(ch[2], n, ServiceOf[ch[2]]) \in Messages
    /\ \A ch \in Chan, k \in BOOLEAN, e \in OptErrors : ChEnd(ch[2], k, e) \in Messages
BY PipeAssumption DEF Messages, Chan, Tags

\* A channel is named by a client and a tag.
LEMMA ChanFields ==
    /\ \A ch \in Chan : ch[1] \in Clients /\ ch[2] \in Tags /\ ch = << ch[1], ch[2] >>
    /\ \A c \in Clients, t \in Tags : << c, t >> \in Chan
BY DEF Chan

-----------------------------------------------------------------------------
(***************************************************************************)
(* Type correctness.                                                       *)
(***************************************************************************)
LEMMA TypeInit == Init => TypeOK
BY PipeAssumption DEF Init, PipeInit, ClientInit, ServerInit, TypeOK, PipeTypeOK,
   ClientTypeOK, ServerTypeOK, ClientPipeStates, ServerPipeStates, OptErrors, NoError

\* Writing to a pipe keeps the queues well typed.
LEMMA ClientSendType ==
    ASSUME PipeTypeOK, NEW c \in Clients, NEW m \in Messages, NEW ok, ClientPipeSend(c, m, ok)
    PROVE  c2s' \in [ Clients -> Seq(Messages) ]
<1>1. c2s \in [ Clients -> Seq(Messages) ]
  BY DEF PipeTypeOK
<1>2. Append(c2s[c], m) \in Seq(Messages)
  BY <1>1
<1>. QED
  BY <1>1, <1>2 DEF ClientPipeSend

\* The same for a write of the daemon (SocketServer::send).
LEMMA ServerSendType ==
    ASSUME PipeTypeOK, NEW c \in Clients, NEW m \in Messages, NEW ok, ServerPipeSend(c, m, ok)
    PROVE  s2c' \in [ Clients -> Seq(Messages) ]
<1>1. s2c \in [ Clients -> Seq(Messages) ]
  BY DEF PipeTypeOK
<1>2. Append(s2c[c], m) \in Seq(Messages)
  BY <1>1
<1>. QED
  BY <1>1, <1>2 DEF ServerPipeSend

\* Writing the terminal ChEnd of a channel.
LEMMA ServerPostFinalType ==
    ASSUME PipeTypeOK, ServerTypeOK, NEW ch \in Chan, NEW e \in OptErrors,
           ServerPostFinal(ch, e)
    PROVE  /\ s2c' \in [ Clients -> Seq(Messages) ]
           /\ slossy' \subseteq Chan
           /\ sfinal' \in [ Chan -> OptErrors \cup {"no"} ]
<1>1. PICK ok \in BOOLEAN :
        /\ ServerPost(ch, ChEnd(ch[2], FALSE, e), ok)
        /\ sfinal' = IF ok /\ sfinal[ch] = "no" THEN [ sfinal EXCEPT ![ch] = e ] ELSE sfinal
  BY DEF ServerPostFinal
<1>2. ChEnd(ch[2], FALSE, e) \in Messages
  BY MessagesBuilt
<1>3. s2c' \in [ Clients -> Seq(Messages) ]
  BY <1>1, <1>2, ServerSendType, ChanFields DEF ServerPost
<1>. QED
  BY <1>1, <1>3 DEF ServerPost, ServerTypeOK

\* Steps of the owners of client channels keep the types.
LEMMA ClientOwnerType == TypeOK /\ ClientOwnerStep => TypeOK'
<1> SUFFICES ASSUME TypeOK, ClientOwnerStep PROVE TypeOK'
  OBVIOUS
<1> USE DEF TypeOK
<1>0. ServerTypeOK'
  BY DEF ClientOwnerStep, srouterVars, ServerTypeOK
<1>1. ASSUME NEW c \in Clients, MakeGateway(c) PROVE TypeOK'
  <2>1. << c, next_tag[c] >> \in Chan /\ next_tag[c] + 1 \in 0 .. MaxTags
    BY <1>1, PipeAssumption, ChanFields DEF MakeGateway, ClientTypeOK, Tags
  <2>. QED
    BY <1>0, <1>1, <2>1 DEF MakeGateway, PipeTypeOK, ClientTypeOK, pipeVars
<1>2. ASSUME NEW ch \in Chan, Subscribe(ch) PROVE TypeOK'
  BY <1>0, <1>2 DEF Subscribe, OnGatewaySubscription, PipeTypeOK, ClientTypeOK, pipeVars
<1>3. ASSUME NEW ch \in Chan, ClientSend(ch) PROVE TypeOK'
  <2>1. cseq[ch] \in 0 .. MaxSeq /\ cseq[ch] + 1 \in 0 .. MaxSeq
    BY <1>3, PipeAssumption DEF ClientSend, ClientTypeOK
  <2>2. c2s' \in [ Clients -> Seq(Messages) ] /\ clossy' \subseteq Chan
    BY <1>3, <2>1, MessagesBuilt, ClientSendType, ChanFields
       DEF ClientSend, ClientPost, ClientTypeOK
  <2>. QED
    BY <1>0, <1>3, <2>1, <2>2 DEF ClientSend, PipeTypeOK, ClientTypeOK
<1>4. ASSUME NEW ch \in Chan, ClientDispose(ch) PROVE TypeOK'
  <2>1. cerr[ch] \in OptErrors
    BY DEF ClientTypeOK
  <2>2. /\ c2s' \in [ Clients -> Seq(Messages) ] /\ clossy' \subseteq Chan
        /\ cfinal' \in [ Chan -> OptErrors \cup {"no"} ]
    <3>1. CASE DisposalPosts(ch)
      BY <1>4, <2>1, <3>1, MessagesBuilt, ClientSendType, ChanFields
         DEF ClientDispose, ClientPost, ClientTypeOK, FirstFinal
    <3>2. CASE ~DisposalPosts(ch)
      BY <1>4, <3>2 DEF ClientDispose, ClientTypeOK, PipeTypeOK
    <3>. QED  BY <3>1, <3>2
  <2>. QED
    BY <1>0, <1>4, <2>2 DEF ClientDispose, PipeTypeOK, ClientTypeOK
<1>5. ASSUME NEW ch \in Chan, NEW e \in Errors, NEW k \in BOOLEAN, ClientComplete(ch, e, k)
      PROVE TypeOK'
  <2>1. e \in OptErrors
    BY PipeAssumption
  <2>2. /\ c2s' \in [ Clients -> Seq(Messages) ] /\ clossy' \subseteq Chan
        /\ cfinal' \in [ Chan -> OptErrors \cup {"no"} ]
    <3>1. CASE cseq[ch] # 0
      BY <1>5, <2>1, <3>1, MessagesBuilt, ClientSendType, ChanFields
         DEF ClientComplete, ClientPost, ClientTypeOK, FirstFinal
    <3>2. CASE cseq[ch] = 0
      BY <1>5, <3>2 DEF ClientComplete, ClientTypeOK, PipeTypeOK
    <3>. QED  BY <3>1, <3>2
  <2>. QED
    BY <1>0, <1>5, <2>1, <2>2 DEF ClientComplete, PipeTypeOK, ClientTypeOK
<1>. QED
  BY <1>1, <1>2, <1>3, <1>4, <1>5 DEF ClientOwnerStep

\* Steps of the services keep the types.
LEMMA ServiceType == TypeOK /\ ServiceStep => TypeOK'
<1> SUFFICES ASSUME TypeOK, ServiceStep PROVE TypeOK'
  OBVIOUS
<1> USE DEF TypeOK
<1>0. ClientTypeOK'
  BY DEF ServiceStep, crouterVars, ClientTypeOK
<1>1. ASSUME NEW ch \in Chan, ServerSend(ch) PROVE TypeOK'
  <2>1. sseq[ch] \in 0 .. MaxSeq /\ sseq[ch] + 1 \in 0 .. MaxSeq
    BY <1>1, PipeAssumption DEF ServerSend, ServerTypeOK
  <2>2. s2c' \in [ Clients -> Seq(Messages) ] /\ slossy' \subseteq Chan
    BY <1>1, <2>1, MessagesBuilt, ServerSendType, ChanFields
       DEF ServerSend, ServerPost, ServerTypeOK
  <2>. QED
    BY <1>0, <1>1, <2>1, <2>2 DEF ServerSend, PipeTypeOK, ServerTypeOK
<1>2. ASSUME NEW ch \in Chan, ServerDispose(ch) PROVE TypeOK'
  <2>1. /\ s2c' \in [ Clients -> Seq(Messages) ] /\ slossy' \subseteq Chan
        /\ sfinal' \in [ Chan -> OptErrors \cup {"no"} ]
    BY <1>2, ServerPostFinalType DEF ServerDispose, ServerTypeOK, PipeTypeOK
  <2>. QED
    BY <1>0, <1>2, <2>1 DEF ServerDispose, PipeTypeOK, ServerTypeOK
<1>3. ASSUME NEW ch \in Chan, NEW e \in Errors, NEW k \in BOOLEAN, ServerComplete(ch, e, k)
      PROVE TypeOK'
  <2>1. e \in OptErrors
    BY PipeAssumption
  <2>2. /\ s2c' \in [ Clients -> Seq(Messages) ] /\ slossy' \subseteq Chan
        /\ sfinal' \in [ Chan -> OptErrors \cup {"no"} ]
    <3>1. CASE ServerPostFinal(ch, e)
      BY <2>1, <3>1, ServerPostFinalType
    <3>2. ASSUME NEW ok \in BOOLEAN, ServerPost(ch, ChEnd(ch[2], TRUE, e), ok), sfinal' = sfinal
          PROVE <2>2!1 /\ <2>2!2
      BY <2>1, <3>2, MessagesBuilt, ServerSendType, ChanFields DEF ServerPost, ServerTypeOK
    <3>. QED  BY <1>3, <3>1, <3>2 DEF ServerComplete
  <2>. QED
    BY <1>0, <1>3, <2>1, <2>2 DEF ServerComplete, PipeTypeOK, ServerTypeOK
<1>. QED
  BY <1>1, <1>2, <1>3 DEF ServiceStep

\* Steps of the processes keep the types.
LEMMA ProcessType == TypeOK /\ ProcessStep => TypeOK'
<1> SUFFICES ASSUME TypeOK, ProcessStep PROVE TypeOK'
  OBVIOUS
<1> USE DEF TypeOK
<1>1. ASSUME NEW c \in Clients, NEW listening \in BOOLEAN, ClientStart(c, listening),
             UNCHANGED << crouterVars, srouterVars >>
      PROVE TypeOK'
  BY <1>1 DEF ClientStart, PipeTypeOK, ClientTypeOK, ServerTypeOK, crouterVars, srouterVars,
     ClientPipeStates, ServerPipeStates
<1>2. ASSUME NEW c \in Clients, ClientExit(c), UNCHANGED srouterVars PROVE TypeOK'
  <2>1. PipeTypeOK'
    BY <1>2 DEF ClientExit, ClientPipeClose, PipeTypeOK, ClientPipeStates
  <2>2. ClientTypeOK'
    BY <1>2 DEF ClientExit, ClientTypeOK
  <2>3. ServerTypeOK'
    BY <1>2 DEF ServerTypeOK, srouterVars
  <2>. QED  BY <2>1, <2>2, <2>3
<1>3. ASSUME DaemonExit, UNCHANGED crouterVars PROVE TypeOK'
  <2>1. PipeTypeOK'
    BY <1>3 DEF DaemonExit, PipeTypeOK, ServerPipeStates
  <2>2. ServerTypeOK'
    BY <1>3 DEF DaemonExit, ServerTypeOK
  <2>3. ClientTypeOK'
    BY <1>3 DEF ClientTypeOK, crouterVars
  <2>. QED  BY <2>1, <2>2, <2>3
<1>. QED
  BY <1>1, <1>2, <1>3 DEF ProcessStep

\* Reading a queue yields a message and leaves the queue well typed.
LEMMA ReadType ==
    ASSUME NEW q \in [ Clients -> Seq(Messages) ], NEW c \in Clients, q[c] # << >>
    PROVE  /\ Head(q[c]) \in Messages
           /\ [ q EXCEPT ![c] = Tail(@) ] \in [ Clients -> Seq(Messages) ]
OBVIOUS

\* Callbacks of a client's executor keep the types.
LEMMA ClientExecutorType ==
    ASSUME TypeOK, NEW c \in Clients,
           ClientReceive(c) \/ ClientConnect(c) \/ ClientLosesPipe(c)
    PROVE  TypeOK'
<1> USE DEF TypeOK
<1>0. ServerTypeOK'
  BY DEF ClientReceive, ClientConnect, ClientLosesPipe, srouterVars, ServerTypeOK
<1>1. CASE ClientHandleRouteConnect(c)
  BY <1>0, <1>1, ReadType DEF ClientHandleRouteConnect, PipeTypeOK, ClientTypeOK
<1>2. CASE ClientHandleRouteChannelMsg(c)
  <2>1. Head(s2c[c]) \in Messages /\ s2c' \in [ Clients -> Seq(Messages) ]
    BY <1>2, ReadType DEF ClientHandleRouteChannelMsg, PipeTypeOK
  <2>2. << c, Head(s2c[c]).tag >> \in Chan /\ Head(s2c[c]).sequence \in 0 .. MaxSeq
    BY <1>2, <2>1, MessageFields, ChanFields DEF ClientHandleRouteChannelMsg
  <2>. QED
    BY <1>0, <1>2, <2>1, <2>2 DEF ClientHandleRouteChannelMsg, PipeTypeOK, ClientTypeOK
<1>3. CASE ClientHandleRouteChannelEnd(c)
  <2>1. Head(s2c[c]) \in Messages /\ s2c' \in [ Clients -> Seq(Messages) ]
    BY <1>3, ReadType DEF ClientHandleRouteChannelEnd, PipeTypeOK
  <2>2. /\ << c, Head(s2c[c]).tag >> \in Chan
        /\ dsdlErrorToOptError(Head(s2c[c]).error) \in OptErrors
    BY <1>3, <2>1, MessageFields, ChanFields DEF ClientHandleRouteChannelEnd
  <2>. QED
    BY <1>0, <1>3, <2>1, <2>2
       DEF ClientHandleRouteChannelEnd, AfterEnd, PipeTypeOK, ClientTypeOK
<1>4. CASE ClientPipeConnected(c)
  <2>1. c2s' \in [ Clients -> Seq(Messages) ]
    BY <1>4, MessagesBuilt, ClientSendType DEF ClientPipeConnected, NegotiateRoute
  <2>. QED
    BY <1>0, <1>4, <2>1 DEF ClientPipeConnected, PipeTypeOK, ClientTypeOK, crouterVars,
       ClientPipeStates
<1>5. CASE ClientConnectFailed(c) \/ ClientDisconnected(c)
  <2>1. "Disconnected" \in OptErrors
    BY DEF OptErrors, ErrorCode
  <2>2. PipeTypeOK'
    <3>1. ClientPipeClose(c, "down")
      BY <1>5 DEF ClientConnectFailed, ClientDisconnected
    <3>2. << >> \in Seq(Messages) /\ "down" \in ClientPipeStates
      BY DEF ClientPipeStates
    <3>. QED
      BY <3>1, <3>2 DEF ClientPipeClose, PipeTypeOK
  <2>3. /\ is_connected' \in [ Clients -> BOOLEAN ]
        /\ cgateways' \subseteq Chan
        /\ cdone' \in [ Chan -> Seq(OptErrors) ]
    <3>1. OnPipeDisconnected(c)
      BY <1>5 DEF ClientConnectFailed, ClientDisconnected
    <3>2. \A ch \in Chan : Append(cdone[ch], "Disconnected") \in Seq(OptErrors)
      BY <2>1 DEF ClientTypeOK
    <3>. QED
      BY <3>1, <3>2 DEF OnPipeDisconnected, ClientTypeOK
  <2>. QED
    BY <1>0, <1>5, <2>2, <2>3 DEF ClientConnectFailed, ClientDisconnected, ClientTypeOK
<1>. QED
  BY <1>1, <1>2, <1>3, <1>4, <1>5 DEF ClientReceive, ClientConnect, ClientLosesPipe

\* Callbacks of the daemon's executor keep the types.
LEMMA ServerExecutorType ==
    ASSUME TypeOK, NEW c \in Clients,
           ServerReceive(c) \/ ServerAccepts(c) \/ ServerLosesPipe(c)
    PROVE  TypeOK'
<1> USE DEF TypeOK
<1>0. ClientTypeOK'
  BY DEF ServerReceive, ServerAccepts, ServerLosesPipe, crouterVars, ClientTypeOK
<1>1. CASE ServerHandleRouteConnect(c)
  <2>1. c2s' \in [ Clients -> Seq(Messages) ] /\ s2c' \in [ Clients -> Seq(Messages) ]
    BY <1>1, ReadType, MessagesBuilt, ServerSendType
       DEF ServerHandleRouteConnect, ServerReads, PipeTypeOK
  <2>. QED
    BY <1>0, <1>1, <2>1 DEF ServerHandleRouteConnect, KnownAfterReply, PipeTypeOK, ServerTypeOK
<1>2. ASSUME ServerReads(c, "msg")
      PROVE  /\ << c, Head(c2s[c]).tag >> \in Chan /\ Head(c2s[c]).sequence \in 0 .. MaxSeq
             /\ c2s' \in [ Clients -> Seq(Messages) ]
  <2>1. Head(c2s[c]) \in Messages /\ c2s' \in [ Clients -> Seq(Messages) ]
    BY <1>2, ReadType DEF ServerReads, PipeTypeOK
  <2>. QED
    BY <1>2, <2>1, MessageFields, ChanFields DEF ServerReads
<1>3. CASE ServerDeliverMsg(c)
  BY <1>0, <1>2, <1>3 DEF ServerDeliverMsg, PipeTypeOK, ServerTypeOK
<1>4. CASE ServerOpenChannel(c)
  <2>0. NoError \in OptErrors
    BY DEF OptErrors
  <2>1. /\ s2c' \in [ Clients -> Seq(Messages) ] /\ slossy' \subseteq Chan
        /\ sfinal' \in [ Chan -> OptErrors \cup {"no"} ]
    BY <1>2, <1>4, <2>0, ServerPostFinalType DEF ServerOpenChannel, PipeTypeOK, ServerTypeOK
  <2>2. /\ slog' \in [ Chan -> Seq(0 .. MaxSeq) ]
        /\ sgateways' \subseteq Chan /\ salive' \subseteq Chan
    <3>1. Append(slog[<< c, Head(c2s[c]).tag >>], Head(c2s[c]).sequence)
            \in Seq(0 .. MaxSeq)
      BY <1>2, <1>4 DEF ServerOpenChannel, ServerTypeOK
    <3>. QED
      BY <1>2, <1>4, <3>1 DEF ServerOpenChannel, ServerTypeOK
  <2>. QED
    <3>1. PipeTypeOK'
      BY <1>2, <1>4, <2>1 DEF ServerOpenChannel, PipeTypeOK
    <3>2. ServerTypeOK'
      BY <1>4, <2>1, <2>2 DEF ServerOpenChannel, ServerTypeOK
    <3>. QED  BY <1>0, <3>1, <3>2
<1>5. CASE ServerIgnoreMsg(c)
  BY <1>0, <1>2, <1>5 DEF ServerIgnoreMsg, PipeTypeOK, ServerTypeOK, srouterVars
<1>6. CASE ServerHandleRouteChannelEnd(c)
  <2>1. Head(c2s[c]) \in Messages /\ c2s' \in [ Clients -> Seq(Messages) ]
    BY <1>6, ReadType DEF ServerHandleRouteChannelEnd, ServerReads, PipeTypeOK
  <2>2. /\ << c, Head(c2s[c]).tag >> \in Chan
        /\ dsdlErrorToOptError(Head(c2s[c]).error) \in OptErrors
    BY <1>6, <2>1, MessageFields, ChanFields DEF ServerHandleRouteChannelEnd, ServerReads
  <2>. QED
    BY <1>0, <1>6, <2>1, <2>2
       DEF ServerHandleRouteChannelEnd, AfterEnd, PipeTypeOK, ServerTypeOK
<1>7. CASE ServerAccepts(c)
  BY <1>0, <1>7 DEF ServerAccepts, ServerAccept, PipeTypeOK, ServerTypeOK, srouterVars,
     ServerPipeStates
<1>8. CASE ServerLosesPipe(c)
  <2>1. "Disconnected" \in OptErrors
    BY DEF OptErrors, ErrorCode
  <2>2. PipeTypeOK'
    BY <1>8 DEF ServerLosesPipe, ServerDisconnected, ServerPipeClose, PipeTypeOK, ServerPipeStates
  <2>3. sdone' \in [ Chan -> Seq(OptErrors) ]
    BY <1>8, <2>1 DEF ServerLosesPipe, ServerDisconnected, ServerTypeOK
  <2>. QED
    BY <1>0, <1>8, <2>2, <2>3 DEF ServerLosesPipe, ServerDisconnected, ServerTypeOK
<1>. QED
  BY <1>1, <1>3, <1>4, <1>5, <1>6, <1>7, <1>8 DEF ServerReceive

\* Every step of the system keeps the types.
LEMMA TypeStep == TypeOK /\ [Next]_vars => TypeOK'
<1> SUFFICES ASSUME TypeOK, [Next]_vars PROVE TypeOK'
  OBVIOUS
<1>1. CASE UNCHANGED vars
  BY <1>1 DEF vars, pipeVars, crouterVars, srouterVars, TypeOK, PipeTypeOK, ClientTypeOK,
     ServerTypeOK
<1>. QED
  BY <1>1, ClientOwnerType, ServiceType, ProcessType, ClientExecutorType, ServerExecutorType
     DEF Next, ExecutorStep

\* The pipes and routers keep their types in every reachable state.
THEOREM TypeCorrect == Spec => []TypeOK
BY TypeInit, TypeStep, PTL DEF Spec


-----------------------------------------------------------------------------
(***************************************************************************)
(* What happens to Sorted when a queue or a log changes.                   *)
(***************************************************************************)

\* What is in a log.
LEMMA LogElement ==
    ASSUME NEW S, NEW log \in Seq(S), NEW k \in 1 .. Len(log)
    PROVE  log[k] \in S
OBVIOUS

\* A message that is not of this channel is written.
LEMMA SortedOther ==
    ASSUME NEW q \in Seq(Messages), NEW m \in Messages, NEW t \in Tags,
           NEW log \in Seq(0 .. MaxSeq), NEW n \in 0 .. MaxSeq,
           m.kind = "msg" => m.tag # t, Sorted(q, t, log, n)
    PROVE  Sorted(Append(q, m), t, log, n)
<1> DEFINE r == Append(q, m)
<1>1. /\ Len(r) = Len(q) + 1 /\ Len(q) \in Nat
      /\ \A i \in 1 .. Len(r) : i = Len(q) + 1 \/ i \in 1 .. Len(q)
      /\ r[Len(q) + 1] = m /\ \A i \in 1 .. Len(q) : r[i] = q[i]
  OBVIOUS
<1> HIDE DEF r
<1>2. \A i \in 1 .. Len(r) : r[i].kind = "msg" /\ r[i].tag = t => i \in 1 .. Len(q)
  BY <1>1
<1>3. Sorted(r, t, log, n)
  BY <1>1, <1>2 DEF Sorted
<1>. QED  BY <1>3 DEF r

\* The next message of this channel is written.
LEMMA SortedSend ==
    ASSUME NEW q \in Seq(Messages), NEW m \in Messages, NEW t \in Tags,
           NEW log \in Seq(0 .. MaxSeq), NEW n \in 0 .. MaxSeq,
           m.kind = "msg", m.tag = t, m.sequence = n, Sorted(q, t, log, n)
    PROVE  Sorted(Append(q, m), t, log, n + 1)
<1> DEFINE r == Append(q, m)
<1>1. /\ Len(r) = Len(q) + 1 /\ Len(q) \in Nat
      /\ \A i \in 1 .. Len(r) : i = Len(q) + 1 \/ i \in 1 .. Len(q)
      /\ r[Len(q) + 1] = m /\ \A i \in 1 .. Len(q) : r[i] = q[i] /\ r[i] \in Messages
  OBVIOUS
<1> HIDE DEF r
<1>2. \A i \in 1 .. Len(q) : r[i].kind = "msg" => r[i].sequence \in 0 .. MaxSeq
  BY <1>1, MessageFields
<1>3. \A k \in 1 .. Len(log) : log[k] \in 0 .. MaxSeq /\ log[k] < n /\ log[k] < n + 1
  <2>1. \A k \in 1 .. Len(log) : log[k] \in 0 .. MaxSeq
    BY LogElement
  <2>2. \A k \in 1 .. Len(log) : log[k] < n
    BY DEF Sorted
  <2>. QED  BY <2>1, <2>2
<1>4. \A i \in 1 .. Len(r) : r[i].kind = "msg" /\ r[i].tag = t =>
            /\ r[i].sequence < n + 1
            /\ \A k \in 1 .. Len(log) : log[k] < r[i].sequence
  BY <1>1, <1>2, <1>3 DEF Sorted
<1>5. ASSUME NEW i \in 1 .. Len(r), NEW j \in 1 .. Len(r), i < j,
             r[i].kind = "msg", r[i].tag = t, r[j].kind = "msg", r[j].tag = t
      PROVE  r[i].sequence < r[j].sequence
  <2>1. i \in 1 .. Len(q)
    BY <1>1, <1>5
  <2>2. CASE j = Len(q) + 1
    BY <1>1, <1>5, <2>1, <2>2 DEF Sorted
  <2>3. CASE j \in 1 .. Len(q)
    BY <1>1, <1>5, <2>1, <2>3 DEF Sorted
  <2>. QED  BY <1>1, <2>2, <2>3
<1>6. Sorted(r, t, log, n + 1)
  BY <1>3, <1>4, <1>5 DEF Sorted
<1>. QED  BY <1>6 DEF r

\* A sequence number is used up, nothing is written.
LEMMA SortedLost ==
    ASSUME NEW q \in Seq(Messages), NEW t \in Tags, NEW log \in Seq(0 .. MaxSeq),
           NEW n \in 0 .. MaxSeq, Sorted(q, t, log, n)
    PROVE  Sorted(q, t, log, n + 1)
<1>1. \A i \in 1 .. Len(q) : q[i].kind = "msg" => q[i].sequence \in 0 .. MaxSeq
  BY MessageFields
<1>2. \A k \in 1 .. Len(log) : log[k] \in 0 .. MaxSeq
  BY LogElement
<1>. QED  BY <1>1, <1>2 DEF Sorted

\* The head of the queue is read, and not delivered.
LEMMA SortedTail ==
    ASSUME NEW q \in Seq(Messages), NEW t \in Tags, NEW log \in Seq(0 .. MaxSeq),
           NEW n \in 0 .. MaxSeq, q # << >>, Sorted(q, t, log, n)
    PROVE  Sorted(Tail(q), t, log, n)
<1> DEFINE r == Tail(q)
<1>1. /\ \A i \in 1 .. Len(r) : i + 1 \in 1 .. Len(q) /\ r[i] = q[i + 1]
      /\ \A i, j \in 1 .. Len(r) : i < j => i + 1 < j + 1
  OBVIOUS
<1> HIDE DEF r
<1>2. Sorted(r, t, log, n)
  BY <1>1 DEF Sorted
<1>. QED  BY <1>2 DEF r

\* The head of the queue is read and delivered.
LEMMA SortedDeliver ==
    ASSUME NEW q \in Seq(Messages), NEW t \in Tags, NEW log \in Seq(0 .. MaxSeq),
           NEW n \in 0 .. MaxSeq, q # << >>, Sorted(q, t, log, n), Increasing(log),
           Head(q).kind = "msg", Head(q).tag = t
    PROVE  /\ Sorted(Tail(q), t, Append(log, Head(q).sequence), n)
           /\ Increasing(Append(log, Head(q).sequence))
<1> DEFINE r == Tail(q)
           s == Head(q).sequence
           l == Append(log, s)
<1>1. /\ \A i \in 1 .. Len(r) : i + 1 \in 1 .. Len(q) /\ r[i] = q[i + 1] /\ 1 < i + 1
      /\ 1 \in 1 .. Len(q) /\ Head(q) = q[1] /\ Head(q) \in Messages
  OBVIOUS
<1>2. s \in 0 .. MaxSeq
  BY <1>1, MessageFields
<1>3. /\ Len(l) = Len(log) + 1 /\ Len(log) \in Nat
      /\ \A k \in 1 .. Len(l) : k = Len(log) + 1 \/ k \in 1 .. Len(log)
      /\ l[Len(log) + 1] = s /\ \A k \in 1 .. Len(log) : l[k] = log[k]
  BY <1>2
<1>4. s < n /\ \A k \in 1 .. Len(log) : log[k] < s
  BY <1>1 DEF Sorted
<1>5. \A i \in 1 .. Len(r) : r[i].kind = "msg" /\ r[i].tag = t => s < r[i].sequence
  BY <1>1 DEF Sorted
<1>6. Sorted(r, t, log, n)
  BY SortedTail
<1> HIDE DEF r, s, l
<1>7. Sorted(r, t, l, n)
  BY <1>3, <1>4, <1>5, <1>6 DEF Sorted
<1>8. Increasing(l)
  BY <1>3, <1>4 DEF Increasing
<1>. QED  BY <1>7, <1>8 DEF r, s, l

\* The queue is thrown away.
LEMMA SortedEmpty ==
    ASSUME NEW q, NEW t, NEW log, NEW n, Sorted(q, t, log, n)
    PROVE  Sorted(<< >>, t, log, n)
BY DEF Sorted

-----------------------------------------------------------------------------
(***************************************************************************)
(* The same for all channels in one direction.                             *)
(***************************************************************************)
Queues == [ Clients -> Seq(Messages) ]

Logs == [ Chan -> Seq(0 .. MaxSeq) ]

Counters == [ Chan -> 0 .. MaxSeq ]

\* A message that carries no payload is written.
LEMMA FlowWrite ==
    ASSUME NEW q \in Queues, NEW log \in Logs, NEW n \in Counters, Flow(q, log, n),
           NEW c \in Clients, NEW m \in Messages, m.kind # "msg"
    PROVE  Flow([ q EXCEPT ![c] = Append(@, m) ], log, n)
<1> SUFFICES ASSUME NEW ch \in Chan
             PROVE  Sorted([ q EXCEPT ![c] = Append(@, m) ][ch[1]], ch[2], log[ch], n[ch])
  BY DEF Flow
<1>1. /\ ch[1] \in Clients /\ ch[2] \in Tags
      /\ log[ch] \in Seq(0 .. MaxSeq) /\ n[ch] \in 0 .. MaxSeq /\ q[ch[1]] \in Seq(Messages)
  BY ChanFields DEF Queues, Logs, Counters
<1>2. Sorted(q[ch[1]], ch[2], log[ch], n[ch])
  BY DEF Flow
<1>3. Sorted(Append(q[ch[1]], m), ch[2], log[ch], n[ch])
  BY <1>1, <1>2, SortedOther
<1>. QED  BY <1>1, <1>2, <1>3 DEF Queues

\* The next message of a channel is written.
LEMMA FlowSend ==
    ASSUME NEW q \in Queues, NEW log \in Logs, NEW n \in Counters, Flow(q, log, n),
           NEW co \in Chan, NEW m \in Messages,
           m.kind = "msg", m.tag = co[2], m.sequence = n[co]
    PROVE  Flow([ q EXCEPT ![co[1]] = Append(@, m) ], log, [ n EXCEPT ![co] = @ + 1 ])
<1> SUFFICES ASSUME NEW ch \in Chan
             PROVE  Sorted([ q EXCEPT ![co[1]] = Append(@, m) ][ch[1]], ch[2], log[ch],
                           [ n EXCEPT ![co] = @ + 1 ][ch])
  BY DEF Flow
<1>1. /\ ch[1] \in Clients /\ ch[2] \in Tags
      /\ log[ch] \in Seq(0 .. MaxSeq) /\ n[ch] \in 0 .. MaxSeq /\ q[ch[1]] \in Seq(Messages)
      /\ ch # co => ch[1] # co[1] \/ ch[2] # co[2]
  BY ChanFields DEF Queues, Logs, Counters
<1>2. Sorted(q[ch[1]], ch[2], log[ch], n[ch])
  BY DEF Flow
<1>3. CASE ch = co
  <2>1. Sorted(Append(q[ch[1]], m), ch[2], log[ch], n[ch] + 1)
    BY <1>1, <1>2, <1>3, SortedSend
  <2>. QED  BY <1>1, <1>3, <2>1 DEF Queues, Counters
<1>4. CASE ch # co
  <2>1. CASE ch[1] = co[1]
    <3>1. Sorted(Append(q[ch[1]], m), ch[2], log[ch], n[ch])
      BY <1>1, <1>2, <1>4, <2>1, SortedOther
    <3>. QED  BY <1>1, <1>4, <2>1, <3>1 DEF Queues, Counters
  <2>2. CASE ch[1] # co[1]
    BY <1>1, <1>2, <1>4, <2>2 DEF Queues, Counters
  <2>. QED  BY <2>1, <2>2
<1>. QED  BY <1>3, <1>4

\* The next message of a channel is lost.
LEMMA FlowLost ==
    ASSUME NEW q \in Queues, NEW log \in Logs, NEW n \in Counters, Flow(q, log, n),
           NEW co \in Chan
    PROVE  Flow(q, log, [ n EXCEPT ![co] = @ + 1 ])
<1> SUFFICES ASSUME NEW ch \in Chan
             PROVE  Sorted(q[ch[1]], ch[2], log[ch], [ n EXCEPT ![co] = @ + 1 ][ch])
  BY DEF Flow
<1>1. /\ ch[1] \in Clients /\ ch[2] \in Tags
      /\ log[ch] \in Seq(0 .. MaxSeq) /\ n[ch] \in 0 .. MaxSeq /\ q[ch[1]] \in Seq(Messages)
  BY ChanFields DEF Queues, Logs, Counters
<1>2. Sorted(q[ch[1]], ch[2], log[ch], n[ch])
  BY DEF Flow
<1>3. Sorted(q[ch[1]], ch[2], log[ch], n[ch] + 1)
  BY <1>1, <1>2, SortedLost
<1>. QED  BY <1>2, <1>3 DEF Counters

\* A message is read and not delivered.
LEMMA FlowRead ==
    ASSUME NEW q \in Queues, NEW log \in Logs, NEW n \in Counters, Flow(q, log, n),
           NEW c \in Clients, q[c] # << >>
    PROVE  Flow([ q EXCEPT ![c] = Tail(@) ], log, n)
<1> SUFFICES ASSUME NEW ch \in Chan
             PROVE  Sorted([ q EXCEPT ![c] = Tail(@) ][ch[1]], ch[2], log[ch], n[ch])
  BY DEF Flow
<1>1. /\ ch[1] \in Clients /\ ch[2] \in Tags
      /\ log[ch] \in Seq(0 .. MaxSeq) /\ n[ch] \in 0 .. MaxSeq /\ q[ch[1]] \in Seq(Messages)
  BY ChanFields DEF Queues, Logs, Counters
<1>2. Sorted(q[ch[1]], ch[2], log[ch], n[ch])
  BY DEF Flow
<1>3. CASE ch[1] = c
  <2>1. Sorted(Tail(q[ch[1]]), ch[2], log[ch], n[ch])
    BY <1>1, <1>2, <1>3, SortedTail
  <2>. QED  BY <1>1, <1>3, <2>1 DEF Queues
<1>. QED  BY <1>1, <1>2, <1>3 DEF Queues

\* A message is read and delivered.
LEMMA FlowDeliver ==
    ASSUME NEW q \in Queues, NEW log \in Logs, NEW n \in Counters, Flow(q, log, n),
           NEW co \in Chan, q[co[1]] # << >>,
           Head(q[co[1]]).kind = "msg", Head(q[co[1]]).tag = co[2],
           \A ch \in Chan : Increasing(log[ch]),
           NEW l, l = [ log EXCEPT ![co] = Append(@, Head(q[co[1]]).sequence) ],
           NEW r, r = [ q EXCEPT ![co[1]] = Tail(@) ]
    PROVE  Flow(r, l, n) /\ \A ch \in Chan : Increasing(l[ch])
<1>1. co[1] \in Clients /\ co[2] \in Tags
  BY ChanFields
<1>2. /\ q[co[1]] \in Seq(Messages) /\ log[co] \in Seq(0 .. MaxSeq) /\ n[co] \in 0 .. MaxSeq
      /\ Sorted(q[co[1]], co[2], log[co], n[co])
  BY <1>1 DEF Flow, Queues, Logs, Counters
<1>3. /\ Sorted(Tail(q[co[1]]), co[2], Append(log[co], Head(q[co[1]]).sequence), n[co])
      /\ Increasing(Append(log[co], Head(q[co[1]]).sequence))
  BY <1>1, <1>2, SortedDeliver
<1>4. Sorted(r[co[1]], co[2], l[co], n[co]) /\ Increasing(l[co])
  BY <1>1, <1>3 DEF Queues, Logs
<1>5. Flow(r, log, n)
  BY <1>1, FlowRead
<1>6. \A ch \in Chan : ch # co => l[ch] = log[ch]
  BY DEF Logs
<1>. QED  BY <1>4, <1>5, <1>6 DEF Flow

\* Some of the queues are thrown away.
LEMMA FlowClose ==
    ASSUME NEW q, NEW r, NEW log, NEW n, Flow(q, log, n),
           \A c \in Clients : r[c] = q[c] \/ r[c] = << >>
    PROVE  Flow(r, log, n)
<1> SUFFICES ASSUME NEW ch \in Chan PROVE Sorted(r[ch[1]], ch[2], log[ch], n[ch])
  BY DEF Flow
<1>1. Sorted(q[ch[1]], ch[2], log[ch], n[ch])
  BY DEF Flow
<1>. QED  BY <1>1, SortedEmpty, ChanFields

-----------------------------------------------------------------------------
(***************************************************************************)
(* What a write does to a queue.                                           *)
(***************************************************************************)
LEMMA ClientWrites ==
    ASSUME PipeTypeOK, NEW c \in Clients, NEW m, NEW ok \in BOOLEAN, ClientPipeSend(c, m, ok)
    PROVE  c2s' = c2s \/ c2s' = [ c2s EXCEPT ![c] = Append(@, m) ]
BY DEF ClientPipeSend, PipeTypeOK

\* The same for a write of the daemon (SocketServer::send).
LEMMA ServerWrites ==
    ASSUME PipeTypeOK, NEW c \in Clients, NEW m, NEW ok \in BOOLEAN, ServerPipeSend(c, m, ok)
    PROVE  s2c' = s2c \/ s2c' = [ s2c EXCEPT ![c] = Append(@, m) ]
BY DEF ServerPipeSend, PipeTypeOK

\* The kinds of the messages that the routers build.
LEMMA KindsBuilt ==
    /\ RouteConnect.kind = "connect"
    /\ \A t, k, e : ChEnd(t, k, e).kind = "end"
    /\ \A t, n, s : /\ ChMsg(t, n, s).kind = "msg" /\ ChMsg(t, n, s).tag = t
                    /\ ChMsg(t, n, s).sequence = n
BY DEF RouteConnect, ChEnd, ChMsg

\* The types that the lemmas on flows need.
LEMMA FlowTypes ==
    ASSUME TypeOK
    PROVE  /\ c2s \in Queues /\ s2c \in Queues /\ slog \in Logs /\ clog \in Logs
           /\ cseq \in Counters /\ sseq \in Counters
BY DEF TypeOK, PipeTypeOK, ClientTypeOK, ServerTypeOK, Queues, Logs, Counters

-----------------------------------------------------------------------------
(***************************************************************************)
(* From the client to the daemon.                                          *)
(***************************************************************************)
ServedInOrder ==
    \A ch \in Chan : Increasing(slog[ch]) /\ (slog[ch] # << >> => slog[ch][1] = 0)

\* Steps of the clients and of the processes.
LEMMA ToServerClient ==
    ASSUME TypeOK, Flow(c2s, slog, cseq), ServedInOrder,
           ClientOwnerStep \/ ProcessStep
                \/ \E c \in Clients : ClientReceive(c) \/ ClientConnect(c) \/ ClientLosesPipe(c)
    PROVE  Flow(c2s, slog, cseq)' /\ ServedInOrder'
<1>0. PipeTypeOK /\ c2s \in Queues /\ slog \in Logs /\ cseq \in Counters
  BY FlowTypes DEF TypeOK
<1>1. slog' = slog
  BY DEF ClientOwnerStep, ProcessStep, ClientReceive, ClientConnect, ClientLosesPipe,
     DaemonExit, srouterVars
<1>2. ServedInOrder'
  BY <1>1 DEF ServedInOrder
<1>3. CASE UNCHANGED << c2s, cseq >>
  BY <1>1, <1>2, <1>3
<1>4. ASSUME NEW ch \in Chan, ClientSend(ch) PROVE Flow(c2s, slog, cseq)'
  <2> DEFINE m == ChMsg(ch[2], cseq[ch], ServiceOf[ch[2]])
  <2>1. cseq' = [ cseq EXCEPT ![ch] = @ + 1 ]
    BY <1>4 DEF ClientSend
  <2>2. m \in Messages /\ m.kind = "msg" /\ m.tag = ch[2] /\ m.sequence = cseq[ch]
    BY <1>0, MessagesBuilt, KindsBuilt DEF Counters
  <2>3. c2s' = c2s \/ c2s' = [ c2s EXCEPT ![ch[1]] = Append(@, m) ]
    BY <1>0, <1>4, ClientWrites, ChanFields DEF ClientSend, ClientPost
  <2>4. CASE c2s' = c2s
    BY <1>0, <1>1, <2>1, <2>4, FlowLost
  <2>5. CASE c2s' = [ c2s EXCEPT ![ch[1]] = Append(@, m) ]
    <3> HIDE DEF m
    <3>. QED  BY <1>0, <1>1, <2>1, <2>2, <2>5, FlowSend
  <2>. QED  BY <2>3, <2>4, <2>5
<1>5. ASSUME NEW c \in Clients, NEW m \in Messages, m.kind # "msg", NEW ok \in BOOLEAN,
             ClientPipeSend(c, m, ok), cseq' = cseq
      PROVE  Flow(c2s, slog, cseq)'
  <2>1. c2s' = c2s \/ c2s' = [ c2s EXCEPT ![c] = Append(@, m) ]
    BY <1>0, <1>5, ClientWrites
  <2>2. Flow([ c2s EXCEPT ![c] = Append(@, m) ], slog, cseq)
    BY <1>0, <1>5, FlowWrite
  <2>. QED  BY <1>1, <1>5, <2>1, <2>2
<1>6. ASSUME NEW ch \in Chan, NEW e \in Errors, NEW k \in BOOLEAN, ClientComplete(ch, e, k)
      PROVE  Flow(c2s, slog, cseq)'
  <2>1. cseq' = cseq /\ e \in OptErrors /\ ch[1] \in Clients
    BY <1>6, PipeAssumption, ChanFields DEF ClientComplete
  <2>2. ChEnd(ch[2], k, e) \in Messages /\ ChEnd(ch[2], k, e).kind # "msg"
    BY <2>1, MessagesBuilt, KindsBuilt
  <2>3. c2s' = c2s \/ \E ok \in BOOLEAN : ClientPipeSend(ch[1], ChEnd(ch[2], k, e), ok)
    BY <1>6 DEF ClientComplete, ClientPost
  <2>. QED  BY <1>1, <1>5, <2>1, <2>2, <2>3
<1>7. ASSUME NEW ch \in Chan, ClientDispose(ch) PROVE Flow(c2s, slog, cseq)'
  <2>1. cseq' = cseq /\ cerr[ch] \in OptErrors /\ ch[1] \in Clients
    BY <1>7, ChanFields DEF ClientDispose, TypeOK, ClientTypeOK
  <2>2. ChEnd(ch[2], FALSE, cerr[ch]) \in Messages /\ ChEnd(ch[2], FALSE, cerr[ch]).kind # "msg"
    BY <2>1, MessagesBuilt, KindsBuilt
  <2>3. c2s' = c2s
            \/ \E ok \in BOOLEAN : ClientPipeSend(ch[1], ChEnd(ch[2], FALSE, cerr[ch]), ok)
    BY <1>7 DEF ClientDispose, ClientPost
  <2>. QED  BY <1>1, <1>5, <2>1, <2>2, <2>3
<1>8. ASSUME NEW c \in Clients, ClientPipeConnected(c) PROVE Flow(c2s, slog, cseq)'
  <2>1. RouteConnect \in Messages /\ RouteConnect.kind # "msg"
    BY MessagesBuilt, KindsBuilt
  <2>. QED
    BY <1>5, <1>8, <2>1 DEF ClientPipeConnected, NegotiateRoute, crouterVars
<1>9. CASE ClientOwnerStep
  <2>1. ASSUME NEW c \in Clients, MakeGateway(c) PROVE UNCHANGED << c2s, cseq >>
    BY <2>1 DEF MakeGateway, pipeVars
  <2>2. ASSUME NEW ch \in Chan, Subscribe(ch) PROVE UNCHANGED << c2s, cseq >>
    BY <2>2 DEF Subscribe, pipeVars
  <2>. QED  BY <1>2, <1>3, <1>4, <1>6, <1>7, <1>9, <2>1, <2>2 DEF ClientOwnerStep
<1>10. CASE ProcessStep
  <2>1. cseq' = cseq /\ \A c \in Clients : c2s'[c] = c2s[c] \/ c2s'[c] = << >>
    BY <1>10 DEF ProcessStep, ClientStart, ClientExit, ClientPipeClose, DaemonExit, crouterVars
  <2>. QED  BY <1>1, <1>2, <2>1, FlowClose
<1>11. ASSUME NEW c \in Clients,
              ClientReceive(c) \/ ClientConnect(c) \/ ClientLosesPipe(c), ~ClientPipeConnected(c)
       PROVE  UNCHANGED << c2s, cseq >>
  BY <1>11 DEF ClientReceive, ClientConnect, ClientLosesPipe, ClientHandleRouteConnect,
     ClientHandleRouteChannelMsg, ClientHandleRouteChannelEnd, ClientConnectFailed,
     ClientDisconnected, ClientPipeClose
<1>. QED  BY <1>2, <1>3, <1>8, <1>9, <1>10, <1>11

\* Steps of the daemon.
LEMMA ToServerDaemon ==
    ASSUME TypeOK, Flow(c2s, slog, cseq), ServedInOrder, ServerMaps,
           ServiceStep
                \/ \E c \in Clients : ServerReceive(c) \/ ServerAccepts(c) \/ ServerLosesPipe(c)
    PROVE  Flow(c2s, slog, cseq)' /\ ServedInOrder'
<1>0. PipeTypeOK /\ c2s \in Queues /\ slog \in Logs /\ cseq \in Counters
  BY FlowTypes DEF TypeOK
<1>1. cseq' = cseq
  BY DEF ServiceStep, ServerReceive, ServerAccepts, ServerLosesPipe, crouterVars
<1>2. CASE UNCHANGED << c2s, slog >>
  BY <1>1, <1>2 DEF ServedInOrder
<1>3. ASSUME NEW c \in Clients, NEW kind, ServerReads(c, kind), slog' = slog
      PROVE  Flow(c2s, slog, cseq)' /\ ServedInOrder'
  <2>1. Flow(c2s', slog, cseq)
    BY <1>0, <1>3, FlowRead DEF ServerReads
  <2>. QED  BY <1>1, <1>3, <2>1 DEF ServedInOrder
<1>4. ASSUME NEW c \in Clients, ServerReads(c, "msg"),
             NEW ch, ch = << c, Head(c2s[c]).tag >>,
             slog' = [ slog EXCEPT ![ch] = Append(@, Head(c2s[c]).sequence) ],
             slog[ch] # << >> \/ Head(c2s[c]).sequence = 0
      PROVE  Flow(c2s, slog, cseq)' /\ ServedInOrder'
  <2>0. c2s[c] # << >> /\ Head(c2s[c]).kind = "msg" /\ c2s' = [ c2s EXCEPT ![c] = Tail(@) ]
    BY <1>4 DEF ServerReads
  <2>1. Head(c2s[c]) \in Messages
    BY <1>0, <2>0, ReadType DEF Queues
  <2>2. ch \in Chan /\ ch[1] = c /\ ch[2] = Head(c2s[c]).tag
        /\ Head(c2s[c]).sequence \in 0 .. MaxSeq
    BY <1>4, <2>0, <2>1, MessageFields, ChanFields
  <2>3. /\ Flow(c2s', slog', cseq)
        /\ \A x \in Chan : Increasing(slog'[x])
    <3>1. /\ c2s[ch[1]] # << >> /\ Head(c2s[ch[1]]).kind = "msg"
          /\ Head(c2s[ch[1]]).tag = ch[2] /\ c2s' = [ c2s EXCEPT ![ch[1]] = Tail(@) ]
          /\ slog' = [ slog EXCEPT ![ch] = Append(@, Head(c2s[ch[1]]).sequence) ]
      BY <1>4, <2>0, <2>2
    <3>2. \A x \in Chan : Increasing(slog[x])
      BY DEF ServedInOrder
    <3>. QED  BY <1>0, <2>2, <3>1, <3>2, FlowDeliver
  <2>4. slog'[ch][1] = 0
    <3>1. slog[ch] \in Seq(0 .. MaxSeq) /\ slog'[ch] = Append(slog[ch], Head(c2s[c]).sequence)
      BY <1>0, <1>4, <2>2 DEF Logs
    <3>2. CASE slog[ch] # << >>
      <4>1. Append(slog[ch], Head(c2s[c]).sequence)[1] = slog[ch][1]
        BY <2>2, <3>1, <3>2
      <4>. QED  BY <2>2, <3>1, <3>2, <4>1 DEF ServedInOrder
    <3>3. CASE slog[ch] = << >>
      BY <1>4, <3>1, <3>3
    <3>. QED  BY <3>2, <3>3
  <2>5. \A x \in Chan : x # ch => slog'[x] = slog[x]
    BY <1>0, <1>4 DEF Logs
  <2>6. ServedInOrder'
    BY <2>3, <2>4, <2>5 DEF ServedInOrder
  <2>. QED  BY <1>1, <2>3, <2>6
<1>5. ASSUME NEW c \in Clients, ServerDeliverMsg(c)
      PROVE  Flow(c2s, slog, cseq)' /\ ServedInOrder'
  <2> DEFINE ch == << c, Head(c2s[c]).tag >>
  <2>1. ServerReads(c, "msg") /\ ch \in sgateways
        /\ slog' = [ slog EXCEPT ![ch] = Append(@, Head(c2s[c]).sequence) ]
    BY <1>5 DEF ServerDeliverMsg
  <2>2. slog[ch] # << >>
    BY <2>1 DEF ServerMaps
  <2>. QED  BY <1>4, <2>1, <2>2
<1>6. ASSUME NEW c \in Clients, ServerOpenChannel(c)
      PROVE  Flow(c2s, slog, cseq)' /\ ServedInOrder'
  <2>1. ServerReads(c, "msg") /\ Head(c2s[c]).sequence = 0
        /\ slog' = [ slog EXCEPT ![<< c, Head(c2s[c]).tag >>] = Append(@, Head(c2s[c]).sequence) ]
    BY <1>6 DEF ServerOpenChannel, OpensChannel
  <2>. QED  BY <1>4, <2>1
<1>7. ASSUME NEW c \in Clients, ServerReceive(c)
      PROVE  Flow(c2s, slog, cseq)' /\ ServedInOrder'
  <2>1. CASE ServerHandleRouteConnect(c)
    BY <1>3, <2>1 DEF ServerHandleRouteConnect
  <2>2. CASE ServerIgnoreMsg(c)
    BY <1>3, <2>2 DEF ServerIgnoreMsg, srouterVars
  <2>3. CASE ServerHandleRouteChannelEnd(c)
    BY <1>3, <2>3 DEF ServerHandleRouteChannelEnd
  <2>. QED  BY <1>5, <1>6, <1>7, <2>1, <2>2, <2>3 DEF ServerReceive
<1>8. ASSUME NEW c \in Clients, ServerLosesPipe(c)
      PROVE  Flow(c2s, slog, cseq)' /\ ServedInOrder'
  <2>1. slog' = slog /\ \A d \in Clients : c2s'[d] = c2s[d] \/ c2s'[d] = << >>
    BY <1>0, <1>8 DEF ServerLosesPipe, ServerDisconnected, ServerPipeClose, Queues
  <2>. QED  BY <1>1, <2>1, FlowClose DEF ServedInOrder
<1>9. ASSUME ServiceStep \/ \E c \in Clients : ServerAccepts(c)
      PROVE  UNCHANGED << c2s, slog >>
  BY <1>9 DEF ServiceStep, ServerSend, ServerDispose, ServerComplete, ServerAccepts,
     ServerAccept, srouterVars
<1>. QED  BY <1>2, <1>7, <1>8, <1>9

-----------------------------------------------------------------------------
(***************************************************************************)
(* From the daemon to the client.                                          *)
(***************************************************************************)
ReceivedInOrder == \A ch \in Chan : Increasing(clog[ch])

\* Steps of the clients and of the processes.
LEMMA ToClientClient ==
    ASSUME TypeOK, Flow(s2c, clog, sseq), ReceivedInOrder,
           ClientOwnerStep \/ ProcessStep
                \/ \E c \in Clients : ClientReceive(c) \/ ClientConnect(c) \/ ClientLosesPipe(c)
    PROVE  Flow(s2c, clog, sseq)' /\ ReceivedInOrder'
<1>0. PipeTypeOK /\ s2c \in Queues /\ clog \in Logs /\ sseq \in Counters
  BY FlowTypes DEF TypeOK
<1>1. sseq' = sseq
  BY DEF ClientOwnerStep, ProcessStep, ClientReceive, ClientConnect, ClientLosesPipe,
     DaemonExit, srouterVars
<1>2. CASE UNCHANGED << s2c, clog >>
  BY <1>1, <1>2 DEF ReceivedInOrder
<1>3. ASSUME clog' = clog, \A c \in Clients : s2c'[c] = s2c[c] \/ s2c'[c] = << >>
      PROVE  Flow(s2c, clog, sseq)' /\ ReceivedInOrder'
  BY <1>1, <1>3, FlowClose DEF ReceivedInOrder
<1>4. ASSUME NEW c \in Clients, NEW kind, s2c[c] # << >>,
             s2c' = [ s2c EXCEPT ![c] = Tail(@) ], clog' = clog
      PROVE  Flow(s2c, clog, sseq)' /\ ReceivedInOrder'
  <2>1. Flow(s2c', clog, sseq)
    BY <1>0, <1>4, FlowRead
  <2>. QED  BY <1>1, <1>4, <2>1 DEF ReceivedInOrder
<1>5. ASSUME NEW c \in Clients, ClientHandleRouteChannelMsg(c)
      PROVE  Flow(s2c, clog, sseq)' /\ ReceivedInOrder'
  <2> DEFINE ch == << c, Head(s2c[c]).tag >>
  <2>0. s2c[c] # << >> /\ Head(s2c[c]).kind = "msg" /\ s2c' = [ s2c EXCEPT ![c] = Tail(@) ]
        /\ clog' = IF ch \in cgateways \cap csubscribed
                   THEN [ clog EXCEPT ![ch] = Append(@, Head(s2c[c]).sequence) ] ELSE clog
    BY <1>5 DEF ClientHandleRouteChannelMsg
  <2>1. Head(s2c[c]) \in Messages
    BY <1>0, <2>0, ReadType DEF Queues
  <2>2. ch \in Chan /\ ch[1] = c /\ ch[2] = Head(s2c[c]).tag
    BY <2>0, <2>1, MessageFields, ChanFields
  <2>3. CASE ch \in cgateways \cap csubscribed
    <3> HIDE DEF ch
    <3>1. /\ s2c[ch[1]] # << >> /\ Head(s2c[ch[1]]).kind = "msg"
          /\ Head(s2c[ch[1]]).tag = ch[2] /\ s2c' = [ s2c EXCEPT ![ch[1]] = Tail(@) ]
          /\ clog' = [ clog EXCEPT ![ch] = Append(@, Head(s2c[ch[1]]).sequence) ]
      BY <2>0, <2>2, <2>3
    <3>2. \A x \in Chan : Increasing(clog[x])
      BY DEF ReceivedInOrder
    <3>3. Flow(s2c', clog', sseq) /\ \A x \in Chan : Increasing(clog'[x])
      BY <1>0, <2>2, <3>1, <3>2, FlowDeliver
    <3>. QED  BY <1>1, <3>3 DEF ReceivedInOrder
  <2>4. CASE ch \notin cgateways \cap csubscribed
    BY <1>4, <2>0, <2>4
  <2>. QED  BY <2>3, <2>4
<1>6. ASSUME NEW c \in Clients, ClientReceive(c)
      PROVE  Flow(s2c, clog, sseq)' /\ ReceivedInOrder'
  <2>1. CASE ClientHandleRouteConnect(c)
    BY <1>4, <2>1 DEF ClientHandleRouteConnect
  <2>2. CASE ClientHandleRouteChannelEnd(c)
    BY <1>4, <2>2 DEF ClientHandleRouteChannelEnd
  <2>. QED  BY <1>5, <1>6, <2>1, <2>2 DEF ClientReceive
<1>7. ASSUME NEW c \in Clients, ClientConnect(c) \/ ClientLosesPipe(c)
      PROVE  clog' = clog /\ \A d \in Clients : s2c'[d] = s2c[d] \/ s2c'[d] = << >>
  BY <1>0, <1>7 DEF ClientConnect, ClientLosesPipe, ClientPipeConnected, ClientConnectFailed,
     ClientDisconnected, ClientPipeClose, crouterVars, Queues
<1>8. ASSUME ClientOwnerStep PROVE UNCHANGED << s2c, clog >>
  BY <1>8 DEF ClientOwnerStep, MakeGateway, Subscribe, ClientSend, ClientDispose,
     ClientComplete, pipeVars
<1>9. ASSUME ProcessStep
      PROVE  clog' = clog /\ \A c \in Clients : s2c'[c] = s2c[c] \/ s2c'[c] = << >>
  BY <1>0, <1>9 DEF ProcessStep, ClientStart, ClientExit, ClientPipeClose, DaemonExit,
     crouterVars, Queues
<1>. QED  BY <1>2, <1>3, <1>6, <1>7, <1>8, <1>9

\* Steps of the daemon.
LEMMA ToClientDaemon ==
    ASSUME TypeOK, Flow(s2c, clog, sseq), ReceivedInOrder,
           ServiceStep
                \/ \E c \in Clients : ServerReceive(c) \/ ServerAccepts(c) \/ ServerLosesPipe(c)
    PROVE  Flow(s2c, clog, sseq)' /\ ReceivedInOrder'
<1>0. PipeTypeOK /\ s2c \in Queues /\ clog \in Logs /\ sseq \in Counters
  BY FlowTypes DEF TypeOK
<1>1. clog' = clog
  BY DEF ServiceStep, ServerReceive, ServerAccepts, ServerLosesPipe, crouterVars
<1>2. ReceivedInOrder'
  BY <1>1 DEF ReceivedInOrder
<1>3. CASE UNCHANGED << s2c, sseq >>
  BY <1>1, <1>2, <1>3
<1>4. ASSUME NEW c \in Clients, NEW m \in Messages, m.kind # "msg", NEW ok \in BOOLEAN,
             ServerPipeSend(c, m, ok), sseq' = sseq
      PROVE  Flow(s2c, clog, sseq)'
  <2>1. s2c' = s2c \/ s2c' = [ s2c EXCEPT ![c] = Append(@, m) ]
    BY <1>0, <1>4, ServerWrites
  <2>2. Flow([ s2c EXCEPT ![c] = Append(@, m) ], clog, sseq)
    BY <1>0, <1>4, FlowWrite
  <2>. QED  BY <1>1, <1>4, <2>1, <2>2
<1>5. ASSUME NEW ch \in Chan, NEW k \in BOOLEAN, NEW e \in OptErrors, NEW ok \in BOOLEAN,
             ServerPost(ch, ChEnd(ch[2], k, e), ok), sseq' = sseq
      PROVE  Flow(s2c, clog, sseq)'
  <2>1. ChEnd(ch[2], k, e) \in Messages /\ ChEnd(ch[2], k, e).kind # "msg" /\ ch[1] \in Clients
    BY MessagesBuilt, KindsBuilt, ChanFields
  <2>. QED  BY <1>4, <1>5, <2>1 DEF ServerPost
<1>6. ASSUME NEW ch \in Chan, ServerSend(ch) PROVE Flow(s2c, clog, sseq)'
  <2> DEFINE m == ChMsg(ch[2], sseq[ch], ServiceOf[ch[2]])
  <2>1. sseq' = [ sseq EXCEPT ![ch] = @ + 1 ]
    BY <1>6 DEF ServerSend
  <2>2. m \in Messages /\ m.kind = "msg" /\ m.tag = ch[2] /\ m.sequence = sseq[ch]
    BY <1>0, MessagesBuilt, KindsBuilt DEF Counters
  <2>3. s2c' = s2c \/ s2c' = [ s2c EXCEPT ![ch[1]] = Append(@, m) ]
    BY <1>0, <1>6, ServerWrites, ChanFields DEF ServerSend, ServerPost
  <2>4. CASE s2c' = s2c
    BY <1>0, <1>1, <2>1, <2>4, FlowLost
  <2>5. CASE s2c' = [ s2c EXCEPT ![ch[1]] = Append(@, m) ]
    <3> HIDE DEF m
    <3>. QED  BY <1>0, <1>1, <2>1, <2>2, <2>5, FlowSend
  <2>. QED  BY <2>3, <2>4, <2>5
<1>7. ASSUME NEW ch \in Chan, NEW e \in OptErrors, ServerPostFinal(ch, e), sseq' = sseq
      PROVE  Flow(s2c, clog, sseq)'
  BY <1>5, <1>7 DEF ServerPostFinal
<1>8. ASSUME NEW ch \in Chan, NEW e \in Errors, NEW k \in BOOLEAN, ServerComplete(ch, e, k)
      PROVE  Flow(s2c, clog, sseq)'
  <2>1. e \in OptErrors
    BY PipeAssumption
  <2>. QED  BY <1>5, <1>7, <1>8, <2>1 DEF ServerComplete
<1>9. ASSUME NEW ch \in Chan, ServerDispose(ch) PROVE Flow(s2c, clog, sseq)'
  <2>1. serr[ch] \in OptErrors
    BY DEF TypeOK, ServerTypeOK
  <2>. QED  BY <1>1, <1>7, <1>9, <2>1 DEF ServerDispose
<1>10. CASE ServiceStep
  BY <1>2, <1>6, <1>8, <1>9, <1>10 DEF ServiceStep
<1>11. ASSUME NEW c \in Clients, ServerHandleRouteConnect(c) PROVE Flow(s2c, clog, sseq)'
  <2>1. RouteConnect \in Messages /\ RouteConnect.kind # "msg"
    BY MessagesBuilt, KindsBuilt
  <2>. QED  BY <1>4, <1>11, <2>1 DEF ServerHandleRouteConnect
<1>12. ASSUME NEW c \in Clients, ServerOpenChannel(c) PROVE Flow(s2c, clog, sseq)'
  <2>1. << c, Head(c2s[c]).tag >> \in Chan
    <3>1. c2s \in Queues /\ c2s[c] # << >> /\ Head(c2s[c]).kind = "msg"
      BY <1>12, FlowTypes DEF ServerOpenChannel, ServerReads
    <3>2. Head(c2s[c]) \in Messages
      BY <3>1, ReadType DEF Queues
    <3>. QED  BY <3>1, <3>2, MessageFields, ChanFields
  <2>2. sseq' = sseq /\ NoError \in OptErrors
    BY <1>12 DEF ServerOpenChannel, OptErrors
  <2>3. s2c' = s2c \/ ServerPostFinal(<< c, Head(c2s[c]).tag >>, NoError)
    BY <1>12 DEF ServerOpenChannel
  <2>. QED  BY <1>1, <1>7, <2>1, <2>2, <2>3
<1>13. ASSUME NEW c \in Clients,
              ServerDeliverMsg(c) \/ ServerIgnoreMsg(c) \/ ServerHandleRouteChannelEnd(c)
                 \/ ServerAccepts(c) \/ ServerLosesPipe(c)
       PROVE  UNCHANGED << s2c, sseq >>
  BY <1>13 DEF ServerDeliverMsg, ServerIgnoreMsg, ServerHandleRouteChannelEnd, ServerAccepts,
     ServerAccept, ServerLosesPipe, ServerDisconnected, ServerPipeClose, srouterVars
<1>. QED  BY <1>2, <1>3, <1>10, <1>11, <1>12, <1>13 DEF ServerReceive

-----------------------------------------------------------------------------
(***************************************************************************)
(* The maps of the client router.                                          *)
(***************************************************************************)
LEMMA ClientMapsClient ==
    ASSUME TypeOK, ClientMaps, ClientOwnerStep \/ ProcessStep
    PROVE  ClientMaps'
<1> USE DEF ClientMaps, Made
<1>0. ClientTypeOK /\ \A ch \in Chan : ch[1] \in Clients /\ ch[2] \in Nat
  BY ChanFields, PipeAssumption DEF TypeOK, Tags
<1>1. ASSUME NEW c \in Clients, MakeGateway(c) PROVE ClientMaps'
  <2> DEFINE co == << c, next_tag[c] >>
  <2>1. next_tag[c] \in Nat /\ co \in Chan
    BY <1>0, <1>1, PipeAssumption, ChanFields DEF MakeGateway, ClientTypeOK, Tags
  <2>2. \A ch \in Chan : next_tag'[ch[1]] = IF ch[1] = c THEN next_tag[c] + 1 ELSE next_tag[ch[1]]
    BY <1>0, <1>1 DEF MakeGateway, ClientTypeOK
  <2>3. \A ch \in Chan : ch[2] < next_tag[ch[1]] => ch[2] < next_tag'[ch[1]]
    BY <1>0, <2>1, <2>2
  <2>4. co[2] < next_tag'[co[1]]
    BY <2>1, <2>2
  <2> HIDE DEF co
  <2>5. /\ cgateways' = cgateways \cup {co} /\ calive' = calive \cup {co}
        /\ UNCHANGED << csubscribed, cseq, clog, cdone >>
    BY <1>1 DEF MakeGateway, co
  <2>6. cgateways' \subseteq calive' /\ csubscribed' \subseteq calive'
    BY <2>5
  <2>7. \A ch \in calive' : ch[2] < next_tag'[ch[1]]
    BY <1>0, <2>3, <2>4, <2>5 DEF ClientTypeOK
  <2>. QED  BY <2>3, <2>5, <2>6, <2>7
<1>2. ASSUME NEW ch \in Chan, Subscribe(ch) PROVE ClientMaps'
  BY <1>2 DEF Subscribe
<1>3. ASSUME NEW ch \in Chan, ClientSend(ch) PROVE ClientMaps'
  BY <1>0, <1>3 DEF ClientSend, ClientTypeOK
<1>4. ASSUME NEW ch \in Chan, ClientDispose(ch) PROVE ClientMaps'
  BY <1>4 DEF ClientDispose
<1>5. ASSUME NEW ch \in Chan, NEW e \in Errors, NEW k \in BOOLEAN, ClientComplete(ch, e, k)
      PROVE ClientMaps'
  BY <1>5 DEF ClientComplete
<1>6. CASE ProcessStep
  BY <1>6 DEF ProcessStep, ClientStart, ClientExit, DaemonExit, crouterVars
<1>. QED  BY <1>1, <1>2, <1>3, <1>4, <1>5, <1>6 DEF ClientOwnerStep

\* What the executor of the client runs (messages and pipe events) keeps ClientMaps.
LEMMA ClientMapsExecutor ==
    ASSUME TypeOK, ClientMaps,
           \E c \in Clients : ClientReceive(c) \/ ClientConnect(c) \/ ClientLosesPipe(c)
    PROVE  ClientMaps'
<1> USE DEF ClientMaps, Made
<1>0. ClientTypeOK
  BY DEF TypeOK
<1> PICK c \in Clients : ClientReceive(c) \/ ClientConnect(c) \/ ClientLosesPipe(c)
  OBVIOUS
<1>1. CASE ClientHandleRouteConnect(c)
  BY <1>1 DEF ClientHandleRouteConnect
<1>2. CASE ClientHandleRouteChannelMsg(c)
  BY <1>0, <1>2 DEF ClientHandleRouteChannelMsg, ClientTypeOK
<1>3. CASE ClientHandleRouteChannelEnd(c)
  BY <1>0, <1>3 DEF ClientHandleRouteChannelEnd, AfterEnd, ClientTypeOK
<1>4. CASE ClientPipeConnected(c)
  BY <1>4 DEF ClientPipeConnected, crouterVars
<1>5. CASE ClientConnectFailed(c) \/ ClientDisconnected(c)
  BY <1>0, <1>5 DEF ClientConnectFailed, ClientDisconnected, OnPipeDisconnected, ClientTypeOK
<1>. QED
  BY <1>1, <1>2, <1>3, <1>4, <1>5 DEF ClientReceive, ClientConnect, ClientLosesPipe

-----------------------------------------------------------------------------
(***************************************************************************)
(* The maps of the server router.                                          *)
(***************************************************************************)
LEMMA ServerMapsStep ==
    ASSUME TypeOK, ServerMaps, Next
    PROVE  ServerMaps'
<1> USE DEF ServerMaps
<1>0. ServerTypeOK /\ c2s \in [ Clients -> Seq(Messages) ]
  BY DEF TypeOK, PipeTypeOK
<1>1. CASE UNCHANGED srouterVars
  BY <1>1 DEF srouterVars
<1>2. ASSUME NEW ch \in Chan, ServerSend(ch) PROVE ServerMaps'
  BY <1>0, <1>2 DEF ServerSend, ServerTypeOK
<1>3. ASSUME NEW ch \in Chan, ServerDispose(ch) PROVE ServerMaps'
  BY <1>3 DEF ServerDispose
<1>4. ASSUME NEW ch \in Chan, NEW e \in Errors, NEW k \in BOOLEAN, ServerComplete(ch, e, k)
      PROVE ServerMaps'
  BY <1>4 DEF ServerComplete
<1>5. CASE DaemonExit
  BY <1>5 DEF DaemonExit
<1>6. ASSUME NEW c \in Clients, ServerHandleRouteConnect(c) PROVE ServerMaps'
  BY <1>6 DEF ServerHandleRouteConnect, KnownAfterReply
<1>7. ASSUME NEW c \in Clients, ServerReads(c, "msg")
      PROVE  << c, Head(c2s[c]).tag >> \in Chan /\ Head(c2s[c]).sequence \in 0 .. MaxSeq
  <2>1. Head(c2s[c]) \in Messages
    BY <1>0, <1>7, ReadType DEF ServerReads
  <2>. QED  BY <1>7, <2>1, MessageFields, ChanFields DEF ServerReads
<1>8. ASSUME NEW c \in Clients, ServerReads(c, "msg"),
             slog' = [ slog EXCEPT ![<< c, Head(c2s[c]).tag >>] = Append(@, Head(c2s[c]).sequence) ]
      PROVE  /\ slog'[<< c, Head(c2s[c]).tag >>] # << >>
             /\ \A ch \in Chan : slog[ch] # << >> => slog'[ch] # << >>
  <2> DEFINE co == << c, Head(c2s[c]).tag >>
             n == Head(c2s[c]).sequence
  <2>1. co \in Chan /\ n \in 0 .. MaxSeq
    BY <1>7, <1>8
  <2> HIDE DEF co, n
  <2>2. slog[co] \in Seq(0 .. MaxSeq) /\ slog \in [ Chan -> Seq(0 .. MaxSeq) ]
    BY <1>0, <2>1 DEF ServerTypeOK
  <2>3. Append(slog[co], n) # << >>
    BY <2>1, <2>2
  <2>4. slog' = [ slog EXCEPT ![co] = Append(@, n) ]
    BY <1>8 DEF co, n
  <2>5. slog'[co] # << >> /\ \A ch \in Chan : slog[ch] # << >> => slog'[ch] # << >>
    BY <2>1, <2>2, <2>3, <2>4
  <2>. QED  BY <2>5 DEF co
<1>9. ASSUME NEW c \in Clients, ServerDeliverMsg(c) PROVE ServerMaps'
  <2>1. \A ch \in Chan : slog[ch] # << >> => slog'[ch] # << >>
    BY <1>8, <1>9 DEF ServerDeliverMsg
  <2>. QED  BY <1>0, <1>9, <2>1 DEF ServerDeliverMsg, ServerTypeOK
<1>10. ASSUME NEW c \in Clients, ServerOpenChannel(c) PROVE ServerMaps'
  <2> DEFINE co == << c, Head(c2s[c]).tag >>
  <2>1. slog'[co] # << >> /\ \A ch \in Chan : slog[ch] # << >> => slog'[ch] # << >>
    BY <1>8, <1>10 DEF ServerOpenChannel
  <2>2. co \in Chan /\ co[1] = c /\ c \in sclients
    BY <1>7, <1>10 DEF ServerOpenChannel, OpensChannel
  <2>3. /\ UNCHANGED << sclients, sseq, sdone >>
        /\ \/ sgateways' = sgateways \cup {co} /\ salive' = salive \cup {co}
           \/ UNCHANGED << sgateways, salive >>
    BY <1>10 DEF ServerOpenChannel
  <2> HIDE DEF co
  <2>. QED  BY <1>0, <2>1, <2>2, <2>3 DEF ServerTypeOK
<1>11. ASSUME NEW c \in Clients, ServerHandleRouteChannelEnd(c) PROVE ServerMaps'
  BY <1>0, <1>11 DEF ServerHandleRouteChannelEnd, AfterEnd, ServerTypeOK
<1>12. ASSUME NEW c \in Clients, ServerDisconnected(c) PROVE ServerMaps'
  <2>1. \A ch \in Chan : ch \in ChannelsOf(c) <=> ch[1] = c
    BY DEF ChannelsOf
  <2>2. \A ch \in sgateways' : ch[1] \in sclients'
    BY <1>0, <1>12, <2>1 DEF ServerDisconnected, ServerTypeOK
  <2>3. \A ch \in Chan : slog[ch] = << >> => ch \notin sgateways
    OBVIOUS
  <2>. QED  BY <1>0, <1>12, <2>2, <2>3 DEF ServerDisconnected, ServerTypeOK
<1>13. CASE ClientOwnerStep
  BY <1>1, <1>13 DEF ClientOwnerStep
<1>14. CASE ServiceStep
  BY <1>2, <1>3, <1>4, <1>14 DEF ServiceStep
<1>15. CASE ProcessStep
  BY <1>1, <1>5, <1>15 DEF ProcessStep
<1>16. CASE ExecutorStep
  BY <1>1, <1>6, <1>9, <1>10, <1>11, <1>12, <1>16
     DEF ExecutorStep, ClientReceive, ClientConnect, ClientLosesPipe, ServerReceive,
         ServerAccepts, ServerLosesPipe, ServerIgnoreMsg
<1>. QED  BY <1>13, <1>14, <1>15, <1>16 DEF Next

-----------------------------------------------------------------------------
(***************************************************************************)
(* Ends that are over.                                                     *)
(***************************************************************************)

\* Only a channel that the service never saw is opened.
LEMMA OpensUnserved ==
    ASSUME TypeOK, Flow(c2s, slog, cseq), NEW c \in Clients, ServerOpenChannel(c)
    PROVE  << c, Head(c2s[c]).tag >> \in Chan /\ slog[<< c, Head(c2s[c]).tag >>] = << >>
<1> DEFINE co == << c, Head(c2s[c]).tag >>
<1>1. /\ c2s \in Queues /\ c2s[c] # << >> /\ Head(c2s[c]).kind = "msg"
      /\ Head(c2s[c]).sequence = 0 /\ slog \in Logs
  BY FlowTypes DEF ServerOpenChannel, ServerReads, OpensChannel
<1>2. Head(c2s[c]) \in Messages
  BY <1>1, ReadType DEF Queues
<1>3. co \in Chan /\ co[1] = c /\ co[2] = Head(c2s[c]).tag
  BY <1>1, <1>2, MessageFields, ChanFields
<1> HIDE DEF co
<1>4. slog[co] \in Seq(0 .. MaxSeq) /\ Sorted(c2s[c], co[2], slog[co], cseq[co])
  BY <1>1, <1>3 DEF Logs, Flow
<1>5. 1 \in 1 .. Len(c2s[c]) /\ c2s[c][1] = Head(c2s[c])
  BY <1>1 DEF Queues
<1>6. \A k \in 1 .. Len(slog[co]) : slog[co][k] < 0
  BY <1>1, <1>3, <1>4, <1>5 DEF Sorted
<1>7. \A k \in 1 .. Len(slog[co]) : slog[co][k] \in 0 .. MaxSeq
  BY <1>4, LogElement
<1>8. Len(slog[co]) = 0
  <2>1. Len(slog[co]) \in Nat
    BY <1>4
  <2>2. ASSUME Len(slog[co]) # 0 PROVE FALSE
    <3>1. 1 \in 1 .. Len(slog[co])
      BY <2>1, <2>2
    <3>. QED  BY <1>6, <1>7, <3>1
  <2>. QED  BY <2>2
<1>. QED  BY <1>3, <1>4, <1>8 DEF co

\* No step makes a gateway that has ended on the client known to its router again.
LEMMA EndsStep ==
    ASSUME TypeOK, Flow(c2s, slog, cseq), ClientMaps, ServerMaps, EndsUnregistered, Next
    PROVE  EndsUnregistered'
<1> USE DEF EndsUnregistered
<1>0. ClientTypeOK /\ ServerTypeOK
  BY DEF TypeOK
<1> DEFINE CE == \A ch \in Chan : cdone[ch] # << >> => ch \notin cgateways
           SE == \A ch \in Chan : sdone[ch] # << >> => ch \notin sgateways
<1>1. ASSUME UNCHANGED cdone, cgateways' \subseteq cgateways PROVE CE'
  BY <1>1
<1>2. ASSUME UNCHANGED sdone, sgateways' \subseteq sgateways PROVE SE'
  BY <1>2
<1>3. ASSUME UNCHANGED crouterVars PROVE CE'
  BY <1>3 DEF crouterVars
<1>4. ASSUME UNCHANGED srouterVars PROVE SE'
  BY <1>4 DEF srouterVars
<1>5. CASE ClientOwnerStep
  <2>1. ASSUME NEW c \in Clients, MakeGateway(c) PROVE CE'
    <3>1. << c, next_tag[c] >> \in Chan /\ ~Made(<< c, next_tag[c] >>)
      BY <1>0, <2>1, PipeAssumption, ChanFields DEF MakeGateway, ClientTypeOK, Tags, Made
    <3>2. cdone[<< c, next_tag[c] >>] = << >>
      BY <3>1 DEF ClientMaps
    <3>. QED  BY <2>1, <3>2 DEF MakeGateway
  <2>2. ASSUME NEW ch \in Chan, Subscribe(ch) \/ ClientSend(ch) \/ ClientDispose(ch) PROVE CE'
    BY <2>2 DEF Subscribe, ClientSend, ClientDispose
  <2>3. ASSUME NEW ch \in Chan, NEW e \in Errors, NEW k \in BOOLEAN, ClientComplete(ch, e, k)
        PROVE  CE'
    BY <2>3 DEF ClientComplete
  <2>. QED  BY <1>4, <1>5, <2>1, <2>2, <2>3 DEF ClientOwnerStep
<1>6. CASE ServiceStep
  <2>1. UNCHANGED sdone /\ sgateways' \subseteq sgateways
    BY <1>6 DEF ServiceStep, ServerSend, ServerDispose, ServerComplete
  <2>. QED  BY <1>2, <1>3, <1>6, <2>1 DEF ServiceStep
<1>7. CASE ProcessStep
  <2>1. UNCHANGED cdone /\ cgateways' \subseteq cgateways
    BY <1>7 DEF ProcessStep, ClientExit, crouterVars
  <2>2. UNCHANGED sdone /\ sgateways' \subseteq sgateways
    BY <1>7 DEF ProcessStep, DaemonExit, srouterVars
  <2>. QED  BY <1>1, <1>2, <2>1, <2>2
<1>8. ASSUME NEW c \in Clients, ClientReceive(c) \/ ClientConnect(c) \/ ClientLosesPipe(c)
      PROVE  EndsUnregistered'
  <2>1. ASSUME ClientHandleRouteConnect(c) PROVE CE'
    BY <2>1 DEF ClientHandleRouteConnect
  <2>2. ASSUME ClientHandleRouteChannelMsg(c) PROVE CE'
    BY <2>2 DEF ClientHandleRouteChannelMsg
  <2>3. ASSUME ClientHandleRouteChannelEnd(c) PROVE CE'
    BY <1>0, <2>3 DEF ClientHandleRouteChannelEnd, AfterEnd, ClientTypeOK
  <2>4. ASSUME ClientPipeConnected(c) PROVE CE'
    BY <2>4 DEF ClientPipeConnected, crouterVars
  <2>5. ASSUME ClientConnectFailed(c) \/ ClientDisconnected(c) PROVE CE'
    BY <2>5 DEF ClientConnectFailed, ClientDisconnected, OnPipeDisconnected
  <2>6. SE'
    BY <1>4, <1>8 DEF ClientReceive, ClientConnect, ClientLosesPipe
  <2>7. CE'
    BY <1>8, <2>1, <2>2, <2>3, <2>4, <2>5 DEF ClientReceive, ClientConnect, ClientLosesPipe
  <2>. QED  BY <2>6, <2>7
<1>9. ASSUME NEW c \in Clients, ServerReceive(c) \/ ServerAccepts(c) \/ ServerLosesPipe(c)
      PROVE  EndsUnregistered'
  <2>1. ASSUME ServerHandleRouteConnect(c) \/ ServerDeliverMsg(c) \/ ServerIgnoreMsg(c)
                  \/ ServerAccepts(c)
        PROVE  SE'
    BY <1>2, <2>1 DEF ServerHandleRouteConnect, ServerDeliverMsg, ServerIgnoreMsg,
       ServerAccepts, srouterVars
  <2>2. ASSUME ServerOpenChannel(c) PROVE SE'
    <3>1. sdone[<< c, Head(c2s[c]).tag >>] = << >>
      BY <2>2, OpensUnserved DEF ServerMaps
    <3>. QED  BY <2>2, <3>1 DEF ServerOpenChannel
  <2>3. ASSUME ServerHandleRouteChannelEnd(c) PROVE SE'
    BY <1>0, <2>3 DEF ServerHandleRouteChannelEnd, AfterEnd, ServerTypeOK
  <2>4. ASSUME ServerLosesPipe(c) PROVE SE'
    BY <2>4 DEF ServerLosesPipe, ServerDisconnected
  <2>5. CE'
    BY <1>3, <1>9 DEF ServerReceive, ServerAccepts, ServerLosesPipe
  <2>. QED  BY <1>9, <2>1, <2>2, <2>3, <2>4, <2>5 DEF ServerReceive
<1>. QED  BY <1>5, <1>6, <1>7, <1>8, <1>9 DEF Next, ExecutorStep

-----------------------------------------------------------------------------
(***************************************************************************)
(* The theorems.                                                           *)
(***************************************************************************)
LEMMA InvInit == Init => IpcInv
<1> SUFFICES ASSUME Init PROVE IpcInv
  OBVIOUS
<1>1. TypeOK
  BY TypeInit
<1>2. ClientMaps /\ ServerMaps /\ EndsUnregistered
  BY DEF Init, ClientInit, ServerInit, ClientMaps, ServerMaps, EndsUnregistered
<1>3. InFlight
  <2>1. \A t : Sorted(<< >>, t, << >>, 0)
    BY DEF Sorted
  <2>. QED
    BY <2>1, ChanFields DEF Init, PipeInit, ClientInit, ServerInit, InFlight, Flow
<1>4. InOrder
  BY DEF Init, ClientInit, ServerInit, InOrder, Increasing
<1>. QED  BY <1>1, <1>2, <1>3, <1>4 DEF IpcInv

\* IpcInv is inductive: every handler of both routers and of the pipe preserves it.
LEMMA InvStep == IpcInv /\ [Next]_vars => IpcInv'
<1> SUFFICES ASSUME IpcInv, [Next]_vars PROVE IpcInv'
  OBVIOUS
<1> USE DEF IpcInv
<1>1. CASE UNCHANGED vars
  BY <1>1 DEF vars, pipeVars, crouterVars, srouterVars, TypeOK, PipeTypeOK, ClientTypeOK,
     ServerTypeOK, ClientMaps, Made, ServerMaps, InFlight, Flow, EndsUnregistered, InOrder
<1>2. CASE Next
  <2>1. TypeOK' /\ ServerMaps'
    BY <1>2, TypeStep, ServerMapsStep
  <2>2. ServedInOrder /\ ReceivedInOrder
    BY DEF InOrder, ServedInOrder, ReceivedInOrder
  <2>3. Flow(c2s, slog, cseq)' /\ ServedInOrder'
    BY <1>2, <2>2, ToServerClient, ToServerDaemon DEF Next, ExecutorStep, InFlight
  <2>4. Flow(s2c, clog, sseq)' /\ ReceivedInOrder'
    BY <1>2, <2>2, ToClientClient, ToClientDaemon DEF Next, ExecutorStep, InFlight
  <2>5. ClientMaps'
    <3>1. ASSUME UNCHANGED crouterVars PROVE ClientMaps'
      BY <3>1 DEF crouterVars, ClientMaps, Made
    <3>2. CASE ServiceStep
      BY <3>1, <3>2 DEF ServiceStep
    <3>3. ASSUME NEW c \in Clients, ServerReceive(c) \/ ServerAccepts(c) \/ ServerLosesPipe(c)
          PROVE  ClientMaps'
      BY <3>1, <3>3 DEF ServerReceive, ServerAccepts, ServerLosesPipe
    <3>. QED
      BY <1>2, <3>2, <3>3, ClientMapsClient, ClientMapsExecutor DEF Next, ExecutorStep
  <2>6. EndsUnregistered'
    BY <1>2, EndsStep DEF InFlight
  <2>7. InOrder'
    BY <2>3, <2>4 DEF InOrder, ServedInOrder, ReceivedInOrder
  <2>. QED  BY <2>1, <2>3, <2>4, <2>5, <2>6, <2>7 DEF InFlight
<1>. QED  BY <1>1, <1>2

(***************************************************************************)
(* The inductive invariant: what the routers keep, what is in flight and   *)
(* what the owners have seen fit together in every reachable state.        *)
(***************************************************************************)
THEOREM InvHolds == Spec => []IpcInv
BY InvInit, InvStep, PTL DEF Spec

(***************************************************************************)
(* handleRouteChannelMsg of both routers: the messages of a channel reach  *)
(* either owner in the order they were sent and at most once, and its      *)
(* service is created by message 0, once.                                  *)
(***************************************************************************)
THEOREM DeliveryInOrder == Spec => []InOrder
<1>1. IpcInv => InOrder
  BY DEF IpcInv
<1>. QED  BY <1>1, InvHolds, PTL

(***************************************************************************)
(* handleRouteChannelEnd and the disconnect handlers of both routers: the  *)
(* step-wise form of SilentAfterEnd.                                       *)
(***************************************************************************)
LEMMA SilentStep ==
    ASSUME IpcInv, [Next]_vars, NEW ch \in Chan
    PROVE  /\ cdone[ch] # << >> => UNCHANGED << cdone[ch], clog[ch] >>
           /\ sdone[ch] # << >> => UNCHANGED << sdone[ch], slog[ch] >>
<1>0. /\ ClientTypeOK /\ ServerTypeOK
      /\ cdone[ch] # << >> => ch \notin cgateways
      /\ sdone[ch] # << >> => ch \notin sgateways /\ slog[ch] # << >>
  BY DEF IpcInv, TypeOK, EndsUnregistered, ServerMaps
<1>1. CASE UNCHANGED vars
  BY <1>1 DEF vars, crouterVars, srouterVars
<1>2. ASSUME UNCHANGED crouterVars
      PROVE  cdone[ch] # << >> => UNCHANGED << cdone[ch], clog[ch] >>
  BY <1>2 DEF crouterVars
<1>3. ASSUME UNCHANGED srouterVars
      PROVE  sdone[ch] # << >> => UNCHANGED << sdone[ch], slog[ch] >>
  BY <1>3 DEF srouterVars
<1>4. CASE ClientOwnerStep
  <2>1. UNCHANGED << cdone, clog >>
    BY <1>4 DEF ClientOwnerStep, MakeGateway, Subscribe, ClientSend, ClientDispose, ClientComplete
  <2>. QED  BY <1>3, <1>4, <2>1 DEF ClientOwnerStep
<1>5. CASE ServiceStep
  <2>1. UNCHANGED << sdone, slog >>
    BY <1>5 DEF ServiceStep, ServerSend, ServerDispose, ServerComplete
  <2>. QED  BY <1>2, <1>5, <2>1 DEF ServiceStep
<1>6. CASE ProcessStep
  <2>1. UNCHANGED << cdone, clog, sdone, slog >>
    BY <1>6 DEF ProcessStep, ClientExit, DaemonExit, crouterVars, srouterVars
  <2>. QED  BY <2>1
<1>7. ASSUME NEW c \in Clients, ClientReceive(c) \/ ClientConnect(c) \/ ClientLosesPipe(c),
             cdone[ch] # << >>
      PROVE  UNCHANGED << cdone[ch], clog[ch] >>
  <2>1. CASE ClientHandleRouteConnect(c)
    BY <2>1 DEF ClientHandleRouteConnect
  <2>2. CASE ClientHandleRouteChannelMsg(c)
    BY <1>0, <1>7, <2>2 DEF ClientHandleRouteChannelMsg, ClientTypeOK
  <2>3. CASE ClientHandleRouteChannelEnd(c)
    BY <1>0, <1>7, <2>3 DEF ClientHandleRouteChannelEnd, ClientTypeOK
  <2>4. CASE ClientPipeConnected(c)
    BY <2>4 DEF ClientPipeConnected, crouterVars
  <2>5. CASE ClientConnectFailed(c) \/ ClientDisconnected(c)
    BY <1>0, <1>7, <2>5 DEF ClientConnectFailed, ClientDisconnected, OnPipeDisconnected,
       ClientTypeOK
  <2>. QED
    BY <1>7, <2>1, <2>2, <2>3, <2>4, <2>5 DEF ClientReceive, ClientConnect, ClientLosesPipe
<1>8. ASSUME NEW c \in Clients, ServerReceive(c) \/ ServerAccepts(c) \/ ServerLosesPipe(c),
             sdone[ch] # << >>
      PROVE  UNCHANGED << sdone[ch], slog[ch] >>
  <2>1. CASE ServerHandleRouteConnect(c) \/ ServerIgnoreMsg(c) \/ ServerAccepts(c)
    BY <2>1 DEF ServerHandleRouteConnect, ServerIgnoreMsg, ServerAccepts, srouterVars
  <2>2. CASE ServerDeliverMsg(c)
    BY <1>0, <1>8, <2>2 DEF ServerDeliverMsg, ServerTypeOK
  <2>3. CASE ServerOpenChannel(c)
    <3>1. slog[<< c, Head(c2s[c]).tag >>] = << >>
      BY <2>3, OpensUnserved DEF IpcInv, InFlight
    <3>. QED  BY <1>0, <1>8, <2>3, <3>1 DEF ServerOpenChannel, ServerTypeOK
  <2>4. CASE ServerHandleRouteChannelEnd(c)
    BY <1>0, <1>8, <2>4 DEF ServerHandleRouteChannelEnd, ServerTypeOK
  <2>5. CASE ServerLosesPipe(c)
    BY <1>0, <1>8, <2>5 DEF ServerLosesPipe, ServerDisconnected, ServerTypeOK
  <2>. QED  BY <1>8, <2>1, <2>2, <2>3, <2>4, <2>5 DEF ServerReceive
<1>9. CASE ExecutorStep
  <2> PICK c \in Clients :
        \/ ClientReceive(c) \/ ClientConnect(c) \/ ClientLosesPipe(c)
        \/ ServerReceive(c) \/ ServerAccepts(c) \/ ServerLosesPipe(c)
    BY <1>9 DEF ExecutorStep
  <2>1. CASE ClientReceive(c) \/ ClientConnect(c) \/ ClientLosesPipe(c)
    BY <1>3, <1>7, <2>1 DEF ClientReceive, ClientConnect, ClientLosesPipe
  <2>2. CASE ServerReceive(c) \/ ServerAccepts(c) \/ ServerLosesPipe(c)
    BY <1>2, <1>8, <2>2 DEF ServerReceive, ServerAccepts, ServerLosesPipe
  <2>. QED  BY <2>1, <2>2
<1>. QED  BY <1>1, <1>4, <1>5, <1>6, <1>9 DEF Next

\* After a terminal completion the owner of a channel hears nothing more on it.
THEOREM SilenceAfterEnd == Spec => SilentAfterEnd
<1> DEFINE Silent ==
        \A ch \in Chan :
            /\ cdone[ch] # << >> => UNCHANGED << cdone[ch], clog[ch] >>
            /\ sdone[ch] # << >> => UNCHANGED << sdone[ch], slog[ch] >>
<1>1. IpcInv /\ [Next]_vars => [Silent]_vars
  BY SilentStep
<1>. QED  BY <1>1, InvHolds, PTL DEF Spec, SilentAfterEnd

-----------------------------------------------------------------------------
(***************************************************************************)
(* The two ends under the refinement mapping.                              *)
(***************************************************************************)

\* A registered gateway is an open end of the contract.
LEMMA RegisteredIsOpen ==
    ASSUME IpcInv
    PROVE  /\ \A ch \in cgateways : ch \in Chan /\ ClientEnd(ch) = "open"
           /\ \A ch \in sgateways : ch \in Chan /\ ServerEnd(ch) = "open"
<1>1. /\ cgateways \subseteq Chan /\ sgateways \subseteq Chan
      /\ \A ch \in Chan : ch[1] \in Clients /\ ch[2] \in Nat /\ next_tag[ch[1]] \in Nat
  BY ChanFields, PipeAssumption DEF IpcInv, TypeOK, ClientTypeOK, ServerTypeOK, Tags
<1>2. /\ \A ch \in cgateways : Made(ch)
      /\ \A ch \in sgateways : slog[ch] # << >>
  BY DEF IpcInv, ClientMaps, ServerMaps
<1>3. \A ch \in cgateways : ClientEnd(ch) = "open"
  BY <1>1, <1>2 DEF ClientEnd, Made
<1>4. \A ch \in sgateways : ServerEnd(ch) = "open"
  BY <1>2 DEF ServerEnd
<1>. QED  BY <1>1, <1>3, <1>4

\* The client ends change only with next_tag_ and map_of_gateways_.
LEMMA ClientEndsSame ==
    ASSUME UNCHANGED << next_tag, cgateways >>
    PROVE  [ ch \in Chan |-> ClientEnd(ch) ]' = [ ch \in Chan |-> ClientEnd(ch) ]
BY DEF ClientEnd

\* The server ends change only with the map of gateways and with what was served.
LEMMA ServerEndsSame ==
    ASSUME UNCHANGED << slog, sgateways >>
    PROVE  [ ch \in Chan |-> ServerEnd(ch) ]' = [ ch \in Chan |-> ServerEnd(ch) ]
BY DEF ServerEnd

\* Gateways of the client that are unregistered are ends that close.
LEMMA UnregisterClient ==
    ASSUME IpcInv, cgateways' \subseteq cgateways,
           UNCHANGED << next_tag, sgateways, cseq, sseq, slog, clog >>
    PROVE  Contract!Next
<1> DEFINE S == cgateways \ cgateways'
<1>1. S \in SUBSET Chan /\ \A ch \in S : ClientEnd(ch) = "open"
  BY RegisteredIsOpen
<1>2. ASSUME NEW ch \in Chan
      PROVE  ClientEnd(ch)' = IF ch \in S THEN "closed" ELSE ClientEnd(ch)
  BY <1>1 DEF ClientEnd
<1>3. Contract!CloseClient(S)
  BY <1>1, <1>2, ServerEndsSame DEF Contract!CloseClient
<1>. QED  BY <1>1, <1>3 DEF Contract!Next

\* Gateways of the daemon that are unregistered are ends that close.
LEMMA UnregisterServer ==
    ASSUME IpcInv, sgateways' \subseteq sgateways,
           UNCHANGED << next_tag, cgateways, cseq, sseq, slog, clog >>
    PROVE  Contract!Next
<1> DEFINE S == sgateways \ sgateways'
<1>1. S \in SUBSET Chan /\ \A ch \in S : ServerEnd(ch) = "open"
  BY RegisteredIsOpen
<1>2. ASSUME NEW ch \in Chan
      PROVE  ServerEnd(ch)' = IF ch \in S THEN "closed" ELSE ServerEnd(ch)
  BY <1>1 DEF ServerEnd
<1>3. Contract!CloseServer(S)
  BY <1>1, <1>2, ClientEndsSame DEF Contract!CloseServer
<1>. QED  BY <1>1, <1>3 DEF Contract!Next

\* A message at the head of a queue may be handed over next.
LEMMA HeadMayFollow ==
    ASSUME NEW q \in Seq(Messages), NEW t, NEW log, NEW n, Sorted(q, t, log, n),
           q # << >>, Head(q).kind = "msg", Head(q).tag = t
    PROVE  Head(q).sequence \in 0 .. MaxSeq /\ Contract!MayFollow(Head(q).sequence, log, n)
<1>1. Head(q) = q[1] /\ 1 \in 1 .. Len(q) /\ Head(q) \in Messages
  OBVIOUS
<1>2. Head(q).sequence \in 0 .. MaxSeq
  BY <1>1, MessageFields
<1>. QED  BY <1>1, <1>2 DEF Sorted, Contract!MayFollow

-----------------------------------------------------------------------------
(***************************************************************************)
(* Every step of IpcSystem is a step of the contract.                      *)
(***************************************************************************)

\* makeGateway opens the client end of a channel whose tag was never used.
LEMMA OpenStep ==
    ASSUME IpcInv, NEW c \in Clients, MakeGateway(c), UNCHANGED srouterVars
    PROVE  Contract!Next
<1> DEFINE co == << c, next_tag[c] >>
<1>1. next_tag \in [ Clients -> 0 .. MaxTags ] /\ next_tag[c] < MaxTags /\ MaxTags \in Nat
  BY PipeAssumption DEF IpcInv, TypeOK, ClientTypeOK, MakeGateway
<1>2. co \in Chan /\ co[1] = c /\ co[2] = next_tag[c]
  BY <1>1 DEF Chan, Tags
<1>3. ClientEnd(co) = "unused"
  BY <1>1, <1>2 DEF ClientEnd
<1>4. ASSUME NEW ch \in Chan
      PROVE  ClientEnd(ch)' = IF ch = co THEN "open" ELSE ClientEnd(ch)
  <2>1. /\ ch[1] \in Clients /\ ch[2] \in Nat /\ ch = << ch[1], ch[2] >>
        /\ next_tag[ch[1]] \in Nat
    BY <1>1, ChanFields DEF Tags
  <2>2. /\ next_tag' = [ next_tag EXCEPT ![c] = @ + 1 ]
        /\ cgateways' = cgateways \cup {co}
    BY DEF MakeGateway
  <2>3. CASE ch = co
    BY <1>1, <1>2, <2>2, <2>3 DEF ClientEnd
  <2>4. CASE ch # co
    BY <1>1, <1>2, <2>1, <2>2, <2>4 DEF ClientEnd
  <2>. QED  BY <2>3, <2>4
<1>5. UNCHANGED << sgateways, cseq, sseq, slog, clog >>
  BY DEF MakeGateway, srouterVars
<1>6. Contract!Open(co)
  BY <1>2, <1>3, <1>4, <1>5, ServerEndsSame DEF Contract!Open
<1>. QED  BY <1>2, <1>6 DEF Contract!Next

\* Gateway::send of the client: a message is sent whether or not its write succeeds.
LEMMA SendStep ==
    ASSUME IpcInv, NEW ch \in Chan, ClientSend(ch), UNCHANGED srouterVars
    PROVE  Contract!Next
<1>1. /\ ClientEnd(ch) = "open"
      /\ cseq' = [ cseq EXCEPT ![ch] = @ + 1 ]
      /\ UNCHANGED << next_tag, cgateways, sgateways, sseq, slog, clog >>
  BY RegisteredIsOpen DEF ClientSend, srouterVars
<1>2. Contract!Send(ch)
  BY <1>1, ClientEndsSame, ServerEndsSame DEF Contract!Send
<1>. QED  BY <1>2 DEF Contract!Next

\* Gateway::send of the daemon.
LEMMA ReplyStep ==
    ASSUME IpcInv, NEW ch \in Chan, ServerSend(ch), UNCHANGED crouterVars
    PROVE  Contract!Next
<1>1. /\ ServerEnd(ch) = "open"
      /\ sseq' = [ sseq EXCEPT ![ch] = @ + 1 ]
      /\ UNCHANGED << next_tag, cgateways, sgateways, cseq, slog, clog >>
  BY RegisteredIsOpen DEF ServerSend, crouterVars
<1>2. Contract!Reply(ch)
  BY <1>1, ClientEndsSame, ServerEndsSame DEF Contract!Reply
<1>. QED  BY <1>2 DEF Contract!Next

\* handleRouteChannelMsg of the client: the message goes to its owner, or nowhere.
LEMMA HandToClientStep ==
    ASSUME IpcInv, NEW c \in Clients, ClientHandleRouteChannelMsg(c), UNCHANGED srouterVars
    PROVE  Contract!Next
<1> DEFINE m  == Head(s2c[c])
           co == << c, m.tag >>
<1>1. UNCHANGED << next_tag, cgateways, sgateways, cseq, sseq, slog >>
  BY DEF ClientHandleRouteChannelMsg, srouterVars
<1>2. CASE clog' = clog
  BY <1>1, <1>2, UnregisterClient
<1>3. CASE clog' # clog
  <2>1. /\ co \in cgateways /\ clog' = [ clog EXCEPT ![co] = Append(@, m.sequence) ]
        /\ s2c[c] # << >> /\ m.kind = "msg"
    BY <1>3 DEF ClientHandleRouteChannelMsg
  <2>2. co \in Chan /\ ClientEnd(co) = "open" /\ co[1] = c /\ co[2] = m.tag
    BY <2>1, RegisteredIsOpen
  <2>3. Sorted(s2c[c], m.tag, clog[co], sseq[co]) /\ s2c[c] \in Seq(Messages)
    BY <2>2 DEF IpcInv, InFlight, Flow, TypeOK, PipeTypeOK
  <2>4. m.sequence \in 0 .. MaxSeq /\ Contract!MayFollow(m.sequence, clog[co], sseq[co])
    BY <2>1, <2>3, HeadMayFollow
  <2>5. Contract!HandToClient(co, m.sequence)
    BY <1>1, <2>1, <2>2, <2>4, ClientEndsSame, ServerEndsSame DEF Contract!HandToClient
  <2>. QED  BY <2>2, <2>4, <2>5 DEF Contract!Next
<1>. QED  BY <1>2, <1>3

\* handleRouteChannelMsg of the daemon, when the channel is registered.
LEMMA HandToServiceStep ==
    ASSUME IpcInv, NEW c \in Clients, ServerDeliverMsg(c), UNCHANGED crouterVars
    PROVE  Contract!Next
<1> DEFINE m  == Head(c2s[c])
           co == << c, m.tag >>
<1>1. /\ UNCHANGED << next_tag, cgateways, sgateways, cseq, sseq, clog >>
      /\ co \in sgateways /\ slog' = [ slog EXCEPT ![co] = Append(@, m.sequence) ]
      /\ c2s[c] # << >> /\ m.kind = "msg"
  BY DEF ServerDeliverMsg, ServerReads, crouterVars
<1>2. co \in Chan /\ ServerEnd(co) = "open" /\ co[1] = c /\ co[2] = m.tag
  BY <1>1, RegisteredIsOpen
<1>3. Sorted(c2s[c], m.tag, slog[co], cseq[co]) /\ c2s[c] \in Seq(Messages)
  BY <1>2 DEF IpcInv, InFlight, Flow, TypeOK, PipeTypeOK
<1>4. m.sequence \in 0 .. MaxSeq /\ Contract!MayFollow(m.sequence, slog[co], cseq[co])
  BY <1>1, <1>3, HeadMayFollow
<1>5. ASSUME NEW ch \in Chan PROVE ServerEnd(ch)' = ServerEnd(ch)
  <2>1. slog \in Logs /\ slog[co] # << >> /\ slog[co] \in Seq(0 .. MaxSeq)
    BY <1>1, <1>2, FlowTypes DEF IpcInv, ServerMaps, Logs
  <2>2. Append(slog[co], m.sequence) # << >>
    BY <1>4, <2>1
  <2>3. slog'[ch] = << >> <=> slog[ch] = << >>
    BY <1>1, <2>1, <2>2 DEF Logs
  <2>. QED  BY <1>1, <2>3 DEF ServerEnd
<1>6. Contract!HandToService(co, m.sequence)
  BY <1>1, <1>2, <1>4, <1>5, ClientEndsSame DEF Contract!HandToService
<1>. QED  BY <1>2, <1>4, <1>6 DEF Contract!Next

\* handleRouteChannelMsg of the daemon, when the message creates the service's channel.
LEMMA ServeStep ==
    ASSUME IpcInv, NEW c \in Clients, ServerOpenChannel(c), UNCHANGED crouterVars
    PROVE  Contract!Next
<1> DEFINE m  == Head(c2s[c])
           co == << c, m.tag >>
<1>1. /\ UNCHANGED << next_tag, cgateways, cseq, sseq, clog >>
      /\ m.sequence = 0 /\ slog' = [ slog EXCEPT ![co] = Append(@, m.sequence) ]
      /\ c2s[c] # << >> /\ m.kind = "msg" /\ co \notin sgateways
      /\ sgateways' = sgateways \cup {co} \/ sgateways' = sgateways
  BY DEF ServerOpenChannel, ServerReads, OpensChannel, crouterVars
<1>2. co \in Chan /\ slog[co] = << >> /\ co[1] = c /\ co[2] = m.tag
  BY OpensUnserved DEF IpcInv, InFlight
<1>3. ServerEnd(co) = "unused"
  BY <1>2 DEF ServerEnd
<1>4. cseq[co] > 0
  <2>1. Sorted(c2s[c], m.tag, slog[co], cseq[co]) /\ c2s[c] \in Seq(Messages)
    BY <1>2 DEF IpcInv, InFlight, Flow, TypeOK, PipeTypeOK
  <2>2. Contract!MayFollow(m.sequence, slog[co], cseq[co])
    BY <1>1, <2>1, HeadMayFollow
  <2>3. cseq[co] \in Nat
    BY <1>2, PipeAssumption DEF IpcInv, TypeOK, ClientTypeOK
  <2>. QED  BY <1>1, <2>2, <2>3 DEF Contract!MayFollow
<1>5. slog \in [ Chan -> Seq(0 .. MaxSeq) ] /\ slog' = [ slog EXCEPT ![co] = << 0 >> ]
  <2>1. Append(<< >>, 0) = << 0 >>
    OBVIOUS
  <2>2. slog \in [ Chan -> Seq(0 .. MaxSeq) ]
    BY DEF IpcInv, TypeOK, ServerTypeOK
  <2>. QED  BY <1>1, <1>2, <2>1, <2>2
<1> DEFINE taken == co \in sgateways'
<1>6. ASSUME NEW ch \in Chan
      PROVE  ServerEnd(ch)' = IF ch = co THEN IF taken THEN "open" ELSE "closed"
                              ELSE ServerEnd(ch)
  BY <1>1, <1>2, <1>5 DEF ServerEnd
<1>7. taken \in BOOLEAN
  OBVIOUS
<1>8. Contract!Serve(co, taken)
  <2> HIDE DEF taken
  <2>. QED
    BY <1>1, <1>2, <1>3, <1>4, <1>5, <1>6, ClientEndsSame DEF Contract!Serve
<1>. QED  BY <1>2, <1>7, <1>8 DEF Contract!Next

\* The steps of the client router that the contract sees as closing, or not at all.
LEMMA ClientQuietStep ==
    ASSUME IpcInv, UNCHANGED srouterVars,
           \/ \E ch \in Chan : Subscribe(ch) \/ ClientDispose(ch)
           \/ \E ch \in Chan, e \in Errors, k \in BOOLEAN : ClientComplete(ch, e, k)
           \/ \E c \in Clients : \/ ClientExit(c) \/ ClientHandleRouteConnect(c)
                                  \/ ClientHandleRouteChannelEnd(c) \/ ClientPipeConnected(c)
                                  \/ ClientConnectFailed(c) \/ ClientDisconnected(c)
    PROVE  Contract!Next
<1>1. UNCHANGED << next_tag, cseq, clog >>
  BY DEF Subscribe, ClientDispose, ClientComplete, ClientExit, ClientHandleRouteConnect,
     ClientHandleRouteChannelEnd, ClientPipeConnected, ClientConnectFailed,
     ClientDisconnected, crouterVars
<1>2. cgateways' \subseteq cgateways
  BY DEF Subscribe, ClientDispose, ClientComplete, ClientExit, ClientHandleRouteConnect,
     ClientHandleRouteChannelEnd, ClientPipeConnected, ClientConnectFailed,
     ClientDisconnected, OnPipeDisconnected, AfterEnd, crouterVars
<1>. QED  BY <1>1, <1>2, UnregisterClient DEF srouterVars

\* The steps of the server router that the contract sees as closing, or not at all.
LEMMA ServerQuietStep ==
    ASSUME IpcInv, UNCHANGED crouterVars,
           \/ \E ch \in Chan : ServerDispose(ch)
           \/ \E ch \in Chan, e \in Errors, k \in BOOLEAN : ServerComplete(ch, e, k)
           \/ DaemonExit
           \/ \E c \in Clients : \/ ServerHandleRouteConnect(c) \/ ServerIgnoreMsg(c)
                                  \/ ServerHandleRouteChannelEnd(c) \/ ServerDisconnected(c)
    PROVE  Contract!Next
<1>1. UNCHANGED << sseq, slog >>
  BY DEF ServerDispose, ServerComplete, DaemonExit, ServerHandleRouteConnect,
     ServerIgnoreMsg, ServerHandleRouteChannelEnd, ServerDisconnected, srouterVars
<1>2. sgateways' \subseteq sgateways
  BY DEF ServerDispose, ServerComplete, DaemonExit, ServerHandleRouteConnect,
     ServerIgnoreMsg, ServerHandleRouteChannelEnd, ServerDisconnected, AfterEnd, srouterVars
<1>. QED  BY <1>1, <1>2, UnregisterServer DEF crouterVars

\* Every step of the IPC is a step of the contract.
LEMMA ContractStep == IpcInv /\ [Next]_vars => [Contract!Next]_Contract!vars
<1> SUFFICES ASSUME IpcInv, [Next]_vars PROVE Contract!Next
  OBVIOUS
<1>1. ASSUME UNCHANGED << crouterVars, srouterVars >> PROVE Contract!Next
  <2>1. UNCHANGED << next_tag, cgateways, sgateways, cseq, sseq, slog, clog >>
    BY <1>1 DEF crouterVars, srouterVars
  <2>. QED  BY <2>1, UnregisterClient
<1>2. CASE UNCHANGED vars
  BY <1>1, <1>2 DEF vars
<1>3. CASE ClientOwnerStep
  BY <1>3, OpenStep, SendStep, ClientQuietStep DEF ClientOwnerStep
<1>4. CASE ServiceStep
  BY <1>4, ReplyStep, ServerQuietStep DEF ServiceStep
<1>5. CASE ProcessStep
  BY <1>1, <1>5, ClientQuietStep, ServerQuietStep DEF ProcessStep
<1>6. ASSUME NEW c \in Clients, ClientReceive(c) \/ ClientConnect(c) \/ ClientLosesPipe(c)
      PROVE  Contract!Next
  BY <1>6, HandToClientStep, ClientQuietStep DEF ClientReceive, ClientConnect, ClientLosesPipe
<1>7. ASSUME NEW c \in Clients, ServerReceive(c) \/ ServerAccepts(c) \/ ServerLosesPipe(c)
      PROVE  Contract!Next
  BY <1>1, <1>7, HandToServiceStep, ServeStep, ServerQuietStep
     DEF ServerReceive, ServerAccepts, ServerLosesPipe
<1>. QED  BY <1>2, <1>3, <1>4, <1>5, <1>6, <1>7 DEF Next, ExecutorStep

\* Before anything has happened every end of the contract is unused.
LEMMA ContractInit == Init => Contract!Init
<1> SUFFICES ASSUME Init PROVE Contract!Init
  OBVIOUS
<1>1. \A ch \in Chan : ClientEnd(ch) = "unused" /\ ServerEnd(ch) = "unused"
  BY ChanFields DEF Init, ClientInit, ServerInit, ClientEnd, ServerEnd, Tags
<1>. QED  BY <1>1 DEF Init, ClientInit, ServerInit, Contract!Init

(***************************************************************************)
(* The two routers and the pipes between them implement the contract of a  *)
(* channel, whatever is lost, completed, disposed of or disconnected.      *)
(***************************************************************************)
THEOREM IpcImplementsContract == Spec => ImplementsContract
BY ContractInit, ContractStep, InvHolds, PTL DEF Spec, ImplementsContract, Contract!Spec

-----------------------------------------------------------------------------
(***************************************************************************)
(* How channels end, for every value of the constants: what the owners are *)
(* told, with which error, and what the two routers know of each other.    *)
(* The inductive invariant is IpcEndInv of module IpcInductive.            *)
(***************************************************************************)
(***************************************************************************)
(* Lemmas about queues: what writing and reading do to ends in flight.     *)
(***************************************************************************)

\* optErrorToDsdlError and dsdlErrorToOptError: an error survives the wire.
LEMMA ErrorSurvives ==
    ASSUME NEW e \in OptErrors
    PROVE  dsdlErrorToOptError(optErrorToDsdlError(e)) = e
BY DEF OptErrors, NoError, ErrorCode, dsdlErrorToOptError, optErrorToDsdlError

\* Where the elements of a queue are after one more was written.
LEMMA AppendAt ==
    ASSUME NEW S, NEW q \in Seq(S), NEW m \in S
    PROVE  /\ Append(q, m) \in Seq(S) /\ Len(q) \in Nat /\ Len(Append(q, m)) = Len(q) + 1
           /\ Append(q, m)[Len(q) + 1] = m
           /\ \A i \in 1 .. Len(q) : Append(q, m)[i] = q[i]
           /\ \A i \in 1 .. Len(q) + 1 : i = Len(q) + 1 \/ i \in 1 .. Len(q)
OBVIOUS

\* Where the elements of a queue are after one was read.
LEMMA TailAt ==
    ASSUME NEW S, NEW q \in Seq(S), q # << >>
    PROVE  /\ Tail(q) \in Seq(S) /\ Len(q) \in Nat \ {0} /\ Len(Tail(q)) = Len(q) - 1
           /\ Head(q) = q[1] /\ Head(q) \in S
           /\ \A i \in 1 .. Len(q) - 1 : Tail(q)[i] = q[i + 1] /\ i + 1 \in 1 .. Len(q)
           /\ \A i \in 1 .. Len(q) : i = 1 \/ (i - 1 \in 1 .. Len(q) - 1 /\ Tail(q)[i - 1] = q[i])
OBVIOUS

\* Which ends and openings are in a queue after one more message was written.
LEMMA InAppend ==
    ASSUME NEW S, NEW q \in Seq(S), NEW m \in S, NEW t
    PROVE  /\ Ended(Append(q, m), t) <=> Ended(q, t) \/ Terminal(m, t)
           /\ Opening(Append(q, m), t) <=> Opening(q, t) \/ First(m, t)
<1> DEFINE r == Append(q, m)
<1>1. /\ Len(r) = Len(q) + 1 /\ r[Len(q) + 1] = m /\ Len(q) \in Nat
      /\ \A i \in 1 .. Len(q) : r[i] = q[i]
      /\ \A i \in 1 .. Len(r) : i = Len(q) + 1 \/ i \in 1 .. Len(q)
  BY AppendAt
<1>2. Len(q) + 1 \in 1 .. Len(r) /\ \A i \in 1 .. Len(q) : i \in 1 .. Len(r)
  BY <1>1
<1> HIDE DEF r
<1>3. Ended(r, t) <=> Ended(q, t) \/ Terminal(m, t)
  BY <1>1, <1>2 DEF Ended
<1>4. Opening(r, t) <=> Opening(q, t) \/ First(m, t)
  BY <1>1, <1>2 DEF Opening
<1>. QED  BY <1>3, <1>4 DEF r

\* Which ends and openings are in a queue after one message was read.
LEMMA InTail ==
    ASSUME NEW S, NEW q \in Seq(S), q # << >>, NEW t
    PROVE  /\ Ended(q, t) <=> Ended(Tail(q), t) \/ Terminal(Head(q), t)
           /\ Opening(q, t) <=> Opening(Tail(q), t) \/ First(Head(q), t)
<1> DEFINE r == Tail(q)
<1>1. /\ Len(q) \in Nat \ {0} /\ Len(r) = Len(q) - 1 /\ Head(q) = q[1]
      /\ \A i \in 1 .. Len(q) - 1 : r[i] = q[i + 1] /\ i + 1 \in 1 .. Len(q)
      /\ \A i \in 1 .. Len(q) : i = 1 \/ (i - 1 \in 1 .. Len(q) - 1 /\ r[i - 1] = q[i])
  BY TailAt
<1>2. 1 \in 1 .. Len(q)
  BY <1>1
<1> HIDE DEF r
<1>3. Ended(q, t) <=> Ended(r, t) \/ Terminal(Head(q), t)
  BY <1>1, <1>2 DEF Ended
<1>4. Opening(q, t) <=> Opening(r, t) \/ First(Head(q), t)
  BY <1>1, <1>2 DEF Opening
<1>. QED  BY <1>3, <1>4 DEF r

\* A message that does not end this channel is written.
LEMMA AgreeOther ==
    ASSUME NEW S, NEW q \in Seq(S), NEW m \in S, NEW t, NEW f,
           EndsAgree(q, t, f), ~Terminal(m, t)
    PROVE  EndsAgree(Append(q, m), t, f)
<1> DEFINE r == Append(q, m)
<1>1. /\ Len(r) = Len(q) + 1 /\ r[Len(q) + 1] = m /\ Len(q) \in Nat
      /\ \A i \in 1 .. Len(q) : r[i] = q[i]
      /\ \A i \in 1 .. Len(r) : i = Len(q) + 1 \/ i \in 1 .. Len(q)
  BY AppendAt
<1>2. \A i \in 1 .. Len(q) : \A j \in 1 .. i - 1 : j \in 1 .. Len(q)
  BY <1>1
<1>3. Ended(r, t) <=> f # "no"
  BY InAppend DEF EndsAgree
<1> HIDE DEF r
<1>4. EndsAgree(r, t, f)
  BY <1>1, <1>2, <1>3 DEF EndsAgree
<1>. QED  BY <1>4 DEF r

\* A message that ends this channel is written: only the first one counts.
LEMMA AgreeTerminal ==
    ASSUME NEW S, NEW q \in Seq(S), NEW m \in S, NEW t, NEW f, NEW e,
           EndsAgree(q, t, f), Terminal(m, t), e # "no", dsdlErrorToOptError(m.error) = e
    PROVE  EndsAgree(Append(q, m), t, IF f = "no" THEN e ELSE f)
<1> DEFINE r == Append(q, m)
           g == IF f = "no" THEN e ELSE f
<1>1. /\ Len(r) = Len(q) + 1 /\ r[Len(q) + 1] = m /\ Len(q) \in Nat
      /\ \A i \in 1 .. Len(q) : r[i] = q[i]
      /\ \A i \in 1 .. Len(r) : i = Len(q) + 1 \/ i \in 1 .. Len(q)
  BY AppendAt
<1>2. \A i \in 1 .. Len(q) : \A j \in 1 .. i - 1 : j \in 1 .. Len(q)
  BY <1>1
<1>3. Ended(r, t) /\ g # "no"
  BY InAppend
<1> HIDE DEF r
<1>4. ASSUME NEW i \in 1 .. Len(r), Terminal(r[i], t),
             \A j \in 1 .. i - 1 : ~Terminal(r[j], t)
      PROVE  dsdlErrorToOptError(r[i].error) = g
  <2>1. CASE i \in 1 .. Len(q)
    <3>1. Terminal(q[i], t) /\ \A j \in 1 .. i - 1 : ~Terminal(q[j], t)
      BY <1>1, <1>2, <1>4, <2>1
    <3>. QED  BY <1>1, <2>1, <3>1 DEF EndsAgree, Ended
  <2>2. CASE i = Len(q) + 1
    <3>1. ~Ended(q, t)
      BY <1>1, <1>4, <2>2 DEF Ended
    <3>. QED  BY <1>1, <2>2, <3>1 DEF EndsAgree
  <2>. QED  BY <1>1, <2>1, <2>2
<1>5. EndsAgree(r, t, g)
  BY <1>3, <1>4 DEF EndsAgree
<1>. QED  BY <1>5 DEF r

\* A message that does not end this channel is read.
LEMMA AgreeRead ==
    ASSUME NEW S, NEW q \in Seq(S), q # << >>, NEW t, NEW f, EndsAgree(q, t, f),
           ~Terminal(Head(q), t)
    PROVE  EndsAgree(Tail(q), t, f)
<1> DEFINE r == Tail(q)
<1>1. /\ Len(q) \in Nat \ {0} /\ Len(r) = Len(q) - 1 /\ Head(q) = q[1]
      /\ \A i \in 1 .. Len(q) - 1 : r[i] = q[i + 1] /\ i + 1 \in 1 .. Len(q)
  BY TailAt
<1>2. Ended(r, t) <=> f # "no"
  BY InTail DEF EndsAgree
<1> HIDE DEF r
<1>3. ASSUME NEW i \in 1 .. Len(r), Terminal(r[i], t),
             \A j \in 1 .. i - 1 : ~Terminal(r[j], t)
      PROVE  dsdlErrorToOptError(r[i].error) = f
  <2>1. ASSUME NEW j \in 1 .. i PROVE ~Terminal(q[j], t)
    <3>1. CASE j = 1
      BY <1>1, <3>1
    <3>2. CASE j # 1
      <4>1. j - 1 \in 1 .. Len(q) - 1 /\ j - 1 \in 1 .. i - 1 /\ (j - 1) + 1 = j
        BY <1>1, <3>2
      <4>. QED  BY <1>1, <1>3, <4>1
    <3>. QED  BY <3>1, <3>2
  <2>2. i + 1 \in 1 .. Len(q) /\ r[i] = q[i + 1] /\ (i + 1) - 1 = i
    BY <1>1
  <2>. QED  BY <1>3, <2>1, <2>2 DEF EndsAgree
<1>4. EndsAgree(r, t, f)
  BY <1>2, <1>3 DEF EndsAgree
<1>. QED  BY <1>4 DEF r

\* The end of this channel is read: it has the error of the first that was written.
LEMMA AgreeHead ==
    ASSUME NEW S, NEW q \in Seq(S), q # << >>, NEW t, NEW f, EndsAgree(q, t, f),
           Terminal(Head(q), t)
    PROVE  f # "no" /\ dsdlErrorToOptError(Head(q).error) = f
<1>1. 1 \in 1 .. Len(q) /\ Head(q) = q[1] /\ \A j \in 1 .. 1 - 1 : FALSE
  OBVIOUS
<1>. QED  BY <1>1 DEF EndsAgree, Ended

\* A queue whose ends all come after its openings: an end is read when no opening is left.
LEMMA FirstAhead ==
    ASSUME NEW S, NEW q \in Seq(S), q # << >>, NEW t, Opening(Tail(q), t),
           \A i, j \in 1 .. Len(q) : First(q[i], t) /\ Terminal(q[j], t) => i < j
    PROVE  ~Terminal(Head(q), t)
<1> DEFINE r == Tail(q)
<1>1. /\ Len(q) \in Nat \ {0} /\ Len(r) = Len(q) - 1 /\ Head(q) = q[1]
      /\ \A i \in 1 .. Len(q) - 1 : r[i] = q[i + 1] /\ i + 1 \in 1 .. Len(q)
  BY TailAt
<1>2. PICK i \in 1 .. Len(r) : First(r[i], t)
  BY DEF Opening
<1> HIDE DEF r
<1>3. i + 1 \in 1 .. Len(q) /\ First(q[i + 1], t) /\ 1 \in 1 .. Len(q) /\ ~(i + 1 < 1)
  BY <1>1, <1>2
<1>. QED  BY <1>1, <1>3

\* Nothing is in an empty queue.
LEMMA AgreeEmpty == \A t : EndsAgree(<< >>, t, "no") /\ ~Ended(<< >>, t) /\ ~Opening(<< >>, t)
BY DEF EndsAgree, Ended, Opening

-----------------------------------------------------------------------------
(***************************************************************************)
(* The same for all channels in one direction.                             *)
(***************************************************************************)
Finals == [ Chan -> OptErrors \cup {"no"} ]

\* A message that is not an end is written.
LEMMA PostOther ==
    ASSUME NEW q \in Queues, NEW c \in Clients, NEW m \in Messages, m.kind # "end",
           NEW ch \in Chan, NEW f, EndsAgree(q[ch[1]], ch[2], f)
    PROVE  EndsAgree([ q EXCEPT ![c] = Append(@, m) ][ch[1]], ch[2], f)
<1>1. q[ch[1]] \in Seq(Messages) /\ ch[1] \in Clients
  BY ChanFields DEF Queues
<1>2. EndsAgree(Append(q[ch[1]], m), ch[2], f)
  BY <1>1, AgreeOther DEF Terminal
<1>. QED  BY <1>1, <1>2 DEF Queues

\* An end of the channel co is written.
LEMMA PostEnd ==
    ASSUME NEW q \in Queues, NEW final \in Finals, NEW co \in Chan, NEW k \in BOOLEAN,
           NEW e \in OptErrors, NEW ch \in Chan, EndsAgree(q[ch[1]], ch[2], final[ch]),
           NEW r, r = [ q EXCEPT ![co[1]] = Append(@, ChEnd(co[2], k, e)) ]
    PROVE  EndsAgree(r[ch[1]], ch[2], FirstFinal(final, co, k, TRUE, e)[ch])
<1> DEFINE m == ChEnd(co[2], k, e)
<1>1. /\ q[ch[1]] \in Seq(Messages) /\ ch[1] \in Clients /\ co[1] \in Clients
      /\ m \in Messages /\ ch = << ch[1], ch[2] >> /\ co = << co[1], co[2] >>
  BY ChanFields, MessagesBuilt DEF Queues
<1>2. m.kind = "end" /\ m.tag = co[2] /\ m.keep_alive = k /\ dsdlErrorToOptError(m.error) = e
  BY ErrorSurvives DEF ChEnd
<1>3. e # "no"
  BY DEF OptErrors, NoError, ErrorCode
<1> HIDE DEF m
<1>4. CASE ch[1] # co[1]
  BY <1>1, <1>4 DEF Queues, FirstFinal, Finals, m
<1>5. CASE ch[1] = co[1] /\ (k \/ ch # co)
  <2>1. r[ch[1]] = Append(q[ch[1]], m) /\ FirstFinal(final, co, k, TRUE, e)[ch] = final[ch]
    BY <1>1, <1>5 DEF Queues, FirstFinal, Finals, m
  <2>2. ~Terminal(m, ch[2])
    BY <1>1, <1>2, <1>5 DEF Terminal
  <2>. QED  BY <1>1, <2>1, <2>2, AgreeOther
<1>6. CASE ch = co /\ ~k
  <2>1. /\ r[ch[1]] = Append(q[ch[1]], m)
        /\ FirstFinal(final, co, k, TRUE, e)[ch] = IF final[ch] = "no" THEN e ELSE final[ch]
    BY <1>1, <1>6 DEF Queues, FirstFinal, Finals, m
  <2>2. Terminal(m, ch[2])
    BY <1>2, <1>6 DEF Terminal
  <2>. QED  BY <1>1, <1>2, <1>3, <2>1, <2>2, AgreeTerminal
<1>. QED  BY <1>1, <1>4, <1>5, <1>6

\* A message is read that does not end the channel.
LEMMA ReadOther ==
    ASSUME NEW q \in Queues, NEW c \in Clients, q[c] # << >>, NEW ch \in Chan, NEW f,
           EndsAgree(q[ch[1]], ch[2], f), ch[1] = c => ~Terminal(Head(q[c]), ch[2])
    PROVE  EndsAgree([ q EXCEPT ![c] = Tail(@) ][ch[1]], ch[2], f)
<1>1. q[ch[1]] \in Seq(Messages) /\ ch[1] \in Clients
  BY ChanFields DEF Queues
<1>. QED  BY <1>1, AgreeRead DEF Queues

-----------------------------------------------------------------------------
(***************************************************************************)
(* Ends on their way to the service.                                       *)
(***************************************************************************)

\* The types that the lemmas on ends need.
LEMMA EndTypes ==
    ASSUME TypeOK
    PROVE  /\ c2s \in Queues /\ s2c \in Queues /\ cfinal \in Finals /\ sfinal \in Finals
           /\ \A ch \in Chan : /\ cseq[ch] \in Nat /\ cerr[ch] \in OptErrors
                               /\ serr[ch] \in OptErrors
           /\ Errors \subseteq OptErrors
BY PipeAssumption DEF TypeOK, PipeTypeOK, ClientTypeOK, ServerTypeOK, Queues, Finals

\* Before the connection is accepted the client has sent nothing on a channel.
LEMMA UnsentBeforeAccept ==
    ASSUME TypeOK, Handshake, SentAfterHandshake, NEW ch \in Chan,
           spipe[ch[1]] \notin {"up", "down"}
    PROVE  cseq[ch] = 0
<1>1. cseq[ch] \in Nat /\ ch[1] \in Clients
  BY EndTypes, ChanFields
<1>. QED  BY <1>1 DEF Handshake, SentAfterHandshake

\* The client writes an end: complete() and ~GatewayImpl.
LEMMA ToServerPost ==
    ASSUME TypeOK, EndsToServer, NEW co \in Chan, NEW k \in BOOLEAN, NEW e \in OptErrors,
           NEW ok \in BOOLEAN, cseq[co] # 0,
           ClientPipeSend(co[1], ChEnd(co[2], k, e), ok),
           cfinal' = FirstFinal(cfinal, co, k, ok, e), UNCHANGED << cseq, spipe, sgateways >>
    PROVE  EndsToServer'
<1> SUFFICES ASSUME NEW ch \in Chan
             PROVE  /\ (cseq[ch] = 0 \/ Opening(c2s'[ch[1]], ch[2]) \/ ch \in sgateways)
                            /\ spipe[ch[1]] # "down"
                        => EndsAgree(c2s'[ch[1]], ch[2], cfinal'[ch])
                    /\ cseq[ch] = 0 => cfinal'[ch] = "no"
  BY DEF EndsToServer
<1> DEFINE m == ChEnd(co[2], k, e)
<1>0. /\ c2s \in Queues /\ cfinal \in Finals /\ ch[1] \in Clients /\ co[1] \in Clients
      /\ m \in Messages /\ c2s[co[1]] \in Seq(Messages)
  BY EndTypes, ChanFields, MessagesBuilt DEF Queues
<1>1. cseq[ch] = 0 => cfinal'[ch] = "no"
  BY <1>0 DEF FirstFinal, Finals, EndsToServer
<1>2. CASE ok /\ spipe[co[1]] # "down"
  <2>1. c2s' = [ c2s EXCEPT ![co[1]] = Append(@, m) ]
    BY <1>2 DEF ClientPipeSend
  <2>2. Opening(c2s'[ch[1]], ch[2]) => Opening(c2s[ch[1]], ch[2])
    <3>1. ~First(m, ch[2])
      BY DEF First, ChEnd
    <3>2. CASE ch[1] # co[1]
      BY <1>0, <2>1, <3>2 DEF Queues
    <3>3. CASE ch[1] = co[1]
      BY <1>0, <2>1, <3>1, <3>3, InAppend DEF Queues
    <3>. QED  BY <3>2, <3>3
  <2>3. EndsAgree(c2s[ch[1]], ch[2], cfinal[ch])
            => EndsAgree(c2s'[ch[1]], ch[2], cfinal'[ch])
    BY <1>0, <1>2, <2>1, PostEnd
  <2>. QED  BY <1>1, <2>2, <2>3 DEF EndsToServer
<1>3. CASE ~(ok /\ spipe[co[1]] # "down")
  <2>1. c2s' = c2s
    BY <1>0, <1>3 DEF ClientPipeSend, Queues
  <2>2. (ch = co /\ ok) \/ cfinal'[ch] = cfinal[ch]
    BY <1>0 DEF FirstFinal, Finals
  <2>. QED  BY <1>1, <1>3, <2>1, <2>2 DEF EndsToServer
<1>. QED  BY <1>2, <1>3

\* The client sends a message: it opens its channel if it is the first one.
LEMMA ToServerSend ==
    ASSUME TypeOK, EndsToServer, NEW co \in Chan, ClientSend(co), UNCHANGED srouterVars
    PROVE  EndsToServer'
<1> SUFFICES ASSUME NEW ch \in Chan
             PROVE  /\ (cseq'[ch] = 0 \/ Opening(c2s'[ch[1]], ch[2]) \/ ch \in sgateways)
                            /\ spipe[ch[1]] # "down"
                        => EndsAgree(c2s'[ch[1]], ch[2], cfinal[ch])
                    /\ cseq'[ch] = 0 => cfinal[ch] = "no"
  BY DEF EndsToServer, ClientSend, srouterVars
<1> DEFINE m == ChMsg(co[2], cseq[co], ServiceOf[co[2]])
<1>0. /\ c2s \in Queues /\ ch[1] \in Clients /\ co[1] \in Clients /\ cseq \in Counters
      /\ m \in Messages /\ c2s[co[1]] \in Seq(Messages) /\ PipeTypeOK
      /\ ch = << ch[1], ch[2] >> /\ co = << co[1], co[2] >> /\ \A h \in Chan : cseq[h] \in Nat
  BY EndTypes, FlowTypes, ChanFields, MessagesBuilt DEF Queues, Counters, TypeOK
<1>1. /\ cseq' = [ cseq EXCEPT ![co] = @ + 1 ]
      /\ c2s' = c2s \/ c2s' = [ c2s EXCEPT ![co[1]] = Append(@, m) ]
  BY <1>0, ClientWrites DEF ClientSend, ClientPost
<1>2. /\ cseq'[ch] = 0 => cseq[ch] = 0
      /\ cseq'[ch] = 0 => cfinal[ch] = "no"
  BY <1>0, <1>1 DEF Counters, EndsToServer
<1>3. CASE c2s' = c2s
  BY <1>2, <1>3 DEF EndsToServer
<1>4. CASE c2s' = [ c2s EXCEPT ![co[1]] = Append(@, m) ]
  <2>1. Opening(c2s'[ch[1]], ch[2]) => Opening(c2s[ch[1]], ch[2]) \/ cseq[ch] = 0
    <3>1. First(m, ch[2]) => cseq[co] = 0 /\ co[2] = ch[2]
      BY DEF First, ChMsg
    <3>2. CASE ch[1] # co[1]
      BY <1>0, <1>4, <3>2 DEF Queues
    <3>3. CASE ch[1] = co[1]
      <4>1. c2s'[ch[1]] = Append(c2s[ch[1]], m) /\ c2s[ch[1]] \in Seq(Messages)
        BY <1>0, <1>4, <3>3 DEF Queues
      <4>2. Opening(c2s'[ch[1]], ch[2]) => Opening(c2s[ch[1]], ch[2]) \/ First(m, ch[2])
        BY <1>0, <4>1, InAppend
      <4>3. First(m, ch[2]) => ch = co /\ cseq[co] = 0
        BY <1>0, <3>1, <3>3
      <4>. QED  BY <4>2, <4>3
    <3>. QED  BY <3>2, <3>3
  <2>2. m.kind # "end"
    BY DEF ChMsg
  <2>3. EndsAgree(c2s[ch[1]], ch[2], cfinal[ch]) => EndsAgree(c2s'[ch[1]], ch[2], cfinal[ch])
    BY <1>0, <1>4, <2>2, PostOther
  <2>. QED  BY <1>2, <2>1, <2>3 DEF EndsToServer
<1>. QED  BY <1>1, <1>3, <1>4

\* The daemon reads a message. It may open a channel, and a terminal end closes one.
LEMMA ToServerRead ==
    ASSUME TypeOK, EndsToServer, FirstThenEnd, NEW c \in Clients, spipe[c] = "up",
           c2s[c] # << >>, c2s' = [ c2s EXCEPT ![c] = Tail(@) ],
           UNCHANGED << cseq, cfinal, spipe >>,
           \A ch \in Chan : ch \in sgateways' =>
                /\ ch \in sgateways \/ (ch[1] = c /\ First(Head(c2s[c]), ch[2]))
                /\ ch[1] = c => ~Terminal(Head(c2s[c]), ch[2])
    PROVE  EndsToServer'
<1> SUFFICES ASSUME NEW ch \in Chan,
                    cseq[ch] = 0 \/ Opening(c2s'[ch[1]], ch[2]) \/ ch \in sgateways',
                    spipe[ch[1]] # "down"
             PROVE  EndsAgree(c2s'[ch[1]], ch[2], cfinal[ch])
  BY DEF EndsToServer
<1>0. c2s \in Queues /\ ch[1] \in Clients /\ c2s[ch[1]] \in Seq(Messages)
  BY EndTypes, ChanFields DEF Queues
<1>1. CASE ch[1] # c
  BY <1>0, <1>1 DEF EndsToServer, Queues
<1>2. CASE ch[1] = c
  <2>1. c2s'[c] = Tail(c2s[c])
    BY <1>0 DEF Queues
  <2>2. Opening(c2s[c], ch[2]) <=> Opening(c2s'[c], ch[2]) \/ First(Head(c2s[c]), ch[2])
    BY <1>0, <1>2, <2>1, InTail
  <2>3. EndsAgree(c2s[c], ch[2], cfinal[ch])
    BY <1>2, <2>2 DEF EndsToServer
  <2>4. ~Terminal(Head(c2s[c]), ch[2])
    <3>1. CASE cseq[ch] = 0
      BY <1>0, <1>2, <2>3, <3>1, AgreeHead DEF EndsToServer
    <3>2. CASE Opening(c2s'[c], ch[2])
      <4>1. \A i, j \in 1 .. Len(c2s[c]) :
                First(c2s[c][i], ch[2]) /\ Terminal(c2s[c][j], ch[2]) => i < j
        BY <1>2 DEF FirstThenEnd, OpensThenEnds
      <4>. QED  BY <1>0, <1>2, <2>1, <3>2, <4>1, FirstAhead
    <3>3. CASE ch \in sgateways'
      BY <1>2, <3>3
    <3>. QED  BY <1>2, <3>1, <3>2, <3>3
  <2>. QED  BY <1>0, <1>2, <2>1, <2>3, <2>4, AgreeRead
<1>. QED  BY <1>1, <1>2

\* The steps that write nothing to the daemon and register no channel there.
LEMMA ToServerIdle ==
    ASSUME EndsToServer, UNCHANGED << c2s, cseq, cfinal >>, sgateways' \subseteq sgateways,
           \A c \in Clients : spipe'[c] # "down" => spipe[c] # "down"
    PROVE  EndsToServer'
BY ChanFields DEF EndsToServer

\* Steps of the client's side.
LEMMA ToServerEndsClient ==
    ASSUME IpcEndInv,
           ClientOwnerStep \/ ProcessStep
                \/ \E c \in Clients : ClientReceive(c) \/ ClientConnect(c) \/ ClientLosesPipe(c)
    PROVE  EndsToServer'
<1>0. TypeOK /\ EndsToServer /\ Handshake /\ SentAfterHandshake /\ c2s \in Queues
  BY EndTypes DEF IpcEndInv, IpcInv
<1>1. ASSUME UNCHANGED << c2s, cseq, cfinal, spipe, srouterVars >> PROVE EndsToServer'
  BY <1>0, <1>1, ToServerIdle DEF srouterVars
<1>2. CASE ClientOwnerStep
  <2>1. ASSUME NEW c \in Clients, MakeGateway(c) PROVE EndsToServer'
    BY <1>1, <1>2, <2>1 DEF ClientOwnerStep, MakeGateway, pipeVars
  <2>2. ASSUME NEW ch \in Chan, Subscribe(ch) PROVE EndsToServer'
    BY <1>1, <1>2, <2>2 DEF ClientOwnerStep, Subscribe, pipeVars
  <2>3. ASSUME NEW ch \in Chan, ClientSend(ch) PROVE EndsToServer'
    BY <1>0, <1>2, <2>3, ToServerSend DEF ClientOwnerStep
  <2>4. ASSUME NEW ch \in Chan, ClientDispose(ch) PROVE EndsToServer'
    <3>1. CASE ~DisposalPosts(ch)
      BY <1>1, <1>2, <2>4, <3>1 DEF ClientOwnerStep, ClientDispose
    <3>2. CASE DisposalPosts(ch)
      <4>1. PICK ok \in BOOLEAN :
                /\ ClientPost(ch, ChEnd(ch[2], FALSE, cerr[ch]), ok)
                /\ cfinal' = FirstFinal(cfinal, ch, FALSE, ok, cerr[ch])
        BY <2>4, <3>2 DEF ClientDispose
      <4>2. cseq[ch] # 0 /\ cerr[ch] \in OptErrors
        BY <1>0, <3>2, EndTypes DEF DisposalPosts
      <4>. QED
        BY <1>0, <1>2, <2>4, <4>1, <4>2, ToServerPost
           DEF ClientOwnerStep, ClientDispose, ClientPost, srouterVars
    <3>. QED  BY <3>1, <3>2
  <2>5. ASSUME NEW ch \in Chan, NEW e \in Errors, NEW k \in BOOLEAN, ClientComplete(ch, e, k)
        PROVE  EndsToServer'
    <3>1. CASE cseq[ch] = 0
      BY <1>1, <1>2, <2>5, <3>1 DEF ClientOwnerStep, ClientComplete
    <3>2. CASE cseq[ch] # 0
      <4>1. PICK ok \in BOOLEAN :
                /\ ClientPost(ch, ChEnd(ch[2], k, e), ok)
                /\ cfinal' = FirstFinal(cfinal, ch, k, ok, e)
        BY <2>5, <3>2 DEF ClientComplete
      <4>2. e \in OptErrors
        BY <1>0, EndTypes
      <4>. QED
        BY <1>0, <1>2, <2>5, <3>2, <4>1, <4>2, ToServerPost
           DEF ClientOwnerStep, ClientComplete, ClientPost, srouterVars
    <3>. QED  BY <3>1, <3>2
  <2>. QED  BY <1>2, <2>1, <2>2, <2>3, <2>4, <2>5 DEF ClientOwnerStep
<1>3. ASSUME NEW c \in Clients, NEW l \in BOOLEAN, ClientStart(c, l),
             UNCHANGED << crouterVars, srouterVars >>
      PROVE  EndsToServer'
  <2>1. \A d \in Clients : spipe'[d] # "down" => spipe[d] # "down"
    BY <1>0, <1>3 DEF ClientStart, Handshake, TypeOK, PipeTypeOK
  <2>. QED  BY <1>0, <1>3, <2>1, ToServerIdle DEF ClientStart, crouterVars, srouterVars
<1>4. ASSUME NEW c \in Clients,
             \/ ClientExit(c) \/ ClientHandleRouteConnect(c) \/ ClientHandleRouteChannelMsg(c)
             \/ ClientHandleRouteChannelEnd(c) \/ ClientConnectFailed(c)
             \/ ClientDisconnected(c),
             UNCHANGED srouterVars
      PROVE  EndsToServer'
  <2>1. UNCHANGED << c2s, cseq, cfinal, spipe >>
    BY <1>4 DEF ClientExit, ClientHandleRouteConnect, ClientHandleRouteChannelMsg,
       ClientHandleRouteChannelEnd, ClientConnectFailed, ClientDisconnected, ClientPipeClose
  <2>. QED  BY <1>1, <1>4, <2>1
<1>5. ASSUME NEW c \in Clients, ClientPipeConnected(c), UNCHANGED srouterVars
      PROVE  EndsToServer'
  <2>1. UNCHANGED << cseq, cfinal, spipe, sgateways >>
    BY <1>5 DEF ClientPipeConnected, crouterVars, srouterVars
  <2>2. /\ c2s' = c2s \/ c2s' = [ c2s EXCEPT ![c] = Append(@, RouteConnect) ]
        /\ RouteConnect \in Messages /\ RouteConnect.kind = "connect"
    BY <1>0, <1>5, ClientWrites, MessagesBuilt, KindsBuilt
       DEF ClientPipeConnected, NegotiateRoute, TypeOK
  <2>3. ASSUME NEW ch \in Chan, c2s' = [ c2s EXCEPT ![c] = Append(@, RouteConnect) ]
        PROVE  /\ Opening(c2s'[ch[1]], ch[2]) <=> Opening(c2s[ch[1]], ch[2])
               /\ EndsAgree(c2s[ch[1]], ch[2], cfinal[ch])
                    => EndsAgree(c2s'[ch[1]], ch[2], cfinal[ch])
    <3>1. ch[1] \in Clients /\ c2s[ch[1]] \in Seq(Messages) /\ ~First(RouteConnect, ch[2])
      BY <1>0, <2>2, ChanFields DEF Queues, First
    <3>2. Opening(c2s'[ch[1]], ch[2]) <=> Opening(c2s[ch[1]], ch[2])
      BY <1>0, <2>2, <2>3, <3>1, InAppend DEF Queues
    <3>. QED  BY <1>0, <2>2, <2>3, <3>2, PostOther
  <2>. QED  BY <1>0, <1>1, <1>5, <2>1, <2>2, <2>3 DEF EndsToServer
<1>6. CASE DaemonExit /\ UNCHANGED crouterVars
  <2> SUFFICES ASSUME NEW ch \in Chan, spipe'[ch[1]] # "down"
               PROVE  EndsAgree(c2s'[ch[1]], ch[2], cfinal[ch])
    BY <1>0, <1>6 DEF EndsToServer, crouterVars
  <2>1. c2s'[ch[1]] = << >> /\ spipe[ch[1]] = "none"
    BY <1>6, ChanFields DEF DaemonExit
  <2>2. cfinal[ch] = "no"
    BY <1>0, <2>1, UnsentBeforeAccept DEF EndsToServer
  <2>. QED  BY <2>1, <2>2, AgreeEmpty
<1>7. CASE ProcessStep
  BY <1>3, <1>4, <1>6, <1>7 DEF ProcessStep
<1>8. ASSUME NEW c \in Clients, ClientReceive(c) \/ ClientConnect(c) \/ ClientLosesPipe(c)
      PROVE  EndsToServer'
  BY <1>4, <1>5, <1>8 DEF ClientReceive, ClientConnect, ClientLosesPipe
<1>. QED  BY <1>2, <1>7, <1>8

\* Steps of the daemon's side.
LEMMA ToServerEndsDaemon ==
    ASSUME IpcEndInv,
           ServiceStep
                \/ \E c \in Clients : ServerReceive(c) \/ ServerAccepts(c) \/ ServerLosesPipe(c)
    PROVE  EndsToServer'
<1>0. /\ TypeOK /\ EndsToServer /\ FirstThenEnd /\ c2s \in Queues
      /\ sgateways \subseteq Chan /\ spipe \in [ Clients -> ServerPipeStates ]
      /\ \A ch \in sgateways : ch[1] \in sclients
  BY EndTypes DEF IpcEndInv, IpcInv, TypeOK, ServerTypeOK, PipeTypeOK, ServerMaps
<1>1. CASE ServiceStep
  <2>1. UNCHANGED << c2s, cseq, cfinal, spipe >> /\ sgateways' \subseteq sgateways
    BY <1>1 DEF ServiceStep, ServerSend, ServerDispose, ServerComplete, crouterVars
  <2>. QED  BY <1>0, <2>1, ToServerIdle
<1>2. ASSUME NEW c \in Clients, ServerReceive(c) PROVE EndsToServer'
  <2>1. /\ spipe[c] = "up" /\ c2s[c] # << >> /\ c2s' = [ c2s EXCEPT ![c] = Tail(@) ]
        /\ UNCHANGED << cseq, cfinal, spipe >>
    BY <1>2 DEF ServerReceive, ServerHandleRouteConnect, ServerDeliverMsg, ServerOpenChannel,
       ServerIgnoreMsg, ServerHandleRouteChannelEnd, ServerReads, crouterVars
  <2>2. ASSUME NEW ch \in Chan, ch \in sgateways'
        PROVE  /\ ch \in sgateways \/ (ch[1] = c /\ First(Head(c2s[c]), ch[2]))
               /\ ch[1] = c => ~Terminal(Head(c2s[c]), ch[2])
    <3>1. CASE ServerHandleRouteConnect(c) \/ ServerDeliverMsg(c) \/ ServerIgnoreMsg(c)
      BY <2>2, <3>1 DEF ServerHandleRouteConnect, ServerDeliverMsg, ServerIgnoreMsg,
         ServerReads, Terminal, srouterVars
    <3>2. CASE ServerOpenChannel(c)
      <4>1. /\ Head(c2s[c]).kind = "msg" /\ Head(c2s[c]).sequence = 0
            /\ ch \in sgateways \/ ch = << c, Head(c2s[c]).tag >>
        BY <2>2, <3>2 DEF ServerOpenChannel, ServerReads, OpensChannel
      <4>. QED  BY <4>1 DEF First, Terminal
    <3>3. CASE ServerHandleRouteChannelEnd(c)
      <4>1. /\ Head(c2s[c]).kind = "end"
            /\ sgateways' = IF c \in sclients /\ << c, Head(c2s[c]).tag >> \in sgateways
                            THEN AfterEnd(sgateways, << c, Head(c2s[c]).tag >>,
                                          Head(c2s[c]).keep_alive)
                            ELSE sgateways
        BY <3>3 DEF ServerHandleRouteChannelEnd, ServerReads
      <4>2. ch \in sgateways
        BY <2>2, <4>1 DEF AfterEnd
      <4>3. ASSUME ch[1] = c, Terminal(Head(c2s[c]), ch[2]) PROVE FALSE
        <5>1. ch = << c, Head(c2s[c]).tag >> /\ ~Head(c2s[c]).keep_alive /\ c \in sclients
          BY <1>0, <4>2, <4>3, ChanFields DEF Terminal
        <5>. QED  BY <2>2, <4>1, <4>2, <5>1 DEF AfterEnd
      <4>. QED  BY <4>2, <4>3
    <3>. QED  BY <1>2, <3>1, <3>2, <3>3 DEF ServerReceive
  <2>. QED  BY <1>0, <2>1, <2>2, ToServerRead
<1>3. ASSUME NEW c \in Clients, ServerAccepts(c) PROVE EndsToServer'
  BY <1>0, <1>3, ToServerIdle DEF ServerAccepts, ServerAccept, crouterVars, srouterVars
<1>4. ASSUME NEW c \in Clients, ServerLosesPipe(c) PROVE EndsToServer'
  <2>1. /\ spipe' = [ spipe EXCEPT ![c] = "down" ] /\ c2s' = [ c2s EXCEPT ![c] = << >> ]
        /\ UNCHANGED << cseq, cfinal >> /\ sgateways' \subseteq sgateways
    BY <1>4 DEF ServerLosesPipe, ServerDisconnected, ServerPipeClose, crouterVars
  <2>2. \A d \in Clients : spipe'[d] # "down" => d # c /\ spipe[d] # "down" /\ c2s'[d] = c2s[d]
    BY <1>0, <2>1 DEF Queues
  <2>. QED  BY <1>0, <2>1, <2>2, ChanFields DEF EndsToServer
<1>. QED  BY <1>1, <1>2, <1>3, <1>4

-----------------------------------------------------------------------------
(***************************************************************************)
(* Ends on their way to the client.                                        *)
(***************************************************************************)

\* A service was called with a message only if the client has made the channel.
LEMMA ServedIsMade ==
    ASSUME IpcInv, NEW ch \in Chan, slog[ch] # << >>
    PROVE  Made(ch) /\ cseq[ch] # 0
<1>1. slog[ch] \in Seq(0 .. MaxSeq) /\ cseq[ch] \in Nat
  BY EndTypes DEF IpcInv, TypeOK, ServerTypeOK
<1>2. 1 \in 1 .. Len(slog[ch]) /\ slog[ch][1] \in Nat
  <2>1. 1 \in 1 .. Len(slog[ch])
    BY <1>1
  <2>2. slog[ch][1] \in 0 .. MaxSeq
    BY <1>1, <2>1, LogElement
  <2>. QED  BY <2>1, <2>2
<1>3. slog[ch][1] < cseq[ch]
  BY <1>2 DEF IpcInv, InFlight, Flow, Sorted
<1>4. cseq[ch] # 0
  BY <1>1, <1>2, <1>3
<1>. QED  BY <1>4 DEF IpcInv, ClientMaps

\* The daemon writes an end: complete(), ~GatewayImpl, or a channel it declines.
LEMMA ToClientPost ==
    ASSUME TypeOK, EndsToClient, NEW co \in Chan, NEW k \in BOOLEAN, NEW e \in OptErrors,
           NEW ok \in BOOLEAN, ServerPipeSend(co[1], ChEnd(co[2], k, e), ok),
           sfinal' = FirstFinal(sfinal, co, k, ok, e), UNCHANGED << next_tag, cgateways, cpipe >>,
           slog'[co] # << >>, \A ch \in Chan : slog'[ch] = << >> => slog[ch] = << >>
    PROVE  EndsToClient'
<1> SUFFICES ASSUME NEW ch \in Chan
             PROVE  /\ (Made(ch) => ch \in cgateways) /\ cpipe[ch[1]] \notin {"down", "exited"}
                        => EndsAgree(s2c'[ch[1]], ch[2], sfinal'[ch])
                    /\ slog'[ch] = << >> => sfinal'[ch] = "no"
  BY DEF EndsToClient, Made
<1> DEFINE m == ChEnd(co[2], k, e)
<1>0. s2c \in Queues /\ sfinal \in Finals /\ ch[1] \in Clients /\ co[1] \in Clients
  BY EndTypes, ChanFields
<1>1. slog'[ch] = << >> => sfinal'[ch] = "no"
  BY <1>0 DEF FirstFinal, Finals, EndsToClient
<1>2. CASE ok /\ cpipe[co[1]] \notin {"down", "exited"}
  <2>1. s2c' = [ s2c EXCEPT ![co[1]] = Append(@, m) ]
    BY <1>2 DEF ServerPipeSend
  <2>2. EndsAgree(s2c[ch[1]], ch[2], sfinal[ch])
            => EndsAgree(s2c'[ch[1]], ch[2], sfinal'[ch])
    BY <1>0, <1>2, <2>1, PostEnd
  <2>. QED  BY <1>1, <2>2 DEF EndsToClient
<1>3. CASE ~(ok /\ cpipe[co[1]] \notin {"down", "exited"})
  <2>1. s2c' = s2c
    BY <1>0, <1>3 DEF ServerPipeSend, Queues
  <2>2. (ch = co /\ ok) \/ sfinal'[ch] = sfinal[ch]
    BY <1>0 DEF FirstFinal, Finals
  <2>. QED  BY <1>1, <1>3, <2>1, <2>2 DEF EndsToClient
<1>. QED  BY <1>2, <1>3

\* The daemon writes a message or the RouteConnect reply, or nothing at all.
LEMMA ToClientOther ==
    ASSUME TypeOK, EndsToClient, NEW c \in Clients, NEW m \in Messages, m.kind # "end",
           s2c' = s2c \/ s2c' = [ s2c EXCEPT ![c] = Append(@, m) ],
           UNCHANGED << next_tag, cgateways, cpipe, sfinal, slog >>
    PROVE  EndsToClient'
<1>1. ASSUME NEW ch \in Chan, EndsAgree(s2c[ch[1]], ch[2], sfinal[ch])
      PROVE  EndsAgree(s2c'[ch[1]], ch[2], sfinal[ch])
  <2>1. s2c \in Queues
    BY EndTypes
  <2>2. CASE s2c' = [ s2c EXCEPT ![c] = Append(@, m) ]
    BY <1>1, <2>1, <2>2, PostOther
  <2>. QED  BY <1>1, <2>2
<1>. QED  BY <1>1 DEF EndsToClient, Made

\* The client reads a message. A terminal end unregisters the gateway.
LEMMA ToClientRead ==
    ASSUME IpcInv, EndsToClient, NEW c \in Clients, cpipe[c] = "up", s2c[c] # << >>,
           s2c' = [ s2c EXCEPT ![c] = Tail(@) ], UNCHANGED << next_tag, cpipe, sfinal, slog >>,
           cgateways' \subseteq cgateways,
           \A ch \in Chan : ch[1] = c /\ Terminal(Head(s2c[c]), ch[2]) => ch \notin cgateways'
    PROVE  EndsToClient'
<1> SUFFICES ASSUME NEW ch \in Chan, Made(ch) => ch \in cgateways',
                    cpipe[ch[1]] \notin {"down", "exited"}
             PROVE  EndsAgree(s2c'[ch[1]], ch[2], sfinal[ch])
  BY DEF EndsToClient, Made
<1>1. s2c \in Queues /\ s2c[ch[1]] \in Seq(Messages)
  BY EndTypes, ChanFields DEF IpcInv, Queues
<1>2. EndsAgree(s2c[ch[1]], ch[2], sfinal[ch])
  BY DEF EndsToClient
<1>3. ASSUME ch[1] = c, Terminal(Head(s2c[c]), ch[2]) PROVE FALSE
  <2>1. sfinal[ch] # "no"
    BY <1>1, <1>2, <1>3, AgreeHead
  <2>2. Made(ch)
    BY <2>1, ServedIsMade DEF EndsToClient
  <2>. QED  BY <1>3, <2>2
<1>. QED  BY <1>1, <1>2, <1>3, ReadOther

\* The steps that write nothing to the client and unregister nothing but on its side.
LEMMA ToClientIdle ==
    ASSUME EndsToClient, UNCHANGED << s2c, sfinal >>,
           \A ch \in Chan :
                /\ (Made(ch)' => ch \in cgateways') => (Made(ch) => ch \in cgateways)
                /\ slog'[ch] = << >> => slog[ch] = << >>,
           \A c \in Clients : cpipe[c] \in {"down", "exited"} => cpipe'[c] \in {"down", "exited"}
    PROVE  EndsToClient'
BY ChanFields DEF EndsToClient

\* Steps of the client's side.
LEMMA ToClientEndsClient ==
    ASSUME IpcEndInv,
           ClientOwnerStep \/ ProcessStep
                \/ \E c \in Clients : ClientReceive(c) \/ ClientConnect(c) \/ ClientLosesPipe(c)
    PROVE  EndsToClient'
<1>0. /\ IpcInv /\ TypeOK /\ EndsToClient /\ Handshake /\ s2c \in Queues
      /\ cpipe \in [ Clients -> ClientPipeStates ]
  BY EndTypes DEF IpcEndInv, IpcInv, TypeOK, PipeTypeOK
<1>1. ASSUME UNCHANGED << s2c, next_tag, sfinal, slog >>, cgateways' \subseteq cgateways,
             \A c \in Clients : cpipe[c] \in {"down", "exited"} => cpipe'[c] \in {"down", "exited"}
      PROVE  EndsToClient'
  BY <1>0, <1>1, ToClientIdle DEF Made
<1>2. CASE ClientOwnerStep
  <2>1. ASSUME NEW c \in Clients, MakeGateway(c) PROVE EndsToClient'
    <3>1. /\ UNCHANGED << s2c, cpipe, sfinal, slog >> /\ next_tag' = [ next_tag EXCEPT ![c] = @ + 1 ]
          /\ cgateways' = cgateways \cup {<< c, next_tag[c] >>}
      BY <1>2, <2>1 DEF ClientOwnerStep, MakeGateway, pipeVars, srouterVars
    <3>2. next_tag \in [ Clients -> Nat ]
      BY <1>0, PipeAssumption DEF TypeOK, ClientTypeOK
    <3>3. ASSUME NEW ch \in Chan, Made(ch)' => ch \in cgateways', Made(ch)
          PROVE  ch \in cgateways
      <4>1. ch[1] \in Clients /\ ch[2] \in Nat
        BY ChanFields, PipeAssumption DEF Tags
      <4>2. Made(ch)' /\ ch # << c, next_tag[c] >>
        BY <3>1, <3>2, <3>3, <4>1 DEF Made
      <4>. QED  BY <3>1, <3>3, <4>2
    <3>. QED  BY <1>0, <3>1, <3>3, ToClientIdle
  <2>2. ASSUME NEW ch \in Chan, Subscribe(ch) \/ ClientSend(ch) \/ ClientDispose(ch)
        PROVE  EndsToClient'
    BY <1>1, <1>2, <2>2 DEF ClientOwnerStep, Subscribe, ClientSend, ClientDispose, pipeVars,
       srouterVars
  <2>3. ASSUME NEW ch \in Chan, NEW e \in Errors, NEW k \in BOOLEAN, ClientComplete(ch, e, k)
        PROVE  EndsToClient'
    BY <1>1, <1>2, <2>3 DEF ClientOwnerStep, ClientComplete, srouterVars
  <2>. QED  BY <1>2, <2>1, <2>2, <2>3 DEF ClientOwnerStep
<1>3. ASSUME NEW c \in Clients, NEW l \in BOOLEAN, ClientStart(c, l),
             UNCHANGED << crouterVars, srouterVars >>
      PROVE  EndsToClient'
  <2>1. \A d \in Clients : cpipe[d] \in {"down", "exited"} => cpipe'[d] \in {"down", "exited"}
    BY <1>0, <1>3 DEF ClientStart
  <2>. QED  BY <1>1, <1>3, <2>1 DEF ClientStart, crouterVars, srouterVars
<1>4. ASSUME NEW c \in Clients,
             ClientExit(c) \/ ClientConnectFailed(c) \/ ClientDisconnected(c),
             UNCHANGED srouterVars
      PROVE  EndsToClient'
  <2>1. /\ \E f \in {"down", "exited"} : cpipe' = [ cpipe EXCEPT ![c] = f ]
        /\ s2c' = [ s2c EXCEPT ![c] = << >> ]
        /\ UNCHANGED << next_tag, sfinal, slog >> /\ cgateways' \subseteq cgateways
    BY <1>4 DEF ClientExit, ClientConnectFailed, ClientDisconnected, ClientPipeClose,
       OnPipeDisconnected, srouterVars
  <2>2. \A d \in Clients : cpipe'[d] \notin {"down", "exited"} =>
            d # c /\ cpipe[d] \notin {"down", "exited"} /\ s2c'[d] = s2c[d]
    BY <1>0, <2>1 DEF Queues
  <2>. QED  BY <1>0, <2>1, <2>2, ChanFields DEF EndsToClient, Made
<1>5. ASSUME NEW c \in Clients, ClientPipeConnected(c), UNCHANGED srouterVars
      PROVE  EndsToClient'
  <2>1. \A d \in Clients : cpipe[d] \in {"down", "exited"} => cpipe'[d] \in {"down", "exited"}
    BY <1>0, <1>5 DEF ClientPipeConnected
  <2>. QED  BY <1>1, <1>5, <2>1 DEF ClientPipeConnected, crouterVars, srouterVars
<1>6. CASE DaemonExit /\ UNCHANGED crouterVars
  BY <1>1, <1>6 DEF DaemonExit, crouterVars
<1>7. CASE ProcessStep
  BY <1>3, <1>4, <1>6, <1>7 DEF ProcessStep
<1>8. ASSUME NEW c \in Clients, ClientReceive(c) PROVE EndsToClient'
  <2>1. /\ cpipe[c] = "up" /\ s2c[c] # << >> /\ s2c' = [ s2c EXCEPT ![c] = Tail(@) ]
        /\ UNCHANGED << next_tag, cpipe, sfinal, slog >>
    BY <1>8 DEF ClientReceive, ClientHandleRouteConnect, ClientHandleRouteChannelMsg,
       ClientHandleRouteChannelEnd, srouterVars
  <2>2. cgateways' \subseteq cgateways
    BY <1>8 DEF ClientReceive, ClientHandleRouteConnect, ClientHandleRouteChannelMsg,
       ClientHandleRouteChannelEnd, AfterEnd
  <2>3. ASSUME NEW ch \in Chan, ch[1] = c, Terminal(Head(s2c[c]), ch[2])
        PROVE  ch \notin cgateways'
    <3>1. ch = << c, Head(s2c[c]).tag >> /\ ~Head(s2c[c]).keep_alive
      BY <2>3, ChanFields DEF Terminal
    <3>2. ClientHandleRouteChannelEnd(c)
      BY <1>8, <2>3 DEF ClientReceive, ClientHandleRouteConnect, ClientHandleRouteChannelMsg,
         Terminal
    <3>. QED  BY <3>1, <3>2 DEF ClientHandleRouteChannelEnd, AfterEnd
  <2>. QED  BY <1>0, <2>1, <2>2, <2>3, ToClientRead
<1>9. ASSUME NEW c \in Clients, ClientConnect(c) \/ ClientLosesPipe(c) PROVE EndsToClient'
  BY <1>4, <1>5, <1>9 DEF ClientConnect, ClientLosesPipe
<1>. QED  BY <1>2, <1>7, <1>8, <1>9

\* Steps of the daemon's side.
LEMMA ToClientEndsDaemon ==
    ASSUME IpcEndInv,
           ServiceStep
                \/ \E c \in Clients : ServerReceive(c) \/ ServerAccepts(c) \/ ServerLosesPipe(c)
    PROVE  EndsToClient'
<1>0. /\ IpcInv /\ TypeOK /\ EndsToClient /\ PipeTypeOK /\ slog \in Logs
      /\ \A ch \in salive : slog[ch] # << >>
  BY FlowTypes DEF IpcEndInv, IpcInv, TypeOK, ServerMaps
<1>1. UNCHANGED << next_tag, cgateways >> /\ \A ch \in Chan : Made(ch)' <=> Made(ch)
  BY DEF ServiceStep, ServerReceive, ServerAccepts, ServerLosesPipe, crouterVars, Made
<1>2. CASE ServiceStep
  <2>1. UNCHANGED << cpipe, slog >>
    BY <1>2 DEF ServiceStep, ServerSend, ServerDispose, ServerComplete
  <2>2. ASSUME NEW ch \in Chan, ServerSend(ch) PROVE EndsToClient'
    <3>1. ch[1] \in Clients /\ sseq[ch] \in 0 .. MaxSeq
      BY <1>0, ChanFields DEF TypeOK, ServerTypeOK
    <3>2. /\ ChMsg(ch[2], sseq[ch], ServiceOf[ch[2]]) \in Messages
          /\ ChMsg(ch[2], sseq[ch], ServiceOf[ch[2]]).kind # "end"
      BY <3>1, MessagesBuilt, KindsBuilt
    <3>. QED
      BY <1>0, <1>1, <2>1, <2>2, <3>1, <3>2, ServerWrites, ToClientOther
         DEF ServerSend, ServerPost
  <2>3. ASSUME NEW ch \in Chan, NEW e \in OptErrors, ch \in salive, ServerPostFinal(ch, e)
        PROVE  EndsToClient'
    <3>1. PICK ok \in BOOLEAN :
              /\ ServerPost(ch, ChEnd(ch[2], FALSE, e), ok)
              /\ sfinal' = FirstFinal(sfinal, ch, FALSE, ok, e)
      BY <2>3 DEF ServerPostFinal, FirstFinal
    <3>. QED  BY <1>0, <1>1, <2>1, <2>3, <3>1, ToClientPost DEF ServerPost
  <2>4. ASSUME NEW ch \in Chan, ServerDispose(ch) PROVE EndsToClient'
    <3>1. CASE ServerDisposalPosts(ch)
      BY <1>0, <2>3, <2>4, <3>1, EndTypes DEF ServerDispose
    <3>2. CASE ~ServerDisposalPosts(ch)
      BY <1>0, <1>1, <2>1, <2>4, <3>2, ToClientIdle DEF ServerDispose
    <3>. QED  BY <3>1, <3>2
  <2>5. ASSUME NEW ch \in Chan, NEW e \in Errors, NEW k \in BOOLEAN, ServerComplete(ch, e, k)
        PROVE  EndsToClient'
    <3>1. e \in OptErrors /\ ch \in salive
      BY <1>0, <2>5, EndTypes DEF ServerComplete
    <3>2. CASE k
      <4>1. PICK ok \in BOOLEAN : ServerPost(ch, ChEnd(ch[2], TRUE, e), ok)
        BY <2>5, <3>2 DEF ServerComplete
      <4>2. sfinal' = FirstFinal(sfinal, ch, TRUE, ok, e)
        BY <2>5, <3>2 DEF ServerComplete, FirstFinal
      <4>. QED  BY <1>0, <1>1, <2>1, <3>1, <4>1, <4>2, ToClientPost DEF ServerPost
    <3>3. CASE ~k
      BY <2>3, <2>5, <3>1, <3>3 DEF ServerComplete
    <3>. QED  BY <3>2, <3>3
  <2>. QED  BY <1>2, <2>2, <2>4, <2>5 DEF ServiceStep
<1>3. ASSUME NEW c \in Clients,
             \/ ServerAccepts(c) \/ ServerLosesPipe(c) \/ ServerIgnoreMsg(c)
             \/ ServerHandleRouteChannelEnd(c)
      PROVE  EndsToClient'
  <2>1. UNCHANGED << s2c, cpipe, sfinal, slog >>
    BY <1>3 DEF ServerAccepts, ServerAccept, ServerLosesPipe, ServerDisconnected,
       ServerPipeClose, ServerIgnoreMsg, ServerHandleRouteChannelEnd, srouterVars
  <2>. QED  BY <1>0, <1>1, <2>1, ToClientIdle
<1>4. ASSUME NEW c \in Clients, ServerHandleRouteConnect(c) PROVE EndsToClient'
  <2>1. UNCHANGED << cpipe, sfinal, slog >>
    BY <1>4 DEF ServerHandleRouteConnect
  <2>. QED
    BY <1>0, <1>1, <1>4, <2>1, ServerWrites, MessagesBuilt, KindsBuilt, ToClientOther
       DEF ServerHandleRouteConnect
<1>5. ASSUME NEW c \in Clients, NEW m, c2s[c] # << >>, m = Head(c2s[c]), m.kind = "msg"
      PROVE  /\ << c, m.tag >> \in Chan /\ m.sequence \in 0 .. MaxSeq
             /\ slog' = [ slog EXCEPT ![<< c, m.tag >>] = Append(@, m.sequence) ] =>
                    /\ slog'[<< c, m.tag >>] # << >>
                    /\ \A ch \in Chan : slog'[ch] = << >> => slog[ch] = << >>
  <2>1. m \in Messages
    BY <1>0, <1>5, ReadType DEF PipeTypeOK
  <2>2. << c, m.tag >> \in Chan /\ m.sequence \in 0 .. MaxSeq
    BY <1>5, <2>1, MessageFields, ChanFields
  <2>3. slog[<< c, m.tag >>] \in Seq(0 .. MaxSeq)
    BY <1>0, <2>2 DEF Logs
  <2>4. Append(slog[<< c, m.tag >>], m.sequence) # << >>
    BY <2>2, <2>3
  <2>. QED  BY <1>0, <2>2, <2>4 DEF Logs
<1>6. ASSUME NEW c \in Clients, ServerDeliverMsg(c) PROVE EndsToClient'
  BY <1>0, <1>1, <1>5, <1>6, ToClientIdle DEF ServerDeliverMsg, ServerReads
<1>7. ASSUME NEW c \in Clients, ServerOpenChannel(c) PROVE EndsToClient'
  <2> DEFINE m  == Head(c2s[c])
             co == << c, m.tag >>
  <2>1. /\ c2s[c] # << >> /\ m.kind = "msg" /\ UNCHANGED cpipe
        /\ slog' = [ slog EXCEPT ![co] = Append(@, m.sequence) ]
        /\ UNCHANGED << s2c, sfinal >> \/ ServerPostFinal(co, NoError)
    BY <1>7 DEF ServerOpenChannel, ServerReads
  <2>2. /\ co \in Chan /\ slog'[co] # << >>
        /\ \A ch \in Chan : slog'[ch] = << >> => slog[ch] = << >>
    BY <1>5, <2>1
  <2>3. CASE UNCHANGED << s2c, sfinal >>
    BY <1>0, <1>1, <2>1, <2>2, <2>3, ToClientIdle
  <2>4. CASE ServerPostFinal(co, NoError)
    <3>1. PICK ok \in BOOLEAN :
              /\ ServerPost(co, ChEnd(co[2], FALSE, NoError), ok)
              /\ sfinal' = FirstFinal(sfinal, co, FALSE, ok, NoError)
      BY <2>4 DEF ServerPostFinal, FirstFinal
    <3>2. NoError \in OptErrors
      BY DEF OptErrors
    <3>. QED  BY <1>0, <1>1, <2>1, <2>2, <3>1, <3>2, ToClientPost DEF ServerPost
  <2>. QED  BY <2>1, <2>3, <2>4
<1>8. ASSUME NEW c \in Clients, ServerReceive(c) PROVE EndsToClient'
  BY <1>3, <1>4, <1>6, <1>7, <1>8 DEF ServerReceive
<1>. QED  BY <1>2, <1>3, <1>8

-----------------------------------------------------------------------------
(***************************************************************************)
(* The handshake.                                                          *)
(***************************************************************************)

\* Whether the reply is in a queue after a message was written, or read.
LEMMA RepliedQueue ==
    ASSUME NEW S, NEW q \in Seq(S)
    PROVE  /\ \A m \in S : Replied(Append(q, m)) <=> Replied(q) \/ m.kind = "connect"
           /\ q # << >> => (Replied(q) <=> Replied(Tail(q)) \/ Head(q).kind = "connect")
           /\ ~Replied(<< >>)
<1>1. ASSUME NEW m \in S PROVE Replied(Append(q, m)) <=> Replied(q) \/ m.kind = "connect"
  <2> DEFINE r == Append(q, m)
  <2>1. /\ Len(r) = Len(q) + 1 /\ r[Len(q) + 1] = m /\ Len(q) \in Nat
        /\ \A i \in 1 .. Len(q) : r[i] = q[i]
        /\ \A i \in 1 .. Len(r) : i = Len(q) + 1 \/ i \in 1 .. Len(q)
    BY AppendAt
  <2>2. Len(q) + 1 \in 1 .. Len(r) /\ \A i \in 1 .. Len(q) : i \in 1 .. Len(r)
    BY <2>1
  <2> HIDE DEF r
  <2>3. Replied(r) <=> Replied(q) \/ m.kind = "connect"
    BY <2>1, <2>2 DEF Replied
  <2>. QED  BY <2>3 DEF r
<1>2. ASSUME q # << >> PROVE Replied(q) <=> Replied(Tail(q)) \/ Head(q).kind = "connect"
  <2> DEFINE r == Tail(q)
  <2>1. /\ Len(q) \in Nat \ {0} /\ Len(r) = Len(q) - 1 /\ Head(q) = q[1]
        /\ \A i \in 1 .. Len(q) - 1 : r[i] = q[i + 1] /\ i + 1 \in 1 .. Len(q)
        /\ \A i \in 1 .. Len(q) : i = 1 \/ (i - 1 \in 1 .. Len(q) - 1 /\ r[i - 1] = q[i])
    BY <1>2, TailAt
  <2>2. 1 \in 1 .. Len(q)
    BY <2>1
  <2> HIDE DEF r
  <2>3. Replied(q) <=> Replied(r) \/ Head(q).kind = "connect"
    BY <2>1, <2>2 DEF Replied
  <2>. QED  BY <2>3 DEF r
<1>3. ~Replied(<< >>)
  BY DEF Replied
<1>. QED  BY <1>1, <1>2, <1>3

\* A write of the daemon brings no reply unless it is one.
LEMMA NoReplyWritten ==
    ASSUME TypeOK, NEW c \in Clients, NEW m \in Messages, m.kind # "connect",
           s2c' = s2c \/ s2c' = [ s2c EXCEPT ![c] = Append(@, m) ]
    PROVE  \A d \in Clients : Replied(s2c'[d]) => Replied(s2c[d])
<1>1. s2c \in Queues /\ \A d \in Clients : s2c[d] \in Seq(Messages)
  BY EndTypes DEF Queues
<1>2. Replied(Append(s2c[c], m)) => Replied(s2c[c])
  BY <1>1, RepliedQueue
<1>. QED  BY <1>1, <1>2 DEF Queues

Shaken == Handshake /\ SentAfterHandshake

\* A step that leaves the states of the connections alone.
LEMMA ShakenIdle ==
    ASSUME Shaken, UNCHANGED << cpipe, spipe, sclients, is_connected, cseq >>,
           \A d \in Clients : Replied(s2c'[d]) => Replied(s2c[d])
    PROVE  Shaken'
BY ChanFields DEF Shaken, Handshake, SentAfterHandshake

\* Steps of the client's side.
LEMMA ShakenClient ==
    ASSUME TypeOK, Shaken,
           ClientOwnerStep \/ ProcessStep
                \/ \E c \in Clients : ClientReceive(c) \/ ClientConnect(c) \/ ClientLosesPipe(c)
    PROVE  Shaken'
<1>0. /\ s2c \in Queues /\ cpipe \in [ Clients -> ClientPipeStates ]
      /\ spipe \in [ Clients -> ServerPipeStates ] /\ is_connected \in [ Clients -> BOOLEAN ]
      /\ \A d \in Clients : s2c[d] \in Seq(Messages)
  BY EndTypes DEF TypeOK, PipeTypeOK, ClientTypeOK, Queues
<1>1. ASSUME NEW ch \in Chan, ClientSend(ch), UNCHANGED srouterVars PROVE Shaken'
  <2>1. /\ is_connected[ch[1]] /\ UNCHANGED << cpipe, spipe, s2c, sclients, is_connected >>
        /\ cseq' = [ cseq EXCEPT ![ch] = @ + 1 ] /\ cseq \in Counters
    BY <1>1, FlowTypes DEF ClientSend, srouterVars
  <2>2. \A h \in Chan : h = ch \/ cseq'[h] = cseq[h]
    BY <2>1 DEF Counters
  <2>. QED  BY <2>1, <2>2, ChanFields DEF Shaken, Handshake, SentAfterHandshake
<1>2. CASE ClientOwnerStep
  <2>1. ASSUME UNCHANGED << cpipe, spipe, s2c, sclients, is_connected, cseq >> PROVE Shaken'
    BY <2>1, ShakenIdle
  <2>2. ASSUME NEW c \in Clients, MakeGateway(c) PROVE Shaken'
    BY <1>2, <2>1, <2>2 DEF ClientOwnerStep, MakeGateway, pipeVars, srouterVars
  <2>3. ASSUME NEW ch \in Chan, Subscribe(ch) \/ ClientDispose(ch) PROVE Shaken'
    BY <1>2, <2>1, <2>3 DEF ClientOwnerStep, Subscribe, ClientDispose, pipeVars, srouterVars
  <2>4. ASSUME NEW ch \in Chan, NEW e \in Errors, NEW k \in BOOLEAN, ClientComplete(ch, e, k)
        PROVE  Shaken'
    BY <1>2, <2>1, <2>4 DEF ClientOwnerStep, ClientComplete, srouterVars
  <2>. QED  BY <1>1, <1>2, <2>2, <2>3, <2>4 DEF ClientOwnerStep
<1>3. ASSUME NEW c \in Clients, NEW l \in BOOLEAN, ClientStart(c, l),
             UNCHANGED << crouterVars, srouterVars >>
      PROVE  Shaken'
  <2>1. /\ cpipe[c] = "off" /\ spipe[c] = "none"
        /\ UNCHANGED << s2c, sclients, is_connected, cseq >>
        /\ cpipe' = [ cpipe EXCEPT ![c] = "connecting" ]
        /\ \A d \in Clients : d # c => spipe'[d] = spipe[d]
    BY <1>0, <1>3 DEF ClientStart, crouterVars, srouterVars, Shaken, Handshake
  <2>2. \A d \in Clients : d # c => cpipe'[d] = cpipe[d]
    BY <1>0, <2>1
  <2>3. cpipe'[c] = "connecting" /\ c \notin sclients /\ ~is_connected[c] /\ ~Replied(s2c[c])
    BY <1>0, <2>1 DEF Shaken, Handshake
  <2>. QED  BY <2>1, <2>2, <2>3, ChanFields DEF Shaken, Handshake, SentAfterHandshake
<1>4. ASSUME NEW c \in Clients,
             ClientExit(c) \/ ClientConnectFailed(c) \/ ClientDisconnected(c),
             UNCHANGED srouterVars
      PROVE  Shaken'
  <2>1. /\ \E f \in {"down", "exited"} : cpipe' = [ cpipe EXCEPT ![c] = f ]
        /\ s2c' = [ s2c EXCEPT ![c] = << >> ] /\ UNCHANGED << spipe, sclients, cseq >>
        /\ is_connected' = [ is_connected EXCEPT ![c] = FALSE ]
            \/ (~is_connected[c] /\ UNCHANGED is_connected)
    BY <1>4 DEF ClientExit, ClientConnectFailed, ClientDisconnected, ClientPipeClose,
       OnPipeDisconnected, srouterVars
  <2>2. \A d \in Clients : d # c => /\ cpipe'[d] = cpipe[d] /\ s2c'[d] = s2c[d]
                                   /\ is_connected'[d] = is_connected[d]
    BY <1>0, <2>1 DEF Queues
  <2>3. cpipe'[c] \in {"down", "exited"} /\ s2c'[c] = << >> /\ ~is_connected'[c]
    BY <1>0, <2>1 DEF Queues
  <2>4. ~Replied(s2c'[c])
    BY <2>3 DEF Replied
  <2>. QED  BY <2>1, <2>2, <2>3, <2>4, ChanFields DEF Shaken, Handshake, SentAfterHandshake
<1>5. ASSUME NEW c \in Clients, ClientPipeConnected(c), UNCHANGED srouterVars
      PROVE  Shaken'
  <2>1. /\ cpipe[c] = "connecting" /\ cpipe' = [ cpipe EXCEPT ![c] = "up" ]
        /\ UNCHANGED << spipe, s2c, sclients, is_connected, cseq >>
    BY <1>5 DEF ClientPipeConnected, crouterVars, srouterVars
  <2>2. cpipe'[c] = "up" /\ \A d \in Clients : d # c => cpipe'[d] = cpipe[d]
    BY <1>0, <2>1
  <2>. QED  BY <2>1, <2>2, ChanFields DEF Shaken, Handshake, SentAfterHandshake
<1>6. CASE DaemonExit /\ UNCHANGED crouterVars
  <2>1. /\ UNCHANGED << cpipe, s2c, is_connected, cseq >> /\ sclients' = {}
        /\ \A d \in Clients : spipe'[d] = IF spipe[d] = "none" THEN "none" ELSE "down"
    BY <1>6 DEF DaemonExit, crouterVars
  <2>. QED  BY <2>1, ChanFields DEF Shaken, Handshake, SentAfterHandshake
<1>7. CASE ProcessStep
  BY <1>3, <1>4, <1>6, <1>7 DEF ProcessStep
<1>8. ASSUME NEW c \in Clients, ClientReceive(c) PROVE Shaken'
  <2>1. /\ cpipe[c] = "up" /\ s2c[c] # << >> /\ s2c' = [ s2c EXCEPT ![c] = Tail(@) ]
        /\ UNCHANGED << cpipe, spipe, sclients, cseq >>
    BY <1>8 DEF ClientReceive, ClientHandleRouteConnect, ClientHandleRouteChannelMsg,
       ClientHandleRouteChannelEnd, srouterVars
  <2>2. /\ \A d \in Clients : Replied(s2c'[d]) => Replied(s2c[d])
        /\ Head(s2c[c]).kind = "connect" => Replied(s2c[c])
    BY <1>0, <2>1, RepliedQueue DEF Queues
  <2>3. CASE ClientHandleRouteConnect(c)
    <3>1. /\ Replied(s2c[c])
          /\ \A d \in Clients : is_connected'[d] = IF d = c THEN TRUE ELSE is_connected[d]
      BY <1>0, <2>2, <2>3 DEF ClientHandleRouteConnect
    <3>. QED  BY <2>1, <2>2, <3>1, ChanFields DEF Shaken, Handshake, SentAfterHandshake
  <2>4. CASE ClientHandleRouteChannelMsg(c) \/ ClientHandleRouteChannelEnd(c)
    BY <2>1, <2>2, <2>4, ShakenIdle
       DEF ClientHandleRouteChannelMsg, ClientHandleRouteChannelEnd
  <2>. QED  BY <1>8, <2>3, <2>4 DEF ClientReceive
<1>9. ASSUME NEW c \in Clients, ClientConnect(c) \/ ClientLosesPipe(c) PROVE Shaken'
  BY <1>4, <1>5, <1>9 DEF ClientConnect, ClientLosesPipe
<1>. QED  BY <1>2, <1>7, <1>8, <1>9

\* Steps of the daemon's side.
LEMMA ShakenDaemon ==
    ASSUME TypeOK, Shaken,
           ServiceStep
                \/ \E c \in Clients : ServerReceive(c) \/ ServerAccepts(c) \/ ServerLosesPipe(c)
    PROVE  Shaken'
<1>0. /\ s2c \in Queues /\ PipeTypeOK /\ spipe \in [ Clients -> ServerPipeStates ]
      /\ \A d \in Clients : s2c[d] \in Seq(Messages)
  BY EndTypes DEF TypeOK, PipeTypeOK, Queues
<1>1. UNCHANGED << is_connected, cseq >>
  BY DEF ServiceStep, ServerReceive, ServerAccepts, ServerLosesPipe, crouterVars
<1>2. ASSUME NEW ch \in Chan, NEW e \in OptErrors, ServerPostFinal(ch, e)
      PROVE  \A d \in Clients : Replied(s2c'[d]) => Replied(s2c[d])
  <2>1. ch[1] \in Clients /\ ChEnd(ch[2], FALSE, e) \in Messages
        /\ ChEnd(ch[2], FALSE, e).kind # "connect"
    BY ChanFields, MessagesBuilt, KindsBuilt
  <2>2. PICK ok \in BOOLEAN : ServerPipeSend(ch[1], ChEnd(ch[2], FALSE, e), ok)
    BY <1>2 DEF ServerPostFinal, ServerPost
  <2>3. \/ s2c' = s2c
        \/ s2c' = [ s2c EXCEPT ![ch[1]] = Append(@, ChEnd(ch[2], FALSE, e)) ]
    BY <1>0, <2>1, <2>2, ServerWrites
  <2>. QED  BY <2>1, <2>3, NoReplyWritten
<1>3. CASE ServiceStep
  <2>1. UNCHANGED << cpipe, spipe, sclients >>
    BY <1>3 DEF ServiceStep, ServerSend, ServerDispose, ServerComplete
  <2>2. \A d \in Clients : Replied(s2c'[d]) => Replied(s2c[d])
    <3>1. ASSUME NEW ch \in Chan, NEW m, m.kind # "connect", m \in Messages, NEW ok \in BOOLEAN,
                 ServerPost(ch, m, ok)
          PROVE  \A d \in Clients : Replied(s2c'[d]) => Replied(s2c[d])
      BY <1>0, <3>1, ServerWrites, NoReplyWritten, ChanFields DEF ServerPost
    <3>2. ASSUME NEW ch \in Chan, ServerSend(ch)
          PROVE  \A d \in Clients : Replied(s2c'[d]) => Replied(s2c[d])
      <4>1. sseq[ch] \in 0 .. MaxSeq
        BY DEF TypeOK, ServerTypeOK
      <4>. QED  BY <3>1, <3>2, <4>1, MessagesBuilt, KindsBuilt DEF ServerSend
    <3>3. ASSUME NEW ch \in Chan, ServerDispose(ch)
          PROVE  \A d \in Clients : Replied(s2c'[d]) => Replied(s2c[d])
      BY <1>2, <3>3, EndTypes DEF ServerDispose
    <3>4. ASSUME NEW ch \in Chan, NEW e \in Errors, NEW k \in BOOLEAN, ServerComplete(ch, e, k)
          PROVE  \A d \in Clients : Replied(s2c'[d]) => Replied(s2c[d])
      <4>1. e \in OptErrors
        BY EndTypes
      <4>. QED  BY <1>2, <3>1, <3>4, <4>1, MessagesBuilt, KindsBuilt DEF ServerComplete
    <3>. QED  BY <1>3, <3>2, <3>3, <3>4 DEF ServiceStep
  <2>. QED  BY <1>1, <2>1, <2>2, ShakenIdle
<1>4. ASSUME NEW c \in Clients, ServerHandleRouteConnect(c) PROVE Shaken'
  <2>1. /\ spipe[c] = "up" /\ UNCHANGED << cpipe, spipe >>
        /\ \/ UNCHANGED << s2c, sclients >>
           \/ /\ \A d \in Clients : d # c => s2c'[d] = s2c[d]
              /\ sclients' = sclients \cup {c}
    <3>1. PICK ok \in BOOLEAN : /\ ServerPipeSend(c, RouteConnect, ok)
                               /\ sclients' = KnownAfterReply(c, ok)
      BY <1>4 DEF ServerHandleRouteConnect
    <3>2. CASE ok
      BY <1>0, <1>4, <3>1, <3>2
         DEF ServerHandleRouteConnect, ServerReads, ServerPipeSend, KnownAfterReply, Queues
    <3>3. CASE ~ok
      BY <1>0, <1>4, <3>1, <3>3
         DEF ServerHandleRouteConnect, ServerReads, ServerPipeSend, KnownAfterReply
    <3>. QED  BY <3>2, <3>3
  <2>. QED  BY <1>1, <2>1, ChanFields DEF Shaken, Handshake, SentAfterHandshake
<1>5. ASSUME NEW c \in Clients,
             ServerDeliverMsg(c) \/ ServerIgnoreMsg(c) \/ ServerHandleRouteChannelEnd(c)
      PROVE  Shaken'
  BY <1>1, <1>5, ShakenIdle
     DEF ServerDeliverMsg, ServerIgnoreMsg, ServerHandleRouteChannelEnd, srouterVars
<1>6. ASSUME NEW c \in Clients, ServerOpenChannel(c) PROVE Shaken'
  <2>1. /\ UNCHANGED << cpipe, spipe, sclients >> /\ c2s[c] # << >> /\ Head(c2s[c]).kind = "msg"
        /\ UNCHANGED s2c \/ ServerPostFinal(<< c, Head(c2s[c]).tag >>, NoError)
    BY <1>6 DEF ServerOpenChannel, ServerReads
  <2>2. << c, Head(c2s[c]).tag >> \in Chan /\ NoError \in OptErrors
    <3>1. Head(c2s[c]) \in Messages
      BY <1>0, <2>1, ReadType DEF PipeTypeOK
    <3>. QED  BY <2>1, <3>1, MessageFields, ChanFields DEF OptErrors
  <2>. QED  BY <1>1, <1>2, <2>1, <2>2, ShakenIdle
<1>7. ASSUME NEW c \in Clients, ServerAccepts(c) PROVE Shaken'
  <2>1. /\ spipe[c] = "backlog" /\ UNCHANGED << cpipe, s2c, sclients >>
        /\ spipe' = [ spipe EXCEPT ![c] = "up" ]
    BY <1>7 DEF ServerAccepts, ServerAccept, srouterVars
  <2>2. spipe'[c] = "up" /\ \A d \in Clients : d # c => spipe'[d] = spipe[d]
    BY <1>0, <2>1
  <2>. QED  BY <1>1, <2>1, <2>2, ChanFields DEF Shaken, Handshake, SentAfterHandshake
<1>8. ASSUME NEW c \in Clients, ServerLosesPipe(c) PROVE Shaken'
  <2>1. /\ spipe[c] = "up" /\ UNCHANGED << cpipe, s2c >> /\ sclients' = sclients \ {c}
        /\ spipe' = [ spipe EXCEPT ![c] = "down" ]
    BY <1>8 DEF ServerLosesPipe, ServerDisconnected, ServerPipeClose
  <2>2. spipe'[c] = "down" /\ \A d \in Clients : d # c => spipe'[d] = spipe[d]
    BY <1>0, <2>1
  <2>. QED  BY <1>1, <2>1, <2>2, ChanFields DEF Shaken, Handshake, SentAfterHandshake
<1>. QED  BY <1>3, <1>4, <1>5, <1>6, <1>7, <1>8 DEF ServerReceive

-----------------------------------------------------------------------------
(***************************************************************************)
(* What the daemon will read.                                              *)
(***************************************************************************)

\* What the steps of the client's side do to the queues towards the daemon: they
\* write at most one message to one of them.
LEMMA ClientQueues ==
    ASSUME TypeOK,
           ClientOwnerStep
                \/ \E c \in Clients : ClientReceive(c) \/ ClientConnect(c) \/ ClientLosesPipe(c)
    PROVE  \/ UNCHANGED c2s
           \/ \E c \in Clients, m \in Messages :
                    m.kind # "msg" /\ c2s' = [ c2s EXCEPT ![c] = Append(@, m) ]
           \/ \E ch \in Chan :
                    /\ ClientSend(ch) /\ spipe[ch[1]] # "down"
                    /\ c2s' = [ c2s EXCEPT ![ch[1]] =
                                    Append(@, ChMsg(ch[2], cseq[ch], ServiceOf[ch[2]])) ]
<1> DEFINE Wrote ==
               \E c \in Clients, m \in Messages :
                    m.kind # "msg" /\ c2s' = [ c2s EXCEPT ![c] = Append(@, m) ]
<1>0. c2s \in Queues /\ PipeTypeOK
  BY EndTypes DEF TypeOK
<1>1. ASSUME NEW ch \in Chan, NEW k \in BOOLEAN, NEW e \in OptErrors, NEW ok \in BOOLEAN,
             ClientPost(ch, ChEnd(ch[2], k, e), ok)
      PROVE  UNCHANGED c2s \/ Wrote
  <2>1. /\ ch[1] \in Clients /\ ChEnd(ch[2], k, e) \in Messages
        /\ ChEnd(ch[2], k, e).kind # "msg"
    BY ChanFields, MessagesBuilt, KindsBuilt
  <2>2. c2s' = c2s \/ c2s' = [ c2s EXCEPT ![ch[1]] = Append(@, ChEnd(ch[2], k, e)) ]
    BY <1>0, <1>1, <2>1, ClientWrites DEF ClientPost
  <2>. QED  BY <2>1, <2>2
<1>2. ASSUME NEW c \in Clients, MakeGateway(c) PROVE UNCHANGED c2s
  BY <1>2 DEF MakeGateway, pipeVars
<1>3. ASSUME NEW ch \in Chan, Subscribe(ch) PROVE UNCHANGED c2s
  BY <1>3 DEF Subscribe, pipeVars
<1>4. ASSUME NEW ch \in Chan, ClientSend(ch)
      PROVE  \/ UNCHANGED c2s
             \/ /\ spipe[ch[1]] # "down"
                /\ c2s' = [ c2s EXCEPT ![ch[1]] =
                                Append(@, ChMsg(ch[2], cseq[ch], ServiceOf[ch[2]])) ]
  BY <1>0, <1>4 DEF ClientSend, ClientPost, ClientPipeSend, Queues
<1>5. ASSUME NEW ch \in Chan, ClientDispose(ch) PROVE UNCHANGED c2s \/ Wrote
  BY <1>1, <1>5, EndTypes DEF ClientDispose
<1>6. ASSUME NEW ch \in Chan, NEW e \in Errors, NEW k \in BOOLEAN, ClientComplete(ch, e, k)
      PROVE  UNCHANGED c2s \/ Wrote
  <2>1. e \in OptErrors
    BY EndTypes
  <2>. QED  BY <1>1, <1>6, <2>1 DEF ClientComplete
<1>7. ASSUME NEW c \in Clients, ClientPipeConnected(c) PROVE UNCHANGED c2s \/ Wrote
  <2>1. RouteConnect \in Messages /\ RouteConnect.kind # "msg"
    BY MessagesBuilt, KindsBuilt
  <2>2. c2s' = c2s \/ c2s' = [ c2s EXCEPT ![c] = Append(@, RouteConnect) ]
    BY <1>0, <1>7, ClientWrites DEF ClientPipeConnected, NegotiateRoute
  <2>. QED  BY <2>1, <2>2
<1>8. ASSUME NEW c \in Clients, ClientReceive(c) \/ ClientConnectFailed(c) \/ ClientLosesPipe(c)
      PROVE  UNCHANGED c2s
  BY <1>8 DEF ClientReceive, ClientHandleRouteConnect, ClientHandleRouteChannelMsg,
     ClientHandleRouteChannelEnd, ClientConnectFailed, ClientLosesPipe, ClientDisconnected,
     ClientPipeClose
<1>. QED
  BY <1>2, <1>3, <1>4, <1>5, <1>6, <1>7, <1>8 DEF ClientOwnerStep, ClientConnect

\* What any step does to them: it clears some, or writes one message to one of
\* them, or reads one from it.
LEMMA ToServerQueue ==
    ASSUME TypeOK, Next
    PROVE  \/ \A c \in Clients : c2s'[c] = c2s[c] \/ c2s'[c] = << >>
           \/ \E c \in Clients, m \in Messages :
                    m.kind # "msg" /\ c2s' = [ c2s EXCEPT ![c] = Append(@, m) ]
           \/ \E ch \in Chan :
                    /\ ClientSend(ch) /\ spipe[ch[1]] # "down"
                    /\ c2s' = [ c2s EXCEPT ![ch[1]] =
                                    Append(@, ChMsg(ch[2], cseq[ch], ServiceOf[ch[2]])) ]
           \/ \E c \in Clients : c2s[c] # << >> /\ c2s' = [ c2s EXCEPT ![c] = Tail(@) ]
<1> DEFINE Kept == \A c \in Clients : c2s'[c] = c2s[c] \/ c2s'[c] = << >>
           Read == \E c \in Clients : c2s[c] # << >> /\ c2s' = [ c2s EXCEPT ![c] = Tail(@) ]
<1>1. CASE ServiceStep
  <2>1. UNCHANGED c2s
    BY <1>1 DEF ServiceStep, ServerSend, ServerDispose, ServerComplete
  <2>. QED  BY <2>1
<1>2. CASE ProcessStep
  <2>1. Kept
    BY <1>2 DEF ProcessStep, ClientStart, ClientExit, DaemonExit, ClientPipeClose
  <2>. QED  BY <2>1
<1>3. ASSUME NEW c \in Clients, ServerReceive(c) \/ ServerAccepts(c) \/ ServerLosesPipe(c)
      PROVE  Kept \/ Read
  <2>1. CASE ServerReceive(c)
    BY <2>1 DEF ServerReceive, ServerHandleRouteConnect, ServerDeliverMsg, ServerOpenChannel,
       ServerIgnoreMsg, ServerHandleRouteChannelEnd, ServerReads
  <2>2. CASE ServerAccepts(c)
    BY <2>2 DEF ServerAccepts, ServerAccept
  <2>3. CASE ServerLosesPipe(c)
    BY <2>3, EndTypes DEF ServerLosesPipe, ServerDisconnected, ServerPipeClose, Queues
  <2>. QED  BY <1>3, <2>1, <2>2, <2>3
<1>. QED  BY <1>1, <1>2, <1>3, ClientQueues DEF Next, ExecutorStep

\* A message that opens nothing is written, or the one that opens the channel
\* while no end is in the queue.
LEMMA OpensAppend ==
    ASSUME NEW S, NEW q \in Seq(S), NEW m \in S, NEW t, NEW s, OpensThenEnds(q, t, s),
           First(m, t) => m.service = s /\ ~Ended(q, t)
    PROVE  OpensThenEnds(Append(q, m), t, s)
<1> DEFINE r == Append(q, m)
<1>1. /\ Len(r) = Len(q) + 1 /\ r[Len(q) + 1] = m /\ Len(q) \in Nat
      /\ \A i \in 1 .. Len(q) : r[i] = q[i]
      /\ \A i \in 1 .. Len(r) : i = Len(q) + 1 \/ i \in 1 .. Len(q)
  BY AppendAt
<1> HIDE DEF r
<1>2. ASSUME NEW i \in 1 .. Len(r), NEW j \in 1 .. Len(r), First(r[i], t)
      PROVE  r[i].service = s /\ (Terminal(r[j], t) => i < j)
  <2>1. CASE i \in 1 .. Len(q) /\ j \in 1 .. Len(q)
    BY <1>1, <1>2, <2>1 DEF OpensThenEnds
  <2>2. CASE i \in 1 .. Len(q) /\ j = Len(q) + 1
    BY <1>1, <1>2, <2>2 DEF OpensThenEnds
  <2>3. CASE i = Len(q) + 1
    <3>1. First(m, t) /\ ~Terminal(m, t)
      BY <1>1, <1>2, <2>3 DEF First, Terminal
    <3>2. ~Terminal(r[j], t)
      BY <1>1, <3>1 DEF Ended
    <3>. QED  BY <1>1, <2>3, <3>1, <3>2
  <2>. QED  BY <1>1, <2>1, <2>2, <2>3
<1>3. OpensThenEnds(r, t, s)
  BY <1>2 DEF OpensThenEnds
<1>. QED  BY <1>3 DEF r

\* A message is read.
LEMMA OpensTail ==
    ASSUME NEW S, NEW q \in Seq(S), q # << >>, NEW t, NEW s, OpensThenEnds(q, t, s)
    PROVE  OpensThenEnds(Tail(q), t, s)
<1> DEFINE r == Tail(q)
<1>1. /\ Len(q) \in Nat \ {0} /\ Len(r) = Len(q) - 1
      /\ \A i \in 1 .. Len(q) - 1 : r[i] = q[i + 1] /\ i + 1 \in 1 .. Len(q)
  BY TailAt
<1> HIDE DEF r
<1>2. ASSUME NEW i \in 1 .. Len(r), NEW j \in 1 .. Len(r), First(r[i], t)
      PROVE  r[i].service = s /\ (Terminal(r[j], t) => i < j)
  <2>1. /\ i + 1 \in 1 .. Len(q) /\ j + 1 \in 1 .. Len(q)
        /\ r[i] = q[i + 1] /\ r[j] = q[j + 1]
    BY <1>1
  <2>2. q[i + 1].service = s /\ (Terminal(q[j + 1], t) => i + 1 < j + 1)
    BY <1>2, <2>1 DEF OpensThenEnds
  <2>. QED  BY <2>1, <2>2
<1>3. OpensThenEnds(r, t, s)
  BY <1>2 DEF OpensThenEnds
<1>. QED  BY <1>3 DEF r

\* Channels open before they end, in what is written to the daemon.
LEMMA FirstThenEndStep ==
    ASSUME IpcEndInv, Next
    PROVE  FirstThenEnd'
<1> SUFFICES ASSUME NEW ch \in Chan
             PROVE  OpensThenEnds(c2s'[ch[1]], ch[2], ServiceOf[ch[2]])
  BY DEF FirstThenEnd
<1>0. /\ TypeOK /\ c2s \in Queues /\ ch[1] \in Clients /\ c2s[ch[1]] \in Seq(Messages)
      /\ ch = << ch[1], ch[2] >> /\ OpensThenEnds(c2s[ch[1]], ch[2], ServiceOf[ch[2]])
  BY EndTypes, ChanFields DEF Queues, IpcEndInv, IpcInv, FirstThenEnd
<1>1. CASE c2s'[ch[1]] = c2s[ch[1]]
  BY <1>0, <1>1
<1>2. CASE c2s'[ch[1]] = << >>
  BY <1>2 DEF OpensThenEnds
<1>3. ASSUME NEW c \in Clients, NEW m \in Messages, m.kind # "msg",
             c2s' = [ c2s EXCEPT ![c] = Append(@, m) ]
      PROVE  OpensThenEnds(c2s'[ch[1]], ch[2], ServiceOf[ch[2]])
  <2>1. c2s'[ch[1]] = IF ch[1] = c THEN Append(c2s[ch[1]], m) ELSE c2s[ch[1]]
    BY <1>0, <1>3 DEF Queues
  <2>2. OpensThenEnds(Append(c2s[ch[1]], m), ch[2], ServiceOf[ch[2]])
    BY <1>0, <1>3, OpensAppend DEF First
  <2>. QED  BY <1>1, <2>1, <2>2
<1>4. ASSUME NEW co \in Chan, ClientSend(co), spipe[co[1]] # "down",
             c2s' = [ c2s EXCEPT ![co[1]] = Append(@, ChMsg(co[2], cseq[co], ServiceOf[co[2]])) ]
      PROVE  OpensThenEnds(c2s'[ch[1]], ch[2], ServiceOf[ch[2]])
  <2> DEFINE m == ChMsg(co[2], cseq[co], ServiceOf[co[2]])
  <2>1. m \in Messages /\ co[1] \in Clients /\ co = << co[1], co[2] >>
    <3>1. cseq[co] \in 0 .. MaxSeq
      BY <1>0 DEF TypeOK, ClientTypeOK
    <3>. QED  BY <3>1, MessagesBuilt, ChanFields
  <2>2. c2s'[ch[1]] = IF ch[1] = co[1] THEN Append(c2s[ch[1]], m) ELSE c2s[ch[1]]
    BY <1>0, <1>4, <2>1 DEF Queues
  <2>3. ASSUME ch[1] = co[1], First(m, ch[2])
        PROVE  m.service = ServiceOf[ch[2]] /\ ~Ended(c2s[ch[1]], ch[2])
    <3>1. ch[2] = co[2] /\ cseq[co] = 0 /\ m.service = ServiceOf[co[2]]
      BY <2>3 DEF First, ChMsg
    <3>2. ch = co
      BY <1>0, <2>1, <2>3, <3>1
    <3>. QED  BY <1>4, <3>1, <3>2 DEF IpcEndInv, EndsToServer, EndsAgree
  <2>4. CASE ch[1] = co[1]
    BY <1>0, <2>1, <2>2, <2>3, <2>4, OpensAppend
  <2>. QED  BY <1>1, <2>2, <2>4
<1>5. ASSUME NEW c \in Clients, c2s[c] # << >>, c2s' = [ c2s EXCEPT ![c] = Tail(@) ]
      PROVE  OpensThenEnds(c2s'[ch[1]], ch[2], ServiceOf[ch[2]])
  <2>1. c2s'[ch[1]] = IF ch[1] = c THEN Tail(c2s[ch[1]]) ELSE c2s[ch[1]]
    BY <1>0, <1>5 DEF Queues
  <2>2. CASE ch[1] = c
    BY <1>0, <1>5, <2>1, <2>2, OpensTail
  <2>. QED  BY <1>1, <2>1, <2>2
<1>. QED  BY <1>0, <1>1, <1>2, <1>3, <1>4, <1>5, ToServerQueue

-----------------------------------------------------------------------------
(***************************************************************************)
(* What the two routers know of the ends.                                  *)
(***************************************************************************)

\* The first terminal end that was written and the trace of a lost write stay.
LEMMA FinalsStay ==
    ASSUME TypeOK, Next
    PROVE  /\ \A ch \in Chan : cfinal[ch] # "no" => cfinal'[ch] = cfinal[ch]
           /\ \A ch \in Chan : sfinal[ch] # "no" => sfinal'[ch] = sfinal[ch]
           /\ clossy \subseteq clossy' /\ slossy \subseteq slossy'
<1>0. cfinal \in Finals /\ sfinal \in Finals
  BY EndTypes
<1>1. ASSUME NEW co \in Chan, NEW k, NEW ok, NEW e, NEW f \in Finals
      PROVE  \A ch \in Chan : f[ch] # "no" => FirstFinal(f, co, k, ok, e)[ch] = f[ch]
  BY DEF FirstFinal, Finals
<1>2. ASSUME NEW ch \in Chan, NEW e, ServerPostFinal(ch, e)
      PROVE  /\ \A h \in Chan : sfinal[h] # "no" => sfinal'[h] = sfinal[h]
             /\ slossy \subseteq slossy'
  BY <1>0, <1>2 DEF ServerPostFinal, ServerPost, Finals
<1>3. CASE ClientOwnerStep
  <2>1. UNCHANGED << sfinal, slossy >>
    BY <1>3 DEF ClientOwnerStep, srouterVars
  <2>2. clossy \subseteq clossy'
    BY <1>3 DEF ClientOwnerStep, MakeGateway, Subscribe, ClientSend, ClientDispose,
       ClientComplete, ClientPost
  <2>3. cfinal' = cfinal \/ \E ch \in Chan : \E k, ok, e : cfinal' = FirstFinal(cfinal, ch, k, ok, e)
    BY <1>3 DEF ClientOwnerStep, MakeGateway, Subscribe, ClientSend, ClientDispose,
       ClientComplete
  <2>. QED  BY <1>0, <1>1, <2>1, <2>2, <2>3
<1>4. CASE ServiceStep
  <2>1. UNCHANGED << cfinal, clossy >>
    BY <1>4 DEF ServiceStep, crouterVars
  <2>2. ASSUME NEW ch \in Chan, ServerSend(ch)
        PROVE  UNCHANGED sfinal /\ slossy \subseteq slossy'
    BY <2>2 DEF ServerSend, ServerPost
  <2>3. ASSUME NEW ch \in Chan, ServerDispose(ch)
        PROVE  /\ \A h \in Chan : sfinal[h] # "no" => sfinal'[h] = sfinal[h]
               /\ slossy \subseteq slossy'
    BY <1>2, <2>3 DEF ServerDispose
  <2>4. ASSUME NEW ch \in Chan, NEW e \in Errors, NEW k \in BOOLEAN, ServerComplete(ch, e, k)
        PROVE  /\ \A h \in Chan : sfinal[h] # "no" => sfinal'[h] = sfinal[h]
               /\ slossy \subseteq slossy'
    BY <1>2, <2>4 DEF ServerComplete, ServerPost
  <2>. QED  BY <1>4, <2>1, <2>2, <2>3, <2>4 DEF ServiceStep
<1>5. CASE ProcessStep
  BY <1>5 DEF ProcessStep, ClientExit, DaemonExit, crouterVars, srouterVars
<1>6. ASSUME NEW c \in Clients, ClientReceive(c) \/ ClientConnect(c) \/ ClientLosesPipe(c)
      PROVE  UNCHANGED << cfinal, clossy, sfinal, slossy >>
  BY <1>6 DEF ClientReceive, ClientConnect, ClientLosesPipe, ClientHandleRouteConnect,
     ClientHandleRouteChannelMsg, ClientHandleRouteChannelEnd, ClientPipeConnected,
     ClientConnectFailed, ClientDisconnected, crouterVars, srouterVars
<1>7. ASSUME NEW c \in Clients, ServerReceive(c) \/ ServerAccepts(c) \/ ServerLosesPipe(c)
      PROVE  /\ UNCHANGED << cfinal, clossy >>
             /\ \A h \in Chan : sfinal[h] # "no" => sfinal'[h] = sfinal[h]
             /\ slossy \subseteq slossy'
  <2>1. UNCHANGED << cfinal, clossy >>
    BY <1>7 DEF ServerReceive, ServerAccepts, ServerLosesPipe, crouterVars
  <2>2. CASE ServerOpenChannel(c)
    <3>1. /\ c2s[c] # << >> /\ Head(c2s[c]).kind = "msg"
          /\ UNCHANGED << sfinal, slossy >> \/ ServerPostFinal(<< c, Head(c2s[c]).tag >>, NoError)
      BY <2>2 DEF ServerOpenChannel, ServerReads
    <3>2. Head(c2s[c]) \in Messages
      BY <3>1, ReadType DEF TypeOK, PipeTypeOK
    <3>3. << c, Head(c2s[c]).tag >> \in Chan
      BY <3>1, <3>2, MessageFields, ChanFields
    <3>. QED  BY <1>2, <2>1, <3>1, <3>3
  <2>3. CASE ~ServerOpenChannel(c)
    BY <1>7, <2>1, <2>3 DEF ServerReceive, ServerAccepts, ServerLosesPipe,
       ServerHandleRouteConnect, ServerDeliverMsg, ServerIgnoreMsg,
       ServerHandleRouteChannelEnd, ServerDisconnected, srouterVars
  <2>. QED  BY <2>2, <2>3
<1>. QED  BY <1>3, <1>4, <1>5, <1>6, <1>7 DEF Next, ExecutorStep

\* A terminal end that a router reads for a registered gateway was written first.
LEMMA EndReadWasWritten ==
    ASSUME IpcEndInv, NEW ch \in Chan
    PROVE  /\ ch \in cgateways /\ cpipe[ch[1]] = "up" /\ s2c[ch[1]] # << >>
                /\ Terminal(Head(s2c[ch[1]]), ch[2])
            => sfinal[ch] # "no" /\ dsdlErrorToOptError(Head(s2c[ch[1]]).error) = sfinal[ch]
           /\ ch \in sgateways /\ spipe[ch[1]] = "up" /\ c2s[ch[1]] # << >>
                /\ Terminal(Head(c2s[ch[1]]), ch[2])
            => cfinal[ch] # "no" /\ dsdlErrorToOptError(Head(c2s[ch[1]]).error) = cfinal[ch]
<1>1. s2c[ch[1]] \in Seq(Messages) /\ c2s[ch[1]] \in Seq(Messages)
  BY EndTypes, ChanFields DEF IpcEndInv, IpcInv, Queues
<1>2. ch \in cgateways /\ cpipe[ch[1]] = "up" => EndsAgree(s2c[ch[1]], ch[2], sfinal[ch])
  BY DEF IpcEndInv, EndsToClient
<1>3. ch \in sgateways /\ spipe[ch[1]] = "up" => EndsAgree(c2s[ch[1]], ch[2], cfinal[ch])
  BY DEF IpcEndInv, EndsToServer
<1>. QED  BY <1>1, <1>2, <1>3, AgreeHead

\* The client has unregistered a channel that it used: one side has ended it.
LEMMA ClientUnregisters ==
    ASSUME IpcEndInv, Next, NEW ch \in Chan, ch \notin clossy', cseq'[ch] > 0,
           ch \notin cgateways', is_connected'[ch[1]],
           ~(cseq[ch] > 0 /\ ch \notin cgateways /\ is_connected[ch[1]])
    PROVE  sfinal'[ch] # "no" \/ cfinal'[ch] # "no"
<1>0. /\ TypeOK /\ ClientTypeOK /\ Shaken /\ ch[1] \in Clients /\ cseq[ch] \in Nat
      /\ cseq \in Counters /\ cgateways \subseteq calive
  BY ChanFields, EndTypes, FlowTypes
     DEF IpcEndInv, IpcInv, TypeOK, Shaken, ClientMaps
<1>1. ASSUME UNCHANGED crouterVars PROVE FALSE
  BY <1>1 DEF crouterVars
<1>2. CASE ClientOwnerStep
  <2>1. UNCHANGED is_connected /\ is_connected[ch[1]]
    BY <1>2 DEF ClientOwnerStep, MakeGateway, Subscribe, ClientSend, ClientDispose,
       ClientComplete
  <2>2. ASSUME NEW c \in Clients, MakeGateway(c) PROVE FALSE
    BY <2>1, <2>2 DEF MakeGateway
  <2>3. ASSUME NEW co \in Chan, Subscribe(co) PROVE FALSE
    BY <2>1, <2>3 DEF Subscribe
  <2>4. ASSUME NEW co \in Chan, ClientSend(co) PROVE FALSE
    BY <1>0, <2>1, <2>4 DEF ClientSend, Counters
  <2>5. ASSUME NEW co \in Chan, NEW e \in Errors, NEW k \in BOOLEAN, ClientComplete(co, e, k)
        PROVE  FALSE
    BY <2>1, <2>5 DEF ClientComplete
  <2>6. ASSUME NEW co \in Chan, ClientDispose(co) PROVE cfinal'[ch] # "no"
    <3>1. co = ch /\ ch \in cgateways /\ cseq[ch] > 0
      BY <2>1, <2>6 DEF ClientDispose
    <3>2. PICK ok \in BOOLEAN :
              /\ ClientPost(ch, ChEnd(ch[2], FALSE, cerr[ch]), ok)
              /\ cfinal' = FirstFinal(cfinal, ch, FALSE, ok, cerr[ch])
      BY <2>1, <2>6, <3>1 DEF ClientDispose, DisposalPosts
    <3>3. ok
      BY <3>2 DEF ClientPost
    <3>4. cerr[ch] # "no" /\ cfinal \in Finals
      BY <1>0, EndTypes DEF ClientTypeOK, OptErrors, NoError, ErrorCode
    <3>. QED  BY <3>2, <3>3, <3>4 DEF FirstFinal, Finals
  <2>. QED  BY <1>2, <2>2, <2>3, <2>4, <2>5, <2>6 DEF ClientOwnerStep
<1>3. CASE ServiceStep
  BY <1>1, <1>3 DEF ServiceStep
<1>4. ASSUME NEW c \in Clients,
             ClientExit(c) \/ ClientConnectFailed(c) \/ ClientDisconnected(c)
      PROVE  FALSE
  <2>1. /\ UNCHANGED cseq
        /\ \/ is_connected' = [ is_connected EXCEPT ![c] = FALSE ]
                /\ cgateways' = cgateways \ ChannelsOf(c)
           \/ UNCHANGED << is_connected, cgateways >>
    BY <1>4 DEF ClientExit, ClientConnectFailed, ClientDisconnected, OnPipeDisconnected
  <2>. QED  BY <1>0, <2>1 DEF ClientTypeOK, ChannelsOf
<1>5. CASE ProcessStep
  BY <1>1, <1>4, <1>5 DEF ProcessStep
<1>6. ASSUME NEW c \in Clients, ClientReceive(c) PROVE sfinal'[ch] # "no"
  <2>1. CASE ClientHandleRouteConnect(c)
    <3>1. /\ UNCHANGED << cseq, cgateways, cpipe >> /\ cpipe[c] = "up"
          /\ is_connected' = [ is_connected EXCEPT ![c] = TRUE ]
      BY <2>1 DEF ClientHandleRouteConnect
    <3>. QED  BY <1>0, <3>1 DEF Shaken, SentAfterHandshake, ClientTypeOK
  <2>2. CASE ClientHandleRouteChannelMsg(c)
    BY <2>2 DEF ClientHandleRouteChannelMsg
  <2>3. CASE ClientHandleRouteChannelEnd(c)
    <3>1. /\ ch = << c, Head(s2c[c]).tag >> /\ ch \in cgateways /\ ~Head(s2c[c]).keep_alive
          /\ cpipe[c] = "up" /\ s2c[c] # << >> /\ Head(s2c[c]).kind = "end"
          /\ sfinal' = sfinal
      BY <1>6, <2>3 DEF ClientReceive, ClientHandleRouteChannelEnd, AfterEnd, srouterVars
    <3>2. ch[1] = c /\ Terminal(Head(s2c[ch[1]]), ch[2])
      BY <3>1 DEF Terminal
    <3>. QED  BY <3>1, <3>2, EndReadWasWritten
  <2>. QED  BY <1>6, <2>1, <2>2, <2>3 DEF ClientReceive
<1>7. ASSUME NEW c \in Clients, ClientConnect(c) \/ ClientLosesPipe(c) PROVE FALSE
  BY <1>1, <1>4, <1>7 DEF ClientConnect, ClientPipeConnected, ClientLosesPipe
<1>8. ASSUME NEW c \in Clients, ServerReceive(c) \/ ServerAccepts(c) \/ ServerLosesPipe(c)
      PROVE  FALSE
  BY <1>1, <1>8 DEF ServerReceive, ServerAccepts, ServerLosesPipe
<1>. QED  BY <1>2, <1>3, <1>5, <1>6, <1>7, <1>8 DEF Next, ExecutorStep

\* The daemon has unregistered, or not registered, a channel that the client used.
LEMMA ServerUnregisters ==
    ASSUME IpcEndInv, Next, NEW ch \in Chan, ch \notin clossy' \cup slossy', cseq'[ch] > 0,
           ch \notin sgateways', ch[1] \in sclients', ~Opening(c2s'[ch[1]], ch[2]),
           ServiceOf[ch[2]] \in Registered,
           ~(/\ cseq[ch] > 0 /\ ch \notin sgateways /\ ch[1] \in sclients
             /\ ~Opening(c2s[ch[1]], ch[2]))
    PROVE  sfinal'[ch] # "no" \/ cfinal'[ch] # "no"
<1>0. /\ TypeOK /\ Shaken /\ ch[1] \in Clients /\ cseq[ch] \in Nat /\ c2s \in Queues
      /\ cseq \in Counters /\ ch = << ch[1], ch[2] >> /\ c2s[ch[1]] \in Seq(Messages)
      /\ sfinal \in Finals /\ \A h \in sgateways : h[1] \in sclients
      /\ sgateways \subseteq salive /\ PipeTypeOK
  BY ChanFields, EndTypes, FlowTypes
     DEF IpcEndInv, IpcInv, TypeOK, Shaken, ServerMaps, Queues
<1>1. CASE ClientOwnerStep \/ \E c \in Clients :
                ClientReceive(c) \/ ClientConnect(c) \/ ClientLosesPipe(c)
  <2>1. ch \notin sgateways /\ ch[1] \in sclients
    BY <1>1 DEF ClientOwnerStep, ClientReceive, ClientConnect, ClientLosesPipe, srouterVars
  <2>2. \E m \in Messages : c2s'[ch[1]] \in {c2s[ch[1]], Append(c2s[ch[1]], m)}
    <3>1. ASSUME NEW co \in Chan
          PROVE  co[1] \in Clients /\ ChMsg(co[2], cseq[co], ServiceOf[co[2]]) \in Messages
      BY <1>0, ChanFields, MessagesBuilt DEF Counters
    <3>2. RouteConnect \in Messages
      BY MessagesBuilt
    <3>3. CASE UNCHANGED c2s
      BY <3>2, <3>3
    <3>4. ASSUME NEW c \in Clients, NEW m \in Messages, c2s' = [ c2s EXCEPT ![c] = Append(@, m) ]
          PROVE  c2s'[ch[1]] \in {c2s[ch[1]], Append(c2s[ch[1]], m)}
      BY <1>0, <3>4 DEF Queues
    <3>. QED  BY <1>0, <1>1, <3>1, <3>3, <3>4, ClientQueues
  <2>3. Opening(c2s[ch[1]], ch[2]) => Opening(c2s'[ch[1]], ch[2])
    BY <1>0, <2>2, InAppend
  <2>4. cseq[ch] = 0
    BY <1>0, <2>1, <2>3
  <2>5. ClientSend(ch)
    <3>1. ASSUME NEW co \in Chan, ClientSend(co) PROVE co = ch
      BY <1>0, <2>4, <3>1 DEF ClientSend, Counters
    <3>2. CASE \A co \in Chan : ~ClientSend(co)
      <4>1. UNCHANGED cseq
        BY <1>1, <3>2 DEF ClientOwnerStep, MakeGateway, Subscribe, ClientDispose,
           ClientComplete, ClientReceive, ClientConnect, ClientLosesPipe,
           ClientHandleRouteConnect, ClientHandleRouteChannelMsg, ClientHandleRouteChannelEnd,
           ClientPipeConnected, ClientConnectFailed, ClientDisconnected, crouterVars
      <4>. QED  BY <2>4, <4>1
    <3>. QED  BY <3>1, <3>2
  <2>6. spipe[ch[1]] = "up"
    BY <1>0, <2>1 DEF Shaken, Handshake
  <2>7. c2s'[ch[1]] = Append(c2s[ch[1]], ChMsg(ch[2], 0, ServiceOf[ch[2]]))
    BY <1>0, <2>4, <2>5, <2>6 DEF ClientSend, ClientPost, ClientPipeSend, Queues
  <2>8. ChMsg(ch[2], 0, ServiceOf[ch[2]]) \in Messages
    BY <1>0, <2>4, MessagesBuilt DEF Counters
  <2>9. First(ChMsg(ch[2], 0, ServiceOf[ch[2]]), ch[2])
    BY DEF First, ChMsg
  <2>. QED  BY <1>0, <2>7, <2>8, <2>9, InAppend
<1>2. ASSUME ServerPostFinal(ch, serr[ch]) \/ ServerPostFinal(ch, NoError)
      PROVE  sfinal'[ch] # "no"
  <2>1. PICK e \in OptErrors : ServerPostFinal(ch, e)
    BY <1>0, <1>2, EndTypes DEF OptErrors
  <2>2. e # "no"
    BY DEF OptErrors, NoError, ErrorCode
  <2>. QED  BY <1>0, <2>1, <2>2 DEF ServerPostFinal, ServerPost, Finals
<1>3. CASE ServiceStep
  <2>1. UNCHANGED << cseq, c2s, sclients >>
    BY <1>3 DEF ServiceStep, ServerSend, ServerDispose, ServerComplete, crouterVars
  <2>2. ASSUME NEW co \in Chan, ServerSend(co) PROVE FALSE
    BY <2>1, <2>2 DEF ServerSend
  <2>3. ASSUME NEW co \in Chan, NEW e \in Errors, NEW k \in BOOLEAN, ServerComplete(co, e, k)
        PROVE  FALSE
    BY <2>1, <2>3 DEF ServerComplete
  <2>4. ASSUME NEW co \in Chan, ServerDispose(co) PROVE sfinal'[ch] # "no"
    <3>1. co = ch /\ ch \in sgateways /\ ch[1] \in sclients
      BY <1>0, <2>1, <2>4 DEF ServerDispose
    <3>. QED  BY <1>2, <2>4, <3>1 DEF ServerDispose, ServerDisposalPosts
  <2>. QED  BY <1>3, <2>2, <2>3, <2>4 DEF ServiceStep
<1>4. CASE ProcessStep
  <2>1. ~DaemonExit
    BY DEF DaemonExit
  <2>2. UNCHANGED << cseq, c2s, sgateways, sclients >>
    BY <1>4, <2>1 DEF ProcessStep, ClientStart, ClientExit, ClientPipeClose, crouterVars,
       srouterVars
  <2>. QED  BY <2>2
<1>5. ASSUME NEW c \in Clients, ServerReceive(c)
      PROVE  sfinal'[ch] # "no" \/ cfinal'[ch] # "no"
  <2> DEFINE m  == Head(c2s[c])
             co == << c, m.tag >>
  <2>1. /\ UNCHANGED << cseq, cfinal, spipe >> /\ spipe[c] = "up" /\ c2s[c] # << >>
        /\ c2s' = [ c2s EXCEPT ![c] = Tail(@) ]
    BY <1>5 DEF ServerReceive, ServerHandleRouteConnect, ServerDeliverMsg, ServerOpenChannel,
       ServerIgnoreMsg, ServerHandleRouteChannelEnd, ServerReads, crouterVars
  <2>2. ch[1] \in sclients
    BY <1>0, <1>5, <2>1 DEF Shaken, SentAfterHandshake, ServerReceive,
       ServerHandleRouteConnect, ServerDeliverMsg, ServerOpenChannel, ServerIgnoreMsg,
       ServerHandleRouteChannelEnd, KnownAfterReply, srouterVars
  <2>3. (ch[1] = c /\ First(m, ch[2])) \/ ~Opening(c2s[ch[1]], ch[2])
    <3>1. CASE ch[1] # c
      BY <1>0, <2>1, <3>1 DEF Queues
    <3>2. CASE ch[1] = c
      <4>1. c2s'[c] = Tail(c2s[c])
        BY <1>0, <2>1 DEF Queues
      <4>2. Opening(c2s[c], ch[2]) => Opening(c2s'[c], ch[2]) \/ First(m, ch[2])
        BY <1>0, <2>1, <3>2, <4>1, InTail
      <4>. QED  BY <3>2, <4>2
    <3>. QED  BY <3>1, <3>2
  <2>4. CASE ch \in sgateways
    <3>1. ServerHandleRouteChannelEnd(c)
      BY <1>5, <2>4 DEF ServerReceive, ServerHandleRouteConnect, ServerDeliverMsg,
         ServerOpenChannel, ServerIgnoreMsg, srouterVars
    <3>2. ch = co /\ ~m.keep_alive /\ m.kind = "end"
      BY <2>4, <3>1 DEF ServerHandleRouteChannelEnd, ServerReads, AfterEnd
    <3>3. ch[1] = c /\ Terminal(Head(c2s[ch[1]]), ch[2])
      BY <3>2 DEF Terminal
    <3>. QED  BY <2>1, <2>4, <3>3, EndReadWasWritten
  <2>5. CASE ch \notin sgateways
    <3>1. ch[1] = c /\ First(m, ch[2])
      BY <2>1, <2>2, <2>3, <2>5
    <3>2. ch = co /\ m.kind = "msg" /\ m.sequence = 0
      BY <1>0, <3>1 DEF First
    <3>3. m.service = ServiceOf[ch[2]]
      <4>1. 1 \in 1 .. Len(c2s[c]) /\ m = c2s[c][1]
        BY <1>0, <2>1, <3>1
      <4>. QED  BY <3>1, <4>1 DEF IpcEndInv, FirstThenEnd, OpensThenEnds
    <3>4. OpensChannel(c, m)
      BY <2>2, <2>5, <3>1, <3>2, <3>3 DEF OpensChannel
    <3>5. ServerOpenChannel(c)
      BY <1>5, <2>5, <3>2, <3>4 DEF ServerReceive, ServerHandleRouteConnect, ServerDeliverMsg,
         ServerIgnoreMsg, ServerHandleRouteChannelEnd, ServerReads
    <3>. QED  BY <1>2, <3>2, <3>5 DEF ServerOpenChannel
  <2>. QED  BY <2>4, <2>5
<1>6. ASSUME NEW c \in Clients, ServerAccepts(c) PROVE FALSE
  BY <1>6 DEF ServerAccepts, ServerAccept, crouterVars, srouterVars
<1>7. ASSUME NEW c \in Clients, ServerLosesPipe(c) PROVE FALSE
  <2>1. /\ sclients' = sclients \ {c} /\ sgateways' = sgateways \ ChannelsOf(c)
        /\ c2s' = [ c2s EXCEPT ![c] = << >> ] /\ UNCHANGED cseq
    BY <1>7 DEF ServerLosesPipe, ServerDisconnected, ServerPipeClose, crouterVars
  <2>2. ch[1] # c /\ c2s'[ch[1]] = c2s[ch[1]]
    BY <1>0, <2>1 DEF Queues
  <2>. QED  BY <2>1, <2>2 DEF ChannelsOf
<1>. QED  BY <1>1, <1>3, <1>4, <1>5, <1>6, <1>7 DEF Next, ExecutorStep

\* A used channel that one side has unregistered was ended by one of the two.
LEMMA UnregisteredStep ==
    ASSUME IpcEndInv, Next
    PROVE  UnregisteredIsEnded'
<1>1. UnregisteredIsEnded /\ TypeOK
  BY DEF IpcEndInv, IpcInv
<1>2. /\ \A ch \in Chan : cfinal[ch] # "no" => cfinal'[ch] # "no"
      /\ \A ch \in Chan : sfinal[ch] # "no" => sfinal'[ch] # "no"
      /\ clossy \subseteq clossy' /\ slossy \subseteq slossy'
  BY <1>1, FinalsStay
<1> SUFFICES ASSUME NEW ch \in Chan, ch \notin clossy' \cup slossy', cseq'[ch] > 0
             PROVE  /\ ch \notin cgateways' /\ is_connected'[ch[1]]
                        => sfinal'[ch] # "no" \/ cfinal'[ch] # "no"
                    /\ /\ ch \notin sgateways' /\ ch[1] \in sclients'
                       /\ ~Opening(c2s'[ch[1]], ch[2]) /\ ServiceOf[ch[2]] \in Registered
                       => sfinal'[ch] # "no" \/ cfinal'[ch] # "no"
  BY DEF UnregisteredIsEnded
<1>3. ASSUME ch \notin cgateways', is_connected'[ch[1]]
      PROVE  sfinal'[ch] # "no" \/ cfinal'[ch] # "no"
  <2>1. CASE cseq[ch] > 0 /\ ch \notin cgateways /\ is_connected[ch[1]]
    BY <1>1, <1>2, <2>1 DEF UnregisteredIsEnded
  <2>. QED  BY <1>3, <2>1, ClientUnregisters
<1>4. ASSUME ch \notin sgateways', ch[1] \in sclients', ~Opening(c2s'[ch[1]], ch[2]),
             ServiceOf[ch[2]] \in Registered
      PROVE  sfinal'[ch] # "no" \/ cfinal'[ch] # "no"
  <2>1. CASE /\ cseq[ch] > 0 /\ ch \notin sgateways /\ ch[1] \in sclients
             /\ ~Opening(c2s[ch[1]], ch[2])
    BY <1>1, <1>2, <1>4, <2>1 DEF UnregisteredIsEnded
  <2>. QED  BY <1>4, <2>1, ServerUnregisters
<1>. QED  BY <1>3, <1>4

-----------------------------------------------------------------------------
(***************************************************************************)
(* What the owners are told.                                               *)
(***************************************************************************)

\* The error that an owner was told first stays right: what it may be compared
\* with is written once.
LEMMA TheErrorStays ==
    ASSUME IpcEndInv, Next, NEW ch \in Chan
    PROVE  /\ cdone[ch] # << >> => cdone[ch][1] \in {"Disconnected", sfinal'[ch]}
           /\ sdone[ch] # << >> => sdone[ch][1] \in {"Disconnected", cfinal'[ch]}
<1>1. /\ TypeOK /\ cdone[ch] \in Seq(OptErrors) /\ sdone[ch] \in Seq(OptErrors)
  BY DEF IpcEndInv, IpcInv, TypeOK, ClientTypeOK, ServerTypeOK
<1>2. /\ cdone[ch] # << >> => cdone[ch][1] \in OptErrors
      /\ sdone[ch] # << >> => sdone[ch][1] \in OptErrors
  BY <1>1
<1>3. "no" \notin OptErrors
  BY DEF OptErrors, NoError, ErrorCode
<1>. QED  BY <1>1, <1>2, <1>3, FinalsStay DEF IpcEndInv, EndErrorIsPeers

\* handleRouteChannelEnd and the disconnect handlers tell the error of the peer.
LEMMA EndErrorStep ==
    ASSUME IpcEndInv, Next
    PROVE  EndErrorIsPeers'
<1>0. /\ TypeOK /\ ClientTypeOK /\ ServerTypeOK /\ EndsUnregistered
      /\ cgateways \subseteq Chan /\ sgateways \subseteq Chan
  BY DEF IpcEndInv, IpcInv, TypeOK, ClientTypeOK, ServerTypeOK
<1>1. ASSUME NEW ch \in Chan, cdone'[ch] # cdone[ch]
      PROVE  cdone[ch] = << >> /\ (\/ cdone'[ch] = << "Disconnected" >>
                                   \/ cdone'[ch] = << sfinal'[ch] >>)
  <2>1. PICK c \in Clients : ClientReceive(c) \/ ClientConnect(c) \/ ClientLosesPipe(c)
    BY <1>1 DEF Next, ClientOwnerStep, MakeGateway, Subscribe, ClientSend, ClientDispose,
       ClientComplete, ServiceStep, ProcessStep, ClientExit, ExecutorStep, ServerReceive,
       ServerAccepts, ServerLosesPipe, crouterVars
  <2>2. CASE ClientReceive(c)
    <3>1. ClientHandleRouteChannelEnd(c) /\ sfinal' = sfinal
      BY <1>1, <2>2 DEF ClientReceive, ClientHandleRouteConnect, ClientHandleRouteChannelMsg,
         srouterVars
    <3> DEFINE m == Head(s2c[c])
    <3>2. /\ ch = << c, m.tag >> /\ ch \in cgateways /\ ~m.keep_alive
          /\ cdone'[ch] = Append(cdone[ch], dsdlErrorToOptError(m.error))
          /\ cpipe[c] = "up" /\ s2c[c] # << >> /\ m.kind = "end"
      BY <1>0, <1>1, <3>1 DEF ClientHandleRouteChannelEnd, ClientTypeOK
    <3>3. ch[1] = c /\ Terminal(Head(s2c[ch[1]]), ch[2])
      BY <3>2 DEF Terminal
    <3>4. dsdlErrorToOptError(m.error) = sfinal[ch]
      BY <3>2, <3>3, EndReadWasWritten
    <3>5. cdone[ch] = << >>
      BY <1>0, <3>2 DEF EndsUnregistered
    <3>. QED  BY <3>1, <3>2, <3>4, <3>5
  <2>3. CASE ClientConnect(c) \/ ClientLosesPipe(c)
    <3>1. OnPipeDisconnected(c)
      BY <1>1, <2>3 DEF ClientConnect, ClientPipeConnected, ClientConnectFailed,
         ClientLosesPipe, ClientDisconnected, crouterVars
    <3>2. ch \in cgateways /\ cdone'[ch] = Append(cdone[ch], "Disconnected")
      BY <1>1, <3>1 DEF OnPipeDisconnected
    <3>3. cdone[ch] = << >>
      BY <1>0, <3>2 DEF EndsUnregistered
    <3>. QED  BY <3>2, <3>3
  <2>. QED  BY <2>1, <2>2, <2>3
<1>2. ASSUME NEW ch \in Chan, sdone'[ch] # sdone[ch]
      PROVE  sdone[ch] = << >> /\ (\/ sdone'[ch] = << "Disconnected" >>
                                   \/ sdone'[ch] = << cfinal'[ch] >>)
  <2>1. PICK c \in Clients : ServerReceive(c) \/ ServerLosesPipe(c)
    BY <1>2 DEF Next, ClientOwnerStep, ServiceStep, ServerSend, ServerDispose, ServerComplete,
       ProcessStep, DaemonExit, ExecutorStep, ClientReceive, ClientConnect, ClientLosesPipe,
       ServerAccepts, srouterVars
  <2>2. CASE ServerReceive(c)
    <3>1. ServerHandleRouteChannelEnd(c) /\ cfinal' = cfinal
      BY <1>2, <2>2 DEF ServerReceive, ServerHandleRouteConnect, ServerDeliverMsg,
         ServerOpenChannel, ServerIgnoreMsg, crouterVars, srouterVars
    <3> DEFINE m == Head(c2s[c])
    <3>2. /\ ch = << c, m.tag >> /\ ch \in sgateways /\ ~m.keep_alive
          /\ sdone'[ch] = Append(sdone[ch], dsdlErrorToOptError(m.error))
          /\ spipe[c] = "up" /\ c2s[c] # << >> /\ m.kind = "end"
      BY <1>0, <1>2, <3>1 DEF ServerHandleRouteChannelEnd, ServerReads, ServerTypeOK
    <3>3. ch[1] = c /\ Terminal(Head(c2s[ch[1]]), ch[2])
      BY <3>2 DEF Terminal
    <3>4. dsdlErrorToOptError(m.error) = cfinal[ch]
      BY <3>2, <3>3, EndReadWasWritten
    <3>5. sdone[ch] = << >>
      BY <1>0, <3>2 DEF EndsUnregistered
    <3>. QED  BY <3>1, <3>2, <3>4, <3>5
  <2>3. CASE ServerLosesPipe(c)
    <3>1. ch \in sgateways /\ sdone'[ch] = Append(sdone[ch], "Disconnected")
      BY <1>2, <2>3 DEF ServerLosesPipe, ServerDisconnected
    <3>2. sdone[ch] = << >>
      BY <1>0, <3>1 DEF EndsUnregistered
    <3>. QED  BY <3>1, <3>2
  <2>. QED  BY <2>1, <2>2, <2>3
<1>3. ASSUME NEW x PROVE << x >>[1] = x
  OBVIOUS
<1> SUFFICES ASSUME NEW ch \in Chan
             PROVE  /\ cdone'[ch] # << >> => cdone'[ch][1] \in {"Disconnected", sfinal'[ch]}
                    /\ sdone'[ch] # << >> => sdone'[ch][1] \in {"Disconnected", cfinal'[ch]}
  BY DEF EndErrorIsPeers
<1>4. cdone'[ch] # << >> => cdone'[ch][1] \in {"Disconnected", sfinal'[ch]}
  BY <1>1, <1>3, TheErrorStays
<1>5. sdone'[ch] # << >> => sdone'[ch][1] \in {"Disconnected", cfinal'[ch]}
  BY <1>2, <1>3, TheErrorStays
<1>. QED  BY <1>4, <1>5

\* onGatewaySubscription and handleRouteConnect notify every subscribed gateway.
LEMMA NotifiedStep ==
    ASSUME TypeOK, ClientMaps, Next,
           \A ch \in cgateways \cap csubscribed : is_connected[ch[1]] => ch \in cnotified
    PROVE  \A ch \in cgateways' \cap csubscribed' : is_connected'[ch[1]] => ch \in cnotified'
<1> DEFINE Told == \A ch \in cgateways \cap csubscribed : is_connected[ch[1]] => ch \in cnotified
<1>0. /\ cgateways \subseteq Chan /\ is_connected \in [ Clients -> BOOLEAN ]
      /\ \A ch \in csubscribed : Made(ch)
  BY DEF TypeOK, ClientTypeOK, ClientMaps
<1>1. ASSUME UNCHANGED crouterVars PROVE Told'
  BY <1>1 DEF crouterVars
<1>2. ASSUME NEW c \in Clients, MakeGateway(c) PROVE Told'
  <2>1. << c, next_tag[c] >> \notin csubscribed
    BY <1>0, ChanFields DEF Made, TypeOK, ClientTypeOK
  <2>. QED  BY <1>2, <2>1 DEF MakeGateway
<1>3. ASSUME NEW co \in Chan, Subscribe(co) PROVE Told'
  BY <1>3 DEF Subscribe, OnGatewaySubscription
<1>4. ASSUME NEW co \in Chan, ClientSend(co) \/ ClientDispose(co) PROVE Told'
  BY <1>4 DEF ClientSend, ClientDispose
<1>5. ASSUME NEW co \in Chan, NEW e \in Errors, NEW k \in BOOLEAN, ClientComplete(co, e, k)
      PROVE  Told'
  BY <1>5 DEF ClientComplete
<1>6. ASSUME NEW c \in Clients,
             ClientExit(c) \/ ClientConnectFailed(c) \/ ClientDisconnected(c)
      PROVE  Told'
  <2>1. /\ UNCHANGED cnotified /\ csubscribed' \subseteq csubscribed
        /\ cgateways' \subseteq cgateways
        /\ \A d \in Clients : is_connected'[d] => is_connected[d]
    BY <1>0, <1>6 DEF ClientExit, ClientConnectFailed, ClientDisconnected, OnPipeDisconnected
  <2>. QED  BY <1>0, <2>1, ChanFields
<1>7. ASSUME NEW c \in Clients, ClientReceive(c) PROVE Told'
  <2>1. CASE ClientHandleRouteConnect(c)
    BY <1>0, <2>1, ChanFields DEF ClientHandleRouteConnect, ChannelsOf
  <2>2. CASE ClientHandleRouteChannelMsg(c)
    BY <2>2 DEF ClientHandleRouteChannelMsg
  <2>3. CASE ClientHandleRouteChannelEnd(c)
    BY <2>3 DEF ClientHandleRouteChannelEnd, AfterEnd
  <2>. QED  BY <1>7, <2>1, <2>2, <2>3 DEF ClientReceive
<1>8. CASE ClientOwnerStep
  BY <1>2, <1>3, <1>4, <1>5, <1>8 DEF ClientOwnerStep
<1>9. CASE ServiceStep
  BY <1>1, <1>9 DEF ServiceStep
<1>10. CASE ProcessStep
  BY <1>1, <1>6, <1>10 DEF ProcessStep
<1>11. ASSUME NEW c \in Clients, ClientConnect(c) \/ ClientLosesPipe(c) PROVE Told'
  BY <1>1, <1>6, <1>11 DEF ClientConnect, ClientPipeConnected, ClientLosesPipe
<1>12. ASSUME NEW c \in Clients, ServerReceive(c) \/ ServerAccepts(c) \/ ServerLosesPipe(c)
       PROVE  Told'
  BY <1>1, <1>12 DEF ServerReceive, ServerAccepts, ServerLosesPipe
<1>. QED  BY <1>7, <1>8, <1>9, <1>10, <1>11, <1>12 DEF Next, ExecutorStep

-----------------------------------------------------------------------------
(***************************************************************************)
(* The results.                                                            *)
(***************************************************************************)
LEMMA EndInvInit == Init => IpcEndInv
<1> SUFFICES ASSUME Init PROVE IpcEndInv
  OBVIOUS
<1>1. IpcInv
  BY InvInit
<1>2. Handshake
  <2>1. ~Replied(<< >>)
    BY DEF Replied
  <2>2. \A c \in Clients : s2c[c] = << >> /\ spipe[c] = "none" /\ ~is_connected[c]
    BY DEF Init, PipeInit, ClientInit
  <2>3. sclients = {}
    BY DEF Init, ServerInit
  <2>. QED  BY <2>1, <2>2, <2>3 DEF Handshake
<1>3. \A ch \in Chan : s2c[ch[1]] = << >> /\ c2s[ch[1]] = << >> /\ cseq[ch] = 0
                       /\ sfinal[ch] = "no" /\ cfinal[ch] = "no"
  BY ChanFields DEF Init, PipeInit, ClientInit, ServerInit
<1>4. SentAfterHandshake /\ UnregisteredIsEnded
  BY <1>3 DEF SentAfterHandshake, UnregisteredIsEnded
<1>5. EndsToClient /\ EndsToServer
  BY <1>3, AgreeEmpty DEF EndsToClient, EndsToServer
<1>6. FirstThenEnd
  BY <1>3 DEF FirstThenEnd, OpensThenEnds
<1>7. EndErrorIsPeers /\ ConnectedNotified
  BY DEF Init, ClientInit, ServerInit, EndErrorIsPeers, ConnectedNotified
<1>. QED  BY <1>1, <1>2, <1>4, <1>5, <1>6, <1>7 DEF IpcEndInv

\* IpcEndInv is inductive: every handler of both routers and of the pipe preserves it.
LEMMA EndInvStep == IpcEndInv /\ [Next]_vars => IpcEndInv'
<1> SUFFICES ASSUME IpcEndInv, [Next]_vars PROVE IpcEndInv'
  OBVIOUS
<1>1. IpcInv'
  BY InvStep DEF IpcEndInv
<1>2. CASE UNCHANGED vars
  <2>1. UNCHANGED << pipeVars, crouterVars, srouterVars >>
    BY <1>2 DEF vars
  <2>2. UNCHANGED << cpipe, spipe, c2s, s2c >>
    BY <2>1 DEF pipeVars
  <2>3. UNCHANGED << is_connected, next_tag, cgateways, csubscribed, cseq, cnotified, cdone,
                     cfinal, clossy >>
    BY <2>1 DEF crouterVars
  <2>4. UNCHANGED << sclients, sgateways, slog, sdone, sfinal, slossy >>
    BY <2>1 DEF srouterVars
  <2>5. Handshake' /\ SentAfterHandshake' /\ EndErrorIsPeers' /\ ConnectedNotified'
    BY <2>2, <2>3, <2>4 DEF IpcEndInv, Handshake, SentAfterHandshake, EndErrorIsPeers,
       ConnectedNotified
  <2>6. EndsToClient' /\ EndsToServer' /\ FirstThenEnd' /\ UnregisteredIsEnded'
    BY <2>2, <2>3, <2>4 DEF IpcEndInv, EndsToClient, Made, EndsToServer, FirstThenEnd,
       UnregisteredIsEnded
  <2>. QED  BY <1>1, <2>5, <2>6 DEF IpcEndInv
<1>3. CASE Next
  <2>1. TypeOK /\ ClientMaps /\ Shaken
    BY DEF IpcEndInv, IpcInv, Shaken
  <2>2. Handshake' /\ SentAfterHandshake'
    BY <1>3, <2>1, ShakenClient, ShakenDaemon DEF Next, ExecutorStep, Shaken
  <2>3. EndsToServer'
    BY <1>3, ToServerEndsClient, ToServerEndsDaemon DEF Next, ExecutorStep
  <2>4. EndsToClient'
    BY <1>3, ToClientEndsClient, ToClientEndsDaemon DEF Next, ExecutorStep
  <2>5. FirstThenEnd' /\ UnregisteredIsEnded' /\ EndErrorIsPeers'
    BY <1>3, FirstThenEndStep, UnregisteredStep, EndErrorStep
  <2>6. ConnectedNotified'
    <3>1. \A ch \in cgateways' \cap csubscribed' : is_connected'[ch[1]] => ch \in cnotified'
      BY <1>3, <2>1, NotifiedStep DEF IpcEndInv, ConnectedNotified
    <3>. QED  BY <2>2, <3>1 DEF ConnectedNotified, Handshake
  <2>. QED  BY <1>1, <2>2, <2>3, <2>4, <2>5, <2>6 DEF IpcEndInv
<1>. QED  BY <1>2, <1>3

(***************************************************************************)
(* The inductive invariant: the ends in flight, the handshake and what the *)
(* owners were told fit together in every reachable state.                 *)
(***************************************************************************)
THEOREM EndInvHolds == Spec => []IpcEndInv
BY EndInvInit, EndInvStep, PTL DEF Spec

(***************************************************************************)
(* handleRouteChannelEnd and the disconnect handlers of both routers: the  *)
(* error an owner is told is Disconnected, or the one its peer wrote first.*)
(***************************************************************************)
THEOREM EndErrors == Spec => []EndErrorIsPeers
<1>1. IpcEndInv => EndErrorIsPeers
  BY DEF IpcEndInv
<1>. QED  BY <1>1, EndInvHolds, PTL

(***************************************************************************)
(* handleRouteConnect of both routers and onGatewaySubscription: nobody    *)
(* misses Connected, and a connected client is known to the daemon.        *)
(***************************************************************************)
THEOREM ConnectedIsTold == Spec => []ConnectedNotified
<1>1. IpcEndInv => ConnectedNotified
  BY DEF IpcEndInv
<1>. QED  BY <1>1, EndInvHolds, PTL

(***************************************************************************)
(* onGatewayDisposal and handleRouteChannelEnd of both routers: on a quiet *)
(* connection they agree on which channels there are, unless an owner      *)
(* completed one itself or a write was lost.                               *)
(***************************************************************************)
THEOREM RoutersAgree == Spec => []QuietAgreement
<1>1. IpcEndInv => QuietAgreement
  <2> SUFFICES ASSUME IpcEndInv, NEW c \in Clients, Quiet(c),
                      NEW ch \in ChannelsOf(c) \ (clossy \cup slossy)
               PROVE  /\ ch \in sgateways /\ ch \notin cgateways => sfinal[ch] # "no"
                      /\ ch \in cgateways /\ cseq[ch] > 0 /\ ServiceOf[ch[2]] \in Registered
                              /\ ch \notin sgateways => cfinal[ch] # "no"
    BY DEF QuietAgreement
  <2>1. /\ ch \in Chan /\ ch[1] = c /\ is_connected[c] /\ c \in sclients
        /\ c2s[c] = << >> /\ s2c[c] = << >> /\ cseq[ch] \in Nat
    BY EndTypes DEF Quiet, ChannelsOf, IpcEndInv, IpcInv
  <2>2. spipe[c] = "up" /\ cpipe[c] = "up"
    BY <2>1 DEF IpcEndInv, Handshake
  <2>3. ASSUME ch \in sgateways, ch \notin cgateways PROVE sfinal[ch] # "no"
    <3>1. cseq[ch] > 0
      BY <2>1, <2>3, ServedIsMade DEF IpcEndInv, IpcInv, ServerMaps
    <3>2. cfinal[ch] = "no"
      BY <2>1, <2>2, <2>3, AgreeEmpty DEF IpcEndInv, EndsToServer, EndsAgree
    <3>. QED  BY <2>1, <2>3, <3>1, <3>2 DEF IpcEndInv, UnregisteredIsEnded
  <2>4. ASSUME ch \in cgateways, cseq[ch] > 0, ServiceOf[ch[2]] \in Registered,
               ch \notin sgateways
        PROVE  cfinal[ch] # "no"
    <3>1. sfinal[ch] = "no"
      BY <2>1, <2>2, <2>4, AgreeEmpty DEF IpcEndInv, EndsToClient, EndsAgree
    <3>2. ~Opening(c2s[ch[1]], ch[2])
      BY <2>1, AgreeEmpty
    <3>. QED  BY <2>1, <2>4, <3>1, <3>2 DEF IpcEndInv, UnregisteredIsEnded
  <2>. QED  BY <2>3, <2>4
<1>. QED  BY <1>1, EndInvHolds, PTL
=============================================================================
