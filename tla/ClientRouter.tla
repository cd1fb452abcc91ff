---------------------------- MODULE ClientRouter ----------------------------
(***************************************************************************)
(* ClientRouterImpl and its gateways: the SDK side of the IPC. The owner   *)
(* of a channel (an SDK service client) calls MakeGateway, Subscribe,      *)
(* ClientSend, ClientComplete and ClientDispose; the pipe calls the rest.  *)
(* Calls that return an error without changing anything (NotConnected,     *)
(* Shutdown) are not steps.                                                *)
(***************************************************************************)
EXTENDS SocketPipe

VARIABLES
    is_connected,    \* client -> RouteConnect reply seen
    next_tag,        \* client -> tag of the next gateway
    cgateways,       \* map_of_gateways_ of every client: registered channels
    calive,          \* gateways that exist (a channel owns each of them)
    csubscribed,     \* gateways with an event handler
    cseq,            \* next_sequence_
    cerr,            \* completion_opt_error_
    \* What the owner of the channel and the peer have seen (history):
    cnotified,       \* channels whose owner got Connected
    clog,            \* sequence numbers of the messages delivered to the owner
    cdone,           \* errors of the terminal completions delivered to the owner
    cfinal,          \* error of the first terminal ChEnd written, or "no"
    clossy           \* channels on which a write of the client failed

crouterVars == << is_connected, next_tag, cgateways, calive, csubscribed, cseq,
                  cerr, cnotified, clog, cdone, cfinal, clossy >>

ClientInit ==
    /\ is_connected = [ c \in Clients |-> FALSE ]
    /\ next_tag = [ c \in Clients |-> 0 ]
    /\ cgateways = {} /\ calive = {} /\ csubscribed = {} /\ cnotified = {} /\ clossy = {}
    /\ cseq = [ ch \in Chan |-> 0 ]
    /\ cerr = [ ch \in Chan |-> NoError ]
    /\ clog = [ ch \in Chan |-> << >> ]
    /\ cdone = [ ch \in Chan |-> << >> ]
    /\ cfinal = [ ch \in Chan |-> "no" ]

(***************************************************************************)
(* Operations of the channel's owner.                                      *)
(***************************************************************************)
MakeGateway(c) ==
    /\ cpipe[c] \notin {"off", "exited"}
    /\ next_tag[c] < MaxTags
    /\ LET ch == << c, next_tag[c] >>
       IN  /\ cgateways' = cgateways \cup {ch}
           /\ calive' = calive \cup {ch}
    /\ next_tag' = [ next_tag EXCEPT ![c] = @ + 1 ]
    /\ UNCHANGED << pipeVars, is_connected, csubscribed, cseq, cerr,
                    cnotified, clog, cdone, cfinal, clossy >>

\* onGatewaySubscription: a late subscriber of a connected router is told so at once.
\* (Slip: only the RouteConnect reply notifies.)
NoLateNotification(ch) == {}

OnGatewaySubscription(ch) ==
    IF is_connected[ch[1]] /\ ch \in cgateways THEN {ch} ELSE {}

Subscribe(ch) ==
    /\ ch \in calive
    /\ csubscribed' = csubscribed \cup {ch}
    /\ cnotified' = cnotified \cup OnGatewaySubscription(ch)
    /\ UNCHANGED << pipeVars, is_connected, next_tag, cgateways, calive, cseq, cerr,
                    clog, cdone, cfinal, clossy >>

\* Writes message m of channel ch; a failed write only leaves its trace in clossy.
ClientPost(ch, m, ok) ==
    /\ ClientPipeSend(ch[1], m, ok)
    /\ clossy' = IF ok THEN clossy ELSE clossy \cup {ch}

\* The sequence number is consumed before the write, and stays so if it fails.
ClientSend(ch) ==
    /\ ch \in calive /\ is_connected[ch[1]] /\ ch \in cgateways
    /\ cseq[ch] < MaxSeq
    /\ cseq' = [ cseq EXCEPT ![ch] = @ + 1 ]
    /\ \E ok \in BOOLEAN : ClientPost(ch, ChMsg(ch[2], cseq[ch], ServiceOf[ch[2]]), ok)
    /\ UNCHANGED << cpipe, spipe, s2c, is_connected, next_tag, cgateways, calive,
                    csubscribed, cerr, cnotified, clog, cdone, cfinal >>

\* The first terminal ChEnd that got written is the one the peer may act on.
FirstFinal(final, ch, keepAlive, ok, e) ==
    IF ok /\ ~keepAlive /\ final[ch] = "no" THEN [ final EXCEPT ![ch] = e ] ELSE final

\* A channel that never sent anything is unknown to the daemon: no ChEnd.
ClientComplete(ch, e, keepAlive) ==
    /\ ch \in calive /\ is_connected[ch[1]] /\ ch \in cgateways
    /\ cerr' = [ cerr EXCEPT ![ch] = e ]
    /\ IF cseq[ch] = 0
       THEN UNCHANGED << c2s, cfinal, clossy >>
       ELSE \E ok \in BOOLEAN :
                /\ ClientPost(ch, ChEnd(ch[2], keepAlive, e), ok)
                /\ cfinal' = FirstFinal(cfinal, ch, keepAlive, ok, e)
    /\ UNCHANGED << cpipe, spipe, s2c, is_connected, next_tag, cgateways, calive,
                    csubscribed, cseq, cnotified, clog, cdone >>

\* Whether the disposal of a gateway is worth a ChEnd.
\* (Slip: a channel that sent a single message counts as never used.)
DisposalPostsLate(ch) ==
    ch \in cgateways /\ cseq[ch] > 1 /\ is_connected[ch[1]]

DisposalPosts(ch) ==
    ch \in cgateways /\ cseq[ch] > 0 /\ is_connected[ch[1]]

\* ~GatewayImpl and onGatewayDisposal.
ClientDispose(ch) ==
    /\ ch \in calive
    /\ calive' = calive \ {ch}
    /\ csubscribed' = csubscribed \ {ch}
    /\ cgateways' = cgateways \ {ch}
    /\ IF DisposalPosts(ch)
       THEN \E ok \in BOOLEAN :
                /\ ClientPost(ch, ChEnd(ch[2], FALSE, cerr[ch]), ok)
                /\ cfinal' = FirstFinal(cfinal, ch, FALSE, ok, cerr[ch])
       ELSE UNCHANGED << c2s, cfinal, clossy >>
    /\ UNCHANGED << cpipe, spipe, s2c, is_connected, next_tag, cseq, cerr,
                    cnotified, clog, cdone >>

(***************************************************************************)
(* Pipe events.                                                            *)
(***************************************************************************)
\* handlePipeEvent(Connected): negotiate the route.
\* (Slip: a connected pipe is taken for a connected route.)
NoNegotiation(c) == UNCHANGED c2s

NegotiateRoute(c) == \E ok \in BOOLEAN : ClientPipeSend(c, RouteConnect, ok)

\* SocketClient::handleConnect without SO_ERROR.
ClientPipeConnected(c) ==
    /\ cpipe[c] = "connecting" /\ spipe[c] # "none"
    /\ cpipe' = [ cpipe EXCEPT ![c] = "up" ]
    /\ NegotiateRoute(c)
    /\ UNCHANGED << spipe, s2c, crouterVars >>

ClientHandleRouteConnect(c) ==
    /\ cpipe[c] = "up" /\ s2c[c] # << >> /\ Head(s2c[c]).kind = "connect"
    /\ s2c' = [ s2c EXCEPT ![c] = Tail(@) ]
    /\ is_connected' = [ is_connected EXCEPT ![c] = TRUE ]
    /\ cnotified' = IF is_connected[c] THEN cnotified
                    ELSE cnotified \cup (cgateways \cap csubscribed \cap ChannelsOf(c))
    /\ UNCHANGED << cpipe, spipe, c2s, next_tag, cgateways, calive, csubscribed, cseq,
                    cerr, clog, cdone, cfinal, clossy >>

\* Routed by tag alone; the sequence number is not looked at.
ClientHandleRouteChannelMsg(c) ==
    /\ cpipe[c] = "up" /\ s2c[c] # << >> /\ Head(s2c[c]).kind = "msg"
    /\ s2c' = [ s2c EXCEPT ![c] = Tail(@) ]
    /\ LET m  == Head(s2c[c])
           ch == << c, m.tag >>
       IN  clog' = IF ch \in cgateways \cap csubscribed
                   THEN [ clog EXCEPT ![ch] = Append(@, m.sequence) ] ELSE clog
    /\ UNCHANGED << cpipe, spipe, c2s, is_connected, next_tag, cgateways, calive,
                    csubscribed, cseq, cerr, cnotified, cdone, cfinal, clossy >>

ClientHandleRouteChannelEnd(c) ==
    /\ cpipe[c] = "up" /\ s2c[c] # << >> /\ Head(s2c[c]).kind = "end"
    /\ s2c' = [ s2c EXCEPT ![c] = Tail(@) ]
    /\ LET m  == Head(s2c[c])
           ch == << c, m.tag >>
       IN  /\ cgateways' = AfterEnd(cgateways, ch, m.keep_alive)
           /\ cdone' = IF ~m.keep_alive /\ ch \in cgateways \cap csubscribed
                      THEN [ cdone EXCEPT ![ch] = Append(@, dsdlErrorToOptError(m.error)) ]
                      ELSE cdone
    /\ UNCHANGED << cpipe, spipe, c2s, is_connected, next_tag, calive, csubscribed, cseq,
                    cerr, cnotified, clog, cfinal, clossy >>

(***************************************************************************)
(* handlePipeEvent(Disconnected): only a connected router unregisters and  *)
(* notifies its gateways.                                                  *)
(***************************************************************************)
OnPipeDisconnected(c) ==
    IF is_connected[c]
    THEN /\ is_connected' = [ is_connected EXCEPT ![c] = FALSE ]
         /\ cgateways' = cgateways \ ChannelsOf(c)
         /\ cdone' = [ ch \in Chan |->
                        IF ch \in ChannelsOf(c) \cap cgateways \cap csubscribed
                        THEN Append(cdone[ch], "Disconnected") ELSE cdone[ch] ]
    ELSE UNCHANGED << is_connected, cgateways, cdone >>

\* handleConnect finds SO_ERROR set: nothing was listening, or it is gone again.
ClientConnectFailed(c) ==
    /\ cpipe[c] = "connecting" /\ spipe[c] \in {"none", "down"}
    /\ ClientPipeClose(c, "down")
    /\ OnPipeDisconnected(c)
    /\ UNCHANGED << next_tag, calive, csubscribed, cseq, cerr, cnotified, clog,
                    cfinal, clossy >>

\* handleReceive ends in an error: end of stream, reset, or a malformed message.
ClientDisconnected(c) ==
    /\ cpipe[c] = "up"
    /\ ClientPipeClose(c, "down")
    /\ OnPipeDisconnected(c)
    /\ UNCHANGED << next_tag, calive, csubscribed, cseq, cerr, cnotified, clog,
                    cfinal, clossy >>

\* The SDK process ends, by a crash or otherwise: nothing more is written.
ClientExit(c) ==
    /\ cpipe[c] \notin {"off", "exited"}
    /\ ClientPipeClose(c, "exited")
    /\ is_connected' = [ is_connected EXCEPT ![c] = FALSE ]
    /\ calive' = calive \ ChannelsOf(c)
    /\ csubscribed' = csubscribed \ ChannelsOf(c)
    /\ cgateways' = cgateways \ ChannelsOf(c)
    /\ UNCHANGED << next_tag, cseq, cerr, cnotified, clog, cdone, cfinal, clossy >>

ClientTypeOK ==
    /\ is_connected \in [ Clients -> BOOLEAN ]
    /\ next_tag \in [ Clients -> 0 .. MaxTags ]
    /\ cgateways \subseteq Chan /\ calive \subseteq Chan /\ csubscribed \subseteq Chan
    /\ cnotified \subseteq Chan /\ clossy \subseteq Chan
    /\ cseq \in [ Chan -> 0 .. MaxSeq ]
    /\ cerr \in [ Chan -> OptErrors ]
    /\ clog \in [ Chan -> Seq(0 .. MaxSeq) ]
    /\ cdone \in [ Chan -> Seq(OptErrors) ]
    /\ cfinal \in [ Chan -> OptErrors \cup {"no"} ]
=============================================================================
