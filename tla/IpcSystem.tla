------------------------------ MODULE IpcSystem -----------------------------
(***************************************************************************)
(* The daemon and its SDK clients: the two routers over their pipes.       *)
(***************************************************************************)
EXTENDS ClientRouter, ServerRouter

vars == << pipeVars, crouterVars, srouterVars >>

Init == PipeInit /\ ClientInit /\ ServerInit

(***************************************************************************)
(* The steps of the owners of channels and of the environment.             *)
(***************************************************************************)
ClientOwnerStep ==
    /\ \/ \E c \in Clients : MakeGateway(c)
       \/ \E ch \in Chan : Subscribe(ch) \/ ClientSend(ch) \/ ClientDispose(ch)
       \/ \E ch \in Chan, e \in Errors, k \in BOOLEAN : ClientComplete(ch, e, k)
    /\ UNCHANGED srouterVars

ServiceStep ==
    /\ \/ \E ch \in Chan : ServerSend(ch) \/ ServerDispose(ch)
       \/ \E ch \in Chan, e \in Errors, k \in BOOLEAN : ServerComplete(ch, e, k)
    /\ UNCHANGED crouterVars

ProcessStep ==
    \/ /\ \E c \in Clients, listening \in BOOLEAN :
            (listening => daemon_up) /\ ClientStart(c, listening)
       /\ UNCHANGED << crouterVars, srouterVars >>
    \/ /\ \E c \in Clients : ClientExit(c)
       /\ UNCHANGED srouterVars
    \/ DaemonExit /\ UNCHANGED crouterVars

(***************************************************************************)
(* The steps of the two executors: one callback each.                      *)
(***************************************************************************)
ClientReceive(c) ==
    /\ \/ ClientHandleRouteConnect(c)
       \/ ClientHandleRouteChannelMsg(c)
       \/ ClientHandleRouteChannelEnd(c)
    /\ UNCHANGED srouterVars

ClientConnect(c) ==
    /\ ClientPipeConnected(c) \/ ClientConnectFailed(c)
    /\ UNCHANGED srouterVars

ClientLosesPipe(c) == ClientDisconnected(c) /\ UNCHANGED srouterVars

ServerReceive(c) ==
    /\ \/ ServerHandleRouteConnect(c)
       \/ ServerDeliverMsg(c)
       \/ ServerOpenChannel(c)
       \/ ServerIgnoreMsg(c)
       \/ ServerHandleRouteChannelEnd(c)
    /\ UNCHANGED crouterVars

ServerAccepts(c) == ServerAccept(c) /\ UNCHANGED << crouterVars, srouterVars >>

ServerLosesPipe(c) == ServerDisconnected(c) /\ UNCHANGED crouterVars

ExecutorStep ==
    \E c \in Clients :
        \/ ClientReceive(c) \/ ClientConnect(c) \/ ClientLosesPipe(c)
        \/ ServerReceive(c) \/ ServerAccepts(c) \/ ServerLosesPipe(c)

Next == ClientOwnerStep \/ ServiceStep \/ ProcessStep \/ ExecutorStep

Spec == Init /\ [][Next]_vars

(***************************************************************************)
(* Fairness: both executors poll level-triggered descriptors, so a pending *)
(* connection, a pending message and an end of stream are all handled in   *)
(* time. Nothing is assumed of owners, services or processes.              *)
(***************************************************************************)
Fairness ==
    \A c \in Clients :
        /\ WF_vars(ClientConnect(c))
        /\ WF_vars(ClientReceive(c))
        /\ WF_vars(ServerAccepts(c))
        /\ WF_vars(ServerReceive(c))
        /\ WF_vars(spipe[c] = "down" /\ s2c[c] = << >> /\ ClientLosesPipe(c))
        /\ WF_vars(cpipe[c] \in {"down", "exited"} /\ c2s[c] = << >> /\ ServerLosesPipe(c))

FairSpec == Spec /\ Fairness

-----------------------------------------------------------------------------
(***************************************************************************)
(* Safety.                                                                 *)
(***************************************************************************)
\* Every variable of the pipes and of the two routers has its type.
TypeOK == PipeTypeOK /\ ClientTypeOK /\ ServerTypeOK

Increasing(log) == \A i, j \in 1 .. Len(log) : i < j => log[i] < log[j]

(***************************************************************************)
(* Messages of a channel reach its service, and its client, in the order   *)
(* they were sent and at most once, and a service starts with message 0:   *)
(* so the factory of handleRouteChannelMsg runs at most once per channel,  *)
(* whatever is lost, completed, disposed or disconnected in between.       *)
(***************************************************************************)
InOrder ==
    \A ch \in Chan :
        /\ Increasing(slog[ch]) /\ Increasing(clog[ch])
        /\ slog[ch] # << >> => slog[ch][1] = 0

(***************************************************************************)
(* After a terminal completion the owner of a channel hears nothing more   *)
(* on it, neither a message nor a second completion, on either side: the   *)
(* routers unregister a gateway before they deliver that event, and a      *)
(* ChEnd of the peer may be crossing one of our own or a disconnection.    *)
(***************************************************************************)
SilentAfterEnd ==
    [][ \A ch \in Chan :
            /\ cdone[ch] # << >> => UNCHANGED << cdone[ch], clog[ch] >>
            /\ sdone[ch] # << >> => UNCHANGED << sdone[ch], slog[ch] >> ]_vars

(***************************************************************************)
(* The owner of a registered and subscribed channel of a connected router  *)
(* has been told Connected (it starts its protocol from that event),       *)
(* whether it subscribed before or after the RouteConnect reply came. And  *)
(* a connected client is one the daemon knows, or the daemon has closed    *)
(* the connection: ServerRouter inserts it only after that reply.          *)
(***************************************************************************)
ConnectedNotified ==
    /\ \A ch \in cgateways \cap csubscribed : is_connected[ch[1]] => ch \in cnotified
    /\ \A c \in Clients : is_connected[c] => c \in sclients \/ spipe[c] = "down"

(***************************************************************************)
(* The error of a terminal completion is Disconnected, or the error of the *)
(* first terminal ChEnd the other side wrote: the later one that disposal  *)
(* of a completed gateway writes never replaces it.                        *)
(***************************************************************************)
EndErrorIsPeers ==
    \A ch \in Chan :
        /\ cdone[ch] # << >> => cdone[ch][1] \in {"Disconnected", sfinal[ch]}
        /\ sdone[ch] # << >> => sdone[ch][1] \in {"Disconnected", cfinal[ch]}

Quiet(c) == is_connected[c] /\ c \in sclients /\ c2s[c] = << >> /\ s2c[c] = << >>

(***************************************************************************)
(* When a connection is quiet, the two routers agree on which channels are *)
(* registered, except where an owner called complete() itself and has not  *)
(* dropped its channel yet, or a write failed.                             *)
(***************************************************************************)
QuietAgreement ==
    \A c \in Clients : Quiet(c) =>
        \A ch \in ChannelsOf(c) \ (clossy \cup slossy) :
            /\ ch \in sgateways /\ ch \notin cgateways => sfinal[ch] # "no"
            /\ ch \in cgateways /\ cseq[ch] > 0 /\ ServiceOf[ch[2]] \in Registered
                    /\ ch \notin sgateways => cfinal[ch] # "no"

-----------------------------------------------------------------------------
(***************************************************************************)
(* Refinement: the IPC implements the channel contract.                    *)
(***************************************************************************)
ClientEnd(ch) ==
    IF ch[2] >= next_tag[ch[1]] THEN "unused"
    ELSE IF ch \in cgateways THEN "open" ELSE "closed"

ServerEnd(ch) ==
    IF slog[ch] = << >> THEN "unused"
    ELSE IF ch \in sgateways THEN "open" ELSE "closed"

Contract == INSTANCE ChannelContract WITH
    Channels <- Chan,
    client   <- [ ch \in Chan |-> ClientEnd(ch) ],
    server   <- [ ch \in Chan |-> ServerEnd(ch) ],
    sent     <- cseq,
    replied  <- sseq,
    served   <- slog,
    received <- clog

\* The routers and pipes together implement ChannelContract.
ImplementsContract == Contract!Spec

-----------------------------------------------------------------------------
(***************************************************************************)
(* Liveness, when writes on healthy connections do not fail.               *)
(***************************************************************************)
\* A client whose connection the daemon holds gets through the handshake.
HandshakeCompletes ==
    \A c \in Clients :
        cpipe[c] = "connecting" ~> is_connected[c] \/ cpipe[c] \in {"down", "exited"}

\* A service learns that its client dropped the channel, or went away.
ServiceIsReleased ==
    \A ch \in Chan :
        ch \in sgateways /\ ch \notin calive ~> ch \notin sgateways \/ sfinal[ch] # "no"

\* A client that waits on a channel the service has dropped is told so.
ClientIsReleased ==
    \A ch \in Chan :
        slog[ch] # << >> /\ ch \notin salive /\ ch \in csubscribed \cap cgateways
            ~> cdone[ch] # << >> \/ ch \notin calive \/ cfinal[ch] # "no"

-----------------------------------------------------------------------------
(***************************************************************************)
(* Claims of the repository's texts that the code does not keep.           *)
(***************************************************************************)
(***************************************************************************)
(* client_router.cpp: "In case of the pipe disconnection, it is            *)
(* broadcast-ed to all currently existing gateways". Here: when the pipe   *)
(* goes down, every registered gateway with a handler gets Completed.      *)
(***************************************************************************)
DisconnectIsBroadcast ==
    [][ \A ch \in cgateways \cap csubscribed :
            cpipe[ch[1]] \in {"connecting", "up"} /\ cpipe'[ch[1]] = "down"
                => cdone'[ch] # << >> ]_vars
=============================================================================
