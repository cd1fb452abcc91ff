----------------------------- MODULE SocketPipe -----------------------------
(***************************************************************************)
(* The message pipe between an SDK process and the daemon: SocketClient on *)
(* one end, SocketServer on the other, a stream socket in between.         *)
(*                                                                         *)
(* Each client process owns exactly one connection for its whole life      *)
(* (SocketClient::start is called once and nothing reconnects), and        *)
(* SocketServer numbers connections with a counter that is never reused,   *)
(* so a client and its server-side client_id are the same thing here.      *)
(*                                                                         *)
(* A message is either written whole or not at all in this module; what a  *)
(* short write does to the byte stream is the subject of SocketFraming.    *)
(***************************************************************************)
EXTENDS Naturals, Sequences

CONSTANTS
    Clients,      \* SDK processes (equivalently: connections)
    MaxTags,      \* bound: gateways one client may create
    MaxSeq,       \* bound: messages one gateway may send
    MaxInFlight,  \* capacity of one direction of a socket, in messages
    Services,     \* service ids that clients use
    ServiceOf,    \* tag -> service id its channel is made for
    Registered,   \* the service ids the daemon registered a channel factory for
    Errors,       \* error codes the owners pass to complete()
    SendMayFail   \* whether ::send may fail on a healthy connection (EAGAIN)

(***************************************************************************)
(* sdk::Error::Code, and its conversion to and from the wire.              *)
(***************************************************************************)
ErrorCode == [ Other |-> 1, Canceled |-> 4, Shutdown |-> 6, Disconnected |-> 8 ]

NoError == "none"

OptErrors == DOMAIN ErrorCode \cup {NoError}

\* (Slip: the error is not put on the wire.)
ErrorNotWritten(e) == 0

optErrorToDsdlError(e) == IF e = NoError THEN 0 ELSE ErrorCode[e]

dsdlErrorToOptError(n) ==
    IF n = 0 THEN NoError ELSE CHOOSE e \in DOMAIN ErrorCode : ErrorCode[e] = n

ASSUME PipeAssumption ==
    /\ MaxTags \in Nat
    /\ MaxSeq \in Nat
    /\ MaxInFlight \in Nat
    /\ Registered \subseteq Services
    /\ ServiceOf \in [ 0 .. MaxTags - 1 -> Services ]
    /\ Errors \subseteq OptErrors
    /\ SendMayFail \in BOOLEAN

Tags == 0 .. MaxTags - 1

\* A channel is named by its client and the tag that client gave it.
Chan == Clients \X Tags

ChannelsOf(c) == { ch \in Chan : ch[1] = c }

(***************************************************************************)
(* Route messages: RouteConnect, RouteChannelMsg and RouteChannelEnd.      *)
(***************************************************************************)
RouteConnect == [ kind |-> "connect" ]

ChMsg(tag, sequence, service) ==
    [ kind |-> "msg", tag |-> tag, sequence |-> sequence, service |-> service ]

ChEnd(tag, keepAlive, e) ==
    [ kind |-> "end", tag |-> tag, keep_alive |-> keepAlive,
      error |-> optErrorToDsdlError(e) ]

Messages ==
    {RouteConnect}
        \cup { ChMsg(t, n, s) : t \in Tags, n \in 0 .. MaxSeq, s \in Services }
        \cup { ChEnd(t, k, e) : t \in Tags, k \in BOOLEAN, e \in OptErrors }

VARIABLES
    cpipe,  \* client -> state of its SocketClient
    spipe,  \* client -> state of the connection at the SocketServer
    c2s,    \* client -> messages written by it and not read by the daemon
    s2c     \* client -> messages written by the daemon and not read by it

pipeVars == << cpipe, spipe, c2s, s2c >>

ClientPipeStates == { "off", "connecting", "up", "down", "exited" }

ServerPipeStates == { "none", "backlog", "up", "down" }

PipeInit ==
    /\ cpipe = [ c \in Clients |-> "off" ]
    /\ spipe = [ c \in Clients |-> "none" ]
    /\ c2s = [ c \in Clients |-> << >> ]
    /\ s2c = [ c \in Clients |-> << >> ]

(***************************************************************************)
(* SocketClient::send and SocketServer::send. A write to a peer that has   *)
(* closed its end either fails or is swallowed by the kernel; a write to a *)
(* healthy one may fail only when the socket buffer is full, which the     *)
(* routers cannot foresee.                                                 *)
(***************************************************************************)
ClientPipeSend(c, m, ok) ==
    IF ok
    THEN /\ Len(c2s[c]) < MaxInFlight
         /\ c2s' = [ c2s EXCEPT ![c] = IF spipe[c] = "down" THEN @ ELSE Append(@, m) ]
    ELSE /\ SendMayFail \/ spipe[c] = "down"
         /\ UNCHANGED c2s

ServerPipeSend(c, m, ok) ==
    IF ok
    THEN /\ Len(s2c[c]) < MaxInFlight
         /\ s2c' = [ s2c EXCEPT ![c] =
                        IF cpipe[c] \in {"down", "exited"} THEN @ ELSE Append(@, m) ]
    ELSE /\ SendMayFail \/ cpipe[c] \in {"down", "exited"}
         /\ UNCHANGED s2c

(***************************************************************************)
(* SocketClient::start: connect() is non-blocking. Either the kernel puts  *)
(* the connection into the daemon's listen backlog, or it will be refused, *)
(* which the client learns later from SO_ERROR.                            *)
(***************************************************************************)
ClientStart(c, listening) ==
    /\ cpipe[c] = "off"
    /\ cpipe' = [ cpipe EXCEPT ![c] = "connecting" ]
    /\ spipe' = [ spipe EXCEPT ![c] = IF listening THEN "backlog" ELSE @ ]
    /\ UNCHANGED << c2s, s2c >>

\* SocketServer::handleAccept; the router does nothing on this event.
ServerAccept(c) ==
    /\ spipe[c] = "backlog"
    /\ spipe' = [ spipe EXCEPT ![c] = "up" ]
    /\ UNCHANGED << cpipe, c2s, s2c >>

\* handleRouteChannelEnd of either router: a terminal end unregisters the gateway.
\* (Slip: only the peer is told, the map keeps the entry.)
StaysRegistered(gateways, ch, keepAlive) == gateways

AfterEnd(gateways, ch, keepAlive) ==
    IF keepAlive THEN gateways ELSE gateways \ {ch}

\* SocketClient::handleDisconnect: the client closes its end of the socket.
ClientPipeClose(c, final) ==
    /\ cpipe' = [ cpipe EXCEPT ![c] = final ]
    /\ s2c' = [ s2c EXCEPT ![c] = << >> ]
    /\ UNCHANGED << spipe, c2s >>

\* SocketServer::handleClientRequest: the daemon drops the client context.
ServerPipeClose(c) ==
    /\ spipe' = [ spipe EXCEPT ![c] = "down" ]
    /\ c2s' = [ c2s EXCEPT ![c] = << >> ]
    /\ UNCHANGED << cpipe, s2c >>

PipeTypeOK ==
    /\ cpipe \in [ Clients -> ClientPipeStates ]
    /\ spipe \in [ Clients -> ServerPipeStates ]
    /\ c2s \in [ Clients -> Seq(Messages) ]
    /\ s2c \in [ Clients -> Seq(Messages) ]
=============================================================================
