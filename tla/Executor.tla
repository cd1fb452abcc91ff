------------------------------ MODULE Executor ------------------------------
(***************************************************************************)
(* The single-threaded executor and the sockets it watches: the listening  *)
(* socket and the accepted connections of SocketServer, and the socket of  *)
(* SocketClient.                                                           *)
(*                                                                         *)
(* An AwaitableNode is a callback for a descriptor. It registers itself    *)
(* with the kernel, which hands its address back when the descriptor is    *)
(* ready; pollAwaitableResourcesFor only schedules the nodes so reported,  *)
(* spinOnce runs them. Nodes move (from the registering function into the  *)
(* object that holds them) and die in callbacks, their own included;       *)
(* descriptors are closed and their numbers used again at once.            *)
(*                                                                         *)
(* A node is named by the place that holds it. The kernel's list has one   *)
(* entry for a descriptor with epoll, one for a descriptor and filter with *)
(* kqueue; closing a descriptor removes its entries. The kernel is         *)
(* external, and so is the order in which libcyphal runs what is due.      *)
(***************************************************************************)
EXTENDS Integers, Sequences, FiniteSets, SequencesExt

CONSTANTS
    Platforms,    \* TRUE: the executor with kqueue, FALSE: the one with epoll
    MaxFd,        \* bound: descriptors of the process
    MaxEvents,    \* descriptors a poll reports at most (16)
    MaxId,        \* bound: connections accepted
    MaxBacklog    \* bound: connections that wait to be accepted

ASSUME ExecutorAssumption ==
    /\ Platforms \subseteq BOOLEAN
    /\ {MaxFd, MaxEvents, MaxId, MaxBacklog} \subseteq Nat \ {0}

Fds     == 1 .. MaxFd
NoFd    == 0
Ids     == 1 .. MaxId

\* Holders of nodes: fd_callback_ of a ClientContext, accept_callback_ of the
\* server (0), socket_callback_ of the client (-1), the local of registration (-2).
Accept  == 0
Pipe    == -1
Local   == -2
Holders == Ids \cup {Accept, Pipe, Local}

\* The key of an entry of the kernel's list.
Key(e, fd, filter) == << fd, IF e.kqueue THEN filter ELSE "any" >>
Keys               == Fds \X {"read", "write", "any"}
NoKey              == << NoFd, "any" >>

VARIABLES
    ex,         \* the executor: kqueue, its kind; timer, whether some timer is always
                \* due before a second is over; node, the key of the node a holder
                \* has; total, their count; and the kernel's list: key -> holder,
                \* with turn, the order in which the kernel reports its keys
    scheduled,  \* holders of the nodes that are due, in order
    server_fd,  \* server_fd_ of SocketServer
    ctx,        \* client_id_to_context_: id -> its descriptor
    last_id,    \* unique_client_id_counter_
    pipe_fd,    \* io_state_.fd of SocketClient
    connecting, \* socket_callback_ is handleConnect
    pending,    \* descriptors with something to read, accept or connect
    backlog     \* connections that wait at the listening socket

vars == << ex, scheduled, server_fd, ctx, last_id, pipe_fd, connecting, pending, backlog >>

Nobody == -3

\* The executor, its nodes and the descriptors have their types.
TypeOK ==
    /\ ex.kqueue \in Platforms
    /\ ex.node \in [ Holders -> Keys \cup {NoKey} ]
    /\ ex.list \in [ Keys -> Holders \cup {Nobody} ]
    /\ ex.turn \in Seq(Keys) /\ ex.total \in 0 .. MaxId + 2
    /\ scheduled \in Seq(Holders)
    /\ server_fd \in Fds \cup {NoFd} /\ pipe_fd \in Fds \cup {NoFd}
    /\ ctx \in [ Ids -> Fds \cup {NoFd} ] /\ last_id \in 0 .. MaxId
    /\ connecting \in BOOLEAN
    /\ pending \subseteq Fds /\ backlog \in 0 .. MaxBacklog

Open == ({server_fd, pipe_fd} \cup { ctx[i] : i \in Ids }) \ {NoFd}

Init ==
    /\ \E platform \in Platforms, timer \in BOOLEAN :
         ex = [ kqueue |-> platform, timer |-> timer, node |-> [ h \in Holders |-> NoKey ], total |-> 0,
                list |-> [ k \in Keys |-> Nobody ], turn |-> << >> ]
    /\ scheduled = << >>
    /\ server_fd = NoFd /\ ctx = [ i \in Ids |-> NoFd ] /\ last_id = 0
    /\ pipe_fd = NoFd /\ connecting = FALSE
    /\ pending = {} /\ backlog = 0

-----------------------------------------------------------------------------
(* AwaitableNode and the kernel's list                                     *)

\* The sequence s, in which x occurs at most once, without x.
Without(s, x) == IF \E i \in DOMAIN s : s[i] = x
                 THEN RemoveAt(s, CHOOSE i \in DOMAIN s : s[i] = x) ELSE s

\* EPOLL_CTL_ADD fails for an entry that exists; EV_ADD replaces it.
KernelAdd(e, k, h) ==
    IF e.list[k] # Nobody /\ ~e.kqueue THEN e
    ELSE [ e EXCEPT !.list[k] = h, !.turn = Append(Without(@, k), k) ]

\* EPOLL_CTL_MOD fails for an entry that does not.
KernelModify(e, k, h) == IF e.list[k] = Nobody THEN e ELSE [ e EXCEPT !.list[k] = h ]

KernelDelete(e, k) ==
    [ e EXCEPT !.list[k] = Nobody, !.turn = Without(@, k) ]

KernelClose(e, fd) ==
    [ e EXCEPT !.list = [ k \in Keys |-> IF k[1] = fd THEN Nobody ELSE @[k] ],
               !.turn = Without(Without(Without(@, <<fd, "read">>), <<fd, "write">>), <<fd, "any">>) ]

\* AwaitableNode::setup
Setup(e, h, k) == KernelAdd([ e EXCEPT !.node[h] = k, !.total = @ + 1 ], k, h)

(* Slip: the node that was moved from keeps its descriptor. *)
MovedWithoutExchange(e, from, to) ==
    KernelModify([ e EXCEPT !.node[to] = e.node[from] ], e.node[from], to)

\* The move constructor; fd_ of the other node is exchanged for -1.
Moved(e, from, to) ==
    LET k     == e.node[from]
        moved == [ e EXCEPT !.node[to] = k, !.node[from] = NoKey ] IN
    IF k = NoKey THEN moved
    ELSE IF e.kqueue THEN KernelAdd(KernelDelete(moved, k), k, to)
    ELSE KernelModify(moved, k, to)

\* The destructor
Destroyed(e, h) ==
    IF e.node[h] = NoKey THEN e
    ELSE KernelDelete([ e EXCEPT !.node[h] = NoKey, !.total = @ - 1 ], e.node[h])

\* registerAwaitableCallback: a local node that is moved out.
Registered(e, h, k) == Destroyed(Moved(Setup(e, Local, k), Local, h), Local)

\* A callback variable is assigned a newly registered node; the old node, if the
\* variable still has one, is destroyed after the registration.
Assigned(e, h, k) ==
    Destroyed(Moved(Destroyed(Setup(e, Local, k), h), Local, h), Local)

Unscheduled(h) == Without(scheduled, h)

-----------------------------------------------------------------------------
(* SocketServer and SocketClient                                           *)

FreeFds == Fds \ Open

\* The kernel gives out the lowest free number.
NewFd == CHOOSE fd \in FreeFds : \A other \in FreeFds : fd <= other

\* SocketServer::start
ServerStart ==
    /\ server_fd = NoFd /\ FreeFds # {}
    /\ server_fd' = NewFd
    /\ ex' = Registered(ex, Accept, Key(ex, NewFd, "read"))
    /\ UNCHANGED << scheduled, ctx, last_id, pipe_fd, connecting, pending, backlog >>

\* SocketClient::start
ClientStart ==
    /\ pipe_fd = NoFd /\ FreeFds # {}
    /\ pipe_fd' = NewFd /\ connecting' = TRUE
    /\ ex' = Registered(ex, Pipe, Key(ex, NewFd, "write"))
    /\ UNCHANGED << scheduled, server_fd, ctx, last_id, pending, backlog >>

Due(h) == scheduled # << >> /\ Head(scheduled) = h

\* handleAccept: a new context with its callback ...
HandleAccept ==
    /\ Due(Accept) /\ backlog > 0 /\ FreeFds # {} /\ last_id < MaxId
    /\ last_id' = last_id + 1
    /\ ctx' = [ ctx EXCEPT ![last_id + 1] = NewFd ]
    /\ ex' = Registered(ex, last_id + 1, Key(ex, NewFd, "read"))
    /\ backlog' = backlog - 1
    /\ pending' = IF backlog = 1 THEN pending \ {server_fd} ELSE pending
    /\ scheduled' = Tail(scheduled)
    /\ UNCHANGED << server_fd, pipe_fd, connecting >>

\* ... or accept fails: for lack of descriptors, or the connection is gone.
HandleAcceptFails ==
    /\ Due(Accept)
    /\ \/ FreeFds = {} /\ UNCHANGED << pending, backlog >>
       \/ backlog > 0 /\ backlog' = backlog - 1
            /\ pending' = IF backlog = 1 THEN pending \ {server_fd} ELSE pending
       \/ backlog = 0 /\ pending' = pending \ {server_fd} /\ UNCHANGED backlog
    /\ scheduled' = Tail(scheduled)
    /\ UNCHANGED << ex, server_fd, ctx, last_id, pipe_fd, connecting >>

\* handleClientRequest: what was there is read, ...
HandleClientRequest(i) ==
    /\ Due(i)
    /\ pending' = pending \ {ctx[i]}
    /\ scheduled' = Tail(scheduled)
    /\ UNCHANGED << ex, server_fd, ctx, last_id, pipe_fd, connecting, backlog >>

(* Slip: the context goes, its callback stays. *)
ContextErased(e, i) == KernelClose(e, ctx[i])

\* ~ClientContext: fd_callback_, then io_state_ with the descriptor.
ContextGone(e, i) == KernelClose(Destroyed(e, i), ctx[i])

\* ... or the connection is over, and its context is erased.
HandleClientDisconnect(i) ==
    /\ Due(i)
    /\ ex' = ContextGone(ex, i)
    /\ ctx' = [ ctx EXCEPT ![i] = NoFd ]
    /\ pending' = pending \ {ctx[i]}
    /\ scheduled' = Unscheduled(i)
    /\ UNCHANGED << server_fd, last_id, pipe_fd, connecting, backlog >>

(* Slip: the callback is replaced, not reset first. *)
ConnectReplaces(e) == Assigned(e, Pipe, Key(e, pipe_fd, "read"))

\* handleConnect resets its own callback before it registers the next.
ConnectRegisters(e) == Assigned(Destroyed(e, Pipe), Pipe, Key(e, pipe_fd, "read"))

HandleConnect ==
    /\ Due(Pipe) /\ connecting
    /\ ex' = ConnectRegisters(ex)
    /\ connecting' = FALSE
    /\ pending' = pending \ {pipe_fd}
    /\ scheduled' = Tail(scheduled)
    /\ UNCHANGED << server_fd, ctx, last_id, pipe_fd, backlog >>

HandleReceive ==
    /\ Due(Pipe) /\ ~connecting
    /\ pending' = pending \ {pipe_fd}
    /\ scheduled' = Tail(scheduled)
    /\ UNCHANGED << ex, server_fd, ctx, last_id, pipe_fd, connecting, backlog >>

\* handleDisconnect, after a failed connect, an error or the end of the stream.
HandleDisconnect ==
    /\ Due(Pipe)
    /\ ex' = KernelClose(Destroyed(ex, Pipe), pipe_fd)
    /\ pipe_fd' = NoFd /\ connecting' = FALSE
    /\ pending' = pending \ {pipe_fd}
    /\ scheduled' = Tail(scheduled)
    /\ UNCHANGED << server_fd, ctx, last_id, backlog >>

-----------------------------------------------------------------------------
(* pollAwaitableResourcesFor, and what happens outside of the process      *)

\* The elements of s at the places in at, in order: the n-th is at the place of rank n.
Picked(s, at) ==
    [ n \in 1 .. Cardinality(at) |-> s[CHOOSE i \in at : Cardinality({ j \in at : j <= i }) = n] ]

\* Places in the kernel's turn.
Ready == { i \in DOMAIN ex.turn : ex.turn[i][1] \in pending }

\* The first of those that are ready, as many as fit.
Reported(at) ==
    /\ Cardinality(at) = IF Cardinality(Ready) < MaxEvents THEN Cardinality(Ready) ELSE MaxEvents
    /\ \A i \in at, j \in Ready \ at : i < j

\* The loops poll for a second or until the next timer. kevent refuses a whole second,
\* which the kqueue executor puts into tv_nsec.
TimeoutIsValid == ~ex.kqueue \/ ex.timer

\* spinOnce has run everything that was due. Without awaitables it only sleeps.
\* The keys reported go to the end of the kernel's turn.
Poll ==
    /\ scheduled = << >> /\ ex.total > 0 /\ Ready # {} /\ TimeoutIsValid
    /\ \E at \in SUBSET Ready :
        /\ Reported(at)
        /\ scheduled' = [ n \in 1 .. Cardinality(at) |-> ex.list[Picked(ex.turn, at)[n]] ]
        /\ ex' = [ ex EXCEPT !.turn = Picked(@, DOMAIN @ \ at) \o Picked(@, at) ]
    /\ UNCHANGED << server_fd, ctx, last_id, pipe_fd, connecting, pending, backlog >>

\* EINTR, or an error that the loop logs: nothing is scheduled, and it polls again.
PollFails == scheduled = << >> /\ ex.total > 0 /\ UNCHANGED vars

PeerConnects ==
    /\ server_fd # NoFd /\ backlog < MaxBacklog /\ last_id + backlog < MaxId
    /\ backlog' = backlog + 1 /\ pending' = pending \cup {server_fd}
    /\ UNCHANGED << ex, scheduled, server_fd, ctx, last_id, pipe_fd, connecting >>

\* Data or an end arrives, a connection is established or refused.
DataArrives ==
    /\ \E fd \in Open \ ({server_fd} \cup pending) : pending' = pending \cup {fd}
    /\ UNCHANGED << ex, scheduled, server_fd, ctx, last_id, pipe_fd, connecting, backlog >>

Callback ==
    \/ HandleAccept \/ HandleAcceptFails
    \/ \E i \in Ids : HandleClientRequest(i) \/ HandleClientDisconnect(i)
    \/ HandleConnect \/ HandleReceive \/ HandleDisconnect

Next == ServerStart \/ ClientStart \/ Callback \/ Poll \/ PollFails \/ PeerConnects \/ DataArrives

Spec == Init /\ [][Next]_vars /\ WF_vars(Poll) /\ WF_vars(Callback)

-----------------------------------------------------------------------------
(***************************************************************************)
(* The kernel's list and the nodes agree: an address that poll gets back   *)
(* is that of a live node for that very descriptor (a stale one would be   *)
(* written to), and every live node is in the list, so that it is polled,  *)
(* through moves, destruction in callbacks and reuse of numbers. And       *)
(* total_awaitables_ counts the live nodes: poll sleeps without looking at *)
(* the descriptors when it is zero.                                        *)
(***************************************************************************)
BookkeepingIsExact ==
    /\ TypeOK
    /\ \A k \in Keys : ex.list[k] # Nobody => ex.node[ex.list[k]] = k
    /\ \A h \in Holders : ex.node[h] # NoKey => ex.list[ex.node[h]] = h
    /\ ex.total = Cardinality({ h \in Holders : ex.node[h] # NoKey })

(***************************************************************************)
(* A scheduled callback still has its connection, the one its node watches *)
(* (the assertion in handleClientRequest), although other callbacks of the *)
(* same spin close descriptors and get the same numbers again.             *)
(***************************************************************************)
RunsOnItsOwn ==
    /\ \A n \in DOMAIN scheduled : ex.node[scheduled[n]] # NoKey
    /\ \A i \in Ids : ex.node[i] = IF ctx[i] = NoFd THEN NoKey ELSE Key(ex, ctx[i], "read")

(***************************************************************************)
(* A connection with something to read is served, whatever else is ready   *)
(* and however few descriptors one poll reports: with epoll, and with      *)
(* kqueue in a process that always has a timer due within the second.      *)
(* With kqueue and no such timer every poll fails (EINVAL), and nothing is *)
(* ever served.                                                            *)
(***************************************************************************)
Served ==
    TimeoutIsValid =>
        /\ \A i \in Ids : ctx[i] \in pending ~> ctx[i] \notin pending
        /\ pipe_fd \in pending ~> pipe_fd \notin pending
=============================================================================
