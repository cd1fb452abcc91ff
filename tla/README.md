# Verification of ocvsmd

TLA+ models of the OpenCyphal Vehicle System Management Daemon (ocvsmd), TLC
runs that check them on small instances, and TLAPS proofs, for instances of any
size, about the IPC layer, the relay, the file server, `sync_wait` with the command
line tool, and the daemon as a process.

Paths below are relative to the root of the repository. `PROJECT.json` maps
every definition to the lines it models and lists components, runs, mutants,
findings, hazards and theorems.

## 1. The system

`ocvsmd` is a daemon that is a node on a Cyphal network. Programs on the same
host use it through an SDK; SDK and daemon talk over a stream socket. Both
sides are single-threaded: an executor polls sockets and timers and runs
callbacks to completion. What makes the system hard is therefore not
preemption but the order of callbacks in *two* processes, with messages in both
directions under way, each side free to complete, drop or lose a channel at any
time.

| Component | State | Operations | Interacts with |
|---|---|---|---|
| Socket framing (`src/common/ipc/pipe/socket_base.*`) | part of a message read so far | `send`, `receiveData` | the kernel; pipes |
| Pipes (`src/common/ipc/pipe/`) | connection state, accepted clients | `start`, `send`, connect, accept, disconnect | framing; routers through `Connected`, `Message`, `Disconnected` events |
| Client router (`src/common/ipc/client_router.cpp`) | `next_tag_`, `map_tag_to_gateway_`, `is_connected_`; per gateway its sequence number and handler | `makeGateway`, `subscribe`, `send`, `complete`, disposal, `handleRouteConnect/ChannelMsg/ChannelEnd`, pipe events | pipe; channels of the SDK |
| Server router (`src/common/ipc/server_router.cpp`) | per client its gateways by tag; factories by service | `registerChannelFactory`, gateway operations, the same handlers | pipe; services |
| Channels (`src/common/ipc/channel.hpp`, `gateway.hpp`) | shared gateway | typed `send`, `complete`, `subscribe` | routers; clients and services |
| Node services (`src/daemon/engine/svc/node/`) | an `Fsm` per channel: node contexts, promises, registers | gather requests, start at the keep-alive end, respond, release, complete, cancel | channels; Cyphal |
| Node clients (`src/sdk/svc/node/`) | collected results, receiver | `submit`, input, completion | channels; SDK users |
| Relay services and clients (`.../svc/relay/`) | `Fsm`: Cyphal client, publisher or subscriber and promise; object: one payload, one receiver | create, configure, call, publish, receive, complete | channels; Cyphal; SDK users |
| File provider (`src/daemon/engine/cyphal/file_provider.cpp`) | `roots_` | push, pop, list, `GetInfo`, `Read` | configuration; nodes |
| File server services and clients (`.../svc/file_server/`) | `items_` of a listing | list, pop, push | channels; file provider |
| Configuration (`src/daemon/engine/config.cpp`) | settings, dirty flag, file | getters, setters, `save` | engine; file provider |
| Engine and process (`src/daemon/engine/engine.cpp`, `src/daemon/main.cpp`, `init.d/ocvsmd`) | all of the above; `g_running`, PID file and lock, pipe to the original process | daemonize, start, run loop, signals, exit; `start`, `stop`, `restart` | everything; the user |
| Senders (`include/ocvsmd/sdk/execution.hpp`, `include/ocvsmd/platform/defines.hpp`) | result slot | `sync_wait`, `then`, `just`, `submit`, `waitPollingUntil` | SDK users; executors |
| Executors (`include/ocvsmd/platform/`) | nodes, `total_awaitables_`, the kernel's list | register, move and destroy a callback; poll | the kernel; pipes |
| Socket addresses (`src/common/io/socket_address.cpp`) | an address | `parse`, `socket`, `bind`, `connect`, `accept` | pipes; configuration |
| Command line tool (`src/cli/main.cpp`) | a scenario and its object | ten scenarios | the SDK |

Also present, without state that others depend on: media adapters and logging.

**What makes each part correct.** *Framing*: the router gets exactly the payloads
sent, however the kernel cuts the stream. *Routers*: order and at-most-once
delivery per channel, one factory call per channel, one end per owner and
nothing after it, agreement of both sides when the connection is quiet, nobody
waits for ever on a peer that is gone. *Requests to nodes*: one entry per
requested node (per node that has registers, for a listing), all registers in
order, the channel completed once and by the last node. *Relay*: answers reach the
operation they belong to, with the priority in force; a subscriber's results are in
order, and skip only messages that came when nobody was receiving. *File server*: no client's root vanishes with another's pop,
roots and unique id survive restarts. *Senders*: one result per wait, the first,
no later than the deadline, and nobody is called back after he is gone.
*Executors*: what the kernel hands back is a live callback for that very
descriptor, and every ready descriptor is served. *Process*: exit codes and the
PID file tell the truth, one daemon serves the address, signals stop it.
*Addresses*: a string means what it spells, or is refused.

**Where it is hard to test.** Crossing ends; messages for a tag that the peer has
just released; a first message whose write failed; a handshake interrupted by a
disconnection; partial reads and short writes; calls that fail inside the loop
that starts them; responses in any order; a second operation on an object with
room for one; roots that change between two chunks; a crash between a change
and the save; an answer around the deadline of a wait; a descriptor number that is
used again within one turn of the executor; a daemon that dies between its fork and
its report; a SIGTERM just before a poll. These are the hazards of `PROJECT.json`, each at its
line with the properties that would catch it, or with a note why none does.

## 2. Modules

```
SocketFraming            bytes of one direction of a socket (justifies SocketPipe)
SocketAddress            parsing of connection strings
  SocketProofs           what is delivered, whole and torn; addresses; of both (TLAPS)

SocketPipe               connections and whole messages
  ClientRouter           client side gateways and route messages
  ServerRouter           server side gateways and route messages
    IpcSystem            both, composed; properties; refinement of
      ChannelContract    what a channel promises its two owners
      IpcInductive       the inductive invariants
        IpcProofs        types, order, silence, the refinement of ChannelContract,
                         ends, handshake, agreement (TLAPS)
        MCIpc            for TLC

NodeRequests             SDK client + Fsm of exec / list / access
  NodeRequestsProofs     reports, and the loop over the nodes (TLAPS)
Relay                    SDK object + Fsm of rpc / publish / subscribe
  RelayProofs            answers and priorities (TLAPS)
FileServer               file provider, configuration, process, clients
  FileServerProofs       copies, listings, downloads, restarts (TLAPS)
  MCFileServer           for TLC

Senders                  sync_wait and the receivers it leaves behind
  Cli                    the scenarios of the command line tool, as its program
    CliProofs            the safety properties of both (TLAPS)
    MCCli                for TLC
Executor                 nodes of the two executors, sockets, the kernel's list
  ExecutorProofs         the bookkeeping, and callbacks on their own (TLAPS)
Daemonize                launches, originals, PID file, address, init script
  DaemonizeProofs        the invariant and the safety properties (TLAPS)
```

### SocketFraming

One direction of the stream. A byte is a record of its message and its place in
it. `Send` announces a message of two fragments, `WriteFragment` is one `::send`
of header or fragment: the kernel takes all, a part, or nothing, and the code
only looks for an error (a part taken is reported as success: the message is in
`torn`). `Receive` is one turn of `receiveData`: at most the bytes missing of the
current part, in any portion; `HeaderRead` checks signature and size and either
goes on to the payload or closes. Abstraction: the signature does not occur
within payloads.

### SocketPipe, ClientRouter, ServerRouter, IpcSystem

The state of a client's connection at both ends (`cpipe`, `spipe`), a queue of
whole messages in each direction (`c2s`, `s2c`), and `daemon_up`. `ClientPipeSend`
and `ServerPipeSend` write a message or fail (`SendMayFail`); a disconnection drops
what is unread at the closing end; an exit of a process ends everything it owned.

`ClientRouter` has `next_tag`, `is_connected`, the registered gateways `cgateways`
(`map_tag_to_gateway_`), those whose owner still holds them (`calive`), the
subscribed ones and `cseq` (`next_sequence_`). Its actions are `MakeGateway`,
`Subscribe`, `ClientSend`, `ClientComplete`, `ClientDispose` for the owner and one
action per route message and pipe event. `ServerRouter` mirrors it;
`handleRouteChannelMsg` is split along its early returns into `ServerDeliverMsg`
(known tag), `ServerOpenChannel` (message 0 for a registered service: factory, and
the typed channel may decline) and `ServerIgnoreMsg`. `clog`/`slog` (messages handed
to the owners), `cdone`/`sdone` (their terminal completions) and `cfinal`/`sfinal`
(the first terminal end an owner wrote), `cnotified`, `clossy`/`slossy` are history.

`IpcSystem` composes them: every step of one side leaves the other's router alone.
Owners and services are unconstrained: they may call any operation of their
gateway at any time.

`ChannelContract` is the abstract specification: a channel is opened once on
either side, on the daemon side only by its first message; each side is handed
the other's messages in order, each at most once; a closed end stays closed and
is handed nothing. `IpcSystem!ImplementsContract` is the refinement.

### NodeRequests

One request from `submit` to its result. `buildRequests` splits ids (and registers)
into messages as the clients do; `Submit` writes them and the keep-alive end, and
stops at the first failing write with the result that makes; `RefuseLongKey` is a
request the facade answers itself, without a channel. In the daemon,
`ServiceInput` gathers, `ServiceStarts` handles the keep-alive end,
`MakeCyRpcClient` is one turn of its loop over the nodes (a turn of its own so that
the properties see the Fsm between turns; nothing else of the Fsm is enabled until
the loop is over), `NodeResponds` a promise that resolves, `Work` sends answers,
starts the next call of the node or releases its context, and the last release
completes. The channel is taken from the contract that `IpcSystem` implements.

### Relay

Creation, then operations on the object: `Start` is `rawCall()`/`publish()` (it
overwrites the one payload), `SubmitOperation` the `submit` of its sender (it
overwrites the one receiver and sends), `SubmitReceive` that of a subscriber's
receive. In the daemon `ServiceCreate`, `ServiceConfig`, `ServiceCall` (replaces the
promise), `ServicePublish`, `PromiseResolves`, `NodeMessage`, and the end of the
channel. A message of the subject that reaches the client while no receive operation awaits
one is handed to a receiver that already has its result, or to none, and is lost to the
user; `missed` is the history of these.

### FileServer

Several runs of the daemon process over one configuration file. `Start` reads the
file, makes and saves a unique id if there is none, and fails without IPC
connections; `Exit` saves if dirty, `Crash` does not; `save` may fail on the disk and
then leaves a truncated file. Requests of SDK users are served in any order. A
node downloads with `serveGetInfoRequest` and then one `serveReadRequest` per chunk,
each resolving the path anew under the roots of that moment. `popRoot` follows the
code to the letter: for `back` and a path that is not listed, `ServePopUndefined`
chooses among what erasing `begin() - 1` can do. `Listed` is the list without the
roots that are too long: its n-th element is at the n-th place that fits (`Place`).

### Senders and Cli

`Senders` is the thread of a program that submits one sender after the other and
waits with `sync_wait`. `Submit` gives the receiver away and starts the timer;
`Check`, `RunTimer`, `RunSocket`, `SpinEnds`, `Poll` are the turns of
`waitPollingUntil`; `PollReports`, `PollElapses` and `PollInterrupted` are the three
ways out of a poll; `Return` destroys the sender. Callbacks that are due run in the
order of their times, so the model keeps whether the socket was reported before or
after the deadline (`ready`). A request owns its channel, which goes with the sender;
a subscriber, publisher or RPC client is an object that keeps its receiver, and the
lambdas of `AsSender` and `ThenSender` in it refer to the destroyed sender: it is then
`stale`, and calling it sets `touched`. The daemon observes messages of the subscriber's
subject at any time: `Publish` forwards one, `PublishFails` is the write that fails (for
want of room or otherwise), which the daemon only logs; the message is then in `lost`. Time is counted down; `Resolution` and `Second`
are the milliseconds of a poll and its longest duration.

`Cli` is the program: ten scenarios in the order of `main`, each the list of senders
it waits for (`SendersOf`), where it gives up (`GivesUp`), its loop, and its object,
which goes with the scenario. It composes with `Senders` by extending it: every
step is one of `Senders` or one between two operations.

### Executor

The nodes (`AwaitableNode`) of the epoll and of the kqueue executor, each named by the
variable that holds it: `ex.node` says which descriptor (and filter) it watches,
`ex.list` is the kernel's list with the address it was given, `ex.total` is
`total_awaitables_`. `Setup`, `Moved` and `Destroyed` are the member functions,
`Registered` the way from the local variable into the holder, `Assigned` the
replacement of a callback. The actions are the callbacks of `SocketServer` and
`SocketClient`, one `Poll` that schedules at most `MaxEvents` nodes, and the outside:
peers that connect, write and close. `PollFails` is a poll that is interrupted or fails: it
schedules nothing. `ex.timer` says whether the process always has a timer due within the
second; kqueue's polls succeed only then (`TimeoutIsValid`). A closed descriptor's number is given out again
at once, the lowest free one first. `pending` is level-triggered.

### Daemonize

Launches of the program, by hand (with or without `--no-daemon`) or by the init
script. `pc[l]` follows the daemon through opening, locking and writing the PID file,
`Engine::init` and the run loop; `orig[l]` is the original process at its pipe. A file
and its name are different things: the script removes the name, the lock stays with
the file. `Dies` is what the kernel does for any process that ends: lock, socket and
pipe are released, the PID file stays, and of a `unix:` address the socket file too
(`stays`). Every step may fail (`StepFails`), every process may crash at any moment, the
original's read may be interrupted, and a write to a pipe without a reader kills
(`NotifyKills`). An exception that `main` catches before the report is, to the original, a
crash: it writes nothing. `restart` is `stop` and `start` without waiting, as in the script.

### SocketAddress

The state is a connection string, a sequence of tokens that grows; the operators keep
the names of the functions that parse it. The result keeps what matters: family, host
and port, or the bytes of `sun_path` and how far they were written. The two library functions
are modelled by what they do with such texts: `inet_pton` takes an IPv4 address (one token) or
IPv6 text (`IsIp6`: groups, one `::`, an IPv4 address at the end), and `strtoull` with base 0
(`IsNumber`, `Number`) skips blanks, takes a sign and decimal, octal or hexadecimal digits,
wraps negative numbers and stops at its limit. There are two references. `Readings` are
all ways to cut a text at a colon (`Cuts`) into a host, bare or in brackets, and a port; those that
make sense have to agree, and to agree with `parse`. `DocumentedAsWritten` is independent of
`strtoull`: a host of the documented forms with a port as it is printed in decimal gives
that host and that port.

## 3. Runs

| Run | Instance | States | Shows |
|---|---|---|---|
| `ipc_lossy` | 1 client, 1 tag, 2 messages each way, 2 in flight, one error, failing writes | 385k | `IpcEndInv`, `InOrder`, `EndErrorIsPeers`, `SilentAfterEnd`, `ImplementsContract` |
| `ipc_live` | 1 client, 2 tags, one for a service nobody registered, healthy writes, fair | 16k | `ConnectedNotified`, `QuietAgreement`, `HandshakeCompletes`, `ServiceIsReleased`, `ClientIsReleased` |
| `ipc_broadcast` | as above, 1 tag | – | violation of `DisconnectIsBroadcast` |
| `node_requests` | the 3 services, 2 nodes, spans of up to 3 ids (2 for registers) with repetitions, 2 ids per message, up to 2 registers, failing writes | 255k | `ReportIsComplete`, `LoopOnLiveFsm`, `Resolves`, `Abandoned` |
| `framing` | 3 messages of two fragments of 1 or 2 bytes, 5 byte buffer, payload limit 3 | 123k | `DeliversWhatWasSent`, `TearIsContained`, `EverythingArrives` |
| `relay` | the 3 services, 3 operations one at a time, 3 messages, 2 priorities, failing writes | 110k | `OwnAnswerOnce`, `PriorityInForce`, `Resolves` |
| `file_server` | 2 roots and a too long one, 2 requests, 2 starts, 1 fault, files of 3 and 2 bytes in chunks of 2 | 625k | `ListIsSnapshot`, `CopiesAreCounted`, `DownloadIsWhole`, `RootsAreRestored`, `Resolves` |
| `file_pop` | 1 request | – | violation of `PopOfMissingDoesNothing` |
| `cli` | the ten scenarios in the order of `main`, 3 messages of which the daemon may fail to forward any, timeouts of 3, loops of 5, polls of at most 2 units with a resolution of 2 | 13k | `InTimeWins`, `SleepsOnPurpose`, `NoStaleReceiver`, `PrintsEveryMessage`, `Terminates` |
| `executor` | both executors, 4 descriptors, 3 connections accepted, 2 events per poll, a backlog of 1, with and without a timer, failing polls | 97k | `BookkeepingIsExact`, `RunsOnItsOwn`, `Served` |
| `daemonize` | 2 launches, both kinds of address | 497k | `ExitCodeIsTrue`, `PidFileNamesHolder`, `OneServes`, `TermStops`, `OriginalExits` |
| `addresses` | up to 6 tokens after the prefix, `sun_path` of 5, ports up to 70, numbers up to 79 | 4.1M | `ReadsAsWritten`, `FitsInSunPath` |

Type invariants are parts of other invariants: of `IpcEndInv`, `LoopOnLiveFsm`,
`TearIsContained`, `PriorityInForce`, `CopiesAreCounted`, `BookkeepingIsExact`, and of
`DaemonInv` and `CliInv` in the proofs.

**Why the bounds are enough.** Order and duplication need two messages; crossing
ends need one message in each direction. The theorems hold for any number. Channels share
nothing but their connection, so a second tag shows every interference there is.
Clients share nothing but the daemon; that they do not disturb each other's order is
proved for any number of them. With two ids per message, three
ids make two messages, a full and a partial one; two nodes are enough for every
order of release, two registers for the first, a middle and the terminating call. A
five byte socket holds one message and the header of the next, so fragments are cut
at every place; payloads of 2, 3 and 4 bytes lie around the limit of 3. Files of 3
and 2 bytes end in the middle and at the end of a chunk; two starts have one restart
between them. A timeout of 3 with a resolution of 2 leaves a remainder that is not a
whole number of milliseconds, and is longer than the longest poll; a loop of 5 has
room for three receives. Four descriptors hold the listening socket, the client's
and two connections: the third accept meets a full table or a number that was used
before; with two events in a poll some ready descriptor always waits. Two launches
meet at the address, at the lock of one file and, with the script's `rm`, at two
files of one name; the safety properties are proved for any number. Ports up to
70 have one and two digits on either side of the limit, with octal ones between; with numbers
up to 79 those of three digits stop at the limit of `strtoull`, and of the negative ones some
wrap to a port and some to more;
paths of 3, 4 and 5 tokens lie around a `sun_path` of 5.

**Fairness.** Both executors poll level-triggered descriptors and run what is ready,
so a pending connection, message or end of stream is handled: weak fairness of the
receive, accept, connect and lose-pipe actions. `Executor!Served` is that very claim,
derived from the fairness of polling and of running what is due alone, and from the
kernel's habit of putting what it reported at the end of its list (`ex.turn`). Polls may be
interrupted or fail any number of times, but one that can succeed does so in the end: any of
epoll, and of kqueue one in a process with a timer within the second. For kqueue without such
a timer nothing is claimed, and nothing holds (see below). A Cyphal
promise is resolved by its deadline at the latest. In `Cli` the program's own steps are
weakly fair and the clock strongly: interrupted polls may come again and again, but
time passes. In `Daemonize` the kernel runs every process. Nothing is assumed of users,
services or the network: deadlock is not checked because a system whose users
do nothing more, or whose bounds are used up, rightly stops.

**Failing writes.** Where the code ignores a failing write (`std::ignore` or a log
line), the liveness properties and some reports except it explicitly (`write_lost`,
`lost`) or are checked with healthy writes (`ipc_live`): the peer then does wait for
ever, and that is a limit of the code.

### Where the code departs from its texts

- `DisconnectIsBroadcast`: a pipe that goes down before the `RouteConnect` reply is
  not announced to the gateways that wait (`client_router.cpp:374` against `:44`).
- `PopOfMissingDoesNothing`: `popRoot` with `back` and an unlisted path erases
  `begin() - 1` (`file_provider.cpp:146` against `include/ocvsmd/sdk/file_server.hpp:55`).

The following were met while modelling. The models follow the code, and the
properties say what is left of the promise.

- A request for no nodes sends nothing, so its completion is not sent either
  (`client_router.cpp:184`), and no result comes: `node_command_client.hpp:70` says
  "Result will be available when the last response has arrived, or the timeout has
  expired." `NodeRequests!Resolves` excepts the empty request.
- A node that stops answering in the middle of its register list is reported as a
  success with a truncated list, because `emplace` keeps the entry that is there
  (`list_registers_client.cpp:109`); `node_registry_client.hpp:47` says that missing nodes
  "are included in the map with ETIMEDOUT code". `ReportIsComplete` speaks of nodes
  without a failed call.
- A node that answers and has no registers sends no list, so it gets no entry
  (entries are made for responses only, `list_registers_client.cpp:99`), against the same two lines; the
  listing of that one node fails with `NoEntry`. `ReportIsComplete` says that these nodes, and
  no other requested ones, are left out.
- Two pending raw calls share one payload and one receiver (`raw_rpc_client.cpp:118`):
  a receiver can get the answer to the other call. `node_rpc_client.hpp:63` documents
  that only one operation is active at a time, and `Relay.cfg` has `Concurrent = FALSE`;
  with `TRUE`, `OwnAnswerOnce` fails. The hazards at these lines are therefore noted as not covered.
- A subscriber has one receiver and no queue: a message that comes between a result and
  the next receive operation is lost, as `node_pub_sub.hpp:135` warns. A message whose write to the
  client fails is lost too (`raw_subscriber_service.cpp:182` logs it), so the command line tool can
  print the first message and then the third. `OwnAnswerOnce` and `PrintsEveryMessage` allow these
  gaps, and no others.
- `docs/ipc_design.md:328` says that destroying a channel tells the peer "`Cancelled`
  error"; `onGatewayDisposal` posts the gateway's completion error, which is empty
  unless the owner completed with one.
- `AsSender` (`client_helpers.hpp:53`) and `ThenSender` (`execution.hpp:245`) capture `this`
  in a receiver that outlives them in a relay object. `NoStaleReceiver` holds of the
  command line tool because it drops its object before it waits for anything else; a
  program that waits for something else after a timed out `receive` does not have it.
- `init.d/ocvsmd:19` takes the PID file for a running daemon: after a crash, or an exit by
  a signal that the script did not send, `start` says "is already running." and does
  nothing. `restart` does not wait for the old daemon, which may still hold the address.
- The socket file of a `unix:` address is never unlinked, so the next daemon's `bind`
  fails (`stays`); the default address is abstract.
- SIGPIPE is not handled: if the original process was interrupted and has exited,
  `step_14_notify_init_complete` kills the daemon (`main.cpp:228`); if it is interrupted and
  has not exited yet, the daemon serves although the exit code is a failure.
- The kqueue executor puts the whole timeout into `tv_nsec`
  (`kqueue_single_threaded_executor.hpp:98`). The loops of daemon and SDK poll for a second
  (`engine.cpp:176`, `defines.hpp:54`) unless a timer is due before: `tv_nsec` is then 10^9, `kevent`
  refuses it (EINVAL), and nothing is scheduled. A process without a timer within the second is
  never served. `Served` is claimed where `TimeoutIsValid`.
- Addresses that no text documents are accepted: `[*]`, a host with a colon and no port, and
  ports that are octal, hexadecimal, signed or have blanks in front; a negative one is taken
  modulo 2^64 (`socket_address.cpp:502`). `ReadsAsWritten` says what each of them means.
- `unix:` with an empty path gives the same address as an abstract one with an empty
  name.

## 4. Proofs

TLC shows a property of the instances in the table above; the theorems hold for every
value of the constants that satisfies the assumptions named with them.

| Module | Theorem | States | Assumes |
|---|---|---|---|
| `SocketProofs` | `FramingInvariant` | `[]FramingInv` | `FramingAssumption` |
| | `PayloadsAsSent`, `TearsAreContained` | `[]DeliversWhatWasSent`, `[]TearIsContained` | |
| | `AddressesFit`, `TcpStringsAreCutAsWritten` | `[]FitsInSunPath`, `[]TcpStringsAreCut` | `AddressAssumption` |
| `IpcProofs` | `TypeCorrect` | `[]TypeOK` | `PipeAssumption` |
| | `InvHolds` | `[]IpcInv` | |
| | `DeliveryInOrder`, `SilenceAfterEnd` | `[]InOrder`, `SilentAfterEnd` | |
| | `IpcImplementsContract` | `ImplementsContract` | |
| | `EndInvHolds` | `[]IpcEndInv` | |
| | `EndErrors`, `ConnectedIsTold`, `RoutersAgree` | `[]EndErrorIsPeers`, `[]ConnectedNotified`, `[]QuietAgreement` | |
| `NodeRequestsProofs` | `RequestInvariant` | `[]RequestInv` | `NodeAssumption` |
| | `ReportsAreComplete`, `LoopsOnLiveFsm` | `[]ReportIsComplete`, `[]LoopOnLiveFsm` | |
| `RelayProofs` | `RelayInvariant` | `[]RelayInv` | `RelayAssumption`, `Concurrent = FALSE` |
| | `PriorityIsInForce`, `AnswersAreOwn` | `[]PriorityInForce`, `[]OwnAnswerOnce` | |
| `FileServerProofs` | `FileServerInvariant` | `[]FileServerInv` | `FileServerAssumption` |
| | `EveryCopyIsCounted`, `ListsAreSnapshots`, `DownloadsAreWhole` | `[]CopiesAreCounted`, `[]ListIsSnapshot`, `[]DownloadIsWhole` | |
| | `RootsComeBack` | `RootsAreRestored` | |
| `CliProofs` | `CliInvariant` | `[]CliInv` | the assumptions of `Senders` and `Cli` |
| | `PollsOnPurpose`, `TimelyAnswerWins` | `[]SleepsOnPurpose`, `[]InTimeWins` | |
| | `ReceiversAreLive`, `EveryMessageIsPrinted` | `[]NoStaleReceiver`, `[]PrintsEveryMessage` | |
| `ExecutorProofs` | `ExecutorInvariant` | `[]ExecutorInv` | `ExecutorAssumption` |
| | `BooksAreExact`, `CallbacksRunOnTheirOwn` | `[]BookkeepingIsExact`, `[]RunsOnItsOwn` | |
| `DaemonizeProofs` | `DaemonInvariant` | `[]DaemonInv` | `DaemonizeAssumption` |
| | `ExitCodesAreTrue`, `PidFilesNameHolders`, `AtMostOneServes` | `[]ExitCodeIsTrue`, `[]PidFileNamesHolder`, `[]OneServes` | |

The assumptions are the types of the constants, with one exception, that of the relay.
Every proof has the same shape: an inductive invariant, one lemma per conjunct (or
per group of actions) that a step keeps it, and the property as a consequence.

### Framing

For any number of messages and lengths of fragments, any capacity of the socket's buffer and
any limit on payloads.

Both properties speak about delivered payloads. The invariant is about the bytes on their
way: `Stream` is what the reader has of the current part followed by what is in the socket,
with the size byte of the header in front of a payload, so that one formula, `Flow`, covers both
parts. In it the bytes rise by message and place (`Rising`), a message that is not torn goes on byte
by byte up to its end (`Runs`) or up to the byte that the writer writes next (`Reached`), and without
torn messages one message follows another (`Gapless`). `Runs` relates any two places,
not neighbours: that makes a payload of any length correct without an induction. Four lemmas
say how the flow changes: it loses its first bytes (`FlowDrops`), gets some of the next ones
(`FlowGrows`; `WritingKeeps` covers a whole, a partial and a refused `::send` and a close in the
middle at once), a message begins (`FlowBegins`), a header is accepted (`FlowTurns`). `Ahead`,
that all bytes to come are later than the last accepted signature, is what keeps deliveries
rising after a tear. `FramingInv` was checked with TLC on the instance of the run `framing`
before it was proved.

### Addresses

For any size of `sun_path`, any largest port and number, any port hint, and strings of any length.

The state is only a string, so the invariant is its type (`StringInv`) and the work is about
operators. `FirstPlace` and `LastPlace` (a bounded set of places has a first and a last one) stand for
the searches of the code: `CStringFacts` says where `c_str()` ends, and `CStringOf` that the
zeros that `strncpy` adds end a path where it ended before.

`TcpStringsAreCut` is the first conjunct of `ReadsAsWritten`: the searches of
`extractFamilyHostAndPort` for a bracket and for colons find the one cut that makes sense, among
all there are. What is found is one of the readings (`ReadsAReading`). Any reading that makes sense
is the one found: its host is `*`, an IPv4 address or IPv6 text, hence has no
bracket, and two colons just if it is IPv6 text (`Ip6Facts`); its port is a number, hence has no
colon and no bracket (`NumberFacts`, `PortText`); so the last bracket and the first colon are where the reading
was cut (`BracketIsRead`, `BareIsRead`). The values of ports are taken from `Number` on both sides, and
nothing is proved about what that fold computes: the second conjunct, `DocumentedAsWritten`, stays
with TLC.

### The IPC layer

For every set of clients, any number of tags, messages, services and errors, and for
failing writes.

`InOrder` speaks about delivered messages only, and is not inductive: a state with
ordered logs and a stale or repeated message in a queue satisfies it and its
successor does not. `IpcInv` adds what is under way:

- `InFlight`: for each channel and direction, the messages in the queue are sorted,
  newer than all those delivered, and older than the next one to be sent (`Sorted`);
  hence popping the head and appending it to the log keeps the log sorted, and a new
  message goes to the end of the queue;
- `ClientMaps`: registered gateways are owned, owned ones were made, and tags not yet
  given out have no history, so that a new gateway starts with sequence 0 and nothing
  under way;
- `ServerMaps`: registered gateways belong to known clients and have been handed
  message 0; a channel without one has no history. With `Sorted` this makes a second
  opening of a channel impossible: a message 0 in the queue implies an empty log;
- `EndsUnregistered`: an end that was told it is over is not registered, which is what
  makes `SilentAfterEnd` a consequence: handlers deliver to registered gateways only.

The argument is one lemma per action group and conjunct (`SortedSend`, `FlowRead`,
`FlowDeliver`, ... say what a write, a read and a close do to a queue), put together in `InvStep`.

*The contract.* The end of `IpcProofs` shows that each step of `IpcSystem` is, under the
refinement mapping, a step of `ChannelContract` or changes none of its variables. The
delivering steps are the ones that need `IpcInv`: the message handed over is newer than
the log (`InFlight`) and the channel is not closed (`EndsUnregistered`); an opening on
the daemon's side finds the channel unused (`ServerMaps`).

*Ends.* `EndErrorIsPeers`, `ConnectedNotified` and `QuietAgreement` need more than `IpcInv`:
what is known of a peer that has *not* been heard yet. `IpcEndInv` adds the handshake
(`Handshake`, `SentAfterHandshake`), that the first terminal end in a queue carries the
error its writer wrote first as long as the reader may still take it (`EndsToClient`,
`EndsToServer`), that a channel is opened before it is ended (`FirstThenEnd`), and that a
used channel that one side no longer has was ended by one of the two
(`UnregisteredIsEnded`). The run `ipc_lossy` checks `IpcEndInv` too.

### Requests to nodes

For any set of nodes, any span of ids with repetitions, any number of registers and ids per
message, any call or write that fails, and any disconnection.

`ReportIsComplete` speaks about a successful result: an entry for each requested node but those
that answered and have no registers. The result comes from entries collected from answers that
came from calls made by contexts that were gathered from messages. `RequestInv` has one part for
each of these:

- `Requesting`: the Fsm has read the first `p` of the messages that the client writes, the next
  `q` are in the queue, and behind them can only be the end of the channel. Its scope and its
  count of registers are those of the first `p` messages (`ScopeOf`, `RegistersOf`). When the
  keep-alive end is read, all messages were, and the scope is the whole span: every place of it is in
  one of the pieces (`Pieces`, `ChunkFacts`: rounding up loses no id);
- `Contexts`: while the Fsm works, each of its contexts is either still to come in the loop or
  waits for a promise, and not both; a released Fsm has none. A turn of the loop, failing at
  once or not, releases its own context at most, so those to come keep the Fsm alive: that is
  `LoopOnLiveFsm`;
- `Replies`: the end is the last message, from a Fsm that is gone;
- `Books`, for each node: there is a number `a` such that the entry the client has holds the
  answers for the first registers, those in the queue the rest up to `a` (`Accounted`), in
  order and the failure behind them (`InOrder`). A context at work has `a` equal to its
  `reg_index`; one that is done has all, or its node failed. It is stated for a client
  that can still get a result and no write of the daemon lost, as the property is.

An answer read moves one register from the queue to the entry (`ReadOfItem`, `ReadOfFailure`,
`ReadOfAnother`). All that the three services do in a response comes to a sequence of
answers and what becomes of the context, and `GoodCall` and `GoodResponse` say what
these have in common; `WorkForNode` is the step of the books that follows from it for all
three at once. A write may fail for any of the answers: `Kept` chooses the places of those that
are written (`KeptFacts`). TLC checked `RequestInv` on the instance of the run `node_requests` first.

### The relay

For any number of operations, messages and priorities, any write that fails and any
disconnection, with one operation at a time: `Concurrent = FALSE` is what
`node_pub_sub.hpp:47` ("only one operation can be active at a time") and
`node_rpc_client.hpp:63` ask of the caller, and without it `OwnAnswerOnce` is false.

`OwnAnswerOnce` is about reports that receivers got; `RelayInv` follows the operation on
its way. `OneAtATime` and `OneUnderWay`: at most one operation has no report, it is in one
place only (in the queue to the daemon, a promise, or the queue back), and that is the
one whose receiver the object holds. `PriorityUnderWay`: reading the queue to the daemon from the
current priority on sets, before each operation, the priority it was submitted with
(`Sets`). `Forwarded` follows the messages of a subject: those that came to the
subscriber (`Came`: the result of an operation, or missed) are older than those on their way, which
rise, and unless a write was lost the two together are all that the daemon observed. That the
results of successive operations rise needs that operations get their first report in turn
(`InTurn`), and that the first thing the client reads is the reply to the creation and no message of
the subject (`Opening`).

### The file server

For any roots, file sizes and chunk size, any finite number of requests, and any number of
starts, exits, crashes and failed writes.

`CopiesAreCounted` compares numbers and is far from inductive: nothing in it says which
requests a copy comes from. `Counted` gives the sets: there are pushes `P` and pops `Q` that
were served such that the copies are those of the beginning, plus one for each of `P`,
less one for each of `Q` (`Balance`); every request whose client may know of its success is in
them, a pop provided that there were copies enough. A pop that finds no copy although
there were enough would make `Q` as large as the number of pops without it. The
bijections behind the counts (`CopiesAppend`, `CopiesPrepend`, `CopiesRemove`) say what a push
and a pop do to the places that hold a root, and `PopTakesOne` that the place that
`popRoot` picks holds the root. `Saved` (the file keeps the roots of the last orderly exit,
and the configuration in memory differs from it only while dirty) carries the count over
restarts and gives `RootsAreRestored`, an action property.

`OneList` extends `ListIsSnapshot` to the messages on their way: the roots taken and those
coming make up one list that there was meanwhile (`Remains`). `ListedReports` shows that
`Listed` is the subsequence of the roots that fit. `ReadSoFar` is about the part of the
file read so far.

### sync_wait and the command line tool

For any scenarios in any order, any timeouts, resolution and number of messages. `CliInv`
ties the turns of `waitPollingUntil` together: when the callback of the socket can be due
(`ReadyInSpin`), where an answer that came in time is until it is the result
(`AnswerInTime`), which sender and objects belong to the scenario (`InScenario`), who holds a
receiver and from when on it is stale (`Receivers`), and which messages are still to be
printed: those on their way, in order, with gaps only where the daemon failed to write one. `NoStaleReceiver` follows because no callback runs while a receiver is stale: the
program is then between two senders, or at the first check of one that already has its
result.

### The executors

For epoll and kqueue, any number of descriptors, connections and events of a poll.

Neither property says why a number that is closed and given out again does no harm.
`ExecutorInv` does: no two holders share a descriptor (`OwnFds`), and a holder has a node
exactly while it has a descriptor, and for that one (`Watches`), so that a free number has no
node and the kernel's list no entry for it. `Agree` and `Turns` are the books: nodes, list,
count, and the order in which the kernel reports, with every entry once; hence what a poll
schedules has a node and is due once (`DueOnce`), and a callback that destroys itself is not due
again. The lemmas go from the inside out: what one change does to the books (`AgreeAdds`,
`AgreeDrops`, `TurnsFacts`), what the member functions of `AwaitableNode` come to (`SetupFacts`,
`MovedFacts`, `DestroyedFacts`), then `RegisteredFacts`, `ConnectFacts` and `GoneFacts`, and one
lemma per callback. `PickedFacts` says that the entries a poll picks by rank are those at the places
reported, once each: ranking places is an injection between sets of the same size. That there is a
lowest free number is the well-foundedness of the naturals (`LeastNatural`). TLC checked
`ExecutorInv` on the instance of the run `executor` first.

### The daemon as a process

For any number of launches, either kind of address, and failing steps, crashes,
signals, interruptions and calls of the script at any moment.

None of the three properties is inductive. `OneServes` says nothing of the address: two
serving daemons are excluded by `OwnsAddress` (an initialized engine *is* the owner, and
`bind` needs an address without one). `PidFileNamesHolder` starts when the id is written;
`OwnsPidFile` adds that the lock is held since `lockf`, so that nobody else can have
written in between, and that files are opened before they are locked. `ExitCodeIsTrue`
speaks about an original that has exited; `PipeTellsTruth` adds what the pipe may hold
before it is read: "init_complete" only after `Engine::init` and never from a daemon that
goes on to fail, an error only from one that is about to exit. There is one lemma per group of
actions (`LaunchStep`, `DiesStep`, `StartsStep`, ...), put together in `DaemonStepInv`.

### Only model-checked

- Every liveness property (`HandshakeCompletes`, `ServiceIsReleased`, `ClientIsReleased`,
  `Resolves`, `Abandoned`, `EverythingArrives`, `Terminates`, `Served`, `TermStops`,
  `OriginalExits`): fairness and ENABLED are out of reach of the proof system.
- What the recursive definitions compute (`Number`, the folds of the community modules): it needs
  an induction over data. The theorems use of them only that equal texts have equal values. For
  this reason `DocumentedAsWritten`, the second conjunct of `ReadsAsWritten`, is only checked.

Every other invariant and every action property of the passing runs is proved.

## 5. Plan

Done: the IPC layer with its contract; framing; requests to nodes; relay; file server with
configuration; senders and the command line tool; executors; the daemon as a process;
addresses; and the proofs of section 4.

Left: of the safety properties only `DocumentedAsWritten`, which stays with TLC like the liveness
properties.

## 6. Not modelled

- Media, transports, the libcyphal adapters (`src/daemon/engine/platform/`,
  `src/daemon/engine/cyphal/*_transport_bag.hpp`): I/O between libcyphal and the network
  interfaces; Cyphal is external and appears as calls that may fail and promises that
  resolve. Their behaviour is that of libcyphal, libudpard and libcanard, which are not
  part of the repository.
- Logging, and `SocketAddress::toString`, which only logging uses.
- Socket options (`TCP_NODELAY`, `IPV6_V6ONLY`).
- Serialization: a message is the value it carries; a payload that does not
  deserialize is a choice of the receiving action.
- Path resolution (`realpath`, symbolic links, `stat`): abstracted to the set of roots
  that hold the file.
- Widths: tags and sequence numbers have 64 bits and do not wrap in practice; the
  16 bits of `reg_index` in `ListRegistersService` are those of the Cyphal request.
