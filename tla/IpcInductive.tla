---------------------------- MODULE IpcInductive ----------------------------
(***************************************************************************)
(* The inductive invariants behind the safety properties of IpcSystem,     *)
(* checked by TLC as invariants and proved for every instance. IpcInv says *)
(* how the messages under way fit what was sent and delivered; IpcEndInv   *)
(* adds how connect replies, first messages and ends fit what each router  *)
(* knows of its peer. Module IpcProofs holds both proofs.                  *)
(***************************************************************************)
EXTENDS IpcSystem

\* The gateway of the channel has been made at some time.
Made(ch) == ch[2] < next_tag[ch[1]]

\* What the client router keeps agrees with the gateways that exist.
ClientMaps ==
    /\ cgateways \subseteq calive /\ csubscribed \subseteq calive
    /\ \A ch \in calive : Made(ch)
    /\ \A ch \in Chan : ~Made(ch) =>
            cseq[ch] = 0 /\ clog[ch] = << >> /\ cdone[ch] = << >>

\* What the server router keeps agrees with the gateways that exist.
ServerMaps ==
    /\ sgateways \subseteq salive
    /\ \A ch \in sgateways : ch[1] \in sclients
    /\ \A ch \in salive : slog[ch] # << >>
    /\ \A ch \in Chan : slog[ch] = << >> => sseq[ch] = 0 /\ sdone[ch] = << >>

\* The messages in a queue that belong to the channel with this tag are sorted,
\* newer than those in log and older than the next one to be sent.
Sorted(queue, tag, log, next) ==
    /\ \A i \in 1 .. Len(queue) :
            queue[i].kind = "msg" /\ queue[i].tag = tag =>
                /\ queue[i].sequence < next
                /\ \A k \in 1 .. Len(log) : log[k] < queue[i].sequence
    /\ \A i, j \in 1 .. Len(queue) :
            /\ i < j
            /\ queue[i].kind = "msg" /\ queue[i].tag = tag
            /\ queue[j].kind = "msg" /\ queue[j].tag = tag
            => queue[i].sequence < queue[j].sequence
    /\ \A k \in 1 .. Len(log) : log[k] < next

\* What is in flight on every channel in one direction.
Flow(queue, log, next) ==
    \A ch \in Chan : Sorted(queue[ch[1]], ch[2], log[ch], next[ch])

InFlight == Flow(c2s, slog, cseq) /\ Flow(s2c, clog, sseq)

\* An end that was told it is over is not registered any more.
EndsUnregistered ==
    \A ch \in Chan :
        /\ cdone[ch] # << >> => ch \notin cgateways
        /\ sdone[ch] # << >> => ch \notin sgateways

\* The inductive invariant behind the order of the messages and the contract.
IpcInv == TypeOK /\ ClientMaps /\ ServerMaps /\ InFlight /\ EndsUnregistered /\ InOrder

-----------------------------------------------------------------------------
(***************************************************************************)
(* What is needed besides for the ends of channels.                        *)
(***************************************************************************)

\* The messages that close the channel with this tag, and that open it.
Terminal(m, tag) == m.kind = "end" /\ m.tag = tag /\ ~m.keep_alive

First(m, tag) == m.kind = "msg" /\ m.tag = tag /\ m.sequence = 0

Ended(queue, tag) == \E i \in 1 .. Len(queue) : Terminal(queue[i], tag)

Opening(queue, tag) == \E i \in 1 .. Len(queue) : First(queue[i], tag)

\* The RouteConnect reply is in the queue.
Replied(queue) == \E i \in 1 .. Len(queue) : queue[i].kind = "connect"

\* A terminal end is in the queue if one was written, and the first one in it
\* has the error of the first one that was written.
EndsAgree(queue, tag, final) ==
    /\ Ended(queue, tag) <=> final # "no"
    /\ \A i \in 1 .. Len(queue) :
            Terminal(queue[i], tag) /\ (\A j \in 1 .. i - 1 : ~Terminal(queue[j], tag))
                => dsdlErrorToOptError(queue[i].error) = final

\* How far the handshake of a connection has come on its two sides.
Handshake ==
    \A c \in Clients :
        /\ cpipe[c] = "off" => spipe[c] = "none"
        /\ c \in sclients => spipe[c] = "up"
        /\ is_connected[c] => cpipe[c] = "up"
        /\ is_connected[c] \/ Replied(s2c[c]) => c \in sclients \/ spipe[c] = "down"

\* The client sends messages after the handshake only.
SentAfterHandshake ==
    \A ch \in Chan : cseq[ch] > 0 =>
        /\ ch[1] \in sclients \/ spipe[ch[1]] = "down"
        /\ is_connected[ch[1]] \/ cpipe[ch[1]] \in {"down", "exited"}

\* Ends on their way to a client that has not been told of the end.
EndsToClient ==
    \A ch \in Chan :
        /\ (Made(ch) => ch \in cgateways) /\ cpipe[ch[1]] \notin {"down", "exited"}
            => EndsAgree(s2c[ch[1]], ch[2], sfinal[ch])
        /\ slog[ch] = << >> => sfinal[ch] = "no"

\* Ends on their way to a service that has not been told of the end.
EndsToServer ==
    \A ch \in Chan :
        /\ (cseq[ch] = 0 \/ Opening(c2s[ch[1]], ch[2]) \/ ch \in sgateways)
                /\ spipe[ch[1]] # "down"
            => EndsAgree(c2s[ch[1]], ch[2], cfinal[ch])
        /\ cseq[ch] = 0 => cfinal[ch] = "no"

\* The message that opens a channel is for its service, and comes before the end.
OpensThenEnds(queue, tag, service) ==
    \A i, j \in 1 .. Len(queue) :
        First(queue[i], tag) =>
            queue[i].service = service /\ (Terminal(queue[j], tag) => i < j)

\* So it is in what the daemon will read.
FirstThenEnd == \A ch \in Chan : OpensThenEnds(c2s[ch[1]], ch[2], ServiceOf[ch[2]])

\* A used channel that one side has unregistered was ended by one of the two.
UnregisteredIsEnded ==
    \A ch \in Chan \ (clossy \cup slossy) : cseq[ch] > 0 =>
        /\ ch \notin cgateways /\ is_connected[ch[1]] => sfinal[ch] # "no" \/ cfinal[ch] # "no"
        /\ /\ ch \notin sgateways /\ ch[1] \in sclients
           /\ ~Opening(c2s[ch[1]], ch[2]) /\ ServiceOf[ch[2]] \in Registered
           => sfinal[ch] # "no" \/ cfinal[ch] # "no"

\* The inductive invariant behind the ends of the channels.
IpcEndInv ==
    /\ IpcInv /\ Handshake /\ SentAfterHandshake /\ EndsToClient /\ EndsToServer
    /\ FirstThenEnd /\ UnregisteredIsEnded /\ EndErrorIsPeers /\ ConnectedNotified
=============================================================================
