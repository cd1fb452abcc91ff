-------------------------- MODULE ChannelContract ---------------------------
(***************************************************************************)
(* What the IPC promises to the two owners of a channel, without routers,  *)
(* sockets or processes:                                                   *)
(*   - a channel is opened at most once on either side, and on the daemon  *)
(*     side only by the very first message the client sent on it;          *)
(*   - each side is handed messages the other one sent, in the order they  *)
(*     were sent and each at most once (some may be missing);              *)
(*   - a closed end stays closed and is handed nothing more.               *)
(***************************************************************************)
EXTENDS Naturals, Sequences

CONSTANTS Channels, MaxSeq

VARIABLES
    client,    \* channel -> state of its client end
    server,    \* channel -> state of its server end
    sent,      \* channel -> number of messages the client sent
    replied,   \* channel -> number of messages the service sent
    served,    \* channel -> messages handed to the service
    received   \* channel -> messages handed to the client

vars == << client, server, sent, replied, served, received >>

EndStates == { "unused", "open", "closed" }

Init ==
    /\ client = [ ch \in Channels |-> "unused" ]
    /\ server = [ ch \in Channels |-> "unused" ]
    /\ sent = [ ch \in Channels |-> 0 ]
    /\ replied = [ ch \in Channels |-> 0 ]
    /\ served = [ ch \in Channels |-> << >> ]
    /\ received = [ ch \in Channels |-> << >> ]

\* n is a message that may follow the ones in log when count were sent.
MayFollow(n, log, count) ==
    /\ n < count
    /\ \A i \in 1 .. Len(log) : log[i] < n

Open(ch) ==
    /\ client[ch] = "unused"
    /\ client' = [ client EXCEPT ![ch] = "open" ]
    /\ UNCHANGED << server, sent, replied, served, received >>

Send(ch) ==
    /\ client[ch] = "open"
    /\ sent' = [ sent EXCEPT ![ch] = @ + 1 ]
    /\ UNCHANGED << client, server, replied, served, received >>

\* The service takes the first message; it may decline the channel at once.
Serve(ch, taken) ==
    /\ server[ch] = "unused" /\ sent[ch] > 0
    /\ server' = [ server EXCEPT ![ch] = IF taken THEN "open" ELSE "closed" ]
    /\ served' = [ served EXCEPT ![ch] = << 0 >> ]
    /\ UNCHANGED << client, sent, replied, received >>

HandToService(ch, n) ==
    /\ server[ch] = "open" /\ MayFollow(n, served[ch], sent[ch])
    /\ served' = [ served EXCEPT ![ch] = Append(@, n) ]
    /\ UNCHANGED << client, server, sent, replied, received >>

Reply(ch) ==
    /\ server[ch] = "open"
    /\ replied' = [ replied EXCEPT ![ch] = @ + 1 ]
    /\ UNCHANGED << client, server, sent, served, received >>

HandToClient(ch, n) ==
    /\ client[ch] = "open" /\ MayFollow(n, received[ch], replied[ch])
    /\ received' = [ received EXCEPT ![ch] = Append(@, n) ]
    /\ UNCHANGED << client, server, sent, replied, served >>

\* A disconnection or the end of a process closes many ends at once.
CloseClient(S) ==
    /\ \A ch \in S : client[ch] = "open"
    /\ client' = [ ch \in Channels |-> IF ch \in S THEN "closed" ELSE client[ch] ]
    /\ UNCHANGED << server, sent, replied, served, received >>

CloseServer(S) ==
    /\ \A ch \in S : server[ch] = "open"
    /\ server' = [ ch \in Channels |-> IF ch \in S THEN "closed" ELSE server[ch] ]
    /\ UNCHANGED << client, sent, replied, served, received >>

Next ==
    \/ \E ch \in Channels :
        \/ Open(ch) \/ Send(ch) \/ Reply(ch)
        \/ \E taken \in BOOLEAN : Serve(ch, taken)
        \/ \E n \in 0 .. MaxSeq : HandToService(ch, n) \/ HandToClient(ch, n)
    \/ \E S \in SUBSET Channels : CloseClient(S) \/ CloseServer(S)

Spec == Init /\ [][Next]_vars
=============================================================================
