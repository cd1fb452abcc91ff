---------------------------- MODULE SocketFraming ---------------------------
(***************************************************************************)
(* SocketBase: how a message is framed on one direction of the stream      *)
(* socket, below what SocketPipe models. SocketBase::send writes a header  *)
(* and then the fragments of the message, one ::send each, and looks only  *)
(* for an error, not at how much was written; SocketBase::receiveData      *)
(* collects the header, checks it, collects the payload and delivers it.   *)
(*                                                                         *)
(* A byte is a record of the message it belongs to and its place in it:    *)
(* place 1 is the signature, place 2 the size, the payload follows. The    *)
(* signature does not occur inside payloads.                               *)
(***************************************************************************)
EXTENDS Naturals, Sequences

CONSTANTS
    MaxMsgs,     \* bound: messages sent
    Capacity,    \* of the socket's buffer, in bytes
    MaxPayload,  \* MsgPayloadMaxSize
    FragLens     \* bound: the lengths of the two fragments of a message

ASSUME FramingAssumption ==
    /\ MaxMsgs \in Nat /\ Capacity \in Nat \ {0} /\ MaxPayload \in Nat \ {0}
    /\ FragLens \subseteq Nat \ {0} /\ FragLens # {}

Sig == 1

Size == 2

HeaderSize == 2

VARIABLES
    count,      \* messages that send() was called for
    lens,       \* message -> lengths of its two fragments
    out,        \* fragments that the running send() has yet to write
    torn,       \* messages of which some byte was not written
    wopen,      \* the writer's end is open
    buf,        \* bytes in the socket
    part,       \* rx_msg_part: "header", "payload", or "closed"
    got,        \* the rx_partial_size bytes read of it
    want,       \* payload_size of the message being read
    from,       \* the message whose signature began the header
    delivered   \* payloads handed to on_rx_msg_payload

vars == << count, lens, out, torn, wopen, buf, part, got, want, from, delivered >>

Msgs == 1 .. MaxMsgs

PayloadSize(m) == lens[m][1] + lens[m][2]

Bytes(m, first, last) == [ k \in 1 .. last - first + 1 |-> [ msg |-> m, at |-> first + k - 1 ] ]

Payload(m) == Bytes(m, HeaderSize + 1, HeaderSize + PayloadSize(m))

Init ==
    /\ count = 0 /\ lens = [ m \in Msgs |-> << 0, 0 >> ]
    /\ out = << >> /\ torn = {} /\ wopen = TRUE /\ buf = << >>
    /\ part = "header" /\ got = << >> /\ want = 0 /\ from = 0
    /\ delivered = << >>

-----------------------------------------------------------------------------
(***************************************************************************)
(* The writer: one thread, so a send() ends before the next begins, but    *)
(* the reader may run between two of its fragments.                        *)
(***************************************************************************)
Send(a, b) ==
    /\ wopen /\ out = << >> /\ count < MaxMsgs
    /\ count' = count + 1
    /\ lens' = [ lens EXCEPT ![count + 1] = << a, b >> ]
    /\ LET m == count + 1
       IN  out' = << Bytes(m, 1, HeaderSize), Bytes(m, HeaderSize + 1, HeaderSize + a),
                     Bytes(m, HeaderSize + a + 1, HeaderSize + a + b) >>
    /\ UNCHANGED << torn, wopen, buf, part, got, want, from, delivered >>

\* ::send takes what fits. If nothing does (EAGAIN), or the peer is gone, send() fails;
\* if only a part does, the rest of the fragment is forgotten.
WriteFragment ==
    /\ wopen /\ out # << >>
    /\ LET free == IF part = "closed" THEN 0 ELSE Capacity - Len(buf)
           n    == IF free < Len(out[1]) THEN free ELSE Len(out[1])
       IN  /\ buf' = buf \o SubSeq(out[1], 1, n)
           /\ out' = IF free = 0 THEN << >> ELSE Tail(out)
           /\ torn' = IF n < Len(out[1]) THEN torn \cup {count} ELSE torn
    /\ UNCHANGED << count, lens, wopen, part, got, want, from, delivered >>

\* The writer's process ends, or closes the socket: also in the middle of a message.
WriterCloses ==
    /\ wopen
    /\ wopen' = FALSE
    /\ out' = << >>
    /\ torn' = IF out # << >> THEN torn \cup {count} ELSE torn
    /\ UNCHANGED << count, lens, buf, part, got, want, from, delivered >>

-----------------------------------------------------------------------------
(***************************************************************************)
(* The reader.                                                             *)
(***************************************************************************)
\* How many bytes of the current part are still missing.
\* (Slip: what was read of it before is not counted.)
WholePart == IF part = "header" THEN HeaderSize ELSE want

Missing == IF part = "header" THEN HeaderSize - Len(got) ELSE want - Len(got)

\* The payload sizes that a header may seem to announce.
Announced(header) ==
    IF header[2].at = Size THEN {PayloadSize(header[2].msg)} ELSE 0 .. MaxPayload + 1

\* (Slip: the signature is not compared.)
SizeOnly(header, size) == size > 0 /\ size <= MaxPayload

ValidHeader(header, size) == header[1].at = Sig /\ size > 0 /\ size <= MaxPayload

Closes ==
    /\ part' = "closed" /\ got' = << >> /\ buf' = << >>
    /\ UNCHANGED << want, from, delivered >>

HeaderRead(header) ==
    \E size \in Announced(header) :
        IF ValidHeader(header, size)
        THEN /\ part' = "payload" /\ got' = << >>
             /\ want' = size /\ from' = header[1].msg
             /\ UNCHANGED delivered
        ELSE /\ part' = "closed" /\ got' = << >>
             /\ UNCHANGED << want, from, delivered >>

\* (Slip: the next header is not waited for.)
StaysInPayload == "payload"

AfterPayload == "header"

PayloadRead(payload) ==
    /\ part' = AfterPayload /\ got' = << >>
    /\ delivered' = Append(delivered, [ from |-> from, payload |-> payload ])
    /\ UNCHANGED << want, from >>

\* One ::recv of receiveData, which may return any part of what was asked for.
Receive ==
    /\ part # "closed" /\ buf # << >>
    /\ \E n \in 1 .. IF Missing < Len(buf) THEN Missing ELSE Len(buf) :
        LET all == got \o SubSeq(buf, 1, n)
        IN  /\ buf' = SubSeq(buf, n + 1, Len(buf))
            /\ \/ n < Missing /\ got' = all /\ UNCHANGED << part, want, from, delivered >>
               \/ n = Missing /\ part = "header" /\ HeaderRead(all)
               \/ n = Missing /\ part = "payload" /\ PayloadRead(all)
    /\ UNCHANGED << count, lens, out, torn, wopen >>

\* Zero bytes read: end of stream. The owner closes the socket.
EndOfStream ==
    /\ part # "closed" /\ buf = << >> /\ ~wopen
    /\ Closes
    /\ UNCHANGED << count, lens, out, torn, wopen >>

Next ==
    \/ \E a, b \in FragLens : Send(a, b)
    \/ WriteFragment \/ WriterCloses \/ Receive \/ EndOfStream

\* The reader's executor is level-triggered; a send() that began runs to its end.
Spec == Init /\ [][Next]_vars /\ WF_vars(Receive \/ EndOfStream) /\ WF_vars(WriteFragment)

-----------------------------------------------------------------------------
(***************************************************************************)
(* Properties.                                                             *)
(***************************************************************************)
\* The reader never holds more of a part than the part has, nor an oversized payload.
TypeOK ==
    /\ part \in {"header", "payload", "closed"}
    /\ Len(buf) <= Capacity
    /\ part = "header" => Len(got) < HeaderSize
    /\ part = "payload" => want \in 1 .. MaxPayload /\ Len(got) < want

(***************************************************************************)
(* As long as every message was written whole, the payloads delivered are  *)
(* those of the messages sent, from the first on and in order, however the *)
(* kernel cuts the stream: what SocketPipe takes for granted.              *)
(***************************************************************************)
DeliversWhatWasSent ==
    torn = {} => \A i \in DOMAIN delivered :
                    delivered[i] = [ from |-> i, payload |-> Payload(i) ]

(***************************************************************************)
(* A message that was torn (the buffer filled up in the middle of it, which*)
(* send() may even report as a success) spoils at most the payload of its  *)
(* own header: the reader falls into step again, or closes the stream, but *)
(* it never delivers something else under the header of a whole message,   *)
(* and never holds more than a part has or a payload may have.             *)
(***************************************************************************)
TearIsContained ==
    /\ TypeOK
    /\ \A i \in DOMAIN delivered :
        /\ delivered[i].from \notin torn =>
              delivered[i].payload = Payload(delivered[i].from)
        /\ \A j \in DOMAIN delivered : i < j => delivered[i].from < delivered[j].from

\* What was written whole is delivered, unless the stream is closed or was torn.
EverythingArrives ==
    \A m \in Msgs :
        m <= count /\ out = << >> /\ m \notin torn
            ~> part = "closed" \/ torn # {} \/ \E i \in DOMAIN delivered : delivered[i].from = m
=============================================================================
