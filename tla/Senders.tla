------------------------------ MODULE Senders -------------------------------
(***************************************************************************)
(* sync_wait and the senders of the SDK: a program submits one after the   *)
(* other and waits for each; sync_wait spins the executor and polls its    *)
(* one socket to the daemon until the receiver was called or the timeout   *)
(* has passed. Which senders, and when, is up to the program: see Cli.     *)
(*                                                                         *)
(* A sender is one of                                                      *)
(*   request    owns its client and thereby its channel                    *)
(*   subscribe  a request that makes the subscriber                        *)
(*   connect    a request that makes the caller (a publisher, RPC client)  *)
(*   receive    a message of the subscriber, call: an answer of the caller;*)
(*              these leave their receiver in the object they are used on. *)
(* All of them capture their `this` in the receiver they hand on (AsSender *)
(* and ThenSender), and all are destroyed when sync_wait has returned.     *)
(*                                                                         *)
(* Time is what is left of the timeout and of the current poll. Receivers  *)
(* of earlier operations differ only in being stale, so the model keeps    *)
(* the result slot of the current operation alone.                         *)
(***************************************************************************)
EXTENDS Integers, Sequences

CONSTANTS
    Kinds,        \* the senders the program uses
    Timeouts,     \* timeouts it gives to sync_wait
    Resolution,   \* units of time in a millisecond, the resolution of a poll
    Second,       \* units of time in a second, the longest poll
    MaxMsgs,      \* bound: messages observed on the subject
    MaxQueue      \* bound: messages in the socket

Never == -1

ASSUME SendersAssumption ==
    /\ Timeouts \subseteq Nat
    /\ {Resolution, Second, MaxMsgs, MaxQueue} \subseteq Nat \ {0}

Objects  == {"subscriber", "caller"}
Channels == Objects \cup {"request"}

\* Where the answer to a sender comes from.
ChannelOf(k) == CASE k = "receive" -> "subscriber"
                  [] k = "call"    -> "caller"
                  [] OTHER         -> "request"

Made(k) == CASE k = "subscribe" -> {"subscriber"}
             [] k = "connect"   -> {"caller"}
             [] OTHER           -> {}

\* Results, and what a message carries: a message of the subject is its number.
NoResult == 0
Done     == -1
Failed   == -2
TimedOut == -3
End      == -4
Results  == {Done, Failed, TimedOut} \cup (1 .. MaxMsgs)

VARIABLES
    pc,         \* of sync_wait: "idle", "check", "spin", "recheck" or "poll"
    kind,       \* the current sender
    slot,       \* maybe_result_ of its StateOf
    left,       \* time to the deadline of timeout_cb, Never without one
    fired,      \* timeout_cb has run
    nap,        \* time to the end of the poll
    ready,      \* when the socket's callback is scheduled: "no", "before" or "after" the deadline
    objects,    \* those the program holds
    completed,  \* those with a completion_error_
    receiver,   \* channel -> whose receiver it holds: "no", "current" or "stale"
    socket,     \* messages from the daemon that are not read
    owed,       \* channels on which the daemon owes an answer
    published,  \* messages observed on the subject since the subscription
    lost,       \* those of them that the daemon failed to write
    in_time,    \* history: a poll reported the answer before the deadline
    prev,       \* history: the message that the operation before was a receive of, or 0
    touched     \* history: a receiver was called whose sender is destroyed

waitVars == << pc, kind, slot, left, fired, nap, ready >>
sdkVars  == << objects, completed, receiver >>
netVars  == << socket, owed, published, lost >>
history  == << in_time, prev, touched >>
vars     == << waitVars, sdkVars, netVars, history >>

Init ==
    /\ pc = "idle" /\ kind = "none" /\ slot = NoResult
    /\ left = Never /\ fired = FALSE /\ nap = 0 /\ ready = "no"
    /\ objects = {} /\ completed = {}
    /\ receiver = [ c \in Channels |-> "no" ]
    /\ socket = << >> /\ owed = {} /\ published = 0 /\ lost = {}
    /\ in_time = FALSE /\ prev = 0 /\ touched = FALSE

-----------------------------------------------------------------------------
(* sync_wait                                                               *)

(* Slip: the last result wins. *)
CompleteAgain(s, result) == result

\* StateOf::complete: the first result stays.
Complete(s, result) == IF s = NoResult THEN result ELSE s

\* Immediate results of submit: an object that is completed, a failing write, or a
\* just, which is what an argument that was refused makes of the sender.
AtOnce(k) ==
    CASE ChannelOf(k) \in completed -> {Failed}
      [] k = "receive"              -> {NoResult}
      [] OTHER                      -> {NoResult, Failed}

\* submit, and the timer of sync_wait. A relay object takes the receiver only
\* when its request was written; a request keeps it either way.
Submit(k, timeout) ==
    LET c == ChannelOf(k) IN
    /\ pc = "idle" /\ k \in Kinds /\ timeout \in Timeouts
    /\ k \in {"receive", "call"} => c \in objects
    /\ Made(k) \cap objects = {}
    /\ \E r \in AtOnce(k) :
         /\ slot' = r
         /\ receiver' = IF c \in Objects /\ r = Failed THEN receiver
                        ELSE [ receiver EXCEPT ![c] = "current" ]
         /\ owed' = IF k = "receive" \/ r = Failed THEN owed ELSE owed \cup {c}
    /\ left' = timeout /\ fired' = FALSE
    /\ kind' = k /\ pc' = "check"
    /\ UNCHANGED << nap, ready, objects, completed, socket, published, lost, history >>

\* The messages of the socket once a channel is gone: the router ignores its own.
WithoutChannel(c) ==
    [ i \in DOMAIN socket |->
        IF socket[i].to = c THEN [ socket[i] EXCEPT !.to = "nobody" ] ELSE socket[i] ]

\* The sender is destroyed, and with it the client and the channel it owns. An
\* object keeps its receiver.
Return ==
    /\ pc \in {"check", "recheck"} /\ slot # NoResult
    /\ pc' = "idle"
    /\ receiver' = [ c \in Channels |->
                       IF c = "request" \/ receiver[c] = "no" THEN "no" ELSE "stale" ]
    /\ owed' = owed \ {"request"}
    /\ socket' = WithoutChannel("request")
    /\ prev' = IF kind = "receive" /\ slot \in 1 .. MaxMsgs THEN slot ELSE 0
    /\ kind' = "none" /\ slot' = NoResult
    /\ left' = Never /\ fired' = FALSE /\ in_time' = FALSE
    /\ UNCHANGED << nap, ready, objects, completed, published, lost, touched >>

Check ==
    /\ pc = "check" /\ slot = NoResult
    /\ pc' = "spin"
    /\ UNCHANGED << kind, slot, left, fired, nap, ready, sdkVars, netVars, history >>

\* spinOnce runs what is due in the order of the scheduled times: timeout_cb ...
TimerIsDue == left = 0 /\ ~fired

RunTimer ==
    /\ pc = "spin" /\ TimerIsDue /\ ready # "before"
    /\ fired' = TRUE /\ slot' = Complete(slot, TimedOut)
    /\ UNCHANGED << pc, kind, left, nap, ready, sdkVars, netVars, history >>

\* ... the callback of the socket, before a message is whole ...
RunSocketInPart ==
    /\ pc = "spin" /\ ready # "no" /\ (ready = "before" \/ ~TimerIsDue)
    /\ ready' = "no" /\ in_time' = FALSE
    /\ UNCHANGED << pc, kind, slot, left, fired, nap, sdkVars, netVars, prev, touched >>

Message(c, what) == [ to |-> c, what |-> what ]

\* What a receiver makes of a message. The lambda of receive may fail to deserialize it.
ResultsOf(m) ==
    IF m.what = End THEN {Failed}
    ELSE IF m.to = "subscriber" THEN {m.what, Failed} ELSE {m.what}

\* What one message does: an answer, the result of a creation, or the end of the
\* channel goes to the receiver the channel holds, if it holds one.
HandleMessage(m) ==
    LET for_us == m.to \in Channels /\ receiver[m.to] = "current" IN
    /\ \E result \in ResultsOf(m) : slot' = IF for_us THEN Complete(slot, result) ELSE slot
    /\ touched' = (touched \/ (m.to \in Channels /\ receiver[m.to] = "stale"))
    /\ objects' = IF for_us /\ slot = NoResult /\ m.what = Done
                    THEN objects \cup Made(kind) ELSE objects
    /\ completed' = IF m.what = End THEN completed \cup ({m.to} \cap objects) ELSE completed

(* Slip: the callback reads on, and the receiver has no room for a second message. *)
ReceiveAll ==
    /\ socket # << >> /\ socket' = << >>
    /\ HandleMessage(Head(socket))

\* ... and when it is: one message for a call of the callback.
ReceiveOne ==
    /\ socket # << >> /\ socket' = Tail(socket)
    /\ HandleMessage(Head(socket))

RunSocket ==
    /\ pc = "spin" /\ ready # "no" /\ (ready = "before" \/ ~TimerIsDue)
    /\ ready' = "no"
    /\ ReceiveOne
    /\ UNCHANGED << pc, kind, left, fired, nap, receiver, owed, published, lost, in_time, prev >>

SpinEnds ==
    /\ pc = "spin" /\ ready = "no" /\ ~TimerIsDue
    /\ pc' = "recheck"
    /\ UNCHANGED << kind, slot, left, fired, nap, ready, sdkVars, netVars, history >>

(* Slip: the duration is rounded up to milliseconds. *)
RoundedUp(t) == ((t + Resolution - 1) \div Resolution) * Resolution

\* duration_cast to milliseconds.
InMilliseconds(t) == (t \div Resolution) * Resolution

\* A second, or until the next timer is due.
PollTimeout == IF left = Never \/ left > Second THEN Second ELSE left

StillWaiting == slot = NoResult

\* The poll of waitPollingUntil, at its second look at the predicate.
Poll ==
    /\ pc = "recheck" /\ StillWaiting
    /\ pc' = "poll" /\ nap' = InMilliseconds(PollTimeout)
    /\ UNCHANGED << kind, slot, left, fired, ready, sdkVars, netVars, history >>

\* The poll reports the socket: its callback is scheduled for this moment.
PollReports ==
    /\ pc = "poll" /\ socket # << >>
    /\ pc' = "check" /\ nap' = 0
    /\ ready' = IF left = 0 THEN "after" ELSE "before"
    /\ in_time' = (left # 0 /\ Head(socket).to \in Channels
                            /\ receiver[Head(socket).to] = "current")
    /\ UNCHANGED << kind, slot, left, fired, sdkVars, netVars, prev, touched >>

(* Slip: poll returns only for the socket. *)
NeverElapses == FALSE

Elapses == nap = 0

\* The poll ends with nothing to report, or a signal interrupts it.
PollElapses ==
    /\ pc = "poll" /\ Elapses /\ socket = << >>
    /\ pc' = "check" /\ nap' = 0
    /\ UNCHANGED << kind, slot, left, fired, ready, sdkVars, netVars, history >>

PollInterrupted ==
    /\ pc = "poll"
    /\ pc' = "check" /\ nap' = 0
    /\ UNCHANGED << kind, slot, left, fired, ready, sdkVars, netVars, history >>

-----------------------------------------------------------------------------
(* The program between two operations, the daemon, and time.               *)

\* The program lets an object go: its channel and its receiver go with it.
Drop(o) ==
    /\ pc = "idle" /\ o \in objects
    /\ objects' = objects \ {o} /\ completed' = completed \ {o}
    /\ receiver' = [ receiver EXCEPT ![o] = "no" ]
    /\ socket' = WithoutChannel(o)
    /\ owed' = owed \ {o}
    /\ published' = IF o = "subscriber" THEN 0 ELSE published
    /\ lost' = IF o = "subscriber" THEN {} ELSE lost
    /\ UNCHANGED << waitVars, history >>

HasRoom == Len(socket) < MaxQueue

\* Two events for one request: its answer and the completion of its channel. The
\* channel of a creation stays open, unless it was refused.
DaemonAnswers ==
    \E c \in owed :
      /\ owed' = owed \ {c}
      /\ \/ /\ Len(socket) < MaxQueue - 1 /\ c = "request"
            /\ \E a \in {Done, Failed} :
                 socket' = IF Made(kind) # {} /\ a = Done
                             THEN Append(socket, Message(c, a))
                             ELSE socket \o << Message(c, a), Message(c, End) >>
         \/ /\ HasRoom /\ c # "request"
            /\ \E a \in {Done, Failed} : socket' = Append(socket, Message(c, a))
      /\ UNCHANGED << waitVars, sdkVars, published, lost, history >>

\* A message is observed on the subject. The daemon forwards it ...
Observe ==
    /\ published < MaxMsgs /\ "subscriber" \in objects \ completed
    /\ published' = published + 1
    /\ UNCHANGED << waitVars, sdkVars, owed, history >>

Publish ==
    /\ Observe /\ HasRoom
    /\ socket' = Append(socket, Message("subscriber", published'))
    /\ lost' = lost

\* ... or the write fails, for want of room or otherwise: that is logged, no more.
PublishFails ==
    /\ Observe
    /\ lost' = lost \cup {published'}
    /\ socket' = socket

\* The daemon ends the channel of an object.
EndObject ==
    /\ HasRoom
    /\ \E o \in objects \ completed :
         /\ ~\E i \in DOMAIN socket : socket[i] = Message(o, End)
         /\ socket' = Append(socket, Message(o, End))
    /\ UNCHANGED << waitVars, sdkVars, owed, published, lost, history >>

\* Time passes in the program and in its polls; the kernel ends a poll on time.
Tick ==
    /\ left > 0 \/ (pc = "poll" /\ nap > 0)
    /\ pc = "poll" => nap > 0 /\ socket = << >>
    /\ left' = IF left > 0 THEN left - 1 ELSE left
    /\ nap' = IF pc = "poll" THEN nap - 1 ELSE nap
    /\ UNCHANGED << pc, kind, slot, fired, ready, sdkVars, netVars, history >>

WaitStep == \/ Check \/ RunTimer \/ RunSocketInPart \/ RunSocket \/ SpinEnds
            \/ Poll \/ PollReports \/ PollElapses

Environment == DaemonAnswers \/ Publish \/ PublishFails \/ EndObject \/ PollInterrupted

-----------------------------------------------------------------------------
(***************************************************************************)
(* An answer that a poll reported before the deadline is the result, even  *)
(* when the deadline passes before its callback runs: spinOnce runs both   *)
(* callbacks, the socket's first, and StateOf keeps the first result.      *)
(***************************************************************************)
InTimeWins == in_time /\ slot # NoResult => slot # TimedOut

(***************************************************************************)
(* waitPollingUntil never sleeps past the deadline of sync_wait, nor while *)
(* the result is there already.                                            *)
(***************************************************************************)
SleepsOnPurpose ==
    pc = "poll" => /\ slot = NoResult
                   /\ left # Never => nap <= left
=============================================================================
