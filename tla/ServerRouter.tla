---------------------------- MODULE ServerRouter ----------------------------
(***************************************************************************)
(* ServerRouterImpl and its gateways: the daemon side of the IPC. A        *)
(* gateway exists from the first message of a channel until the service    *)
(* drops its channel object. Every live gateway has an event handler: the  *)
(* services that keep a channel subscribe in the call of their factory,    *)
(* the others have dropped it when that call returns.                      *)
(***************************************************************************)
EXTENDS SocketPipe

VARIABLES
    daemon_up,  \* the daemon process runs
    sclients,   \* keys of client_id_to_map_of_gateways_: connected clients
    sgateways,  \* the tags in those maps: registered channels
    salive,     \* gateways that exist (a service's channel owns each of them)
    sseq,       \* next_sequence_
    serr,       \* completion_opt_error_
    \* What the service has seen (history):
    slog,       \* sequence numbers of the messages delivered to the service
    sdone,      \* errors of the terminal completions delivered to the service
    sfinal,     \* error of the first terminal ChEnd written, or "no"
    slossy      \* channels on which a write of the daemon failed

srouterVars == << daemon_up, sclients, sgateways, salive, sseq, serr, slog, sdone,
                  sfinal, slossy >>

ServerInit ==
    /\ daemon_up = TRUE
    /\ sclients = {} /\ sgateways = {} /\ salive = {} /\ slossy = {}
    /\ sseq = [ ch \in Chan |-> 0 ]
    /\ serr = [ ch \in Chan |-> NoError ]
    /\ slog = [ ch \in Chan |-> << >> ]
    /\ sdone = [ ch \in Chan |-> << >> ]
    /\ sfinal = [ ch \in Chan |-> "no" ]

ServerPost(ch, m, ok) ==
    /\ ServerPipeSend(ch[1], m, ok)
    /\ slossy' = IF ok THEN slossy ELSE slossy \cup {ch}

\* A terminal ChEnd of channel ch is written, or its write fails.
ServerPostFinal(ch, e) ==
    \E ok \in BOOLEAN :
        /\ ServerPost(ch, ChEnd(ch[2], FALSE, e), ok)
        /\ sfinal' = IF ok /\ sfinal[ch] = "no" THEN [ sfinal EXCEPT ![ch] = e ]
                     ELSE sfinal

(***************************************************************************)
(* Operations of the service that owns the channel.                        *)
(***************************************************************************)
ServerSend(ch) ==
    /\ ch \in salive /\ ch[1] \in sclients /\ ch \in sgateways
    /\ sseq[ch] < MaxSeq
    /\ sseq' = [ sseq EXCEPT ![ch] = @ + 1 ]
    /\ \E ok \in BOOLEAN : ServerPost(ch, ChMsg(ch[2], sseq[ch], ServiceOf[ch[2]]), ok)
    /\ UNCHANGED << cpipe, spipe, c2s, daemon_up, sclients, sgateways, salive, serr,
                    slog, sdone, sfinal >>

ServerComplete(ch, e, keepAlive) ==
    /\ ch \in salive /\ ch[1] \in sclients /\ ch \in sgateways
    /\ serr' = [ serr EXCEPT ![ch] = e ]
    /\ \/ /\ ~keepAlive
          /\ ServerPostFinal(ch, e)
       \/ /\ keepAlive
          /\ \E ok \in BOOLEAN : ServerPost(ch, ChEnd(ch[2], TRUE, e), ok)
          /\ UNCHANGED sfinal
    /\ UNCHANGED << cpipe, spipe, c2s, daemon_up, sclients, sgateways, salive, sseq,
                    slog, sdone >>

\* Whether the disposal of a gateway is worth a ChEnd.
\* (Slip: a gateway whose service never sent anything is disposed of silently.)
ServerDisposalPostsUsed(ch) ==
    ch[1] \in sclients /\ ch \in sgateways /\ sseq[ch] > 0

ServerDisposalPosts(ch) == ch[1] \in sclients /\ ch \in sgateways

\* ~GatewayImpl and onGatewayDisposal.
ServerDispose(ch) ==
    /\ ch \in salive
    /\ salive' = salive \ {ch}
    /\ sgateways' = sgateways \ {ch}
    /\ IF ServerDisposalPosts(ch)
       THEN ServerPostFinal(ch, serr[ch])
       ELSE UNCHANGED << s2c, slossy, sfinal >>
    /\ UNCHANGED << cpipe, spipe, c2s, daemon_up, sclients, sseq, serr, slog, sdone >>

(***************************************************************************)
(* Pipe events.                                                            *)
(***************************************************************************)
ServerReads(c, kind) ==
    /\ spipe[c] = "up" /\ c2s[c] # << >> /\ Head(c2s[c]).kind = kind
    /\ c2s' = [ c2s EXCEPT ![c] = Tail(@) ]

\* The client counts as connected only if the reply could be written.
KnownAfterReply(c, ok) == IF ok THEN sclients \cup {c} ELSE sclients

ServerHandleRouteConnect(c) ==
    /\ ServerReads(c, "connect")
    /\ \E ok \in BOOLEAN :
        /\ ServerPipeSend(c, RouteConnect, ok)
        /\ sclients' = KnownAfterReply(c, ok)
    /\ UNCHANGED << cpipe, spipe, daemon_up, sgateways, salive, sseq, serr, slog, sdone,
                    sfinal, slossy >>

\* A message of a registered channel goes to its service.
ServerDeliverMsg(c) ==
    /\ ServerReads(c, "msg")
    /\ LET m  == Head(c2s[c])
           ch == << c, m.tag >>
       IN  /\ c \in sclients /\ ch \in sgateways
           /\ slog' = [ slog EXCEPT ![ch] = Append(@, m.sequence) ]
    /\ UNCHANGED << cpipe, spipe, s2c, daemon_up, sclients, sgateways, salive, sseq,
                    serr, sdone, sfinal, slossy >>

\* Only the very first message of a channel triggers the factory.
\* (Slip: any message of an unknown tag does.)
OpensOnAnyMessage(c, m) ==
    /\ c \in sclients /\ << c, m.tag >> \notin sgateways
    /\ m.service \in Registered

OpensChannel(c, m) ==
    /\ c \in sclients /\ << c, m.tag >> \notin sgateways
    /\ m.sequence = 0 /\ m.service \in Registered

(***************************************************************************)
(* The first message of a channel makes a gateway and calls the factory.   *)
(* If the payload does not deserialize, no channel takes the gateway: it   *)
(* dies when the factory returns, and its disposal tells the client.       *)
(***************************************************************************)
ServerOpenChannel(c) ==
    /\ ServerReads(c, "msg")
    /\ LET m  == Head(c2s[c])
           ch == << c, m.tag >>
       IN  /\ OpensChannel(c, m)
           /\ slog' = [ slog EXCEPT ![ch] = Append(@, m.sequence) ]
           /\ \/ /\ sgateways' = sgateways \cup {ch}
                 /\ salive' = salive \cup {ch}
                 /\ UNCHANGED << s2c, slossy, sfinal >>
              \/ /\ ServerPostFinal(ch, NoError)
                 /\ UNCHANGED << sgateways, salive >>
    /\ UNCHANGED << cpipe, spipe, daemon_up, sclients, sseq, serr, sdone >>

\* Every other message is unsolicited: traced and ignored.
ServerIgnoreMsg(c) ==
    /\ ServerReads(c, "msg")
    /\ LET m == Head(c2s[c])
       IN  /\ ~(c \in sclients /\ << c, m.tag >> \in sgateways)
           /\ ~OpensChannel(c, m)
    /\ UNCHANGED << cpipe, spipe, s2c, srouterVars >>

ServerHandleRouteChannelEnd(c) ==
    /\ ServerReads(c, "end")
    /\ LET m     == Head(c2s[c])
           ch    == << c, m.tag >>
           found == c \in sclients /\ ch \in sgateways
       IN  /\ sgateways' = IF found THEN AfterEnd(sgateways, ch, m.keep_alive)
                           ELSE sgateways
           /\ sdone' = IF found /\ ~m.keep_alive
                      THEN [ sdone EXCEPT ![ch] = Append(@, dsdlErrorToOptError(m.error)) ]
                      ELSE sdone
    /\ UNCHANGED << cpipe, spipe, s2c, daemon_up, sclients, salive, sseq, serr, slog,
                    sfinal, slossy >>

(***************************************************************************)
(* The read of a client's socket ends in an error (end of stream, reset,   *)
(* malformed message): its context goes, then the router unregisters and   *)
(* notifies its gateways.                                                  *)
(***************************************************************************)
ServerDisconnected(c) ==
    /\ spipe[c] = "up"
    /\ ServerPipeClose(c)
    /\ sclients' = sclients \ {c}
    /\ sgateways' = sgateways \ ChannelsOf(c)
    /\ sdone' = [ ch \in Chan |-> IF c \in sclients /\ ch \in ChannelsOf(c) \cap sgateways
                                 THEN Append(sdone[ch], "Disconnected") ELSE sdone[ch] ]
    /\ UNCHANGED << daemon_up, salive, sseq, serr, slog, sfinal, slossy >>

\* The daemon process ends, by a crash or otherwise: every connection closes.
DaemonExit ==
    /\ daemon_up
    /\ daemon_up' = FALSE
    /\ spipe' = [ c \in Clients |-> IF spipe[c] = "none" THEN "none" ELSE "down" ]
    /\ c2s' = [ c \in Clients |-> << >> ]
    /\ sclients' = {} /\ sgateways' = {} /\ salive' = {}
    /\ UNCHANGED << cpipe, s2c, sseq, serr, slog, sdone, sfinal, slossy >>

ServerTypeOK ==
    /\ daemon_up \in BOOLEAN
    /\ sclients \subseteq Clients
    /\ sgateways \subseteq Chan /\ salive \subseteq Chan /\ slossy \subseteq Chan
    /\ sseq \in [ Chan -> 0 .. MaxSeq ]
    /\ serr \in [ Chan -> OptErrors ]
    /\ slog \in [ Chan -> Seq(0 .. MaxSeq) ]
    /\ sdone \in [ Chan -> Seq(OptErrors) ]
    /\ sfinal \in [ Chan -> OptErrors \cup {"no"} ]
=============================================================================
