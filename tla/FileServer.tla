----------------------------- MODULE FileServer -----------------------------
(***************************************************************************)
(* The file server of the daemon over several runs of the daemon process:  *)
(*   FileProvider   roots_, and the Read and GetInfo Cyphal services       *)
(*   Config         the configuration in memory and its file               *)
(*   Engine, main   start, unique id, orderly exit, crash                  *)
(*   ListRoots, PopRoot, PushRoot   the services and their SDK clients     *)
(*                                                                         *)
(* A root is a model value. The node that downloads a file reads one path, *)
(* present in the roots of DOMAIN Size with Size[r] bytes; resolving it    *)
(* under a root (realpath, the check that it stays under the root, stat)   *)
(* is abstracted to that. A byte is named by the root it was read from.    *)
(* Each SDK request has a channel of its own (IpcSystem); requests of one  *)
(* connection arrive in order, those of several in any order: here, any.   *)
(***************************************************************************)
EXTENDS Integers, Sequences, SequencesExt, FiniteSets

CONSTANTS
    Roots,        \* root paths that fit an IPC message
    LongRoots,    \* root paths that only a configuration file can hold
    Size,         \* root -> size of the file under it, where there is one
    ChunkSize,    \* MaxDataSize of a Read response (256)
    Ops,          \* bound: requests of SDK users, 1 .. n
    MaxStarts,    \* bound: starts of the daemon
    InitialRoots, \* bound: root lists of the first configuration file
    MaxFaults     \* bound: crashes, failed writes to the pipe or the configuration file

ASSUME FileServerAssumption ==
    /\ Roots \cap LongRoots = {}
    /\ DOMAIN Size \subseteq Roots \cup LongRoots
    /\ \A r \in DOMAIN Size : Size[r] \in Nat
    /\ ChunkSize \in Nat \ {0} /\ MaxStarts \in Nat /\ MaxFaults \in Nat
    /\ InitialRoots \subseteq Seq(Roots \cup LongRoots)
    /\ Ops \subseteq Nat /\ IsFiniteSet(Ops)

VARIABLES
    \* The daemon process.
    daemon,       \* "down" or "up"
    roots,        \* FileProviderImpl::roots_
    config,       \* ConfigImpl::root_
    dirty,        \* ConfigImpl::is_dirty_
    file,         \* the configuration file
    starts,       \* starts of the daemon
    \* The SDK users.
    op,           \* request -> what it asks for
    phase,        \* request -> "new", "sent", "refused", "served", "cut" or "closed"
    inbox,        \* request -> messages on their way to its client
    items,        \* request -> ListRootsClientImpl::items_
    results,      \* request -> what its receiver was called with
    \* The node that downloads.
    download,
    \* History.
    initial,      \* the roots of the first configuration file
    kept,         \* the roots at the last orderly exit
    unique_id,    \* the unique id of the last run
    witnessed,    \* request -> root lists there were while it was under way
    lost,         \* requests with an answer whose write failed
    mishaps       \* of "crash", "disk", "send" and "undefined", those that happened

daemonVars   == << daemon, roots, config, dirty, file, starts >>
clientVars   == << op, phase, inbox, items, results >>
historyVars  == << initial, kept, unique_id, witnessed, lost, mishaps >>
vars         == << daemonVars, clientVars, download, historyVars >>

NoId == 0

\* What the configuration keeps: roots, unique_id, and whether there are ipc.connections.
Settings(rs, id, connections) == [ roots |-> rs, id |-> id, connections |-> connections ]

NoSettings == Settings(<< >>, NoId, FALSE)

\* A file that toml::parse throws on.
Unreadable == Settings(<< >>, -1, FALSE)

List == [ kind |-> "list", root |-> "", back |-> FALSE ]

\* A root that is too long is refused by pop and push alike, at either end: one such request.
PopOrPush ==
    [ kind : {"pop", "push"}, root : Roots, back : BOOLEAN ]
        \cup [ kind : {"push"}, root : LongRoots, back : {TRUE} ]

Item(r) == [ kind |-> "item", root |-> r ]

End == [ kind |-> "end" ]

Success(rs) == [ ok |-> TRUE, roots |-> rs ]

Failure == [ ok |-> FALSE, roots |-> << >> ]

NoDownload == [ stage |-> "idle", size |-> 0, got |-> << >>, sources |-> {} ]

Init ==
    /\ initial \in InitialRoots
    /\ file = Settings(initial, NoId, TRUE) /\ kept = initial
    /\ daemon = "down" /\ roots = << >> /\ config = NoSettings /\ dirty = FALSE /\ starts = 0
    /\ op = [ i \in Ops |-> List ] /\ phase = [ i \in Ops |-> "new" ]
    /\ inbox = [ i \in Ops |-> << >> ] /\ items = [ i \in Ops |-> << >> ]
    /\ results = [ i \in Ops |-> << >> ]
    /\ download = NoDownload
    /\ unique_id = NoId /\ witnessed = [ i \in Ops |-> {} ]
    /\ lost = {} /\ mishaps = {}

\* Something of the environment may still fail.
FaultsLeft == Cardinality(mishaps \ {"undefined"}) + Cardinality(lost) < MaxFaults

-----------------------------------------------------------------------------
(***************************************************************************)
(* The configuration and the life of the daemon.                           *)
(***************************************************************************)
(***************************************************************************)
(* save() of settings s. No exception tells of a stream that fails: the    *)
(* file stays (it does not open) or is cut (it does not take the text),    *)
(* and the settings count as saved. A cut text parses as empty or not.     *)
(***************************************************************************)
save(s, changed) ==
    /\ dirty' = FALSE
    /\ \/ /\ file' = IF changed THEN s ELSE file
          /\ UNCHANGED mishaps
       \/ /\ changed /\ FaultsLeft
          /\ file' \in {file, NoSettings, Unreadable}
          /\ mishaps' = mishaps \cup {"disk"}

\* The id is new at the first run only; it is saved at once.
SaveUniqueId(s) == save(s, s # file)

\* Config::make, Engine::init with getUniqueId and the FileProvider, Engine::runWhile.
Start ==
    /\ daemon = "down" /\ starts < MaxStarts /\ file # Unreadable
    /\ starts' = starts + 1
    /\ LET s == [ file EXCEPT !.id = IF @ = NoId THEN starts + 1 ELSE @ ]
       IN  /\ SaveUniqueId(s)
           /\ IF s.connections
              THEN /\ daemon' = "up" /\ config' = s /\ roots' = s.roots
                   /\ unique_id' = s.id
              ELSE UNCHANGED << daemon, config, roots, unique_id >>
    /\ UNCHANGED << clientVars, download, initial, kept, witnessed, lost >>

\* The process is gone: connections break, answers already written may still be read.
Down ==
    /\ daemon' = "down" /\ roots' = << >> /\ config' = NoSettings
    /\ phase' = [ i \in Ops |-> IF phase[i] \in {"sent", "refused", "served"} THEN "cut"
                                ELSE phase[i] ]

\* g_running becomes 0, runWhile returns, main saves the configuration.
Exit ==
    /\ daemon = "up"
    /\ Down
    /\ save(config, dirty)
    /\ kept' = roots
    /\ UNCHANGED << starts, op, inbox, items, results, download, initial, unique_id,
                    witnessed, lost >>

Crash ==
    /\ daemon = "up" /\ FaultsLeft
    /\ Down
    /\ dirty' = FALSE
    /\ mishaps' = mishaps \cup {"crash"}
    /\ UNCHANGED << file, starts, op, inbox, items, results, download, initial, kept,
                    unique_id, witnessed, lost >>

\* (Slip: the changed settings are not marked for saving.)
SetAndForget(rs) == config' = [ config EXCEPT !.roots = rs ] /\ UNCHANGED dirty

setFileServerRoots(rs) == config' = [ config EXCEPT !.roots = rs ] /\ dirty' = TRUE

-----------------------------------------------------------------------------
(***************************************************************************)
(* The SDK clients.                                                        *)
(***************************************************************************)
\* A request is submitted while the client's router is connected.
Submit(i, what) ==
    /\ phase[i] = "new" /\ daemon = "up" /\ \A j \in Ops : j < i => phase[j] # "new"
    /\ op' = [ op EXCEPT ![i] = what ]
    /\ \/ /\ what.root \in LongRoots     \* just(InvalidArgument), there is no channel
          /\ phase' = [ phase EXCEPT ![i] = "closed" ]
          /\ results' = [ results EXCEPT ![i] = << Failure >> ]
          /\ UNCHANGED mishaps
       \/ /\ what.root \notin LongRoots
          /\ phase' = [ phase EXCEPT ![i] = "sent" ]
          /\ UNCHANGED << results, mishaps >>
       \/ /\ what.root \notin LongRoots /\ FaultsLeft
          /\ mishaps' = mishaps \cup {"send"}
          /\ phase' = [ phase EXCEPT ![i] = "refused" ]
          /\ results' = [ results EXCEPT ![i] = << Failure >> ]
    /\ witnessed' = [ witnessed EXCEPT ![i] = IF what = List THEN {roots} ELSE {} ]
    /\ UNCHANGED << daemonVars, inbox, items, download, initial, kept, unique_id, lost >>

\* handleEvent(Input) and handleEvent(Completed).
ClientReceive(i) ==
    /\ inbox[i] # << >>
    /\ inbox' = [ inbox EXCEPT ![i] = Tail(@) ]
    /\ \/ /\ Head(inbox[i]).kind = "item"
          /\ items' = [ items EXCEPT ![i] = Append(@, Head(inbox[i]).root) ]
          /\ UNCHANGED << phase, results >>
       \/ /\ Head(inbox[i]).kind = "end"
          /\ results' = [ results EXCEPT ![i] = Append(@, Success(items[i])) ]
          /\ phase' = [ phase EXCEPT ![i] = "closed" ]
          /\ UNCHANGED items
    /\ UNCHANGED << daemonVars, op, download, historyVars >>

\* A lost connection completes with an error. (Slip: the receiver is not told.)
NotTold(i) == results[i]

Disconnected(i) == Append(results[i], Failure)

\* handleEvent(Completed) of a lost connection; answers not read yet may be lost with it.
ClientDisconnected(i) ==
    /\ phase[i] = "cut"
    /\ phase' = [ phase EXCEPT ![i] = "closed" ]
    /\ inbox' = [ inbox EXCEPT ![i] = << >> ]
    /\ results' = [ results EXCEPT ![i] = Disconnected(i) ]
    /\ UNCHANGED << daemonVars, op, items, download, historyVars >>

-----------------------------------------------------------------------------
(***************************************************************************)
(* The services: each request is served by one call of its functor.        *)
(***************************************************************************)
\* The functor writes its answers; bound: at most one of the writes fails.
Answer(i, answers) ==
    \/ /\ inbox' = [ inbox EXCEPT ![i] = answers ]
       /\ UNCHANGED lost
    \/ \E k \in DOMAIN answers :
        /\ FaultsLeft
        /\ inbox' = [ inbox EXCEPT ![i] = RemoveAt(answers, k) ]
        /\ lost' = lost \cup {i}

\* Requests under way see the root list the daemon has now.
Witness(rs) ==
    witnessed' = [ i \in Ops |-> IF phase[i] \in {"sent", "served"} /\ op[i].kind = "list"
                                 THEN witnessed[i] \cup {rs} ELSE witnessed[i] ]

ServeWith(i, answers, rs) ==
    /\ roots' = rs
    /\ phase' = [ phase EXCEPT ![i] = "served" ]
    /\ Answer(i, answers)
    /\ Witness(rs)
    /\ UNCHANGED << daemon, file, starts, op, items, results, download, initial, kept,
                    unique_id, mishaps >>

Fits(r) == r \in Roots

\* The roots that are listed: too long ones are skipped. (Slip: the first one ends the list.)
ListedUntilLong(rs) ==
    SubSeq(rs, 1, Len(LongestCommonPrefix({rs, SelectSeq(rs, Fits)})))

\* The places of the roots that fit, and the root at the n-th of them.
Places(rs) == { k \in DOMAIN rs : Fits(rs[k]) }

Place(rs, n) == CHOOSE k \in Places(rs) : Cardinality({ j \in Places(rs) : j <= k }) = n

Listed(rs) == [ n \in 1 .. Cardinality(Places(rs)) |-> rs[Place(rs, n)] ]

ServeList(i) ==
    /\ daemon = "up" /\ phase[i] = "sent" /\ op[i].kind = "list"
    /\ ServeWith(i, Append([ k \in 1 .. Len(Listed(roots)) |-> Item(Listed(roots)[k]) ], End),
                 roots)
    /\ UNCHANGED << config, dirty >>

pushRoot(root, back) == IF back THEN Append(roots, root) ELSE << root >> \o roots

ServePush(i) ==
    /\ daemon = "up" /\ phase[i] = "sent" /\ op[i].kind = "push"
    /\ LET rs == pushRoot(op[i].root, op[i].back)
       IN  ServeWith(i, << End >>, rs) /\ setFileServerRoots(rs)

\* popRoot of a root that is listed: the first or the last copy goes.
\* (Slip: every copy goes.)
PopAll(root, back) == SelectSeq(roots, LAMBDA r : r # root)

popRoot(root, back) ==
    LET is(r) == r = root
    IN  RemoveAt(roots, IF back THEN SelectLastInSeq(roots, is) ELSE SelectInSeq(roots, is))

ServePop(i) ==
    /\ daemon = "up" /\ phase[i] = "sent" /\ op[i].kind = "pop"
    /\ IF Contains(roots, op[i].root)
       THEN LET rs == popRoot(op[i].root, op[i].back)
            IN  ServeWith(i, << End >>, rs) /\ setFileServerRoots(rs)
       ELSE /\ ~op[i].back
            /\ ServeWith(i, << End >>, roots) /\ UNCHANGED << config, dirty >>

(***************************************************************************)
(* popRoot from the back of a root that is not listed erases begin() - 1,  *)
(* which is undefined: the daemon crashes, or every root moves one place   *)
(* forward and the first one is gone.                                      *)
(***************************************************************************)
ServePopUndefined(i) ==
    /\ daemon = "up" /\ phase[i] = "sent" /\ op[i].kind = "pop"
    /\ op[i].back /\ ~Contains(roots, op[i].root)
    /\ \/ /\ Down /\ dirty' = FALSE
          /\ mishaps' = mishaps \cup {"undefined", "crash"}
          /\ UNCHANGED << inbox, witnessed >>
       \/ /\ roots # << >>
          /\ roots' = Tail(roots) /\ setFileServerRoots(Tail(roots))
          /\ phase' = [ phase EXCEPT ![i] = "served" ]
          /\ inbox' = [ inbox EXCEPT ![i] = << End >> ]
          /\ mishaps' = mishaps \cup {"undefined"}
          /\ Witness(Tail(roots))
          /\ UNCHANGED daemon
    /\ UNCHANGED << file, starts, op, items, results, download, initial, kept, unique_id,
                    lost >>

-----------------------------------------------------------------------------
(***************************************************************************)
(* A node downloads a file: GetInfo, then Read until a response is short.  *)
(* The node is external; every response depends on roots alone.            *)
(***************************************************************************)
\* The places of the roots that have the file, and the first of these roots.
Candidates == { k \in DOMAIN roots : roots[k] \in DOMAIN Size }

findFirstValidFile == roots[Min(Candidates)]

Asks(stage) == daemon = "up" /\ download.stage = stage

serveGetInfoRequest ==
    /\ Asks("idle")
    /\ IF Candidates = {} THEN download' = [ download EXCEPT !.stage = "failed" ]
       ELSE download' = [ stage |-> "reading", size |-> Size[findFirstValidFile],
                          got |-> << >>, sources |-> {findFirstValidFile} ]
    /\ UNCHANGED << daemonVars, clientVars, historyVars >>

\* bytes_to_read at an offset. (Slip: the last partial chunk counts as beyond the end.)
WholeChunksOnly(size, offset) == IF offset + ChunkSize > size THEN 0 ELSE ChunkSize

BytesToRead(size, offset) ==
    IF offset >= size THEN 0
    ELSE IF size - offset < ChunkSize THEN size - offset ELSE ChunkSize

serveReadRequest ==
    /\ Asks("reading")
    /\ \/ /\ download' = [ download EXCEPT !.stage = "failed" ]     \* not found, or not read
       \/ /\ Candidates # {}
          /\ LET from == findFirstValidFile
                 n    == BytesToRead(Size[from], Len(download.got))
             IN  download' = [ download EXCEPT
                    !.stage   = IF n < ChunkSize THEN "done" ELSE @,
                    !.got     = @ \o [ k \in 1 .. n |-> from ],
                    !.sources = @ \cup {from} ]
    /\ UNCHANGED << daemonVars, clientVars, historyVars >>

\* No response comes from a daemon that is down.
ReadTimeout ==
    /\ daemon = "down" /\ download.stage = "reading"
    /\ download' = [ download EXCEPT !.stage = "failed" ]
    /\ UNCHANGED << daemonVars, clientVars, historyVars >>

-----------------------------------------------------------------------------
Serve(i) == ServeList(i) \/ ServePush(i) \/ ServePop(i) \/ ServePopUndefined(i)

Next ==
    \/ Start \/ Exit \/ Crash
    \/ \E i \in Ops :
        \/ Submit(i, List) \/ \E what \in PopOrPush : Submit(i, what)
        \/ ClientReceive(i) \/ ClientDisconnected(i)
        \/ ServeList(i) \/ ServePush(i) \/ ServePop(i) \/ ServePopUndefined(i)
    \/ serveGetInfoRequest \/ serveReadRequest \/ ReadTimeout

(***************************************************************************)
(* The executors of both sides serve their sockets; a node that reads goes *)
(* on until the end of the file, an error or a timeout.                    *)
(***************************************************************************)
Fairness ==
    /\ \A i \in Ops : WF_vars(ClientReceive(i) \/ ClientDisconnected(i)) /\ WF_vars(Serve(i))
    /\ WF_vars(serveReadRequest \/ ReadTimeout)

Spec == Init /\ [][Next]_vars /\ Fairness

-----------------------------------------------------------------------------
(***************************************************************************)
(* Properties.                                                             *)
(***************************************************************************)
\* Every variable has its type; what the provider serves is what the configuration holds.
TypeOK ==
    /\ daemon \in {"down", "up"}
    /\ \A i \in Ops :
        /\ phase[i] \in {"new", "sent", "refused", "served", "cut", "closed"}
        /\ op[i] = List \/ op[i] \in PopOrPush
        /\ Len(results[i]) <= 2
    /\ download.stage \in {"idle", "reading", "done", "failed"}
    /\ config.roots = roots

\* List "reported" is list rs without the roots that are too long: its elements are those at
\* the places of the others, in order.
ReportsOf(reported, rs) ==
    \E place \in [ DOMAIN reported -> Places(rs) ] :
        /\ \A m, n \in DOMAIN reported : m < n => place[m] < place[n]
        /\ \A k \in Places(rs) : \E n \in DOMAIN reported : place[n] = k
        /\ \A n \in DOMAIN reported : reported[n] = rs[place[n]]

(***************************************************************************)
(* ListRoots reports a list that the daemon had while the request was      *)
(* under way, in order and with its duplicates, without the roots that are *)
(* too long; never a mixture of two lists. (An answer may have been lost.) *)
(***************************************************************************)
ListIsSnapshot ==
    \A i \in Ops : \A k \in DOMAIN results[i] :
        op[i].kind = "list" /\ results[i][k].ok /\ i \notin lost
            => \E rs \in witnessed[i] : ReportsOf(results[i][k].roots, rs)

Copies(rs, r) == Cardinality({ k \in DOMAIN rs : rs[k] = r })

Requests(kind, r) == { i \in Ops : phase[i] # "new" /\ op[i].kind = kind /\ op[i].root = r }

Acknowledged(kind, r) ==
    { i \in Requests(kind, r) : \E k \in DOMAIN results[i] : results[i][k].ok }

(***************************************************************************)
(* "The same path may be added multiple times to avoid interference across *)
(* different clients": each acknowledged push adds one copy of its root,   *)
(* each pop takes away one at most, and each acknowledged pop of a root    *)
(* with copies to spare takes one away; over orderly restarts too. The     *)
(* types are checked along with it.                                        *)
(***************************************************************************)
CopiesAreCounted ==
  /\ TypeOK
  /\ mishaps \cap {"crash", "disk", "undefined"} = {} => \A r \in Roots :
        LET copies == Copies(IF daemon = "up" THEN roots ELSE file.roots, r)
            before == Copies(initial, r)
        IN  /\ copies >= before + Cardinality(Acknowledged("push", r))
                                - Cardinality(Requests("pop", r))
            /\ copies <= before + Cardinality(Requests("push", r))
            /\ Cardinality(Requests("pop", r)) <= before =>
                 copies <= before + Cardinality(Requests("push", r))
                                  - Cardinality(Acknowledged("pop", r))

(***************************************************************************)
(* A start of the daemon restores the roots of its last orderly exit, in   *)
(* order, whatever happened in between (crashes included), as long as the  *)
(* configuration file could be written; and the daemon then keeps the      *)
(* unique id of its first run for ever, even if that run crashed.          *)
(***************************************************************************)
RootsAreRestored ==
    [][ "disk" \notin mishaps' =>
            /\ daemon = "down" /\ daemon' = "up" => roots' = kept
            /\ unique_id # NoId => unique_id' = unique_id ]_vars

(***************************************************************************)
(* A download that only ever met one file yields the whole of that file,   *)
(* with the size that GetInfo told, also when roots were pushed and popped *)
(* or the daemon restarted meanwhile.                                      *)
(***************************************************************************)
DownloadIsWhole ==
    download.stage = "done" => \A r \in DOMAIN Size :
        download.sources = {r} =>
            download.got = [ k \in 1 .. Size[r] |-> r ] /\ download.size = Size[r]

(***************************************************************************)
(* A request comes to a result, unless its answer was lost in a failed     *)
(* write; a download comes to an end.                                      *)
(***************************************************************************)
Resolves ==
    /\ \A i \in Ops : phase[i] # "new" ~> results[i] # << >> \/ i \in lost
    /\ download.stage = "reading" ~> download.stage # "reading"

-----------------------------------------------------------------------------
(***************************************************************************)
(* file_server.hpp says of popRoot: "Does nothing if such root path does   *)
(* not exist (no error reported)."                                         *)
(***************************************************************************)
PopOfMissingDoesNothing ==
    [][ \A i \in Ops : phase[i] = "sent" /\ phase'[i] = "served" /\ op[i].kind = "pop"
            /\ ~Contains(roots, op[i].root) => roots' = roots ]_vars
=============================================================================
