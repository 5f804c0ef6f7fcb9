------------------------------ MODULE Transfer ------------------------------
(***************************************************************************)
(* Puts and gets of files, fragment by fragment: clients (client/core.cpp, *)
(* main.cpp), the resource server (resource_server/transaction.cpp and the *)
(* file sessions of core.cpp) and one storage node (storage_node/).        *)
(*                                                                         *)
(* Each process runs its handlers one after another on its worker thread,  *)
(* so one action is one handler; only the console of a client is a thread  *)
(* beside the handlers.  Connections are in order; the one to the storage  *)
(* node may be lost, and what was on it with it.  A fragment is the file   *)
(* it was read from and its index.  There is one group, and the            *)
(* directories of the paths exist.                                         *)
(***************************************************************************)
EXTENDS Naturals, Sequences, FiniteSets

CONSTANTS
    Users,          \* one client each, members of the group
    Managers,       \* those who may put and remove
    Paths,          \* paths in the group
    Names,          \* names of files on the storage node
    FileName,       \* FilePath::filename: the last part of a path
    Files,          \* local files of the clients
    Size,           \* their numbers of fragments
    MaxCommands,    \* bound: commands entered at consoles
    MaxFaults       \* bound: lost connections, restarts and kick-outs

ASSUME TransferAssumption ==
    /\ Managers \subseteq Users
    /\ FileName \in [Paths -> Names]
    /\ Size \in [Files -> Nat]
    /\ MaxCommands \in Nat
    /\ MaxFaults \in Nat

SessionIds == 1 .. MaxCommands
Hole == <<>>        \* what a skipped fragment reads as
Fragment(f, i) == <<f, i>>
NoSession == [type |-> "none"]

VARIABLES
    \* clients
    put,            \* m_put_session; typed: the console is inside put_file
    get,            \* m_get_session
    local,          \* local files that gets append to
    meta,           \* their .meta files: the next fragment
    c2s, s2c,       \* requests and answers on the way
    \* resource server
    online,         \* users who are logged in
    tree,           \* paths that exist
    sessions, index, \* FileSessionManager: m_session_list by its ids
    waits, nextTrans,             \* transactions that wait for the node
    crashed,        \* a null session was dereferenced
    s2n, n2s,       \* the connection to the storage node
    \* storage node
    nodeSessions,   \* FileSessionManager
    opened,         \* m_file_cache
    files, disk,    \* the files that exist, their fragments
    \* bounds and history
    commands, faults,
    restarts,       \* of the storage node
    calm,           \* nothing was lost, late or at the same time
    failed,         \* a session request was answered with an error
    unanswered,     \* requests that a client still waits for
    finished,       \* the file whose put was last reported as finished
    acked,          \* fragments that were answered as stored
    forwarded, written            \* see FragmentStream

clientVars == <<put, get, local, meta>>
sessionVars == <<sessions, index>>
serverVars == <<online, tree, sessionVars, waits, nextTrans, crashed>>
nodeVars == <<nodeSessions, opened, files, disk>>
links == <<s2n, n2s>>
history == <<restarts, failed, finished, acked, forwarded, written>>
bounds == <<commands, faults>>
vars == <<clientVars, c2s, s2c, serverVars, nodeVars, links, bounds, calm,
          unanswered, history>>

\* Nothing is under way.
Quiet == \A u \in Users : unanswered[u] = 0 /\ ~put[u].typed /\ c2s[u] = <<>>

Init ==
    /\ put = [u \in Users |-> [typed |-> FALSE, path |-> "", file |-> "", max |-> 0, session |-> 0]]
    /\ get = [u \in Users |-> [path |-> "", max |-> 0, session |-> 0]]
    /\ local = [u \in Users |-> [p \in Paths |-> <<>>]]
    /\ meta = [u \in Users |-> [p \in Paths |-> 0]]
    /\ c2s = [u \in Users |-> <<>>]
    /\ s2c = [u \in Users |-> <<>>]
    /\ online = Users
    /\ tree = {}
    /\ sessions = <<>>
    /\ index = [p \in Paths |-> 0]
    /\ waits = {}
    /\ nextTrans = 1
    /\ crashed = FALSE
    /\ s2n = <<>>
    /\ n2s = <<>>
    /\ nodeSessions = <<>>
    /\ opened = {}
    /\ files = {}
    /\ disk = [n \in Names |-> <<>>]
    /\ commands = 0
    /\ faults = 0
    /\ restarts = 0
    /\ calm = TRUE
    /\ failed = FALSE
    /\ unanswered = [u \in Users |-> 0]
    /\ finished = [n \in Names |-> ""]
    /\ acked = {}
    /\ forwarded = [s \in SessionIds |-> 0]
    /\ written = [s \in SessionIds |-> {}]

-----------------------------------------------------------------------------
(* The console of a client *)

Command(u, quiet) ==
    /\ commands < MaxCommands
    /\ ~put[u].typed
    /\ commands' = commands + 1
    /\ calm' = (calm /\ quiet)
    /\ UNCHANGED <<s2c, serverVars, nodeVars, links, faults, history>>

Ask(u, requests) ==
    /\ c2s' = [c2s EXCEPT ![u] = @ \o requests]
    /\ unanswered' = [unanswered EXCEPT ![u] = @ + Len(requests)]

\* put_file writes the session that the handlers of the same client read, first
\* its paths ...
PutCommand(u, f, p) ==
    /\ Command(u, Quiet)
    /\ put' = [put EXCEPT ![u] = [@ EXCEPT !.typed = TRUE, !.path = p, !.file = f]]
    /\ UNCHANGED <<get, local, meta, c2s, unanswered>>

\* ... then the number of fragments, and asks for a session.
PutRequest(u) ==
    /\ put[u].typed
    /\ put' = [put EXCEPT ![u] = [@ EXCEPT !.typed = FALSE, !.max = Size[put[u].file]]]
    /\ Ask(u, <<[kind |-> "putSession", path |-> put[u].path, max |-> Size[put[u].file]]>>)
    /\ UNCHANGED <<get, local, meta, s2c, serverVars, nodeVars, links, bounds, calm, history>>

\* What the storage node will tell a get to be the size of the file.
SizeIsKnown(p) ==
    \A n \in DOMAIN nodeSessions :
        nodeSessions[n].type = "file" /\ nodeSessions[n].name = FileName[p] =>
            nodeSessions[n].max = Len(disk[FileName[p]])

\* get_file.  A second get into the same local file is not calm: it appends.  Nor
\* is one that meets a session of another size, which a put left that had nothing
\* (more) to send: the get is told the size of that put.
GetCommand(u, p) ==
    /\ Command(u, Quiet /\ local[u][p] = <<>> /\ SizeIsKnown(p))
    /\ get' = [get EXCEPT ![u] = [@ EXCEPT !.path = p]]
    /\ Ask(u, <<[kind |-> "getSession", path |-> p]>>)
    /\ UNCHANGED <<put, local, meta>>

\* remove_path: nobody answers.
RemoveCommand(u, p) ==
    /\ Command(u, Quiet)
    /\ c2s' = [c2s EXCEPT ![u] = Append(@, [kind |-> "remove", path |-> p])]
    /\ UNCHANGED <<clientVars, unanswered>>

-----------------------------------------------------------------------------
(* The answers a client receives *)

\* start_put_file: all that is left at once, from the put the console entered last.
Remaining(u, s, next) ==
    LET n == IF put[u].max > next THEN put[u].max - next ELSE 0
    IN  [k \in 1 .. n |-> [kind |-> "put", session |-> s, index |-> next + k - 1,
                           data |-> Fragment(put[u].file, next + k - 1)]]

\* Mutant of Wanted: the loop ends one fragment early.
MutantWantedStopsEarly(u, s, max) ==
    LET next == meta[u][get[u].path]
        n == IF max > next + 1 THEN max - next - 1 ELSE 0
    IN  [k \in 1 .. n |-> [kind |-> "get", session |-> s, index |-> next + k - 1]]
\* start_get_file
Wanted(u, s, max) ==
    LET next == meta[u][get[u].path]
        n == IF max > next THEN max - next ELSE 0
    IN  [k \in 1 .. n |-> [kind |-> "get", session |-> s, index |-> next + k - 1]]

\* Answers that send more requests are counted as answered all the same.
Answered(u, requests) ==
    /\ s2c[u] # <<>>
    /\ s2c' = [s2c EXCEPT ![u] = Tail(@)]
    /\ c2s' = [c2s EXCEPT ![u] = @ \o requests]
    /\ unanswered' = [unanswered EXCEPT ![u] = @ + Len(requests) - 1]
    /\ UNCHANGED <<serverVars, nodeVars, links, bounds, calm, restarts, failed, acked,
                   forwarded, written>>

\* read_handler prints an error and returns.
ReadError(u) ==
    /\ s2c[u] # <<>> /\ ~Head(s2c[u]).ok
    /\ Answered(u, <<>>)
    /\ UNCHANGED <<clientVars, finished>>

ReadPutSession(u) ==
    /\ s2c[u] # <<>> /\ Head(s2c[u]).ok /\ Head(s2c[u]).kind = "putSession"
    /\ put' = [put EXCEPT ![u] = [@ EXCEPT !.session = Head(s2c[u]).session]]
    /\ Answered(u, Remaining(u, Head(s2c[u]).session, Head(s2c[u]).next))
    /\ UNCHANGED <<get, local, meta, finished>>

\* "Put file ... finish" is printed when the last fragment is answered.
ReadPut(u) ==
    /\ s2c[u] # <<>> /\ Head(s2c[u]).ok /\ Head(s2c[u]).kind = "put"
    /\ finished' = IF Head(s2c[u]).index + 1 >= put[u].max
                   THEN [finished EXCEPT ![FileName[put[u].path]] = put[u].file]
                   ELSE finished
    /\ Answered(u, <<>>)
    /\ UNCHANGED clientVars

ReadGetSession(u) ==
    /\ s2c[u] # <<>> /\ Head(s2c[u]).ok /\ Head(s2c[u]).kind = "getSession"
    /\ get' = [get EXCEPT ![u] = [@ EXCEPT !.session = Head(s2c[u]).session,
                                           !.max = Head(s2c[u]).max]]
    /\ Answered(u, Wanted(u, Head(s2c[u]).session, Head(s2c[u]).max))
    /\ UNCHANGED <<put, local, meta, finished>>

\* A file that is open to append takes no notice of a seek.
ReadGet(u) ==
    /\ s2c[u] # <<>> /\ Head(s2c[u]).ok /\ Head(s2c[u]).kind = "get"
    /\ local' = [local EXCEPT ![u][get[u].path] = @ \o Head(s2c[u]).data]
    /\ meta' = IF Head(s2c[u]).index + 1 < get[u].max
               THEN [meta EXCEPT ![u][get[u].path] = Head(s2c[u]).index + 1]
               ELSE meta
    /\ Answered(u, <<>>)
    /\ UNCHANGED <<put, get, finished>>

-----------------------------------------------------------------------------
(* The requests the resource server receives *)

FindSession(type, u, p) ==
    LET s == index[p]
    IN  IF s # 0 /\ sessions[s].type = type /\ sessions[s].user = u THEN s ELSE 0

IsOwn(type, u, s) == s \in DOMAIN sessions /\ sessions[s].type = type /\ sessions[s].user = u

NextSession == Len(sessions) + 1

RegisterSession(session) ==
    /\ sessions' = Append(sessions, session)
    /\ index' = [index EXCEPT ![session.path] = NextSession]

RemoveSession(s) ==
    /\ sessions' = [sessions EXCEPT ![s] = NoSession]
    /\ UNCHANGED index

Received(u, kind) ==
    /\ ~crashed
    /\ c2s[u] # <<>> /\ Head(c2s[u]).kind = kind
    /\ c2s' = [c2s EXCEPT ![u] = Tail(@)]
    /\ UNCHANGED <<clientVars, online, crashed, n2s, nodeVars, bounds, calm, restarts,
                   failed, unanswered, finished, acked, written>>

\* A handler that throws has changed nothing and is answered with an error.
Refuse(u, kind) ==
    /\ s2c' = [s2c EXCEPT ![u] = Append(@, [kind |-> kind, ok |-> FALSE])]
    /\ UNCHANGED <<tree, sessionVars, waits, nextTrans, s2n, forwarded>>

\* service_send_protocol and service_wait_next_phase
Wait(u, kind, s, p, request) ==
    /\ waits' = waits \cup {[id |-> nextTrans, kind |-> kind, user |-> u,
                             session |-> s, path |-> p]}
    /\ nextTrans' = nextTrans + 1
    /\ s2n' = Append(s2n, request)
    /\ UNCHANGED s2c

\* PutFileSessionTrans::on_init.  The path is there before the node has agreed.
PutSessionOnInit(u) ==
    LET m == Head(c2s[u])
        old == FindSession("put", u, m.path)
        s == IF old # 0 THEN old ELSE NextSession
    IN  /\ Received(u, "putSession")
        /\ \/ /\ \/ u \notin online \cap Managers
                 \/ old # 0 /\ sessions[old].max # m.max
                 \/ old = 0 /\ m.path \in tree
              /\ Refuse(u, "putSession")
           \/ /\ u \in online \cap Managers
              /\ \/ /\ old # 0 /\ sessions[old].max = m.max
                    /\ UNCHANGED <<tree, sessionVars>>
                 \/ /\ old = 0 /\ m.path \notin tree
                    /\ tree' = tree \cup {m.path}
                    /\ RegisterSession([type |-> "put", user |-> u, path |-> m.path,
                                        max |-> m.max, next |-> 0, node |-> 0])
              /\ Wait(u, "putSession", s, m.path,
                      [kind |-> "putSession", trans |-> nextTrans,
                       name |-> FileName[m.path], max |-> m.max])
              /\ UNCHANGED forwarded

\* Mutant of IsNext: without the check of the fragment's index.
MutantIsNextAny(u, m) == u \in online /\ IsOwn("put", u, m.session)
IsNext(u, m) ==
    u \in online /\ IsOwn("put", u, m.session) /\ m.index = sessions[m.session].next

\* PutFileTrans::on_init.  The fragment counts before the node has answered.
PutOnInit(u) ==
    LET m == Head(c2s[u])
        s == m.session
    IN  /\ Received(u, "put")
        /\ \/ /\ ~IsNext(u, m)
              /\ Refuse(u, "put")
           \/ /\ IsNext(u, m)
              /\ sessions' = [sessions EXCEPT ![s].next = @ + 1]
              /\ Wait(u, "put", s, sessions[s].path,
                      [kind |-> "put", trans |-> nextTrans, node |-> sessions[s].node,
                       index |-> m.index, data |-> m.data, of |-> s])
              /\ forwarded' = [forwarded EXCEPT ![s] = @ + 1]
              /\ UNCHANGED <<tree, index>>

\* GetFileSessionTrans::on_init
GetSessionOnInit(u) ==
    LET m == Head(c2s[u])
        old == FindSession("get", u, m.path)
        s == IF old # 0 THEN old ELSE NextSession
    IN  /\ Received(u, "getSession")
        /\ \/ /\ ~(u \in online /\ m.path \in tree)
              /\ Refuse(u, "getSession")
           \/ /\ u \in online /\ m.path \in tree
              /\ \/ old # 0 /\ UNCHANGED sessionVars
                 \/ /\ old = 0
                    /\ RegisterSession([type |-> "get", user |-> u, path |-> m.path, node |-> 0])
              /\ Wait(u, "getSession", s, m.path,
                      [kind |-> "getSession", trans |-> nextTrans, name |-> FileName[m.path]])
              /\ UNCHANGED <<tree, forwarded>>

\* GetFileTrans::on_init
GetOnInit(u) ==
    LET m == Head(c2s[u])
        s == m.session
    IN  /\ Received(u, "get")
        /\ \/ /\ ~(u \in online /\ IsOwn("get", u, s) /\ sessions[s].path \in tree)
              /\ Refuse(u, "get")
           \/ /\ u \in online /\ IsOwn("get", u, s) /\ sessions[s].path \in tree
              /\ Wait(u, "get", s, sessions[s].path,
                      [kind |-> "get", trans |-> nextTrans, node |-> sessions[s].node,
                       index |-> m.index])
              /\ UNCHANGED <<tree, sessionVars, forwarded>>

\* RemovePathTrans::on_init.  Sessions and stored contents stay.  (That a
\* refusal is printed by the client is left out.)
RemoveOnInit(u) ==
    /\ Received(u, "remove")
    /\ tree' = IF u \in online \cap Managers THEN tree \ {Head(c2s[u]).path} ELSE tree
    /\ UNCHANGED <<sessionVars, waits, nextTrans, s2c, s2n, forwarded>>

-----------------------------------------------------------------------------
(* The answers of the storage node, and timeouts *)

Reply(w, answer) == s2c' = [s2c EXCEPT ![w.user] = Append(@, answer)]
Failure(w) == [kind |-> w.kind, ok |-> FALSE]

\* Mutant of OnError: the transactions of sessions forget the answer.
MutantOnErrorSilent(w) ==
    IF w.kind \in {"putSession", "getSession"}
    THEN /\ RemoveSession(w.session)
         /\ failed' = TRUE
         /\ UNCHANGED s2c
    ELSE Reply(w, Failure(w)) /\ UNCHANGED <<sessionVars, failed>>
\* MultiplyPhaseTransaction::on_error.  The two kinds of session remove theirs
\* before, whoever else uses it.
OnError(w) ==
    /\ Reply(w, Failure(w))
    /\ IF w.kind \in {"putSession", "getSession"}
       THEN RemoveSession(w.session) /\ failed' = TRUE
       ELSE UNCHANGED <<sessionVars, failed>>

\* Mutant of Activated: the transaction is not removed.
MutantActivatedStays(w, kind) ==
    /\ ~crashed
    /\ n2s # <<>> /\ Head(n2s).trans = w.id /\ w.kind = kind
    /\ n2s' = Tail(n2s)
    /\ UNCHANGED <<waits, clientVars, c2s, online, tree, nextTrans, s2n, nodeVars, bounds,
                   calm, restarts, unanswered, finished, forwarded, written>>
\* The transaction that a message of the node activates.
Activated(w, kind) ==
    /\ ~crashed
    /\ n2s # <<>> /\ Head(n2s).trans = w.id /\ w.kind = kind
    /\ n2s' = Tail(n2s)
    /\ waits' = waits \ {w}
    /\ UNCHANGED <<clientVars, c2s, online, tree, nextTrans, s2n, nodeVars, bounds, calm,
                   restarts, unanswered, finished, forwarded, written>>

\* PutFileSessionTrans::on_active, GetFileSessionTrans::on_active
SessionOnActive(w, kind, type) ==
    LET m == Head(n2s)
        s == w.session
    IN  /\ Activated(w, kind)
        /\ \/ /\ ~m.ok
              /\ OnError(w)
              /\ UNCHANGED crashed
           \/ /\ m.ok /\ sessions[s].type = type
              /\ sessions' = [sessions EXCEPT ![s] = [@ EXCEPT !.node = m.node]]
              /\ Reply(w, IF type = "put"
                          THEN [kind |-> kind, ok |-> TRUE, session |-> s,
                                next |-> sessions[s].next]
                          ELSE [kind |-> kind, ok |-> TRUE, session |-> s, max |-> m.max])
              /\ UNCHANGED <<index, crashed, failed>>
           \/ /\ m.ok /\ sessions[s].type # type
              /\ crashed' = TRUE
              /\ UNCHANGED <<sessionVars, s2c, failed>>
        /\ UNCHANGED acked

PutSessionOnActive(w) == SessionOnActive(w, "putSession", "put")
GetSessionOnActive(w) == SessionOnActive(w, "getSession", "get")

\* Mutant of PutOnActive: a session whose last fragment is stored is removed.
MutantPutOnActiveEnds(w) ==
    LET m == Head(n2s)
        good == m.ok /\ w.user \in online
    IN  /\ Activated(w, "put")
        /\ Reply(w, IF good THEN [kind |-> "put", ok |-> TRUE, index |-> m.index] ELSE Failure(w))
        /\ IF good /\ sessions[w.session].type = "put" /\ m.index + 1 = sessions[w.session].max
           THEN RemoveSession(w.session) ELSE UNCHANGED sessionVars
        /\ UNCHANGED <<acked, crashed, failed>>
\* PutFileTrans::on_active
PutOnActive(w) ==
    LET m == Head(n2s)
        good == m.ok /\ w.user \in online
    IN  /\ Activated(w, "put")
        /\ Reply(w, IF good THEN [kind |-> "put", ok |-> TRUE, index |-> m.index] ELSE Failure(w))
        /\ acked' = IF good THEN acked \cup {[name |-> FileName[w.path], index |-> m.index]}
                    ELSE acked
        /\ UNCHANGED <<sessionVars, crashed, failed>>

\* GetFileTrans::on_active
GetOnActive(w) ==
    LET m == Head(n2s)
    IN  /\ Activated(w, "get")
        /\ Reply(w, IF m.ok /\ w.user \in online
                    THEN [kind |-> "get", ok |-> TRUE, index |-> m.index, data |-> m.data]
                    ELSE Failure(w))
        /\ UNCHANGED <<sessionVars, crashed, failed, acked>>

\* Nobody waits for the answer any more.
LateAnswer ==
    /\ ~crashed
    /\ n2s # <<>> /\ \A w \in waits : w.id # Head(n2s).trans
    /\ n2s' = Tail(n2s)
    /\ UNCHANGED <<clientVars, c2s, s2c, serverVars, nodeVars, s2n, bounds, calm,
                   unanswered, history>>

\* Every wait lasts as long, so the oldest ends first.
Timeout(w) ==
    /\ ~crashed
    /\ \A x \in waits : w.id <= x.id
    /\ waits' = waits \ {w}
    /\ OnError(w)
    /\ calm' = FALSE
    /\ UNCHANGED <<clientVars, c2s, online, tree, nextTrans, crashed, links, nodeVars,
                   bounds, restarts, unanswered, finished, acked, forwarded, written>>

-----------------------------------------------------------------------------
(* The storage node *)

\* FileSessionManager::find_session by file name: puts and gets alike.
NodeSessionsOf(name) ==
    {n \in DOMAIN nodeSessions : nodeSessions[n].type = "file" /\ nodeSessions[n].name = name}

NodeReceived(kind) ==
    /\ s2n # <<>> /\ Head(s2n).kind = kind
    /\ s2n' = Tail(s2n)
    /\ UNCHANGED <<clientVars, c2s, s2c, serverVars, bounds, calm, restarts, failed,
                   unanswered, finished, acked, forwarded>>

NodeReply(answer) == n2s' = Append(n2s, answer)
NodeError == [trans |-> Head(s2n).trans, ok |-> FALSE]

NextNode == Len(nodeSessions) + 1

RegisterNodeSession(name, max) ==
    nodeSessions' = Append(nodeSessions, [type |-> "file", name |-> name, max |-> max])

\* on_put_file_session
NodePutSession ==
    LET m == Head(s2n)
        found == NodeSessionsOf(m.name)
    IN  /\ NodeReceived("putSession")
        /\ \/ \E n \in found :
                 /\ NodeReply(IF nodeSessions[n].max = m.max
                              THEN [trans |-> m.trans, ok |-> TRUE, node |-> n] ELSE NodeError)
                 /\ UNCHANGED nodeSessions
           \/ /\ found = {}
              /\ RegisterNodeSession(m.name, m.max)
              /\ NodeReply([trans |-> m.trans, ok |-> TRUE, node |-> NextNode])
        /\ UNCHANGED <<opened, files, disk, written>>

\* Mutant of Opened: every write opens the file anew.
MutantOpenedAlways(name) == <<>>
\* The contents a stream of the cache sees: "wb+" empties the file when the
\* storage node opens it for the first time.
Opened(name) == IF name \in opened THEN disk[name] ELSE <<>>

\* Mutant of WriteAt: without the seek.
MutantWriteAtEnd(contents, i, data) == Append(contents, data)
WriteAt(contents, i, data) ==
    [k \in 1 .. (IF i + 1 > Len(contents) THEN i + 1 ELSE Len(contents)) |->
        IF k = i + 1 THEN data ELSE IF k <= Len(contents) THEN contents[k] ELSE Hole]

\* What lies behind the end reads as nothing.
ReadAt(contents, i) == IF i < Len(contents) THEN <<contents[i + 1]>> ELSE <<>>

IsNodeSession(n, i) ==
    n \in DOMAIN nodeSessions /\ nodeSessions[n].type = "file" /\ i < nodeSessions[n].max

EndAtLast(n, i) ==
    nodeSessions' = IF i + 1 = nodeSessions[n].max
                    THEN [nodeSessions EXCEPT ![n] = NoSession] ELSE nodeSessions

\* on_put_file
NodePut ==
    LET m == Head(s2n)
        name == nodeSessions[m.node].name
    IN  /\ NodeReceived("put")
        /\ \/ /\ ~IsNodeSession(m.node, m.index)
              /\ NodeReply(NodeError)
              /\ UNCHANGED <<nodeVars, written>>
           \/ /\ IsNodeSession(m.node, m.index)
              /\ disk' = [disk EXCEPT ![name] = WriteAt(Opened(name), m.index, m.data)]
              /\ opened' = opened \cup {name}
              /\ files' = files \cup {name}
              /\ EndAtLast(m.node, m.index)
              /\ NodeReply([trans |-> m.trans, ok |-> TRUE, index |-> m.index])
              /\ written' = [written EXCEPT ![m.of] = @ \cup {m.index}]

\* on_get_file_session.  The session is registered before the file is opened to
\* learn its size, and stays when there is none.
NodeGetSession ==
    LET m == Head(s2n)
        found == NodeSessionsOf(m.name)
    IN  /\ NodeReceived("getSession")
        /\ \/ \E n \in found :
                 /\ NodeReply([trans |-> m.trans, ok |-> TRUE, node |-> n,
                               max |-> nodeSessions[n].max])
                 /\ UNCHANGED nodeSessions
           \/ /\ found = {} /\ m.name \in files
              /\ RegisterNodeSession(m.name, Len(disk[m.name]))
              /\ NodeReply([trans |-> m.trans, ok |-> TRUE, node |-> NextNode,
                            max |-> Len(disk[m.name])])
           \/ /\ found = {} /\ m.name \notin files
              /\ RegisterNodeSession(m.name, 0)
              /\ NodeReply(NodeError)
        /\ UNCHANGED <<opened, files, disk, written>>

\* on_get_file
NodeGet ==
    LET m == Head(s2n)
        name == nodeSessions[m.node].name
    IN  /\ NodeReceived("get")
        /\ \/ /\ ~(IsNodeSession(m.node, m.index) /\ name \in files)
              /\ NodeReply(NodeError)
              /\ UNCHANGED nodeVars
           \/ /\ IsNodeSession(m.node, m.index)
              /\ name \in files
              /\ opened' = opened \cup {name}
              /\ disk' = [disk EXCEPT ![name] = Opened(name)]
              /\ EndAtLast(m.node, m.index)
              /\ NodeReply([trans |-> m.trans, ok |-> TRUE, index |-> m.index,
                            data |-> ReadAt(Opened(name), m.index)])
              /\ UNCHANGED files
        /\ UNCHANGED written

-----------------------------------------------------------------------------
(* What goes wrong *)

Fault ==
    /\ faults < MaxFaults
    /\ faults' = faults + 1
    /\ calm' = FALSE
    /\ UNCHANGED <<clientVars, c2s, s2c, tree, sessionVars, waits, nextTrans, crashed,
                   files, disk, commands, failed, unanswered, finished, acked, forwarded, written>>

\* The connection to the storage node breaks: what was on it is lost, what the
\* reactor of the server has yet to send goes over the next one, and what the
\* server has already received stays.
LoseConnection ==
    /\ Fault
    /\ s2n \o n2s # <<>>
    /\ \E k \in 0 .. Len(s2n) : s2n' = SubSeq(s2n, k + 1, Len(s2n))
    /\ \E k \in 0 .. Len(n2s) : n2s' = SubSeq(n2s, 1, k)
    /\ UNCHANGED <<online, nodeSessions, opened, restarts>>

\* The storage node stops in order, which flushes its files, and starts again.
RestartNode ==
    /\ Fault
    /\ nodeSessions' = <<>>
    /\ opened' = {}
    /\ \E k \in 0 .. Len(s2n) : s2n' = SubSeq(s2n, k + 1, Len(s2n))
    /\ \E k \in 0 .. Len(n2s) : n2s' = SubSeq(n2s, 1, k)
    /\ restarts' = restarts + 1
    /\ UNCHANGED online

\* kick_out_offline_users
KickOut(u) ==
    /\ Fault
    /\ u \in online
    /\ online' = online \ {u}
    /\ UNCHANGED <<nodeSessions, opened, links, restarts>>

Login(u) ==
    /\ ~crashed
    /\ u \notin online
    /\ online' = online \cup {u}
    /\ UNCHANGED <<clientVars, c2s, s2c, tree, sessionVars, waits, nextTrans, crashed, nodeVars,
                   links, bounds, calm, unanswered, history>>

-----------------------------------------------------------------------------
Client(u) ==
    \/ PutRequest(u)
    \/ ReadError(u) \/ ReadPutSession(u) \/ ReadPut(u) \/ ReadGetSession(u) \/ ReadGet(u)

Console(u) ==
    \/ \E f \in Files, p \in Paths : PutCommand(u, f, p)
    \/ \E p \in Paths : GetCommand(u, p) \/ RemoveCommand(u, p)

Request(u) ==
    \/ PutSessionOnInit(u) \/ PutOnInit(u) \/ GetSessionOnInit(u) \/ GetOnInit(u)
    \/ RemoveOnInit(u)

Answer ==
    \/ \E w \in waits :
          PutSessionOnActive(w) \/ PutOnActive(w) \/ GetSessionOnActive(w) \/ GetOnActive(w)
    \/ LateAnswer

Node == NodePutSession \/ NodePut \/ NodeGetSession \/ NodeGet

Next ==
    \/ \E u \in Users : Client(u) \/ Console(u) \/ Request(u) \/ KickOut(u) \/ Login(u)
    \/ Answer
    \/ \E w \in waits : Timeout(w)
    \/ Node
    \/ LoseConnection
    \/ RestartNode

Spec == Init /\ [][Next]_vars

\* Workers take their messages and their timers in every turn; nobody has to
\* enter a command, to log in, or to break anything.
FairSpec ==
    /\ Spec
    /\ \A u \in Users : WF_vars(Client(u)) /\ WF_vars(Request(u))
    /\ WF_vars(Answer)
    /\ WF_vars(\E w \in waits : Timeout(w))
    /\ WF_vars(Node)

-----------------------------------------------------------------------------
SessionType ==
    {NoSession}
    \cup [type : {"put"}, user : Users, path : Paths, max : Nat, next : Nat, node : Nat]
    \cup [type : {"get"}, user : Users, path : Paths, node : Nat]

NodeSessionType == {NoSession} \cup [type : {"file"}, name : Names, max : Nat]

\* Every variable has its type; no request is answered twice.
TypeOK ==
    /\ \A u \in Users :
          /\ put[u].typed \in BOOLEAN
          /\ put[u].typed \/ put[u].max > 0 => put[u].file \in Files /\ put[u].path \in Paths
          /\ local[u] \in [Paths -> Seq((Files \X Nat) \cup {Hole})]
          /\ meta[u] \in [Paths -> Nat]
          /\ unanswered[u] \in Nat
    /\ online \subseteq Users
    /\ tree \subseteq Paths
    /\ sessions \in Seq(SessionType)
    /\ \A p \in Paths : index[p] \in 0 .. Len(sessions)
    /\ \A w \in waits : w.id < nextTrans /\ w.session \in DOMAIN sessions
    /\ nodeSessions \in Seq(NodeSessionType)
    /\ opened \subseteq files
    /\ files \subseteq Names
    /\ disk \in [Names -> Seq((Files \X Nat) \cup {Hole})]

\* A fragment whose put was answered as a success is stored, at its place, in
\* the file of that name, until the storage node is started again: whatever
\* timed out, was lost, removed, put or read in between.
AckedIsStored ==
    restarts = 0 =>
        \A a \in acked :
            /\ a.index < Len(disk[a.name])
            /\ \E f \in Files : disk[a.name][a.index + 1] = Fragment(f, a.index)

\* When users put one file after the other and nothing is lost or late, then the
\* last put that was reported as finished is stored from its first fragment to
\* its last.
FinishedIsWhole ==
    calm /\ Quiet =>
        \A n \in Names : finished[n] # "" =>
            \A k \in 1 .. Size[finished[n]] :
                k <= Len(disk[n]) /\ disk[n][k] = Fragment(finished[n], k - 1)

\* In the same case, a get into a new local file ends with a copy of what is stored.
GotIsWhole ==
    [][\A u \in Users :
          calm /\ local'[u] # local[u] /\ unanswered'[u] = 0 =>
              local'[u][get[u].path] = disk[FileName[get[u].path]]]_vars

\* The server dereferences a session that is gone only after a request for a
\* session failed: while all of them succeed, nobody removes a session that
\* somebody else waits for.
CrashNeedsFailure == crashed => failed

\* Every request of a client is answered, unless the server has crashed:
\* whatever is lost, a timer ends the wait.
EveryRequestAnswered ==
    \A u \in Users : unanswered[u] > 0 ~> (unanswered[u] = 0 \/ crashed)

\* Each fragment is written once, in order, after it was forwarded.
Stream == INSTANCE FragmentStream WITH Streams <- SessionIds
ImplementsStream == Stream!Spec

\* README.md promises "transferring from the point of interruption": when a put
\* is asked for again and nothing else is under way, it goes on at a fragment
\* before which everything is stored.
ResumesAtInterruption ==
    \A u \in Users :
        waits = {} /\ Len(s2c[u]) = 1 =>
            LET m == Head(s2c[u])
            IN  m.kind = "putSession" /\ m.ok =>
                    m.next <= Len(disk[FileName[sessions[m.session].path]])
=============================================================================
