----------------------------- MODULE Connection -----------------------------
(***************************************************************************)
(* The two ends of a connection (foundation/details/network_impl.cpp): how *)
(* they agree on its security, what waits until they have, how packages    *)
(* are written and read, and how an end closes.                            *)
(*                                                                         *)
(* The active end connected, the passive end accepts.  Each lives in the   *)
(* network thread of its own process, so one action is one run of a socket *)
(* handler or of a call from the OUT queue.  A package is on the wire once *)
(* its last byte is written; until then it is the head of the send list.   *)
(* The wire is TCP: in order, nothing lost while both ends live, and it    *)
(* holds no more than the buffers of the two sockets.  The content of a    *)
(* package is left out, but not whether it is encrypted.                   *)
(***************************************************************************)
EXTENDS Naturals, Sequences, FiniteSets, SequencesExt

CONSTANTS
    MaxSends,  \* bound: packages the worker of each end sends
    Room       \* packages that fit between two ends when nobody reads

ASSUME ConnectionAssumption == MaxSends \in Nat /\ Room \in Nat

Ends == {"active", "passive"}
Other(e) == IF e = "active" THEN "passive" ELSE "active"

VARIABLES
    secure,      \* the listener has SecuritySetting::OPEN_SECURITY
    sameVersion, \* the two processes have the same PACKAGE_VERSION
    life,        \* before accept "none", then is_open(), m_is_closing, deleted
    opening,     \* m_is_opening
    crypto,      \* m_secure_conn: none, or SecureConnection::m_state
    pending,     \* NetworkConnectionImpl::m_pending_list
    pendingKey,  \* SecureConnection::m_pending_list
    sendList,    \* m_send_list
    wire,        \* what an end has written and the other has not read
    registered,  \* the packages of an end that PackageManager holds
    sent,        \* history: what the worker of an end has sent
    delivered    \* history: what the worker of an end has received

given == <<secure, sameVersion>>  \* fixed before the connection is made
vars == <<given, life, opening, crypto, pending, pendingKey, sendList, wire,
          registered, sent, delivered>>

Ids == 1 .. MaxSends
\* A package of the worker has a number, those of the connection itself have 0.
Kinds == {"setting", "request", "response", "version", "app"}
Package == [kind : Kinds, id : 0 .. MaxSends, cipher : BOOLEAN]
Control(kind) == [kind |-> kind, id |-> 0, cipher |-> FALSE]
\* Mutant of App: the next id is taken before it is given.
MutantAppNextId(id) == [kind |-> "app", id |-> id + 1, cipher |-> FALSE]
App(id) == [kind |-> "app", id |-> id, cipher |-> FALSE]
Encrypted(p) == [p EXCEPT !.cipher = TRUE]

TypeOK ==
    /\ secure \in BOOLEAN
    /\ sameVersion \in BOOLEAN
    /\ life \in [Ends -> {"none", "open", "closing", "gone"}]
    /\ opening \in [Ends -> BOOLEAN]
    /\ crypto \in [Ends -> {"none", "starting", "started"}]
    /\ pending \in [Ends -> Seq(Package)]
    /\ pendingKey \in [Ends -> Seq(Package)]
    /\ sendList \in [Ends -> Seq(Package)]
    /\ wire \in [Ends -> Seq(Package)]
    /\ registered \in [Ends -> SUBSET Package]
    /\ sent \in [Ends -> Seq(Ids)]
    /\ delivered \in [Ends -> Seq(0 .. MaxSends)]

Nothing == [e \in Ends |-> <<>>]

\* The active end is connected and waits for the security setting.
Init ==
    /\ secure \in BOOLEAN
    /\ sameVersion \in BOOLEAN
    /\ life = [e \in Ends |-> IF e = "active" THEN "open" ELSE "none"]
    /\ opening = [e \in Ends |-> TRUE]
    /\ crypto = [e \in Ends |-> "none"]
    /\ pending = Nothing
    /\ pendingKey = Nothing
    /\ sendList = Nothing
    /\ wire = Nothing
    /\ registered = [e \in Ends |-> {}]
    /\ sent = Nothing
    /\ delivered = Nothing

-----------------------------------------------------------------------------
(* Writing and closing, the operations all the handlers share *)

\* The socket takes n packages more: its buffer and that of the other end, which
\* only a read makes empty, have room for them.
Fits(e, n) == Len(wire[e]) + n <= Room

Plain(p) == [p EXCEPT !.cipher = FALSE]
\* Mutant of Held: what is written stays registered.
MutantHeldForEver(e, gained, list) == registered[e] \cup {Plain(p) : p \in gained}
Held(e, gained, list) == (registered[e] \cup {Plain(p) : p \in gained})
                             \ {Plain(p) : p \in Range(list)}

\* Mutant of SendRaw: a socket with room is written to before the send list is.
MutantSendRawOvertakes(e, list, new) ==
    \E n \in 0 .. Len(list) :
        /\ Fits(e, n)
        /\ wire' = [wire EXCEPT ![e] = @ \o SubSeq(list, 1, n)]
        /\ sendList' = [sendList EXCEPT ![e] = @ \o SubSeq(list, n + 1, Len(list))]
        /\ registered' = [registered EXCEPT
              ![e] = Held(e, new, SubSeq(list, 1, n))]

\* send_raw_package for each of a list of packages: the socket takes as many as
\* it has room for, the rest waits in the send list, behind what is there.
\* Those that are new are registered, those that are written are removed.
SendRaw(e, list, new) ==
    \E n \in 0 .. Len(list) :
        /\ Fits(e, n) /\ (sendList[e] # <<>> => n = 0)
        /\ wire' = [wire EXCEPT ![e] = @ \o SubSeq(list, 1, n)]
        /\ sendList' = [sendList EXCEPT ![e] = @ \o SubSeq(list, n + 1, Len(list))]
        /\ registered' = [registered EXCEPT
              ![e] = Held(e, new, SubSeq(list, 1, n))]

\* The destructor: the send list is removed package by package, the pending
\* lists are deleted as they are.
Destroyed(e, list) ==
    /\ life' = [life EXCEPT ![e] = "gone"]
    /\ sendList' = [sendList EXCEPT ![e] = <<>>]
    /\ pending' = [pending EXCEPT ![e] = <<>>]
    /\ pendingKey' = [pendingKey EXCEPT ![e] = <<>>]
    /\ registered' = [registered EXCEPT ![e] = Held(e, {}, list)]

\* close(): at once when nothing waits in the send list, else after it is sent.
CloseEnd(e) ==
    IF sendList[e] = <<>> THEN Destroyed(e, <<>>)
    ELSE /\ life' = [life EXCEPT ![e] = "closing"]
         /\ UNCHANGED <<pending, pendingKey, sendList, registered>>

-----------------------------------------------------------------------------
(* Calls from the worker, through the OUT queue *)

Send(e) ==
    LET id == Len(sent[e]) + 1
        p == App(id)
    IN  /\ life[e] = "open"
        /\ id <= MaxSends
        /\ sent' = [sent EXCEPT ![e] = Append(@, id)]
        /\ \/ /\ crypto[e] = "started"
              /\ SendRaw(e, <<Encrypted(p)>>, {p})
              /\ UNCHANGED <<pending, pendingKey>>
           \/ /\ crypto[e] = "starting"
              /\ pendingKey' = [pendingKey EXCEPT ![e] = Append(@, p)]
              /\ registered' = [registered EXCEPT ![e] = @ \cup {p}]
              /\ UNCHANGED <<pending, sendList, wire>>
           \/ /\ crypto[e] = "none" /\ opening[e]
              /\ pending' = [pending EXCEPT ![e] = Append(@, p)]
              /\ registered' = [registered EXCEPT ![e] = @ \cup {p}]
              /\ UNCHANGED <<pendingKey, sendList, wire>>
           \/ /\ crypto[e] = "none" /\ ~opening[e]
              /\ SendRaw(e, <<p>>, {p})
              /\ UNCHANGED <<pending, pendingKey>>
        /\ UNCHANGED <<given, life, opening, crypto, delivered>>

\* remove_connection; a connection that is closing already stays so.
Close(e) ==
    /\ life[e] = "open"
    /\ CloseEnd(e)
    /\ UNCHANGED <<given, opening, crypto, wire, sent, delivered>>

-----------------------------------------------------------------------------
(* Handlers of the socket *)

\* The constructor of the passive end tells its security setting, and the public
\* key with it when it opens security.
Accept ==
    LET hello == IF secure THEN <<Control("setting"), Control("request")>>
                 ELSE <<Control("setting")>>
    IN  /\ life["passive"] = "none"
        /\ life' = [life EXCEPT !["passive"] = "open"]
        /\ SendRaw("passive", hello, Range(hello))
        /\ crypto' = [crypto EXCEPT !["passive"] = IF secure THEN "starting" ELSE "none"]
        /\ opening' = [opening EXCEPT !["passive"] = FALSE]
        /\ UNCHANGED <<given, pending, pendingKey, sent, delivered>>

\* Mutant of Writable: an end that closes is not looked at again.
MutantWritableOnly(e) ==
    /\ life[e] \in {"open", "closing"}
    /\ sendList[e] # <<>> /\ Fits(e, 1)
    /\ wire' = [wire EXCEPT ![e] = Append(@, Head(sendList[e]))]
    /\ sendList' = [sendList EXCEPT ![e] = Tail(@)]
    /\ registered' = [registered EXCEPT ![e] = Held(e, {}, <<Head(sendList[e])>>)]
    /\ UNCHANGED <<given, life, opening, crypto, pending, pendingKey, sent, delivered>>

\* on_writable: the rest of the first package is written, or a part of it, which
\* changes nothing here.  The last one takes a closing end with it.
Writable(e) ==
    LET rest == [sendList EXCEPT ![e] = Tail(@)] IN
    /\ life[e] \in {"open", "closing"}
    /\ sendList[e] # <<>> /\ Fits(e, 1)
    /\ wire' = [wire EXCEPT ![e] = Append(@, Head(sendList[e]))]
    /\ IF rest[e] = <<>> /\ life[e] = "closing"
       THEN Destroyed(e, sendList[e])
       ELSE /\ sendList' = rest
            /\ registered' = [registered EXCEPT
                  ![e] = Held(e, {}, <<Head(sendList[e])>>)]
            /\ UNCHANGED <<life, pending, pendingKey>>
    /\ UNCHANGED <<given, opening, crypto, sent, delivered>>

\* A closing end does not read.
Read(e) ==
    /\ life[e] = "open"
    /\ wire[Other(e)] # <<>>

\* The other end has another version: it is told so, unless it has found out.
ReadOtherVersion(e) ==
    LET note == Control("version") IN
    /\ Read(e)
    /\ ~sameVersion
    /\ IF Head(wire[Other(e)]).kind = "version"
       THEN /\ CloseEnd(e)
            /\ wire' = [wire EXCEPT ![Other(e)] = Tail(@)]
       ELSE \/ /\ sendList[e] = <<>> /\ Fits(e, 1)
               /\ wire' = [wire EXCEPT ![Other(e)] = Tail(@), ![e] = Append(@, note)]
               /\ Destroyed(e, <<>>)
            \/ /\ wire' = [wire EXCEPT ![Other(e)] = Tail(@)]
               /\ life' = [life EXCEPT ![e] = "closing"]
               /\ sendList' = [sendList EXCEPT ![e] = Append(@, note)]
               /\ registered' = [registered EXCEPT ![e] = @ \cup {note}]
               /\ UNCHANGED <<pending, pendingKey>>
    /\ UNCHANGED <<given, opening, crypto, sent, delivered>>

\* What a handler that has read the head of the wire sends: SendRaw, with the
\* other direction of the wire one package shorter.
ReadAndSend(e, list, new) ==
    \E n \in 0 .. Len(list) :
        /\ Fits(e, n) /\ (sendList[e] # <<>> => n = 0)
        /\ wire' = [wire EXCEPT ![Other(e)] = Tail(@), ![e] = @ \o SubSeq(list, 1, n)]
        /\ sendList' = [sendList EXCEPT ![e] = @ \o SubSeq(list, n + 1, Len(list))]
        /\ registered' = [registered EXCEPT
              ![e] = Held(e, new, SubSeq(list, 1, n))]

EncryptedAll(list) == [i \in DOMAIN list |-> Encrypted(list[i])]

\* Mutant of ReadSetting: the waiting packages are sent before SecureConnection is
\* created.
MutantReadSettingTooEarly(e) ==
    /\ Read(e)
    /\ sameVersion
    /\ Head(wire[Other(e)]).kind = "setting"
    /\ e = "active" /\ opening[e]
    /\ opening' = [opening EXCEPT ![e] = FALSE]
    /\ crypto' = [crypto EXCEPT ![e] = IF secure THEN "starting" ELSE "none"]
    /\ pending' = [pending EXCEPT ![e] = <<>>]
    /\ ReadAndSend(e, pending[e], {})
    /\ UNCHANGED <<given, life, pendingKey, sent, delivered>>

\* The active end learns the security setting; what was sent before goes on, to
\* the socket or to the second waiting list.
ReadSetting(e) ==
    /\ Read(e)
    /\ sameVersion
    /\ Head(wire[Other(e)]).kind = "setting"
    /\ e = "active" /\ opening[e]
    /\ opening' = [opening EXCEPT ![e] = FALSE]
    /\ crypto' = [crypto EXCEPT ![e] = IF secure THEN "starting" ELSE "none"]
    /\ pending' = [pending EXCEPT ![e] = <<>>]
    /\ IF secure
       THEN /\ pendingKey' = [pendingKey EXCEPT ![e] = @ \o pending[e]]
            /\ ReadAndSend(e, <<>>, {})
       ELSE /\ ReadAndSend(e, pending[e], {})
            /\ UNCHANGED pendingKey
    /\ UNCHANGED <<given, life, sent, delivered>>

\* Mutant of ReadKey: the waiting packages are sent before the answer.
MutantReadKeyAnswersLast(e) ==
    LET kind == Head(wire[Other(e)]).kind
        answer == IF e = "active" THEN <<Control("response")>> ELSE <<>>
    IN  /\ Read(e)
        /\ sameVersion
        /\ ~opening[e] /\ crypto[e] = "starting"
        /\ kind = (IF e = "active" THEN "request" ELSE "response")
        /\ crypto' = [crypto EXCEPT ![e] = "started"]
        /\ ReadAndSend(e, EncryptedAll(pendingKey[e]) \o answer, Range(answer))
        /\ pendingKey' = [pendingKey EXCEPT ![e] = <<>>]
        /\ UNCHANGED <<given, life, opening, pending, sent, delivered>>

\* The handshake of a secure connection: the public key is answered with the key
\* of this connection, and what waited for it is sent encrypted.
ReadKey(e) ==
    LET kind == Head(wire[Other(e)]).kind
        answer == IF e = "active" THEN <<Control("response")>> ELSE <<>>
    IN  /\ Read(e)
        /\ sameVersion
        /\ ~opening[e] /\ crypto[e] = "starting"
        /\ kind = (IF e = "active" THEN "request" ELSE "response")
        /\ crypto' = [crypto EXCEPT ![e] = "started"]
        /\ ReadAndSend(e, answer \o EncryptedAll(pendingKey[e]), Range(answer))
        /\ pendingKey' = [pendingKey EXCEPT ![e] = <<>>]
        /\ UNCHANGED <<given, life, opening, pending, sent, delivered>>

\* The package is for the worker: it is decrypted if this end thinks that it has
\* to be.  0 stands for a content that comes out wrong.
ReadApp(e) ==
    LET p == Head(wire[Other(e)]) IN
    /\ Read(e)
    /\ sameVersion
    /\ p.kind # "setting" /\ ~opening[e] /\ crypto[e] # "starting"
    /\ delivered' = [delivered EXCEPT
          ![e] = Append(@, IF p.cipher = (crypto[e] = "started") THEN p.id ELSE 0)]
    /\ ReadAndSend(e, <<>>, {})
    /\ UNCHANGED <<given, life, opening, crypto, pending, pendingKey, sent>>

\* The other end is gone and its packages are read, or lost with a reset; or the
\* network breaks.
Lost(e) ==
    /\ life[e] \in {"open", "closing"}
    /\ Destroyed(e, sendList[e])
    /\ UNCHANGED <<given, opening, crypto, wire, sent, delivered>>

-----------------------------------------------------------------------------

Reading(e) == ReadOtherVersion(e) \/ ReadSetting(e) \/ ReadKey(e) \/ ReadApp(e)

Next ==
    \/ Accept
    \/ \E e \in Ends : Send(e) \/ Close(e) \/ Writable(e) \/ Reading(e) \/ Lost(e)

\* The reactor serves a socket that has room or data.  An end that does not read
\* leaves the other one without room in the end, and a write to an end that is gone
\* throws; the workers send and close when they like to, and the network need not
\* break.
Fairness ==
    /\ WF_vars(Accept)
    /\ \A e \in Ends :
          /\ WF_vars(life[Other(e)] # "gone" /\ Writable(e))
          /\ WF_vars(Reading(e))

Spec == Init /\ [][Next]_vars
FairSpec == Spec /\ Fairness

-----------------------------------------------------------------------------

\* The ends never disagree about the security of the connection: a package of
\* the worker is never read by an end that ignores it or cannot decrypt it,
\* however the sends of both workers meet the handshake.
EndsAgree ==
    \A e \in Ends : Read(e) /\ sameVersion =>
        LET p == Head(wire[Other(e)]) IN
        \/ p.kind = "setting" /\ e = "active" /\ opening[e]
        \/ p.kind = "request" /\ e = "active" /\ ~opening[e] /\ crypto[e] = "starting"
        \/ p.kind = "response" /\ e = "passive" /\ crypto[e] = "starting"
        \/ p.kind = "app" /\ ~opening[e]
              /\ crypto[e] = IF p.cipher THEN "started" ELSE "none"

\* Nothing of a worker leaves an end of a secure connection in plain text, not
\* even what was sent before the active end knew that it is secure.
SecureIsEncrypted ==
    \A e \in Ends : \A i \in DOMAIN wire[e] :
        secure /\ wire[e][i].kind = "app" => wire[e][i].cipher

Waiting(e) == pending[e] \o pendingKey[e] \o sendList[e]

\* An end that lives owns each of its packages once: none is both waiting and
\* removed, none is held by nobody.
OwnedByOneList ==
    \A e \in Ends : life[e] # "gone" =>
        /\ {Plain(p) : p \in Range(Waiting(e))} = registered[e]
        /\ Cardinality(registered[e]) = Len(Waiting(e))

InOrder == INSTANCE Channel
    WITH up <- \A e \in Ends : life[e] \in {"none", "open"}

\* A connection is the channel of Channel, whatever its security.
ImplementsChannel == InOrder!Spec

\* Both ends wait to write and neither reads: they wait for ever.
Jammed == \A e \in Ends : life[e] = "closing" /\ ~Fits(e, 1)

\* network_impl.cpp:296: "Delay to delete this after send all message."  An end that
\* closes writes what is left and is deleted, unless the other one is gone before it
\* has read all, or closes too while both sockets are full.  What an end has to write
\* and who reads it changes with every send, read and close.
CloseEnds ==
    \A e \in Ends :
        life[e] = "closing" ~> "gone" \in {life[e], life[Other(e)]} \/ Jammed

=============================================================================
