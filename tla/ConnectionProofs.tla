-------------------------- MODULE ConnectionProofs --------------------------
(***************************************************************************)
(* Theorems about Connection, for any number of packages: how the ends     *)
(* agree on the security of the connection, and that each package is owned *)
(* once, is encrypted where it has to be and arrives in order.             *)
(***************************************************************************)
EXTENDS Connection, FunctionTheorems, FiniteSetTheorems, SequenceTheorems, TLAPS

\* A name for \o, which the provers would otherwise take apart in every equality.
Joined(a, b) == a \o b

\* What an end has sent to the other, written or not, and the other has not read.
Flow(e) == Joined(wire[e], sendList[e])

\* The control packages that are first in it: what the reader has yet to learn.
Controls(e) ==
    IF e = "passive"
    THEN IF life["passive"] = "none" THEN <<>>
         ELSE IF opening["active"]
         THEN IF secure THEN <<"setting", "request">> ELSE <<"setting">>
         ELSE IF crypto["active"] = "starting" THEN <<"request">> ELSE <<>>
    ELSE IF crypto["active"] = "started" /\ crypto["passive"] = "starting"
         THEN <<"response">> ELSE <<>>

\* The states the two ends can be in together, of whichever version they are.
Handshake ==
    /\ life["active"] # "none"
    /\ life["passive"] = "none" =>
          /\ opening["active"] /\ crypto["passive"] = "none"
          /\ wire["passive"] = <<>> /\ sendList["passive"] = <<>>
    /\ opening["active"] => crypto["active"] = "none"
    /\ ~opening["active"] => (crypto["active"] = "none" <=> ~secure)
    /\ life["passive"] # "none" =>
          ~opening["passive"] /\ (crypto["passive"] = "none" <=> ~secure)
    /\ pending["passive"] = <<>>
    /\ pending["active"] # <<>> => opening["active"]
    /\ \A e \in Ends : pendingKey[e] # <<>> => crypto[e] = "starting"

\* Ends of one version: an end says nothing before it has the other's word.
KeysAgree ==
    /\ crypto["active"] # "started" =>
          crypto["passive"] # "started" /\ (secure => Flow("active") = <<>>)
    /\ opening["active"] => Flow("active") = <<>>

\* A flow is what its reader thinks it is: first the control packages, then packages
\* of the worker, encrypted if they have to be and numbered from n + 1 to at most last.
IsFlow(flow, controls, n, last, encrypted) ==
    \A i \in DOMAIN flow :
        IF i <= Len(controls) THEN flow[i].kind = controls[i]
        ELSE /\ flow[i].kind = "app" /\ flow[i].cipher = encrypted
             /\ flow[i].id = n + i - Len(controls) /\ flow[i].id <= last

\* How many packages of the worker of e have left it, as far as they have come.
Passed(e) == Len(delivered[Other(e)]) + Len(Flow(e)) - Len(Controls(e))

NumberedFrom(list, n) == \A i \in DOMAIN list : list[i].id = n + i

OneFlow(e) ==
    /\ \A i \in DOMAIN sent[e] : sent[e][i] = i
    /\ IsFlow(Flow(e), Controls(e), Len(delivered[Other(e)]), Len(sent[e]), secure)
    /\ life[e] # "gone" =>
          /\ Len(Controls(e)) <= Len(Flow(e))
          /\ Len(sent[e]) = Passed(e) + Len(pendingKey[e]) + Len(pending[e])
          /\ NumberedFrom(pendingKey[e], Passed(e))
          /\ NumberedFrom(pending[e], Passed(e))

Agreed == KeysAgree /\ \A e \in Ends : OneFlow(e)

\* Only packages of the worker wait for the handshake, and they are not encrypted.
PlainApps == {p \in Package : p.kind = "app" /\ ~p.cipher}
WaitingApps ==
    pending \in [Ends -> Seq(PlainApps)] /\ pendingKey \in [Ends -> Seq(PlainApps)]

\* What leaves an end of a secure connection is encrypted.
SealedPackages == {p \in Package : secure /\ p.kind = "app" => p.cipher}
Sealed == wire \in [Ends -> Seq(SealedPackages)] /\ sendList \in [Ends -> Seq(SealedPackages)]

\* What holds of the ends of both versions, and what of those of one.
EndsInv == TypeOK /\ Handshake /\ WaitingApps /\ Sealed
Agreement == EndsInv /\ (sameVersion => Agreed)

-----------------------------------------------------------------------------
(* Sequences *)

LEMMA JoinedSeq ==
    ASSUME NEW S, NEW a \in Seq(S), NEW b \in Seq(S)
    PROVE  /\ Joined(a, b) \in Seq(S) /\ Len(Joined(a, b)) = Len(a) + Len(b)
           /\ \A i \in 1 .. Len(a) + Len(b) :
                 Joined(a, b)[i] = IF i <= Len(a) THEN a[i] ELSE b[i - Len(a)]
BY ConcatProperties DEF Joined

LEMMA JoinedEmpty ==
    ASSUME NEW S, NEW a \in Seq(S)
    PROVE  Joined(a, <<>>) = a /\ Joined(<<>>, a) = a
BY ConcatEmptySeq DEF Joined

LEMMA JoinedThree ==
    ASSUME NEW S, NEW a \in Seq(S), NEW b \in Seq(S), NEW c \in Seq(S)
    PROVE  Joined(Joined(a, b), c) = Joined(a, Joined(b, c))
BY ConcatAssociative DEF Joined

LEMMA Halves ==
    ASSUME NEW S, NEW list \in Seq(S), NEW n \in 0 .. Len(list)
    PROVE  /\ SubSeq(list, 1, n) \in Seq(S)
           /\ SubSeq(list, n + 1, Len(list)) \in Seq(S)
           /\ Joined(SubSeq(list, 1, n), SubSeq(list, n + 1, Len(list))) = list
           /\ n = 0 => SubSeq(list, 1, n) = <<>>
<1>1. Len(list) \in Nat /\ n \in Nat /\ \A i \in 1 .. Len(list) : list[i] \in S
  OBVIOUS
<1>2. SubSeq(list, 1, n) \in Seq(S)
  BY <1>1, SubSeqProperties
<1>3. SubSeq(list, n + 1, Len(list)) \in Seq(S)
  BY <1>1, SubSeqProperties
<1>4. Joined(SubSeq(list, 1, n), SubSeq(list, n + 1, Len(list))) = list
  <2>1. /\ 1 \in 1 .. Len(list) + 1 /\ n \in 1 - 1 .. Len(list)
        /\ Len(list) \in n .. Len(list)
    BY <1>1
  <2>2. SubSeq(list, 1, n) \o SubSeq(list, n + 1, Len(list)) = SubSeq(list, 1, Len(list))
    BY <2>1, ConcatAdjacentSubSeq
  <2> QED
    BY <2>2, SubSeqFull DEF Joined
<1>5. n = 0 => SubSeq(list, 1, n) = <<>>
  BY <1>1, SubSeqEmpty
<1> QED
  BY <1>2, <1>3, <1>4, <1>5

LEMMA Regrouped ==
    ASSUME NEW S, NEW a \in Seq(S), NEW b \in Seq(S), NEW x \in Seq(S), NEW y \in Seq(S),
           b = <<>> \/ x = <<>>
    PROVE  Joined(Joined(a, x), Joined(b, y)) = Joined(Joined(a, b), Joined(x, y))
<1>1. /\ Joined(Joined(a, x), y) = Joined(a, Joined(x, y))
      /\ Joined(Joined(a, b), y) = Joined(a, Joined(b, y))
  BY JoinedThree
<1>2. Joined(a, <<>>) = a /\ Joined(<<>>, y) = y
  BY JoinedEmpty
<1> QED
  BY <1>1, <1>2

\* What is put behind the first list may be split, unless the second has something.
LEMMA PushSplit ==
    ASSUME NEW S, NEW a \in Seq(S), NEW b \in Seq(S), NEW list \in Seq(S),
           NEW n \in 0 .. Len(list), b # <<>> => n = 0
    PROVE  /\ a \o SubSeq(list, 1, n) \in Seq(S)
           /\ b \o SubSeq(list, n + 1, Len(list)) \in Seq(S)
           /\ Joined(a \o SubSeq(list, 1, n), b \o SubSeq(list, n + 1, Len(list)))
                = Joined(Joined(a, b), list)
<1> DEFINE taken == SubSeq(list, 1, n)
           left == SubSeq(list, n + 1, Len(list))
<1>1. /\ taken \in Seq(S) /\ left \in Seq(S) /\ Joined(taken, left) = list
      /\ n = 0 => taken = <<>>
  BY Halves
<1> HIDE DEF taken, left
<1>2. b = <<>> \/ taken = <<>>
  BY <1>1
<1>3. Joined(Joined(a, taken), Joined(b, left)) = Joined(Joined(a, b), Joined(taken, left))
  BY <1>1, <1>2, Regrouped
<1>4. Joined(a, taken) \in Seq(S) /\ Joined(b, left) \in Seq(S)
  BY <1>1, JoinedSeq
<1>5. Joined(a, taken) = a \o taken /\ Joined(b, left) = b \o left
  BY DEF Joined
<1> QED
  BY <1>1, <1>3, <1>4, <1>5 DEF taken, left

LEMMA TailJoined ==
    ASSUME NEW S, NEW a \in Seq(S), NEW b \in Seq(S), a # <<>>
    PROVE  /\ Tail(a) \in Seq(S) /\ Joined(Tail(a), b) = Tail(Joined(a, b))
           /\ Head(Joined(a, b)) = Head(a) /\ Joined(a, b) # <<>> /\ Head(a) \in S
<1> DEFINE all == Joined(a, b)
           rest == Tail(a)
           others == Tail(all)
<1>1. /\ Len(a) \in Nat \ {0} /\ Len(b) \in Nat /\ Head(a) = a[1] /\ Head(a) \in S
      /\ rest \in Seq(S) /\ Len(rest) = Len(a) - 1
      /\ \A i \in 1 .. Len(a) - 1 : rest[i] = a[i + 1]
  BY EmptySeq, HeadTailProperties
<1>2. /\ all \in Seq(S) /\ Len(all) = Len(a) + Len(b)
      /\ \A i \in 1 .. Len(a) + Len(b) : all[i] = IF i <= Len(a) THEN a[i] ELSE b[i - Len(a)]
  BY JoinedSeq
<1> HIDE DEF all, rest
<1>3. all # <<>>
  BY <1>1, <1>2, EmptySeq
<1>4. Head(all) = a[1]
  <2>1. Head(all) = all[1]
    BY <1>2, <1>3
  <2> QED
    BY <1>1, <1>2, <2>1
<1>5. /\ others \in Seq(S) /\ Len(others) = Len(a) + Len(b) - 1
      /\ \A i \in 1 .. Len(a) + Len(b) - 1 : others[i] = all[i + 1]
  BY <1>2, <1>3, HeadTailProperties
<1> HIDE DEF others
<1> DEFINE short == Joined(rest, b)
<1>6. /\ short \in Seq(S) /\ Len(short) = Len(a) - 1 + Len(b)
      /\ \A i \in 1 .. Len(rest) + Len(b) :
            short[i] = IF i <= Len(rest) THEN rest[i] ELSE b[i - Len(rest)]
  BY <1>1, JoinedSeq
<1> HIDE DEF short
<1>7. \A i \in 1 .. Len(a) + Len(b) - 1 : short[i] = others[i]
  <2> SUFFICES ASSUME NEW i \in 1 .. Len(a) + Len(b) - 1
               PROVE  short[i] = others[i]
    OBVIOUS
  <2>1. /\ i \in 1 .. Len(rest) + Len(b) /\ i + 1 \in 1 .. Len(a) + Len(b)
        /\ i - Len(rest) = (i + 1) - Len(a) /\ (i <= Len(rest) <=> i + 1 <= Len(a))
    BY <1>1
  <2>2. others[i] = IF i + 1 <= Len(a) THEN a[i + 1] ELSE b[(i + 1) - Len(a)]
    BY <1>2, <1>5, <2>1
  <2>3. short[i] = IF i <= Len(rest) THEN rest[i] ELSE b[i - Len(rest)]
    BY <1>6, <2>1
  <2>4. i <= Len(rest) => rest[i] = a[i + 1]
    BY <1>1
  <2> QED
    BY <2>1, <2>2, <2>3, <2>4
<1>8. short = others
  <2>1. Len(short) = Len(others) /\ \A i \in 1 .. Len(short) : short[i] = others[i]
    BY <1>1, <1>5, <1>6, <1>7
  <2> QED
    BY <1>5, <1>6, <2>1, SeqEqual
<1> QED
  BY <1>1, <1>3, <1>4, <1>8 DEF all, rest, others, short

LEMMA HeadMoves ==
    ASSUME NEW S, NEW a \in Seq(S), NEW b \in Seq(S), b # <<>>
    PROVE  /\ Append(a, Head(b)) \in Seq(S) /\ Tail(b) \in Seq(S)
           /\ Joined(Append(a, Head(b)), Tail(b)) = Joined(a, b)
<1>1. Head(b) \in S /\ Tail(b) \in Seq(S) /\ Append(a, Head(b)) \in Seq(S)
  BY HeadTailProperties, AppendProperties
<1>2. Append(a, Head(b)) = a \o <<Head(b)>> /\ <<Head(b)>> \in Seq(S)
  BY <1>1, AppendIsConcat
<1>3. <<Head(b)>> \o Tail(b) = b
  <2> DEFINE c == <<Head(b)>> \o Tail(b)
  <2>1. /\ c \in Seq(S) /\ Len(c) = 1 + Len(Tail(b))
        /\ \A i \in 1 .. 1 + Len(Tail(b)) :
              c[i] = IF i <= 1 THEN <<Head(b)>>[i] ELSE Tail(b)[i - 1]
    BY <1>1, <1>2, ConcatProperties
  <2>2. /\ Len(b) \in Nat \ {0} /\ Len(Tail(b)) = Len(b) - 1 /\ Head(b) = b[1]
        /\ \A i \in 1 .. Len(b) - 1 : Tail(b)[i] = b[i + 1]
    BY EmptySeq, HeadTailProperties
  <2>3. \A i \in 1 .. Len(b) : c[i] = b[i]
    <3> SUFFICES ASSUME NEW i \in 1 .. Len(b)
                 PROVE  c[i] = b[i]
      OBVIOUS
    <3>1. i # 1 => i - 1 \in 1 .. Len(b) - 1 /\ (i - 1) + 1 = i
      BY <2>2
    <3> HIDE DEF c
    <3> QED
      BY <2>1, <2>2, <3>1
  <2> HIDE DEF c
  <2>4. Len(c) = Len(b)
    BY <2>1, <2>2
  <2>5. c = b
    BY <2>1, <2>3, <2>4, SeqEqual
  <2> QED
    BY <2>5 DEF c
<1>4. (a \o <<Head(b)>>) \o Tail(b) = a \o (<<Head(b)>> \o Tail(b))
  BY <1>1, <1>2, ConcatAssociative
<1> QED
  BY <1>1, <1>2, <1>3, <1>4 DEF Joined

-----------------------------------------------------------------------------
(* What the operations that all handlers share do to a flow *)

LEMMA OtherEnd ==
    /\ Ends = {"active", "passive"} /\ Other("active") = "passive"
    /\ Other("passive") = "active"
    /\ \A e \in Ends : Other(e) \in Ends /\ Other(e) # e /\ Other(Other(e)) = e
    /\ \A e, d \in Ends : d # e => d = Other(e)
BY DEF Ends, Other

LEMMA SendRawKeeps ==
    ASSUME NEW T, wire \in [Ends -> Seq(T)], sendList \in [Ends -> Seq(T)],
           NEW e \in Ends, NEW list \in Seq(T), NEW new, SendRaw(e, list, new)
    PROVE  /\ wire' \in [Ends -> Seq(T)] /\ sendList' \in [Ends -> Seq(T)]
           /\ Flow(e)' = Joined(Flow(e), list)
           /\ Flow(Other(e))' = Flow(Other(e))
           /\ wire'[Other(e)] = wire[Other(e)] /\ sendList'[Other(e)] = sendList[Other(e)]
<1>1. PICK n \in 0 .. Len(list) :
         /\ sendList[e] # <<>> => n = 0
         /\ wire' = [wire EXCEPT ![e] = @ \o SubSeq(list, 1, n)]
         /\ sendList' = [sendList EXCEPT ![e] = @ \o SubSeq(list, n + 1, Len(list))]
  BY DEF SendRaw
<1>2. wire[e] \in Seq(T) /\ sendList[e] \in Seq(T)
  OBVIOUS
<1> DEFINE w == wire[e] \o SubSeq(list, 1, n)
           s == sendList[e] \o SubSeq(list, n + 1, Len(list))
<1>3. w \in Seq(T) /\ s \in Seq(T) /\ Joined(w, s) = Joined(Joined(wire[e], sendList[e]), list)
  BY <1>1, <1>2, PushSplit
<1>4. wire' = [wire EXCEPT ![e] = w] /\ sendList' = [sendList EXCEPT ![e] = s]
  BY <1>1
<1> HIDE DEF w, s
<1>5. wire'[e] = w /\ sendList'[e] = s
  BY <1>4
<1>6. Other(e) \in Ends /\ Other(e) # e
  BY OtherEnd
<1>7. wire'[Other(e)] = wire[Other(e)] /\ sendList'[Other(e)] = sendList[Other(e)]
  BY <1>4, <1>6
<1>8. wire' \in [Ends -> Seq(T)] /\ sendList' \in [Ends -> Seq(T)]
  BY <1>3, <1>4
<1> QED
  BY <1>3, <1>5, <1>7, <1>8 DEF Flow

LEMMA ReadAndSendKeeps ==
    ASSUME NEW T, wire \in [Ends -> Seq(T)], sendList \in [Ends -> Seq(T)],
           NEW e \in Ends, NEW list \in Seq(T), NEW new, Read(e), ReadAndSend(e, list, new)
    PROVE  /\ wire' \in [Ends -> Seq(T)] /\ sendList' \in [Ends -> Seq(T)]
           /\ Flow(e)' = Joined(Flow(e), list)
           /\ Flow(Other(e))' = Tail(Flow(Other(e)))
           /\ Flow(Other(e)) # <<>> /\ Head(Flow(Other(e))) = Head(wire[Other(e)])
           /\ wire'[Other(e)] = Tail(wire[Other(e)])
           /\ sendList'[Other(e)] = sendList[Other(e)]
<1>1. PICK n \in 0 .. Len(list) :
         /\ sendList[e] # <<>> => n = 0
         /\ wire' = [wire EXCEPT ![Other(e)] = Tail(@), ![e] = @ \o SubSeq(list, 1, n)]
         /\ sendList' = [sendList EXCEPT ![e] = @ \o SubSeq(list, n + 1, Len(list))]
  BY DEF ReadAndSend
<1>2. wire[e] \in Seq(T) /\ sendList[e] \in Seq(T)
  OBVIOUS
<1> DEFINE w == wire[e] \o SubSeq(list, 1, n)
           s == sendList[e] \o SubSeq(list, n + 1, Len(list))
           d == Other(e)
<1>3. w \in Seq(T) /\ s \in Seq(T) /\ Joined(w, s) = Joined(Joined(wire[e], sendList[e]), list)
  BY <1>1, <1>2, PushSplit
<1>4. d \in Ends /\ d # e
  BY OtherEnd
<1>5. /\ wire' = [wire EXCEPT ![d] = Tail(@), ![e] = w]
      /\ sendList' = [sendList EXCEPT ![e] = s]
  BY <1>1, <1>4
<1> HIDE DEF w, s, d
<1>6. wire'[e] = w /\ sendList'[e] = s /\ wire'[d] = Tail(wire[d]) /\ sendList'[d] = sendList[d]
  BY <1>4, <1>5
<1>7. wire[d] \in Seq(T) /\ sendList[d] \in Seq(T) /\ wire[d] # <<>>
  BY <1>4 DEF Read, d
<1>8. /\ Tail(wire[d]) \in Seq(T)
      /\ Joined(Tail(wire[d]), sendList[d]) = Tail(Joined(wire[d], sendList[d]))
      /\ Head(Joined(wire[d], sendList[d])) = Head(wire[d])
      /\ Joined(wire[d], sendList[d]) # <<>>
  BY <1>7, TailJoined
<1>9. wire' \in [Ends -> Seq(T)] /\ sendList' \in [Ends -> Seq(T)]
  BY <1>3, <1>4, <1>5, <1>8
<1> QED
  BY <1>3, <1>6, <1>8, <1>9 DEF Flow, d

\* What Writable does, whether or not the end goes with its last package.
LEMMA WritableKeeps ==
    ASSUME NEW T, wire \in [Ends -> Seq(T)], sendList \in [Ends -> Seq(T)],
           NEW e \in Ends, Writable(e)
    PROVE  /\ wire' \in [Ends -> Seq(T)] /\ sendList' \in [Ends -> Seq(T)]
           /\ \A d \in Ends : Flow(d)' = Flow(d)
           /\ \A d \in Ends \ {e} : wire'[d] = wire[d] /\ sendList'[d] = sendList[d]
<1>1. /\ sendList[e] # <<>> /\ wire[e] \in Seq(T) /\ sendList[e] \in Seq(T)
      /\ wire' = [wire EXCEPT ![e] = Append(wire[e], Head(sendList[e]))]
  BY DEF Writable
<1>2. sendList' = [sendList EXCEPT ![e] = Tail(sendList[e])]
  BY DEF Writable, Destroyed
<1> DEFINE w == Append(wire[e], Head(sendList[e]))
           s == Tail(sendList[e])
<1>3. w \in Seq(T) /\ s \in Seq(T) /\ Joined(w, s) = Joined(wire[e], sendList[e])
  BY <1>1, HeadMoves
<1>4. wire' = [wire EXCEPT ![e] = w] /\ sendList' = [sendList EXCEPT ![e] = s]
  BY <1>1, <1>2
<1> HIDE DEF w, s
<1>5. wire' \in [Ends -> Seq(T)] /\ sendList' \in [Ends -> Seq(T)]
  BY <1>3, <1>4
<1>6. wire'[e] = w /\ sendList'[e] = s
  BY <1>4
<1>7. \A d \in Ends \ {e} : wire'[d] = wire[d] /\ sendList'[d] = sendList[d]
  BY <1>4
<1> QED
  BY <1>3, <1>5, <1>6, <1>7 DEF Flow

-----------------------------------------------------------------------------
(* Types *)

LEMMA PackagesTyped ==
    /\ \A id \in Ids : App(id) \in Package /\ Encrypted(App(id)) \in Package
    /\ \A kind \in Kinds : Control(kind) \in Package
    /\ \A p \in Package : Plain(p) \in Package /\ Encrypted(p) \in Package
<1>1. Ids \subseteq 0 .. MaxSends /\ 0 \in 0 .. MaxSends
  BY ConnectionAssumption DEF Ids
<1>2. "app" \in Kinds
  BY DEF Kinds
<1>3. \A kind \in Kinds : Control(kind) \in Package
  BY <1>1 DEF Package, Control
<1>4. \A id \in Ids : App(id) \in Package
  BY <1>1, <1>2 DEF Package, App
<1>5. \A p \in Package : Plain(p) \in Package /\ Encrypted(p) \in Package
  <2> SUFFICES ASSUME NEW p \in Package
               PROVE  Plain(p) \in Package /\ Encrypted(p) \in Package
    OBVIOUS
  <2>1. Plain(p) \in Package
    BY DEF Package, Plain
  <2>2. Encrypted(p) \in Package
    BY DEF Package, Encrypted
  <2> QED
    BY <2>1, <2>2
<1> QED
  BY <1>3, <1>4, <1>5

LEMMA EncryptedList ==
    ASSUME NEW list \in Seq(Package)
    PROVE  /\ EncryptedAll(list) \in Seq(Package) /\ Len(EncryptedAll(list)) = Len(list)
           /\ \A i \in 1 .. Len(list) : EncryptedAll(list)[i] = Encrypted(list[i])
<1>1. Len(list) \in Nat /\ DOMAIN list = 1 .. Len(list)
      /\ \A i \in 1 .. Len(list) : list[i] \in Package
  OBVIOUS
<1>2. \A i \in 1 .. Len(list) : Encrypted(list[i]) \in Package
  BY <1>1, PackagesTyped
<1> QED
  BY <1>1, <1>2 DEF EncryptedAll

LEMMA HeldTyped ==
    ASSUME registered \in [Ends -> SUBSET Package], NEW e \in Ends,
           NEW gained \in SUBSET Package, NEW list
    PROVE  /\ Held(e, gained, list) \in SUBSET Package
           /\ [registered EXCEPT ![e] = Held(e, gained, list)] \in [Ends -> SUBSET Package]
BY PackagesTyped DEF Held

LEMMA DestroyedTyped ==
    ASSUME TypeOK, NEW e \in Ends, NEW list, Destroyed(e, list)
    PROVE  /\ life' \in [Ends -> {"none", "open", "closing", "gone"}]
           /\ pending' \in [Ends -> Seq(Package)] /\ pendingKey' \in [Ends -> Seq(Package)]
           /\ sendList' \in [Ends -> Seq(Package)]
           /\ registered' \in [Ends -> SUBSET Package]
<1>1. [registered EXCEPT ![e] = Held(e, {}, list)] \in [Ends -> SUBSET Package]
  BY HeldTyped DEF TypeOK
<1>2. registered' \in [Ends -> SUBSET Package]
  BY <1>1 DEF Destroyed
<1>3. <<>> \in Seq(Package)
  OBVIOUS
<1> QED
  BY <1>2, <1>3 DEF Destroyed, TypeOK

LEMMA CloseTyped ==
    ASSUME TypeOK, NEW e \in Ends, CloseEnd(e)
    PROVE  /\ life' \in [Ends -> {"none", "open", "closing", "gone"}]
           /\ pending' \in [Ends -> Seq(Package)] /\ pendingKey' \in [Ends -> Seq(Package)]
           /\ sendList' \in [Ends -> Seq(Package)]
           /\ registered' \in [Ends -> SUBSET Package]
<1>1. CASE Destroyed(e, <<>>)
  BY <1>1, DestroyedTyped
<1>2. CASE life' = [life EXCEPT ![e] = "closing"]
           /\ UNCHANGED <<pending, pendingKey, sendList, registered>>
  BY <1>2 DEF TypeOK
<1> QED
  BY <1>1, <1>2 DEF CloseEnd

LEMMA SentTyped ==
    ASSUME TypeOK, NEW e \in Ends, NEW list \in Seq(Package), NEW new \in SUBSET Package,
           \/ SendRaw(e, list, new)
           \/ Read(e) /\ ReadAndSend(e, list, new)
    PROVE  /\ wire' \in [Ends -> Seq(Package)] /\ sendList' \in [Ends -> Seq(Package)]
           /\ registered' \in [Ends -> SUBSET Package]
<1>1. wire \in [Ends -> Seq(Package)] /\ sendList \in [Ends -> Seq(Package)]
      /\ registered \in [Ends -> SUBSET Package]
  BY DEF TypeOK
<1>2. wire' \in [Ends -> Seq(Package)] /\ sendList' \in [Ends -> Seq(Package)]
  BY <1>1, SendRawKeeps, ReadAndSendKeeps
<1>3. PICK n : registered' = [registered EXCEPT ![e] = Held(e, new, SubSeq(list, 1, n))]
  BY DEF SendRaw, ReadAndSend
<1>4. registered' \in [Ends -> SUBSET Package]
  BY <1>1, <1>3, HeldTyped
<1> QED
  BY <1>2, <1>4

LEMMA Greeting ==
    ASSUME NEW hello, hello = IF secure THEN <<Control("setting"), Control("request")>>
                              ELSE <<Control("setting")>>
    PROVE  hello \in Seq(Package) /\ Range(hello) \in SUBSET Package
<1>1. Control("setting") \in Package /\ Control("request") \in Package
  BY PackagesTyped DEF Kinds
<1>2. hello \in Seq(Package)
  <2>1. CASE secure
    BY <1>1, <2>1
  <2>2. CASE ~secure
    BY <1>1, <2>2
  <2> QED
    BY <2>1, <2>2
<1>3. \A i \in DOMAIN hello : hello[i] \in Package
  BY <1>2
<1> QED
  BY <1>2, <1>3 DEF Range

LEMMA Answer ==
    ASSUME TypeOK, NEW e \in Ends,
           NEW answer, answer = IF e = "active" THEN <<Control("response")>> ELSE <<>>
    PROVE  /\ answer \in Seq(Package) /\ Range(answer) \in SUBSET Package
           /\ EncryptedAll(pendingKey[e]) \in Seq(Package)
           /\ answer \o EncryptedAll(pendingKey[e]) \in Seq(Package)
<1>1. Control("response") \in Package
  BY PackagesTyped DEF Kinds
<1>2. answer \in Seq(Package)
  <2>1. CASE e = "active"
    BY <1>1, <2>1
  <2>2. CASE e # "active"
    BY <2>2
  <2> QED
    BY <2>1, <2>2
<1>3. \A i \in DOMAIN answer : answer[i] \in Package
  BY <1>2
<1>4. pendingKey[e] \in Seq(Package)
  BY DEF TypeOK
<1>5. EncryptedAll(pendingKey[e]) \in Seq(Package)
  BY <1>4, EncryptedList
<1>6. answer \o EncryptedAll(pendingKey[e]) \in Seq(Package)
  BY <1>2, <1>5, ConcatProperties
<1> QED
  BY <1>2, <1>3, <1>5, <1>6 DEF Range

LEMMA SendTyped ==
    ASSUME TypeOK, NEW e \in Ends, Send(e)
    PROVE  TypeOK'
<1> DEFINE id == Len(sent[e]) + 1
           p == App(id)
<1>1. id \in Ids
  BY DEF Send, TypeOK, Ids
<1>2. p \in Package /\ Encrypted(p) \in Package /\ <<p>> \in Seq(Package)
      /\ <<Encrypted(p)>> \in Seq(Package) /\ {p} \in SUBSET Package
  BY <1>1, PackagesTyped
<1>3. /\ sent' = [sent EXCEPT ![e] = Append(@, id)]
      /\ \/ SendRaw(e, <<Encrypted(p)>>, {p}) /\ UNCHANGED <<pending, pendingKey>>
         \/ /\ pendingKey' = [pendingKey EXCEPT ![e] = Append(@, p)]
            /\ registered' = [registered EXCEPT ![e] = @ \cup {p}]
            /\ UNCHANGED <<pending, sendList, wire>>
         \/ /\ pending' = [pending EXCEPT ![e] = Append(@, p)]
            /\ registered' = [registered EXCEPT ![e] = @ \cup {p}]
            /\ UNCHANGED <<pendingKey, sendList, wire>>
         \/ SendRaw(e, <<p>>, {p}) /\ UNCHANGED <<pending, pendingKey>>
      /\ UNCHANGED <<given, life, opening, crypto, delivered>>
  BY DEF Send
<1> HIDE DEF id, p
<1>4. sent' \in [Ends -> Seq(Ids)]
  BY <1>1, <1>3 DEF TypeOK
<1>5. /\ pending' \in [Ends -> Seq(Package)] /\ pendingKey' \in [Ends -> Seq(Package)]
      /\ sendList' \in [Ends -> Seq(Package)] /\ wire' \in [Ends -> Seq(Package)]
      /\ registered' \in [Ends -> SUBSET Package]
  <2> DEFINE Good == /\ pending' \in [Ends -> Seq(Package)]
                     /\ pendingKey' \in [Ends -> Seq(Package)]
                     /\ sendList' \in [Ends -> Seq(Package)] /\ wire' \in [Ends -> Seq(Package)]
                     /\ registered' \in [Ends -> SUBSET Package]
  <2>1. CASE SendRaw(e, <<Encrypted(p)>>, {p}) /\ UNCHANGED <<pending, pendingKey>>
    <3>1. wire' \in [Ends -> Seq(Package)] /\ sendList' \in [Ends -> Seq(Package)]
          /\ registered' \in [Ends -> SUBSET Package]
      BY <1>2, <2>1, SentTyped
    <3> QED
      BY <2>1, <3>1 DEF TypeOK
  <2>2. CASE /\ pendingKey' = [pendingKey EXCEPT ![e] = Append(@, p)]
             /\ registered' = [registered EXCEPT ![e] = @ \cup {p}]
             /\ UNCHANGED <<pending, sendList, wire>>
    BY <1>2, <2>2 DEF TypeOK
  <2>3. CASE /\ pending' = [pending EXCEPT ![e] = Append(@, p)]
             /\ registered' = [registered EXCEPT ![e] = @ \cup {p}]
             /\ UNCHANGED <<pendingKey, sendList, wire>>
    BY <1>2, <2>3 DEF TypeOK
  <2>4. CASE SendRaw(e, <<p>>, {p}) /\ UNCHANGED <<pending, pendingKey>>
    <3>1. wire' \in [Ends -> Seq(Package)] /\ sendList' \in [Ends -> Seq(Package)]
          /\ registered' \in [Ends -> SUBSET Package]
      BY <1>2, <2>4, SentTyped
    <3> QED
      BY <2>4, <3>1 DEF TypeOK
  <2> QED
    BY <1>3, <2>1, <2>2, <2>3, <2>4
<1> QED
  BY <1>3, <1>4, <1>5 DEF TypeOK, given

LEMMA ReadOtherVersionTyped ==
    ASSUME TypeOK, NEW e \in Ends, ReadOtherVersion(e)
    PROVE  TypeOK'
<1> DEFINE note == Control("version")
           d == Other(e)
<1>1. note \in Package
  BY PackagesTyped DEF Kinds
<1>2. d \in Ends /\ d # e /\ wire[d] \in Seq(Package) /\ wire[d] # <<>>
  BY OtherEnd DEF TypeOK, ReadOtherVersion, Read
<1>3. Tail(wire[d]) \in Seq(Package) /\ Append(wire[e], note) \in Seq(Package)
      /\ Append(sendList[e], note) \in Seq(Package)
  BY <1>1, <1>2, HeadTailProperties, AppendProperties DEF TypeOK
<1>4. UNCHANGED <<given, opening, crypto, sent, delivered>>
  BY DEF ReadOtherVersion
<1>5. /\ wire' \in [Ends -> Seq(Package)]
      /\ life' \in [Ends -> {"none", "open", "closing", "gone"}]
      /\ pending' \in [Ends -> Seq(Package)] /\ pendingKey' \in [Ends -> Seq(Package)]
      /\ sendList' \in [Ends -> Seq(Package)]
      /\ registered' \in [Ends -> SUBSET Package]
  <2> DEFINE Short == [wire EXCEPT ![d] = Tail(@)]
  <2>1. Short \in [Ends -> Seq(Package)]
    BY <1>2, <1>3 DEF TypeOK
  <2>2. CASE CloseEnd(e) /\ wire' = Short
    BY <2>1, <2>2, CloseTyped
  <2>3. CASE /\ wire' = [wire EXCEPT ![d] = Tail(@), ![e] = Append(@, note)]
             /\ Destroyed(e, <<>>)
    <3>1. wire' \in [Ends -> Seq(Package)]
      BY <1>2, <1>3, <2>3 DEF TypeOK
    <3> QED
      BY <2>3, <3>1, DestroyedTyped
  <2>4. CASE /\ wire' = Short
             /\ life' = [life EXCEPT ![e] = "closing"]
             /\ sendList' = [sendList EXCEPT ![e] = Append(@, note)]
             /\ registered' = [registered EXCEPT ![e] = @ \cup {note}]
             /\ UNCHANGED <<pending, pendingKey>>
    <3> HIDE DEF note, Short
    <3> QED
      BY <1>1, <1>3, <2>1, <2>4 DEF TypeOK
  <2>5. \/ CloseEnd(e) /\ wire' = Short
        \/ /\ wire' = [wire EXCEPT ![d] = Tail(@), ![e] = Append(@, note)]
           /\ Destroyed(e, <<>>)
        \/ /\ wire' = Short
           /\ life' = [life EXCEPT ![e] = "closing"]
           /\ sendList' = [sendList EXCEPT ![e] = Append(@, note)]
           /\ registered' = [registered EXCEPT ![e] = @ \cup {note}]
           /\ UNCHANGED <<pending, pendingKey>>
    BY DEF ReadOtherVersion
  <2> QED
    BY <2>2, <2>3, <2>4, <2>5
<1> QED
  BY <1>4, <1>5 DEF TypeOK, given

LEMMA ReadSettingTyped ==
    ASSUME TypeOK, NEW e \in Ends, ReadSetting(e)
    PROVE  TypeOK'
<1> DEFINE list == IF secure THEN <<>> ELSE pending[e]
<1>1. /\ Read(e) /\ ReadAndSend(e, list, {})
      /\ opening' = [opening EXCEPT ![e] = FALSE]
      /\ crypto' = [crypto EXCEPT ![e] = IF secure THEN "starting" ELSE "none"]
      /\ pending' = [pending EXCEPT ![e] = <<>>]
      /\ \/ pendingKey' = [pendingKey EXCEPT ![e] = @ \o pending[e]]
         \/ UNCHANGED pendingKey
      /\ UNCHANGED <<given, life, sent, delivered>>
  BY DEF ReadSetting
<1>2. list \in Seq(Package) /\ {} \in SUBSET Package
  BY DEF TypeOK
<1>3. wire' \in [Ends -> Seq(Package)] /\ sendList' \in [Ends -> Seq(Package)]
      /\ registered' \in [Ends -> SUBSET Package]
  BY <1>1, <1>2, SentTyped
<1> HIDE DEF list
<1>4. pending' \in [Ends -> Seq(Package)]
  BY <1>1 DEF TypeOK
<1>5. pendingKey[e] \o pending[e] \in Seq(Package)
  BY ConcatProperties DEF TypeOK
<1>6. pendingKey' \in [Ends -> Seq(Package)]
  BY <1>1, <1>5 DEF TypeOK
<1>7. opening' \in [Ends -> BOOLEAN] /\ crypto' \in [Ends -> {"none", "starting", "started"}]
  BY <1>1 DEF TypeOK
<1> QED
  BY <1>1, <1>3, <1>4, <1>6, <1>7 DEF TypeOK, given

LEMMA ReadKeyTyped ==
    ASSUME TypeOK, NEW e \in Ends, ReadKey(e)
    PROVE  TypeOK'
<1> DEFINE answer == IF e = "active" THEN <<Control("response")>> ELSE <<>>
           list == answer \o EncryptedAll(pendingKey[e])
           new == Range(answer)
<1>1. /\ Read(e) /\ ReadAndSend(e, list, new)
      /\ crypto' = [crypto EXCEPT ![e] = "started"]
      /\ pendingKey' = [pendingKey EXCEPT ![e] = <<>>]
      /\ UNCHANGED <<given, life, opening, pending, sent, delivered>>
  BY DEF ReadKey
<1>2. list \in Seq(Package) /\ new \in SUBSET Package
  <2> HIDE DEF answer
  <2>1. answer = IF e = "active" THEN <<Control("response")>> ELSE <<>>
    BY DEF answer
  <2> QED
    BY <2>1, Answer
<1> HIDE DEF list, new
<1>3. wire' \in [Ends -> Seq(Package)] /\ sendList' \in [Ends -> Seq(Package)]
      /\ registered' \in [Ends -> SUBSET Package]
  BY <1>1, <1>2, SentTyped
<1>4. pendingKey' \in [Ends -> Seq(Package)]
      /\ crypto' \in [Ends -> {"none", "starting", "started"}]
  BY <1>1 DEF TypeOK
<1> QED
  BY <1>1, <1>3, <1>4 DEF TypeOK, given

LEMMA ReadAppTyped ==
    ASSUME TypeOK, NEW e \in Ends, ReadApp(e)
    PROVE  TypeOK'
<1> DEFINE p == Head(wire[Other(e)])
           got == IF p.cipher = (crypto[e] = "started") THEN p.id ELSE 0
<1>1. /\ Read(e) /\ ReadAndSend(e, <<>>, {})
      /\ delivered' = [delivered EXCEPT ![e] = Append(@, got)]
      /\ UNCHANGED <<given, life, opening, crypto, pending, pendingKey, sent>>
  BY DEF ReadApp
<1>2. p \in Package
  <2>1. wire[Other(e)] \in Seq(Package) /\ wire[Other(e)] # <<>>
    BY <1>1, OtherEnd DEF TypeOK, Read
  <2> QED
    BY <2>1, HeadTailProperties
<1>3. got \in 0 .. MaxSends
  <2> HIDE DEF p
  <2>1. p.id \in 0 .. MaxSends
    BY <1>2 DEF Package
  <2> QED
    BY <2>1, ConnectionAssumption
<1> HIDE DEF p, got
<1>4. delivered' \in [Ends -> Seq(0 .. MaxSends)]
  <2>1. Append(delivered[e], got) \in Seq(0 .. MaxSends)
    BY <1>3, AppendProperties DEF TypeOK
  <2> QED
    BY <1>1, <2>1 DEF TypeOK
<1>5. <<>> \in Seq(Package) /\ {} \in SUBSET Package
  OBVIOUS
<1>6. wire' \in [Ends -> Seq(Package)] /\ sendList' \in [Ends -> Seq(Package)]
      /\ registered' \in [Ends -> SUBSET Package]
  BY <1>1, <1>5, SentTyped
<1> QED
  BY <1>1, <1>4, <1>6 DEF TypeOK, given

LEMMA AcceptTyped ==
    ASSUME TypeOK, Accept
    PROVE  TypeOK'
<1> DEFINE hello == IF secure THEN <<Control("setting"), Control("request")>>
                    ELSE <<Control("setting")>>
           new == Range(hello)
<1>1. /\ SendRaw("passive", hello, new)
      /\ life' = [life EXCEPT !["passive"] = "open"]
      /\ crypto' = [crypto EXCEPT !["passive"] = IF secure THEN "starting" ELSE "none"]
      /\ opening' = [opening EXCEPT !["passive"] = FALSE]
      /\ UNCHANGED <<given, pending, pendingKey, sent, delivered>>
  BY DEF Accept
<1>2. hello \in Seq(Package) /\ new \in SUBSET Package
  <2> HIDE DEF hello
  <2>1. hello = IF secure THEN <<Control("setting"), Control("request")>>
                ELSE <<Control("setting")>>
    BY DEF hello
  <2> QED
    BY <2>1, Greeting
<1> HIDE DEF hello, new
<1>3. wire' \in [Ends -> Seq(Package)] /\ sendList' \in [Ends -> Seq(Package)]
      /\ registered' \in [Ends -> SUBSET Package]
  BY <1>1, <1>2, SentTyped, OtherEnd
<1>4. /\ life' \in [Ends -> {"none", "open", "closing", "gone"}]
      /\ crypto' \in [Ends -> {"none", "starting", "started"}]
      /\ opening' \in [Ends -> BOOLEAN]
  BY <1>1, OtherEnd DEF TypeOK
<1> QED
  BY <1>1, <1>3, <1>4 DEF TypeOK, given

LEMMA WritableTyped ==
    ASSUME TypeOK, NEW e \in Ends, Writable(e)
    PROVE  TypeOK'
<1>1. wire' \in [Ends -> Seq(Package)] /\ sendList' \in [Ends -> Seq(Package)]
  BY WritableKeeps DEF TypeOK
<1>2. UNCHANGED <<given, opening, crypto, sent, delivered>>
  BY DEF Writable
<1>3. /\ life' \in [Ends -> {"none", "open", "closing", "gone"}]
      /\ pending' \in [Ends -> Seq(Package)] /\ pendingKey' \in [Ends -> Seq(Package)]
      /\ registered' \in [Ends -> SUBSET Package]
  <2>1. CASE Destroyed(e, sendList[e])
    BY <2>1, DestroyedTyped
  <2>2. CASE /\ registered' = [registered EXCEPT
                    ![e] = Held(e, {}, <<Head(sendList[e])>>)]
             /\ UNCHANGED <<life, pending, pendingKey>>
    <3>1. registered' \in [Ends -> SUBSET Package]
      BY <2>2, HeldTyped DEF TypeOK
    <3> QED
      BY <2>2, <3>1 DEF TypeOK
  <2> QED
    BY <2>1, <2>2 DEF Writable
<1> QED
  BY <1>1, <1>2, <1>3 DEF TypeOK, given

LEMMA TypesKept ==
    TypeOK /\ [Next]_vars => TypeOK'
<1> SUFFICES ASSUME TypeOK, [Next]_vars
             PROVE  TypeOK'
  OBVIOUS
<1>1. CASE Accept
  BY <1>1, AcceptTyped
<1>2. ASSUME NEW e \in Ends, Send(e)
      PROVE  TypeOK'
  BY <1>2, SendTyped
<1>3. ASSUME NEW e \in Ends, Close(e)
      PROVE  TypeOK'
  BY <1>3, CloseTyped DEF Close, TypeOK, given
<1>4. ASSUME NEW e \in Ends, Writable(e)
      PROVE  TypeOK'
  BY <1>4, WritableTyped
<1>5. ASSUME NEW e \in Ends, Reading(e)
      PROVE  TypeOK'
  BY <1>5, ReadOtherVersionTyped, ReadSettingTyped, ReadKeyTyped, ReadAppTyped DEF Reading
<1>6. ASSUME NEW e \in Ends, Lost(e)
      PROVE  TypeOK'
  BY <1>6, DestroyedTyped DEF Lost, TypeOK, given
<1>7. CASE UNCHANGED vars
  BY <1>7 DEF vars, given, TypeOK
<1> QED
  BY <1>1, <1>2, <1>3, <1>4, <1>5, <1>6, <1>7 DEF Next

LEMMA InitTyped ==
    Init => TypeOK
<1> SUFFICES ASSUME Init
             PROVE  TypeOK
  OBVIOUS
<1>1. Nothing \in [Ends -> Seq(Package)] /\ Nothing \in [Ends -> Seq(Ids)]
      /\ Nothing \in [Ends -> Seq(0 .. MaxSends)]
  BY DEF Nothing
<1> QED
  BY <1>1 DEF Init, TypeOK

\* What the variables of both ends hold has its type: the lists hold packages, and
\* a worker is given nothing that no worker could have sent, save a spoilt one.
THEOREM ConnectionTypeCorrect == Spec => []TypeOK
<1>1. Init => TypeOK
  BY InitTyped
<1>2. TypeOK /\ [Next]_vars => TypeOK'
  BY TypesKept
<1> QED
  BY <1>1, <1>2, PTL DEF Spec

-----------------------------------------------------------------------------
(* The handshake, of ends of whichever versions *)

LEMMA SealedTyped ==
    /\ SealedPackages \subseteq Package /\ PlainApps \subseteq Package
    /\ \A p \in PlainApps : Encrypted(p) \in SealedPackages /\ (~secure => p \in SealedPackages)
    /\ \A kind \in Kinds \ {"app"} : Control(kind) \in SealedPackages
    /\ \A id \in Ids : App(id) \in PlainApps
<1>1. \A p \in Package : Encrypted(p) \in Package /\ Encrypted(p).cipher = TRUE
  <2> SUFFICES ASSUME NEW p \in Package
               PROVE  Encrypted(p) \in Package /\ Encrypted(p).cipher = TRUE
    OBVIOUS
  <2>1. Encrypted(p) \in Package
    BY PackagesTyped
  <2>2. Encrypted(p).cipher = TRUE
    BY DEF Encrypted, Package
  <2> QED
    BY <2>1, <2>2
<1>2. \A p \in PlainApps : Encrypted(p) \in SealedPackages /\ (~secure => p \in SealedPackages)
  BY <1>1 DEF PlainApps, SealedPackages
<1>3. \A kind \in Kinds \ {"app"} : Control(kind) \in SealedPackages
  BY PackagesTyped DEF SealedPackages, Control
<1>4. \A id \in Ids : App(id) \in PlainApps
  BY PackagesTyped DEF PlainApps, App
<1> QED
  BY <1>2, <1>3, <1>4 DEF SealedPackages, PlainApps

\* An end that is destroyed, whatever it has written before.
LEMMA DestroyedEnds ==
    ASSUME EndsInv, NEW e \in Ends, NEW list, Destroyed(e, list), life[e] # "none",
           UNCHANGED <<given, opening, crypto>>, wire' \in [Ends -> Seq(SealedPackages)],
           life["passive"] = "none" => wire'["passive"] = <<>>
    PROVE  Handshake' /\ WaitingApps' /\ Sealed'
<1>1. /\ life' = [life EXCEPT ![e] = "gone"]
      /\ pending' = [pending EXCEPT ![e] = <<>>]
      /\ pendingKey' = [pendingKey EXCEPT ![e] = <<>>]
      /\ sendList' = [sendList EXCEPT ![e] = <<>>]
  BY DEF Destroyed
<1>2. <<>> \in Seq(PlainApps) /\ <<>> \in Seq(SealedPackages)
  OBVIOUS
<1>3. SealedPackages' = SealedPackages
  BY DEF SealedPackages, given
<1>4. WaitingApps' /\ Sealed'
  BY <1>1, <1>2, <1>3 DEF EndsInv, WaitingApps, Sealed
<1>5. Handshake'
  BY <1>1, OtherEnd DEF EndsInv, Handshake, TypeOK, given
<1> QED
  BY <1>4, <1>5

LEMMA ClosingEnds ==
    ASSUME EndsInv, NEW e \in Ends, CloseEnd(e), life[e] # "none",
           UNCHANGED <<given, opening, crypto>>, wire' \in [Ends -> Seq(SealedPackages)],
           life["passive"] = "none" => wire'["passive"] = <<>>
    PROVE  Handshake' /\ WaitingApps' /\ Sealed'
<1>1. CASE Destroyed(e, <<>>)
  BY <1>1, DestroyedEnds
<1>2. CASE /\ life' = [life EXCEPT ![e] = "closing"]
           /\ UNCHANGED <<pending, pendingKey, sendList, registered>>
  <2>1. SealedPackages' = SealedPackages
    BY DEF SealedPackages, given
  <2>2. WaitingApps' /\ Sealed'
    BY <1>2, <2>1 DEF EndsInv, WaitingApps, Sealed
  <2>3. Handshake'
    BY <1>2, OtherEnd DEF EndsInv, Handshake, TypeOK, given
  <2> QED
    BY <2>2, <2>3
<1> QED
  BY <1>1, <1>2 DEF CloseEnd

LEMMA SendEnds ==
    ASSUME EndsInv, NEW e \in Ends, Send(e)
    PROVE  Handshake' /\ WaitingApps' /\ Sealed'
<1> DEFINE p == App(Len(sent[e]) + 1)
           c == Encrypted(p)
<1>1. p \in PlainApps
  BY SealedTyped DEF Send, EndsInv, TypeOK, Ids
<1>2. c \in SealedPackages /\ (~secure => p \in SealedPackages)
  BY <1>1, SealedTyped
<1>3. /\ life[e] = "open"
      /\ \/ /\ crypto[e] = "started" /\ SendRaw(e, <<c>>, {p})
            /\ UNCHANGED <<pending, pendingKey>>
         \/ /\ crypto[e] = "starting"
            /\ pendingKey' = [pendingKey EXCEPT ![e] = Append(@, p)]
            /\ UNCHANGED <<pending, sendList, wire>>
         \/ /\ crypto[e] = "none" /\ opening[e]
            /\ pending' = [pending EXCEPT ![e] = Append(@, p)]
            /\ UNCHANGED <<pendingKey, sendList, wire>>
         \/ /\ crypto[e] = "none" /\ ~opening[e] /\ SendRaw(e, <<p>>, {p})
            /\ UNCHANGED <<pending, pendingKey>>
      /\ UNCHANGED <<given, life, opening, crypto>>
  BY DEF Send
<1> HIDE DEF p, c
<1>4. SealedPackages' = SealedPackages
  BY <1>3 DEF SealedPackages, given
<1>5. wire \in [Ends -> Seq(SealedPackages)] /\ sendList \in [Ends -> Seq(SealedPackages)]
  BY DEF EndsInv, Sealed
<1>6. ASSUME NEW q \in SealedPackages, SendRaw(e, <<q>>, {p}), UNCHANGED <<pending, pendingKey>>
      PROVE  Handshake' /\ WaitingApps' /\ Sealed'
  <2>1. <<q>> \in Seq(SealedPackages)
    OBVIOUS
  <2>2. /\ wire' \in [Ends -> Seq(SealedPackages)] /\ sendList' \in [Ends -> Seq(SealedPackages)]
        /\ wire'[Other(e)] = wire[Other(e)] /\ sendList'[Other(e)] = sendList[Other(e)]
    BY <1>5, <1>6, <2>1, SendRawKeeps
  <2>3. Handshake'
    BY <1>3, <1>6, <2>2, OtherEnd DEF EndsInv, Handshake, TypeOK, given
  <2> QED
    BY <1>4, <1>6, <2>2, <2>3 DEF EndsInv, WaitingApps, Sealed
<1>7. CASE /\ crypto[e] = "starting"
           /\ pendingKey' = [pendingKey EXCEPT ![e] = Append(@, p)]
           /\ UNCHANGED <<pending, sendList, wire>>
  <2>1. Handshake'
    BY <1>3, <1>7, OtherEnd DEF EndsInv, Handshake, TypeOK, given
  <2>2. WaitingApps'
    BY <1>1, <1>7 DEF EndsInv, WaitingApps
  <2> QED
    BY <1>4, <1>5, <1>7, <2>1, <2>2 DEF Sealed
<1>8. CASE /\ crypto[e] = "none" /\ opening[e]
           /\ pending' = [pending EXCEPT ![e] = Append(@, p)]
           /\ UNCHANGED <<pendingKey, sendList, wire>>
  <2>0. e = "active"
    BY <1>3, <1>8, OtherEnd DEF EndsInv, Handshake
  <2>1. Handshake'
    BY <1>3, <1>8, <2>0, OtherEnd DEF EndsInv, Handshake, TypeOK, given
  <2>2. WaitingApps'
    BY <1>1, <1>8 DEF EndsInv, WaitingApps
  <2> QED
    BY <1>4, <1>5, <1>8, <2>1, <2>2 DEF Sealed
<1>9. crypto[e] = "none" /\ ~opening[e] => ~secure
  BY <1>3, OtherEnd DEF EndsInv, Handshake
<1> QED
  BY <1>2, <1>3, <1>6, <1>7, <1>8, <1>9

LEMMA AcceptEnds ==
    ASSUME EndsInv, Accept
    PROVE  Handshake' /\ WaitingApps' /\ Sealed'
<1> DEFINE hello == IF secure THEN <<Control("setting"), Control("request")>>
                    ELSE <<Control("setting")>>
<1>1. /\ life["passive"] = "none"
      /\ SendRaw("passive", hello, Range(hello))
      /\ life' = [life EXCEPT !["passive"] = "open"]
      /\ crypto' = [crypto EXCEPT !["passive"] = IF secure THEN "starting" ELSE "none"]
      /\ opening' = [opening EXCEPT !["passive"] = FALSE]
      /\ UNCHANGED <<given, pending, pendingKey, sent, delivered>>
  BY DEF Accept
<1>2. Control("setting") \in SealedPackages /\ Control("request") \in SealedPackages
  BY SealedTyped DEF Kinds
<1>3. hello \in Seq(SealedPackages)
  <2>1. CASE secure
    BY <1>2, <2>1
  <2>2. CASE ~secure
    BY <1>2, <2>2
  <2> QED
    BY <2>1, <2>2
<1> HIDE DEF hello
<1>4. wire' \in [Ends -> Seq(SealedPackages)] /\ sendList' \in [Ends -> Seq(SealedPackages)]
  BY <1>1, <1>3, SendRawKeeps, OtherEnd DEF EndsInv, Sealed
<1>5. SealedPackages' = SealedPackages
  BY <1>1 DEF SealedPackages, given
<1>6. Handshake'
  BY <1>1, OtherEnd DEF EndsInv, Handshake, TypeOK, given
<1> QED
  BY <1>1, <1>4, <1>5, <1>6 DEF EndsInv, WaitingApps, Sealed

LEMMA WritableEnds ==
    ASSUME EndsInv, NEW e \in Ends, Writable(e)
    PROVE  Handshake' /\ WaitingApps' /\ Sealed'
<1>1. /\ wire' \in [Ends -> Seq(SealedPackages)] /\ sendList' \in [Ends -> Seq(SealedPackages)]
      /\ \A d \in Ends \ {e} : wire'[d] = wire[d] /\ sendList'[d] = sendList[d]
  BY WritableKeeps DEF EndsInv, Sealed
<1>2. /\ life[e] \in {"open", "closing"}
      /\ UNCHANGED <<given, opening, crypto, sent, delivered>>
      /\ Destroyed(e, sendList[e]) \/ UNCHANGED <<life, pending, pendingKey>>
  BY DEF Writable
<1>3. life["passive"] = "none" => wire'["passive"] = <<>>
  BY <1>1, <1>2, OtherEnd DEF EndsInv, Handshake
<1>4. CASE Destroyed(e, sendList[e])
  BY <1>1, <1>2, <1>3, <1>4, DestroyedEnds
<1>5. CASE UNCHANGED <<life, pending, pendingKey>>
  <2>1. SealedPackages' = SealedPackages
    BY <1>2 DEF SealedPackages, given
  <2>2. Handshake'
    BY <1>1, <1>2, <1>3, <1>5, OtherEnd DEF EndsInv, Handshake, given
  <2> QED
    BY <1>1, <1>5, <2>1, <2>2 DEF EndsInv, WaitingApps, Sealed
<1> QED
  BY <1>2, <1>4, <1>5

LEMMA ReadOtherVersionEnds ==
    ASSUME EndsInv, NEW e \in Ends, ReadOtherVersion(e)
    PROVE  Handshake' /\ WaitingApps' /\ Sealed'
<1> DEFINE note == Control("version")
           d == Other(e)
           T == SealedPackages
           Short == [wire EXCEPT ![d] = Tail(@)]
<1>1. note \in T
  BY SealedTyped DEF Kinds
<1>2. /\ life[e] = "open" /\ wire[d] # <<>>
      /\ UNCHANGED <<given, opening, crypto, sent, delivered>>
      /\ \/ CloseEnd(e) /\ wire' = Short
         \/ /\ wire' = [wire EXCEPT ![d] = Tail(@), ![e] = Append(@, note)]
            /\ Destroyed(e, <<>>)
         \/ /\ wire' = Short
            /\ life' = [life EXCEPT ![e] = "closing"]
            /\ sendList' = [sendList EXCEPT ![e] = Append(@, note)]
            /\ UNCHANGED <<pending, pendingKey>>
  BY DEF ReadOtherVersion, Read
<1>3. wire \in [Ends -> Seq(T)] /\ sendList \in [Ends -> Seq(T)]
  BY DEF EndsInv, Sealed
<1>4. d \in Ends /\ d # e
  BY OtherEnd
<1> HIDE DEF note, T
<1>5. /\ Tail(wire[d]) \in Seq(T) /\ Append(wire[e], note) \in Seq(T)
      /\ Append(sendList[e], note) \in Seq(T)
  BY <1>1, <1>2, <1>3, <1>4, HeadTailProperties, AppendProperties
<1>6. Short \in [Ends -> Seq(T)]
      /\ [wire EXCEPT ![d] = Tail(@), ![e] = Append(@, note)] \in [Ends -> Seq(T)]
  BY <1>3, <1>4, <1>5
<1>7. life["passive"] # "none"
  BY <1>2, <1>4, OtherEnd DEF EndsInv, Handshake
<1>8. CASE CloseEnd(e) /\ wire' = Short
  BY <1>2, <1>6, <1>7, <1>8, ClosingEnds DEF T
<1>9. CASE /\ wire' = [wire EXCEPT ![d] = Tail(@), ![e] = Append(@, note)]
           /\ Destroyed(e, <<>>)
  BY <1>2, <1>6, <1>7, <1>9, DestroyedEnds DEF T
<1>10. CASE /\ wire' = Short
            /\ life' = [life EXCEPT ![e] = "closing"]
            /\ sendList' = [sendList EXCEPT ![e] = Append(@, note)]
            /\ UNCHANGED <<pending, pendingKey>>
  <2>1. T' = T
    BY <1>2 DEF T, SealedPackages, given
  <2>2. sendList' \in [Ends -> Seq(T)]
    BY <1>3, <1>5, <1>10
  <2> HIDE DEF Short, d
  <2>3. Handshake'
    BY <1>2, <1>7, <1>10, OtherEnd DEF EndsInv, Handshake, TypeOK, given
  <2> QED
    BY <1>6, <1>10, <2>1, <2>2, <2>3 DEF EndsInv, WaitingApps, Sealed, T
<1> QED
  BY <1>2, <1>8, <1>9, <1>10

LEMMA ReadSettingEnds ==
    ASSUME EndsInv, NEW e \in Ends, ReadSetting(e)
    PROVE  Handshake' /\ WaitingApps' /\ Sealed'
<1> DEFINE list == IF secure THEN <<>> ELSE pending[e]
<1>1. /\ e = "active" /\ opening[e] /\ Read(e) /\ ReadAndSend(e, list, {})
      /\ opening' = [opening EXCEPT ![e] = FALSE]
      /\ crypto' = [crypto EXCEPT ![e] = IF secure THEN "starting" ELSE "none"]
      /\ pending' = [pending EXCEPT ![e] = <<>>]
      /\ IF secure THEN pendingKey' = [pendingKey EXCEPT ![e] = @ \o pending[e]]
         ELSE UNCHANGED pendingKey
      /\ UNCHANGED <<given, life, sent, delivered>>
  BY DEF ReadSetting
<1>2. list \in Seq(SealedPackages)
  <2>1. CASE secure
    BY <2>1
  <2>2. CASE ~secure
    <3>1. pending[e] \in Seq(PlainApps) /\ PlainApps \subseteq SealedPackages
      BY <2>2, SealedTyped DEF EndsInv, WaitingApps
    <3> QED
      BY <2>2, <3>1
  <2> QED
    BY <2>1, <2>2
<1> HIDE DEF list
<1>3. wire' \in [Ends -> Seq(SealedPackages)] /\ sendList' \in [Ends -> Seq(SealedPackages)]
  BY <1>1, <1>2, ReadAndSendKeeps DEF EndsInv, Sealed
<1>4. SealedPackages' = SealedPackages
  BY <1>1 DEF SealedPackages, given
<1>5. pendingKey[e] \o pending[e] \in Seq(PlainApps)
  BY ConcatProperties DEF EndsInv, WaitingApps
<1> DEFINE more == pendingKey[e] \o pending[e]
<1>9. IF secure THEN pendingKey' = [pendingKey EXCEPT ![e] = more] ELSE UNCHANGED pendingKey
  BY <1>1
<1>6. WaitingApps'
  <2>1. more \in Seq(PlainApps) /\ <<>> \in Seq(PlainApps)
    BY <1>5
  <2> HIDE DEF more
  <2> QED
    BY <1>1, <1>9, <2>1 DEF EndsInv, WaitingApps
<1> HIDE DEF more
<1>7. life["passive"] # "none" /\ pendingKey["active"] = <<>>
  BY <1>1, OtherEnd DEF EndsInv, Handshake, Read
<1>8. Handshake'
  BY <1>1, <1>7, <1>9, OtherEnd DEF EndsInv, Handshake, TypeOK, given
<1> QED
  BY <1>3, <1>4, <1>6, <1>8 DEF Sealed

LEMMA ReadKeyEnds ==
    ASSUME EndsInv, NEW e \in Ends, ReadKey(e)
    PROVE  Handshake' /\ WaitingApps' /\ Sealed'
<1> DEFINE answer == IF e = "active" THEN <<Control("response")>> ELSE <<>>
           list == answer \o EncryptedAll(pendingKey[e])
           new == Range(answer)
<1>1. /\ ~opening[e] /\ crypto[e] = "starting" /\ Read(e) /\ ReadAndSend(e, list, new)
      /\ crypto' = [crypto EXCEPT ![e] = "started"]
      /\ pendingKey' = [pendingKey EXCEPT ![e] = <<>>]
      /\ UNCHANGED <<given, life, opening, pending, sent, delivered>>
  BY DEF ReadKey
<1>2. list \in Seq(SealedPackages)
  <2>1. Control("response") \in SealedPackages
    BY SealedTyped DEF Kinds
  <2>2. answer \in Seq(SealedPackages)
    <3>1. CASE e = "active"
      BY <2>1, <3>1
    <3>2. CASE e # "active"
      BY <3>2
    <3> QED
      BY <3>1, <3>2
  <2> HIDE DEF answer
  <2>3. pendingKey[e] \in Seq(PlainApps) /\ pendingKey[e] \in Seq(Package)
    BY DEF EndsInv, WaitingApps, TypeOK
  <2>4. \A i \in 1 .. Len(pendingKey[e]) : Encrypted(pendingKey[e][i]) \in SealedPackages
    BY <2>3, SealedTyped
  <2>5. EncryptedAll(pendingKey[e]) \in Seq(SealedPackages)
    BY <2>3, <2>4 DEF EncryptedAll
  <2> QED
    BY <2>2, <2>5, ConcatProperties
<1> HIDE DEF list, new
<1>3. /\ wire' \in [Ends -> Seq(SealedPackages)] /\ sendList' \in [Ends -> Seq(SealedPackages)]
      /\ wire'[Other(e)] = Tail(wire[Other(e)]) /\ sendList'[Other(e)] = sendList[Other(e)]
  BY <1>1, <1>2, ReadAndSendKeeps DEF EndsInv, Sealed
<1>4. SealedPackages' = SealedPackages
  BY <1>1 DEF SealedPackages, given
<1>5. WaitingApps'
  BY <1>1 DEF EndsInv, WaitingApps
<1>6. life["passive"] # "none"
  BY <1>1, OtherEnd DEF EndsInv, Handshake, Read
<1>7. Handshake'
  BY <1>1, <1>6, OtherEnd DEF EndsInv, Handshake, TypeOK, given
<1> QED
  BY <1>3, <1>4, <1>5, <1>7 DEF Sealed

LEMMA ReadAppEnds ==
    ASSUME EndsInv, NEW e \in Ends, ReadApp(e)
    PROVE  Handshake' /\ WaitingApps' /\ Sealed'
<1>1. /\ Read(e) /\ ReadAndSend(e, <<>>, {})
      /\ UNCHANGED <<given, life, opening, crypto, pending, pendingKey, sent>>
  BY DEF ReadApp
<1>2. <<>> \in Seq(SealedPackages)
  OBVIOUS
<1>3. wire' \in [Ends -> Seq(SealedPackages)] /\ sendList' \in [Ends -> Seq(SealedPackages)]
  BY <1>1, <1>2, ReadAndSendKeeps DEF EndsInv, Sealed
<1>4. SealedPackages' = SealedPackages
  BY <1>1 DEF SealedPackages, given
<1>5. life["passive"] # "none"
  BY <1>1, OtherEnd DEF EndsInv, Handshake, Read
<1>6. Handshake'
  BY <1>1, <1>5, OtherEnd DEF EndsInv, Handshake, given
<1> QED
  BY <1>1, <1>3, <1>4, <1>6 DEF EndsInv, WaitingApps, Sealed

LEMMA EndsKept ==
    EndsInv /\ [Next]_vars => EndsInv'
<1> SUFFICES ASSUME EndsInv, [Next]_vars
             PROVE  Handshake' /\ WaitingApps' /\ Sealed'
  BY TypesKept DEF EndsInv
<1>1. CASE Accept
  BY <1>1, AcceptEnds
<1>2. ASSUME NEW e \in Ends, Send(e)
      PROVE  Handshake' /\ WaitingApps' /\ Sealed'
  BY <1>2, SendEnds
<1>3. ASSUME NEW e \in Ends, Close(e)
      PROVE  Handshake' /\ WaitingApps' /\ Sealed'
  <2>1. life[e] # "none" /\ wire' = wire
    BY <1>3 DEF Close
  <2> QED
    BY <1>3, <2>1, ClosingEnds DEF Close, EndsInv, Handshake, Sealed
<1>4. ASSUME NEW e \in Ends, Writable(e)
      PROVE  Handshake' /\ WaitingApps' /\ Sealed'
  BY <1>4, WritableEnds
<1>5. ASSUME NEW e \in Ends, Reading(e)
      PROVE  Handshake' /\ WaitingApps' /\ Sealed'
  BY <1>5, ReadOtherVersionEnds, ReadSettingEnds, ReadKeyEnds, ReadAppEnds DEF Reading
<1>6. ASSUME NEW e \in Ends, Lost(e)
      PROVE  Handshake' /\ WaitingApps' /\ Sealed'
  <2>1. life[e] # "none" /\ wire' = wire
    BY <1>6 DEF Lost
  <2> QED
    BY <1>6, <2>1, DestroyedEnds DEF Lost, EndsInv, Handshake, Sealed
<1>7. CASE UNCHANGED vars
  <2>1. SealedPackages' = SealedPackages
    BY <1>7 DEF SealedPackages, vars, given
  <2> QED
    BY <1>7, <2>1 DEF vars, given, EndsInv, Handshake, WaitingApps, Sealed
<1> QED
  BY <1>1, <1>2, <1>3, <1>4, <1>5, <1>6, <1>7 DEF Next

LEMMA InitEnds ==
    Init => EndsInv
<1> SUFFICES ASSUME Init
             PROVE  Handshake /\ WaitingApps /\ Sealed
  BY InitTyped DEF EndsInv
<1>1. Nothing \in [Ends -> Seq(PlainApps)] /\ Nothing \in [Ends -> Seq(SealedPackages)]
      /\ \A e \in Ends : Nothing[e] = <<>>
  BY DEF Nothing
<1>2. Handshake
  BY <1>1, OtherEnd DEF Init, Handshake
<1> QED
  BY <1>1, <1>2 DEF Init, WaitingApps, Sealed

THEOREM EndsAlways == Spec => []EndsInv
<1>1. Init => EndsInv
  BY InitEnds
<1>2. EndsInv /\ [Next]_vars => EndsInv'
  BY EndsKept
<1> QED
  BY <1>1, <1>2, PTL DEF Spec

\* Nothing of a worker leaves an end of a secure connection in plain text, not
\* even what was sent before the active end knew that it is secure, however many
\* packages are sent, and whichever versions the ends are of.
THEOREM SecureLeavesEncrypted == Spec => []SecureIsEncrypted
<1>1. EndsInv => SecureIsEncrypted
  <2> SUFFICES ASSUME EndsInv, NEW e \in Ends, NEW i \in DOMAIN wire[e],
                      secure, wire[e][i].kind = "app"
               PROVE  wire[e][i].cipher
    BY DEF SecureIsEncrypted
  <2>1. wire[e] \in Seq(SealedPackages)
    BY DEF EndsInv, Sealed
  <2>2. wire[e][i] \in SealedPackages
    BY <2>1
  <2> QED
    BY <2>2 DEF SealedPackages
<1> QED
  BY <1>1, EndsAlways, PTL

-----------------------------------------------------------------------------
(* What can be done to a flow *)

LEMMA ListFacts ==
    ASSUME NEW S, NEW list \in Seq(S)
    PROVE  /\ Len(list) \in Nat /\ DOMAIN list = 1 .. Len(list)
           /\ \A i \in 1 .. Len(list) : list[i] \in S
OBVIOUS

\* Packages of the worker, as IsFlow has them.
AppsFrom(list, n, last, encrypted) ==
    \A i \in DOMAIN list :
        /\ list[i].kind = "app" /\ list[i].cipher = encrypted
        /\ list[i].id = n + i /\ list[i].id <= last

LEMMA FlowPushed ==
    ASSUME NEW flow \in Seq(Package), NEW list \in Seq(Package), NEW controls \in Seq(Kinds),
           NEW n \in Nat, NEW last \in Nat, NEW m \in Int, NEW encrypted,
           IsFlow(flow, controls, n, last, encrypted), Len(controls) <= Len(flow),
           m = n + Len(flow) - Len(controls), AppsFrom(list, m, last, encrypted)
    PROVE  /\ IsFlow(Joined(flow, list), controls, n, last, encrypted)
           /\ Len(Joined(flow, list)) = Len(flow) + Len(list)
<1> DEFINE all == Joined(flow, list)
<1>1. /\ all \in Seq(Package) /\ Len(all) = Len(flow) + Len(list)
      /\ \A i \in 1 .. Len(flow) + Len(list) :
            all[i] = IF i <= Len(flow) THEN flow[i] ELSE list[i - Len(flow)]
  BY JoinedSeq
<1>2. Len(flow) \in Nat /\ Len(list) \in Nat /\ Len(controls) \in Nat
      /\ DOMAIN flow = 1 .. Len(flow) /\ DOMAIN list = 1 .. Len(list)
  BY ListFacts
<1>3. DOMAIN all = 1 .. Len(flow) + Len(list)
  BY <1>1, ListFacts
<1> HIDE DEF all
<1>4. ASSUME NEW i \in 1 .. Len(flow) + Len(list)
      PROVE  IF i <= Len(controls) THEN all[i].kind = controls[i]
             ELSE /\ all[i].kind = "app" /\ all[i].cipher = encrypted
                  /\ all[i].id = n + i - Len(controls) /\ all[i].id <= last
  <2>1. CASE i <= Len(flow)
    <3>1. i \in DOMAIN flow /\ all[i] = flow[i]
      BY <1>1, <1>2, <2>1
    <3>2. IF i <= Len(controls) THEN flow[i].kind = controls[i]
          ELSE /\ flow[i].kind = "app" /\ flow[i].cipher = encrypted
               /\ flow[i].id = n + i - Len(controls) /\ flow[i].id <= last
      BY <3>1 DEF IsFlow
    <3> QED
      BY <3>1, <3>2
  <2>2. CASE ~(i <= Len(flow))
    <3> DEFINE j == i - Len(flow)
    <3>1. j \in 1 .. Len(list) /\ all[i] = list[j] /\ ~(i <= Len(controls))
      BY <1>1, <1>2, <2>2
    <3>2. m + j = n + i - Len(controls)
      BY <1>2
    <3>3. j \in DOMAIN list
      BY <1>2, <3>1
    <3> HIDE DEF j
    <3> QED
      BY <3>1, <3>2, <3>3 DEF AppsFrom
  <2> QED
    BY <2>1, <2>2
<1>5. IsFlow(all, controls, n, last, encrypted)
  BY <1>3, <1>4 DEF IsFlow
<1> QED
  BY <1>1, <1>5 DEF all

LEMMA FlowGrown ==
    ASSUME NEW flow \in Seq(Package), NEW controls \in Seq(Kinds),
           NEW n \in Nat, NEW last \in Nat, NEW encrypted,
           IsFlow(flow, controls, n, last, encrypted)
    PROVE  IsFlow(flow, controls, n, last + 1, encrypted)
<1>1. \A i \in DOMAIN flow : flow[i].id \in Nat
  <2> SUFFICES ASSUME NEW i \in DOMAIN flow
               PROVE  flow[i].id \in Nat
    OBVIOUS
  <2>1. flow[i] \in Package
    OBVIOUS
  <2>2. flow[i].id \in 0 .. MaxSends
    BY <2>1 DEF Package
  <2> QED
    BY <2>2, ConnectionAssumption
<1> QED
  BY <1>1 DEF IsFlow

LEMMA FlowPopped ==
    ASSUME NEW flow \in Seq(Package), NEW controls \in Seq(Kinds), NEW fewer \in Seq(Kinds),
           NEW n \in Nat, NEW m \in Nat, NEW last \in Nat, NEW encrypted,
           IsFlow(flow, controls, n, last, encrypted), flow # <<>>,
           \/ Len(controls) = Len(fewer) + 1 /\ m = n
              /\ \A i \in 1 .. Len(fewer) : fewer[i] = controls[i + 1]
           \/ controls = <<>> /\ fewer = <<>> /\ m = n + 1
    PROVE  /\ IsFlow(Tail(flow), fewer, m, last, encrypted)
           /\ Len(Tail(flow)) = Len(flow) - 1
<1> DEFINE rest == Tail(flow)
<1>1. /\ rest \in Seq(Package) /\ Len(rest) = Len(flow) - 1 /\ Len(flow) \in Nat \ {0}
      /\ \A i \in 1 .. Len(flow) - 1 : rest[i] = flow[i + 1]
  BY EmptySeq, HeadTailProperties
<1>2. DOMAIN rest = 1 .. Len(flow) - 1 /\ DOMAIN flow = 1 .. Len(flow)
      /\ Len(controls) \in Nat /\ Len(fewer) \in Nat
  BY <1>1, ListFacts
<1> HIDE DEF rest
<1>3. ASSUME NEW i \in 1 .. Len(flow) - 1
      PROVE  IF i <= Len(fewer) THEN rest[i].kind = fewer[i]
             ELSE /\ rest[i].kind = "app" /\ rest[i].cipher = encrypted
                  /\ rest[i].id = m + i - Len(fewer) /\ rest[i].id <= last
  <2>1. i + 1 \in DOMAIN flow /\ rest[i] = flow[i + 1]
    BY <1>1, <1>2
  <2>2. IF i + 1 <= Len(controls) THEN flow[i + 1].kind = controls[i + 1]
        ELSE /\ flow[i + 1].kind = "app" /\ flow[i + 1].cipher = encrypted
             /\ flow[i + 1].id = n + (i + 1) - Len(controls) /\ flow[i + 1].id <= last
    BY <2>1 DEF IsFlow
  <2>3. /\ i + 1 <= Len(controls) <=> i <= Len(fewer)
        /\ i <= Len(fewer) => fewer[i] = controls[i + 1]
        /\ n + (i + 1) - Len(controls) = m + i - Len(fewer)
    <3>1. CASE /\ Len(controls) = Len(fewer) + 1 /\ m = n
               /\ \A k \in 1 .. Len(fewer) : fewer[k] = controls[k + 1]
      BY <1>2, <3>1
    <3>2. CASE controls = <<>> /\ fewer = <<>> /\ m = n + 1
      <4>1. Len(controls) = 0 /\ Len(fewer) = 0
        BY <3>2
      <4> QED
        BY <3>2, <4>1
    <3> QED
      BY <3>1, <3>2
  <2> QED
    BY <2>1, <2>2, <2>3
<1>4. IsFlow(rest, fewer, m, last, encrypted)
  BY <1>2, <1>3 DEF IsFlow
<1> QED
  BY <1>1, <1>4 DEF rest

LEMMA FlowCut ==
    ASSUME NEW a \in Seq(Package), NEW b \in Seq(Package), NEW controls,
           NEW n, NEW last, NEW encrypted,
           IsFlow(Joined(a, b), controls, n, last, encrypted)
    PROVE  /\ IsFlow(Joined(a, <<>>), controls, n, last, encrypted)
           /\ Joined(a, b) = <<>> => Joined(a, <<>>) = <<>>
<1> DEFINE all == Joined(a, b)
<1>1. /\ all \in Seq(Package) /\ Len(all) = Len(a) + Len(b)
      /\ \A i \in 1 .. Len(a) + Len(b) : all[i] = IF i <= Len(a) THEN a[i] ELSE b[i - Len(a)]
  BY JoinedSeq
<1>2. Len(a) \in Nat /\ Len(b) \in Nat /\ DOMAIN a = 1 .. Len(a)
  BY ListFacts
<1>3. DOMAIN all = 1 .. Len(a) + Len(b)
  BY <1>1, ListFacts
<1>4. Joined(a, <<>>) = a
  BY JoinedEmpty
<1>5. IsFlow(all, controls, n, last, encrypted)
  OBVIOUS
<1> HIDE DEF all
<1>6. \A i \in DOMAIN a : i \in DOMAIN all /\ all[i] = a[i]
  BY <1>1, <1>2, <1>3
<1>7. IsFlow(a, controls, n, last, encrypted)
  BY <1>5, <1>6 DEF IsFlow
<1>8. all = <<>> => a = <<>>
  <2>1. all = <<>> => Len(all) = 0
    OBVIOUS
  <2>2. Len(a) = 0 => a = <<>>
    BY EmptySeq
  <2> QED
    BY <1>1, <1>2, <2>1, <2>2
<1> QED
  BY <1>4, <1>7, <1>8 DEF all

-----------------------------------------------------------------------------
(* Agreement of two ends of one version *)

LEMMA FlowTypes ==
    ASSUME TypeOK
    PROVE  \A e \in Ends :
              /\ Flow(e) \in Seq(Package) /\ Len(Flow(e)) \in Nat
              /\ Controls(e) \in Seq(Kinds) /\ Len(Controls(e)) \in Nat
              /\ Len(sent[e]) \in Nat /\ Len(delivered[e]) \in Nat
              /\ Len(pending[e]) \in Nat /\ Len(pendingKey[e]) \in Nat
<1> SUFFICES ASSUME NEW e \in Ends
             PROVE  /\ Flow(e) \in Seq(Package) /\ Len(Flow(e)) \in Nat
                    /\ Controls(e) \in Seq(Kinds) /\ Len(Controls(e)) \in Nat
                    /\ Len(sent[e]) \in Nat /\ Len(delivered[e]) \in Nat
                    /\ Len(pending[e]) \in Nat /\ Len(pendingKey[e]) \in Nat
  OBVIOUS
<1>1. wire[e] \in Seq(Package) /\ sendList[e] \in Seq(Package)
  BY DEF TypeOK
<1>2. Flow(e) \in Seq(Package)
  BY <1>1, JoinedSeq DEF Flow
<1>3. /\ <<"setting", "request">> \in Seq(Kinds) /\ <<"setting">> \in Seq(Kinds)
      /\ <<"request">> \in Seq(Kinds) /\ <<"response">> \in Seq(Kinds) /\ <<>> \in Seq(Kinds)
  BY DEF Kinds
<1>4. Controls(e) \in Seq(Kinds)
  BY <1>3 DEF Controls
<1>5. /\ sent[e] \in Seq(Ids) /\ delivered[e] \in Seq(0 .. MaxSends)
      /\ pending[e] \in Seq(Package) /\ pendingKey[e] \in Seq(Package)
  BY DEF TypeOK
<1> HIDE DEF Flow, Controls
<1> QED
  BY <1>2, <1>4, <1>5, ListFacts

\* The flow that a step leaves alone, and the one of an end that is destroyed.
LEMMA FlowLeft ==
    ASSUME NEW d \in Ends, OneFlow(d), secure' = secure, sent'[d] = sent[d],
           delivered'[Other(d)] = delivered[Other(d)], Controls(d)' = Controls(d),
           \/ /\ Flow(d)' = Flow(d) /\ pending'[d] = pending[d]
              /\ pendingKey'[d] = pendingKey[d]
              /\ life'[d] # "gone" => life[d] # "gone"
           \/ /\ life'[d] = "gone"
              /\ IsFlow(Flow(d)', Controls(d), Len(delivered[Other(d)]), Len(sent[d]), secure)
    PROVE  OneFlow(d)'
<1> DEFINE f == Flow(d)
           c == Controls(d)
           g == Flow(d)'
<1>1. /\ Controls(d)' = c
      /\ (f)' = g
  OBVIOUS
<1>2. \A i \in DOMAIN sent'[d] : sent'[d][i] = i
  BY DEF OneFlow
<1>3. IsFlow(g, c, Len(delivered[Other(d)]), Len(sent[d]), secure)
  <2>1. IsFlow(f, c, Len(delivered[Other(d)]), Len(sent[d]), secure)
    BY DEF OneFlow
  <2> QED
    BY <2>1
<1>4. CASE life'[d] = "gone"
  BY <1>2, <1>3, <1>4 DEF OneFlow
<1>5. CASE /\ g = f /\ pending'[d] = pending[d]
           /\ pendingKey'[d] = pendingKey[d]
           /\ life'[d] # "gone" => life[d] # "gone"
  <2>1. life[d] # "gone" =>
          /\ Len(c) <= Len(f)
          /\ Len(sent[d]) = Passed(d) + Len(pendingKey[d]) + Len(pending[d])
          /\ NumberedFrom(pendingKey[d], Passed(d)) /\ NumberedFrom(pending[d], Passed(d))
    BY DEF OneFlow
  <2>2. Passed(d)' = Passed(d)
    BY <1>5 DEF Passed
  <2>3. ASSUME life'[d] # "gone"
        PROVE  /\ Len(Controls(d)') <= Len(Flow(d)')
               /\ Len(sent'[d]) = Passed(d)' + Len(pendingKey'[d]) + Len(pending'[d])
               /\ NumberedFrom(pendingKey'[d], Passed(d)')
               /\ NumberedFrom(pending'[d], Passed(d)')
    BY <1>5, <2>1, <2>2, <2>3
  <2>4. IsFlow(Flow(d)', Controls(d)', Len(delivered'[Other(d)]), Len(sent'[d]), secure')
    BY <1>3
  <2> QED
    BY <1>2, <2>3, <2>4 DEF OneFlow
<1> QED
  BY <1>4, <1>5

LEMMA NumberedAppend ==
    ASSUME NEW list \in Seq(Package), NEW n \in Int, NEW p \in Package,
           NumberedFrom(list, n), p.id = n + Len(list) + 1
    PROVE  NumberedFrom(Append(list, p), n) /\ Len(Append(list, p)) = Len(list) + 1
<1> DEFINE more == Append(list, p)
<1>1. /\ more \in Seq(Package) /\ Len(more) = Len(list) + 1 /\ Len(list) \in Nat
      /\ \A i \in 1 .. Len(list) : more[i] = list[i]
      /\ more[Len(list) + 1] = p
  BY AppendProperties
<1>2. DOMAIN more = 1 .. Len(list) + 1 /\ DOMAIN list = 1 .. Len(list)
  BY <1>1, ListFacts
<1> HIDE DEF more
<1>3. NumberedFrom(more, n)
  BY <1>1, <1>2 DEF NumberedFrom
<1> QED
  BY <1>1, <1>3 DEF more

LEMMA NumberedNone ==
    /\ Len(<<>>) = 0
    /\ \A n : NumberedFrom(<<>>, n)
BY DEF NumberedFrom

\* Nothing waits on an end that knows its key, or that has none.
LEMMA NothingWaits ==
    ASSUME EndsInv, NEW e \in Ends
    PROVE  /\ crypto[e] # "starting" => pendingKey[e] = <<>>
           /\ ~(opening[e] /\ crypto[e] = "none") => pending[e] = <<>>
BY OtherEnd DEF EndsInv, Handshake

LEMMA SendAgrees ==
    ASSUME EndsInv, Agreed, NEW e \in Ends, Send(e)
    PROVE  Agreed'
<1> DEFINE last == Len(sent[e])
           p == App(last + 1)
           c == Encrypted(p)
           d == Other(e)
           n == Len(delivered[d])
           passed == Passed(e)
<1>1. /\ life[e] = "open" /\ last + 1 <= MaxSends
      /\ sent' = [sent EXCEPT ![e] = Append(@, last + 1)]
      /\ \/ /\ crypto[e] = "started" /\ SendRaw(e, <<c>>, {p})
            /\ UNCHANGED <<pending, pendingKey>>
         \/ /\ crypto[e] = "starting"
            /\ pendingKey' = [pendingKey EXCEPT ![e] = Append(@, p)]
            /\ UNCHANGED <<pending, sendList, wire>>
         \/ /\ crypto[e] = "none" /\ opening[e]
            /\ pending' = [pending EXCEPT ![e] = Append(@, p)]
            /\ UNCHANGED <<pendingKey, sendList, wire>>
         \/ /\ crypto[e] = "none" /\ ~opening[e] /\ SendRaw(e, <<p>>, {p})
            /\ UNCHANGED <<pending, pendingKey>>
      /\ UNCHANGED <<given, life, opening, crypto, delivered>>
  BY DEF Send
<1>2. d \in Ends /\ d # e /\ Other(d) = e /\ \A x \in Ends : x = e \/ x = d
  BY OtherEnd
<1>3. last \in Nat /\ n \in Nat /\ Len(Flow(e)) \in Nat /\ Len(Controls(e)) \in Nat
  BY <1>2, FlowTypes DEF EndsInv
<1>4. p \in Package /\ c \in Package /\ p.kind = "app" /\ c.kind = "app"
      /\ p.id = last + 1 /\ c.id = last + 1 /\ p.cipher = FALSE /\ c.cipher = TRUE
  <2>1. p \in Package /\ c \in Package
    BY <1>1, <1>3, PackagesTyped DEF Ids
  <2> QED
    BY <2>1 DEF App, Encrypted
<1>5. Len(sent'[e]) = last + 1 /\ \A i \in DOMAIN sent'[e] : sent'[e][i] = i
  <2>1. sent[e] \in Seq(Ids) /\ \A i \in DOMAIN sent[e] : sent[e][i] = i
    BY DEF EndsInv, TypeOK, Agreed, OneFlow
  <2>2. last + 1 \in Ids
    BY <1>1, <1>3, ConnectionAssumption DEF Ids
  <2>3. sent'[e] = Append(sent[e], last + 1)
    BY <1>1 DEF EndsInv, TypeOK
  <2> QED
    BY <2>1, <2>2, <2>3
<1>6. \A x \in Ends : Controls(x)' = Controls(x)
  BY <1>1 DEF Controls, given
<1>7. /\ IsFlow(Flow(e), Controls(e), n, last, secure)
      /\ Len(Controls(e)) <= Len(Flow(e))
      /\ last = passed + Len(pendingKey[e]) + Len(pending[e])
      /\ NumberedFrom(pendingKey[e], passed) /\ NumberedFrom(pending[e], passed)
      /\ OneFlow(d)
  BY <1>1, <1>2 DEF Agreed, OneFlow
<1>8. passed = n + Len(Flow(e)) - Len(Controls(e)) /\ passed \in Int
  BY <1>3 DEF Passed
<1>9. pending[e] \in Seq(Package) /\ pendingKey[e] \in Seq(Package)
      /\ Len(pending[e]) \in Nat /\ Len(pendingKey[e]) \in Nat
  BY ListFacts DEF EndsInv, TypeOK
<1>10. /\ Passed(e)' = n + Len(Flow(e)') - Len(Controls(e))
       /\ secure' = secure /\ delivered' = delivered /\ life' = life /\ opening' = opening
       /\ crypto' = crypto /\ sent'[d] = sent[d]
  <2>1. Controls(e)' = Controls(e)
    BY <1>6
  <2> QED
    BY <1>1, <1>2, <2>1 DEF Passed, given
<1> HIDE DEF last, n, passed, p, c, d
<1>11. ASSUME NEW q \in Package, q.kind = "app", q.id = last + 1, q.cipher = secure,
              SendRaw(e, <<q>>, {p}), UNCHANGED <<pending, pendingKey>>,
              crypto[e] # "starting" /\ ~(opening[e] /\ crypto[e] = "none"),
              crypto["active"] # "started" /\ e = "active" => ~secure
       PROVE  Agreed'
  <2>1. <<q>> \in Seq(Package) /\ Len(<<q>>) = 1 /\ <<q>>[1] = q
    OBVIOUS
  <2>2. Flow(e)' = Joined(Flow(e), <<q>>) /\ Flow(d)' = Flow(d)
    BY <1>11, <2>1, SendRawKeeps DEF EndsInv, TypeOK, d
  <2>3. pendingKey[e] = <<>> /\ pending[e] = <<>> /\ Len(<<>>) = 0
    BY <1>11, NothingWaits
  <2>4. last = passed
    BY <1>7, <1>8, <2>3
  <2>5. /\ IsFlow(Flow(e)', Controls(e), n, last + 1, secure)
        /\ Len(Flow(e)') = Len(Flow(e)) + 1
    <3> DEFINE f == Flow(e)
               k == Controls(e)
               list == <<q>>
               newLast == last + 1
               coded == secure
    <3>1. f \in Seq(Package) /\ k \in Seq(Kinds)
      BY FlowTypes DEF EndsInv
    <3>2. /\ Len(k) <= Len(f) /\ list \in Seq(Package) /\ Len(list) = 1 /\ list[1] = q
          /\ last = n + Len(f) - Len(k)
      BY <1>7, <1>8, <2>1, <2>4
    <3>3. IsFlow(f, k, n, newLast, coded)
      BY <1>3, <1>7, <3>1, FlowGrown
    <3>4. newLast \in Nat /\ n \in Nat /\ last \in Int
      BY <1>3
    <3>5. AppsFrom(list, last, newLast, coded)
      BY <1>3, <1>11, <3>2 DEF AppsFrom
    <3> HIDE DEF f, k, list, newLast, coded
    <3>6. IsFlow(Joined(f, list), k, n, newLast, coded)
          /\ Len(Joined(f, list)) = Len(f) + Len(list)
      BY <3>1, <3>2, <3>3, <3>4, <3>5, FlowPushed
    <3> QED
      BY <2>2, <3>2, <3>6 DEF f, k, list, newLast, coded
  <2>6. OneFlow(d)'
    BY <1>1, <1>2, <1>6, <1>7, <1>10, <1>11, <2>2, FlowLeft
  <2>7. Passed(e)' = last + 1
    BY <1>3, <1>8, <1>10, <2>4, <2>5
  <2>8. Len(Controls(e)') <= Len(Flow(e)')
    BY <1>3, <1>6, <1>7, <2>5
  <2>9. pendingKey'[e] = <<>> /\ pending'[e] = <<>>
    BY <1>11, <2>3
  <2>10. IsFlow(Flow(e)', Controls(e)', Len(delivered'[Other(e)]), Len(sent'[e]), secure')
    BY <1>5, <1>6, <1>10, <2>5 DEF n, d
  <2>11. Len(sent'[e]) = Passed(e)' + Len(pendingKey'[e]) + Len(pending'[e])
    BY <1>3, <1>5, <2>7, <2>9, NumberedNone
  <2>12. OneFlow(e)'
    BY <1>5, <2>8, <2>9, <2>10, <2>11, NumberedNone DEF OneFlow
  <2>13. KeysAgree'
    BY <1>2, <1>10, <1>11, <2>2, OtherEnd DEF Agreed, KeysAgree, EndsInv, Handshake
  <2> QED
    BY <1>2, <2>6, <2>12, <2>13 DEF Agreed
\* Sending to a waiting list leaves the flows alone.
<1>12. ASSUME UNCHANGED <<sendList, wire>>,
              /\ pendingKey'[d] = pendingKey[d] /\ pending'[d] = pending[d],
              \/ /\ pendingKey'[e] = Append(pendingKey[e], p) /\ pending'[e] = <<>>
                 /\ pending[e] = <<>>
              \/ /\ pending'[e] = Append(pending[e], p) /\ pendingKey'[e] = <<>>
                 /\ pendingKey[e] = <<>>
       PROVE  Agreed'
  <2>1. Flow(e)' = Flow(e) /\ Flow(d)' = Flow(d)
    BY <1>12 DEF Flow
  <2>2. OneFlow(d)'
    BY <1>1, <1>2, <1>6, <1>7, <1>10, <1>12, <2>1, FlowLeft
  <2>3. Passed(e)' = passed
    BY <1>8, <1>10, <2>1
  <2>4. IsFlow(Flow(e), Controls(e), n, last + 1, secure)
    BY <1>3, <1>7, FlowTypes, FlowGrown DEF EndsInv, TypeOK
  <2>5. IsFlow(Flow(e)', Controls(e)', Len(delivered'[Other(e)]), Len(sent'[e]), secure')
    BY <1>5, <1>6, <1>10, <2>1, <2>4 DEF n, d
  <2>6. /\ Len(sent'[e]) = passed + Len(pendingKey'[e]) + Len(pending'[e])
        /\ NumberedFrom(pendingKey'[e], passed) /\ NumberedFrom(pending'[e], passed)
    <3>1. CASE /\ pendingKey'[e] = Append(pendingKey[e], p) /\ pending'[e] = <<>>
               /\ pending[e] = <<>>
      <4>1. last = passed + Len(pendingKey[e])
        BY <1>7, <1>8, <1>9, <3>1, NumberedNone
      <4>2. p.id = passed + Len(pendingKey[e]) + 1
        BY <1>4, <4>1
      <4>3. NumberedFrom(pendingKey'[e], passed) /\ Len(pendingKey'[e]) = Len(pendingKey[e]) + 1
        BY <1>4, <1>7, <1>8, <1>9, <3>1, <4>2, NumberedAppend
      <4> QED
        BY <1>5, <1>8, <1>9, <3>1, <4>1, <4>3, NumberedNone
    <3>2. CASE /\ pending'[e] = Append(pending[e], p) /\ pendingKey'[e] = <<>>
               /\ pendingKey[e] = <<>>
      <4>1. last = passed + Len(pending[e])
        BY <1>7, <1>8, <1>9, <3>2, NumberedNone
      <4>2. p.id = passed + Len(pending[e]) + 1
        BY <1>4, <4>1
      <4>3. NumberedFrom(pending'[e], passed) /\ Len(pending'[e]) = Len(pending[e]) + 1
        BY <1>4, <1>7, <1>8, <1>9, <3>2, <4>2, NumberedAppend
      <4> QED
        BY <1>5, <1>8, <1>9, <3>2, <4>1, <4>3, NumberedNone
    <3> QED
      BY <1>12, <3>1, <3>2
  <2>7. Len(Controls(e)') <= Len(Flow(e)')
    BY <1>6, <1>7, <2>1
  <2>8. OneFlow(e)'
    BY <1>5, <2>3, <2>5, <2>6, <2>7 DEF OneFlow
  <2>9. KeysAgree'
    BY <1>2, <1>10, <2>1, OtherEnd DEF Agreed, KeysAgree
  <2> QED
    BY <1>2, <2>2, <2>8, <2>9 DEF Agreed
<1>13. /\ life["passive"] = "none" => e # "passive"
       /\ secure \in BOOLEAN /\ crypto[e] \in {"none", "starting", "started"}
  BY <1>1 DEF EndsInv, TypeOK
<1>14. CASE crypto[e] = "started" /\ SendRaw(e, <<c>>, {p}) /\ UNCHANGED <<pending, pendingKey>>
  <2>1. secure
    BY <1>1, <1>14, OtherEnd DEF EndsInv, Handshake
  <2>2. c.cipher = secure
    BY <1>4, <1>13, <2>1
  <2>3. crypto["active"] # "started" /\ e = "active" => ~secure
    BY <1>14
  <2> QED
    BY <1>4, <1>11, <1>14, <2>2, <2>3
<1>15. CASE /\ crypto[e] = "none" /\ ~opening[e] /\ SendRaw(e, <<p>>, {p})
            /\ UNCHANGED <<pending, pendingKey>>
  <2>1. ~secure
    BY <1>1, <1>15, OtherEnd DEF EndsInv, Handshake
  <2>2. p.cipher = secure
    BY <1>4, <1>13, <2>1
  <2> QED
    BY <1>4, <1>11, <1>15, <2>1, <2>2
<1>16. CASE /\ crypto[e] = "starting"
            /\ pendingKey' = [pendingKey EXCEPT ![e] = Append(@, p)]
            /\ UNCHANGED <<pending, sendList, wire>>
  <2>1. pending[e] = <<>>
    BY <1>16, NothingWaits
  <2>2. pendingKey'[e] = Append(pendingKey[e], p) /\ pendingKey'[d] = pendingKey[d]
    BY <1>2, <1>16 DEF EndsInv, TypeOK
  <2> QED
    BY <1>12, <1>16, <2>1, <2>2
<1>17. CASE /\ crypto[e] = "none" /\ opening[e]
            /\ pending' = [pending EXCEPT ![e] = Append(@, p)]
            /\ UNCHANGED <<pendingKey, sendList, wire>>
  <2>1. pendingKey[e] = <<>>
    BY <1>17, NothingWaits
  <2>2. pending'[e] = Append(pending[e], p) /\ pending'[d] = pending[d]
    BY <1>2, <1>17 DEF EndsInv, TypeOK
  <2> QED
    BY <1>12, <1>17, <2>1, <2>2
<1> QED
  BY <1>1, <1>14, <1>15, <1>16, <1>17 DEF last, p, c

\* The flow that an end has read the head of.
LEMMA FlowRead ==
    ASSUME EndsInv, NEW e \in Ends, NEW d \in Ends, d = Other(e), OneFlow(d),
           Flow(d) # <<>>, Flow(d)' = Tail(Flow(d)), Controls(d)' \in Seq(Kinds),
           secure' = secure, sent'[d] = sent[d], pending'[d] = pending[d],
           pendingKey'[d] = pendingKey[d], life'[d] = life[d],
           \/ /\ Len(Controls(d)) = Len(Controls(d)') + 1
              /\ \A i \in 1 .. Len(Controls(d)') : Controls(d)'[i] = Controls(d)[i + 1]
              /\ Len(delivered'[e]) = Len(delivered[e])
           \/ /\ Controls(d) = <<>> /\ Controls(d)' = <<>>
              /\ Len(delivered'[e]) = Len(delivered[e]) + 1
    PROVE  OneFlow(d)'
<1> DEFINE f == Flow(d)
           g == Flow(d)'
           c == Controls(d)
           k == Controls(d)'
           n == Len(delivered[e])
           m == Len(delivered'[e])
           last == Len(sent[d])
           coded == secure
<1>1. Other(d) = e
  BY OtherEnd
<1>2. /\ f \in Seq(Package) /\ c \in Seq(Kinds) /\ k \in Seq(Kinds)
      /\ Len(f) \in Nat /\ Len(c) \in Nat /\ n \in Nat /\ last \in Nat
      /\ Len(pending[d]) \in Nat /\ Len(pendingKey[d]) \in Nat
  BY FlowTypes DEF EndsInv
<1>3. /\ \A i \in DOMAIN sent'[d] : sent'[d][i] = i
      /\ IsFlow(f, c, n, last, coded) /\ f # <<>> /\ g = Tail(f)
  BY <1>1 DEF OneFlow
<1>4. \/ /\ Len(c) = Len(k) + 1 /\ m = n
         /\ \A i \in 1 .. Len(k) : k[i] = c[i + 1]
      \/ c = <<>> /\ k = <<>> /\ m = n + 1
  OBVIOUS
<1>5. Len(k) \in Nat /\ m \in Nat
  BY <1>2, <1>4, ListFacts
<1>6. life'[d] # "gone" =>
         /\ Len(c) <= Len(f) /\ last = Passed(d) + Len(pendingKey[d]) + Len(pending[d])
         /\ NumberedFrom(pendingKey[d], Passed(d)) /\ NumberedFrom(pending[d], Passed(d))
  BY DEF OneFlow
<1>7. Passed(d) = n + Len(f) - Len(c) /\ Passed(d)' = m + Len(g) - Len(k)
  BY <1>1 DEF Passed
<1>8. /\ Len(sent'[d]) = last /\ secure' = coded /\ pending'[d] = pending[d]
      /\ pendingKey'[d] = pendingKey[d] /\ life'[d] = life[d] /\ Len(delivered'[Other(d)]) = m
  BY <1>1
<1> HIDE DEF f, c, k, n, m, last, coded, g
<1>9. IsFlow(Tail(f), k, m, last, coded) /\ Len(Tail(f)) = Len(f) - 1
  BY <1>2, <1>3, <1>4, <1>5, FlowPopped
<1>10. Len(f) # 0
  BY <1>2, <1>3, EmptySeq
<1>11. Passed(d)' = Passed(d) /\ (Len(c) <= Len(f) => Len(k) <= Len(g))
  <2>1. CASE Len(c) = Len(k) + 1 /\ m = n
    BY <1>2, <1>3, <1>5, <1>7, <1>9, <2>1
  <2>2. CASE c = <<>> /\ k = <<>> /\ m = n + 1
    <3>1. Len(c) = 0 /\ Len(k) = 0
      BY <2>2
    <3> QED
      BY <1>2, <1>3, <1>5, <1>7, <1>9, <1>10, <2>2, <3>1
  <2> QED
    BY <1>4, <2>1, <2>2
<1>12. IsFlow(Flow(d)', Controls(d)', Len(delivered'[Other(d)]), Len(sent'[d]), secure')
  BY <1>3, <1>8, <1>9 DEF g, k
<1>13. life'[d] # "gone" =>
          /\ Len(Controls(d)') <= Len(Flow(d)')
          /\ Len(sent'[d]) = Passed(d)' + Len(pendingKey'[d]) + Len(pending'[d])
          /\ NumberedFrom(pendingKey'[d], Passed(d)')
          /\ NumberedFrom(pending'[d], Passed(d)')
  BY <1>6, <1>8, <1>11 DEF g, k
<1> QED
  BY <1>3, <1>12, <1>13 DEF OneFlow

\* The flow that an end sends to of what has waited.
LEMMA FlowSent ==
    ASSUME EndsInv, NEW e \in Ends, OneFlow(e), life[e] # "gone",
           secure' = secure, sent'[e] = sent[e],
           delivered'[Other(e)] = delivered[Other(e)], Controls(e)' = Controls(e),
           NEW list \in Seq(Package), Flow(e)' = Joined(Flow(e), list),
           AppsFrom(list, Passed(e), Len(sent[e]), secure),
           NumberedFrom(pendingKey'[e], Passed(e) + Len(list)), pending'[e] = <<>>,
           Len(list) + Len(pendingKey'[e]) = Len(pendingKey[e]) + Len(pending[e]),
           Len(pendingKey'[e]) \in Nat
    PROVE  OneFlow(e)'
<1> DEFINE f == Flow(e)
           g == Flow(e)'
           c == Controls(e)
           n == Len(delivered[Other(e)])
           last == Len(sent[e])
           coded == secure
           m == Passed(e)
<1>1. /\ f \in Seq(Package) /\ c \in Seq(Kinds)
      /\ Len(f) \in Nat /\ Len(c) \in Nat /\ n \in Nat /\ last \in Nat
      /\ Len(pending[e]) \in Nat /\ Len(pendingKey[e]) \in Nat /\ Len(list) \in Nat
  BY FlowTypes, OtherEnd, ListFacts DEF EndsInv
<1>2. /\ \A i \in DOMAIN sent'[e] : sent'[e][i] = i
      /\ IsFlow(f, c, n, last, coded) /\ g = Joined(f, list)
      /\ Len(c) <= Len(f) /\ last = m + Len(pendingKey[e]) + Len(pending[e])
      /\ AppsFrom(list, m, last, coded)
  BY DEF OneFlow
<1>3. m = n + Len(f) - Len(c) /\ Passed(e)' = n + Len(g) - Len(c)
  BY DEF Passed
<1>4. /\ Len(sent'[e]) = last /\ secure' = coded /\ Controls(e)' = c
      /\ Len(delivered'[Other(e)]) = n
  OBVIOUS
<1>5. NumberedFrom(pendingKey'[e], m + Len(list))
  OBVIOUS
<1> HIDE DEF f, c, n, last, coded, g, m
<1>6. m \in Int
  BY <1>1, <1>3
<1>7. IsFlow(Joined(f, list), c, n, last, coded) /\ Len(Joined(f, list)) = Len(f) + Len(list)
  BY <1>1, <1>2, <1>3, <1>6, FlowPushed
<1>8. Passed(e)' = m + Len(list) /\ Len(c) <= Len(g)
  BY <1>1, <1>2, <1>3, <1>7
<1>9. Len(sent'[e]) = Passed(e)' + Len(pendingKey'[e]) + Len(pending'[e])
  <2> DEFINE a == Len(pendingKey'[e])
             x == Len(pendingKey[e])
             y == Len(pending[e])
             z == Len(list)
  <2>1. z + a = x + y /\ a \in Nat /\ x \in Nat /\ y \in Nat /\ z \in Nat
        /\ last = m + x + y /\ Passed(e)' = m + z
    BY <1>1, <1>2, <1>8
  <2>2. Len(pending'[e]) = 0
    BY NumberedNone
  <2> HIDE DEF a, x, y, z
  <2>3. last = Passed(e)' + a + 0
    BY <1>6, <2>1
  <2> QED
    BY <1>4, <2>2, <2>3 DEF a
<1>10. IsFlow(Flow(e)', Controls(e)', Len(delivered'[Other(e)]), Len(sent'[e]), secure')
  BY <1>2, <1>4, <1>7 DEF g
<1>11. /\ Len(Controls(e)') <= Len(Flow(e)')
       /\ NumberedFrom(pendingKey'[e], Passed(e)') /\ NumberedFrom(pending'[e], Passed(e)')
  BY <1>4, <1>5, <1>8, NumberedNone DEF g
<1> QED
  BY <1>2, <1>9, <1>10, <1>11 DEF OneFlow

LEMMA AppsOfWaiting ==
    ASSUME TypeOK, NEW list \in Seq(PlainApps), NEW n \in Int, NEW last \in Nat,
           NumberedFrom(list, n), n + Len(list) <= last
    PROVE  /\ list \in Seq(Package)
           /\ ~secure => AppsFrom(list, n, last, secure)
           /\ secure => AppsFrom(EncryptedAll(list), n, last, secure)
<1>1. /\ list \in Seq(Package) /\ Len(list) \in Nat /\ DOMAIN list = 1 .. Len(list)
      /\ \A i \in 1 .. Len(list) : list[i] \in PlainApps
  BY SealedTyped, ListFacts
<1>2. secure \in BOOLEAN
  BY DEF TypeOK
<1>3. \A i \in 1 .. Len(list) :
         list[i].kind = "app" /\ list[i].cipher = FALSE /\ list[i].id = n + i
         /\ list[i].id <= last
  <2> SUFFICES ASSUME NEW i \in 1 .. Len(list)
               PROVE  list[i].kind = "app" /\ list[i].cipher = FALSE /\ list[i].id = n + i
                      /\ list[i].id <= last
    OBVIOUS
  <2>1. list[i] \in PlainApps
    BY <1>1
  <2>2. list[i].kind = "app" /\ list[i].cipher = FALSE
    BY <2>1 DEF PlainApps, Package
  <2>3. list[i].id = n + i
    BY <1>1 DEF NumberedFrom
  <2> QED
    BY <1>1, <2>2, <2>3
<1>4. ~secure => AppsFrom(list, n, last, secure)
  BY <1>1, <1>2, <1>3 DEF AppsFrom
<1>5. \A i \in 1 .. Len(list) :
         /\ EncryptedAll(list)[i].kind = "app" /\ EncryptedAll(list)[i].cipher = TRUE
         /\ EncryptedAll(list)[i].id = list[i].id
  <2> SUFFICES ASSUME NEW i \in 1 .. Len(list)
               PROVE  /\ EncryptedAll(list)[i].kind = "app"
                      /\ EncryptedAll(list)[i].cipher = TRUE
                      /\ EncryptedAll(list)[i].id = list[i].id
    OBVIOUS
  <2>1. EncryptedAll(list)[i] = Encrypted(list[i])
    BY <1>1 DEF EncryptedAll
  <2>2. list[i] \in Package /\ list[i].kind = "app"
    BY <1>1, <1>3
  <2> QED
    BY <2>1, <2>2 DEF Encrypted, Package
<1>6. DOMAIN EncryptedAll(list) = DOMAIN list
  BY DEF EncryptedAll
<1>7. secure => AppsFrom(EncryptedAll(list), n, last, secure)
  BY <1>1, <1>2, <1>3, <1>5, <1>6 DEF AppsFrom
<1> QED
  BY <1>1, <1>4, <1>7

\* Steps of an end that send nothing: it may go, with what it has not written.
LEMMA QuietAgrees ==
    ASSUME EndsInv, Agreed, NEW e \in Ends, life[e] # "none", e = "passive" => life'[e] # "none",
           UNCHANGED <<given, opening, crypto, sent, delivered>>,
           \A x \in Ends \ {e} : /\ life'[x] = life[x] /\ pending'[x] = pending[x]
                                 /\ pendingKey'[x] = pendingKey[x] /\ Flow(x)' = Flow(x),
           \/ /\ Flow(e)' = Flow(e) /\ pending'[e] = pending[e]
              /\ pendingKey'[e] = pendingKey[e]
              /\ life[e] # "gone"
           \/ /\ life'[e] = "gone"
              /\ Flow(e)' = Flow(e) \/ Flow(e)' = Joined(wire[e], <<>>)
    PROVE  Agreed'
<1>1. life'["passive"] = "none" <=> life["passive"] = "none"
  BY OtherEnd
<1>2. \A x \in Ends : Controls(x)' = Controls(x)
  BY <1>1 DEF Controls, given
<1>3. secure' = secure
  BY DEF given
<1>4. \A x \in Ends : Other(x) \in Ends /\ sent'[x] = sent[x]
                      /\ delivered'[Other(x)] = delivered[Other(x)]
  BY OtherEnd
<1>5. /\ Flow(e) = <<>> => Joined(wire[e], <<>>) = <<>>
      /\ IsFlow(Joined(wire[e], <<>>), Controls(e), Len(delivered[Other(e)]), Len(sent[e]), secure)
      /\ IsFlow(Flow(e), Controls(e), Len(delivered[Other(e)]), Len(sent[e]), secure)
  <2>1. wire[e] \in Seq(Package) /\ sendList[e] \in Seq(Package)
    BY DEF EndsInv, TypeOK
  <2>2. IsFlow(Flow(e), Controls(e), Len(delivered[Other(e)]), Len(sent[e]), secure)
    BY DEF Agreed, OneFlow
  <2>3. Flow(e) = Joined(wire[e], sendList[e])
    BY DEF Flow
  <2> DEFINE c == Controls(e)
             n == Len(delivered[Other(e)])
             last == Len(sent[e])
             coded == secure
  <2>4. IsFlow(Joined(wire[e], sendList[e]), c, n, last, coded)
    BY <2>2, <2>3
  <2> HIDE DEF c, n, last, coded
  <2>5. /\ IsFlow(Joined(wire[e], <<>>), c, n, last, coded)
        /\ Joined(wire[e], sendList[e]) = <<>> => Joined(wire[e], <<>>) = <<>>
    BY <2>1, <2>4, FlowCut
  <2> QED
    BY <2>2, <2>3, <2>5 DEF c, n, last, coded
<1>6. \A x \in Ends \ {e} : OneFlow(x)'
  <2> SUFFICES ASSUME NEW x \in Ends \ {e}
               PROVE  OneFlow(x)'
    OBVIOUS
  <2>1. OneFlow(x)
    BY DEF Agreed
  <2> QED
    BY <1>2, <1>3, <1>4, <2>1, FlowLeft
<1>7. OneFlow(e)'
  <2>1. OneFlow(e) /\ Controls(e)' = Controls(e)
    BY <1>2 DEF Agreed
  <2>2. CASE /\ Flow(e)' = Flow(e) /\ pending'[e] = pending[e]
             /\ pendingKey'[e] = pendingKey[e]
             /\ life[e] # "gone"
    BY <1>3, <1>4, <2>1, <2>2, FlowLeft
  <2>3. CASE /\ life'[e] = "gone"
             /\ Flow(e)' = Flow(e) \/ Flow(e)' = Joined(wire[e], <<>>)
    <3>1. IsFlow(Flow(e)', Controls(e), Len(delivered[Other(e)]), Len(sent[e]), secure)
      BY <1>5, <2>3
    <3> QED
      BY <1>3, <1>4, <2>1, <2>3, <3>1, FlowLeft
  <2> QED
    BY <2>2, <2>3
<1>8. \A x \in Ends : Flow(x) = <<>> => Flow(x)' = <<>>
  BY <1>5
<1>9. KeysAgree'
  BY <1>3, <1>8, OtherEnd DEF Agreed, KeysAgree
<1> QED
  BY <1>6, <1>7, <1>9 DEF Agreed

LEMMA FlowDestroyed ==
    ASSUME TypeOK, NEW e \in Ends, NEW list, Destroyed(e, list), wire' = wire
    PROVE  /\ life'[e] = "gone" /\ Flow(e)' = Joined(wire[e], <<>>)
           /\ \A x \in Ends \ {e} : /\ life'[x] = life[x] /\ pending'[x] = pending[x]
                                    /\ pendingKey'[x] = pendingKey[x] /\ Flow(x)' = Flow(x)
<1>1. /\ life'[e] = "gone" /\ sendList'[e] = <<>> /\ wire'[e] = wire[e]
      /\ \A x \in Ends \ {e} : /\ life'[x] = life[x] /\ pending'[x] = pending[x]
                               /\ pendingKey'[x] = pendingKey[x] /\ sendList'[x] = sendList[x]
                               /\ wire'[x] = wire[x]
  BY DEF Destroyed, TypeOK
<1> QED
  BY <1>1 DEF Flow

LEMMA LostAgrees ==
    ASSUME EndsInv, Agreed, NEW e \in Ends, Lost(e)
    PROVE  Agreed'
<1>1. /\ life[e] \in {"open", "closing"} /\ Destroyed(e, sendList[e])
      /\ UNCHANGED <<given, opening, crypto, wire, sent, delivered>>
  BY DEF Lost
<1> QED
  BY <1>1, FlowDestroyed, QuietAgrees DEF EndsInv

LEMMA CloseAgrees ==
    ASSUME EndsInv, Agreed, NEW e \in Ends, Close(e)
    PROVE  Agreed'
<1>1. /\ life[e] = "open" /\ CloseEnd(e)
      /\ UNCHANGED <<given, opening, crypto, wire, sent, delivered>>
  BY DEF Close
<1>2. CASE Destroyed(e, <<>>)
  BY <1>1, <1>2, FlowDestroyed, QuietAgrees DEF EndsInv
<1>3. CASE /\ life' = [life EXCEPT ![e] = "closing"]
           /\ UNCHANGED <<pending, pendingKey, sendList, registered>>
  <2>1. /\ life'[e] = "closing" /\ \A x \in Ends \ {e} : life'[x] = life[x]
    BY <1>3 DEF EndsInv, TypeOK
  <2>2. \A x \in Ends : /\ Flow(x)' = Flow(x) /\ pending'[x] = pending[x]
                        /\ pendingKey'[x] = pendingKey[x]
    BY <1>1, <1>3 DEF Flow
  <2> QED
    BY <1>1, <2>1, <2>2, QuietAgrees
<1> QED
  BY <1>1, <1>2, <1>3 DEF CloseEnd

LEMMA WritableAgrees ==
    ASSUME EndsInv, Agreed, NEW e \in Ends, Writable(e)
    PROVE  Agreed'
<1>1. /\ life[e] \in {"open", "closing"}
      /\ UNCHANGED <<given, opening, crypto, sent, delivered>>
      /\ Destroyed(e, sendList[e]) \/ UNCHANGED <<life, pending, pendingKey>>
  BY DEF Writable
<1>2. \A x \in Ends : Flow(x)' = Flow(x)
  BY WritableKeeps DEF EndsInv, TypeOK
<1>3. CASE Destroyed(e, sendList[e])
  <2>1. /\ life'[e] = "gone"
        /\ \A x \in Ends \ {e} : /\ life'[x] = life[x] /\ pending'[x] = pending[x]
                                 /\ pendingKey'[x] = pendingKey[x]
    BY <1>3 DEF Destroyed, EndsInv, TypeOK
  <2> QED
    BY <1>1, <1>2, <2>1, QuietAgrees
<1>4. CASE UNCHANGED <<life, pending, pendingKey>>
  BY <1>1, <1>2, <1>4, QuietAgrees
<1> QED
  BY <1>1, <1>3, <1>4

LEMMA ReadAppAgrees ==
    ASSUME EndsInv, Agreed, NEW e \in Ends, ReadApp(e)
    PROVE  Agreed'
<1> DEFINE d == Other(e)
           p == Head(wire[d])
           got == IF p.cipher = (crypto[e] = "started") THEN p.id ELSE 0
<1>1. /\ Read(e) /\ ~opening[e] /\ crypto[e] # "starting" /\ ReadAndSend(e, <<>>, {})
      /\ delivered' = [delivered EXCEPT ![e] = Append(@, got)]
      /\ UNCHANGED <<given, life, opening, crypto, pending, pendingKey, sent>>
  BY DEF ReadApp
<1>2. d \in Ends /\ d # e /\ Other(d) = e /\ \A x \in Ends : x = e \/ x = d
  BY OtherEnd
<1>3. /\ Flow(e)' = Joined(Flow(e), <<>>) /\ Flow(d)' = Tail(Flow(d)) /\ Flow(d) # <<>>
  <2>1. <<>> \in Seq(Package)
    OBVIOUS
  <2> QED
    BY <1>1, <2>1, ReadAndSendKeeps DEF EndsInv, TypeOK
<1>4. Flow(e)' = Flow(e)
  BY <1>3, FlowTypes, JoinedEmpty DEF EndsInv
<1>5. \A x \in Ends : Controls(x)' = Controls(x)
  BY <1>1 DEF Controls, given
<1>6. Controls(d) = <<>>
  <2>1. d = "passive" => life["passive"] # "none"
    BY <1>1 DEF EndsInv, Handshake, Read
  <2> QED
    BY <1>1, <1>2, <2>1, OtherEnd DEF Controls
<1>7. Len(delivered'[e]) = Len(delivered[e]) + 1 /\ delivered'[d] = delivered[d]
  <2>1. delivered'[e] = Append(delivered[e], got)
    BY <1>1 DEF EndsInv, TypeOK
  <2>2. delivered[e] \in Seq(0 .. MaxSends)
    BY DEF EndsInv, TypeOK
  <2> HIDE DEF got
  <2>3. Len(Append(delivered[e], got)) = Len(delivered[e]) + 1
    BY <2>2
  <2>4. delivered'[d] = delivered[d]
    BY <1>1, <1>2
  <2> QED
    BY <2>1, <2>3, <2>4
<1>8. secure' = secure /\ sent' = sent /\ pending' = pending /\ pendingKey' = pendingKey
      /\ life' = life
  BY <1>1 DEF given
<1> HIDE DEF p, got
<1>9. OneFlow(d)'
  <2>1. OneFlow(d)
    BY <1>2 DEF Agreed
  <2>2. Controls(d)' = <<>>
    BY <1>2, <1>5, <1>6
  <2>3. Controls(d)' \in Seq(Kinds)
    BY <2>2
  <2> QED
    BY <1>2, <1>3, <1>6, <1>7, <1>8, <2>1, <2>2, <2>3, FlowRead
<1>10. OneFlow(e)'
  <2>1. OneFlow(e) /\ Controls(e)' = Controls(e)
    BY <1>5 DEF Agreed
  <2> QED
    BY <1>2, <1>4, <1>7, <1>8, <2>1, FlowLeft
<1>11. \A x \in Ends : Flow(x) = <<>> => Flow(x)' = <<>>
  BY <1>2, <1>3, <1>4
<1>12. KeysAgree'
  BY <1>1, <1>8, <1>11, OtherEnd DEF Agreed, KeysAgree
<1> QED
  BY <1>2, <1>9, <1>10, <1>12 DEF Agreed

LEMMA ReadSettingAgrees ==
    ASSUME EndsInv, Agreed, NEW e \in Ends, ReadSetting(e)
    PROVE  Agreed'
<1> DEFINE d == Other(e)
           list == IF secure THEN <<>> ELSE pending[e]
<1>1. /\ e = "active" /\ opening[e] /\ Read(e) /\ ReadAndSend(e, list, {})
      /\ opening' = [opening EXCEPT ![e] = FALSE]
      /\ crypto' = [crypto EXCEPT ![e] = IF secure THEN "starting" ELSE "none"]
      /\ pending' = [pending EXCEPT ![e] = <<>>]
      /\ IF secure THEN pendingKey' = [pendingKey EXCEPT ![e] = @ \o pending[e]]
         ELSE UNCHANGED pendingKey
      /\ UNCHANGED <<given, life, sent, delivered>>
  BY DEF ReadSetting
<1>2. d = "passive" /\ d \in Ends /\ d # e /\ Other(d) = e /\ \A x \in Ends : x = e \/ x = d
  BY <1>1, OtherEnd
<1>3. pending[e] \in Seq(PlainApps) /\ pending[e] \in Seq(Package)
      /\ crypto[e] = "none" /\ pendingKey[e] = <<>> /\ life[d] # "none" /\ life[e] = "open"
  BY <1>1, <1>2, NothingWaits DEF EndsInv, Handshake, WaitingApps, TypeOK, Read
<1>4. list \in Seq(Package)
  BY <1>3
<1>5. Flow(e)' = Joined(Flow(e), list) /\ Flow(d)' = Tail(Flow(d)) /\ Flow(d) # <<>>
  BY <1>1, <1>4, ReadAndSendKeeps DEF EndsInv, TypeOK
<1>6. /\ pending'[e] = <<>> /\ pending'[d] = pending[d] /\ pendingKey'[d] = pendingKey[d]
      /\ pendingKey'[e] = IF secure THEN pending[e] ELSE <<>>
      /\ opening'["active"] = FALSE
      /\ crypto'["active"] = (IF secure THEN "starting" ELSE "none")
      /\ crypto'["passive"] = crypto["passive"]
  <2>1. pendingKey[e] \o pending[e] = pending[e]
    BY <1>3, ConcatEmptySeq
  <2> QED
    BY <1>1, <1>2, <1>3, <2>1 DEF EndsInv, TypeOK
<1>7. secure' = secure /\ sent' = sent /\ life' = life /\ delivered' = delivered
      /\ sameVersion' = sameVersion
  BY <1>1 DEF given
<1>8. Controls(e) = <<>> /\ Controls(e)' = <<>>
  BY <1>1, <1>3, <1>6 DEF Controls
<1>9. /\ Controls(d) = IF secure THEN <<"setting", "request">> ELSE <<"setting">>
      /\ Controls(d)' = IF secure THEN <<"request">> ELSE <<>>
  BY <1>1, <1>2, <1>3, <1>6, <1>7 DEF Controls
<1>10. OneFlow(e) /\ OneFlow(d)
  BY <1>2 DEF Agreed
<1>11. OneFlow(d)'
  <2>1. /\ Controls(d)' \in Seq(Kinds) /\ Len(Controls(d)) = Len(Controls(d)') + 1
        /\ \A i \in 1 .. Len(Controls(d)') : Controls(d)'[i] = Controls(d)[i + 1]
    <3>1. CASE secure
      BY <1>9, <3>1 DEF Kinds
    <3>2. CASE ~secure
      BY <1>9, <3>2 DEF Kinds
    <3> QED
      BY <3>1, <3>2
  <2> QED
    BY <1>2, <1>5, <1>6, <1>7, <1>10, <2>1, FlowRead
<1>12. OneFlow(e)'
  <2> DEFINE passed == Passed(e)
             last == Len(sent[e])
             size == Len(pending[e])
  <2>1. NumberedFrom(pending[e], passed) /\ last = passed + Len(pendingKey[e]) + size
    BY <1>3, <1>10 DEF OneFlow
  <2>2. last \in Nat /\ passed \in Int /\ size \in Nat
    BY <1>2, FlowTypes DEF EndsInv, Passed
  <2>3. Len(pendingKey[e]) = 0
    BY <1>3, NumberedNone
  <2>4. last = passed + size
    BY <2>1, <2>2, <2>3
  <2> HIDE DEF passed, last
  <2>5. AppsFrom(list, passed, last, secure)
    <3>1. CASE secure
      BY <3>1 DEF AppsFrom
    <3>2. CASE ~secure
      <4>1. passed + Len(pending[e]) <= last
        BY <2>2, <2>4
      <4> QED
        BY <1>3, <2>1, <2>2, <3>2, <4>1, AppsOfWaiting DEF EndsInv
    <3> QED
      BY <3>1, <3>2
  <2>6. /\ Len(list) + Len(pendingKey'[e]) = Len(pendingKey[e]) + Len(pending[e])
        /\ Len(pendingKey'[e]) \in Nat /\ NumberedFrom(pendingKey'[e], passed + Len(list))
    <3>1. CASE secure
      <4>1. Len(list) = 0 /\ pendingKey'[e] = pending[e] /\ passed + Len(list) = passed
        BY <1>6, <2>2, <3>1
      <4> QED
        BY <2>1, <2>2, <2>3, <4>1
    <3>2. CASE ~secure
      <4>1. pendingKey'[e] = <<>> /\ Len(list) = size
        BY <1>6, <3>2
      <4> QED
        BY <2>2, <2>3, <4>1, NumberedNone
    <3> QED
      BY <3>1, <3>2
  <2> HIDE DEF list
  <2> QED
    BY <1>3, <1>4, <1>5, <1>6, <1>7, <1>8, <1>10, <2>5, <2>6, FlowSent DEF passed, last
<1>13. KeysAgree'
  <2>1. secure => Flow("active")' = <<>>
    <3>1. Flow("active") \in Seq(Package) /\ (secure => Flow("active") = <<>>)
      BY <1>1, <1>3, FlowTypes DEF Agreed, KeysAgree, EndsInv
    <3>2. Joined(Flow("active"), <<>>) = Flow("active")
      BY <3>1, JoinedEmpty
    <3> QED
      BY <1>1, <1>5, <3>1, <3>2
  <2>2. crypto["passive"] # "started"
    BY <1>1, <1>3 DEF Agreed, KeysAgree
  <2> QED
    BY <1>6, <1>7, <2>1, <2>2 DEF KeysAgree
<1> QED
  BY <1>2, <1>11, <1>12, <1>13 DEF Agreed

LEMMA ReadKeyPassive ==
    ASSUME EndsInv, Agreed, ReadKey("passive")
    PROVE  Agreed'
<1> DEFINE e == "passive"
           d == "active"
           list == EncryptedAll(pendingKey[e])
<1>0. e \in Ends /\ d \in Ends /\ d = Other(e) /\ e = Other(d)
      /\ \A x \in Ends : x = e \/ x = d
  BY OtherEnd
<1>1. pendingKey[e] \in Seq(PlainApps) /\ pendingKey[e] \in Seq(Package)
      /\ list \in Seq(Package) /\ Len(list) = Len(pendingKey[e])
  BY <1>0, EncryptedList DEF EndsInv, WaitingApps, TypeOK
<1>2. <<>> \o list = list
  BY <1>1, ConcatEmptySeq
<1>3. /\ Read(e) /\ crypto[e] = "starting" /\ ReadAndSend(e, list, Range(<<>>))
      /\ crypto' = [crypto EXCEPT ![e] = "started"]
      /\ pendingKey' = [pendingKey EXCEPT ![e] = <<>>]
      /\ UNCHANGED <<given, life, opening, pending, sent, delivered>>
  <2> HIDE DEF list
  <2>1. ReadAndSend(e, <<>> \o EncryptedAll(pendingKey[e]), Range(<<>>))
    BY DEF ReadKey
  <2> QED
    BY <1>2, <2>1 DEF ReadKey, list
<1>4. Flow(e)' = Joined(Flow(e), list) /\ Flow(d)' = Tail(Flow(d)) /\ Flow(d) # <<>>
  <2> DEFINE new == Range(<<>>)
  <2>1. Read(e) /\ ReadAndSend(e, list, new)
    BY <1>3
  <2> HIDE DEF list, new, e, d
  <2> QED
    BY <1>0, <1>1, <2>1, ReadAndSendKeeps DEF EndsInv, TypeOK
<1>5. secure /\ life[e] = "open" /\ pending[e] = <<>>
  BY <1>3, NothingWaits, <1>0 DEF EndsInv, Handshake, Read
<1>6. crypto[d] = "started" /\ ~opening[d]
  BY <1>3, <1>4, <1>5 DEF Agreed, KeysAgree, EndsInv, Handshake
<1>7. /\ secure' = secure /\ sent' = sent /\ life' = life /\ delivered' = delivered
      /\ pending' = pending /\ pendingKey'[d] = pendingKey[d] /\ pendingKey'[e] = <<>>
      /\ crypto'[d] = crypto[d] /\ crypto'[e] = "started" /\ opening' = opening
  BY <1>0, <1>3 DEF given, EndsInv, TypeOK
<1>8. Controls(d) = <<"response">> /\ Controls(d)' = <<>>
      /\ Controls(e) = <<>> /\ Controls(e)' = <<>>
  BY <1>3, <1>5, <1>6, <1>7 DEF Controls
<1>9. OneFlow(e) /\ OneFlow(d)
  BY <1>0 DEF Agreed
<1> HIDE DEF e, d
<1>10. OneFlow(d)'
  <2>1. /\ Controls(d)' \in Seq(Kinds) /\ Len(Controls(d)) = Len(Controls(d)') + 1
        /\ \A i \in 1 .. Len(Controls(d)') : Controls(d)'[i] = Controls(d)[i + 1]
    BY <1>8
  <2> QED
    BY <1>0, <1>4, <1>7, <1>9, <2>1, FlowRead
<1>11. OneFlow(e)'
  <2> DEFINE passed == Passed(e)
             last == Len(sent[e])
             size == Len(pendingKey[e])
  <2>1. NumberedFrom(pendingKey[e], passed) /\ last = passed + size + Len(pending[e])
    BY <1>5, <1>9 DEF OneFlow
  <2>2. last \in Nat /\ passed \in Int /\ size \in Nat /\ Len(pending[e]) = 0
    BY <1>0, <1>5, FlowTypes, NumberedNone DEF EndsInv, Passed
  <2> HIDE DEF passed, last
  <2>3. passed + Len(pendingKey[e]) <= last
    BY <2>1, <2>2
  <2>4. AppsFrom(list, passed, last, secure)
    BY <1>1, <1>5, <2>1, <2>2, <2>3, AppsOfWaiting DEF EndsInv
  <2> HIDE DEF list
  <2>5. NumberedFrom(pendingKey'[e], passed + Len(list))
    BY <1>7, NumberedNone
  <2>6. Len(list) + Len(pendingKey'[e]) = Len(pendingKey[e]) + Len(pending[e])
        /\ Len(pendingKey'[e]) \in Nat
    BY <1>1, <1>7, <2>2, NumberedNone
  <2>7. pending'[e] = <<>> /\ Controls(e)' = Controls(e)
    BY <1>5, <1>7, <1>8
  <2> QED
    BY <1>0, <1>1, <1>4, <1>5, <1>7, <1>9, <2>4, <2>5, <2>6, <2>7, FlowSent DEF passed, last
<1>12. KeysAgree'
  BY <1>6, <1>7 DEF KeysAgree, d
<1> QED
  BY <1>0, <1>10, <1>11, <1>12 DEF Agreed

LEMMA ReadKeyActive ==
    ASSUME EndsInv, Agreed, ReadKey("active")
    PROVE  Agreed'
<1> DEFINE e == "active"
           d == "passive"
           answer == <<Control("response")>>
           kept == EncryptedAll(pendingKey[e])
           list == answer \o kept
           kinds == <<"response">>
<1>0. e \in Ends /\ d \in Ends /\ d = Other(e) /\ e = Other(d)
      /\ \A x \in Ends : x = e \/ x = d
  BY OtherEnd
<1>1. pendingKey[e] \in Seq(PlainApps) /\ pendingKey[e] \in Seq(Package)
      /\ kept \in Seq(Package) /\ Len(kept) = Len(pendingKey[e])
  BY <1>0, EncryptedList DEF EndsInv, WaitingApps, TypeOK
<1>2. /\ answer \in Seq(Package) /\ Len(answer) = 1 /\ answer[1].kind = "response"
      /\ DOMAIN answer = 1 .. 1
  <2>1. Control("response") \in Package
    BY PackagesTyped DEF Kinds
  <2> QED
    BY <2>1 DEF Control
<1>3. list = Joined(answer, kept) /\ list \in Seq(Package)
  <2> HIDE DEF answer, kept
  <2>1. list = Joined(answer, kept)
    BY DEF Joined
  <2>2. Joined(answer, kept) \in Seq(Package)
    BY <1>1, <1>2, JoinedSeq
  <2> QED
    BY <2>1, <2>2
<1> DEFINE new == Range(answer)
<1>4. /\ Read(e) /\ crypto[e] = "starting" /\ ~opening[e] /\ ReadAndSend(e, list, new)
      /\ crypto' = [crypto EXCEPT ![e] = "started"]
      /\ pendingKey' = [pendingKey EXCEPT ![e] = <<>>]
      /\ UNCHANGED <<given, life, opening, pending, sent, delivered>>
  BY DEF ReadKey
<1> HIDE DEF list, new
<1>5. Flow(e)' = Joined(Flow(e), list) /\ Flow(d)' = Tail(Flow(d)) /\ Flow(d) # <<>>
  <2> HIDE DEF e, d
  <2> QED
    BY <1>0, <1>3, <1>4, ReadAndSendKeeps DEF EndsInv, TypeOK
<1>6. secure /\ life[e] = "open" /\ life[d] # "none" /\ pending[e] = <<>>
  BY <1>4, NothingWaits, <1>0 DEF EndsInv, Handshake, Read
<1>7. crypto[d] = "starting" /\ Flow(e) = <<>>
  BY <1>0, <1>4, <1>6 DEF Agreed, KeysAgree, EndsInv, Handshake, TypeOK
<1>8. Flow(e)' = Joined(answer, kept)
  BY <1>3, <1>5, <1>7, JoinedEmpty
<1>9. /\ secure' = secure /\ sent' = sent /\ life' = life /\ delivered' = delivered
      /\ pending' = pending /\ pendingKey'[d] = pendingKey[d] /\ pendingKey'[e] = <<>>
      /\ crypto'[d] = crypto[d] /\ crypto'[e] = "started" /\ opening' = opening
  BY <1>0, <1>4 DEF given, EndsInv, TypeOK
<1>10. Controls(d) = <<"request">> /\ Controls(d)' = <<>>
       /\ Controls(e) = <<>> /\ Controls(e)' = kinds
  BY <1>4, <1>6, <1>7, <1>9 DEF Controls
<1>11. OneFlow(e) /\ OneFlow(d)
  BY <1>0 DEF Agreed
<1>12. kinds \in Seq(Kinds) /\ Len(kinds) = 1 /\ kinds[1] = "response"
  BY DEF Kinds
<1> HIDE DEF e, d, answer, kept, kinds
<1>13. OneFlow(d)'
  <2>1. /\ Controls(d)' \in Seq(Kinds) /\ Len(Controls(d)) = Len(Controls(d)') + 1
        /\ \A i \in 1 .. Len(Controls(d)') : Controls(d)'[i] = Controls(d)[i + 1]
    BY <1>10
  <2> QED
    BY <1>0, <1>5, <1>9, <1>11, <2>1, FlowRead
<1>14. OneFlow(e)'
  <2> DEFINE n == Len(delivered[d])
             last == Len(sent[e])
             size == Len(pendingKey[e])
             coded == secure
             m == n + 0
  <2>1. Passed(e) = n /\ n \in Nat /\ last \in Nat /\ size \in Nat
    <3>1. Len(<<>>) = 0 /\ n \in Nat /\ last \in Nat /\ size \in Nat
      BY <1>0, FlowTypes, NumberedNone DEF EndsInv
    <3> QED
      BY <1>0, <1>7, <1>10, <3>1 DEF Passed
  <2>2. /\ NumberedFrom(pendingKey[e], n) /\ last = n + size + Len(pending[e])
        /\ \A i \in DOMAIN sent[e] : sent[e][i] = i
    BY <1>6, <1>11, <2>1 DEF OneFlow
  <2>3. last = n + size
    BY <1>6, <2>1, <2>2, NumberedNone
  <2>4. IsFlow(answer, kinds, n, last, coded)
    BY <1>2, <1>12 DEF IsFlow
  <2>5. coded = secure /\ n = Len(delivered[d]) /\ last = Len(sent[e])
    OBVIOUS
  <2> HIDE DEF n, last, coded
  <2>6. AppsFrom(kept, n, last, coded)
    <3>1. n + Len(pendingKey[e]) <= last
      BY <2>1, <2>3
    <3>2. n \in Int
      BY <2>1
    <3> QED
      BY <1>1, <1>6, <2>1, <2>2, <2>5, <3>1, <3>2, AppsOfWaiting DEF EndsInv, kept
  <2>7. m = n + Len(answer) - Len(kinds) /\ m = n /\ m \in Int
    BY <1>2, <1>12, <2>1
  <2> HIDE DEF m
  <2>8. AppsFrom(kept, m, last, coded)
    BY <2>6, <2>7
  <2>9. Len(kinds) <= Len(answer)
    BY <1>2, <1>12
  <2>10. IsFlow(Joined(answer, kept), kinds, n, last, coded)
         /\ Len(Joined(answer, kept)) = Len(answer) + Len(kept)
    BY <1>1, <1>2, <1>12, <2>1, <2>4, <2>7, <2>8, <2>9, FlowPushed
  <2>11. IsFlow(Flow(e)', Controls(e)', Len(delivered'[Other(e)]), Len(sent'[e]), secure')
    BY <1>0, <1>8, <1>9, <1>10, <2>5, <2>10
  <2>12. Len(Flow(e)') = size + 1 /\ Len(Controls(e)') = 1
    BY <1>1, <1>2, <1>8, <1>10, <1>12, <2>1, <2>10
  <2>13. Passed(e)' = n + size
    <3>1. Passed(e)' = Len(delivered'[Other(e)]) + Len(Flow(e)') - Len(Controls(e)')
      BY DEF Passed
    <3>2. Len(delivered'[Other(e)]) = n
      BY <1>0, <1>9, <2>5
    <3> QED
      BY <2>1, <2>12, <3>1, <3>2
  <2>14. pendingKey'[e] = <<>> /\ pending'[e] = <<>>
    BY <1>6, <1>9
  <2>15. Len(sent'[e]) = Passed(e)' + Len(pendingKey'[e]) + Len(pending'[e])
    <3>1. Len(sent'[e]) = last
      BY <1>9, <2>5
    <3>2. Len(pendingKey'[e]) = 0 /\ Len(pending'[e]) = 0
      BY <2>14, NumberedNone
    <3> HIDE DEF size
    <3> QED
      BY <2>1, <2>3, <2>13, <3>1, <3>2
  <2>16. Len(Controls(e)') <= Len(Flow(e)')
    BY <2>1, <2>12
  <2>17. \A i \in DOMAIN sent'[e] : sent'[e][i] = i
    BY <1>9, <2>2
  <2> QED
    BY <2>11, <2>14, <2>15, <2>16, <2>17, NumberedNone DEF OneFlow
<1>15. KeysAgree'
  BY <1>4, <1>9 DEF KeysAgree, e
<1> QED
  BY <1>0, <1>13, <1>14, <1>15 DEF Agreed

LEMMA AcceptAgrees ==
    ASSUME EndsInv, Agreed, Accept
    PROVE  Agreed'
<1> DEFINE e == "passive"
           d == "active"
           hello == IF secure THEN <<Control("setting"), Control("request")>>
                    ELSE <<Control("setting")>>
           kinds == IF secure THEN <<"setting", "request">> ELSE <<"setting">>
           new == Range(hello)
<1>0. e \in Ends /\ d \in Ends /\ d = Other(e) /\ e = Other(d)
      /\ \A x \in Ends : x = e \/ x = d
  BY OtherEnd
<1>1. /\ life[e] = "none" /\ SendRaw(e, hello, new)
      /\ life' = [life EXCEPT ![e] = "open"]
      /\ crypto' = [crypto EXCEPT ![e] = IF secure THEN "starting" ELSE "none"]
      /\ opening' = [opening EXCEPT ![e] = FALSE]
      /\ UNCHANGED <<given, pending, pendingKey, sent, delivered>>
  BY DEF Accept
<1>2. hello \in Seq(Package)
  <2> HIDE DEF hello
  <2>1. hello = IF secure THEN <<Control("setting"), Control("request")>>
                ELSE <<Control("setting")>>
    BY DEF hello
  <2> QED
    BY <2>1, Greeting
<1>3. /\ Len(hello) \in Nat /\ Len(kinds) = Len(hello) /\ DOMAIN hello = 1 .. Len(hello)
      /\ \A i \in 1 .. Len(hello) : hello[i].kind = kinds[i]
  <2>1. CASE secure
    BY <2>1 DEF Control
  <2>2. CASE ~secure
    BY <2>2 DEF Control
  <2> QED
    BY <2>1, <2>2
<1> HIDE DEF hello, new
<1>4. /\ opening[d] /\ crypto[d] = "none" /\ crypto[e] = "none"
      /\ wire[e] = <<>> /\ sendList[e] = <<>>
  BY <1>1 DEF EndsInv, Handshake
<1>5. /\ secure' = secure /\ sent' = sent /\ delivered' = delivered
      /\ pending' = pending /\ pendingKey' = pendingKey /\ life'[d] = life[d]
      /\ life'[e] = "open" /\ crypto'[d] = "none" /\ crypto'[e] # "started"
      /\ opening'[d] = opening[d]
  BY <1>0, <1>1, <1>4 DEF given, EndsInv, TypeOK
<1>6. Controls(e) = <<>> /\ Controls(e)' = kinds /\ Controls(d)' = Controls(d)
  BY <1>1, <1>4, <1>5 DEF Controls
<1>7. Flow(e) = <<>>
  <2>1. <<>> \in Seq(Package)
    OBVIOUS
  <2>2. Joined(<<>>, <<>>) = <<>>
    BY <2>1, JoinedEmpty
  <2> QED
    BY <1>4, <2>2 DEF Flow
<1> HIDE DEF e, d, kinds
<1>8. Flow(e)' = hello /\ Flow(d)' = Flow(d)
  <2>1. Flow(e)' = Joined(Flow(e), hello) /\ Flow(d)' = Flow(d)
    BY <1>0, <1>1, <1>2, SendRawKeeps DEF EndsInv, TypeOK
  <2>2. Joined(<<>>, hello) = hello
    BY <1>2, JoinedEmpty
  <2> QED
    BY <1>7, <2>1, <2>2
<1>9. OneFlow(e) /\ OneFlow(d)
  BY <1>0 DEF Agreed
<1>10. OneFlow(d)'
  BY <1>0, <1>5, <1>6, <1>8, <1>9, FlowLeft
<1>11. OneFlow(e)'
  <2> DEFINE n == Len(delivered[d])
             last == Len(sent[e])
  <2>1. Passed(e) = n /\ n \in Nat /\ last \in Nat
    <3>1. Len(<<>>) = 0 /\ n \in Nat /\ last \in Nat
      BY <1>0, FlowTypes, NumberedNone DEF EndsInv
    <3> QED
      BY <1>0, <1>6, <1>7, <3>1 DEF Passed
  <2>2. Passed(e)' = n
    <3>1. Passed(e)' = n + Len(hello) - Len(hello)
      BY <1>0, <1>3, <1>5, <1>6, <1>8 DEF Passed
    <3> QED
      BY <1>3, <2>1, <3>1
  <2>3. /\ last = Passed(e) + Len(pendingKey[e]) + Len(pending[e])
        /\ NumberedFrom(pendingKey[e], Passed(e)) /\ NumberedFrom(pending[e], Passed(e))
        /\ \A i \in DOMAIN sent[e] : sent[e][i] = i
    BY <1>1, <1>9 DEF OneFlow
  <2>4. IsFlow(hello, kinds, n, last, secure)
    BY <1>3 DEF IsFlow
  <2>5. IsFlow(Flow(e)', Controls(e)', Len(delivered'[Other(e)]), Len(sent'[e]), secure')
    BY <1>0, <1>5, <1>6, <1>8, <2>4
  <2>6. Len(Controls(e)') <= Len(Flow(e)')
    BY <1>3, <1>6, <1>8
  <2> QED
    BY <1>5, <2>1, <2>2, <2>3, <2>5, <2>6 DEF OneFlow
<1>12. KeysAgree'
  BY <1>4, <1>5, <1>8 DEF Agreed, KeysAgree, d, e
<1> QED
  BY <1>0, <1>10, <1>11, <1>12 DEF Agreed

LEMMA AgreementKept ==
    Agreement /\ [Next]_vars => Agreement'
<1> SUFFICES ASSUME Agreement, [Next]_vars, sameVersion'
             PROVE  Agreed'
  BY EndsKept DEF Agreement
<1>0. sameVersion
  BY DEF Next, vars, given, Accept, Send, Close, Writable, Reading, Lost, ReadOtherVersion,
         ReadSetting, ReadKey, ReadApp
<1>1. EndsInv /\ Agreed
  BY <1>0 DEF Agreement
<1>2. CASE Accept
  BY <1>1, <1>2, AcceptAgrees
<1>3. ASSUME NEW e \in Ends, Send(e)
      PROVE  Agreed'
  BY <1>1, <1>3, SendAgrees
<1>4. ASSUME NEW e \in Ends, Close(e)
      PROVE  Agreed'
  BY <1>1, <1>4, CloseAgrees
<1>5. ASSUME NEW e \in Ends, Writable(e)
      PROVE  Agreed'
  BY <1>1, <1>5, WritableAgrees
<1>6. ASSUME NEW e \in Ends, Reading(e)
      PROVE  Agreed'
  <2>1. CASE ReadOtherVersion(e)
    BY <1>0, <2>1 DEF ReadOtherVersion
  <2>2. CASE ReadSetting(e)
    BY <1>1, <2>2, ReadSettingAgrees
  <2>3. CASE ReadKey(e)
    BY <1>1, <2>3, ReadKeyActive, ReadKeyPassive, OtherEnd
  <2>4. CASE ReadApp(e)
    BY <1>1, <2>4, ReadAppAgrees
  <2> QED
    BY <1>6, <2>1, <2>2, <2>3, <2>4 DEF Reading
<1>7. ASSUME NEW e \in Ends, Lost(e)
      PROVE  Agreed'
  BY <1>1, <1>7, LostAgrees
<1>8. CASE UNCHANGED vars
  <2>1. \A x \in Ends : /\ Flow(x)' = Flow(x) /\ Controls(x)' = Controls(x)
                        /\ Other(x) \in Ends
    BY <1>8, OtherEnd DEF vars, given, Flow, Controls
  <2>2. \A x \in Ends : OneFlow(x)'
    <3> SUFFICES ASSUME NEW x \in Ends
                 PROVE  OneFlow(x)'
      OBVIOUS
    <3>1. OneFlow(x)
      BY <1>1 DEF Agreed
    <3> QED
      BY <1>8, <2>1, <3>1, FlowLeft DEF vars, given
  <2>3. KeysAgree'
    BY <1>1, <1>8, <2>1, OtherEnd DEF Agreed, KeysAgree, vars, given
  <2> QED
    BY <2>2, <2>3 DEF Agreed
<1> QED
  BY <1>2, <1>3, <1>4, <1>5, <1>6, <1>7, <1>8 DEF Next

LEMMA InitAgreement ==
    Init => Agreement
<1> SUFFICES ASSUME Init
             PROVE  Agreed
  BY InitEnds DEF Agreement
<1>1. \A e \in Ends : /\ wire[e] = <<>> /\ sendList[e] = <<>> /\ sent[e] = <<>>
                      /\ delivered[e] = <<>> /\ pending[e] = <<>> /\ pendingKey[e] = <<>>
                      /\ Other(e) \in Ends
  BY OtherEnd DEF Init, Nothing
<1>2. Joined(<<>>, <<>>) = <<>>
  <2>1. <<>> \in Seq({})
    OBVIOUS
  <2> QED
    BY <2>1, JoinedEmpty
<1>3. \A e \in Ends : Flow(e) = <<>>
  BY <1>1, <1>2 DEF Flow
<1>4. \A e \in Ends : Controls(e) = <<>>
  BY OtherEnd DEF Init, Controls
<1>5. \A e \in Ends : Passed(e) = 0
  BY <1>1, <1>3, <1>4, NumberedNone DEF Passed
<1>6. \A e \in Ends : OneFlow(e)
  <2> SUFFICES ASSUME NEW e \in Ends
               PROVE  OneFlow(e)
    OBVIOUS
  <2>1. IsFlow(Flow(e), Controls(e), Len(delivered[Other(e)]), Len(sent[e]), secure)
    BY <1>3 DEF IsFlow
  <2>2. Len(sent[e]) = Passed(e) + Len(pendingKey[e]) + Len(pending[e])
    BY <1>1, <1>5, NumberedNone
  <2> QED
    BY <1>1, <1>3, <1>4, <2>1, <2>2, NumberedNone DEF OneFlow
<1>7. KeysAgree
  BY <1>3, OtherEnd DEF Init, KeysAgree
<1> QED
  BY <1>6, <1>7 DEF Agreed

\* How the two ends agree: which of the states of the handshake they are in together,
\* what each flow begins with, and how the packages of the workers are numbered in it.
THEOREM ConnectionInvariant == Spec => []Agreement
<1>1. Init => Agreement
  BY InitAgreement
<1>2. Agreement /\ [Next]_vars => Agreement'
  BY AgreementKept
<1> QED
  BY <1>1, <1>2, PTL DEF Spec

\* The first package of a flow that is read is the first control package that the
\* reader waits for, or the next package of the worker.
LEMMA HeadIsFirst ==
    ASSUME EndsInv, Agreed, NEW e \in Ends, Read(e)
    PROVE  LET d == Other(e)
               p == Head(wire[d])
           IN  /\ Flow(d) # <<>> /\ p \in Package
               /\ Controls(d) # <<>> => p.kind = Controls(d)[1]
               /\ Controls(d) = <<>> =>
                     /\ p.kind = "app" /\ p.cipher = secure
                     /\ p.id = Len(delivered[e]) + 1 /\ p.id <= Len(sent[d])
<1> DEFINE d == Other(e)
           p == Head(wire[d])
<1>1. d \in Ends /\ Other(d) = e
  BY OtherEnd
<1>2. wire[d] \in Seq(Package) /\ sendList[d] \in Seq(Package) /\ wire[d] # <<>>
  BY <1>1 DEF Read, EndsInv, TypeOK
<1>3. Head(Flow(d)) = p /\ Flow(d) # <<>> /\ p \in Package
  BY <1>2, TailJoined DEF Flow
<1>4. Flow(d) \in Seq(Package) /\ Len(Flow(d)) \in Nat \ {0} /\ Controls(d) \in Seq(Kinds)
      /\ Len(delivered[e]) \in Nat
  BY <1>1, <1>3, FlowTypes, EmptySeq DEF EndsInv
<1>5. 1 \in DOMAIN Flow(d) /\ Flow(d)[1] = p
  BY <1>3, <1>4
<1>6. IsFlow(Flow(d), Controls(d), Len(delivered[e]), Len(sent[d]), secure)
  BY <1>1 DEF Agreed, OneFlow
<1>7. IF 1 <= Len(Controls(d)) THEN p.kind = Controls(d)[1]
      ELSE /\ p.kind = "app" /\ p.cipher = secure
           /\ p.id = Len(delivered[e]) + 1 - Len(Controls(d)) /\ p.id <= Len(sent[d])
  BY <1>5, <1>6 DEF IsFlow
<1>8. Len(Controls(d)) \in Nat /\ (Controls(d) = <<>> <=> Len(Controls(d)) = 0)
  BY <1>4, EmptySeq
<1> HIDE DEF p, d
<1>9. Controls(d) # <<>> => p.kind = Controls(d)[1]
  BY <1>7, <1>8
<1>10. Controls(d) = <<>> =>
          /\ p.kind = "app" /\ p.cipher = secure
          /\ p.id = Len(delivered[e]) + 1 /\ p.id <= Len(sent[d])
  BY <1>4, <1>7, <1>8
<1> QED
  BY <1>3, <1>9, <1>10 DEF p, d

\* The ends never disagree about the security of the connection: a package of the
\* worker is never read by an end that ignores it or cannot decrypt it, and a control
\* package never by an end that does not wait for it, for any number of packages and
\* however the sends of both workers meet the handshake.
THEOREM EndsAlwaysAgree == Spec => []EndsAgree
<1>1. Agreement => EndsAgree
  <2> SUFFICES ASSUME Agreement, NEW e \in Ends, Read(e), sameVersion
               PROVE  LET p == Head(wire[Other(e)]) IN
                      \/ p.kind = "setting" /\ e = "active" /\ opening[e]
                      \/ p.kind = "request" /\ e = "active" /\ ~opening[e]
                            /\ crypto[e] = "starting"
                      \/ p.kind = "response" /\ e = "passive" /\ crypto[e] = "starting"
                      \/ p.kind = "app" /\ ~opening[e]
                            /\ crypto[e] = IF p.cipher THEN "started" ELSE "none"
    BY DEF EndsAgree
  <2> DEFINE d == Other(e)
             p == Head(wire[d])
  <2>1. EndsInv /\ Agreed
    BY DEF Agreement
  <2>2. /\ Controls(d) # <<>> => p.kind = Controls(d)[1]
        /\ Controls(d) = <<>> => p.kind = "app" /\ p.cipher = secure
        /\ Flow(d) # <<>>
    BY <2>1, HeadIsFirst
  <2>3. /\ life["passive"] # "none" /\ secure \in BOOLEAN
        /\ crypto[e] \in {"none", "starting", "started"}
    BY <2>1, OtherEnd DEF EndsInv, TypeOK, Handshake, Read
  <2> HIDE DEF p
  <2>4. CASE e = "active"
    <3>1. d = "passive"
      BY <2>4, OtherEnd
    <3>2. CASE opening[e]
      <4>1. Controls(d) # <<>> /\ Controls(d)[1] = "setting"
        BY <2>3, <2>4, <3>1, <3>2 DEF Controls
      <4> QED
        BY <2>2, <2>4, <3>2, <4>1 DEF p
    <3>3. CASE ~opening[e] /\ crypto[e] = "starting"
      <4>1. Controls(d) # <<>> /\ Controls(d)[1] = "request"
        BY <2>3, <2>4, <3>1, <3>3 DEF Controls
      <4> QED
        BY <2>2, <2>4, <3>3, <4>1 DEF p
    <3>4. CASE ~opening[e] /\ crypto[e] # "starting"
      <4>1. Controls(d) = <<>>
        BY <2>3, <2>4, <3>1, <3>4 DEF Controls
      <4>2. crypto[e] = IF secure THEN "started" ELSE "none"
        BY <2>1, <2>3, <2>4, <3>4 DEF EndsInv, Handshake
      <4> QED
        BY <2>2, <3>4, <4>1, <4>2 DEF p
    <3> QED
      BY <3>2, <3>3, <3>4
  <2>5. CASE e = "passive"
    <3>1. d = "active"
      BY <2>5, OtherEnd
    <3>2. ~opening[e] /\ (crypto[e] = "none" <=> ~secure)
      BY <2>1, <2>3, <2>5 DEF EndsInv, Handshake
    <3>3. CASE crypto[e] = "starting"
      <4>1. crypto[d] = "started"
        BY <2>1, <2>2, <2>5, <3>1, <3>2, <3>3 DEF Agreed, KeysAgree
      <4>2. Controls(d) # <<>> /\ Controls(d)[1] = "response"
        BY <2>5, <3>1, <3>3, <4>1 DEF Controls
      <4> QED
        BY <2>2, <2>5, <3>3, <4>2 DEF p
    <3>4. CASE crypto[e] # "starting"
      <4>1. Controls(d) = <<>>
        BY <2>5, <3>1, <3>4 DEF Controls
      <4>2. crypto[e] = IF secure THEN "started" ELSE "none"
        BY <2>3, <3>2, <3>4
      <4> QED
        BY <2>2, <3>2, <4>1, <4>2 DEF p
    <3> QED
      BY <3>3, <3>4
  <2> QED
    BY <2>4, <2>5, OtherEnd
<1> QED
  BY <1>1, ConnectionInvariant, PTL

-----------------------------------------------------------------------------
(* The connection is the channel of Channel, but for its liveness *)

\* Neither end closes.
Up == \A e \in Ends : life[e] \in {"none", "open"}

\* Steps that only close something.
LEMMA ClosesChannel ==
    ASSUME UNCHANGED <<sent, delivered>>, Up' = FALSE \/ Up' = Up
    PROVE  InOrder!Close \/ UNCHANGED InOrder!vars
BY DEF InOrder!Close, InOrder!vars, Up

LEMMA SendIsSend ==
    ASSUME NEW e \in Ends, Send(e)
    PROVE  InOrder!Send(e)
<1>1. /\ sent' = [sent EXCEPT ![e] = Append(@, Len(sent[e]) + 1)]
      /\ UNCHANGED <<life, delivered>>
  BY DEF Send
<1>2. Up' = Up
  BY <1>1 DEF Up
<1> QED
  BY <1>1, <1>2 DEF InOrder!Send, Up

LEMMA ReadAppDelivers ==
    ASSUME Agreement, NEW e \in Ends, ReadApp(e)
    PROVE  InOrder!Deliver(e)
<1> DEFINE d == Other(e)
           p == Head(wire[d])
           n == Len(delivered[e]) + 1
           got == IF p.cipher = (crypto[e] = "started") THEN p.id ELSE 0
<1>1. /\ Read(e) /\ sameVersion /\ ~opening[e] /\ crypto[e] # "starting"
      /\ delivered' = [delivered EXCEPT ![e] = Append(@, got)]
      /\ UNCHANGED <<given, life, sent>>
  BY DEF ReadApp
<1>2. EndsInv /\ Agreed /\ d \in Ends
  BY <1>1, OtherEnd DEF Agreement
<1>3. Controls(d) = <<>>
  <2>1. d = "passive" => life["passive"] # "none"
    BY <1>1, <1>2 DEF EndsInv, Handshake, Read
  <2> QED
    BY <1>1, <1>2, <2>1, OtherEnd DEF Controls
<1>4. p.cipher = secure /\ p.id = n /\ n <= Len(sent[d])
  BY <1>1, <1>2, <1>3, HeadIsFirst
<1>5. secure = (crypto[e] = "started")
  <2>1. secure \in BOOLEAN /\ crypto[e] \in {"none", "starting", "started"}
    BY <1>2 DEF EndsInv, TypeOK
  <2>2. crypto[e] = "none" <=> ~secure
    BY <1>1, <1>2, OtherEnd DEF EndsInv, Handshake, Read
  <2> QED
    BY <1>1, <2>1, <2>2
<1>6. n \in Nat \ {0} /\ Len(sent[d]) \in Nat
  BY <1>2, FlowTypes DEF EndsInv
<1>7. sent[d][n] = n
  <2>1. sent[d] \in Seq(Ids)
    BY <1>2 DEF EndsInv, TypeOK
  <2>2. n \in DOMAIN sent[d]
    BY <1>4, <1>6, <2>1
  <2> QED
    BY <1>2, <2>2 DEF Agreed, OneFlow
<1> HIDE DEF p, n, d
<1>8. got = n
  BY <1>4, <1>5
<1>9. delivered' = [delivered EXCEPT ![e] = Append(@, sent[d][n])]
  BY <1>1, <1>7, <1>8
<1>10. sent' = sent /\ Up' = Up
  BY <1>1 DEF Up
<1> QED
  BY <1>4, <1>9, <1>10 DEF InOrder!Deliver, Up, n, d

LEMMA DestroyedIsDown ==
    ASSUME TypeOK, NEW e \in Ends, \/ \E list : Destroyed(e, list)
                                   \/ life' = [life EXCEPT ![e] = "closing"]
    PROVE  Up' = FALSE
<1>1. life'[e] \in {"closing", "gone"}
  BY DEF Destroyed, TypeOK
<1> QED
  BY <1>1 DEF Up

LEMMA ChannelStep ==
    ASSUME Agreement, [Next]_vars
    PROVE  [InOrder!Next]_(InOrder!vars)
<1> SUFFICES ASSUME ~UNCHANGED InOrder!vars
             PROVE  InOrder!Next
  OBVIOUS
<1>1. TypeOK
  BY DEF Agreement, EndsInv
<1>2. ASSUME UNCHANGED <<sent, delivered>>, Up' = FALSE \/ Up' = Up
      PROVE  InOrder!Next
  BY <1>2, ClosesChannel DEF InOrder!Next
<1>3. CASE Accept
  <2>1. /\ life["passive"] = "none" /\ life' = [life EXCEPT !["passive"] = "open"]
        /\ UNCHANGED <<sent, delivered>>
    BY <1>3 DEF Accept
  <2>2. Up' = Up
    BY <1>1, <2>1, OtherEnd DEF Up, TypeOK
  <2> QED
    BY <1>2, <2>1, <2>2
<1>4. ASSUME NEW e \in Ends, Send(e)
      PROVE  InOrder!Next
  BY <1>4, SendIsSend DEF InOrder!Next
<1>5. ASSUME NEW e \in Ends, Close(e)
      PROVE  InOrder!Next
  <2>1. CloseEnd(e) /\ UNCHANGED <<sent, delivered>>
    BY <1>5 DEF Close
  <2>2. Up' = FALSE
    BY <1>1, <2>1, DestroyedIsDown DEF CloseEnd
  <2> QED
    BY <1>2, <2>1, <2>2
<1>6. ASSUME NEW e \in Ends, Writable(e)
      PROVE  InOrder!Next
  <2>1. UNCHANGED <<sent, delivered>> /\ (UNCHANGED life \/ Destroyed(e, sendList[e]))
    BY <1>6 DEF Writable
  <2>2. CASE Destroyed(e, sendList[e])
    BY <1>1, <1>2, <2>1, <2>2, DestroyedIsDown
  <2>3. CASE UNCHANGED life
    BY <1>2, <2>1, <2>3 DEF Up
  <2> QED
    BY <2>1, <2>2, <2>3
<1>7. ASSUME NEW e \in Ends, Reading(e)
      PROVE  InOrder!Next
  <2>1. CASE ReadOtherVersion(e)
    <3>1. /\ UNCHANGED <<sent, delivered>>
          /\ CloseEnd(e) \/ Destroyed(e, <<>>) \/ life' = [life EXCEPT ![e] = "closing"]
      BY <2>1 DEF ReadOtherVersion
    <3>2. Up' = FALSE
      BY <1>1, <3>1, DestroyedIsDown DEF CloseEnd
    <3> QED
      BY <1>2, <3>1, <3>2
  <2>2. CASE ReadSetting(e) \/ ReadKey(e)
    <3>1. UNCHANGED <<sent, delivered, life>>
      BY <2>2 DEF ReadSetting, ReadKey
    <3> QED
      BY <1>2, <3>1 DEF Up
  <2>3. CASE ReadApp(e)
    BY <2>3, ReadAppDelivers DEF InOrder!Next
  <2> QED
    BY <1>7, <2>1, <2>2, <2>3 DEF Reading
<1>8. ASSUME NEW e \in Ends, Lost(e)
      PROVE  InOrder!Next
  <2>1. UNCHANGED <<sent, delivered>> /\ Destroyed(e, sendList[e])
    BY <1>8 DEF Lost
  <2> QED
    BY <1>1, <1>2, <2>1, DestroyedIsDown
<1>9. CASE UNCHANGED vars
  BY <1>2, <1>9 DEF vars, Up
<1> QED
  BY <1>3, <1>4, <1>5, <1>6, <1>7, <1>8, <1>9 DEF Next

\* A connection is the channel of Channel, whatever its security and the versions of
\* its ends: what the worker of one end receives is what the worker of the other has
\* sent, in that order and each once.  (That all of it arrives while neither end
\* closes, the liveness of InOrder!Spec, is for TLC.)
THEOREM IsChannel == Spec => InOrder!Init /\ [][InOrder!Next]_(InOrder!vars)
<1>1. Init => InOrder!Init
  BY OtherEnd DEF Init, InOrder!Init, Nothing
<1>2. Agreement /\ [Next]_vars => [InOrder!Next]_(InOrder!vars)
  BY ChannelStep
<1>3. Spec => []Agreement
  BY ConnectionInvariant
<1> QED
  BY <1>1, <1>2, <1>3, PTL DEF Spec

-----------------------------------------------------------------------------
(* Who owns a package *)

\* What an end has not written, in the order it will be.
Line(e) == Joined(Joined(sendList[e], pendingKey[e]), pending[e])

\* The packages are registered under their plain forms, each of them once.
Keys(list) == {Plain(list[i]) : i \in DOMAIN list}
Holds(held, list) ==
    /\ held = Keys(list)
    /\ \A i, j \in DOMAIN list : Plain(list[i]) = Plain(list[j]) => i = j

\* The packages that an end can have made so far.
Made(e) ==
    {p \in Package :
        /\ p.kind = "app" => p.id <= Len(sent[e])
        /\ p.kind = "response" => crypto[e] = "started"
        /\ p.kind = "version" => life[e] = "closing"}

Owned(e) ==
    life[e] # "gone" =>
        Holds(registered[e], Line(e)) /\ registered[e] \subseteq Made(e)

OwnedInv == EndsInv /\ \A e \in Ends : Owned(e)

LEMMA HoldsNothing ==
    Holds({}, <<>>) /\ \A held : Holds(held, <<>>) => held = {}
BY DEF Holds, Keys

LEMMA RangeKeys ==
    ASSUME NEW list
    PROVE  {Plain(p) : p \in Range(list)} = Keys(list)
BY DEF Range, Keys

\* What an encrypted package is registered as does not change.
LEMMA HoldsSame ==
    ASSUME NEW held, NEW a, NEW b, DOMAIN a = DOMAIN b, Holds(held, a),
           \A i \in DOMAIN a : Plain(b[i]) = Plain(a[i])
    PROVE  Holds(held, b)
BY DEF Holds, Keys

LEMMA HoldsOneMore ==
    ASSUME NEW S, NEW held, NEW a \in Seq(S), NEW b \in Seq(S), NEW x \in S,
           Holds(held, Joined(a, b)), Plain(x) \notin held
    PROVE  Holds(held \cup {Plain(x)}, Joined(Joined(a, <<x>>), b))
<1> DEFINE n == Len(a)
           m == Len(b)
           old == Joined(a, b)
           one == Joined(a, <<x>>)
           new == Joined(one, b)
           Before(i) == IF i <= n THEN i ELSE i - 1
<1>0. n \in Nat /\ m \in Nat
  OBVIOUS
<1>1. /\ old \in Seq(S) /\ Len(old) = n + m
      /\ \A i \in 1 .. n + m : old[i] = IF i <= n THEN a[i] ELSE b[i - n]
  BY JoinedSeq
<1>2. /\ <<x>> \in Seq(S) /\ Len(<<x>>) = 1 /\ <<x>>[1] = x
  OBVIOUS
<1>3. /\ one \in Seq(S) /\ Len(one) = n + 1
      /\ \A i \in 1 .. n + 1 : one[i] = IF i <= n THEN a[i] ELSE <<x>>[i - n]
  BY <1>2, JoinedSeq
<1> HIDE DEF old, one
<1>4. /\ new \in Seq(S) /\ Len(new) = Len(one) + Len(b)
      /\ \A i \in 1 .. Len(one) + Len(b) :
            new[i] = IF i <= Len(one) THEN one[i] ELSE b[i - Len(one)]
  BY <1>3, JoinedSeq
<1> HIDE DEF new, n, m
<1>5. DOMAIN old = 1 .. n + m /\ DOMAIN new = 1 .. n + 1 + m
  BY <1>0, <1>1, <1>3, <1>4 DEF m
<1>6. n + 1 \in DOMAIN new /\ new[n + 1] = x
  <2>1. n + 1 \in 1 .. n + 1 /\ ~(n + 1 <= n) /\ (n + 1) - n = 1
    BY <1>0, <1>1
  <2>2. one[n + 1] = x
    BY <1>2, <1>3, <2>1
  <2> QED
    BY <1>0, <1>1, <1>3, <1>4, <1>5, <2>1, <2>2 DEF m
<1>7. \A i \in DOMAIN new \ {n + 1} : Before(i) \in DOMAIN old /\ new[i] = old[Before(i)]
  <2> SUFFICES ASSUME NEW i \in 1 .. n + 1 + m, i # n + 1
               PROVE  Before(i) \in 1 .. n + m /\ new[i] = old[Before(i)]
    BY <1>5
  <2>1. new[i] = IF i <= n + 1 THEN one[i] ELSE b[i - (n + 1)]
    BY <1>3, <1>4 DEF m
  <2>2. CASE i <= n
    <3>1. new[i] = a[i] /\ old[i] = a[i] /\ Before(i) = i /\ i \in 1 .. n + m
      BY <1>0, <1>1, <1>3, <2>1, <2>2
    <3> QED
      BY <3>1
  <2>3. CASE ~(i <= n)
    <3>1. /\ i - 1 \in 1 .. n + m /\ ~(i - 1 <= n) /\ ~(i <= n + 1)
          /\ (i - 1) - n = i - (n + 1) /\ Before(i) = i - 1
      BY <1>0, <1>1, <2>3
    <3>2. old[i - 1] = b[(i - 1) - n]
      BY <1>0, <1>1, <3>1
    <3> QED
      BY <2>1, <3>1, <3>2
  <2> QED
    BY <2>2, <2>3
<1>8. \A i \in DOMAIN old : \E j \in DOMAIN new : j # n + 1 /\ Before(j) = i
  <2> SUFFICES ASSUME NEW i \in 1 .. n + m
               PROVE  \E j \in 1 .. n + 1 + m : j # n + 1 /\ Before(j) = i
    BY <1>5
  <2>1. CASE i <= n
    BY <1>0, <1>1, <2>1
  <2>2. CASE ~(i <= n)
    <3>1. i + 1 \in 1 .. n + 1 + m /\ i + 1 # n + 1 /\ Before(i + 1) = i
      BY <1>0, <1>1, <2>2
    <3> QED
      BY <3>1
  <2> QED
    BY <2>1, <2>2
<1>9. \A i, j \in DOMAIN new \ {n + 1} : Before(i) = Before(j) => i = j
  BY <1>0, <1>1, <1>5
<1> HIDE DEF Before
<1>10. held = {Plain(old[i]) : i \in DOMAIN old}
       /\ \A i, j \in DOMAIN old : Plain(old[i]) = Plain(old[j]) => i = j
  BY DEF Holds, Keys, old
<1>11. held \cup {Plain(x)} = {Plain(new[i]) : i \in DOMAIN new}
  BY <1>6, <1>7, <1>8, <1>10
<1>12. \A i, j \in DOMAIN new : Plain(new[i]) = Plain(new[j]) => i = j
  BY <1>6, <1>7, <1>9, <1>10
<1>13. Holds(held \cup {Plain(x)}, new)
  BY <1>0, <1>11, <1>12 DEF Holds, Keys
<1> QED
  BY <1>0, <1>13 DEF new, one

LEMMA HoldsRest ==
    ASSUME NEW S, NEW held, NEW a \in Seq(S), NEW b \in Seq(S),
           Holds(held, Joined(a, b))
    PROVE  Holds(held \ Keys(a), b)
<1> DEFINE n == Len(a)
           m == Len(b)
           all == Joined(a, b)
<1>0. n \in Nat /\ m \in Nat
  OBVIOUS
<1>1. /\ all \in Seq(S) /\ Len(all) = n + m
      /\ \A i \in 1 .. n + m : all[i] = IF i <= n THEN a[i] ELSE b[i - n]
  BY JoinedSeq
<1>dom. DOMAIN a = 1 .. n /\ DOMAIN b = 1 .. m /\ DOMAIN all = 1 .. n + m
  <2> HIDE DEF all
  <2> QED
    BY <1>0, <1>1
<1> HIDE DEF all, n, m
<1>2. \A i \in 1 .. n : i \in DOMAIN all /\ all[i] = a[i]
  BY <1>0, <1>1, <1>dom
<1>3. \A i \in 1 .. m : /\ n + i \in DOMAIN all /\ all[n + i] = b[i]
                        /\ \A j \in 1 .. n : n + i # j
                        /\ \A j \in 1 .. m : n + i = n + j => i = j
  <2> SUFFICES ASSUME NEW i \in 1 .. m
               PROVE  /\ n + i \in DOMAIN all /\ all[n + i] = b[i]
                      /\ \A j \in 1 .. n : n + i # j
                      /\ \A j \in 1 .. m : n + i = n + j => i = j
    OBVIOUS
  <2>1. n + i \in 1 .. n + m /\ ~(n + i <= n) /\ (n + i) - n = i
    BY <1>0, <1>1
  <2> QED
    BY <1>0, <1>1, <1>dom, <2>1
<1>4. \A i \in DOMAIN all : i \in 1 .. n \/ \E j \in 1 .. m : i = n + j
  <2>1. \A i \in 1 .. n + m : i \in 1 .. n \/ (i - n \in 1 .. m /\ i = n + (i - n))
    BY <1>0
  <2> QED
    BY <1>dom, <2>1
<1>5. held = {Plain(all[i]) : i \in DOMAIN all}
      /\ \A i, j \in DOMAIN all : Plain(all[i]) = Plain(all[j]) => i = j
  BY DEF Holds, Keys, all
<1>6. \A i, j \in 1 .. m : Plain(b[i]) = Plain(b[j]) => i = j
  BY <1>3, <1>5
<1>7. held \ {Plain(a[i]) : i \in 1 .. n} = {Plain(b[i]) : i \in 1 .. m}
  <2>1. \A i \in 1 .. m : /\ Plain(b[i]) \in held
                          /\ \A j \in 1 .. n : Plain(b[i]) # Plain(a[j])
    BY <1>2, <1>3, <1>5
  <2>2. \A k \in held : \/ \E j \in 1 .. n : k = Plain(a[j])
                        \/ \E i \in 1 .. m : k = Plain(b[i])
    BY <1>2, <1>3, <1>4, <1>5
  <2> QED
    BY <2>1, <2>2
<1> QED
  BY <1>dom, <1>6, <1>7 DEF Holds, Keys

LEMMA KeysJoined ==
    ASSUME NEW S, NEW a \in Seq(S), NEW b \in Seq(S)
    PROVE  Keys(Joined(a, b)) = Keys(a) \cup Keys(b)
<1> DEFINE n == Len(a)
           m == Len(b)
           all == Joined(a, b)
<1>1. n \in Nat /\ m \in Nat /\ DOMAIN a = 1 .. n /\ DOMAIN b = 1 .. m
  OBVIOUS
<1>2. /\ all \in Seq(S) /\ Len(all) = n + m
      /\ \A i \in 1 .. n + m : all[i] = IF i <= n THEN a[i] ELSE b[i - n]
  BY JoinedSeq
<1> HIDE DEF all, n, m
<1>3. DOMAIN all = 1 .. n + m
  BY <1>2
<1>4. \A i \in 1 .. n : i \in 1 .. n + m /\ all[i] = a[i]
  BY <1>1, <1>2
<1>5. \A i \in 1 .. m : n + i \in 1 .. n + m /\ all[n + i] = b[i]
  <2>1. \A i \in 1 .. m : n + i \in 1 .. n + m /\ ~(n + i <= n) /\ (n + i) - n = i
    BY <1>1
  <2> QED
    BY <1>2, <2>1
<1>7. \A i \in 1 .. n + m : \/ \E j \in 1 .. n : all[i] = a[j]
                            \/ \E j \in 1 .. m : all[i] = b[j]
  <2> TAKE i \in 1 .. n + m
  <2>1. CASE i <= n
    <3>1. i \in 1 .. n /\ all[i] = a[i]
      BY <1>1, <1>2, <2>1
    <3> QED
      BY <3>1
  <2>2. CASE ~(i <= n)
    <3>1. i - n \in 1 .. m /\ all[i] = b[i - n]
      BY <1>1, <1>2, <2>2
    <3> QED
      BY <3>1
  <2> QED
    BY <2>1, <2>2
<1>8. Keys(all) = Keys(a) \cup Keys(b)
  BY <1>1, <1>3, <1>4, <1>5, <1>7 DEF Keys
<1> QED
  BY <1>8 DEF all

LEMMA ThreeJoined ==
    ASSUME NEW S, NEW a \in Seq(S), NEW b \in Seq(S), NEW c \in Seq(S)
    PROVE  LET all == Joined(Joined(a, b), c)
           IN  /\ Keys(all) = (Keys(a) \cup Keys(b)) \cup Keys(c)
               /\ Len(all) = (Len(a) + Len(b)) + Len(c)
<1> DEFINE two == Joined(a, b)
<1>1. two \in Seq(S) /\ Len(two) = Len(a) + Len(b) /\ Keys(two) = Keys(a) \cup Keys(b)
  BY JoinedSeq, KeysJoined
<1> HIDE DEF two
<1>2. Keys(Joined(two, c)) = Keys(two) \cup Keys(c)
  BY <1>1, KeysJoined
<1>3. Len(Joined(two, c)) = Len(two) + Len(c)
  BY <1>1, JoinedSeq
<1> QED
  BY <1>1, <1>2, <1>3 DEF two

LEMMA HoldsCounted ==
    ASSUME NEW held, NEW list \in Seq(Package), Holds(held, list)
    PROVE  Cardinality(held) = Len(list)
<1> DEFINE F == [i \in 1 .. Len(list) |-> Plain(list[i])]
<1>1. DOMAIN list = 1 .. Len(list) /\ Len(list) \in Nat
  OBVIOUS
<1>2. F \in [1 .. Len(list) -> held]
  BY <1>1 DEF Holds, Keys
<1>3. \A i, j \in 1 .. Len(list) : F[i] = F[j] => i = j
  BY <1>1 DEF Holds
<1>4. \A k \in held : \E i \in 1 .. Len(list) : F[i] = k
  BY <1>1 DEF Holds, Keys
<1>5. F \in Bijection(1 .. Len(list), held)
  BY <1>2, <1>3, <1>4, Fun_IsBij
<1>6. ExistsBijection(1 .. Len(list), held)
  BY <1>5, Fun_ExistsBij DEF ExistsBijection
<1> QED
  BY <1>1, <1>6, FS_CountingElements

LEMMA PlainForms ==
    /\ \A p \in Package : /\ Plain(p) \in Package /\ Plain(Encrypted(p)) = Plain(p)
                          /\ Plain(p).kind = p.kind /\ Plain(p).id = p.id
    /\ \A id \in Ids : Plain(App(id)) = App(id)
    /\ \A kind \in Kinds : Plain(Control(kind)) = Control(kind)
<1>1. \A p \in Package : Plain(p) \in Package
  BY PackagesTyped
<1>2. \A p \in Package : Plain(Encrypted(p)) = Plain(p)
  BY DEF Package, Plain, Encrypted
<1>3. \A p \in Package : Plain(p).kind = p.kind /\ Plain(p).id = p.id
  BY DEF Package, Plain
<1>4. \A p \in Package : ~p.cipher => Plain(p) = p
  BY DEF Package, Plain
<1>5. \A id \in Ids : Plain(App(id)) = App(id)
  BY <1>4, PackagesTyped DEF App
<1>6. \A kind \in Kinds : Plain(Control(kind)) = Control(kind)
  BY <1>4, PackagesTyped DEF Control
<1> QED
  BY <1>1, <1>2, <1>3, <1>5, <1>6

\* The names of a set of packages, as Held forms them.
Forms(new) == {Plain(p) : p \in new}

LEMMA HeldIs ==
    ASSUME NEW e, NEW new, NEW list
    PROVE  /\ Held(e, new, list) = (registered[e] \cup Forms(new)) \ Keys(list)
           /\ Forms({}) = {} /\ \A p : Forms({p}) = {Plain(p)}
           /\ Keys(<<>>) = {} /\ Forms(Range(list)) = Keys(list)
<1>1. Held(e, new, list) = (registered[e] \cup Forms(new)) \ Keys(list)
  BY RangeKeys DEF Held, Forms
<1>2. Forms({}) = {} /\ \A p : Forms({p}) = {Plain(p)}
  BY DEF Forms
<1>3. Keys(<<>>) = {}
  BY DEF Keys
<1>4. Forms(Range(list)) = Keys(list)
  BY RangeKeys DEF Forms
<1> QED
  BY <1>1, <1>2, <1>3, <1>4

LEMMA LineTyped ==
    ASSUME TypeOK, NEW e \in Ends
    PROVE  /\ sendList[e] \in Seq(Package) /\ pendingKey[e] \in Seq(Package)
           /\ pending[e] \in Seq(Package)
           /\ Joined(sendList[e], pendingKey[e]) \in Seq(Package) /\ Line(e) \in Seq(Package)
           /\ pending[e] = <<>> => Line(e) = Joined(sendList[e], pendingKey[e])
           /\ pending[e] = <<>> /\ pendingKey[e] = <<>> => Line(e) = sendList[e]
<1>1. /\ sendList[e] \in Seq(Package) /\ pendingKey[e] \in Seq(Package)
      /\ pending[e] \in Seq(Package)
  BY DEF TypeOK
<1>2. Joined(sendList[e], pendingKey[e]) \in Seq(Package)
  BY <1>1, JoinedSeq
<1>3. Line(e) \in Seq(Package)
  BY <1>1, <1>2, JoinedSeq DEF Line
<1>4. pending[e] = <<>> => Line(e) = Joined(sendList[e], pendingKey[e])
  BY <1>2, JoinedEmpty DEF Line
<1>5. pendingKey[e] = <<>> => Joined(sendList[e], pendingKey[e]) = sendList[e]
  BY <1>1, JoinedEmpty
<1> QED
  BY <1>1, <1>2, <1>3, <1>4, <1>5

LEMMA OwnedLeft ==
    ASSUME NEW d \in Ends, Owned(d), registered'[d] = registered[d],
           sendList'[d] = sendList[d], pendingKey'[d] = pendingKey[d],
           pending'[d] = pending[d], sent'[d] = sent[d], crypto'[d] = crypto[d],
           life'[d] = life[d]
    PROVE  Owned(d)'
<1>1. Line(d)' = Line(d) /\ Made(d)' = Made(d)
  BY DEF Line, Made
<1> QED
  BY <1>1 DEF Owned

LEMMA GoneOwnsNothing ==
    ASSUME TypeOK, NEW e \in Ends, NEW list, Destroyed(e, list)
    PROVE  Owned(e)'
BY DEF Destroyed, Owned, TypeOK

\* What an end pushes to the socket, written or not.
LEMMA PushedHolds ==
    ASSUME TypeOK, TypeOK', NEW e \in Ends, NEW list \in Seq(Package), NEW new,
           SendRaw(e, list, new) \/ ReadAndSend(e, list, new),
           pending'[e] = <<>>, pendingKey'[e] = <<>>,
           Holds(registered[e] \cup Forms(new), Joined(sendList[e], list))
    PROVE  /\ Holds(registered'[e], Line(e)')
           /\ registered'[e] \subseteq registered[e] \cup Forms(new)
           /\ \A d \in Ends \ {e} : registered'[d] = registered[d] /\ sendList'[d] = sendList[d]
<1> DEFINE held == registered[e] \cup Forms(new)
           s == sendList[e]
<1>1. PICK n \in 0 .. Len(list) :
         /\ s # <<>> => n = 0
         /\ sendList' = [sendList EXCEPT ![e] = s \o SubSeq(list, n + 1, Len(list))]
         /\ registered' = [registered EXCEPT ![e] = Held(e, new, SubSeq(list, 1, n))]
  BY DEF SendRaw, ReadAndSend
<1> DEFINE taken == SubSeq(list, 1, n)
           left == SubSeq(list, n + 1, Len(list))
<1>2. /\ taken \in Seq(Package) /\ left \in Seq(Package) /\ Joined(taken, left) = list
      /\ n = 0 => taken = <<>>
  BY Halves
<1>3. s \in Seq(Package)
  BY DEF TypeOK
<1> HIDE DEF taken, left
<1>4. sendList' = [sendList EXCEPT ![e] = Joined(s, left)]
  BY <1>1 DEF Joined, left
<1>5. registered' = [registered EXCEPT ![e] = held \ Keys(taken)]
  <2>1. Held(e, new, taken) = held \ Keys(taken)
    BY HeldIs
  <2> HIDE DEF held, s
  <2> QED
    BY <1>1, <2>1 DEF taken
<1> HIDE DEF s, held
<1>6. sendList'[e] = Joined(s, left) /\ registered'[e] = held \ Keys(taken)
  BY <1>4, <1>5 DEF TypeOK
<1>7. Line(e)' = sendList'[e]
  <2>1. /\ sendList'[e] \in Seq(Package)
        /\ Joined(sendList'[e], <<>>) = sendList'[e]
    BY JoinedEmpty DEF TypeOK
  <2> QED
    BY <2>1 DEF Line
<1>8. Holds(held, Joined(s, list))
  BY DEF s, held
<1>9. Holds(held \ Keys(taken), Joined(s, left))
  <2>1. CASE s = <<>>
    <3>1. Joined(s, list) = Joined(taken, left) /\ Joined(s, left) = left
      BY <1>2, <2>1, JoinedEmpty
    <3> QED
      BY <1>2, <1>8, <3>1, HoldsRest
  <2>2. CASE s # <<>>
    <3>1. taken = <<>>
      BY <1>1, <1>2, <2>2
    <3>2. left = list /\ held \ Keys(taken) = held
      BY <1>2, <3>1, HeldIs, JoinedEmpty
    <3> QED
      BY <1>8, <3>2
  <2> QED
    BY <2>1, <2>2
<1>10. Holds(registered'[e], Line(e)') /\ registered'[e] \subseteq held
  BY <1>6, <1>7, <1>9
<1>11. \A d \in Ends \ {e} : registered'[d] = registered[d] /\ sendList'[d] = sendList[d]
  BY <1>4, <1>5
<1> QED
  BY <1>10, <1>11 DEF held

LEMMA SendOwned ==
    ASSUME EndsInv, EndsInv', NEW e \in Ends, Send(e), Owned(e)
    PROVE  Owned(e)' /\ \A d \in Ends \ {e} :
               registered'[d] = registered[d] /\ sendList'[d] = sendList[d]
               /\ pendingKey'[d] = pendingKey[d] /\ pending'[d] = pending[d]
<1> DEFINE id == Len(sent[e]) + 1
           p == App(id)
           c == Encrypted(p)
           held == registered[e]
<1>1. /\ life[e] = "open" /\ id <= MaxSends /\ sent' = [sent EXCEPT ![e] = Append(@, id)]
      /\ UNCHANGED <<given, life, opening, crypto, delivered>>
  BY DEF Send
<1>2. TypeOK /\ TypeOK'
  BY DEF EndsInv
<1>3. id \in Ids /\ Len(sent[e]) \in Nat /\ sent'[e] = Append(sent[e], id)
  BY <1>1, <1>2 DEF TypeOK, Ids
<1>4. Len(sent'[e]) = id
  BY <1>2, <1>3, AppendProperties DEF TypeOK
<1>5. /\ p \in Package /\ c \in Package /\ Plain(p) = p /\ Plain(c) = p
      /\ p.kind = "app" /\ p.id = id
  <2>1. p \in Package /\ c \in Package /\ Plain(p) = p /\ Plain(c) = Plain(p)
    BY <1>3, PackagesTyped, PlainForms
  <2> QED
    BY <2>1 DEF App
<1>6. Holds(held, Line(e)) /\ held \subseteq Made(e)
  BY <1>1 DEF Owned
<1>7. p \notin held
  BY <1>3, <1>5, <1>6 DEF Made
<1>8. held \cup {p} \subseteq Made(e)'
  <2>1. p \in Made(e)'
    BY <1>3, <1>4, <1>5 DEF Made
  <2>2. \A q \in Made(e) : q \in Package /\ q.id \in Nat
    BY DEF Made, Package
  <2>3. Made(e) \subseteq Made(e)'
    BY <1>1, <1>3, <1>4, <2>2 DEF Made
  <2> QED
    BY <1>6, <2>1, <2>3
<1> HIDE DEF id, p, c, held
<1> DEFINE s == sendList[e]
           k == pendingKey[e]
           w == pending[e]
<1>9. /\ s \in Seq(Package) /\ k \in Seq(Package) /\ w \in Seq(Package)
      /\ Joined(s, k) \in Seq(Package)
      /\ w = <<>> => Line(e) = Joined(s, k)
      /\ w = <<>> /\ k = <<>> => Line(e) = s
  BY <1>2, LineTyped
<1>10. /\ crypto[e] # "starting" => k = <<>>
       /\ ~(opening[e] /\ crypto[e] = "none") => w = <<>>
  BY NothingWaits
<1>11. Forms({p}) = {p}
  BY <1>5, HeldIs
<1> HIDE DEF s, k, w
<1>12. ASSUME NEW x \in Package, Plain(x) = p, w = <<>>, k = <<>>, SendRaw(e, <<x>>, {p}),
              UNCHANGED <<pending, pendingKey>>
       PROVE  Owned(e)' /\ \A d \in Ends \ {e} :
                  registered'[d] = registered[d] /\ sendList'[d] = sendList[d]
                  /\ pendingKey'[d] = pendingKey[d] /\ pending'[d] = pending[d]
  <2>1. <<x>> \in Seq(Package) /\ <<>> \in Seq(Package)
    BY <1>12
  <2>2. Holds(held, Joined(s, <<>>))
    BY <1>6, <1>9, <1>12, JoinedEmpty
  <2>3. Holds(held \cup {Plain(x)}, Joined(Joined(s, <<x>>), <<>>))
    BY <1>7, <1>9, <1>12, <2>1, <2>2, HoldsOneMore
  <2>4. Joined(s, <<x>>) \in Seq(Package)
    BY <1>9, <2>1, JoinedSeq
  <2>5. Holds(held \cup Forms({p}), Joined(s, <<x>>))
    BY <1>11, <1>12, <2>3, <2>4, JoinedEmpty
  <2>6. pending'[e] = <<>> /\ pendingKey'[e] = <<>>
    BY <1>12 DEF k, w
  <2>7. /\ Holds(registered'[e], Line(e)')
        /\ registered'[e] \subseteq held \cup Forms({p})
        /\ \A d \in Ends \ {e} : registered'[d] = registered[d] /\ sendList'[d] = sendList[d]
    BY <1>2, <1>12, <2>1, <2>5, <2>6, PushedHolds DEF s, held
  <2> QED
    BY <1>8, <1>11, <1>12, <2>7 DEF Owned
<1>13. CASE crypto[e] = "started" /\ SendRaw(e, <<c>>, {p}) /\ UNCHANGED <<pending, pendingKey>>
  BY <1>5, <1>10, <1>12, <1>13
<1>14. CASE /\ crypto[e] = "none" /\ ~opening[e] /\ SendRaw(e, <<p>>, {p})
            /\ UNCHANGED <<pending, pendingKey>>
  BY <1>5, <1>10, <1>12, <1>14
<1>15. CASE /\ crypto[e] = "starting" /\ pendingKey' = [pendingKey EXCEPT ![e] = Append(@, p)]
            /\ registered' = [registered EXCEPT ![e] = @ \cup {p}]
            /\ UNCHANGED <<pending, sendList, wire>>
  <2>1. pendingKey'[e] = Joined(k, <<p>>) /\ registered'[e] = held \cup {p}
    <3>1. Append(k, p) = k \o <<p>>
      BY <1>5, <1>9, AppendIsConcat
    <3> QED
      BY <1>2, <1>15, <3>1 DEF TypeOK, Joined, k, held
  <2>2. w = <<>> /\ <<p>> \in Seq(Package) /\ <<>> \in Seq(Package)
    BY <1>5, <1>10, <1>15
  <2>3. Holds(held, Joined(Joined(s, k), <<>>))
    BY <1>6, <1>9, <2>2, JoinedEmpty
  <2>4. Holds(held \cup {Plain(p)}, Joined(Joined(Joined(s, k), <<p>>), <<>>))
    BY <1>5, <1>7, <1>9, <2>2, <2>3, HoldsOneMore
  <2>5. Joined(Joined(s, k), <<p>>) = Joined(s, Joined(k, <<p>>))
    <3> DEFINE one == <<p>>
    <3>1. one \in Seq(Package)
      BY <2>2
    <3> HIDE DEF one
    <3>2. Joined(Joined(s, k), one) = Joined(s, Joined(k, one))
      BY <1>9, <3>1, JoinedThree
    <3> QED
      BY <3>2 DEF one
  <2>6. Line(e)' = Joined(Joined(s, Joined(k, <<p>>)), <<>>)
    BY <1>15, <2>1, <2>2 DEF Line, s, w
  <2>7. Owned(e)'
    BY <1>5, <1>8, <2>1, <2>4, <2>5, <2>6 DEF Owned
  <2>8. \A d \in Ends \ {e} : registered'[d] = registered[d] /\ pendingKey'[d] = pendingKey[d]
    BY <1>2, <1>15 DEF TypeOK
  <2> QED
    BY <1>15, <2>7, <2>8
<1>16. CASE /\ crypto[e] = "none" /\ opening[e] /\ pending' = [pending EXCEPT ![e] = Append(@, p)]
            /\ registered' = [registered EXCEPT ![e] = @ \cup {p}]
            /\ UNCHANGED <<pendingKey, sendList, wire>>
  <2>1. pending'[e] = Joined(w, <<p>>) /\ registered'[e] = held \cup {p}
    <3>1. Append(w, p) = w \o <<p>>
      BY <1>5, <1>9, AppendIsConcat
    <3> QED
      BY <1>2, <1>16, <3>1 DEF TypeOK, Joined, w, held
  <2>2. <<p>> \in Seq(Package) /\ <<>> \in Seq(Package)
    BY <1>5
  <2>3. Holds(held, Joined(Joined(Joined(s, k), w), <<>>))
    <3>1. Line(e) = Joined(Joined(s, k), w) /\ Line(e) \in Seq(Package)
      BY <1>2, LineTyped DEF Line, s, k, w
    <3> QED
      BY <1>6, <3>1, JoinedEmpty
  <2>4. Joined(Joined(s, k), w) \in Seq(Package)
    BY <1>9, JoinedSeq
  <2>5. Holds(held \cup {Plain(p)}, Joined(Joined(Joined(Joined(s, k), w), <<p>>), <<>>))
    BY <1>5, <1>7, <2>2, <2>3, <2>4, HoldsOneMore
  <2>6. /\ Joined(Joined(Joined(s, k), w), <<p>>) = Joined(Joined(s, k), Joined(w, <<p>>))
        /\ Joined(Joined(Joined(s, k), w), <<p>>) \in Seq(Package)
    <3> DEFINE one == <<p>>
               sk == Joined(s, k)
    <3>1. one \in Seq(Package) /\ sk \in Seq(Package) /\ Joined(sk, w) \in Seq(Package)
      BY <1>9, <2>2, <2>4
    <3> HIDE DEF one, sk
    <3>2. Joined(Joined(sk, w), one) = Joined(sk, Joined(w, one))
      BY <1>9, <3>1, JoinedThree
    <3>3. Joined(Joined(sk, w), one) \in Seq(Package)
      BY <3>1, JoinedSeq
    <3> QED
      BY <3>2, <3>3 DEF one, sk
  <2>7. Line(e)' = Joined(Joined(s, k), Joined(w, <<p>>))
    BY <1>16, <2>1 DEF Line, s, k
  <2>8. Holds(held \cup {p}, Line(e)')
    BY <1>5, <2>5, <2>6, <2>7, JoinedEmpty
  <2>9. Owned(e)'
    BY <1>8, <2>1, <2>8 DEF Owned
  <2>10. \A d \in Ends \ {e} : registered'[d] = registered[d] /\ pending'[d] = pending[d]
    BY <1>2, <1>16 DEF TypeOK
  <2> QED
    BY <1>16, <2>9, <2>10
<1> QED
  BY <1>13, <1>14, <1>15, <1>16 DEF Send, id, p, c

\* What the other end has to keep for OwnedLeft.
Apart(e) ==
    \A d \in Ends \ {e} :
        /\ registered'[d] = registered[d] /\ sendList'[d] = sendList[d]
        /\ pendingKey'[d] = pendingKey[d] /\ pending'[d] = pending[d]

LEMMA AcceptOwned ==
    ASSUME EndsInv, EndsInv', Accept, Owned("passive")
    PROVE  Owned("passive")' /\ Apart("passive")
<1> DEFINE e == "passive"
           hello == IF secure THEN <<Control("setting"), Control("request")>>
                    ELSE <<Control("setting")>>
           new == Range(hello)
<1>1. /\ life[e] = "none" /\ SendRaw(e, hello, new) /\ sent' = sent
      /\ life' = [life EXCEPT ![e] = "open"] /\ UNCHANGED <<pending, pendingKey>>
  BY DEF Accept
<1>2. TypeOK /\ TypeOK' /\ e \in Ends
  BY OtherEnd DEF EndsInv
<1>3. sendList[e] = <<>> /\ pending[e] = <<>> /\ pendingKey[e] = <<>>
  BY <1>1, <1>2 DEF EndsInv, Handshake
<1>4. registered[e] = {}
  BY <1>1, <1>2, <1>3, LineTyped, HoldsNothing DEF Owned
<1>5. hello \in Seq(Package)
  BY Greeting
<1>6. Holds(Keys(hello), hello) /\ Keys(hello) \subseteq Made(e)'
  <2>1. /\ Control("setting") \in Package /\ Control("request") \in Package
        /\ Plain(Control("setting")) = Control("setting")
        /\ Plain(Control("request")) = Control("request")
    BY PackagesTyped, PlainForms DEF Kinds
  <2>2. Control("setting").kind = "setting" /\ Control("request").kind = "request"
    BY DEF Control
  <2>3. Control("setting") \in Made(e)' /\ Control("request") \in Made(e)'
    BY <2>1, <2>2 DEF Made
  <2>4. CASE secure
    <3>1. /\ DOMAIN hello = {1, 2} /\ hello[1] = Control("setting")
          /\ hello[2] = Control("request")
      BY <2>4
    <3> HIDE DEF hello
    <3> QED
      BY <2>1, <2>2, <2>3, <3>1 DEF Holds, Keys
  <2>5. CASE ~secure
    <3>1. DOMAIN hello = {1} /\ hello[1] = Control("setting")
      BY <2>5
    <3> HIDE DEF hello
    <3> QED
      BY <2>1, <2>3, <3>1 DEF Holds, Keys
  <2> QED
    BY <2>4, <2>5
<1> HIDE DEF hello, e
<1>7. Forms(new) = Keys(hello)
  BY HeldIs
<1> HIDE DEF new
<1>8. Holds(registered[e] \cup Forms(new), Joined(sendList[e], hello))
  <2>1. registered[e] \cup Forms(new) = Keys(hello)
    BY <1>4, <1>7
  <2>2. Joined(<<>>, hello) = hello
    BY <1>5, JoinedEmpty
  <2> QED
    BY <1>3, <1>6, <2>1, <2>2
<1>9. /\ Holds(registered'[e], Line(e)')
      /\ registered'[e] \subseteq registered[e] \cup Forms(new)
      /\ \A d \in Ends \ {e} : registered'[d] = registered[d] /\ sendList'[d] = sendList[d]
  BY <1>1, <1>2, <1>3, <1>5, <1>8, PushedHolds
<1>10. Owned(e)'
  BY <1>4, <1>6, <1>7, <1>9 DEF Owned
<1>11. Apart(e)
  BY <1>1, <1>9 DEF Apart
<1> QED
  BY <1>10, <1>11 DEF e

LEMMA ReadSettingOwned ==
    ASSUME EndsInv, EndsInv', NEW e \in Ends, ReadSetting(e), Owned(e)
    PROVE  Owned(e)' /\ Apart(e)
<1> DEFINE s == sendList[e]
           w == pending[e]
           held == registered[e]
<1>1. /\ life[e] = "open" /\ opening[e] /\ UNCHANGED <<life, sent>>
      /\ crypto' = [crypto EXCEPT ![e] = IF secure THEN "starting" ELSE "none"]
      /\ pending' = [pending EXCEPT ![e] = <<>>]
  BY DEF ReadSetting, Read
<1>2. TypeOK /\ TypeOK'
  BY DEF EndsInv
<1>3. crypto[e] = "none" /\ pendingKey[e] = <<>>
  BY OtherEnd DEF EndsInv, Handshake, ReadSetting
<1>4. /\ s \in Seq(Package) /\ w \in Seq(Package) /\ <<>> \in Seq(Package)
      /\ Line(e) = Joined(s, w)
  <2>1. s \in Seq(Package) /\ w \in Seq(Package) /\ Line(e) = Joined(Joined(s, <<>>), w)
    BY <1>2, <1>3, LineTyped DEF Line
  <2> QED
    BY <2>1, JoinedEmpty
<1>5. Holds(held, Joined(s, w)) /\ held \subseteq Made(e)
  BY <1>1, <1>4 DEF Owned
<1>6. held \subseteq Made(e)'
  <2>1. Made(e) \subseteq Made(e)'
    BY <1>1, <1>2, <1>3 DEF Made, TypeOK
  <2> QED
    BY <1>5, <2>1
<1>7. /\ pending'[e] = <<>> /\ \A d \in Ends \ {e} : pending'[d] = pending[d]
      /\ held \cup Forms({}) = held
  BY <1>1, <1>2, HeldIs DEF TypeOK
<1> HIDE DEF s, w, held
<1>8. CASE secure
  <2>1. /\ ReadAndSend(e, <<>>, {})
        /\ pendingKey' = [pendingKey EXCEPT ![e] = @ \o pending[e]]
    BY <1>8 DEF ReadSetting
  <2>2. pendingKey'[e] = w /\ \A d \in Ends \ {e} : pendingKey'[d] = pendingKey[d]
    <3>1. <<>> \o w = w
      BY <1>4
    <3> QED
      BY <1>2, <1>3, <2>1, <3>1 DEF TypeOK, w
  <2>3. PICK n \in 0 .. Len(<<>>) :
           /\ sendList' = [sendList EXCEPT ![e] = @ \o SubSeq(<<>>, n + 1, Len(<<>>))]
           /\ registered' = [registered EXCEPT ![e] = Held(e, {}, SubSeq(<<>>, 1, n))]
    BY <2>1 DEF ReadAndSend
  <2>4. SubSeq(<<>>, 1, n) = <<>> /\ SubSeq(<<>>, n + 1, Len(<<>>)) = <<>>
    <3>1. n = 0 /\ Len(<<>>) = 0
      OBVIOUS
    <3> QED
      BY <1>4, <3>1, SubSeqEmpty
  <2>5. Held(e, {}, <<>>) = held /\ s \o <<>> = s
    <3>1. Held(e, {}, <<>>) = (held \cup Forms({})) \ Keys(<<>>) /\ Keys(<<>>) = {}
      BY HeldIs DEF held
    <3>2. held \ {} = held /\ held \cup Forms({}) = held
      BY <1>7
    <3>3. Held(e, {}, <<>>) = held
      BY <3>1, <3>2, Zenon
    <3>4. s \o <<>> = s
      BY <1>4, ConcatEmptySeq
    <3> QED
      BY <3>3, <3>4
  <2>6. UNCHANGED <<sendList, registered>>
    <3>1. sendList' = [sendList EXCEPT ![e] = s] /\ registered' = [registered EXCEPT ![e] = held]
      BY <2>3, <2>4, <2>5, Zenon DEF s
    <3>2. sendList = [d \in Ends |-> sendList[d]] /\ registered = [d \in Ends |-> registered[d]]
      BY <1>2 DEF TypeOK
    <3> QED
      BY <3>1, <3>2 DEF s, held
  <2>7. Line(e)' = Joined(Joined(s, w), <<>>)
    BY <1>7, <2>2, <2>6 DEF Line, s
  <2>8. Joined(s, w) \in Seq(Package)
    BY <1>4, JoinedSeq
  <2>9. Holds(registered'[e], Line(e)')
    BY <1>5, <2>6, <2>7, <2>8, JoinedEmpty DEF held
  <2> QED
    BY <1>6, <1>7, <2>2, <2>6, <2>9 DEF Owned, Apart, held
<1>9. CASE ~secure
  <2>1. ReadAndSend(e, w, {}) /\ UNCHANGED pendingKey
    BY <1>9 DEF ReadSetting, w
  <2>2. Holds(held \cup Forms({}), Joined(s, w))
    BY <1>5, <1>7
  <2>3. /\ Holds(registered'[e], Line(e)') /\ registered'[e] \subseteq held \cup Forms({})
        /\ \A d \in Ends \ {e} : registered'[d] = registered[d] /\ sendList'[d] = sendList[d]
    BY <1>2, <1>3, <1>4, <1>7, <2>1, <2>2, PushedHolds DEF s, held
  <2> QED
    BY <1>6, <1>7, <2>1, <2>3 DEF Owned, Apart
<1> QED
  BY <1>8, <1>9

LEMMA ReadKeyOwned ==
    ASSUME EndsInv, EndsInv', NEW e \in Ends, ReadKey(e), Owned(e)
    PROVE  Owned(e)' /\ Apart(e)
<1> DEFINE s == sendList[e]
           k == pendingKey[e]
           c == EncryptedAll(k)
           held == registered[e]
           answer == IF e = "active" THEN <<Control("response")>> ELSE <<>>
           new == Range(answer)
           reply == Control("response")
<1>1. /\ life[e] = "open" /\ ~opening[e] /\ crypto[e] = "starting"
      /\ crypto' = [crypto EXCEPT ![e] = "started"]
      /\ pendingKey' = [pendingKey EXCEPT ![e] = <<>>]
      /\ UNCHANGED <<life, pending, sent>>
      /\ ReadAndSend(e, answer \o c, new)
  BY DEF ReadKey, Read
<1>2. TypeOK /\ TypeOK'
  BY DEF EndsInv
<1>3. pending[e] = <<>> /\ pending'[e] = <<>> /\ pendingKey'[e] = <<>>
  BY <1>1, <1>2, NothingWaits DEF TypeOK
<1>4. s \in Seq(Package) /\ k \in Seq(Package) /\ Line(e) = Joined(s, k)
  BY <1>2, <1>3, LineTyped
<1>5. /\ answer \in Seq(Package) /\ c \in Seq(Package)
      /\ Joined(answer, c) \in Seq(Package) /\ Joined(answer, c) = answer \o c
  BY <1>2, Answer DEF Joined
<1>6. Holds(held, Joined(s, k)) /\ held \subseteq Made(e)
  BY <1>1, <1>4 DEF Owned
<1>7. /\ reply \in Package /\ Plain(reply) = reply /\ reply.kind = "response"
      /\ reply \in Made(e)' /\ reply \notin held
  <2>1. reply \in Package /\ Plain(reply) = reply
    BY PackagesTyped, PlainForms DEF Kinds
  <2>2. reply.kind = "response"
    BY DEF Control
  <2>3. crypto'[e] = "started"
    BY <1>1, <1>2 DEF TypeOK
  <2> QED
    BY <1>1, <1>6, <2>1, <2>2, <2>3 DEF Made
<1>8. held \subseteq Made(e)'
  <2>1. crypto'[e] = "started" /\ life'[e] = life[e] /\ sent'[e] = sent[e]
    BY <1>1, <1>2 DEF TypeOK
  <2>2. Made(e) \subseteq Made(e)'
    BY <2>1 DEF Made
  <2> QED
    BY <1>6, <2>2
\* Encrypted, the packages are registered as before.
<1>9. Holds(held, Joined(s, c))
  <2>1. /\ Joined(s, k) \in Seq(Package) /\ Len(Joined(s, k)) = Len(s) + Len(k)
        /\ \A i \in 1 .. Len(s) + Len(k) :
              Joined(s, k)[i] = IF i <= Len(s) THEN s[i] ELSE k[i - Len(s)]
    BY <1>4, JoinedSeq
  <2>2. Len(c) = Len(k) /\ \A i \in 1 .. Len(k) : c[i] = Encrypted(k[i])
    BY <1>4, EncryptedList
  <2>3. /\ Joined(s, c) \in Seq(Package) /\ Len(Joined(s, c)) = Len(s) + Len(c)
        /\ \A i \in 1 .. Len(s) + Len(c) :
              Joined(s, c)[i] = IF i <= Len(s) THEN s[i] ELSE c[i - Len(s)]
    BY <1>4, <1>5, JoinedSeq
  <2>4. Len(s) \in Nat /\ Len(k) \in Nat /\ \A i \in 1 .. Len(k) : k[i] \in Package
    BY <1>4
  <2> DEFINE m == Len(s)
             n == Len(k)
             old == Joined(s, k)
             sealed == Joined(s, c)
  <2>5. DOMAIN old = 1 .. m + n /\ DOMAIN sealed = 1 .. m + n
    <3>1. old \in Seq(Package) /\ Len(old) = m + n
      BY <2>1
    <3>2. sealed \in Seq(Package) /\ Len(sealed) = m + n
      BY <2>2, <2>3
    <3> HIDE DEF old, sealed, m, n
    <3> QED
      BY <3>1, <3>2
  <2> HIDE DEF m, n, old, sealed, c, s, k
  <2>6. \A i \in 1 .. m + n : Plain(sealed[i]) = Plain(old[i])
    <3> SUFFICES ASSUME NEW i \in 1 .. m + n
                 PROVE  Plain(sealed[i]) = Plain(old[i])
      OBVIOUS
    <3>1. /\ old[i] = IF i <= m THEN s[i] ELSE k[i - m]
          /\ sealed[i] = IF i <= m THEN s[i] ELSE c[i - m]
      BY <2>1, <2>2, <2>3 DEF m, n, old, sealed
    <3>2. CASE i <= m
      BY <3>1, <3>2
    <3>3. CASE ~(i <= m)
      <4>1. i - m \in 1 .. n
        BY <2>4, <3>3 DEF m, n
      <4>2. c[i - m] = Encrypted(k[i - m]) /\ k[i - m] \in Package
        BY <2>2, <2>4, <4>1 DEF n
      <4>3. Plain(Encrypted(k[i - m])) = Plain(k[i - m])
        BY <4>2, PlainForms
      <4> QED
        BY <3>1, <3>3, <4>2, <4>3
    <3> QED
      BY <3>2, <3>3
  <2>7. Holds(held, old)
    BY <1>6 DEF old
  <2>8. Holds(held, sealed)
    BY <2>5, <2>6, <2>7, HoldsSame
  <2> QED
    BY <2>8 DEF sealed
<1>10. Forms(new) = IF e = "active" THEN {reply} ELSE {}
  <2>1. Forms(new) = Keys(answer)
    BY HeldIs
  <2>2. CASE e = "active"
    <3>1. DOMAIN answer = {1} /\ answer[1] = reply
      BY <2>2
    <3> HIDE DEF answer, reply, new
    <3> QED
      BY <1>7, <2>1, <2>2, <3>1 DEF Keys
  <2>3. CASE e # "active"
    BY <2>1, <2>3, HeldIs
  <2> QED
    BY <2>2, <2>3
<1> HIDE DEF s, k, c, held
<1>11. Holds(held \cup Forms(new), Joined(s, Joined(answer, c)))
  <2>1. CASE e = "active"
    <3> DEFINE one == <<reply>>
    <3>1. answer = one /\ one \in Seq(Package)
      BY <1>7, <2>1
    <3>2. Holds(held \cup {Plain(reply)}, Joined(Joined(s, one), c))
      BY <1>4, <1>5, <1>7, <1>9, HoldsOneMore
    <3> HIDE DEF one, answer, reply, new
    <3>3. Joined(Joined(s, one), c) = Joined(s, Joined(one, c))
      BY <1>4, <1>5, <3>1, JoinedThree
    <3> QED
      BY <1>7, <1>10, <2>1, <3>1, <3>2, <3>3
  <2>2. CASE e # "active"
    <3>1. answer = <<>> /\ held \cup Forms(new) = held
      BY <1>10, <2>2
    <3>2. Joined(<<>>, c) = c
      BY <1>5, JoinedEmpty
    <3> QED
      BY <1>9, <3>1, <3>2
  <2> QED
    BY <2>1, <2>2
<1>12. /\ Holds(registered'[e], Line(e)')
       /\ registered'[e] \subseteq held \cup Forms(new)
       /\ \A d \in Ends \ {e} : registered'[d] = registered[d] /\ sendList'[d] = sendList[d]
  <2> DEFINE list == answer \o c
  <2>1. list \in Seq(Package) /\ ReadAndSend(e, list, new)
    BY <1>1, <1>5 DEF c, k
  <2>2. Holds(registered[e] \cup Forms(new), Joined(sendList[e], list))
    BY <1>5, <1>11 DEF s, held
  <2> HIDE DEF list, new
  <2> QED
    BY <1>2, <1>3, <2>1, <2>2, PushedHolds DEF held
<1> HIDE DEF new, answer, reply
<1>13. registered'[e] \subseteq Made(e)'
  BY <1>7, <1>8, <1>10, <1>12
<1>14. \A d \in Ends \ {e} : pendingKey'[d] = pendingKey[d]
  BY <1>1, <1>2 DEF TypeOK
<1> QED
  BY <1>1, <1>12, <1>13, <1>14 DEF Owned, Apart

LEMMA ReadAppOwned ==
    ASSUME EndsInv, EndsInv', NEW e \in Ends, ReadApp(e), Owned(e)
    PROVE  Owned(e)' /\ Apart(e)
<1>1. ReadAndSend(e, <<>>, {}) /\ UNCHANGED <<life, crypto, pending, pendingKey, sent>>
  BY DEF ReadApp
<1>2. PICK n \in 0 .. Len(<<>>) :
         /\ sendList' = [sendList EXCEPT ![e] = @ \o SubSeq(<<>>, n + 1, Len(<<>>))]
         /\ registered' = [registered EXCEPT ![e] = Held(e, {}, SubSeq(<<>>, 1, n))]
  BY <1>1 DEF ReadAndSend
<1>3. SubSeq(<<>>, 1, n) = <<>> /\ SubSeq(<<>>, n + 1, Len(<<>>)) = <<>>
  <2>1. n = 0 /\ Len(<<>>) = 0 /\ <<>> \in Seq(Package)
    OBVIOUS
  <2> QED
    BY <2>1, SubSeqEmpty
<1>4. Held(e, {}, <<>>) = registered[e] /\ sendList[e] \o <<>> = sendList[e]
  <2>1. Held(e, {}, <<>>) = (registered[e] \cup Forms({})) \ Keys(<<>>)
        /\ Keys(<<>>) = {} /\ Forms({}) = {}
    BY HeldIs
  <2>2. (registered[e] \cup {}) \ {} = registered[e]
    OBVIOUS
  <2>3. Held(e, {}, <<>>) = registered[e]
    BY <2>1, <2>2, Zenon
  <2>4. sendList[e] \o <<>> = sendList[e]
    BY ConcatEmptySeq DEF EndsInv, TypeOK
  <2> QED
    BY <2>3, <2>4
<1>5. UNCHANGED <<sendList, registered>>
  <2>1. /\ sendList' = [sendList EXCEPT ![e] = sendList[e]]
        /\ registered' = [registered EXCEPT ![e] = registered[e]]
    BY <1>2, <1>3, <1>4, Zenon
  <2>2. sendList = [d \in Ends |-> sendList[d]] /\ registered = [d \in Ends |-> registered[d]]
    BY DEF EndsInv, TypeOK
  <2> QED
    BY <2>1, <2>2
<1> QED
  BY <1>1, <1>5, OwnedLeft DEF Apart

LEMMA WritableOwned ==
    ASSUME EndsInv, EndsInv', NEW e \in Ends, Writable(e), Owned(e)
    PROVE  Owned(e)' /\ Apart(e)
<1> DEFINE s == sendList[e]
           x == Head(s)
           rest == Tail(s)
           held == registered[e]
<1>1. TypeOK /\ TypeOK'
  BY DEF EndsInv
<1>2. s # <<>> /\ life[e] \in {"open", "closing"} /\ UNCHANGED <<crypto, sent>>
  BY DEF Writable
<1>3. CASE Destroyed(e, s)
  <2>1. Apart(e)
    BY <1>1, <1>3 DEF Destroyed, Apart, TypeOK
  <2> QED
    BY <1>1, <1>3, <2>1, GoneOwnsNothing
<1>4. CASE /\ sendList' = [sendList EXCEPT ![e] = rest]
           /\ registered' = [registered EXCEPT ![e] = Held(e, {}, <<x>>)]
           /\ UNCHANGED <<life, pending, pendingKey>>
  <2>1. /\ s \in Seq(Package) /\ x \in Package /\ rest \in Seq(Package) /\ <<x>> \in Seq(Package)
        /\ <<>> \in Seq(Package)
    BY <1>1, <1>2, HeadTailProperties DEF TypeOK
  <2>2. Joined(<<x>>, rest) = s
    <3>1. Joined(Append(<<>>, x), rest) = Joined(<<>>, s)
      BY <1>2, <2>1, HeadMoves
    <3>2. Append(<<>>, x) = <<x>> /\ Joined(<<>>, s) = s
      BY <2>1, JoinedEmpty
    <3> QED
      BY <3>1, <3>2
  <2>3. Held(e, {}, <<x>>) = held \ Keys(<<x>>)
    <3>1. Held(e, {}, <<x>>) = (held \cup Forms({})) \ Keys(<<x>>) /\ Forms({}) = {}
      BY HeldIs
    <3> QED
      BY <3>1
  <2> DEFINE k == pendingKey[e]
             w == pending[e]
             one == <<x>>
  <2>4. k \in Seq(Package) /\ w \in Seq(Package)
    BY <1>1 DEF TypeOK
  <2>5. sendList'[e] = rest /\ registered'[e] = held \ Keys(one)
    BY <1>1, <1>4, <2>3 DEF TypeOK
  <2>6. Line(e) = Joined(Joined(s, k), w) /\ Line(e)' = Joined(Joined(rest, k), w)
    BY <1>4, <2>5 DEF Line
  <2>7. Holds(held, Line(e)) /\ held \subseteq Made(e)
    BY <1>2 DEF Owned
  <2>8. one \in Seq(Package) /\ Joined(one, rest) = s
    BY <2>1, <2>2
  <2> HIDE DEF s, rest, k, w, one, x, held
  <2>9. Line(e) = Joined(one, Joined(Joined(rest, k), w))
    <3>1. Joined(Joined(one, rest), k) = Joined(one, Joined(rest, k))
      BY <2>1, <2>4, <2>8, JoinedThree
    <3>2. Joined(rest, k) \in Seq(Package)
      BY <2>1, <2>4, JoinedSeq
    <3>3. Joined(Joined(one, Joined(rest, k)), w) = Joined(one, Joined(Joined(rest, k), w))
      BY <2>4, <2>8, <3>2, JoinedThree
    <3> QED
      BY <2>6, <2>8, <3>1, <3>3
  <2>10. Joined(Joined(rest, k), w) \in Seq(Package)
    <3>1. Joined(rest, k) \in Seq(Package)
      BY <2>1, <2>4, JoinedSeq
    <3> QED
      BY <2>4, <3>1, JoinedSeq
  <2>11. Holds(held \ Keys(one), Line(e)')
    BY <2>6, <2>7, <2>8, <2>9, <2>10, HoldsRest
  <2>12. Made(e)' = Made(e)
    BY <1>2, <1>4 DEF Made
  <2>13. Apart(e)
    BY <1>1, <1>4 DEF Apart, TypeOK
  <2> QED
    BY <2>5, <2>7, <2>11, <2>12, <2>13 DEF Owned
<1> QED
  BY <1>3, <1>4 DEF Writable

\* close() writes nothing and forgets nothing, unless nothing waits to be written.
LEMMA CloseOwned ==
    ASSUME TypeOK, NEW e \in Ends, CloseEnd(e), Owned(e), life[e] = "open",
           UNCHANGED <<crypto, sent>>
    PROVE  Owned(e)' /\ Apart(e)
<1>1. CASE Destroyed(e, <<>>)
  <2>1. Apart(e)
    BY <1>1 DEF Destroyed, Apart, TypeOK
  <2> QED
    BY <1>1, <2>1, GoneOwnsNothing
<1>2. CASE /\ life' = [life EXCEPT ![e] = "closing"]
           /\ UNCHANGED <<pending, pendingKey, sendList, registered>>
  <2>1. Line(e)' = Line(e) /\ life'[e] = "closing"
    BY <1>2 DEF Line, TypeOK
  <2>2. Made(e) \subseteq Made(e)'
    BY <2>1 DEF Made
  <2> QED
    BY <1>2, <2>1, <2>2 DEF Owned, Apart
<1> QED
  BY <1>1, <1>2 DEF CloseEnd

LEMMA ReadOtherVersionOwned ==
    ASSUME EndsInv, EndsInv', NEW e \in Ends, ReadOtherVersion(e), Owned(e)
    PROVE  Owned(e)' /\ Apart(e)
<1> DEFINE note == Control("version")
<1>1. life[e] = "open" /\ UNCHANGED <<opening, crypto, sent>>
  BY DEF ReadOtherVersion, Read
<1>2. TypeOK /\ TypeOK'
  BY DEF EndsInv
<1>3. CASE CloseEnd(e)
  BY <1>1, <1>2, <1>3, CloseOwned
<1>4. CASE Destroyed(e, <<>>)
  <2>1. Apart(e)
    BY <1>2, <1>4 DEF Destroyed, Apart, TypeOK
  <2> QED
    BY <1>2, <1>4, <2>1, GoneOwnsNothing
<1>5. CASE /\ life' = [life EXCEPT ![e] = "closing"]
           /\ sendList' = [sendList EXCEPT ![e] = Append(@, note)]
           /\ registered' = [registered EXCEPT ![e] = @ \cup {note}]
           /\ UNCHANGED <<pending, pendingKey>>
  <2> DEFINE s == sendList[e]
             k == pendingKey[e]
             w == pending[e]
             held == registered[e]
             one == <<note>>
  <2>1. note \in Package /\ Plain(note) = note /\ note.kind = "version"
    <3>1. note \in Package /\ Plain(note) = note
      BY PackagesTyped, PlainForms DEF Kinds
    <3> QED
      BY <3>1 DEF Control
  <2>2. /\ s \in Seq(Package) /\ k \in Seq(Package) /\ w \in Seq(Package)
        /\ Joined(k, w) \in Seq(Package) /\ one \in Seq(Package)
    BY <1>2, <2>1, JoinedSeq DEF TypeOK
  <2>3. Holds(held, Line(e)) /\ held \subseteq Made(e)
    BY <1>1 DEF Owned
  <2>4. note \notin held
    BY <1>1, <2>1, <2>3 DEF Made
  <2>5. life'[e] = "closing" /\ registered'[e] = held \cup {note} /\ sendList'[e] = Joined(s, one)
    <3>1. Append(s, note) = s \o one
      BY <2>1, <2>2, AppendIsConcat
    <3> QED
      BY <1>2, <1>5, <3>1 DEF TypeOK, Joined
  <2>6. held \cup {note} \subseteq Made(e)'
    <3>1. note \in Made(e)'
      BY <2>1, <2>5 DEF Made
    <3>2. Made(e) \subseteq Made(e)'
      BY <1>1, <2>5 DEF Made
    <3> QED
      BY <2>3, <3>1, <3>2
  <2>7. Line(e) = Joined(Joined(s, k), w) /\ Line(e)' = Joined(Joined(Joined(s, one), k), w)
    BY <1>5, <2>5 DEF Line
  <2> HIDE DEF s, k, w, held
  <2>8. Holds(held, Joined(s, Joined(k, w)))
    <3>1. Joined(Joined(s, k), w) = Joined(s, Joined(k, w))
      BY <2>2, JoinedThree
    <3> QED
      BY <2>3, <2>7, <3>1
  <2>9. Holds(held \cup {Plain(note)}, Joined(Joined(s, one), Joined(k, w)))
    BY <2>1, <2>2, <2>4, <2>8, HoldsOneMore
  <2> HIDE DEF one, note
  <2>10. Joined(Joined(Joined(s, one), k), w) = Joined(Joined(s, one), Joined(k, w))
    <3>1. Joined(s, one) \in Seq(Package)
      BY <2>2, JoinedSeq
    <3> QED
      BY <2>2, <3>1, JoinedThree
  <2>11. Owned(e)'
    BY <2>1, <2>5, <2>6, <2>7, <2>9, <2>10 DEF Owned
  <2>12. Apart(e)
    BY <1>2, <1>5 DEF Apart, TypeOK
  <2> QED
    BY <2>11, <2>12
<1> QED
  BY <1>3, <1>4, <1>5 DEF ReadOtherVersion

\* An action of one end leaves what the other owns.
LEMMA OwnedByBoth ==
    ASSUME EndsInv, NEW e \in Ends, \A d \in Ends : Owned(d), Owned(e)', Apart(e),
           \A d \in Ends \ {e} : /\ life'[d] = life[d] /\ sent'[d] = sent[d]
                                 /\ crypto'[d] = crypto[d]
    PROVE  \A d \in Ends : Owned(d)'
BY OwnedLeft DEF Apart

LEMMA ClosesOne ==
    ASSUME TypeOK, NEW e \in Ends, \/ \E list : Destroyed(e, list)
                                   \/ CloseEnd(e)
                                   \/ life' = [life EXCEPT ![e] = "closing"]
                                   \/ life' = life
    PROVE  \A d \in Ends \ {e} : life'[d] = life[d]
<1>1. \/ life' = [life EXCEPT ![e] = "gone"]
      \/ life' = [life EXCEPT ![e] = "closing"]
      \/ life' = life
  BY DEF Destroyed, CloseEnd
<1> QED
  BY <1>1 DEF TypeOK

LEMMA OwnedKept ==
    OwnedInv /\ [Next]_vars => OwnedInv'
<1> SUFFICES ASSUME OwnedInv, [Next]_vars
             PROVE  \A d \in Ends : Owned(d)'
  BY EndsKept DEF OwnedInv
<1>1. EndsInv /\ EndsInv' /\ \A d \in Ends : Owned(d)
  BY EndsKept DEF OwnedInv
<1>2. TypeOK /\ TypeOK'
  BY <1>1 DEF EndsInv
<1>3. CASE Accept
  <2>1. /\ life' = [life EXCEPT !["passive"] = "open"] /\ sent' = sent
        /\ crypto' = [crypto EXCEPT !["passive"] = IF secure THEN "starting" ELSE "none"]
    BY <1>3 DEF Accept
  <2>2. \A d \in Ends \ {"passive"} : /\ life'[d] = life[d] /\ sent'[d] = sent[d]
                                      /\ crypto'[d] = crypto[d]
    BY <1>2, <2>1 DEF TypeOK
  <2> QED
    BY <1>1, <1>3, <2>2, OtherEnd, AcceptOwned, OwnedByBoth
<1>4. ASSUME NEW e \in Ends, Send(e)
      PROVE  \A d \in Ends : Owned(d)'
  <2>1. life' = life /\ crypto' = crypto /\ \A d \in Ends \ {e} : sent'[d] = sent[d]
    BY <1>2, <1>4 DEF Send, TypeOK
  <2>2. Owned(e)' /\ Apart(e)
    BY <1>1, <1>4, SendOwned DEF Apart
  <2> QED
    BY <1>1, <2>1, <2>2, OwnedByBoth
<1>5. ASSUME NEW e \in Ends, Close(e)
      PROVE  \A d \in Ends : Owned(d)'
  <2>1. life[e] = "open" /\ CloseEnd(e) /\ crypto' = crypto /\ sent' = sent
    BY <1>5 DEF Close
  <2>2. Owned(e)' /\ Apart(e)
    BY <1>1, <1>2, <2>1, CloseOwned
  <2>3. \A d \in Ends \ {e} : life'[d] = life[d]
    BY <1>2, <2>1, ClosesOne
  <2> QED
    BY <1>1, <2>1, <2>2, <2>3, OwnedByBoth
<1>6. ASSUME NEW e \in Ends, Writable(e)
      PROVE  \A d \in Ends : Owned(d)'
  <2>1. crypto' = crypto /\ sent' = sent
    BY <1>6 DEF Writable
  <2>2. Destroyed(e, sendList[e]) \/ life' = life
    BY <1>6 DEF Writable
  <2>3. \A d \in Ends \ {e} : life'[d] = life[d]
    BY <1>2, <2>2, ClosesOne
  <2>4. Owned(e)' /\ Apart(e)
    BY <1>1, <1>6, WritableOwned
  <2> QED
    BY <1>1, <2>1, <2>3, <2>4, OwnedByBoth
<1>7. ASSUME NEW e \in Ends, Reading(e)
      PROVE  \A d \in Ends : Owned(d)'
  <2>1. Owned(e)' /\ Apart(e)
    BY <1>1, <1>7, ReadOtherVersionOwned, ReadSettingOwned, ReadKeyOwned, ReadAppOwned
       DEF Reading
  <2>2. sent' = sent
    BY <1>7 DEF Reading, ReadOtherVersion, ReadSetting, ReadKey, ReadApp
  <2>3. \A d \in Ends \ {e} : life'[d] = life[d]
    <3>1. \/ Destroyed(e, <<>>) \/ CloseEnd(e)
          \/ life' = [life EXCEPT ![e] = "closing"] \/ life' = life
      BY <1>7 DEF Reading, ReadOtherVersion, ReadSetting, ReadKey, ReadApp
    <3> QED
      BY <1>2, <3>1, ClosesOne
  <2>4. \A d \in Ends \ {e} : crypto'[d] = crypto[d]
    BY <1>2, <1>7 DEF Reading, ReadOtherVersion, ReadSetting, ReadKey, ReadApp, TypeOK
  <2> QED
    BY <1>1, <2>1, <2>2, <2>3, <2>4, OwnedByBoth
<1>8. ASSUME NEW e \in Ends, Lost(e)
      PROVE  \A d \in Ends : Owned(d)'
  <2>1. Destroyed(e, sendList[e]) /\ crypto' = crypto /\ sent' = sent
    BY <1>8 DEF Lost
  <2>2. Owned(e)' /\ Apart(e) /\ \A d \in Ends \ {e} : life'[d] = life[d]
    BY <1>2, <2>1, GoneOwnsNothing DEF Destroyed, Apart, TypeOK
  <2> QED
    BY <1>1, <2>1, <2>2, OwnedByBoth
<1>9. CASE UNCHANGED vars
  BY <1>1, <1>9, OwnedLeft DEF vars
<1> QED
  BY <1>3, <1>4, <1>5, <1>6, <1>7, <1>8, <1>9 DEF Next

\* An end that lives owns each of its packages once, in one of its three lists: none
\* is both waiting and removed, none is held by nobody, however the ends close.
THEOREM OwnedAlwaysOnce == Spec => []OwnedByOneList
<1>1. Init => OwnedInv
  <2> SUFFICES ASSUME Init
               PROVE  \A e \in Ends : Owned(e)
    BY InitEnds DEF OwnedInv
  <2>1. \A e \in Ends : /\ registered[e] = {} /\ pending[e] = <<>> /\ pendingKey[e] = <<>>
                        /\ sendList[e] = <<>>
    BY DEF Init, Nothing
  <2>2. TypeOK
    BY InitTyped
  <2>3. \A e \in Ends : Line(e) = <<>>
    BY <2>1, <2>2, LineTyped
  <2> QED
    BY <2>1, <2>3, HoldsNothing DEF Owned
<1>2. OwnedInv /\ [Next]_vars => OwnedInv'
  BY OwnedKept
<1>3. OwnedInv => OwnedByOneList
  <2> SUFFICES ASSUME OwnedInv, NEW e \in Ends, life[e] # "gone"
               PROVE  /\ {Plain(p) : p \in Range(Waiting(e))} = registered[e]
                      /\ Cardinality(registered[e]) = Len(Waiting(e))
    BY DEF OwnedByOneList
  <2>1. TypeOK /\ Holds(registered[e], Line(e))
    BY DEF OwnedInv, EndsInv, Owned
  <2> DEFINE s == sendList[e]
             k == pendingKey[e]
             w == pending[e]
  <2>2. s \in Seq(Package) /\ k \in Seq(Package) /\ w \in Seq(Package) /\ Line(e) \in Seq(Package)
    BY <2>1, LineTyped
  <2>3. Waiting(e) = Joined(Joined(w, k), s) /\ Line(e) = Joined(Joined(s, k), w)
    BY DEF Waiting, Line, Joined
  <2> HIDE DEF s, k, w
  <2>4. /\ Keys(Waiting(e)) = (Keys(w) \cup Keys(k)) \cup Keys(s)
        /\ Keys(Line(e)) = (Keys(s) \cup Keys(k)) \cup Keys(w)
        /\ Len(Waiting(e)) = (Len(w) + Len(k)) + Len(s)
        /\ Len(Line(e)) = (Len(s) + Len(k)) + Len(w)
    <3>1. s \in Seq(Package) /\ k \in Seq(Package) /\ w \in Seq(Package)
      BY <2>2
    <3>2. /\ Keys(Joined(Joined(w, k), s)) = (Keys(w) \cup Keys(k)) \cup Keys(s)
          /\ Len(Joined(Joined(w, k), s)) = (Len(w) + Len(k)) + Len(s)
      BY <3>1, ThreeJoined
    <3>3. /\ Keys(Joined(Joined(s, k), w)) = (Keys(s) \cup Keys(k)) \cup Keys(w)
          /\ Len(Joined(Joined(s, k), w)) = (Len(s) + Len(k)) + Len(w)
      BY <3>1, ThreeJoined
    <3> QED
      BY <2>3, <3>2, <3>3
  <2>5. Len(Waiting(e)) = Len(Line(e)) /\ Keys(Waiting(e)) = Keys(Line(e))
    <3>1. Len(s) \in Nat /\ Len(k) \in Nat /\ Len(w) \in Nat
      BY <2>2
    <3> QED
      BY <2>4, <3>1
  <2>6. registered[e] = Keys(Line(e))
    BY <2>1 DEF Holds
  <2>7. {Plain(p) : p \in Range(Waiting(e))} = Keys(Waiting(e))
    BY RangeKeys
  <2>8. Cardinality(registered[e]) = Len(Line(e))
    BY <2>1, <2>2, HoldsCounted
  <2> QED
    BY <2>5, <2>6, <2>7, <2>8
<1> QED
  BY <1>1, <1>2, <1>3, PTL DEF Spec

=============================================================================
