--------------------------- MODULE FileTreeProofs ---------------------------
(***************************************************************************)
(* Theorems about FileTree, for any names, spellings, groups, nodes and    *)
(* numbers of files, saves and crashes: the table of files stays sound, in *)
(* memory and in the data file; and it implements a set of paths, for any  *)
(* spellings of which FilePath leaves no empty name.                       *)
(***************************************************************************)
EXTENDS FileTree, FiniteSetTheorems, SequenceTheorems, WellFoundedInduction, TLAPS

\* A file is a record of one of the three kinds.
IsFile(x) ==
    \/ x = Absent
    \/ /\ x.type = "directory" /\ x = Directory(x.name, x.list)
       /\ x.list \in Seq(FileIds)
    \/ /\ x.type = "general" /\ x = GeneralFile(x.name, x.storage)
       /\ x.storage \in FileIds
    \/ /\ x.type = "storage" /\ x = StorageFile(x.name, x.node, x.uses)
       /\ x.node \in Nodes /\ x.uses \in Nat

\* Ids are given in order.
Table(fs, nx) ==
    /\ fs = [i \in FileIds |-> fs[i]]
    /\ nx \in 1 .. MaxFiles + 1
    /\ \A i \in FileIds : IsFile(fs[i]) /\ (fs[i] # Absent => i < nx)

Distinct(list) == \A j, k \in DOMAIN list : list[j] = list[k] => j = k
Holds(fs, d, i) == IsDirectory(fs, d) /\ \E k \in DOMAIN fs[d].list : fs[d].list[k] = i

\* Every entry is a file that is younger than its directory, and in no other place: the
\* directories are trees.
Trees(fs) ==
    /\ \A d \in FileIds : IsDirectory(fs, d) => Distinct(fs[d].list)
    /\ \A d, i \in FileIds : Holds(fs, d, i) => d < i /\ fs[i].type \in {"directory", "general"}
    /\ \A c, d, i \in FileIds : Holds(fs, c, i) /\ Holds(fs, d, i) => c = d

\* Every general file has a storage file of its own.
Storages(fs) ==
    /\ \A i \in FileIds : fs[i].type = "general" =>
          fs[fs[i].storage].type = "storage" /\ fs[fs[i].storage].uses = 1
    /\ \A i, j \in FileIds :
          /\ fs[i].type = "general" /\ fs[j].type = "general"
          /\ fs[i].storage = fs[j].storage
          => i = j

Roots(fs, rt) ==
    /\ rt \in [Groups -> FileIds \cup {Invalid}]
    /\ \A g \in Groups : rt[g] # Invalid =>
          IsDirectory(fs, rt[g]) /\ \A d \in FileIds : ~Holds(fs, d, rt[g])

\* Every file belongs to one group, also when no path leads to it any more: to that of
\* its directory, and its contents are on the node of that group.
Owners(fs, rt, nd, owner) ==
    /\ owner \in [FileIds -> Groups]
    /\ \A g \in Groups : rt[g] # Invalid => owner[rt[g]] = g
    /\ \A i \in FileIds : fs[i] # Absent => rt[owner[i]] # Invalid
    /\ \A d, i \in FileIds : Holds(fs, d, i) => owner[i] = owner[d]
    /\ \A i \in FileIds : fs[i].type = "general" => fs[fs[i].storage].node = nd[owner[i]]

Sound(fs, nx, rt, nd) ==
    /\ Table(fs, nx)
    /\ Trees(fs)
    /\ Storages(fs)
    /\ Roots(fs, rt)
    /\ nd \in [Groups -> Nodes]
    /\ \E owner \in [FileIds -> Groups] : Owners(fs, rt, nd, owner)

\* The table in memory is sound, and so is what the data file held when it was last whole.
IInv ==
    /\ Sound(files, next, root, node)
    /\ Sound(disk.files, disk.next, disk.root, disk.node)
    /\ torn \in BOOLEAN
    /\ phase \in {"up", "saving", "down"}
    /\ saves \in 0 .. MaxSaves
    /\ crashes \in 0 .. MaxCrashes

-----------------------------------------------------------------------------
(* Recursive functions *)

LEMMA LeastNumber ==
    ASSUME NEW T, T \subseteq Nat, T # {}
    PROVE  \E x \in T : \A y \in T : x <= y
<1> DEFINE R == {ss \in Nat \X Nat : ss[1] < ss[2]}
<1>1. IsWellFoundedOn(R, Nat)
  BY NatLessThanWellFounded DEF OpToRel
<1>2. \E x \in T : \A y \in T : <<y, x>> \notin R
  <2> HIDE DEF R
  <2> QED
    BY <1>1, WFMin
<1>3. \A x, y \in Nat : <<y, x>> \notin R => x <= y
  OBVIOUS
<1> HIDE DEF R
<1> QED
  BY <1>2, <1>3

Follows(f, b, step, n) == f[0] = b /\ \A k \in 1 .. n : f[k] = step[k][f[k - 1]]

\* A function may be defined by its first value and by a step from each value to the
\* next: by the least length for which there is none.
LEMMA Iterated ==
    ASSUME NEW n \in Nat, NEW V, NEW b \in V, NEW step \in [1 .. n -> [V -> V]]
    PROVE  \E f \in [0 .. n -> V] : Follows(f, b, step, n)
<1> DEFINE Defined(m) ==
              \E f \in [0 .. m -> V] : f[0] = b /\ \A k \in 1 .. m : f[k] = step[k][f[k - 1]]
           T == {m \in 0 .. n : ~Defined(m)}
<1>1. Defined(0)
  <2>1. /\ [k \in 0 .. 0 |-> b] \in [0 .. 0 -> V]
        /\ [k \in 0 .. 0 |-> b][0] = b
        /\ \A k \in 1 .. 0 : FALSE
    OBVIOUS
  <2> QED BY <2>1
<1>2. ASSUME NEW m \in 0 .. n, m # n, Defined(m) PROVE Defined(m + 1)
  <2>1. PICK f \in [0 .. m -> V] :
           f[0] = b /\ \A k \in 1 .. m : f[k] = step[k][f[k - 1]]
    BY <1>2
  <2> DEFINE g == [k \in 0 .. m + 1 |-> IF k <= m THEN f[k] ELSE step[m + 1][f[m]]]
  <2>2. m + 1 \in 1 .. n /\ m \in 0 .. m
    BY <1>2
  <2>3. step[m + 1] \in [V -> V]
    BY <2>2
  <2>4. step[m + 1][f[m]] \in V
    BY <2>2, <2>3
  <2>5. g \in [0 .. m + 1 -> V]
    BY <2>4
  <2>6. g[0] = b
    BY <1>2, <2>1
  <2>7. ASSUME NEW k \in 1 .. m + 1 PROVE g[k] = step[k][g[k - 1]]
    <3>1. k - 1 \in 0 .. m /\ g[k - 1] = f[k - 1]
      BY <1>2
    <3>2. CASE k <= m
      <4>1. k \in 1 .. m /\ g[k] = f[k]
        BY <1>2, <3>2
      <4> HIDE DEF g
      <4> QED BY <2>1, <3>1, <4>1
    <3>3. CASE ~(k <= m)
      <4>1. k = m + 1 /\ k - 1 = m /\ g[k] = step[m + 1][f[m]]
        BY <1>2, <3>3
      <4> HIDE DEF g
      <4> QED BY <3>1, <4>1
    <3> QED BY <3>2, <3>3
  <2> HIDE DEF g
  <2> QED BY <2>5, <2>6, <2>7
<1>3. T = {}
  <2> SUFFICES ASSUME T # {} PROVE FALSE
    OBVIOUS
  <2>1. T \subseteq Nat
    OBVIOUS
  <2>2. PICK m \in T : \A l \in T : m <= l
    BY <2>1, LeastNumber
  <2> HIDE DEF Defined
  <2>3. m \in 0 .. n /\ ~Defined(m) /\ m # 0
    BY <1>1
  <2>4. m - 1 \in 0 .. n /\ m - 1 # n /\ (m - 1) + 1 = m /\ ~(m <= m - 1)
    BY <2>3
  <2>5. Defined(m - 1)
    BY <2>2, <2>4
  <2> QED BY <1>2, <2>3, <2>4, <2>5
<1> QED BY <1>3 DEF Follows

-----------------------------------------------------------------------------
(* Lookups *)

Ids == FileIds \cup {Invalid}
ListsTyped(fs) == \A d \in FileIds : IsDirectory(fs, d) => fs[d].list \in Seq(FileIds)

LEMMA FindFileFinds ==
    ASSUME NEW fs, NEW d \in FileIds, IsDirectory(fs, d), fs[d].list \in Seq(FileIds), NEW name
    PROVE  LET i == FindFile(fs, d, name)
           IN  \/ i = Invalid
               \/ i \in FileIds /\ Holds(fs, d, i) /\ fs[i] # Absent /\ fs[i].name = name
<1> DEFINE list == fs[d].list
           found == {k \in DOMAIN list : fs[list[k]] # Absent /\ fs[list[k]].name = name}
<1>1. found \subseteq Nat
  OBVIOUS
<1>2. CASE found = {}
  BY <1>2 DEF FindFile
<1>3. CASE found # {}
  <2>1. \E x \in found : \A y \in found : x <= y
    <3> HIDE DEF found
    <3> QED BY <1>1, <1>3, LeastNumber
  <2>2. Min(found) \in found
    <3> HIDE DEF found
    <3> QED BY <2>1 DEF Min
  <2>3. FindFile(fs, d, name) = list[Min(found)]
    BY <1>3 DEF FindFile
  <2> DEFINE k == Min(found)
  <2> HIDE DEF k
  <2>4. k \in DOMAIN list /\ fs[list[k]] # Absent /\ fs[list[k]].name = name
    BY <2>2 DEF k
  <2>5. list[k] \in FileIds
    BY <2>4
  <2>6. Holds(fs, d, list[k])
    BY <2>4 DEF Holds
  <2> QED BY <2>3, <2>4, <2>5, <2>6 DEF k
<1> QED BY <1>2, <1>3

\* The recursive definition of FoundIds does define a function.
LEMMA FoundIdsStep ==
    ASSUME NEW fs, ListsTyped(fs), NEW r \in Ids, NEW S, NEW p \in Seq(S)
    PROVE  LET id == FoundIds(fs, r, p)
           IN  /\ id \in [0 .. Len(p) -> Ids]
               /\ id[0] = r
               /\ \A k \in 1 .. Len(p) :
                     id[k] = IF id[k - 1] # Invalid /\ IsDirectory(fs, id[k - 1])
                             THEN FindFile(fs, id[k - 1], p[k]) ELSE Invalid
<1> DEFINE n == Len(p)
           Step(v, k) == IF v # Invalid /\ IsDirectory(fs, v) THEN FindFile(fs, v, p[k]) ELSE Invalid
           step == [k \in 1 .. n |-> [v \in Ids |-> Step(v, k)]]
<1>0. n \in Nat
  OBVIOUS
<1>1. \A v \in Ids, k \in 1 .. n : Step(v, k) \in Ids
  <2> SUFFICES ASSUME NEW v \in Ids, NEW k \in 1 .. n PROVE Step(v, k) \in Ids
    OBVIOUS
  <2>1. CASE v # Invalid /\ IsDirectory(fs, v)
    <3>1. v \in FileIds /\ fs[v].list \in Seq(FileIds)
      BY <2>1 DEF Ids, ListsTyped
    <3>2. FindFile(fs, v, p[k]) \in Ids
      BY <2>1, <3>1, FindFileFinds DEF Ids
    <3> QED BY <2>1, <3>2
  <2>2. CASE ~(v # Invalid /\ IsDirectory(fs, v))
    BY <2>2 DEF Ids
  <2> QED BY <2>1, <2>2
<1> HIDE DEF Step
<1>2. step \in [1 .. n -> [Ids -> Ids]]
  BY <1>1
<1>3. \A k \in 1 .. n, v \in Ids : step[k][v] = Step(v, k)
  OBVIOUS
<1> HIDE DEF step
<1>4. \E f \in [0 .. n -> Ids] : Follows(f, r, step, n)
  <2> HIDE DEF n
  <2> QED BY <1>0, <1>2, Iterated, Zenon
<1>5. PICK f \in [0 .. n -> Ids] : f[0] = r /\ \A k \in 1 .. n : f[k] = step[k][f[k - 1]]
  BY <1>4 DEF Follows
<1>6. \A k \in 1 .. n : f[k] = Step(f[k - 1], k)
  <2> SUFFICES ASSUME NEW k \in 1 .. n PROVE f[k] = Step(f[k - 1], k)
    OBVIOUS
  <2>1. k - 1 \in 0 .. n
    BY <1>0
  <2> QED BY <1>3, <1>5, <2>1
<1> DEFINE IsIt(g) == g = [k \in 0 .. n |-> IF k = 0 THEN r ELSE Step(g[k - 1], k)]
<1>7. IsIt(f)
  <2>1. \A k \in 0 .. n : f[k] = IF k = 0 THEN r ELSE Step(f[k - 1], k)
    BY <1>0, <1>5, <1>6
  <2> QED BY <2>1, <1>5
<1>8. FoundIds(fs, r, p) = CHOOSE g : IsIt(g)
  BY DEF FoundIds, Step
<1>9. IsIt(FoundIds(fs, r, p))
  <2> HIDE DEF IsIt
  <2> QED BY <1>7, <1>8
<1> DEFINE id == FoundIds(fs, r, p)
<1>10. id = [k \in 0 .. n |-> IF k = 0 THEN r ELSE Step(id[k - 1], k)]
  BY <1>9
<1> HIDE DEF id
<1>11. id[0] = r /\ \A k \in 1 .. n : id[k] = Step(id[k - 1], k)
  <2>1. 0 \in 0 .. n /\ \A k \in 1 .. n : k \in 0 .. n /\ k # 0
    BY <1>0
  <2> HIDE DEF n
  <2> QED BY <1>10, <2>1
<1>12. \A k \in 0 .. n : id[k] \in Ids
  <2> DEFINE T == {k \in 0 .. n : id[k] \notin Ids}
  <2>1. T \subseteq Nat
    OBVIOUS
  <2>2. T = {}
    <3> SUFFICES ASSUME T # {} PROVE FALSE
      OBVIOUS
    <3>1. PICK m \in T : \A l \in T : m <= l
      BY <2>1, LeastNumber
    <3>2. m \in 0 .. n /\ id[m] \notin Ids /\ m # 0
      BY <1>11
    <3>3. m - 1 \in 0 .. n /\ ~(m <= m - 1) /\ m \in 1 .. n
      BY <3>2, <1>0
    <3>4. id[m - 1] \in Ids
      BY <3>1, <3>3
    <3>5. id[m] = Step(id[m - 1], m)
      BY <1>11, <3>3
    <3> QED BY <1>1, <3>2, <3>3, <3>4, <3>5
  <2> QED BY <2>2
<1>13. id \in [0 .. n -> Ids]
  BY <1>10, <1>12
<1> QED BY <1>11, <1>13 DEF id, Step

\* Each id that is found after the root is an entry of the one before, of that name.
LEMMA FoundHolds ==
    ASSUME NEW fs, ListsTyped(fs), NEW r \in Ids, NEW S, NEW p \in Seq(S),
           NEW k \in 1 .. Len(p), FoundIds(fs, r, p)[k] # Invalid
    PROVE  LET i == FoundIds(fs, r, p)[k]
               d == FoundIds(fs, r, p)[k - 1]
           IN  /\ i \in FileIds /\ fs[i] # Absent /\ fs[i].name = p[k]
               /\ d \in FileIds /\ IsDirectory(fs, d) /\ Holds(fs, d, i)
               /\ i = FindFile(fs, d, p[k])
<1> DEFINE id == FoundIds(fs, r, p)
<1>1. k - 1 \in 0 .. Len(p)
  OBVIOUS
<1>2. /\ id[k - 1] \in Ids
      /\ id[k] = IF id[k - 1] # Invalid /\ IsDirectory(fs, id[k - 1])
                 THEN FindFile(fs, id[k - 1], p[k]) ELSE Invalid
  BY <1>1, FoundIdsStep
<1> HIDE DEF id
<1>3. id[k - 1] # Invalid /\ IsDirectory(fs, id[k - 1]) /\ id[k] = FindFile(fs, id[k - 1], p[k])
  BY <1>2 DEF id
<1>4. id[k - 1] \in FileIds /\ fs[id[k - 1]].list \in Seq(FileIds)
  BY <1>2, <1>3 DEF Ids, ListsTyped
<1>5. LET i == FindFile(fs, id[k - 1], p[k])
      IN  \/ i = Invalid
          \/ i \in FileIds /\ Holds(fs, id[k - 1], i) /\ fs[i] # Absent /\ fs[i].name = p[k]
  BY <1>3, <1>4, FindFileFinds
<1> QED BY <1>3, <1>4, <1>5 DEF id

LEMMA FoundPrefix ==
    ASSUME NEW fs, ListsTyped(fs), NEW r \in Ids, NEW S, NEW p \in Seq(S), NEW n \in 0 .. Len(p)
    PROVE  /\ SubSeq(p, 1, n) \in Seq(S) /\ Len(SubSeq(p, 1, n)) = n
           /\ \A k \in 0 .. n : FoundIds(fs, r, SubSeq(p, 1, n))[k] = FoundIds(fs, r, p)[k]
           /\ GetFileId(fs, r, SubSeq(p, 1, n)) = FoundIds(fs, r, p)[n]
<1> DEFINE q == SubSeq(p, 1, n)
           id == FoundIds(fs, r, p)
           jd == FoundIds(fs, r, q)
           T == {k \in 0 .. n : jd[k] # id[k]}
<1>1. q \in Seq(S) /\ Len(q) = n /\ \A k \in 1 .. n : q[k] = p[k]
  OBVIOUS
<1>n. n \in Nat /\ Len(p) \in Nat /\ n <= Len(p)
  OBVIOUS
<1> HIDE DEF q
<1>2. /\ id[0] = r
      /\ \A k \in 1 .. n : id[k] = IF id[k - 1] # Invalid /\ IsDirectory(fs, id[k - 1])
                                   THEN FindFile(fs, id[k - 1], p[k]) ELSE Invalid
  <2>1. \A k \in 1 .. n : k \in 1 .. Len(p)
    BY <1>n
  <2> QED BY <2>1, FoundIdsStep
<1>3. /\ jd[0] = r
      /\ \A k \in 1 .. n : jd[k] = IF jd[k - 1] # Invalid /\ IsDirectory(fs, jd[k - 1])
                                   THEN FindFile(fs, jd[k - 1], q[k]) ELSE Invalid
  BY <1>1, FoundIdsStep
<1> HIDE DEF id, jd
<1>4. T = {}
  <2> SUFFICES ASSUME T # {} PROVE FALSE
    OBVIOUS
  <2>1. T \subseteq Nat
    BY <1>n
  <2>2. PICK m \in T : \A l \in T : m <= l
    BY <2>1, LeastNumber
  <2>3. m \in 0 .. n /\ jd[m] # id[m] /\ m # 0
    BY <1>2, <1>3
  <2>4. m - 1 \in 0 .. n /\ ~(m <= m - 1) /\ m \in 1 .. n
    BY <2>3, <1>n
  <2>5. jd[m - 1] = id[m - 1]
    BY <2>2, <2>4
  <2> QED BY <1>1, <1>2, <1>3, <2>3, <2>4, <2>5
<1>5. \A k \in 0 .. n : jd[k] = id[k]
  BY <1>4
<1>6. GetFileId(fs, r, q) = jd[n]
  BY <1>1 DEF GetFileId, jd
<1> QED BY <1>1, <1>5, <1>6, <1>n DEF q, id, jd

-----------------------------------------------------------------------------
(* The paths of requests *)

Plain(s) == \A k \in DOMAIN s : s[k] # ""

LEMMA NoRun ==
    ASSUME NEW T, NEW s \in Seq(T), Plain(s), NEW k \in 1 .. Len(s)
    PROVE  InRun(s, k) % 2 = 1
<1> DEFINE R == {1} \cup {j \in 1 .. k : s[j] # ""}
<1>0. k \in Nat /\ 1 <= k
  OBVIOUS
<1>1. R = 1 .. k
  <2>0. \A j \in 1 .. k : j \in DOMAIN s
    OBVIOUS
  <2>1. \A j \in 1 .. k : s[j] # ""
    BY <2>0, Zenon DEF Plain
  <2> HIDE DEF R
  <2>2. 1 \in 1 .. k /\ R = {1} \cup {j \in 1 .. k : s[j] # ""}
    BY <1>0 DEF R
  <2> QED BY <2>1, <2>2
<1>2. Max(1 .. k) = k
  BY DEF Max
<1>3. InRun(s, k) = k + 1 - Max(R)
  BY DEF InRun
<1> HIDE DEF R
<1>4. InRun(s, k) = k + 1 - k
  BY <1>1, <1>2, <1>3
<1>5. InRun(s, k) = 1
  BY <1>0, <1>4
<1> QED BY <1>5

LEMMA OneMoreOf ==
    ASSUME NEW T, NEW s \in Seq(T), NEW k \in 1 .. Len(s)
    PROVE  Append(SubSeq(s, 1, k - 1), s[k]) = SubSeq(s, 1, k)
OBVIOUS

\* What is left of a spelling is made of its parts; one without empty parts is left alone.
LEMMA SqueezeIs ==
    ASSUME NEW S, NEW s \in Seq(S)
    PROVE  Squeeze(s) \in Seq(S) /\ (Plain(s) => Squeeze(s) = s)
<1> DEFINE n == Len(s)
           Step(v, k) == IF k = n \/ InRun(s, k) % 2 = 1 THEN Append(v, s[k]) ELSE v
           step == [k \in 1 .. n |-> [v \in Seq(S) |-> Step(v, k)]]
<1>0. n \in Nat /\ n = Len(s)
  OBVIOUS
<1>1. \A v \in Seq(S), k \in 1 .. n : Step(v, k) \in Seq(S)
  <2> SUFFICES ASSUME NEW v \in Seq(S), NEW k \in 1 .. n PROVE Step(v, k) \in Seq(S)
    OBVIOUS
  <2>1. s[k] \in S
    OBVIOUS
  <2> QED BY <2>1
<1>s. ASSUME NEW k \in 1 .. n, Plain(s)
      PROVE  Step(SubSeq(s, 1, k - 1), k) = SubSeq(s, 1, k)
  <2>1. InRun(s, k) % 2 = 1
    BY <1>s, NoRun
  <2>2. Append(SubSeq(s, 1, k - 1), s[k]) = SubSeq(s, 1, k)
    BY OneMoreOf
  <2> QED BY <2>1, <2>2
<1>r. \A v, k : Step(v, k) = IF k = Len(s) \/ InRun(s, k) % 2 = 1 THEN Append(v, s[k]) ELSE v
  OBVIOUS
<1> HIDE DEF Step
<1>2. step \in [1 .. n -> [Seq(S) -> Seq(S)]]
  BY <1>1
<1>3. \A k \in 1 .. n, v \in Seq(S) : step[k][v] = Step(v, k)
  OBVIOUS
<1> HIDE DEF step
<1>e. <<>> \in Seq(S)
  OBVIOUS
<1>4. \E f \in [0 .. n -> Seq(S)] : Follows(f, <<>>, step, n)
  <2> HIDE DEF n
  <2> QED BY <1>0, <1>2, <1>e, Iterated, Zenon
<1>5. PICK f \in [0 .. n -> Seq(S)] : f[0] = <<>> /\ \A k \in 1 .. n : f[k] = step[k][f[k - 1]]
  BY <1>4 DEF Follows
<1>6. \A k \in 1 .. n : f[k] = Step(f[k - 1], k)
  <2> SUFFICES ASSUME NEW k \in 1 .. n PROVE f[k] = Step(f[k - 1], k)
    OBVIOUS
  <2>1. k - 1 \in 0 .. n
    BY <1>0
  <2> QED BY <1>3, <1>5, <2>1
<1> DEFINE IsIt(g) == g = [k \in 0 .. n |-> IF k = 0 THEN <<>> ELSE Step(g[k - 1], k)]
<1>7. IsIt(f)
  <2>1. \A k \in 0 .. n : f[k] = IF k = 0 THEN <<>> ELSE Step(f[k - 1], k)
    BY <1>0, <1>5, <1>6
  <2> QED BY <2>1, <1>5
<1>8. Squeeze(s) = (CHOOSE g : IsIt(g))[n]
  BY DEF Squeeze, Step
<1>9. IsIt(CHOOSE g : IsIt(g))
  <2> HIDE DEF IsIt
  <2> QED BY <1>7
<1> DEFINE kept == CHOOSE g : IsIt(g)
<1>10. kept = [k \in 0 .. n |-> IF k = 0 THEN <<>> ELSE Step(kept[k - 1], k)]
  BY <1>9
<1> HIDE DEF kept
<1>11. kept[0] = <<>> /\ \A k \in 1 .. n : kept[k] = Step(kept[k - 1], k)
  <2>1. 0 \in 0 .. n /\ \A k \in 1 .. n : k \in 0 .. n /\ k # 0
    BY <1>0
  <2> HIDE DEF n
  <2> QED BY <1>10, <2>1
<1> DEFINE Good(k) == kept[k] \in Seq(S) /\ (Plain(s) => kept[k] = SubSeq(s, 1, k))
           T == {k \in 0 .. n : ~Good(k)}
<1>12. Good(0)
  <2>1. SubSeq(s, 1, 0) = <<>>
    OBVIOUS
  <2> QED BY <1>11, <1>e, <2>1
<1>13. T = {}
  <2> SUFFICES ASSUME T # {} PROVE FALSE
    OBVIOUS
  <2>1. T \subseteq Nat
    BY <1>0
  <2>2. PICK m \in T : \A l \in T : m <= l
    BY <2>1, LeastNumber
  <2>3. m \in 0 .. n /\ ~Good(m) /\ m # 0
    BY <1>12
  <2>4. m - 1 \in 0 .. n /\ ~(m <= m - 1) /\ m \in 1 .. n
    BY <2>3, <1>0
  <2>5. Good(m - 1)
    BY <2>2, <2>4
  <2>6. kept[m] = Step(kept[m - 1], m)
    BY <1>11, <2>4
  <2>7. kept[m] \in Seq(S)
    BY <1>1, <2>4, <2>5, <2>6
  <2>8. Plain(s) => kept[m] = SubSeq(s, 1, m)
    BY <1>s, <2>4, <2>5, <2>6
  <2> QED BY <2>3, <2>7, <2>8
<1>14. Good(n)
  BY <1>0, <1>13
<1>15. SubSeq(s, 1, n) = s
  OBVIOUS
<1> QED BY <1>8, <1>14, <1>15 DEF kept

LEMMA FilePathIs ==
    ASSUME NEW S, NEW s \in Seq(S)
    PROVE  FilePath(s) \in Seq(S) /\ (Plain(s) => FilePath(s) = s)
<1> DEFINE squeezed == Squeeze(s)
           front == IF Len(squeezed) > 1 /\ Head(squeezed) = "" THEN Tail(squeezed) ELSE squeezed
<1>1. squeezed \in Seq(S) /\ (Plain(s) => squeezed = s)
  BY SqueezeIs
<1>2. FilePath(s) = IF front # <<>> /\ Last(front) = "" THEN Front(front) ELSE front
  BY DEF FilePath
<1> HIDE DEF squeezed
<1>3. front \in Seq(S)
  <2>1. Len(squeezed) > 1 => Tail(squeezed) \in Seq(S)
    BY <1>1
  <2> QED BY <1>1, <2>1
<1>4. Plain(s) => front = s
  <2>0. Len(s) > 1 => 1 \in DOMAIN s /\ Head(s) = s[1]
    OBVIOUS
  <2>1. Plain(s) /\ Len(s) > 1 => Head(s) # ""
    BY <2>0, Zenon DEF Plain
  <2> QED BY <1>1, <2>1
<1> HIDE DEF front
<1>5. front # <<>> => Front(front) \in Seq(S)
  BY <1>3 DEF Front
<1>6. Plain(s) /\ s # <<>> => Last(s) # ""
  <2>1. s # <<>> => Len(s) \in DOMAIN s
    BY EmptySeq
  <2> QED BY <2>1 DEF Plain, Last
<1> QED BY <1>2, <1>3, <1>4, <1>5, <1>6

\* The paths that requests are about.
LEMMA FilePathIsSeq ==
    ASSUME NEW T, NEW s \in Seq(T)
    PROVE  \E S : FilePath(s) \in Seq(S)
BY FilePathIs

-----------------------------------------------------------------------------
(* Taking an entry out of a list *)

\* v is what is left of the first k elements.
IsWithout(v, list, id, k) ==
    /\ \A x : (\E i \in DOMAIN v : v[i] = x) <=> x # id /\ \E j \in 1 .. k : list[j] = x
    /\ Distinct(list) => Distinct(v)

LEMMA WithoutNext ==
    ASSUME NEW S, NEW list \in Seq(S), NEW id, NEW k \in 1 .. Len(list), NEW v \in Seq(S),
           IsWithout(v, list, id, k - 1)
    PROVE  IsWithout(IF list[k] = id THEN v ELSE Append(v, list[k]), list, id, k)
<1>1. \A x : (\E j \in 1 .. k : list[j] = x) <=> x = list[k] \/ \E j \in 1 .. k - 1 : list[j] = x
  <2> TAKE x
  <2>1. \A j \in 1 .. k : j = k \/ j \in 1 .. k - 1
    OBVIOUS
  <2>2. k \in 1 .. k /\ \A j \in 1 .. k - 1 : j \in 1 .. k
    OBVIOUS
  <2> QED BY <2>1, <2>2
<1>2. CASE list[k] = id
  BY <1>1, <1>2 DEF IsWithout
<1>3. CASE list[k] # id
  <2> DEFINE w == Append(v, list[k])
             n == Len(v)
  <2>1. /\ n \in Nat /\ DOMAIN v = 1 .. n /\ DOMAIN w = 1 .. n + 1
        /\ w[n + 1] = list[k] /\ \A i \in 1 .. n : w[i] = v[i]
    OBVIOUS
  <2> HIDE DEF w, n
  <2>2. \A x : (\E i \in DOMAIN w : w[i] = x) <=> x = list[k] \/ \E i \in DOMAIN v : v[i] = x
    <3> TAKE x
    <3>1. \A i \in 1 .. n + 1 : i = n + 1 \/ i \in 1 .. n
      BY <2>1
    <3>2. n + 1 \in 1 .. n + 1 /\ \A i \in 1 .. n : i \in 1 .. n + 1
      BY <2>1
    <3> QED BY <2>1, <3>1, <3>2
  <2>3. ASSUME Distinct(list) PROVE Distinct(w)
    <3>1. Distinct(v) /\ \A i \in DOMAIN v : \E j \in 1 .. k - 1 : list[j] = v[i]
      BY <2>3 DEF IsWithout
    <3>2. \A i \in DOMAIN v : v[i] # list[k]
      <4> SUFFICES ASSUME NEW i \in DOMAIN v, v[i] = list[k] PROVE FALSE
        OBVIOUS
      <4>1. PICK j \in 1 .. k - 1 : list[j] = list[k]
        BY <3>1
      <4>2. j \in DOMAIN list /\ k \in DOMAIN list /\ j # k
        OBVIOUS
      <4> QED BY <2>3, <4>1, <4>2 DEF Distinct
    <3>3. \A i \in 1 .. n + 1 : i = n + 1 \/ i \in 1 .. n
      BY <2>1
    <3> QED BY <2>1, <3>1, <3>2, <3>3 DEF Distinct
  <2>4. IsWithout(w, list, id, k)
    BY <1>1, <1>3, <2>2, <2>3 DEF IsWithout
  <2> QED BY <1>3, <2>4 DEF w
<1> QED BY <1>2, <1>3

\* What remove_file leaves: every other entry, and nothing twice that was there once.
LEMMA WithoutIs ==
    ASSUME NEW S, NEW list \in Seq(S), NEW id
    PROVE  /\ Without(list, id) \in Seq(S)
           /\ IsWithout(Without(list, id), list, id, Len(list))
<1> DEFINE n == Len(list)
           Step(v, k) == IF list[k] = id THEN v ELSE Append(v, list[k])
           step == [k \in 1 .. n |-> [v \in Seq(S) |-> Step(v, k)]]
<1>0. n \in Nat
  OBVIOUS
<1>1. \A v \in Seq(S), k \in 1 .. n : Step(v, k) \in Seq(S)
  <2> SUFFICES ASSUME NEW v \in Seq(S), NEW k \in 1 .. n PROVE Step(v, k) \in Seq(S)
    OBVIOUS
  <2>1. list[k] \in S
    OBVIOUS
  <2> QED BY <2>1
<1>s. \A v, k : Step(v, k) = IF list[k] = id THEN v ELSE Append(v, list[k])
  OBVIOUS
<1> HIDE DEF Step
<1>2. step \in [1 .. n -> [Seq(S) -> Seq(S)]]
  BY <1>1
<1>3. \A k \in 1 .. n, v \in Seq(S) : step[k][v] = Step(v, k)
  OBVIOUS
<1> HIDE DEF step
<1>e. <<>> \in Seq(S)
  OBVIOUS
<1>4. \E f \in [0 .. n -> Seq(S)] : Follows(f, <<>>, step, n)
  <2> HIDE DEF n
  <2> QED BY <1>0, <1>2, <1>e, Iterated, Zenon
<1>5. PICK f \in [0 .. n -> Seq(S)] : f[0] = <<>> /\ \A k \in 1 .. n : f[k] = step[k][f[k - 1]]
  BY <1>4 DEF Follows
<1>6. \A k \in 1 .. n : f[k] = Step(f[k - 1], k)
  <2> SUFFICES ASSUME NEW k \in 1 .. n PROVE f[k] = Step(f[k - 1], k)
    OBVIOUS
  <2>1. k - 1 \in 0 .. n
    BY <1>0
  <2> QED BY <1>3, <1>5, <2>1
<1> DEFINE IsIt(g) == g = [k \in 0 .. n |-> IF k = 0 THEN <<>> ELSE Step(g[k - 1], k)]
<1>7. IsIt(f)
  <2>1. \A k \in 0 .. n : f[k] = IF k = 0 THEN <<>> ELSE Step(f[k - 1], k)
    BY <1>0, <1>5, <1>6
  <2> QED BY <2>1, <1>5
<1>8. Without(list, id) = (CHOOSE g : IsIt(g))[n]
  BY DEF Without, Step
<1>9. IsIt(CHOOSE g : IsIt(g))
  <2> HIDE DEF IsIt
  <2> QED BY <1>7
<1> DEFINE kept == CHOOSE g : IsIt(g)
<1>10. kept = [k \in 0 .. n |-> IF k = 0 THEN <<>> ELSE Step(kept[k - 1], k)]
  BY <1>9
<1> HIDE DEF kept
<1>11. kept[0] = <<>> /\ \A k \in 1 .. n : kept[k] = Step(kept[k - 1], k)
  <2>1. 0 \in 0 .. n /\ \A k \in 1 .. n : k \in 0 .. n /\ k # 0
    BY <1>0
  <2> HIDE DEF n
  <2> QED BY <1>10, <2>1
<1> DEFINE Good(k) == kept[k] \in Seq(S) /\ IsWithout(kept[k], list, id, k)
           T == {k \in 0 .. n : ~Good(k)}
<1>12. Good(0)
  BY <1>11 DEF IsWithout, Distinct
<1>13. T = {}
  <2> SUFFICES ASSUME T # {} PROVE FALSE
    OBVIOUS
  <2>1. T \subseteq Nat
    BY <1>0
  <2>2. PICK m \in T : \A l \in T : m <= l
    BY <2>1, LeastNumber
  <2>3. m \in 0 .. n /\ ~Good(m) /\ m # 0
    BY <1>12
  <2>4. m - 1 \in 0 .. n /\ ~(m <= m - 1) /\ m \in 1 .. n
    BY <2>3, <1>0
  <2>5. Good(m - 1)
    BY <2>2, <2>4
  <2>6. kept[m] = Step(kept[m - 1], m)
    BY <1>11, <2>4
  <2>7. kept[m] \in Seq(S)
    BY <1>1, <2>4, <2>5, <2>6
  <2>8. IsWithout(kept[m], list, id, m)
    BY <1>s, <2>4, <2>5, <2>6, WithoutNext
  <2> QED BY <2>3, <2>7, <2>8
<1>14. Good(n)
  BY <1>0, <1>13
<1> QED BY <1>8, <1>14 DEF kept

-----------------------------------------------------------------------------
(* Files *)

LEMMA IdsAreNumbers ==
    /\ MaxFiles \in Nat
    /\ FileIds \subseteq Nat /\ \A i \in FileIds : i \in Nat
    /\ Invalid \notin FileIds
<1>1. MaxFiles \in Nat
  BY FileTreeAssumption
<1> QED BY <1>1 DEF FileIds, Invalid

LEMMA DirectoryFields ==
    ASSUME NEW name, NEW list \in Seq(FileIds)
    PROVE  LET x == Directory(name, list)
           IN  /\ IsFile(x) /\ x # Absent /\ x.type = "directory"
               /\ x.name = name /\ x.list = list
BY DEF Directory, IsFile, Absent

LEMMA GeneralFields ==
    ASSUME NEW name, NEW storage \in FileIds
    PROVE  LET x == GeneralFile(name, storage)
           IN  /\ IsFile(x) /\ x # Absent /\ x.type = "general"
               /\ x.name = name /\ x.storage = storage
BY DEF GeneralFile, IsFile, Absent

LEMMA StorageFields ==
    ASSUME NEW name, NEW n \in Nodes
    PROVE  LET x == StorageFile(name, n, 1)
           IN  /\ IsFile(x) /\ x # Absent /\ x.type = "storage"
               /\ x.name = name /\ x.node = n /\ x.uses = 1
BY DEF StorageFile, IsFile, Absent

LEMMA AbsentFields == IsFile(Absent) /\ Absent.type = "absent"
BY DEF Absent, IsFile

LEMMA FileKinds ==
    ASSUME NEW x, IsFile(x)
    PROVE  /\ x = Absent <=> x.type = "absent"
           /\ x.type \in {"absent", "directory", "general", "storage"}
           /\ x.type = "directory" => x = Directory(x.name, x.list) /\ x.list \in Seq(FileIds)
           /\ x.type = "general" => x.storage \in FileIds
           /\ x.type = "storage" => x.node \in Nodes /\ x.uses \in Nat
BY DEF IsFile, Absent

LEMMA TableTyped ==
    ASSUME NEW fs, NEW nx, Table(fs, nx)
    PROVE  ListsTyped(fs)
BY FileKinds DEF Table, ListsTyped, IsDirectory

\* Whatever a path of a group leads to exists and belongs to it.
LEMMA FoundOwned ==
    ASSUME NEW fs, NEW nx, Table(fs, nx), Trees(fs), NEW rt, Roots(fs, rt),
           NEW nd, NEW owner, Owners(fs, rt, nd, owner),
           NEW g \in Groups, NEW S, NEW p \in Seq(S)
    PROVE  \A k \in 0 .. Len(p) :
               LET i == FoundIds(fs, rt[g], p)[k]
               IN  i # Invalid => i \in FileIds /\ fs[i] # Absent /\ owner[i] = g
<1> DEFINE id == FoundIds(fs, rt[g], p)
           Good(k) == id[k] # Invalid => id[k] \in FileIds /\ fs[id[k]] # Absent /\ owner[id[k]] = g
           T == {k \in 0 .. Len(p) : ~Good(k)}
<1>1. Len(p) \in Nat
  OBVIOUS
<1>2. ListsTyped(fs) /\ rt[g] \in Ids
  BY TableTyped DEF Roots, Ids
<1>3. id[0] = rt[g]
  BY <1>2, FoundIdsStep
<1>4. \A k \in 1 .. Len(p) : id[k] # Invalid =>
          /\ id[k] \in FileIds /\ fs[id[k]] # Absent
          /\ id[k - 1] \in FileIds /\ Holds(fs, id[k - 1], id[k])
  BY <1>2, FoundHolds
<1> HIDE DEF id
<1>5. Good(0)
  <2>1. ASSUME rt[g] # Invalid PROVE rt[g] \in FileIds /\ fs[rt[g]] # Absent /\ owner[rt[g]] = g
    <3>1. rt[g] \in FileIds /\ fs[rt[g]].type = "directory"
      BY <2>1, <1>2 DEF Roots, Ids, IsDirectory
    <3> QED BY <2>1, <3>1, AbsentFields DEF Owners
  <2> QED BY <1>3, <2>1
<1>6. T = {}
  <2> SUFFICES ASSUME T # {} PROVE FALSE
    OBVIOUS
  <2>1. T \subseteq Nat
    BY <1>1
  <2>2. PICK m \in T : \A l \in T : m <= l
    BY <2>1, LeastNumber
  <2>3. m \in 0 .. Len(p) /\ ~Good(m) /\ m # 0
    BY <1>5
  <2>4. m - 1 \in 0 .. Len(p) /\ ~(m <= m - 1) /\ m \in 1 .. Len(p)
    BY <2>3, <1>1
  <2>5. Good(m - 1)
    BY <2>2, <2>4
  <2>6. id[m] # Invalid
    BY <2>3
  <2>7. /\ id[m] \in FileIds /\ fs[id[m]] # Absent
        /\ id[m - 1] \in FileIds /\ Holds(fs, id[m - 1], id[m])
    BY <1>4, <2>4, <2>6
  <2>8. owner[id[m]] = owner[id[m - 1]]
    BY <2>7 DEF Owners
  <2>9. id[m - 1] # Invalid
    BY <2>7 DEF FileIds, Invalid
  <2> QED BY <2>3, <2>5, <2>7, <2>8, <2>9
<1> QED BY <1>6 DEF id

-----------------------------------------------------------------------------
(* Adding files *)

\* The ids from nx to mx - 1 are given to files of group g, in the tables fs and ft before
\* and after.  An old directory may get one of them as an entry.
IsNew(i, nx, mx) == nx <= i /\ i < mx

NewGenerals(ft, nx, mx, node_) ==
    /\ \A i \in FileIds : IsNew(i, nx, mx) /\ ft[i].type = "general" =>
          /\ IsNew(ft[i].storage, nx, mx) /\ ft[ft[i].storage].type = "storage"
          /\ ft[ft[i].storage].uses = 1 /\ ft[ft[i].storage].node = node_
    /\ \A i, j \in FileIds :
          /\ IsNew(i, nx, mx) /\ IsNew(j, nx, mx)
          /\ ft[i].type = "general" /\ ft[j].type = "general" /\ ft[i].storage = ft[j].storage
          => i = j

Grown(fs, ft, nx, mx, at) ==
    /\ ft = [i \in FileIds |-> ft[i]]
    /\ \A i \in FileIds : ~IsNew(i, nx, mx) =>
          IF i = at THEN IsFile(ft[i]) /\ IsDirectory(ft, i) ELSE ft[i] = fs[i]
    /\ \A i \in FileIds : IsNew(i, nx, mx) => IsFile(ft[i]) /\ ft[i] # Absent
    /\ \A d \in FileIds : IsDirectory(ft, d) => Distinct(ft[d].list)
    /\ \A d, i \in FileIds : Holds(ft, d, i) =>
          \/ Holds(fs, d, i)
          \/ /\ IsNew(i, nx, mx) /\ ft[i].type \in {"directory", "general"}
             /\ d < i /\ (d = at \/ IsNew(d, nx, mx))
    /\ \A c, d, i \in FileIds : IsNew(i, nx, mx) /\ Holds(ft, c, i) /\ Holds(ft, d, i) => c = d

LEMMA GrownSound ==
    ASSUME NEW fs, NEW nx, Table(fs, nx), Trees(fs), Storages(fs), NEW rt, Roots(fs, rt),
           NEW nd \in [Groups -> Nodes], NEW owner, Owners(fs, rt, nd, owner),
           NEW ft, NEW mx \in 1 .. MaxFiles + 1, nx <= mx, NEW g \in Groups, rt[g] # Invalid,
           NEW at \in Ids, at # Invalid => IsDirectory(fs, at) /\ owner[at] = g,
           Grown(fs, ft, nx, mx, at), NewGenerals(ft, nx, mx, nd[g])
    PROVE  Sound(ft, mx, rt, nd)
<1> DEFINE New(i) == IsNew(i, nx, mx)
           own == [i \in FileIds |-> IF New(i) THEN g ELSE owner[i]]
<1>1. /\ FileIds \subseteq Nat /\ nx \in Nat /\ mx \in Nat /\ Invalid \notin FileIds
      /\ \A i \in FileIds : i \in Nat
  <2>1. nx \in 1 .. MaxFiles + 1
    BY DEF Table
  <2> QED BY <2>1, IdsAreNumbers
<1>2. \A i \in FileIds : New(i) => fs[i] = Absent
  BY <1>1 DEF Table, IsNew
<1>3. \A i \in FileIds : fs[i] # Absent => i < nx /\ ~New(i)
  BY <1>1 DEF Table, IsNew
<1>at. at # Invalid => at \in FileIds /\ ~New(at) /\ fs[at].type = "directory" /\ fs[at] # Absent
  BY <1>3, AbsentFields DEF Ids, IsDirectory
<1>4. \A i \in FileIds : ~New(i) => ft[i].type = fs[i].type
  BY <1>at, <1>1 DEF Grown, IsDirectory
<1>5. \A i \in FileIds : ~New(i) /\ ft[i].type # "directory" => ft[i] = fs[i]
  BY DEF Grown, IsDirectory
<1>6. \A d, i \in FileIds : Holds(fs, d, i) => ~New(i) /\ ~New(d)
  <2> SUFFICES ASSUME NEW d \in FileIds, NEW i \in FileIds, Holds(fs, d, i)
               PROVE  ~New(i) /\ ~New(d)
    OBVIOUS
  <2>1. fs[i].type \in {"directory", "general"} /\ fs[d].type = "directory"
    BY DEF Trees, Holds, IsDirectory
  <2>2. fs[i] # Absent /\ fs[d] # Absent
    BY <2>1, AbsentFields
  <2> QED BY <2>2, <1>3
<1> HIDE DEF New
<1>7. Table(ft, mx)
  <2>1. ft = [i \in FileIds |-> ft[i]]
    BY DEF Grown
  <2>2. ASSUME NEW i \in FileIds PROVE IsFile(ft[i]) /\ (ft[i] # Absent => i < mx)
    <3>1. CASE New(i)
      BY <3>1 DEF Grown, New, IsNew
    <3>2. CASE ~New(i)
      <4>1. CASE i = at
        <5>1. at # Invalid
          BY <4>1, <1>1
        <5>2. i < nx
          BY <4>1, <5>1, <1>at, <1>3
        <5>3. IsFile(ft[i])
          BY <3>2, <4>1 DEF Grown, New
        <5> QED BY <1>1, <5>2, <5>3
      <4>2. CASE i # at
        <5>1. ft[i] = fs[i]
          BY <3>2, <4>2 DEF Grown, New
        <5> QED BY <1>1, <5>1 DEF Table
      <4> QED BY <4>1, <4>2
    <3> QED BY <3>1, <3>2
  <2> QED BY <2>1, <2>2 DEF Table
<1>8. Trees(ft)
  <2>1. \A d \in FileIds : IsDirectory(ft, d) => Distinct(ft[d].list)
    BY DEF Grown
  <2>2. ASSUME NEW d \in FileIds, NEW i \in FileIds, Holds(ft, d, i)
        PROVE  d < i /\ ft[i].type \in {"directory", "general"}
    <3>1. CASE Holds(fs, d, i)
      <4>1. ~New(i) /\ d < i /\ fs[i].type \in {"directory", "general"}
        BY <3>1, <1>6 DEF Trees
      <4> QED BY <4>1, <1>4
    <3>2. CASE ~Holds(fs, d, i)
      BY <2>2, <3>2 DEF Grown
    <3> QED BY <3>1, <3>2
  <2>3. ASSUME NEW c \in FileIds, NEW d \in FileIds, NEW i \in FileIds, Holds(ft, c, i), Holds(ft, d, i)
        PROVE  c = d
    <3>1. CASE New(i)
      BY <2>3, <3>1 DEF Grown, New
    <3>2. CASE ~New(i)
      <4>1. Holds(fs, c, i) /\ Holds(fs, d, i)
        BY <2>3, <3>2 DEF Grown, New
      <4> QED BY <4>1 DEF Trees
    <3> QED BY <3>1, <3>2
  <2> QED BY <2>1, <2>2, <2>3 DEF Trees
<1>g. \A i \in FileIds : ft[i].type = "general" => ft[i].storage \in FileIds
  BY <1>7, FileKinds DEF Table
<1>9. ASSUME NEW i \in FileIds, ft[i].type = "general", ~New(i)
      PROVE  /\ fs[i].type = "general" /\ ft[i] = fs[i] /\ ~New(fs[i].storage)
             /\ fs[fs[i].storage].type = "storage" /\ ft[fs[i].storage] = fs[fs[i].storage]
  <2>1. fs[i].type = "general" /\ ft[i] = fs[i]
    BY <1>9, <1>5
  <2>2. fs[i].storage \in FileIds /\ fs[fs[i].storage].type = "storage"
    BY <2>1, <1>g DEF Storages
  <2>3. fs[fs[i].storage] # Absent
    BY <2>2, AbsentFields
  <2>4. ~New(fs[i].storage)
    BY <2>2, <2>3, <1>3 DEF New
  <2>5. fs[i].storage # at
    BY <2>2, <1>at, <1>1
  <2>6. ft[fs[i].storage] = fs[fs[i].storage]
    BY <2>2, <2>4, <2>5 DEF Grown, New
  <2> QED BY <2>1, <2>2, <2>4, <2>6
<1>10. Storages(ft)
  <2>1. ASSUME NEW i \in FileIds, ft[i].type = "general"
        PROVE  ft[ft[i].storage].type = "storage" /\ ft[ft[i].storage].uses = 1
    <3>1. CASE New(i)
      BY <2>1, <3>1 DEF NewGenerals, New
    <3>2. CASE ~New(i)
      BY <2>1, <3>2, <1>9 DEF Storages
    <3> QED BY <3>1, <3>2
  <2>2. ASSUME NEW i \in FileIds, NEW j \in FileIds, ft[i].type = "general",
               ft[j].type = "general", ft[i].storage = ft[j].storage
        PROVE  i = j
    <3>1. \A k \in FileIds : ft[k].type = "general" => (New(k) <=> New(ft[k].storage))
      <4> SUFFICES ASSUME NEW k \in FileIds, ft[k].type = "general"
                   PROVE  New(k) <=> New(ft[k].storage)
        OBVIOUS
      <4>1. New(k) => New(ft[k].storage)
        BY DEF NewGenerals, New
      <4>2. ~New(k) => ~New(ft[k].storage)
        BY <1>9
      <4> QED BY <4>1, <4>2
    <3>2. New(i) <=> New(j)
      BY <2>2, <3>1
    <3>3. CASE New(i)
      BY <2>2, <3>2, <3>3 DEF NewGenerals, New
    <3>4. CASE ~New(i)
      <4>1. /\ fs[i].type = "general" /\ ft[i] = fs[i]
            /\ fs[j].type = "general" /\ ft[j] = fs[j]
        BY <2>2, <3>2, <3>4, <1>9
      <4> QED BY <2>2, <4>1 DEF Storages
    <3> QED BY <3>3, <3>4
  <2> QED BY <2>1, <2>2 DEF Storages
<1>11. Roots(ft, rt)
  <2>1. rt \in [Groups -> FileIds \cup {Invalid}]
    BY DEF Roots
  <2>2. ASSUME NEW h \in Groups, rt[h] # Invalid
        PROVE  IsDirectory(ft, rt[h]) /\ \A d \in FileIds : ~Holds(ft, d, rt[h])
    <3>1. rt[h] \in FileIds /\ fs[rt[h]].type = "directory" /\ \A d \in FileIds : ~Holds(fs, d, rt[h])
      BY <2>2 DEF Roots, IsDirectory
    <3>2. ~New(rt[h])
      BY <3>1, <1>3, AbsentFields DEF New
    <3>3. IsDirectory(ft, rt[h])
      BY <3>1, <3>2, <1>4 DEF IsDirectory
    <3>4. \A d \in FileIds : ~Holds(ft, d, rt[h])
      BY <3>1, <3>2 DEF Grown, New
    <3> QED BY <3>3, <3>4
  <2> QED BY <2>1, <2>2 DEF Roots
<1>12. Owners(ft, rt, nd, own)
  <2>0. \A i \in FileIds : own[i] = IF New(i) THEN g ELSE owner[i]
    OBVIOUS
  <2>1. own \in [FileIds -> Groups]
    BY DEF Owners
  <2> HIDE DEF own
  <2>2. ASSUME NEW h \in Groups, rt[h] # Invalid PROVE own[rt[h]] = h
    <3>1. rt[h] \in FileIds /\ fs[rt[h]].type = "directory"
      BY <2>2 DEF Roots, IsDirectory
    <3>2. ~New(rt[h])
      BY <3>1, <1>3, AbsentFields DEF New
    <3> QED BY <2>0, <2>2, <3>1, <3>2 DEF Owners
  <2>3. ASSUME NEW i \in FileIds, ft[i] # Absent PROVE rt[own[i]] # Invalid
    <3>1. CASE New(i)
      BY <2>0, <3>1
    <3>2. CASE ~New(i)
      <4>1. ft[i].type # "absent"
        BY <2>3, <1>7, FileKinds DEF Table
      <4>2. fs[i] # Absent
        BY <4>1, <3>2, <1>4, AbsentFields
      <4> QED BY <2>0, <3>2, <4>2 DEF Owners
    <3> QED BY <3>1, <3>2
  <2>4. ASSUME NEW d \in FileIds, NEW i \in FileIds, Holds(ft, d, i) PROVE own[i] = own[d]
    <3>1. CASE Holds(fs, d, i)
      BY <2>0, <3>1, <1>6 DEF Owners, New
    <3>2. CASE ~Holds(fs, d, i)
      <4>1. New(i) /\ (d = at \/ New(d))
        BY <2>4, <3>2 DEF Grown, New
      <4>2. d = at => d # Invalid
        BY <1>1
      <4> QED BY <2>0, <4>1, <4>2, <1>at
    <3> QED BY <3>1, <3>2
  <2>5. ASSUME NEW i \in FileIds, ft[i].type = "general"
        PROVE  ft[ft[i].storage].node = nd[own[i]]
    <3>1. CASE New(i)
      BY <2>0, <2>5, <3>1 DEF NewGenerals, New
    <3>2. CASE ~New(i)
      BY <2>0, <2>5, <3>2, <1>9 DEF Owners
    <3> QED BY <3>1, <3>2
  <2> QED BY <2>1, <2>2, <2>3, <2>4, <2>5 DEF Owners
<1>13. own \in [FileIds -> Groups]
  BY DEF Owners
<1> HIDE DEF own
<1> QED BY <1>7, <1>8, <1>10, <1>11, <1>12, <1>13 DEF Sound

\* w holds what list does, and x.
IsWith(w, list, x) ==
    /\ \A y : (\E k \in DOMAIN w : w[k] = y) <=> y = x \/ \E k \in DOMAIN list : list[k] = y
    /\ Distinct(list) /\ (\A k \in DOMAIN list : list[k] # x) => Distinct(w)

LEMMA AppendedIs ==
    ASSUME NEW S, NEW list \in Seq(S), NEW x \in S
    PROVE  Append(list, x) \in Seq(S) /\ IsWith(Append(list, x), list, x)
<1> DEFINE w == Append(list, x)
           n == Len(list)
<1>1. /\ n \in Nat /\ DOMAIN list = 1 .. n /\ DOMAIN w = 1 .. n + 1
      /\ w[n + 1] = x /\ (\A i \in 1 .. n : w[i] = list[i]) /\ w \in Seq(S)
  OBVIOUS
<1> HIDE DEF w, n
<1>2. \A i \in 1 .. n + 1 : i = n + 1 \/ i \in 1 .. n
  BY <1>1
<1>3. n + 1 \in 1 .. n + 1 /\ \A i \in 1 .. n : i \in 1 .. n + 1
  BY <1>1
<1>4. \A y : (\E k \in DOMAIN w : w[k] = y) <=> y = x \/ \E k \in DOMAIN list : list[k] = y
  BY <1>1, <1>2, <1>3
<1>5. Distinct(list) /\ (\A k \in DOMAIN list : list[k] # x) => Distinct(w)
  BY <1>1, <1>2, <1>3 DEF Distinct
<1> QED BY <1>1, <1>4, <1>5 DEF w, IsWith

LEMMA DirectoryGrows ==
    ASSUME NEW name, NEW list, NEW x, x = Directory(name, list), NEW more
    PROVE  [x EXCEPT !.list = more] = Directory(name, more)
BY DEF Directory

\* x is the directory d of fs with one more entry.
HasEntry(x, fs, d, e) ==
    /\ IsFile(x) /\ x.type = "directory" /\ x.name = fs[d].name /\ Distinct(x.list)
    /\ \A i : (\E k \in DOMAIN x.list : x.list[k] = i) <=> i = e \/ Holds(fs, d, i)

LEMMA EntryAdded ==
    ASSUME NEW fs, NEW nx, Table(fs, nx), Trees(fs), NEW d \in FileIds, IsDirectory(fs, d),
           NEW e \in FileIds, e >= nx
    PROVE  HasEntry([fs[d] EXCEPT !.list = Append(@, e)], fs, d, e)
<1> DEFINE list == fs[d].list
           name == fs[d].name
<1>1. fs[d] = Directory(name, list) /\ list \in Seq(FileIds)
  BY FileKinds DEF Table, IsDirectory
<1>2. [fs[d] EXCEPT !.list = Append(@, e)] = Directory(name, Append(list, e))
  <2> DEFINE more == Append(list, e)
  <2>1. [fs[d] EXCEPT !.list = Append(@, e)] = [fs[d] EXCEPT !.list = more]
    OBVIOUS
  <2> HIDE DEF list, name, more
  <2>2. [fs[d] EXCEPT !.list = more] = Directory(name, more)
    BY <1>1, DirectoryGrows
  <2> QED BY <2>1, <2>2 DEF more
<1> HIDE DEF list, name
<1>3. Append(list, e) \in Seq(FileIds)
  BY <1>1, AppendedIs
<1>4. \A k \in DOMAIN list : list[k] # e
  <2> SUFFICES ASSUME NEW k \in DOMAIN list, list[k] = e PROVE FALSE
    OBVIOUS
  <2>1. Holds(fs, d, e)
    BY DEF Holds, list
  <2>2. fs[e].type \in {"directory", "general"}
    BY <2>1 DEF Trees
  <2>3. fs[e] # Absent
    BY <2>2, AbsentFields
  <2>4. e < nx /\ nx \in Nat /\ e \in Nat
    BY <2>3, IdsAreNumbers DEF Table
  <2> QED BY <2>4
<1>5. Distinct(list)
  BY DEF Trees, list
<1>6. \A i : Holds(fs, d, i) <=> \E k \in DOMAIN list : list[k] = i
  BY DEF Holds, list
<1>7. LET x == Directory(name, Append(list, e))
      IN  IsFile(x) /\ x.type = "directory" /\ x.list = Append(list, e) /\ x.name = name
  BY <1>3, DirectoryFields
<1>8. IsWith(Append(list, e), list, e)
  BY <1>1, AppendedIs
<1> DEFINE more == Append(list, e)
           x == Directory(name, more)
<1> HIDE DEF more
<1>9. IsFile(x) /\ x.type = "directory" /\ x.list = more /\ x.name = name
  BY <1>7 DEF more
<1>10. /\ Distinct(more)
       /\ \A i : (\E k \in DOMAIN more : more[k] = i) <=> i = e \/ \E k \in DOMAIN list : list[k] = i
  BY <1>4, <1>5, <1>8 DEF more, IsWith
<1> HIDE DEF x
<1>11. HasEntry(x, fs, d, e)
  BY <1>6, <1>9, <1>10 DEF HasEntry, name
<1> QED BY <1>2, <1>11 DEF x, more

\* What PutFile makes of the table.
AfterPut(fs, nx, name, node_, dir) ==
    LET both == [fs EXCEPT ![nx] = StorageFile(name, node_, 1),
                           ![nx + 1] = GeneralFile(name, nx)]
    IN  IF IsDirectory(fs, dir)
        THEN [both EXCEPT ![dir].list = Append(@, nx + 1)] ELSE both

\* A put adds two files, and an entry for the second if dir is a directory.
IsPut(fs, ft, nx, name, node_, dir, x) ==
    /\ \A i \in FileIds :
           ft[i] = IF i = nx THEN StorageFile(name, node_, 1)
                   ELSE IF i = nx + 1 THEN GeneralFile(name, nx)
                   ELSE IF i = dir /\ IsDirectory(fs, dir) THEN x ELSE fs[i]
    /\ IsDirectory(fs, dir) => HasEntry(x, fs, dir, nx + 1)

LEMMA PutIs ==
    ASSUME NEW fs, NEW nx, Table(fs, nx), Trees(fs), NEW node_,
           NEW dir \in FileIds, fs[dir] # Absent, nx + 1 \in FileIds, NEW name, NEW ft,
           ft = AfterPut(fs, nx, name, node_, dir)
    PROVE  IsPut(fs, ft, nx, name, node_, dir, [fs[dir] EXCEPT !.list = Append(@, nx + 1)])
<1> DEFINE x == [fs[dir] EXCEPT !.list = Append(@, nx + 1)]
<1>1. /\ nx \in Nat /\ nx \in FileIds /\ nx + 1 \in FileIds /\ nx # nx + 1
      /\ \A i \in FileIds : i \in Nat
  <2>1. nx \in 1 .. MaxFiles + 1
    BY DEF Table
  <2>2. nx + 1 \in 1 .. MaxFiles
    BY DEF FileIds
  <2>3. nx \in 1 .. MaxFiles
    BY <2>1, <2>2, IdsAreNumbers
  <2> QED BY <2>1, <2>2, <2>3, IdsAreNumbers DEF FileIds
<1>2. dir # nx /\ dir # nx + 1
  <2>1. dir < nx
    BY DEF Table
  <2> QED BY <1>1, <2>1
<1>3. fs = [i \in FileIds |-> fs[i]]
  BY DEF Table
<1>4. ASSUME IsDirectory(fs, dir) PROVE HasEntry(x, fs, dir, nx + 1)
  <2>1. nx + 1 >= nx
    BY <1>1
  <2> QED BY <1>1, <1>4, <2>1, EntryAdded
<1>5. CASE ~IsDirectory(fs, dir)
  <2>1. ft = [fs EXCEPT ![nx] = StorageFile(name, node_, 1),
                        ![nx + 1] = GeneralFile(name, nx)]
    BY <1>5 DEF AfterPut
  <2> HIDE DEF x
  <2>2. \A i \in FileIds : ft[i] = IF i = nx THEN StorageFile(name, node_, 1)
                                   ELSE IF i = nx + 1 THEN GeneralFile(name, nx)
                                   ELSE fs[i]
    BY <1>1, <1>3, <2>1
  <2>3. IsPut(fs, ft, nx, name, node_, dir, x)
    BY <1>5, <2>2 DEF IsPut
  <2> QED BY <2>3 DEF x
<1>6. CASE IsDirectory(fs, dir)
  <2> DEFINE both == [fs EXCEPT ![nx] = StorageFile(name, node_, 1),
                                ![nx + 1] = GeneralFile(name, nx)]
  <2>1. ft = [both EXCEPT ![dir].list = Append(@, nx + 1)]
    BY <1>6 DEF AfterPut
  <2>2. /\ both = [i \in FileIds |-> both[i]]
        /\ both[nx] = StorageFile(name, node_, 1) /\ both[nx + 1] = GeneralFile(name, nx)
        /\ \A i \in FileIds : i # nx /\ i # nx + 1 => both[i] = fs[i]
    BY <1>1, <1>3
  <2> HIDE DEF both
  <2>3. ft[dir] = x /\ \A i \in FileIds : i # dir => ft[i] = both[i]
    BY <1>2, <2>1, <2>2
  <2> HIDE DEF x
  <2>4. \A i \in FileIds : ft[i] = IF i = nx THEN StorageFile(name, node_, 1)
                                   ELSE IF i = nx + 1 THEN GeneralFile(name, nx)
                                   ELSE IF i = dir /\ IsDirectory(fs, dir) THEN x ELSE fs[i]
    <3> SUFFICES ASSUME NEW i \in FileIds
                 PROVE  ft[i] = IF i = nx THEN StorageFile(name, node_, 1)
                                ELSE IF i = nx + 1 THEN GeneralFile(name, nx)
                                ELSE IF i = dir /\ IsDirectory(fs, dir) THEN x ELSE fs[i]
      OBVIOUS
    <3>1. CASE i = dir
      BY <1>2, <1>6, <2>3, <3>1, Zenon
    <3>2. CASE i # dir
      BY <2>2, <2>3, <3>2, Zenon
    <3> QED BY <3>1, <3>2
  <2>5. IsPut(fs, ft, nx, name, node_, dir, x)
    BY <1>4, <2>4 DEF IsPut
  <2> QED BY <2>5 DEF x
<1> QED BY <1>5, <1>6

LEMMA PutSound ==
    ASSUME NEW fs, NEW nx, Table(fs, nx), Trees(fs), Storages(fs), NEW rt, Roots(fs, rt),
           NEW nd \in [Groups -> Nodes], NEW owner, Owners(fs, rt, nd, owner),
           NEW g \in Groups, rt[g] # Invalid, NEW dir \in FileIds, fs[dir] # Absent, owner[dir] = g,
           nx + 1 \in FileIds, NEW name, NEW ft,
           ft = AfterPut(fs, nx, name, nd[g], dir)
    PROVE  Sound(ft, nx + 2, rt, nd)
<1> DEFINE mx == nx + 2
           at == IF IsDirectory(fs, dir) THEN dir ELSE Invalid
           x == [fs[dir] EXCEPT !.list = Append(@, nx + 1)]
           New(i) == IsNew(i, nx, mx)
<1>1. /\ nx \in Nat /\ nx >= 1 /\ mx \in 1 .. MaxFiles + 1 /\ nx <= mx
      /\ nx \in FileIds /\ nx + 1 \in FileIds /\ nx # nx + 1
      /\ \A i \in FileIds : i \in Nat
  <2>1. nx \in 1 .. MaxFiles + 1
    BY DEF Table
  <2>2. nx + 1 \in 1 .. MaxFiles
    BY DEF FileIds
  <2>3. nx \in 1 .. MaxFiles
    BY <2>1, <2>2, IdsAreNumbers
  <2> QED BY <2>1, <2>2, <2>3, IdsAreNumbers DEF FileIds
<1>2. \A i \in FileIds : New(i) <=> i = nx \/ i = nx + 1
  BY <1>1 DEF IsNew
<1>3. dir < nx /\ ~New(dir)
  <2>1. dir < nx
    BY DEF Table
  <2> QED BY <1>1, <1>2, <2>1
<1>4. /\ \A i \in FileIds : ft[i] = IF i = nx THEN StorageFile(name, nd[g], 1)
                                    ELSE IF i = nx + 1 THEN GeneralFile(name, nx)
                                    ELSE IF i = at THEN x ELSE fs[i]
      /\ IsDirectory(fs, dir) => HasEntry(x, fs, dir, nx + 1)
  <2>1. IsPut(fs, ft, nx, name, nd[g], dir, x)
    BY PutIs
  <2>2. \A i \in FileIds : i = at <=> i = dir /\ IsDirectory(fs, dir)
    BY IdsAreNumbers
  <2> HIDE DEF x, at
  <2> QED BY <2>1, <2>2 DEF IsPut
<1>5. ft = [i \in FileIds |-> ft[i]]
  <2>1. fs = [i \in FileIds |-> fs[i]]
    BY DEF Table
  <2> QED BY <2>1 DEF AfterPut
<1>6. at \in Ids /\ (at # Invalid => at = dir /\ IsDirectory(fs, at) /\ owner[at] = g)
  BY DEF Ids
<1>x. at # Invalid =>
          /\ IsFile(x) /\ x.type = "directory" /\ Distinct(x.list)
          /\ \A i : (\E k \in DOMAIN x.list : x.list[k] = i) <=> i = nx + 1 \/ Holds(fs, dir, i)
  <2> HIDE DEF x, at
  <2> QED BY <1>4, <1>6 DEF HasEntry
<1> HIDE DEF x, at, mx
<1>7. LET s == StorageFile(name, nd[g], 1)
      IN  IsFile(s) /\ s # Absent /\ s.type = "storage" /\ s.uses = 1 /\ s.node = nd[g]
  BY StorageFields
<1>8. LET s == GeneralFile(name, nx)
      IN  IsFile(s) /\ s # Absent /\ s.type = "general" /\ s.storage = nx
  BY <1>1, GeneralFields
<1>9. /\ IsFile(ft[nx]) /\ ft[nx] # Absent /\ ft[nx].type = "storage" /\ ft[nx].uses = 1
      /\ ft[nx].node = nd[g]
      /\ IsFile(ft[nx + 1]) /\ ft[nx + 1] # Absent /\ ft[nx + 1].type = "general"
      /\ ft[nx + 1].storage = nx
  BY <1>1, <1>4, <1>7, <1>8
<1>10. \A i \in FileIds : ~New(i) => ft[i] = IF i = at THEN x ELSE fs[i]
  BY <1>2, <1>4
<1>11. ASSUME NEW d \in FileIds, IsDirectory(ft, d)
       PROVE  /\ IsDirectory(fs, d) /\ ~New(d) /\ Distinct(ft[d].list)
              /\ \A i : Holds(ft, d, i) <=> Holds(fs, d, i) \/ (d = at /\ i = nx + 1)
  <2>1. ~New(d)
    BY <1>2, <1>9, <1>11 DEF IsDirectory
  <2>2. CASE d = at
    <3>1. at # Invalid /\ d = dir /\ ft[d] = x
      BY <2>1, <2>2, <1>6, <1>10, IdsAreNumbers
    <3>2. \A i : Holds(ft, d, i) <=> \E k \in DOMAIN x.list : x.list[k] = i
      BY <3>1, <1>11 DEF Holds
    <3>3. \A i : (\E k \in DOMAIN x.list : x.list[k] = i) <=> i = nx + 1 \/ Holds(fs, dir, i)
      BY <3>1, <1>x
    <3>4. Distinct(x.list) /\ IsDirectory(fs, d)
      BY <3>1, <1>x, <1>6, <2>2
    <3> QED BY <2>1, <2>2, <3>1, <3>2, <3>3, <3>4
  <2>3. CASE d # at
    <3>1. ft[d] = fs[d]
      BY <2>1, <2>3, <1>10
    <3>2. IsDirectory(fs, d) /\ Distinct(fs[d].list)
      BY <3>1, <1>11 DEF IsDirectory, Trees
    <3>3. \A i : Holds(ft, d, i) <=> Holds(fs, d, i)
      BY <3>1 DEF Holds, IsDirectory
    <3> QED BY <2>1, <2>3, <3>1, <3>2, <3>3
  <2> QED BY <2>2, <2>3
<1>12. Grown(fs, ft, nx, mx, at)
  <2>1. ASSUME NEW i \in FileIds, ~New(i)
        PROVE  IF i = at THEN IsFile(ft[i]) /\ IsDirectory(ft, i) ELSE ft[i] = fs[i]
    BY <2>1, <1>x, <1>10, IdsAreNumbers DEF IsDirectory
  <2>2. \A i \in FileIds : New(i) => IsFile(ft[i]) /\ ft[i] # Absent
    BY <1>2, <1>9
  <2>3. ASSUME NEW d \in FileIds, NEW i \in FileIds, Holds(ft, d, i)
        PROVE  \/ Holds(fs, d, i)
               \/ /\ New(i) /\ ft[i].type \in {"directory", "general"}
                  /\ d < i /\ (d = at \/ New(d))
    <3>1. IsDirectory(ft, d)
      BY <2>3 DEF Holds
    <3>2. CASE Holds(fs, d, i)
      BY <3>2
    <3>3. CASE ~Holds(fs, d, i)
      <4>1. d = at /\ i = nx + 1
        BY <2>3, <3>1, <3>3, <1>11
      <4>2. d = dir
        BY <4>1, <1>6, IdsAreNumbers
      <4>3. d < nx + 1
        BY <4>2, <1>1, <1>3
      <4> QED BY <4>1, <4>3, <1>2, <1>9
    <3> QED BY <3>2, <3>3
  <2>4. ASSUME NEW c \in FileIds, NEW d \in FileIds, NEW i \in FileIds, New(i),
               Holds(ft, c, i), Holds(ft, d, i)
        PROVE  c = d
    <3>1. fs[i] = Absent
      BY <2>4, <1>1, <1>2 DEF Table
    <3>2. \A e \in FileIds : ~Holds(fs, e, i)
      BY <3>1, AbsentFields DEF Trees
    <3>3. IsDirectory(ft, c) /\ IsDirectory(ft, d)
      BY <2>4 DEF Holds
    <3> QED BY <2>4, <3>2, <3>3, <1>11
  <2> QED BY <1>5, <1>11, <2>1, <2>2, <2>3, <2>4 DEF Grown
<1>13. NewGenerals(ft, nx, mx, nd[g])
  <2>1. \A i \in FileIds : New(i) /\ ft[i].type = "general" => i = nx + 1
    BY <1>2, <1>9
  <2> QED BY <2>1, <1>1, <1>2, <1>9 DEF NewGenerals
<1>14. mx \in 1 .. MaxFiles + 1 /\ nx <= mx
  BY <1>1
<1>15. Sound(ft, mx, rt, nd)
  BY <1>6, <1>12, <1>13, <1>14, GrownSound
<1> QED BY <1>15 DEF mx

\* What CreatePath makes of the table, where the first n components of p exist.
AfterCreate(fs, nx, p, n, parent) ==
    LET new == nx .. nx + Len(p) - n - 1
    IN  [i \in FileIds |->
            CASE i \in new -> Directory(p[n + 1 + i - nx], IF i + 1 \in new THEN <<i + 1>> ELSE <<>>)
              [] i = parent -> [fs[i] EXCEPT !.list = Append(@, nx)]
              [] OTHER -> fs[i]]

\* A new directory, with the next one as its only entry.
IsLink(x, name, i, more) ==
    /\ IsFile(x) /\ x # Absent /\ x.type = "directory" /\ x.name = name
    /\ Distinct(x.list)
    /\ \A e : (\E k \in DOMAIN x.list : x.list[k] = e) <=> more /\ e = i + 1

LEMMA ChainLink ==
    ASSUME NEW name, NEW i, NEW more \in BOOLEAN, more => i + 1 \in FileIds
    PROVE  IsLink(Directory(name, IF more THEN <<i + 1>> ELSE <<>>), name, i, more)
<1> DEFINE list == IF more THEN <<i + 1>> ELSE <<>>
           x == Directory(name, list)
<1>1. list \in Seq(FileIds) /\ Distinct(list)
  BY DEF Distinct
<1>2. \A e : (\E k \in DOMAIN list : list[k] = e) <=> more /\ e = i + 1
  <2>1. DOMAIN list = (IF more THEN {1} ELSE {}) /\ (more => list[1] = i + 1)
    OBVIOUS
  <2> HIDE DEF list
  <2> QED BY <2>1
<1> HIDE DEF list
<1>3. IsFile(x) /\ x # Absent /\ x.type = "directory" /\ x.name = name /\ x.list = list
  BY <1>1, DirectoryFields
<1> HIDE DEF x
<1>4. IsLink(x, name, i, more)
  BY <1>1, <1>2, <1>3 DEF IsLink
<1> QED BY <1>4 DEF x, list

\* A chain of new directories, the first of them an entry of parent.
IsCreated(fs, ft, nx, p, n, parent, x) ==
    LET New(i) == IsNew(i, nx, nx + Len(p) - n)
    IN  /\ ft = [i \in FileIds |-> ft[i]]
        /\ HasEntry(x, fs, parent, nx)
        /\ \A i \in FileIds : IF New(i) THEN IsLink(ft[i], p[n + 1 + i - nx], i, New(i + 1))
                              ELSE ft[i] = IF i = parent THEN x ELSE fs[i]

LEMMA CreateIs ==
    ASSUME NEW fs, NEW nx, Table(fs, nx), Trees(fs), NEW parent \in FileIds,
           IsDirectory(fs, parent), NEW p, Len(p) \in Nat, NEW n \in Nat, n < Len(p),
           nx .. nx + Len(p) - n - 1 \subseteq FileIds,
           NEW ft, ft = AfterCreate(fs, nx, p, n, parent)
    PROVE  /\ nx \in Nat /\ nx \in FileIds /\ nx < nx + Len(p) - n
           /\ nx + Len(p) - n \in 1 .. MaxFiles + 1
           /\ parent < nx
           /\ IsCreated(fs, ft, nx, p, n, parent, [fs[parent] EXCEPT !.list = Append(@, nx)])
<1> DEFINE mx == nx + Len(p) - n
           x == [fs[parent] EXCEPT !.list = Append(@, nx)]
           new == nx .. nx + Len(p) - n - 1
           link(i) == Directory(p[n + 1 + i - nx], IF i + 1 \in new THEN <<i + 1>> ELSE <<>>)
           New(i) == IsNew(i, nx, mx)
<1>1. /\ nx \in Nat /\ nx >= 1 /\ mx \in 1 .. MaxFiles + 1 /\ nx < mx
      /\ nx \in FileIds /\ MaxFiles \in Nat
  <2>1. nx \in 1 .. MaxFiles + 1 /\ MaxFiles \in Nat
    BY IdsAreNumbers DEF Table
  <2>2. nx \in nx .. nx + Len(p) - n - 1 /\ nx + Len(p) - n - 1 \in nx .. nx + Len(p) - n - 1
    BY <2>1
  <2>3. nx \in FileIds /\ nx + Len(p) - n - 1 \in FileIds
    BY <2>2
  <2>4. nx + Len(p) - n - 1 \in 1 .. MaxFiles
    BY <2>3 DEF FileIds
  <2> QED BY <2>1, <2>3, <2>4
<1>2. \A i \in Nat : i \in new <=> New(i)
  BY <1>1 DEF IsNew
<1>3. parent < nx /\ ~New(parent) /\ parent \in Nat
  <2>1. fs[parent] # Absent
    BY AbsentFields DEF IsDirectory
  <2>2. parent < nx /\ parent \in Nat
    BY <2>1, IdsAreNumbers DEF Table
  <2> QED BY <2>2, <1>1 DEF IsNew
<1>4. /\ ft = [i \in FileIds |-> ft[i]]
      /\ \A i \in FileIds : ft[i] = IF i \in new THEN link(i) ELSE IF i = parent THEN x ELSE fs[i]
  <2> DEFINE value(i) == CASE i \in new -> link(i)
                           [] i = parent -> [fs[i] EXCEPT !.list = Append(@, nx)]
                           [] OTHER -> fs[i]
  <2>1. ft = [i \in FileIds |-> value(i)]
    BY Zenon DEF AfterCreate
  <2> HIDE DEF mx
  <2>2. parent \notin new
    BY <1>2, <1>3
  <2> HIDE DEF link, new
  <2>3. \A i \in new : value(i) = link(i)
    BY <2>2
  <2>4. value(parent) = x
    BY <2>2, Zenon
  <2>5. \A i : i \notin new /\ i # parent => value(i) = fs[i]
    BY Zenon
  <2> HIDE DEF value, x
  <2>6. ft = [i \in FileIds |-> ft[i]] /\ \A i \in FileIds : ft[i] = value(i)
    BY <2>1
  <2> QED BY <2>2, <2>3, <2>4, <2>5, <2>6
<1>5. HasEntry(x, fs, parent, nx)
  <2>1. nx >= nx
    BY <1>1
  <2> QED BY <1>1, <2>1, EntryAdded
<1>6. ASSUME NEW i \in FileIds, New(i)
      PROVE  IsLink(ft[i], p[n + 1 + i - nx], i, New(i + 1))
  <2>1. i \in Nat /\ i + 1 \in Nat
    BY IdsAreNumbers
  <2>2. i + 1 \in new <=> New(i + 1)
    BY <2>1, <1>2
  <2>3. ft[i] = link(i)
    BY <2>1, <1>2, <1>4, <1>6
  <2>4. link(i) = Directory(p[n + 1 + i - nx], IF New(i + 1) THEN <<i + 1>> ELSE <<>>)
    BY <2>2
  <2>5. New(i + 1) => i + 1 \in FileIds
    BY <2>1, <2>2
  <2>6. New(i + 1) \in BOOLEAN
    BY DEF IsNew
  <2> HIDE DEF link, New
  <2>7. IsLink(link(i), p[n + 1 + i - nx], i, New(i + 1))
    BY <2>4, <2>5, <2>6, ChainLink
  <2> QED BY <2>3, <2>7
<1>7. ASSUME NEW i \in FileIds, ~New(i) PROVE ft[i] = IF i = parent THEN x ELSE fs[i]
  <2> HIDE DEF link, x
  <2>1. i \notin new
    BY <1>2, <1>7, IdsAreNumbers
  <2> QED BY <1>4, <2>1
<1> HIDE DEF x, link, new
<1>8. IsCreated(fs, ft, nx, p, n, parent, x)
  BY <1>4, <1>5, <1>6, <1>7, Zenon DEF IsCreated, New, mx
<1> QED BY <1>1, <1>3, <1>8 DEF x, mx

LEMMA CreateSound ==
    ASSUME NEW fs, NEW nx, Table(fs, nx), Trees(fs), Storages(fs), NEW rt, Roots(fs, rt),
           NEW nd \in [Groups -> Nodes], NEW owner, Owners(fs, rt, nd, owner),
           NEW g \in Groups, rt[g] # Invalid, NEW parent \in FileIds,
           IsDirectory(fs, parent), owner[parent] = g,
           NEW p, Len(p) \in Nat, NEW n \in Nat, n < Len(p),
           nx .. nx + Len(p) - n - 1 \subseteq FileIds,
           NEW ft, ft = AfterCreate(fs, nx, p, n, parent)
    PROVE  Sound(ft, nx + Len(p) - n, rt, nd)
<1> DEFINE mx == nx + Len(p) - n
           x == [fs[parent] EXCEPT !.list = Append(@, nx)]
           New(i) == IsNew(i, nx, mx)
<1>1. /\ nx \in Nat /\ nx \in FileIds /\ nx < mx /\ mx \in 1 .. MaxFiles + 1 /\ parent < nx
      /\ IsCreated(fs, ft, nx, p, n, parent, x)
  BY CreateIs, Zenon
<1>2. parent < nx /\ ~New(parent) /\ parent \in Nat
  BY <1>1, IdsAreNumbers DEF IsNew
<1>3. ft = [i \in FileIds |-> ft[i]]
  BY <1>1, Zenon DEF IsCreated
<1>4. HasEntry(x, fs, parent, nx)
  BY <1>1, Zenon DEF IsCreated
<1> HIDE DEF x
<1>5. ASSUME NEW i \in FileIds, New(i)
      PROVE  /\ IsFile(ft[i]) /\ ft[i] # Absent /\ ft[i].type = "directory"
             /\ Distinct(ft[i].list)
             /\ \A e : Holds(ft, i, e) <=> New(i + 1) /\ e = i + 1
  <2>1. PICK more : more = New(i + 1)
    OBVIOUS
  <2>2. IsLink(ft[i], p[n + 1 + i - nx], i, more)
    BY <1>1, <1>5, <2>1, Zenon DEF IsCreated
  <2> HIDE DEF New
  <2> QED BY <2>1, <2>2 DEF IsLink, Holds, IsDirectory
<1>6. \A i \in FileIds : ~New(i) => ft[i] = IF i = parent THEN x ELSE fs[i]
  BY <1>1, Zenon DEF IsCreated
<1>7. ASSUME NEW d \in FileIds, IsDirectory(ft, d), ~New(d)
      PROVE  /\ Distinct(ft[d].list)
             /\ \A i : Holds(ft, d, i) <=> Holds(fs, d, i) \/ (d = parent /\ i = nx)
  <2>1. CASE d = parent
    <3>1. ft[d] = x
      BY <1>6, <1>7, <2>1
    <3> QED BY <1>4, <1>7, <2>1, <3>1 DEF HasEntry, Holds
  <2>2. CASE d # parent
    <3>1. ft[d] = fs[d]
      BY <1>6, <1>7, <2>2
    <3>2. IsDirectory(fs, d) /\ Distinct(fs[d].list)
      BY <3>1, <1>7 DEF IsDirectory, Trees
    <3>3. \A i : Holds(ft, d, i) <=> Holds(fs, d, i)
      BY <3>1 DEF Holds, IsDirectory
    <3> QED BY <2>2, <3>1, <3>2, <3>3
  <2> QED BY <2>1, <2>2
<1>8. \A d, i \in FileIds : Holds(fs, d, i) => ~New(i)
  <2> SUFFICES ASSUME NEW d \in FileIds, NEW i \in FileIds, Holds(fs, d, i) PROVE ~New(i)
    OBVIOUS
  <2>1. fs[i] # Absent
    BY AbsentFields DEF Trees
  <2>2. i < nx /\ i \in Nat
    BY <2>1, IdsAreNumbers DEF Table
  <2> QED BY <2>2, <1>1 DEF IsNew
<1>9. New(nx) /\ parent < nx /\ \A i \in FileIds : i < i + 1
  BY <1>1, <1>2, IdsAreNumbers DEF IsNew
<1>10. \A i \in FileIds : New(i + 1) /\ i + 1 = nx => ~New(i)
  BY <1>1, IdsAreNumbers DEF IsNew
<1> HIDE DEF New, mx
<1>11. Grown(fs, ft, nx, mx, parent)
  <2>1. ASSUME NEW i \in FileIds, ~New(i)
        PROVE  IF i = parent THEN IsFile(ft[i]) /\ IsDirectory(ft, i) ELSE ft[i] = fs[i]
    BY <2>1, <1>4, <1>6 DEF IsDirectory, HasEntry
  <2>2. \A i \in FileIds : New(i) => IsFile(ft[i]) /\ ft[i] # Absent
    BY <1>5
  <2>3. \A d \in FileIds : IsDirectory(ft, d) => Distinct(ft[d].list)
    BY <1>5, <1>7
  <2>4. ASSUME NEW d \in FileIds, NEW i \in FileIds, Holds(ft, d, i)
        PROVE  \/ Holds(fs, d, i)
               \/ /\ New(i) /\ ft[i].type \in {"directory", "general"}
                  /\ d < i /\ (d = parent \/ New(d))
    <3>1. CASE New(d)
      <4>1. New(i) /\ i = d + 1
        BY <2>4, <3>1, <1>5
      <4> QED BY <3>1, <4>1, <1>5, <1>9
    <3>2. CASE ~New(d)
      <4>1. IsDirectory(ft, d)
        BY <2>4 DEF Holds
      <4>2. Holds(fs, d, i) \/ (d = parent /\ i = nx)
        BY <2>4, <3>2, <4>1, <1>7
      <4> QED BY <4>2, <1>5, <1>9
    <3> QED BY <3>1, <3>2
  <2>5. ASSUME NEW c \in FileIds, NEW d \in FileIds, NEW i \in FileIds, New(i),
               Holds(ft, c, i), Holds(ft, d, i)
        PROVE  c = d
    <3>1. \A e \in FileIds : Holds(ft, e, i) =>
              \/ New(e) /\ i = e + 1
              \/ ~New(e) /\ e = parent /\ i = nx
      <4> SUFFICES ASSUME NEW e \in FileIds, Holds(ft, e, i)
                   PROVE  \/ New(e) /\ i = e + 1
                          \/ ~New(e) /\ e = parent /\ i = nx
        OBVIOUS
      <4>1. IsDirectory(ft, e)
        BY DEF Holds
      <4> QED BY <2>5, <4>1, <1>5, <1>7, <1>8
    <3>2. CASE i = nx
      <4>1. \A e \in FileIds : Holds(ft, e, i) => e = parent
        BY <2>5, <3>1, <3>2, <1>10
      <4> QED BY <2>5, <4>1
    <3>3. CASE i # nx
      <4>1. i = c + 1 /\ i = d + 1
        BY <2>5, <3>1, <3>3
      <4> QED BY <4>1, IdsAreNumbers
    <3> QED BY <3>2, <3>3
  <2> QED BY <1>3, <2>1, <2>2, <2>3, <2>4, <2>5 DEF Grown, New
<1>12. NewGenerals(ft, nx, mx, nd[g])
  <2>1. \A i \in FileIds : New(i) => ft[i].type # "general"
    BY <1>5
  <2> QED BY <2>1 DEF NewGenerals, New
<1>13. parent \in Ids /\ nx <= mx
  BY <1>1 DEF Ids
<1>14. Sound(ft, mx, rt, nd)
  BY <1>1, <1>11, <1>12, <1>13, GrownSound
<1> QED BY <1>14 DEF mx

\* The root directory of a new group
LEMMA NewRoot ==
    ASSUME NEW name
    PROVE  LET x == Directory(name, <<>>)
           IN  IsFile(x) /\ x # Absent /\ x.type = "directory" /\ x.list = <<>>
<1>1. <<>> \in Seq(FileIds)
  BY EmptySeq
<1> QED BY <1>1, DirectoryFields

\* The table with the root directory of one more group.
LEMMA RegisterSound ==
    ASSUME NEW fs, NEW nx, Table(fs, nx), Trees(fs), Storages(fs), NEW rt, Roots(fs, rt),
           NEW nd \in [Groups -> Nodes], NEW owner, Owners(fs, rt, nd, owner),
           NEW g \in Groups, rt[g] = Invalid, nx <= MaxFiles, NEW n \in Nodes,
           NEW ft, ft = [fs EXCEPT ![nx] = Directory("group", <<>>)],
           NEW rs, rs = [rt EXCEPT ![g] = nx], NEW ne, ne = [nd EXCEPT ![g] = n]
    PROVE  Sound(ft, nx + 1, rs, ne)
<1> DEFINE own == [owner EXCEPT ![nx] = g]
<1>1. nx \in FileIds /\ nx \in Nat /\ nx + 1 \in 1 .. MaxFiles + 1 /\ nx # Invalid
  <2>1. nx \in 1 .. MaxFiles + 1 /\ MaxFiles \in Nat
    BY IdsAreNumbers DEF Table
  <2>2. nx \in FileIds
    BY <2>1 DEF FileIds
  <2> QED BY <2>1, <2>2, IdsAreNumbers
<1>2. fs[nx] = Absent
  BY <1>1 DEF Table
<1>3. /\ ft = [i \in FileIds |-> ft[i]]
      /\ ft[nx] = Directory("group", <<>>)
      /\ \A i \in FileIds : i # nx => ft[i] = fs[i]
  BY <1>1 DEF Table
<1>4. /\ IsFile(ft[nx]) /\ ft[nx] # Absent /\ ft[nx].type = "directory" /\ ft[nx].list = <<>>
  <2>1. \A x : x = Directory("group", <<>>) =>
           IsFile(x) /\ x # Absent /\ x.type = "directory" /\ x.list = <<>>
    BY NewRoot, Zenon
  <2> QED BY <1>3, <2>1, Zenon
<1>5. \A d, i : ~(d = nx /\ Holds(ft, d, i))
  BY <1>4 DEF Holds
<1>6. \A d \in FileIds : \A i : Holds(ft, d, i) => d # nx /\ Holds(fs, d, i)
  BY <1>3, <1>5 DEF Holds, IsDirectory
<1>7. \A d, i \in FileIds : Holds(fs, d, i) => i # nx
  BY <1>2, AbsentFields DEF Trees
<1>8. Table(ft, nx + 1)
  <2>1. ASSUME NEW i \in FileIds PROVE IsFile(ft[i]) /\ (ft[i] # Absent => i < nx + 1)
    <3>1. i = nx => i < nx + 1
      BY <1>1
    <3>2. i # nx => IsFile(fs[i]) /\ (fs[i] # Absent => i < nx + 1)
      BY <1>1, IdsAreNumbers DEF Table
    <3> QED BY <3>1, <3>2, <1>3, <1>4
  <2> QED BY <2>1, <1>1, <1>3 DEF Table
<1>9. Trees(ft)
  <2>1. ASSUME NEW d \in FileIds, IsDirectory(ft, d) PROVE Distinct(ft[d].list)
    <3>1. CASE d = nx
      BY <3>1, <1>4 DEF Distinct
    <3>2. CASE d # nx
      BY <2>1, <3>2, <1>3 DEF Trees, IsDirectory
    <3> QED BY <3>1, <3>2
  <2>2. ASSUME NEW d \in FileIds, NEW i \in FileIds, Holds(ft, d, i)
        PROVE  d < i /\ ft[i].type \in {"directory", "general"}
    BY <2>2, <1>3, <1>6, <1>7 DEF Trees
  <2>3. \A c, d, i \in FileIds : Holds(ft, c, i) /\ Holds(ft, d, i) => c = d
    BY <1>6 DEF Trees
  <2> QED BY <2>1, <2>2, <2>3 DEF Trees
<1>10. ASSUME NEW i \in FileIds, ft[i].type = "general"
       PROVE  /\ i # nx /\ ft[i] = fs[i] /\ fs[i].type = "general"
              /\ fs[i].storage \in FileIds /\ fs[i].storage # nx
              /\ ft[fs[i].storage] = fs[fs[i].storage]
  <2>1. i # nx /\ ft[i] = fs[i] /\ fs[i].type = "general"
    BY <1>10, <1>3, <1>4
  <2>2. fs[i].storage \in FileIds
    BY <2>1, FileKinds DEF Table
  <2>3. fs[i].storage # nx
    BY <2>1, <1>2, AbsentFields DEF Storages
  <2> QED BY <2>1, <2>2, <2>3, <1>3
<1>11. Storages(ft)
  BY <1>10 DEF Storages
<1>12. /\ rs \in [Groups -> FileIds \cup {Invalid}]
       /\ rs[g] = nx /\ \A h \in Groups : h # g => rs[h] = rt[h]
  BY <1>1 DEF Roots
<1>13. Roots(ft, rs)
  <2>1. ASSUME NEW h \in Groups, rs[h] # Invalid
        PROVE  IsDirectory(ft, rs[h]) /\ \A d \in FileIds : ~Holds(ft, d, rs[h])
    <3>1. CASE h = g
      <4>1. rs[h] = nx
        BY <3>1, <1>12
      <4> QED BY <4>1, <1>1, <1>4, <1>6, <1>7 DEF IsDirectory
    <3>2. CASE h # g
      <4>1. rs[h] = rt[h] /\ rt[h] \in FileIds
        BY <2>1, <3>2, <1>12
      <4>2. IsDirectory(fs, rt[h]) /\ \A d \in FileIds : ~Holds(fs, d, rt[h])
        BY <2>1, <4>1 DEF Roots
      <4>3. rt[h] # nx
        BY <4>2, <1>2, AbsentFields DEF IsDirectory
      <4> QED BY <4>1, <4>2, <4>3, <1>3, <1>6 DEF IsDirectory
    <3> QED BY <3>1, <3>2
  <2> QED BY <1>12, <2>1 DEF Roots
<1>14. /\ own \in [FileIds -> Groups]
       /\ own[nx] = g /\ \A i \in FileIds : i # nx => own[i] = owner[i]
  BY <1>1 DEF Owners
<1>15. /\ ne \in [Groups -> Nodes]
       /\ \A h \in Groups : h # g => ne[h] = nd[h]
  OBVIOUS
<1> HIDE DEF own
<1>16. \A i \in FileIds : owner[i] \in Groups /\ (fs[i] # Absent => owner[i] # g)
  BY DEF Owners
<1>17. Owners(ft, rs, ne, own)
  <2>1. ASSUME NEW h \in Groups, rs[h] # Invalid PROVE own[rs[h]] = h
    <3>1. CASE h = g
      BY <3>1, <1>12, <1>14
    <3>2. CASE h # g
      <4>1. rs[h] = rt[h] /\ rt[h] \in FileIds
        BY <2>1, <3>2, <1>12
      <4>2. IsDirectory(fs, rt[h])
        BY <2>1, <4>1 DEF Roots
      <4>3. rt[h] # nx
        BY <4>2, <1>2, AbsentFields DEF IsDirectory
      <4>4. owner[rt[h]] = h
        BY <2>1, <4>1 DEF Owners
      <4> QED BY <4>1, <4>3, <4>4, <1>14
    <3> QED BY <3>1, <3>2
  <2>2. ASSUME NEW i \in FileIds, ft[i] # Absent PROVE rs[own[i]] # Invalid
    <3>1. CASE i = nx
      BY <3>1, <1>1, <1>12, <1>14
    <3>2. CASE i # nx
      <4>1. fs[i] # Absent /\ own[i] = owner[i]
        BY <2>2, <3>2, <1>3, <1>14
      <4>2. rt[owner[i]] # Invalid /\ owner[i] \in Groups /\ owner[i] # g
        BY <4>1, <1>16 DEF Owners
      <4> QED BY <4>1, <4>2, <1>12
    <3> QED BY <3>1, <3>2
  <2>3. ASSUME NEW d \in FileIds, NEW i \in FileIds, Holds(ft, d, i) PROVE own[i] = own[d]
    <3>1. Holds(fs, d, i) /\ d # nx /\ i # nx
      BY <2>3, <1>6, <1>7
    <3> QED BY <3>1, <1>14 DEF Owners
  <2>4. ASSUME NEW i \in FileIds, ft[i].type = "general"
        PROVE  ft[ft[i].storage].node = ne[own[i]]
    <3>1. /\ i # nx /\ ft[i] = fs[i] /\ fs[i].type = "general"
          /\ ft[fs[i].storage] = fs[fs[i].storage]
      BY <2>4, <1>10
    <3>2. fs[i] # Absent
      BY <3>1, AbsentFields
    <3>3. own[i] = owner[i] /\ ne[owner[i]] = nd[owner[i]]
      BY <3>1, <3>2, <1>14, <1>15, <1>16
    <3>4. fs[fs[i].storage].node = nd[owner[i]]
      BY <3>1 DEF Owners
    <3> QED BY <3>1, <3>3, <3>4
  <2> QED BY <1>14, <2>1, <2>2, <2>3, <2>4 DEF Owners
<1> QED BY <1>8, <1>9, <1>11, <1>13, <1>14, <1>15, <1>17 DEF Sound

-----------------------------------------------------------------------------
(* Removing a file *)

\* What RemovePath makes of the table: id, an entry of parent, is gone.
AfterRemove(fs, id, gone, parent) ==
    [[i \in FileIds |-> IF i \in gone THEN Absent ELSE fs[i]]
        EXCEPT ![parent].list = Without(@, id)]

\* gone is id with its storage file; rest is the list of parent without id.
IsRemoved(fs, ft, id, gone, parent, rest) ==
    /\ parent # id /\ id \in gone /\ parent \notin gone
    /\ \A i \in gone \cap FileIds : i = id \/ fs[i].type = "storage"
    /\ rest \in Seq(FileIds) /\ Distinct(rest)
    /\ \A e : (\E k \in DOMAIN rest : rest[k] = e) <=> e # id /\ Holds(fs, parent, e)
    /\ ft = [i \in FileIds |-> ft[i]]
    /\ IsFile(ft[parent]) /\ ft[parent] # Absent /\ ft[parent].type = "directory"
    /\ ft[parent].list = rest /\ ft[parent].name = fs[parent].name
    /\ \A i \in FileIds : i # parent => ft[i] = IF i \in gone THEN Absent ELSE fs[i]

LEMMA RemoveIs ==
    ASSUME NEW fs, NEW nx, Table(fs, nx), Trees(fs), Storages(fs),
           NEW parent \in FileIds, NEW id \in FileIds, Holds(fs, parent, id),
           NEW gone, gone = IF fs[id].type = "general" THEN {id, fs[id].storage} ELSE {id},
           NEW ft, ft = AfterRemove(fs, id, gone, parent)
    PROVE  IsRemoved(fs, ft, id, gone, parent, Without(fs[parent].list, id))
<1> DEFINE list == fs[parent].list
           rest == Without(list, id)
           name == fs[parent].name
<1>1. IsDirectory(fs, parent) /\ parent < id
  BY DEF Holds, Trees
<1>2. fs[parent] = Directory(name, list) /\ list \in Seq(FileIds) /\ Distinct(list)
  BY <1>1, FileKinds DEF Table, IsDirectory, Trees
<1>3. parent # id
  BY <1>1, IdsAreNumbers
<1>4. \A i \in FileIds : i \in gone => i = id \/ (fs[id].type = "general" /\ i = fs[id].storage)
  OBVIOUS
<1>5. fs[id].type = "general" => fs[fs[id].storage].type = "storage"
  BY DEF Storages
<1>6. id \in gone /\ parent \notin gone
  <2>1. fs[parent].type = "directory"
    BY <1>1 DEF IsDirectory
  <2> QED BY <2>1, <1>3, <1>4, <1>5
<1>7. \A i \in gone \cap FileIds : i = id \/ fs[i].type = "storage"
  BY <1>4, <1>5
<1>8. rest \in Seq(FileIds) /\ Distinct(rest)
      /\ \A e : (\E k \in DOMAIN rest : rest[k] = e) <=> e # id /\ \E k \in DOMAIN list : list[k] = e
  <2> HIDE DEF list
  <2>1. /\ Without(list, id) \in Seq(FileIds)
        /\ IsWithout(Without(list, id), list, id, Len(list))
    BY <1>2, WithoutIs
  <2>2. DOMAIN list = 1 .. Len(list)
    BY <1>2, LenProperties
  <2> HIDE DEF rest
  <2>3. rest \in Seq(FileIds) /\ IsWithout(rest, list, id, Len(list))
    BY <2>1 DEF rest
  <2> QED BY <1>2, <2>2, <2>3 DEF IsWithout
<1>9. /\ ft = [i \in FileIds |-> ft[i]]
      /\ ft[parent] = Directory(name, rest)
      /\ \A i \in FileIds : i # parent => ft[i] = IF i \in gone THEN Absent ELSE fs[i]
  <2> DEFINE left == [i \in FileIds |-> IF i \in gone THEN Absent ELSE fs[i]]
  <2>1. ft = [left EXCEPT ![parent].list = Without(@, id)]
    BY DEF AfterRemove
  <2>2. left[parent] = fs[parent]
    BY <1>6
  <2>3. \A i \in FileIds : left[i] = IF i \in gone THEN Absent ELSE fs[i]
    OBVIOUS
  <2>4. left = [i \in FileIds |-> left[i]]
    OBVIOUS
  <2> HIDE DEF left
  <2>5. ft[parent] = [fs[parent] EXCEPT !.list = Without(@, id)]
    BY <2>1, <2>2, <2>4
  <2>6. ft = [i \in FileIds |-> ft[i]] /\ \A i \in FileIds : i # parent => ft[i] = left[i]
    BY <2>1, <2>4
  <2>7. [fs[parent] EXCEPT !.list = Without(@, id)] = [fs[parent] EXCEPT !.list = rest]
    OBVIOUS
  <2> HIDE DEF list, name, rest
  <2>8. [fs[parent] EXCEPT !.list = rest] = Directory(name, rest)
    BY <1>2, DirectoryGrows
  <2> QED BY <2>3, <2>5, <2>6, <2>7, <2>8
<1> HIDE DEF rest, name
<1>10. /\ IsFile(ft[parent]) /\ ft[parent] # Absent /\ ft[parent].type = "directory"
       /\ ft[parent].list = rest /\ ft[parent].name = name
  BY <1>8, <1>9, DirectoryFields
<1>11. \A e : Holds(fs, parent, e) <=> \E k \in DOMAIN list : list[k] = e
  BY <1>1 DEF Holds
<1> HIDE DEF list
<1>12. IsRemoved(fs, ft, id, gone, parent, rest)
  <2>1. \A e : (\E k \in DOMAIN rest : rest[k] = e) <=> e # id /\ Holds(fs, parent, e)
    BY <1>8, <1>11
  <2>2. ft[parent].list = rest /\ ft[parent].name = fs[parent].name
    BY <1>10 DEF name
  <2> QED
    BY <1>3, <1>6, <1>7, <1>8, <1>9, <1>10, <2>1, <2>2, Zenon DEF IsRemoved
<1> QED BY <1>12 DEF rest, list

LEMMA RemoveSound ==
    ASSUME NEW fs, NEW nx, Table(fs, nx), Trees(fs), Storages(fs), NEW rt, Roots(fs, rt),
           NEW nd \in [Groups -> Nodes], NEW owner, Owners(fs, rt, nd, owner),
           NEW parent \in FileIds, NEW id \in FileIds, Holds(fs, parent, id),
           NEW gone, gone = IF fs[id].type = "general" THEN {id, fs[id].storage} ELSE {id},
           NEW ft, ft = AfterRemove(fs, id, gone, parent)
    PROVE  Sound(ft, nx, rt, nd)
<1>1. PICK rest : rest = Without(fs[parent].list, id)
  OBVIOUS
<1>2. IsRemoved(fs, ft, id, gone, parent, rest)
  BY <1>1, RemoveIs
<1>3. IsDirectory(fs, parent) /\ fs[id].type \in {"directory", "general"}
  BY DEF Holds, Trees
<1>4. \A i \in FileIds : i \in gone => i = id \/ (fs[id].type = "general" /\ i = fs[id].storage)
  OBVIOUS
<1>6. id \in gone /\ parent \notin gone /\ parent # id
  BY <1>2 DEF IsRemoved
<1>7. \A i \in FileIds : i \in gone => i = id \/ fs[i].type = "storage"
  BY <1>2 DEF IsRemoved
<1>8. Distinct(rest)
      /\ \A e : (\E k \in DOMAIN rest : rest[k] = e) <=> e # id /\ Holds(fs, parent, e)
  BY <1>2 DEF IsRemoved
<1>9. /\ ft = [i \in FileIds |-> ft[i]]
      /\ \A i \in FileIds : i # parent => ft[i] = IF i \in gone THEN Absent ELSE fs[i]
  BY <1>2 DEF IsRemoved
<1>10. IsFile(ft[parent]) /\ ft[parent] # Absent /\ ft[parent].type = "directory"
       /\ ft[parent].list = rest
  BY <1>2 DEF IsRemoved
<1>11. \A i \in FileIds : i \notin gone => ft[i].type = fs[i].type
  BY <1>3, <1>9, <1>10 DEF IsDirectory
<1>12. \A i \in FileIds : i \in gone => ft[i] = Absent /\ ft[i].type = "absent"
  BY <1>6, <1>9, AbsentFields
<1>13. ASSUME NEW d \in FileIds, IsDirectory(ft, d)
       PROVE  /\ Distinct(ft[d].list)
              /\ \A i \in FileIds : Holds(ft, d, i) => Holds(fs, d, i) /\ i # id
  <2>1. d \notin gone
    BY <1>13, <1>12 DEF IsDirectory
  <2>2. CASE d = parent
    BY <2>2, <1>8, <1>10 DEF Holds
  <2>3. CASE d # parent
    <3>1. ft[d] = fs[d]
      BY <2>1, <2>3, <1>9
    <3>2. Distinct(fs[d].list)
      BY <3>1, <1>13 DEF Trees, IsDirectory
    <3>3. \A i \in FileIds : Holds(ft, d, i) => Holds(fs, d, i)
      BY <3>1 DEF Holds, IsDirectory
    <3>4. ~Holds(fs, d, id)
      BY <2>3 DEF Trees
    <3> QED BY <3>1, <3>2, <3>3, <3>4
  <2> QED BY <2>2, <2>3
<1>14. \A d, i \in FileIds : Holds(ft, d, i) => Holds(fs, d, i) /\ i # id /\ i \notin gone
  <2> SUFFICES ASSUME NEW d \in FileIds, NEW i \in FileIds, Holds(ft, d, i)
               PROVE  Holds(fs, d, i) /\ i # id /\ i \notin gone
    OBVIOUS
  <2>1. Holds(fs, d, i) /\ i # id
    BY <1>13 DEF Holds
  <2>2. fs[i].type # "storage"
    BY <2>1 DEF Trees
  <2> QED BY <2>1, <2>2, <1>7
<1>15. Table(ft, nx)
  <2>1. ASSUME NEW i \in FileIds PROVE IsFile(ft[i]) /\ (ft[i] # Absent => i < nx)
    <3>1. CASE i = parent
      <4>1. fs[parent] # Absent
        BY <1>3, AbsentFields DEF IsDirectory
      <4> QED BY <3>1, <4>1, <1>10 DEF Table
    <3>2. CASE i # parent
      BY <3>2, <1>9, AbsentFields DEF Table
    <3> QED BY <3>1, <3>2
  <2> QED BY <1>9, <2>1 DEF Table
<1>16. Trees(ft)
  <2>1. \A d \in FileIds : IsDirectory(ft, d) => Distinct(ft[d].list)
    BY <1>13
  <2>2. \A d, i \in FileIds : Holds(ft, d, i) => d < i /\ ft[i].type \in {"directory", "general"}
    BY <1>11, <1>14 DEF Trees
  <2>3. \A c, d, i \in FileIds : Holds(ft, c, i) /\ Holds(ft, d, i) => c = d
    BY <1>14 DEF Trees
  <2> QED BY <2>1, <2>2, <2>3 DEF Trees
<1>17. ASSUME NEW i \in FileIds, ft[i].type = "general"
       PROVE  /\ ft[i] = fs[i] /\ fs[i].type = "general" /\ ft[fs[i].storage] = fs[fs[i].storage]
  <2>1. i \notin gone /\ fs[i].type = "general" /\ i # id
    BY <1>17, <1>6, <1>11, <1>12
  <2>2. i # parent
    BY <1>17, <1>10
  <2>3. ft[i] = fs[i]
    BY <2>1, <2>2, <1>9
  <2>4. fs[i].storage \in FileIds /\ fs[fs[i].storage].type = "storage"
    BY <2>1, FileKinds DEF Table, Storages
  <2>5. fs[i].storage # id /\ fs[i].storage # parent
    BY <2>4, <1>3 DEF IsDirectory
  <2>6. fs[i].storage \notin gone
    <3> SUFFICES ASSUME fs[i].storage \in gone PROVE FALSE
      OBVIOUS
    <3>1. fs[id].type = "general" /\ fs[i].storage = fs[id].storage
      BY <2>4, <2>5, <1>4
    <3> QED BY <3>1, <2>1 DEF Storages
  <2> QED BY <2>1, <2>3, <2>4, <2>5, <2>6, <1>9
<1>18. Storages(ft)
  <2>1. ASSUME NEW i \in FileIds, ft[i].type = "general"
        PROVE  ft[ft[i].storage].type = "storage" /\ ft[ft[i].storage].uses = 1
    <3>1. ft[i] = fs[i] /\ fs[i].type = "general" /\ ft[fs[i].storage] = fs[fs[i].storage]
      BY <2>1, <1>17
    <3>2. fs[fs[i].storage].type = "storage" /\ fs[fs[i].storage].uses = 1
      BY <3>1 DEF Storages
    <3> QED BY <3>1, <3>2
  <2>2. ASSUME NEW i \in FileIds, NEW j \in FileIds, ft[i].type = "general",
               ft[j].type = "general", ft[i].storage = ft[j].storage
        PROVE  i = j
    <3>1. ft[i] = fs[i] /\ fs[i].type = "general" /\ ft[j] = fs[j] /\ fs[j].type = "general"
      BY <2>2, <1>17
    <3> QED BY <2>2, <3>1 DEF Storages
  <2> QED BY <2>1, <2>2 DEF Storages
<1>19. Roots(ft, rt)
  <2>1. rt \in [Groups -> FileIds \cup {Invalid}]
    BY DEF Roots
  <2>2. ASSUME NEW h \in Groups, rt[h] # Invalid
        PROVE  IsDirectory(ft, rt[h]) /\ \A d \in FileIds : ~Holds(ft, d, rt[h])
    <3>1. rt[h] \in FileIds /\ fs[rt[h]].type = "directory" /\ \A d \in FileIds : ~Holds(fs, d, rt[h])
      BY <2>2 DEF Roots, IsDirectory
    <3>2. rt[h] # id /\ rt[h] \notin gone
      BY <3>1, <1>7
    <3> QED BY <3>1, <3>2, <1>11, <1>14 DEF IsDirectory
  <2> QED BY <2>1, <2>2 DEF Roots
<1>20. Owners(ft, rt, nd, owner)
  <2>1. ASSUME NEW i \in FileIds, ft[i] # Absent PROVE rt[owner[i]] # Invalid
    <3>1. i \notin gone
      BY <2>1, <1>12
    <3>2. ft[i].type # "absent"
      BY <2>1, <1>15, FileKinds DEF Table
    <3>3. fs[i] # Absent
      BY <3>1, <3>2, <1>11, AbsentFields
    <3> QED BY <3>3 DEF Owners
  <2>2. \A d, i \in FileIds : Holds(ft, d, i) => owner[i] = owner[d]
    BY <1>14 DEF Owners
  <2>3. ASSUME NEW i \in FileIds, ft[i].type = "general"
        PROVE  ft[ft[i].storage].node = nd[owner[i]]
    <3>1. ft[i] = fs[i] /\ fs[i].type = "general" /\ ft[fs[i].storage] = fs[fs[i].storage]
      BY <2>3, <1>17
    <3>2. fs[fs[i].storage].node = nd[owner[i]]
      BY <3>1 DEF Owners
    <3> QED BY <3>1, <3>2
  <2> QED BY <2>1, <2>2, <2>3 DEF Owners
<1>21. owner \in [FileIds -> Groups]
  BY DEF Owners
<1> QED BY <1>15, <1>16, <1>18, <1>19, <1>20, <1>21 DEF Sound

-----------------------------------------------------------------------------
(* The first table, and none *)

LEMMA EmptySound == Sound(Empty.files, Empty.next, Empty.root, Empty.node)
<1> DEFINE fs == Empty.files
           rt == Empty.root
           nd == Empty.node
           owner == [i \in FileIds |-> Official]
<1>0. Official \in Groups /\ Nodes # {} /\ MaxFiles \in Nat \ {0}
  BY FileTreeAssumption
<1>1. /\ Empty.next = 2
      /\ fs = [i \in FileIds |-> IF i = 1 THEN Directory("official", <<>>) ELSE Absent]
      /\ rt = [g \in Groups |-> IF g = Official THEN 1 ELSE Invalid]
      /\ nd = [g \in Groups |-> CHOOSE n \in Nodes : TRUE]
  BY DEF Empty
<1>2. nd \in [Groups -> Nodes]
  <2>1. (CHOOSE n \in Nodes : TRUE) \in Nodes
    BY <1>0
  <2> QED BY <1>1, <2>1
<1> HIDE DEF fs, rt, nd
<1>3. 1 \in FileIds /\ 1 # Invalid /\ 2 \in 1 .. MaxFiles + 1 /\ 1 < 2
  BY <1>0 DEF FileIds, Invalid
<1>4. fs = [i \in FileIds |-> fs[i]] /\ \A i \in FileIds : i # 1 => fs[i] = Absent
  BY <1>1
<1>5. IsFile(fs[1]) /\ fs[1] # Absent /\ fs[1].type = "directory" /\ fs[1].list = <<>>
  <2>1. \A x : x = Directory("official", <<>>) =>
           IsFile(x) /\ x # Absent /\ x.type = "directory" /\ x.list = <<>>
    BY NewRoot, Zenon
  <2>2. fs[1] = Directory("official", <<>>)
    BY <1>1, <1>3
  <2> QED BY <2>1, <2>2, Zenon
<1>6. \A i \in FileIds : fs[i].type # "directory" => fs[i].type = "absent"
  BY <1>4, <1>5, AbsentFields
<1>7. \A d \in FileIds : IsDirectory(fs, d) => d = 1
  BY <1>4, AbsentFields DEF IsDirectory
<1>8. \A d \in FileIds : \A i : ~Holds(fs, d, i)
  BY <1>5, <1>7 DEF Holds
<1>9. Table(fs, 2)
  BY <1>3, <1>4, <1>5, AbsentFields DEF Table
<1>10. Trees(fs)
  <2>1. Distinct(fs[1].list)
    BY <1>5 DEF Distinct
  <2> QED BY <1>7, <1>8, <2>1 DEF Trees
<1>11. Storages(fs)
  BY <1>6 DEF Storages
<1>12. /\ rt \in [Groups -> FileIds \cup {Invalid}]
       /\ \A g \in Groups : rt[g] # Invalid => rt[g] = 1 /\ g = Official
       /\ rt[Official] = 1
  BY <1>0, <1>1, <1>3
<1>13. Roots(fs, rt)
  BY <1>5, <1>8, <1>12 DEF Roots, IsDirectory
<1>14. owner \in [FileIds -> Groups] /\ \A i \in FileIds : owner[i] = Official
  BY <1>0
<1> HIDE DEF owner
<1>15. Owners(fs, rt, nd, owner)
  <2>1. \A g \in Groups : rt[g] # Invalid => owner[rt[g]] = g
    BY <1>3, <1>12, <1>14
  <2>2. \A i \in FileIds : fs[i] # Absent => rt[owner[i]] # Invalid
    BY <1>3, <1>12, <1>14
  <2>3. \A i \in FileIds : fs[i].type # "general"
    BY <1>6
  <2> QED BY <1>8, <1>14, <2>1, <2>2, <2>3 DEF Owners
<1>16. Sound(fs, 2, rt, nd)
  BY <1>2, <1>9, <1>10, <1>11, <1>13, <1>14, <1>15 DEF Sound
<1> QED BY <1>1, <1>16 DEF fs, rt, nd

LEMMA NoneSound ==
    ASSUME NEW nd \in [Groups -> Nodes]
    PROVE  Sound([i \in FileIds |-> Absent], 1, [g \in Groups |-> Invalid], nd)
<1> DEFINE fs == [i \in FileIds |-> Absent]
           rt == [g \in Groups |-> Invalid]
           owner == [i \in FileIds |-> Official]
<1>0. Official \in Groups /\ 1 \in 1 .. MaxFiles + 1
  <2>1. Official \in Groups /\ MaxFiles \in Nat \ {0}
    BY FileTreeAssumption
  <2> QED BY <2>1
<1>1. fs = [i \in FileIds |-> fs[i]] /\ \A i \in FileIds : fs[i] = Absent
  OBVIOUS
<1>2. rt \in [Groups -> FileIds \cup {Invalid}] /\ \A g \in Groups : rt[g] = Invalid
  OBVIOUS
<1>3. owner \in [FileIds -> Groups]
  BY <1>0
<1> HIDE DEF fs, rt, owner
<1>4. \A d \in FileIds : fs[d].type = "absent"
  BY <1>1, AbsentFields
<1>5. \A d \in FileIds : \A i : ~Holds(fs, d, i)
  BY <1>4 DEF Holds, IsDirectory
<1>6. Table(fs, 1)
  BY <1>0, <1>1, AbsentFields DEF Table
<1>7. Trees(fs)
  BY <1>4, <1>5 DEF Trees, IsDirectory
<1>8. Storages(fs)
  BY <1>4 DEF Storages
<1>9. Roots(fs, rt)
  BY <1>2 DEF Roots
<1>10. Owners(fs, rt, nd, owner)
  BY <1>1, <1>2, <1>3, <1>4, <1>5 DEF Owners
<1>11. Sound(fs, 1, rt, nd)
  BY <1>3, <1>6, <1>7, <1>8, <1>9, <1>10 DEF Sound
<1> QED BY <1>11 DEF fs, rt

-----------------------------------------------------------------------------
(* The handlers *)

LEMMA RegisterGroupStep ==
    ASSUME IInv, NEW g \in Groups, NEW n \in Nodes, RegisterGroup(g, n)
    PROVE  Sound(files', next', root', node')
<1>1. PICK owner \in [FileIds -> Groups] : Owners(files, root, node, owner)
  BY DEF IInv, Sound
<1>2. /\ Table(files, next) /\ Trees(files) /\ Storages(files) /\ Roots(files, root)
      /\ node \in [Groups -> Nodes]
  BY DEF IInv, Sound
<1>3. /\ root[g] = Invalid /\ next <= MaxFiles
      /\ files' = [files EXCEPT ![next] = Directory("group", <<>>)]
      /\ next' = next + 1
      /\ root' = [root EXCEPT ![g] = next]
      /\ node' = [node EXCEPT ![g] = n]
  BY DEF RegisterGroup
<1>4. Sound(files', next + 1, root', node')
  BY <1>1, <1>2, <1>3, RegisterSound, Zenon
<1> QED BY <1>3, <1>4

\* A request names its path by one of the spellings.
LEMMA RequestPath ==
    ASSUME NEW s \in Spellings
    PROVE  \E S : FilePath(s) \in Seq(S)
<1>1. s \in Seq(Names \cup {""})
  BY FileTreeAssumption
<1> QED BY <1>1, FilePathIsSeq

\* Without its last component, a path leads to where the lookup was before.
LEMMA FrontIs ==
    ASSUME NEW S, NEW p \in Seq(S), p # <<>>
    PROVE  /\ Len(p) \in Nat /\ Len(p) # 0 /\ Len(p) - 1 \in 0 .. Len(p)
           /\ Front(p) = SubSeq(p, 1, Len(p) - 1) /\ Front(p) \in Seq(S)
<1>1. Len(p) \in Nat /\ Len(p) # 0
  BY EmptySeq, LenProperties
<1> QED BY <1>1 DEF Front

LEMMA GreatestNumber ==
    ASSUME NEW m \in Nat, NEW T, T \subseteq 0 .. m, T # {}
    PROVE  \E x \in T : \A y \in T : x >= y
<1> DEFINE R == {l \in 0 .. m : m - l \in T}
<1>1. R \subseteq Nat
  OBVIOUS
<1>2. R # {}
  <2>1. PICK y \in T : TRUE
    OBVIOUS
  <2>2. m - y \in 0 .. m /\ m - (m - y) = y
    OBVIOUS
  <2> QED BY <2>1, <2>2
<1>3. PICK l \in R : \A k \in R : l <= k
  <2> HIDE DEF R
  <2> QED BY <1>1, <1>2, LeastNumber
<1>4. m - l \in T /\ l \in 0 .. m
  OBVIOUS
<1>5. ASSUME NEW y \in T PROVE m - l >= y
  <2>1. m - y \in R /\ y \in 0 .. m
    OBVIOUS
  <2>2. l <= m - y
    BY <1>3, <2>1
  <2> QED BY <1>4, <2>1, <2>2
<1> QED BY <1>4, <1>5

\* create_path begins at a component that exists.
LEMMA ExistingFound ==
    ASSUME ListsTyped(files), NEW g \in Groups, root[g] \in FileIds, NEW S, NEW p \in Seq(S)
    PROVE  LET n == Existing(g, p)
               i == FoundIds(files, root[g], p)[n]
           IN  /\ n \in 0 .. Len(p) /\ FileId(g, SubSeq(p, 1, n)) = i /\ i # Invalid
               /\ \A k \in 0 .. Len(p) : FoundIds(files, root[g], p)[k] # Invalid => n >= k
<1> DEFINE id == FoundIds(files, root[g], p)
           T == {k \in 0 .. Len(p) : ExistPath(g, SubSeq(p, 1, k))}
<1>1. Len(p) \in Nat /\ 0 \in 0 .. Len(p)
  BY LenProperties
<1>2. root[g] \in Ids /\ root[g] # Invalid
  BY IdsAreNumbers DEF Ids
<1>3. id[0] = root[g]
  BY <1>2, FoundIdsStep
<1>4. ASSUME NEW k \in 0 .. Len(p) PROVE FileId(g, SubSeq(p, 1, k)) = id[k]
  BY <1>2, FoundPrefix DEF FileId
<1> HIDE DEF id
<1>5. 0 \in T
  BY <1>1, <1>2, <1>3, <1>4 DEF ExistPath
<1>6. Max(T) \in T /\ \A y \in T : Max(T) >= y
  <2> HIDE DEF T
  <2>1. T \subseteq 0 .. Len(p)
    BY DEF T
  <2>2. \E x \in T : \A y \in T : x >= y
    BY <1>1, <1>5, <2>1, GreatestNumber
  <2> QED BY <2>2 DEF Max
<1>7. Existing(g, p) \in T /\ \A k \in T : Existing(g, p) >= k
  BY <1>6 DEF Existing
<1> QED BY <1>4, <1>7 DEF ExistPath, id

LEMMA CreatePathStep ==
    ASSUME IInv, NEW g \in Groups, root[g] # Invalid, NEW S, NEW p \in Seq(S), CreatePath(g, p)
    PROVE  Sound(files', next', root', node')
<1> DEFINE n == Existing(g, p)
           parent == FileId(g, SubSeq(p, 1, n))
<1>1. PICK owner \in [FileIds -> Groups] : Owners(files, root, node, owner)
  BY DEF IInv, Sound
<1>2. /\ Table(files, next) /\ Trees(files) /\ Storages(files) /\ Roots(files, root)
      /\ node \in [Groups -> Nodes]
  BY DEF IInv, Sound
<1>3. ListsTyped(files) /\ root[g] \in FileIds
  BY <1>2, TableTyped DEF Roots
<1>4. n \in 0 .. Len(p) /\ parent = FoundIds(files, root[g], p)[n] /\ parent # Invalid
  BY <1>3, ExistingFound
<1>5. \A k \in 0 .. Len(p) :
          LET i == FoundIds(files, root[g], p)[k]
          IN  i # Invalid => i \in FileIds /\ files[i] # Absent /\ owner[i] = g
  BY <1>1, <1>2, FoundOwned
<1>6. Len(p) \in Nat
  BY LenProperties
<1>7. /\ n < Len(p) /\ IsDirectory(files, parent)
      /\ next .. next + Len(p) - n - 1 \subseteq FileIds
      /\ files' = AfterCreate(files, next, p, n, parent)
      /\ next' = next + Len(p) - n
      /\ root' = root /\ node' = node
  BY DEF CreatePath, AfterCreate
<1> HIDE DEF parent, n
<1>8. parent \in FileIds /\ owner[parent] = g
  BY <1>4, <1>5
<1>9. n \in Nat
  BY <1>4, <1>6
<1>10. Sound(files', next + Len(p) - n, root, node)
  BY <1>1, <1>2, <1>6, <1>7, <1>8, <1>9, CreateSound, Zenon
<1> QED BY <1>7, <1>10

LEMMA PutFileStep ==
    ASSUME IInv, NEW g \in Groups, root[g] # Invalid, NEW S, NEW p \in Seq(S), PutFile(g, p)
    PROVE  Sound(files', next', root', node')
<1> DEFINE q == DirectoryPath(p)
           dir == FileId(g, q)
<1>1. PICK owner \in [FileIds -> Groups] : Owners(files, root, node, owner)
  BY DEF IInv, Sound
<1>2. /\ Table(files, next) /\ Trees(files) /\ Storages(files) /\ Roots(files, root)
      /\ node \in [Groups -> Nodes]
  BY DEF IInv, Sound
<1>3. /\ p # <<>> /\ dir # Invalid /\ next + 1 \in FileIds
      /\ files' = AfterPut(files, next, Last(p), node[g], dir)
      /\ next' = next + 2
      /\ root' = root /\ node' = node
  BY DEF PutFile, AfterPut, Registered
<1>4. PICK T : q \in Seq(T)
  BY <1>3, FrontIs, FilePathIsSeq DEF DirectoryPath
<1>5. dir = FoundIds(files, root[g], q)[Len(q)] /\ Len(q) \in 0 .. Len(q)
  <2>1. Len(q) \in Nat
    BY <1>4, LenProperties
  <2> QED BY <2>1 DEF FileId, GetFileId
<1> HIDE DEF q, dir
<1>6. \A k \in 0 .. Len(q) :
          LET i == FoundIds(files, root[g], q)[k]
          IN  i # Invalid => i \in FileIds /\ files[i] # Absent /\ owner[i] = g
  BY <1>1, <1>2, <1>4, FoundOwned
<1>7. dir \in FileIds /\ files[dir] # Absent /\ owner[dir] = g
  BY <1>3, <1>5, <1>6
<1>8. Sound(files', next + 2, root, node)
  BY <1>1, <1>2, <1>3, <1>7, PutSound, Zenon
<1> QED BY <1>3, <1>8

LEMMA RemovePathStep ==
    ASSUME IInv, NEW g \in Groups, root[g] # Invalid, NEW S, NEW p \in Seq(S), RemovePath(g, p)
    PROVE  Sound(files', next', root', node')
<1> DEFINE id == FileId(g, p)
           parent == FileId(g, Front(p))
           gone == Removed(id)
           found == FoundIds(files, root[g], p)
<1>1. PICK owner \in [FileIds -> Groups] : Owners(files, root, node, owner)
  BY DEF IInv, Sound
<1>2. /\ Table(files, next) /\ Trees(files) /\ Storages(files) /\ Roots(files, root)
      /\ node \in [Groups -> Nodes]
  BY DEF IInv, Sound
<1>3. ListsTyped(files) /\ root[g] \in Ids
  BY <1>2, TableTyped DEF Roots, Ids
<1>4. /\ id # Invalid /\ id # root[g]
      /\ files' = AfterRemove(files, id, gone, parent)
      /\ next' = next /\ root' = root /\ node' = node
  BY DEF RemovePath, AfterRemove
<1>5. id = found[Len(p)] /\ found[0] = root[g] /\ Len(p) \in Nat
  BY <1>3, FoundIdsStep, LenProperties DEF FileId, GetFileId
<1>6. Len(p) # 0 /\ p # <<>>
  BY <1>4, <1>5
<1>7. Len(p) - 1 \in 0 .. Len(p) /\ Front(p) = SubSeq(p, 1, Len(p) - 1) /\ Len(p) \in 1 .. Len(p)
  BY <1>5, <1>6, FrontIs
<1>8. parent = found[Len(p) - 1]
  BY <1>3, <1>7, FoundPrefix DEF FileId
<1>9. id \in FileIds /\ parent \in FileIds /\ Holds(files, parent, id)
  <2>1. LET i == found[Len(p)]
            d == found[Len(p) - 1]
        IN  i \in FileIds /\ d \in FileIds /\ Holds(files, d, i)
    BY <1>3, <1>4, <1>5, <1>7, FoundHolds
  <2> QED BY <2>1, <1>5, <1>8
<1>10. gone = IF files[id].type = "general" THEN {id, files[id].storage} ELSE {id}
  BY DEF Removed
<1> HIDE DEF id, parent, gone, found
<1>11. Sound(files', next, root, node)
  BY <1>1, <1>2, <1>4, <1>9, <1>10, RemoveSound, Zenon
<1> QED BY <1>4, <1>11

-----------------------------------------------------------------------------
(* The table in memory and in the data file *)

LEMMA InitInv == Init => IInv
<1> SUFFICES ASSUME Init PROVE IInv
  OBVIOUS
<1>1. /\ files = Empty.files /\ next = Empty.next /\ root = Empty.root /\ node = Empty.node
      /\ disk = Empty /\ torn = FALSE /\ phase = "up" /\ saves = 0 /\ crashes = 0
  BY DEF Init
<1>2. Sound(files, next, root, node) /\ Sound(disk.files, disk.next, disk.root, disk.node)
  BY <1>1, EmptySound
<1>3. MaxSaves \in Nat /\ MaxCrashes \in Nat
  BY FileTreeAssumption
<1>4. saves \in 0 .. MaxSaves /\ crashes \in 0 .. MaxCrashes
  BY <1>1, <1>3
<1> QED BY <1>1, <1>2, <1>4 DEF IInv

LEMMA HandlerInv ==
    ASSUME IInv, Handler, Sound(files', next', root', node')
    PROVE  IInv'
<1>1. disk' = disk /\ torn' = torn /\ phase' = phase /\ saves' = saves /\ crashes' = crashes
  BY DEF Handler, store, bounds
<1>2. Sound(disk'.files, disk'.next, disk'.root, disk'.node)
  BY <1>1 DEF IInv
<1> QED BY <1>1, <1>2 DEF IInv

LEMMA NextInv == IInv /\ [Next]_vars => IInv'
<1> SUFFICES ASSUME IInv, [Next]_vars PROVE IInv'
  OBVIOUS
<1>1. ASSUME NEW g \in Groups, NEW n \in Nodes, RegisterGroup(g, n) PROVE IInv'
  <2>1. Handler
    BY <1>1 DEF RegisterGroup
  <2> QED BY <1>1, <2>1, RegisterGroupStep, HandlerInv
<1>2. ASSUME NEW g \in Groups, root[g] # Invalid, NEW s \in Spellings, CreatePath(g, FilePath(s))
      PROVE  IInv'
  <2>1. PICK S : FilePath(s) \in Seq(S)
    BY RequestPath
  <2>2. Sound(files', next', root', node')
    BY <1>2, <2>1, CreatePathStep
  <2>3. Handler
    BY <1>2 DEF CreatePath
  <2> QED BY <2>2, <2>3, HandlerInv
<1>3. ASSUME NEW g \in Groups, root[g] # Invalid, NEW s \in Spellings, PutFile(g, FilePath(s))
      PROVE  IInv'
  <2>1. PICK S : FilePath(s) \in Seq(S)
    BY RequestPath
  <2>2. Sound(files', next', root', node')
    BY <1>3, <2>1, PutFileStep
  <2>3. Handler
    BY <1>3 DEF PutFile
  <2> QED BY <2>2, <2>3, HandlerInv
<1>4. ASSUME NEW g \in Groups, root[g] # Invalid, NEW s \in Spellings, RemovePath(g, FilePath(s))
      PROVE  IInv'
  <2>1. PICK S : FilePath(s) \in Seq(S)
    BY RequestPath
  <2>2. Sound(files', next', root', node')
    BY <1>4, <2>1, RemovePathStep
  <2>3. Handler
    BY <1>4 DEF RemovePath
  <2> QED BY <2>2, <2>3, HandlerInv
<1>5. CASE BeginSave
  <2>1. /\ files' = files /\ next' = next /\ root' = root /\ node' = node /\ disk' = disk
        /\ torn' = TRUE /\ phase' = "saving" /\ saves < MaxSaves /\ saves' = saves + 1
        /\ crashes' = crashes
    BY <1>5 DEF BeginSave, memory
  <2>2. MaxSaves \in Nat
    BY FileTreeAssumption
  <2>3. saves' \in 0 .. MaxSaves
    BY <2>1, <2>2 DEF IInv
  <2> QED BY <2>1, <2>3 DEF IInv
<1>6. CASE EndSave
  <2>1. /\ files' = files /\ next' = next /\ root' = root /\ node' = node
        /\ disk' = [files |-> files, next |-> next, root |-> root, node |-> node]
        /\ torn' = FALSE /\ phase' = "up" /\ saves' = saves /\ crashes' = crashes
    BY <1>6 DEF EndSave, memory, bounds
  <2>2. disk'.files = files /\ disk'.next = next /\ disk'.root = root /\ disk'.node = node
    BY <2>1
  <2>3. Sound(disk'.files, disk'.next, disk'.root, disk'.node)
    BY <2>2 DEF IInv
  <2> QED BY <2>1, <2>3 DEF IInv
<1>7. CASE Crash
  <2>1. /\ files' = [i \in FileIds |-> Absent] /\ next' = 1
        /\ root' = [g \in Groups |-> Invalid] /\ node' = node
        /\ disk' = disk /\ torn' = torn /\ phase' = "down" /\ saves' = saves
        /\ crashes < MaxCrashes /\ crashes' = crashes + 1
    BY <1>7 DEF Crash, store
  <2>2. node \in [Groups -> Nodes]
    BY DEF IInv, Sound
  <2>3. Sound(files', next', root', node')
    BY <2>1, <2>2, NoneSound
  <2>4. MaxCrashes \in Nat
    BY FileTreeAssumption
  <2>5. crashes' \in 0 .. MaxCrashes
    BY <2>1, <2>4 DEF IInv
  <2> QED BY <2>1, <2>3, <2>5 DEF IInv
<1>8. CASE Boot
  <2> DEFINE t == IF torn THEN Empty ELSE disk
  <2>1. /\ files' = t.files /\ next' = t.next /\ root' = t.root /\ node' = t.node
        /\ disk' = disk /\ torn' = torn /\ phase' = "up" /\ saves' = saves /\ crashes' = crashes
    BY <1>8 DEF Boot, Restore, store, bounds
  <2>2. Sound(t.files, t.next, t.root, t.node)
    BY EmptySound DEF IInv
  <2> HIDE DEF t
  <2>3. Sound(files', next', root', node')
    BY <2>1, <2>2
  <2> QED BY <2>1, <2>3 DEF IInv
<1>9. CASE UNCHANGED vars
  BY <1>9 DEF IInv, vars, memory, store, bounds
<1> QED BY <1>1, <1>2, <1>3, <1>4, <1>5, <1>6, <1>7, <1>8, <1>9 DEF Next

-----------------------------------------------------------------------------
(* The invariant of the runs *)

LEMMA Typed == IInv => TypeOK
<1> SUFFICES ASSUME IInv PROVE TypeOK
  OBVIOUS
<1>1. Table(files, next) /\ Roots(files, root) /\ node \in [Groups -> Nodes]
  BY DEF IInv, Sound
<1>2. DOMAIN files = FileIds /\ next \in 1 .. MaxFiles + 1
  BY <1>1 DEF Table
<1>3. ASSUME NEW i \in FileIds
      PROVE  \/ files[i] = Absent
             \/ IsDirectory(files, i) /\ files[i].list \in Seq(FileIds)
             \/ files[i].type = "general" /\ files[i].storage \in FileIds
             \/ files[i].type = "storage" /\ files[i].node \in Nodes /\ files[i].uses \in Nat
  <2>1. IsFile(files[i])
    BY <1>1 DEF Table
  <2> QED BY <2>1, FileKinds DEF IsDirectory
<1>4. root \in [Groups -> FileIds \cup {Invalid}]
  BY <1>1 DEF Roots
<1> QED BY <1>1, <1>2, <1>3, <1>4 DEF IInv, TypeOK

\* Where an entry is
At(e, i) ==
    /\ e[1] \in FileIds /\ IsDirectory(files, e[1]) /\ e[2] \in DOMAIN files[e[1]].list
    /\ files[e[1]].list[e[2]] = i /\ e = <<e[1], e[2]>>

LEMMA PlacesAre ==
    ASSUME NEW i
    PROVE  \A e : e \in Places(i) <=> At(e, i)
<1> SUFFICES ASSUME NEW e PROVE e \in Places(i) <=> At(e, i)
  OBVIOUS
<1>1. e \in Places(i) <=>
         \E d \in Directories : e \in {<<d, k>> : k \in {l \in DOMAIN files[d].list : files[d].list[l] = i}}
  BY DEF Places
<1>2. e \in Places(i) <=>
         \E d \in Directories : \E k \in DOMAIN files[d].list : files[d].list[k] = i /\ e = <<d, k>>
  BY <1>1
<1>3. ASSUME NEW d \in Directories, NEW k \in DOMAIN files[d].list, files[d].list[k] = i, e = <<d, k>>
      PROVE  At(e, i)
  BY <1>3 DEF At, Directories
<1>4. ASSUME At(e, i) PROVE e[1] \in Directories
  BY <1>4 DEF At, Directories
<1> QED BY <1>2, <1>3, <1>4 DEF At

LEMMA OnePlace ==
    ASSUME Trees(files), NEW d \in FileIds, IsDirectory(files, d), NEW i \in FileIds,
           NEW k \in DOMAIN files[d].list, files[d].list[k] = i
    PROVE  Cardinality(Places(i)) = 1
<1>1. At(<<d, k>>, i)
  BY DEF At
<1>2. ASSUME NEW e, At(e, i) PROVE e = <<d, k>>
  <2>1. Holds(files, d, i) /\ Holds(files, e[1], i) /\ e[1] \in FileIds
    BY <1>2 DEF At, Holds
  <2>2. e[1] = d
    BY <2>1 DEF Trees
  <2>3. Distinct(files[d].list)
    BY DEF Trees
  <2>4. e[2] = k
    BY <1>2, <2>2, <2>3 DEF At, Distinct
  <2> QED BY <1>2, <2>2, <2>4 DEF At
<1>3. Places(i) = {<<d, k>>}
  <2>1. \A e : e \in Places(i) <=> e = <<d, k>>
    BY <1>1, <1>2, PlacesAre
  <2> HIDE DEF Places
  <2> QED BY <2>1
<1> QED BY <1>3, FS_Singleton

LEMMA Entries == IInv => EntriesExist
<1> SUFFICES ASSUME IInv PROVE EntriesExist
  OBVIOUS
<1>1. Table(files, next) /\ Trees(files) /\ Roots(files, root)
  BY DEF IInv, Sound
<1>2. ListsTyped(files)
  BY <1>1, TableTyped
<1>3. ASSUME NEW d \in Directories, NEW i \in Range(files[d].list)
      PROVE  files[i].type \in {"directory", "general"} /\ Cardinality(Places(i)) = 1
  <2>1. d \in FileIds /\ IsDirectory(files, d)
    BY DEF Directories
  <2>2. files[d].list \in Seq(FileIds)
    BY <1>2, <2>1 DEF ListsTyped
  <2>3. PICK k \in DOMAIN files[d].list : files[d].list[k] = i
    BY DEF Range
  <2>4. i \in FileIds
    BY <2>2, <2>3
  <2>5. Holds(files, d, i)
    BY <2>1, <2>3 DEF Holds
  <2>6. files[i].type \in {"directory", "general"}
    BY <1>1, <2>1, <2>4, <2>5 DEF Trees
  <2>7. Cardinality(Places(i)) = 1
    BY <1>1, <2>1, <2>3, <2>4, OnePlace
  <2> QED BY <2>6, <2>7
<1>4. ASSUME NEW g \in Groups, root[g] # Invalid
      PROVE  IsDirectory(files, root[g]) /\ Places(root[g]) = {}
  <2>1. IsDirectory(files, root[g]) /\ \A d \in FileIds : ~Holds(files, d, root[g])
    BY <1>1, <1>4 DEF Roots
  <2>2. ASSUME NEW e, At(e, root[g]) PROVE FALSE
    BY <2>1, <2>2 DEF At, Holds
  <2>3. \A e : e \notin Places(root[g])
    BY <2>2, PlacesAre
  <2> HIDE DEF Places
  <2> QED BY <2>1, <2>3
<1>5. \A i \in FileIds : files[i] # Absent => i < next
  BY <1>1 DEF Table
<1> HIDE DEF Places
<1> QED BY <1>3, <1>4, <1>5 DEF EntriesExist

LEMMA Backed == IInv => StorageBacked
<1> SUFFICES ASSUME IInv PROVE StorageBacked
  OBVIOUS
<1>1. PICK owner \in [FileIds -> Groups] : Owners(files, root, node, owner)
  BY DEF IInv, Sound
<1>2. Table(files, next) /\ Trees(files) /\ Storages(files) /\ Roots(files, root)
  BY DEF IInv, Sound
<1>3. ASSUME NEW i \in Generals
      PROVE  LET s == files[i].storage
             IN  /\ files[s].type = "storage"
                 /\ files[s].uses = Cardinality({j \in Generals : files[j].storage = s})
  <2> DEFINE s == files[i].storage
             users == {j \in Generals : files[j].storage = s}
  <2>1. i \in FileIds /\ files[i].type = "general"
    BY DEF Generals
  <2>2. files[s].type = "storage" /\ files[s].uses = 1
    BY <1>2, <2>1 DEF Storages
  <2>3. users = {i}
    <3>1. ASSUME NEW j \in users PROVE j = i
      <4>1. j \in FileIds /\ files[j].type = "general" /\ files[j].storage = files[i].storage
        BY DEF Generals
      <4> QED BY <1>2, <2>1, <4>1 DEF Storages
    <3>2. i \in users
      OBVIOUS
    <3> HIDE DEF users
    <3> QED BY <3>1, <3>2
  <2> HIDE DEF users
  <2>4. Cardinality(users) = 1
    BY <2>3, FS_Singleton
  <2> QED BY <2>2, <2>4 DEF users
<1>4. ASSUME NEW g \in Groups, NEW s \in Spellings, FileId(g, FilePath(s)) \in Generals
      PROVE  LET i == FileId(g, FilePath(s)) IN files[files[i].storage].node = node[g]
  <2>1. PICK S : FilePath(s) \in Seq(S)
    BY RequestPath
  <2> DEFINE p == FilePath(s)
             i == FileId(g, p)
  <2>2. i = FoundIds(files, root[g], p)[Len(p)]
    BY DEF FileId, GetFileId
  <2>3. p \in Seq(S) /\ Len(p) \in 0 .. Len(p)
    BY <2>1, LenProperties
  <2>4. i \in FileIds /\ files[i].type = "general"
    BY <1>4 DEF Generals
  <2> HIDE DEF p, i
  <2>5. i # Invalid
    BY <2>4, IdsAreNumbers
  <2>6. \A k \in 0 .. Len(p) :
            LET e == FoundIds(files, root[g], p)[k]
            IN  e # Invalid => e \in FileIds /\ files[e] # Absent /\ owner[e] = g
    BY <1>1, <1>2, <2>3, FoundOwned
  <2>7. owner[i] = g
    BY <2>2, <2>3, <2>5, <2>6
  <2>8. files[files[i].storage].node = node[g]
    BY <1>1, <2>4, <2>7 DEF Owners
  <2> QED BY <2>8 DEF p, i
<1> QED BY <1>3, <1>4 DEF StorageBacked

\* In every state: an entry is a file of the table, in one directory only, a root in none
\* and no free id is taken; a general file is the only user of its storage file, which is
\* on the node of the group whose path leads to it.  So SharingGroup::get_file_id never
\* meets an id that SharingFileManager has dropped, before and after any number of puts,
\* removals, saves, crashes and restarts.
THEOREM TableAlwaysSound == Spec => []TableIsSound
<1>1. IInv => TableIsSound
  BY Typed, Entries, Backed DEF TableIsSound
<1> QED BY InitInv, NextInv, <1>1, PTL DEF Spec
-----------------------------------------------------------------------------
(* What a lookup finds *)

Child(fs, d, name, i) == Holds(fs, d, i) /\ fs[i].name = name

\* No directory has two entries of one name.
OneName(fs) ==
    \A d, i, j \in FileIds : \A name : Child(fs, d, name, i) /\ Child(fs, d, name, j) => i = j

\* id is what a lookup of p finds from r on.
Exact(fs, r, p, id) ==
    /\ id[0] = r
    /\ \A k \in 0 .. Len(p) : id[k] \in Ids
    /\ \A k \in 1 .. Len(p) : id[k] # Invalid =>
           id[k - 1] # Invalid /\ Child(fs, id[k - 1], p[k], id[k])
    /\ \A k \in 1 .. Len(p) : \A i \in FileIds :
           id[k - 1] # Invalid /\ Child(fs, id[k - 1], p[k], i) => id[k] = i

LEMMA ChildFound ==
    ASSUME NEW fs, NEW nx, Table(fs, nx), Trees(fs), OneName(fs),
           NEW d \in FileIds, NEW i \in FileIds, NEW name, Child(fs, d, name, i)
    PROVE  FindFile(fs, d, name) = i
<1> DEFINE list == fs[d].list
           found == {k \in DOMAIN list : fs[list[k]] # Absent /\ fs[list[k]].name = name}
<1>1. IsDirectory(fs, d) /\ list \in Seq(FileIds)
  BY TableTyped DEF Child, Holds, ListsTyped
<1>2. fs[i] # Absent /\ fs[i].name = name
  <2>1. fs[i].type \in {"directory", "general"}
    BY DEF Child, Trees
  <2> QED BY <2>1, AbsentFields DEF Child
<1>3. PICK k \in DOMAIN list : list[k] = i
  BY DEF Child, Holds
<1>4. found # {} /\ found \subseteq Nat
  BY <1>1, <1>2, <1>3
<1>5. \E x \in found : \A y \in found : x <= y
  <2> HIDE DEF found
  <2> QED BY <1>4, LeastNumber
<1>6. Min(found) \in found
  <2> HIDE DEF found
  <2> QED BY <1>5 DEF Min
<1>7. FindFile(fs, d, name) = list[Min(found)]
  BY <1>4 DEF FindFile
<1> DEFINE m == Min(found)
<1> HIDE DEF m
<1>8. m \in DOMAIN list /\ fs[list[m]].name = name
  BY <1>6 DEF m
<1>9. list[m] \in FileIds
  BY <1>1, <1>8
<1>10. Child(fs, d, name, list[m])
  BY <1>1, <1>8 DEF Child, Holds
<1>11. list[m] = i
  BY <1>9, <1>10 DEF OneName
<1> QED BY <1>7, <1>11 DEF m

LEMMA LookupExact ==
    ASSUME NEW fs, NEW nx, Table(fs, nx), Trees(fs), OneName(fs), NEW r \in Ids,
           NEW S, NEW p \in Seq(S)
    PROVE  Exact(fs, r, p, FoundIds(fs, r, p))
<1> DEFINE id == FoundIds(fs, r, p)
<1>1. ListsTyped(fs)
  BY TableTyped
<1>2. /\ id \in [0 .. Len(p) -> Ids] /\ id[0] = r
      /\ \A k \in 1 .. Len(p) :
             id[k] = IF id[k - 1] # Invalid /\ IsDirectory(fs, id[k - 1])
                     THEN FindFile(fs, id[k - 1], p[k]) ELSE Invalid
  BY <1>1, FoundIdsStep
<1>3. ASSUME NEW k \in 1 .. Len(p), id[k] # Invalid
      PROVE  id[k - 1] # Invalid /\ Child(fs, id[k - 1], p[k], id[k])
  <2>1. LET i == id[k]
            d == id[k - 1]
        IN  /\ i \in FileIds /\ fs[i] # Absent /\ fs[i].name = p[k]
            /\ d \in FileIds /\ IsDirectory(fs, d) /\ Holds(fs, d, i)
    BY <1>1, <1>3, FoundHolds
  <2> QED BY <2>1, IdsAreNumbers DEF Child
<1>4. ASSUME NEW k \in 1 .. Len(p), NEW i \in FileIds,
             id[k - 1] # Invalid, Child(fs, id[k - 1], p[k], i)
      PROVE  id[k] = i
  <2>1. k - 1 \in 0 .. Len(p)
    OBVIOUS
  <2> HIDE DEF id
  <2>2. id[k - 1] \in FileIds
    BY <1>2, <1>4, <2>1 DEF Ids
  <2>3. FindFile(fs, id[k - 1], p[k]) = i
    BY <1>4, <2>2, ChildFound
  <2>4. IsDirectory(fs, id[k - 1])
    BY <1>4 DEF Child, Holds
  <2> QED BY <1>2, <1>4, <2>3, <2>4
<1> HIDE DEF id
<1>5. Exact(fs, r, p, id)
  BY <1>2, <1>3, <1>4 DEF Exact
<1> QED BY <1>5 DEF id

\* p and q agree in their first n components.
Agree(p, q, n) == \A k \in 1 .. n : p[k] = q[k]

LEMMA ExactAgrees ==
    ASSUME NEW fs, NEW r, NEW S, NEW p \in Seq(S), NEW q \in Seq(S), NEW a, NEW b,
           Exact(fs, r, p, a), Exact(fs, r, q, b),
           NEW n \in 0 .. Len(p), n <= Len(q), Agree(p, q, n)
    PROVE  a[n] = b[n]
<1> DEFINE T == {k \in 0 .. n : a[k] # b[k]}
<1>0. Len(p) \in Nat /\ Len(q) \in Nat /\ n \in Nat /\ n <= Len(p)
  OBVIOUS
<1>1. T = {}
  <2> SUFFICES ASSUME T # {} PROVE FALSE
    OBVIOUS
  <2>1. T \subseteq Nat
    BY <1>0
  <2>2. PICK m \in T : \A l \in T : m <= l
    BY <2>1, LeastNumber
  <2>3. m \in 0 .. n /\ a[m] # b[m] /\ m # 0
    BY DEF Exact
  <2>4. /\ m - 1 \in 0 .. n /\ ~(m <= m - 1) /\ m \in 1 .. n
        /\ m \in 1 .. Len(p) /\ m \in 1 .. Len(q) /\ m \in 0 .. Len(p) /\ m \in 0 .. Len(q)
    BY <2>3, <1>0
  <2>5. a[m - 1] = b[m - 1] /\ p[m] = q[m]
    BY <2>2, <2>4 DEF Agree
  <2>6. a[m] \in Ids /\ b[m] \in Ids
    BY <2>4 DEF Exact
  <2>7. CASE a[m] # Invalid
    <3>1. a[m] \in FileIds /\ a[m - 1] # Invalid /\ Child(fs, a[m - 1], p[m], a[m])
      BY <2>4, <2>6, <2>7 DEF Exact, Ids
    <3>2. b[m] = a[m]
      BY <2>4, <2>5, <3>1 DEF Exact
    <3> QED BY <2>3, <3>2
  <2>8. CASE b[m] # Invalid
    <3>1. b[m] \in FileIds /\ b[m - 1] # Invalid /\ Child(fs, b[m - 1], q[m], b[m])
      BY <2>4, <2>6, <2>8 DEF Exact, Ids
    <3>2. a[m] = b[m]
      BY <2>4, <2>5, <3>1 DEF Exact
    <3> QED BY <2>3, <3>2
  <2> QED BY <2>3, <2>7, <2>8
<1> QED BY <1>0, <1>1

\* Behind what is not found, nothing is.
LEMMA ExactPast ==
    ASSUME NEW fs, NEW r, NEW S, NEW p \in Seq(S), NEW a, Exact(fs, r, p, a),
           NEW n \in 0 .. Len(p), a[n] # Invalid, NEW m \in 0 .. n
    PROVE  a[m] # Invalid
<1> DEFINE T == {k \in 0 .. n : a[n - k] = Invalid}
<1>0. Len(p) \in Nat /\ n \in Nat /\ n <= Len(p) /\ m \in Nat
  OBVIOUS
<1>1. T = {}
  <2> SUFFICES ASSUME T # {} PROVE FALSE
    OBVIOUS
  <2>1. T \subseteq Nat
    BY <1>0
  <2>2. PICK j \in T : \A l \in T : j <= l
    BY <2>1, LeastNumber
  <2>3. j \in 0 .. n /\ a[n - j] = Invalid /\ j # 0
    BY <1>0
  <2>4. j - 1 \in 0 .. n /\ ~(j <= j - 1) /\ n - (j - 1) \in 1 .. Len(p) /\ n - (j - 1) - 1 = n - j
    BY <2>3, <1>0
  <2>5. a[n - (j - 1)] # Invalid
    BY <2>2, <2>4
  <2>6. a[n - j] # Invalid
    BY <2>4, <2>5 DEF Exact
  <2> QED BY <2>3, <2>6
<1>2. n - m \in 0 .. n /\ n - (n - m) = m
  BY <1>0
<1> QED BY <1>1, <1>2

\* One path leads to a file, of one group.
LEMMA OnePath ==
    ASSUME NEW fs, Trees(fs), NEW rt, Roots(fs, rt),
           NEW g \in Groups, NEW h \in Groups, rt[g] = rt[h] /\ rt[g] # Invalid => g = h,
           NEW S, NEW p \in Seq(S), NEW q \in Seq(S), NEW a, NEW b,
           Exact(fs, rt[g], p, a), Exact(fs, rt[h], q, b)
    PROVE  \A n \in 0 .. Len(p), m \in 0 .. Len(q) :
               a[n] = b[m] /\ a[n] # Invalid => g = h /\ n = m /\ Agree(p, q, n)
<1> DEFINE Bad(n) == \E m \in 0 .. Len(q) :
               a[n] = b[m] /\ a[n] # Invalid /\ ~(g = h /\ n = m /\ Agree(p, q, n))
           T == {n \in 0 .. Len(p) : Bad(n)}
<1>0. Len(p) \in Nat /\ Len(q) \in Nat
  OBVIOUS
<1>1. \A k \in 1 .. Len(p) : a[k] # Invalid =>
          /\ a[k] \in FileIds /\ a[k - 1] \in FileIds /\ a[k - 1] # Invalid
          /\ Holds(fs, a[k - 1], a[k]) /\ fs[a[k]].name = p[k]
  <2> SUFFICES ASSUME NEW k \in 1 .. Len(p), a[k] # Invalid
               PROVE  /\ a[k] \in FileIds /\ a[k - 1] \in FileIds /\ a[k - 1] # Invalid
                      /\ Holds(fs, a[k - 1], a[k]) /\ fs[a[k]].name = p[k]
    OBVIOUS
  <2>1. k \in 0 .. Len(p) /\ k - 1 \in 0 .. Len(p)
    BY <1>0
  <2> QED BY <2>1 DEF Exact, Ids, Child
<1>2. \A k \in 1 .. Len(q) : b[k] # Invalid =>
          /\ b[k] \in FileIds /\ b[k - 1] \in FileIds /\ b[k - 1] # Invalid
          /\ Holds(fs, b[k - 1], b[k]) /\ fs[b[k]].name = q[k]
  <2> SUFFICES ASSUME NEW k \in 1 .. Len(q), b[k] # Invalid
               PROVE  /\ b[k] \in FileIds /\ b[k - 1] \in FileIds /\ b[k - 1] # Invalid
                      /\ Holds(fs, b[k - 1], b[k]) /\ fs[b[k]].name = q[k]
    OBVIOUS
  <2>1. k \in 0 .. Len(q) /\ k - 1 \in 0 .. Len(q)
    BY <1>0
  <2> QED BY <2>1 DEF Exact, Ids, Child
<1>3. a[0] = rt[g] /\ b[0] = rt[h]
  BY DEF Exact
<1>4. \A d \in FileIds : /\ rt[g] # Invalid => ~Holds(fs, d, rt[g])
                         /\ rt[h] # Invalid => ~Holds(fs, d, rt[h])
  BY DEF Roots
<1>5. T = {}
  <2> SUFFICES ASSUME T # {} PROVE FALSE
    OBVIOUS
  <2>1. T \subseteq Nat
    BY <1>0
  <2>2. PICK n \in T : \A l \in T : n <= l
    <3> HIDE DEF Bad
    <3> QED BY <2>1, LeastNumber
  <2>3. PICK m \in 0 .. Len(q) :
            a[n] = b[m] /\ a[n] # Invalid /\ ~(g = h /\ n = m /\ Agree(p, q, n))
    BY <2>2
  <2>4. n \in 0 .. Len(p) /\ n \in Nat /\ m \in Nat
    BY <1>0
  <2>5. CASE n = 0 \/ m = 0
    <3>1. n = 0 /\ m = 0
      <4>1. ASSUME n # 0, m = 0 PROVE FALSE
        <5>1. n \in 1 .. Len(p)
          BY <2>4, <4>1
        <5> QED BY <1>1, <1>3, <1>4, <2>3, <4>1, <5>1
      <4>2. ASSUME n = 0, m # 0 PROVE FALSE
        <5>1. m \in 1 .. Len(q)
          BY <2>4, <4>2
        <5> QED BY <1>2, <1>3, <1>4, <2>3, <4>2, <5>1
      <4> QED BY <2>5, <4>1, <4>2
    <3>2. Agree(p, q, 0)
      BY DEF Agree
    <3> QED BY <1>3, <2>3, <3>1, <3>2
  <2>6. CASE n # 0 /\ m # 0
    <3>1. /\ n \in 1 .. Len(p) /\ m \in 1 .. Len(q) /\ n - 1 \in 0 .. Len(p) /\ m - 1 \in 0 .. Len(q)
          /\ ~(n <= n - 1)
      BY <2>4, <2>6
    <3>2. /\ a[n] \in FileIds /\ a[n - 1] \in FileIds /\ a[n - 1] # Invalid
          /\ Holds(fs, a[n - 1], a[n]) /\ fs[a[n]].name = p[n]
      BY <1>1, <2>3, <3>1
    <3>3. /\ b[m] \in FileIds /\ b[m - 1] \in FileIds
          /\ Holds(fs, b[m - 1], b[m]) /\ fs[b[m]].name = q[m]
      BY <1>2, <2>3, <3>1
    <3>4. a[n - 1] = b[m - 1] /\ p[n] = q[m]
      BY <2>3, <3>2, <3>3 DEF Trees
    <3>5. ~Bad(n - 1)
      <4> HIDE DEF Bad
      <4> QED BY <2>2, <3>1
    <3>6. g = h /\ n - 1 = m - 1 /\ Agree(p, q, n - 1)
      BY <3>1, <3>2, <3>4, <3>5
    <3>7. n = m
      BY <2>4, <3>6
    <3>8. Agree(p, q, n)
      <4>1. \A k \in 1 .. n : k = n \/ k \in 1 .. n - 1
        BY <2>4
      <4> QED BY <3>4, <3>6, <3>7, <4>1 DEF Agree
    <3> QED BY <2>3, <3>6, <3>7, <3>8
  <2> QED BY <2>5, <2>6
<1> QED BY <1>5
-----------------------------------------------------------------------------
(* Lookups in a table that has changed *)

\* Everything that is found exists.
LEMMA FoundExists ==
    ASSUME NEW fs, Trees(fs), NEW rt, Roots(fs, rt), NEW h \in Groups, NEW S, NEW q \in Seq(S),
           NEW id, Exact(fs, rt[h], q, id), NEW k \in 0 .. Len(q), id[k] # Invalid
    PROVE  id[k] \in FileIds /\ fs[id[k]].type \in {"directory", "general"}
<1>1. id[k] \in FileIds
  BY DEF Exact, Ids
<1>2. CASE k = 0
  <2>1. id[k] = rt[h]
    BY <1>2 DEF Exact
  <2> QED BY <1>1, <2>1 DEF Roots, IsDirectory
<1>3. CASE k # 0
  <2>1. k \in 1 .. Len(q) /\ k - 1 \in 0 .. Len(q)
    BY <1>3
  <2>2. id[k - 1] # Invalid /\ Holds(fs, id[k - 1], id[k])
    BY <2>1 DEF Exact, Child
  <2>3. id[k - 1] \in FileIds
    BY <2>1, <2>2 DEF Exact, Ids
  <2> QED BY <1>1, <2>2, <2>3 DEF Trees
<1> QED BY <1>1, <1>2, <1>3

OneRoot(rt) == \A g, h \in Groups : rt[g] = rt[h] /\ rt[g] # Invalid => g = h

Named(fs, nx, rt) == Table(fs, nx) /\ Trees(fs) /\ Roots(fs, rt) /\ OneRoot(rt) /\ OneName(fs)

\* The entries of new files: the components of p behind the n-th, each in the one before
\* and the first in dir; the file for the k-th is base + k.
Added(p, n, base, dir, d, name, i) ==
    \E k \in n + 1 .. Len(p) :
        name = p[k] /\ i = base + k /\ d = IF k = n + 1 THEN dir ELSE base + k - 1

HasMore(fs, ft, rt, g, p, n, base, dir) ==
    /\ n \in 0 .. Len(p) /\ base \in Int
    /\ n < Len(p) => /\ dir = FoundIds(fs, rt[g], p)[n] /\ dir # Invalid /\ IsDirectory(fs, dir)
                     /\ \A i \in FileIds : ~Child(fs, dir, p[n + 1], i)
    /\ \A k \in n + 1 .. Len(p) : base + k \in FileIds /\ fs[base + k] = Absent
    /\ \A d, i \in FileIds : \A name :
           Child(ft, d, name, i) <=> Child(fs, d, name, i) \/ Added(p, n, base, dir, d, name, i)

OntoNew(g, p, n, h, q, k) == h = g /\ n < k /\ k <= Len(p) /\ Agree(p, q, k)
WithMore(fs, rt, g, p, n, base, h, q) ==
    [k \in 0 .. Len(q) |->
        IF OntoNew(g, p, n, h, q, k) THEN base + k ELSE FoundIds(fs, rt[h], q)[k]]

LEMMA AddedOnly ==
    ASSUME NEW fs, NEW ft, NEW rt, NEW g, NEW S, NEW p \in Seq(S), NEW n, NEW base, NEW dir,
           HasMore(fs, ft, rt, g, p, n, base, dir),
           NEW d, NEW name, NEW i, Added(p, n, base, dir, d, name, i)
    PROVE  \/ /\ n < Len(p) /\ d = dir /\ name = p[n + 1] /\ i = base + n + 1
              /\ fs[d].type = "directory"
           \/ \E k \in n + 2 .. Len(p) :
                 name = p[k] /\ i = base + k /\ d = base + k - 1 /\ fs[d].type = "absent"
<1>1. n \in Nat /\ Len(p) \in Nat /\ base \in Int
  BY DEF HasMore
<1>2. PICK k \in n + 1 .. Len(p) :
         name = p[k] /\ i = base + k /\ d = IF k = n + 1 THEN dir ELSE base + k - 1
  BY DEF Added
<1>3. CASE k = n + 1
  <2>1. n < Len(p) /\ base + k = base + n + 1
    BY <1>1, <1>3
  <2>2. fs[dir].type = "directory"
    BY <2>1 DEF HasMore, IsDirectory
  <2> QED BY <1>2, <1>3, <2>1, <2>2
<1>4. CASE k # n + 1
  <2>1. k \in n + 2 .. Len(p) /\ k - 1 \in n + 1 .. Len(p) /\ base + (k - 1) = base + k - 1
    BY <1>1, <1>4
  <2>2. fs[base + (k - 1)] = Absent
    BY <2>1 DEF HasMore
  <2> QED BY <1>2, <1>4, <2>1, <2>2, AbsentFields
<1> QED BY <1>3, <1>4

LEMMA MoreOneName ==
    ASSUME NEW fs, OneName(fs), NEW ft, NEW rt, NEW g, NEW S, NEW p \in Seq(S), NEW n, NEW base,
           NEW dir, HasMore(fs, ft, rt, g, p, n, base, dir)
    PROVE  OneName(ft)
<1> SUFFICES ASSUME NEW d \in FileIds, NEW i \in FileIds, NEW j \in FileIds, NEW name,
                    Child(ft, d, name, i), Child(ft, d, name, j)
             PROVE  i = j
  BY DEF OneName
<1> DEFINE New(x) == Added(p, n, base, dir, d, name, x)
           First(x) == /\ n < Len(p) /\ d = dir /\ name = p[n + 1] /\ x = base + n + 1
                       /\ fs[d].type = "directory"
           Later(x) == \E k \in n + 2 .. Len(p) :
                          name = p[k] /\ x = base + k /\ d = base + k - 1 /\ fs[d].type = "absent"
<1>0. n \in Nat /\ Len(p) \in Nat /\ base \in Int
  BY DEF HasMore
<1>1. /\ Child(fs, d, name, i) \/ New(i)
      /\ Child(fs, d, name, j) \/ New(j)
  BY DEF HasMore
<1>2. \A x : New(x) => First(x) \/ Later(x)
  BY AddedOnly
<1>3. \A x : Child(fs, d, name, x) => fs[d].type = "directory"
  BY DEF Child, Holds, IsDirectory
<1>4. \A x \in FileIds : ~(Child(fs, d, name, x) /\ \E y : First(y))
  BY DEF HasMore
<1>5. \A x, y : Later(x) /\ Later(y) => x = y
  BY <1>0
<1>6. \A x, y : First(x) /\ First(y) => x = y
  OBVIOUS
<1>7. \A x, y : Later(x) => fs[d].type = "absent" /\ ~First(y)
  OBVIOUS
<1> HIDE DEF New, First, Later
<1>8. CASE Child(fs, d, name, i) /\ Child(fs, d, name, j)
  BY <1>8 DEF OneName
<1>9. CASE Child(fs, d, name, i) /\ New(j)
  BY <1>2, <1>3, <1>4, <1>7, <1>9
<1>10. CASE Child(fs, d, name, j) /\ New(i)
  BY <1>2, <1>3, <1>4, <1>7, <1>10
<1>11. CASE New(i) /\ New(j)
  BY <1>2, <1>5, <1>6, <1>7, <1>11
<1> QED BY <1>1, <1>8, <1>9, <1>10, <1>11

LEMMA MoreExact ==
    ASSUME NEW fs, NEW nx, NEW rt, Named(fs, nx, rt), NEW ft,
           NEW g \in Groups, NEW S, NEW p \in Seq(S), NEW n, NEW base, NEW dir,
           HasMore(fs, ft, rt, g, p, n, base, dir),
           NEW h \in Groups, NEW q \in Seq(S)
    PROVE  /\ Exact(ft, rt[h], q, WithMore(fs, rt, g, p, n, base, h, q))
           /\ \A k \in 0 .. Len(q) :
                  OntoNew(g, p, n, h, q, k) => FoundIds(fs, rt[h], q)[k] = Invalid
<1> DEFINE id == FoundIds(fs, rt[h], q)
           pd == FoundIds(fs, rt[g], p)
           jd == WithMore(fs, rt, g, p, n, base, h, q)
           Onto(k) == OntoNew(g, p, n, h, q, k)
<1>0. /\ n \in 0 .. Len(p) /\ n \in Nat /\ Len(p) \in Nat /\ base \in Int /\ Len(q) \in Nat
      /\ Invalid \notin FileIds
  BY IdsAreNumbers DEF HasMore
<1>1. Exact(fs, rt[h], q, id) /\ Exact(fs, rt[g], p, pd)
  <2>1. rt[h] \in Ids /\ rt[g] \in Ids
    BY DEF Named, Roots, Ids
  <2> QED BY <2>1, LookupExact DEF Named
<1>2. \A k \in 0 .. Len(q) : jd[k] = IF Onto(k) THEN base + k ELSE id[k]
  BY DEF WithMore
<1> HIDE DEF id, pd, jd
<1>d. n < Len(p) => dir = pd[n] /\ dir # Invalid /\ IsDirectory(fs, dir)
                    /\ \A i \in FileIds : ~Child(fs, dir, p[n + 1], i)
  BY DEF HasMore, pd
<1>3. ASSUME h = g, n < Len(p), n <= Len(q), Agree(p, q, n) PROVE id[n] = dir
  BY <1>0, <1>1, <1>3, <1>d, ExactAgrees
<1>4. ASSUME NEW k \in 0 .. Len(q), Onto(k) PROVE id[k] = Invalid
  <2>1. /\ n < Len(p) /\ n <= Len(q) /\ Agree(p, q, n) /\ h = g
        /\ n + 1 \in 0 .. k /\ n + 1 \in 1 .. Len(q) /\ (n + 1) - 1 = n /\ q[n + 1] = p[n + 1]
    BY <1>0, <1>4 DEF OntoNew, Agree
  <2>2. id[n] = dir
    BY <1>3, <2>1
  <2> SUFFICES ASSUME id[k] # Invalid PROVE FALSE
    OBVIOUS
  <2>3. id[n + 1] # Invalid
    BY <1>1, <2>1, ExactPast
  <2>4. id[n + 1] \in FileIds
    BY <1>1, <2>1, <2>3 DEF Exact, Ids
  <2>5. Child(fs, dir, p[n + 1], id[n + 1])
    BY <1>1, <2>1, <2>2, <2>3 DEF Exact
  <2> QED BY <1>d, <2>1, <2>4, <2>5
<1>5. ASSUME NEW k \in 0 .. Len(q), n < Len(p), id[k] = dir PROVE h = g /\ k = n /\ Agree(p, q, n)
  <2>1. rt[g] = rt[h] /\ rt[g] # Invalid => g = h
    BY DEF Named, OneRoot
  <2>2. pd[n] = id[k] /\ pd[n] # Invalid
    BY <1>5, <1>d
  <2> QED BY <1>0, <1>1, <2>1, <2>2, OnePath DEF Named
<1>6. \A k \in 0 .. Len(q) : Onto(k) => base + k \in FileIds /\ fs[base + k].type = "absent"
  <2> SUFFICES ASSUME NEW k \in 0 .. Len(q), Onto(k)
               PROVE  base + k \in FileIds /\ fs[base + k].type = "absent"
    OBVIOUS
  <2>1. k \in n + 1 .. Len(p)
    BY <1>0 DEF OntoNew
  <2> QED BY <2>1, AbsentFields DEF HasMore
<1>7. \A d, i \in FileIds : \A name :
          Child(ft, d, name, i) <=> Child(fs, d, name, i) \/ Added(p, n, base, dir, d, name, i)
  BY DEF HasMore
<1>8. \A k \in 0 .. Len(q) : jd[k] \in Ids
  BY <1>1, <1>2, <1>6 DEF Ids, Exact
<1>9. jd[0] = rt[h]
  <2>1. ~Onto(0) /\ 0 \in 0 .. Len(q)
    BY <1>0 DEF OntoNew
  <2> QED BY <1>1, <1>2, <2>1 DEF Exact
<1>10. ASSUME NEW k \in 1 .. Len(q), jd[k] # Invalid
       PROVE  jd[k - 1] # Invalid /\ Child(ft, jd[k - 1], q[k], jd[k])
  <2>0. k \in 0 .. Len(q) /\ k - 1 \in 0 .. Len(q) /\ jd[k] \in FileIds
    BY <1>8, <1>10 DEF Ids
  <2>1. CASE Onto(k)
    <3>0. jd[k] = base + k /\ q[k] = p[k] /\ k \in n + 1 .. Len(p) /\ h = g
      BY <1>0, <1>2, <2>0, <2>1 DEF OntoNew, Agree
    <3>1. CASE k = n + 1
      <4>1. k - 1 = n /\ ~Onto(k - 1) /\ n < Len(p) /\ n <= Len(q) /\ Agree(p, q, n)
        BY <1>0, <2>1, <3>0, <3>1 DEF OntoNew, Agree
      <4>2. jd[k - 1] = dir
        BY <1>2, <1>3, <2>0, <3>0, <4>1
      <4>3. dir # Invalid /\ dir \in Ids
        BY <1>8, <1>d, <2>0, <4>1, <4>2
      <4>4. Added(p, n, base, dir, dir, q[k], jd[k])
        BY <3>0, <3>1 DEF Added
      <4> QED BY <1>7, <2>0, <4>2, <4>3, <4>4 DEF Ids
    <3>2. CASE k # n + 1
      <4>0. /\ k \in Nat /\ n < k - 1 /\ k - 1 <= Len(p) /\ base + (k - 1) = base + k - 1
            /\ \A m \in 1 .. k - 1 : m \in 1 .. k
        BY <1>0, <3>0, <3>2
      <4>1. Onto(k - 1)
        BY <2>1, <4>0 DEF OntoNew, Agree
      <4>2. jd[k - 1] = base + k - 1 /\ jd[k - 1] \in FileIds
        BY <1>2, <1>6, <2>0, <4>0, <4>1
      <4>3. Added(p, n, base, dir, jd[k - 1], q[k], jd[k])
        BY <3>0, <3>2, <4>2 DEF Added
      <4> QED BY <1>0, <1>7, <2>0, <4>2, <4>3
    <3> QED BY <3>1, <3>2
  <2>2. CASE ~Onto(k)
    <3>1. jd[k] = id[k]
      BY <1>2, <2>0, <2>2
    <3>2. id[k - 1] # Invalid /\ Child(fs, id[k - 1], q[k], id[k])
      BY <1>1, <1>10, <3>1 DEF Exact
    <3>3. ~Onto(k - 1)
      BY <1>4, <2>0, <3>2
    <3>4. jd[k - 1] = id[k - 1]
      BY <1>2, <2>0, <3>3
    <3>5. jd[k - 1] \in FileIds
      BY <1>8, <2>0, <3>2, <3>4 DEF Ids
    <3> QED BY <1>7, <2>0, <3>1, <3>2, <3>4, <3>5
  <2> QED BY <2>1, <2>2
<1>11. ASSUME NEW k \in 1 .. Len(q), NEW i \in FileIds,
              jd[k - 1] # Invalid, Child(ft, jd[k - 1], q[k], i)
       PROVE  jd[k] = i
  <2>0. k \in 0 .. Len(q) /\ k - 1 \in 0 .. Len(q) /\ k \in Nat
    OBVIOUS
  <2>d. jd[k - 1] \in FileIds
    BY <1>8, <1>11, <2>0 DEF Ids
  <2>c. Child(fs, jd[k - 1], q[k], i) \/ Added(p, n, base, dir, jd[k - 1], q[k], i)
    BY <1>7, <1>11, <2>d
  <2> DEFINE First == /\ n < Len(p) /\ jd[k - 1] = dir /\ q[k] = p[n + 1] /\ i = base + n + 1
                      /\ fs[jd[k - 1]].type = "directory"
             Later == \E l \in n + 2 .. Len(p) :
                          q[k] = p[l] /\ i = base + l /\ jd[k - 1] = base + l - 1
                          /\ fs[jd[k - 1]].type = "absent"
  <2>a. Added(p, n, base, dir, jd[k - 1], q[k], i) => First \/ Later
    BY AddedOnly
  <2>1. CASE Onto(k - 1)
    <3>1. jd[k - 1] = base + (k - 1) /\ fs[jd[k - 1]].type = "absent"
      BY <1>2, <1>6, <2>0, <2>1
    <3>2. Later
      <4>1. ~Child(fs, jd[k - 1], q[k], i)
        BY <3>1 DEF Child, Holds, IsDirectory
      <4> QED BY <2>a, <2>c, <3>1, <4>1
    <3>3. PICK l \in n + 2 .. Len(p) : q[k] = p[l] /\ i = base + l /\ jd[k - 1] = base + l - 1
      BY <3>2
    <3>4. l = k
      BY <1>0, <2>0, <3>1, <3>3
    <3>5. Onto(k)
      <4>1. h = g /\ Agree(p, q, k - 1) /\ n < k /\ k <= Len(p) /\ p[k] = q[k]
        BY <1>0, <2>0, <2>1, <3>3, <3>4 DEF OntoNew
      <4>2. \A m \in 1 .. k : m = k \/ m \in 1 .. k - 1
        BY <2>0
      <4>3. Agree(p, q, k)
        BY <4>1, <4>2 DEF Agree
      <4> QED BY <4>1, <4>3 DEF OntoNew
    <3> QED BY <1>2, <2>0, <3>3, <3>4, <3>5
  <2>2. CASE ~Onto(k - 1)
    <3>1. jd[k - 1] = id[k - 1]
      BY <1>2, <2>0, <2>2
    <3>2. CASE Child(fs, id[k - 1], q[k], i)
      <4>1. id[k] = i
        BY <1>1, <1>11, <3>1, <3>2 DEF Exact
      <4>2. ~Onto(k)
        BY <1>0, <1>4, <2>0, <4>1
      <4> QED BY <1>2, <2>0, <4>1, <4>2
    <3>3. CASE ~Child(fs, id[k - 1], q[k], i)
      <4>1. fs[id[k - 1]].type \in {"directory", "general"}
        BY <1>1, <1>11, <2>0, <3>1, FoundExists DEF Named
      <4>2. First
        BY <2>a, <2>c, <3>1, <3>3, <4>1
      <4>3. h = g /\ k - 1 = n /\ Agree(p, q, n)
        BY <1>5, <2>0, <3>1, <4>2
      <4>4. k = n + 1
        BY <1>0, <2>0, <4>3
      <4>5. Agree(p, q, k)
        <5>1. \A m \in 1 .. k : m = k \/ m \in 1 .. n
          BY <1>0, <4>4
        <5> QED BY <4>2, <4>3, <4>4, <5>1 DEF Agree
      <4>6. Onto(k)
        BY <1>0, <4>2, <4>3, <4>4, <4>5 DEF OntoNew
      <4> QED BY <1>0, <1>2, <2>0, <4>2, <4>4, <4>6
    <3> QED BY <3>2, <3>3
  <2> QED BY <2>1, <2>2
<1>12. Exact(ft, rt[h], q, jd)
  BY <1>8, <1>9, <1>10, <1>11 DEF Exact
<1> QED BY <1>4, <1>12 DEF jd, id

\* The file that p leads to is gone from its directory and from the table.
HasLess(fs, ft, id) ==
    \A d, i \in FileIds : \A name :
        Child(ft, d, name, i) <=> Child(fs, d, name, i) /\ i # id /\ d # id

Below(g, p, h, q, k) == h = g /\ Len(p) <= k /\ Agree(p, q, Len(p))
WithLess(fs, rt, g, p, h, q) ==
    [k \in 0 .. Len(q) |-> IF Below(g, p, h, q, k) THEN Invalid ELSE FoundIds(fs, rt[h], q)[k]]

LEMMA LessOneName ==
    ASSUME NEW fs, OneName(fs), NEW ft, NEW id, HasLess(fs, ft, id)
    PROVE  OneName(ft)
BY DEF OneName, HasLess

LEMMA LessExact ==
    ASSUME NEW fs, NEW nx, NEW rt, Named(fs, nx, rt), NEW ft,
           NEW g \in Groups, NEW S, NEW p \in Seq(S), Len(p) # 0,
           NEW gone, gone = FoundIds(fs, rt[g], p)[Len(p)], gone # Invalid,
           HasLess(fs, ft, gone), NEW h \in Groups, NEW q \in Seq(S)
    PROVE  Exact(ft, rt[h], q, WithLess(fs, rt, g, p, h, q))
<1> DEFINE id == FoundIds(fs, rt[h], q)
           pd == FoundIds(fs, rt[g], p)
           jd == WithLess(fs, rt, g, p, h, q)
           Cut(k) == Below(g, p, h, q, k)
<1>0. Len(p) \in Nat /\ Len(p) \in 0 .. Len(p) /\ Len(q) \in Nat /\ Invalid \notin FileIds
  BY IdsAreNumbers
<1>1. Exact(fs, rt[h], q, id) /\ Exact(fs, rt[g], p, pd)
  <2>1. rt[h] \in Ids /\ rt[g] \in Ids
    BY DEF Named, Roots, Ids
  <2> QED BY <2>1, LookupExact DEF Named
<1>2. \A k \in 0 .. Len(q) : jd[k] = IF Cut(k) THEN Invalid ELSE id[k]
  BY DEF WithLess
<1>3. pd[Len(p)] = gone
  OBVIOUS
<1> HIDE DEF id, pd, jd
<1>4. ASSUME NEW k \in 0 .. Len(q), id[k] = gone PROVE Cut(k)
  <2>1. rt[g] = rt[h] /\ rt[g] # Invalid => g = h
    BY DEF Named, OneRoot
  <2>2. pd[Len(p)] = id[k] /\ pd[Len(p)] # Invalid
    BY <1>3, <1>4
  <2>3. g = h /\ Len(p) = k /\ Agree(p, q, Len(p))
    BY <1>0, <1>1, <2>1, <2>2, OnePath DEF Named
  <2> QED BY <1>0, <2>3 DEF Below
<1>5. \A k \in 1 .. Len(q) : Cut(k - 1) => Cut(k)
  BY <1>0 DEF Below
<1>6. ASSUME NEW k \in 1 .. Len(q), Cut(k), ~Cut(k - 1) PROVE id[k] = gone
  <2>1. k = Len(p) /\ h = g /\ Agree(p, q, Len(p)) /\ Len(p) <= Len(q)
    BY <1>0, <1>6 DEF Below
  <2>2. id[Len(p)] = pd[Len(p)]
    BY <1>0, <1>1, <2>1, ExactAgrees
  <2> QED BY <1>3, <2>1, <2>2
<1>7. \A k \in 0 .. Len(q) : jd[k] \in Ids
  BY <1>1, <1>2 DEF Ids, Exact
<1>8. jd[0] = rt[h]
  <2>1. ~Cut(0) /\ 0 \in 0 .. Len(q)
    BY <1>0 DEF Below
  <2> QED BY <1>1, <1>2, <2>1 DEF Exact
<1> HIDE DEF Cut
<1>9. ASSUME NEW k \in 1 .. Len(q), jd[k] # Invalid
      PROVE  jd[k - 1] # Invalid /\ Child(ft, jd[k - 1], q[k], jd[k])
  <2>1. k \in 0 .. Len(q) /\ k - 1 \in 0 .. Len(q)
    OBVIOUS
  <2>2. ~Cut(k) /\ ~Cut(k - 1)
    BY <1>2, <1>5, <1>9, <2>1
  <2>3. jd[k] = id[k] /\ jd[k - 1] = id[k - 1]
    BY <1>2, <2>1, <2>2
  <2>4. id[k - 1] # Invalid /\ Child(fs, id[k - 1], q[k], id[k])
    BY <1>1, <1>9, <2>3 DEF Exact
  <2>5. id[k] # gone /\ id[k - 1] # gone
    BY <1>4, <2>1, <2>2
  <2>6. id[k] \in FileIds /\ id[k - 1] \in FileIds
    BY <1>7, <1>9, <2>1, <2>3, <2>4 DEF Ids
  <2> QED BY <2>3, <2>4, <2>5, <2>6 DEF HasLess
<1>10. ASSUME NEW k \in 1 .. Len(q), NEW i \in FileIds,
              jd[k - 1] # Invalid, Child(ft, jd[k - 1], q[k], i)
       PROVE  jd[k] = i
  <2>1. k \in 0 .. Len(q) /\ k - 1 \in 0 .. Len(q)
    OBVIOUS
  <2>2. ~Cut(k - 1) /\ jd[k - 1] = id[k - 1]
    BY <1>2, <1>10, <2>1
  <2>3. jd[k - 1] \in FileIds
    BY <1>7, <1>10, <2>1 DEF Ids
  <2>4. Child(fs, id[k - 1], q[k], i) /\ i # gone
    BY <1>10, <2>2, <2>3 DEF HasLess
  <2>5. id[k] = i
    BY <1>1, <1>10, <2>2, <2>4 DEF Exact
  <2>6. ~Cut(k)
    BY <1>6, <2>2, <2>4, <2>5
  <2> QED BY <1>2, <2>1, <2>5, <2>6
<1>11. Exact(ft, rt[h], q, jd)
  BY <1>7, <1>8, <1>9, <1>10 DEF Exact
<1> QED BY <1>11 DEF jd

-----------------------------------------------------------------------------
(* The paths there are *)

Leads(fs, rt, g, q) == rt[g] # Invalid /\ GetFileId(fs, rt[g], q) # Invalid
TypeAt(fs, rt, g, q) == fs[GetFileId(fs, rt[g], q)].type

\* The paths of a table are those that lead to a file.
LEMMA PathsAre ==
    ASSUME NEW fs, NEW rt
    PROVE  \A e : e \in PathsOf(fs, rt) <=>
               \E g \in Groups, q \in FullPaths :
                   Leads(fs, rt, g, q) /\ e = <<g, q, TypeAt(fs, rt, g, q)>>
<1> DEFINE Q == {e \in Groups \X FullPaths :
                    rt[e[1]] # Invalid /\ GetFileId(fs, rt[e[1]], e[2]) # Invalid}
<1>1. PathsOf(fs, rt) = {<<q[1], q[2], fs[GetFileId(fs, rt[q[1]], q[2])].type>> : q \in Q}
  BY DEF PathsOf
<1>2. \A e : e \in PathsOf(fs, rt) <=>
          \E q \in Q : e = <<q[1], q[2], fs[GetFileId(fs, rt[q[1]], q[2])].type>>
  BY <1>1
<1> SUFFICES ASSUME NEW e
             PROVE  (\E q \in Q : e = <<q[1], q[2], fs[GetFileId(fs, rt[q[1]], q[2])].type>>) <=>
                    \E g \in Groups, q \in FullPaths :
                        Leads(fs, rt, g, q) /\ e = <<g, q, TypeAt(fs, rt, g, q)>>
  BY <1>2
<1>3. ASSUME NEW q \in Q, e = <<q[1], q[2], fs[GetFileId(fs, rt[q[1]], q[2])].type>>
      PROVE  \E g \in Groups, r \in FullPaths :
                 Leads(fs, rt, g, r) /\ e = <<g, r, TypeAt(fs, rt, g, r)>>
  <2>1. q[1] \in Groups /\ q[2] \in FullPaths
    OBVIOUS
  <2>2. Leads(fs, rt, q[1], q[2]) /\ e = <<q[1], q[2], TypeAt(fs, rt, q[1], q[2])>>
    BY <1>3 DEF Leads, TypeAt
  <2> QED BY <2>1, <2>2
<1>4. ASSUME NEW g \in Groups, NEW r \in FullPaths,
             Leads(fs, rt, g, r), e = <<g, r, TypeAt(fs, rt, g, r)>>
      PROVE  \E q \in Q : e = <<q[1], q[2], fs[GetFileId(fs, rt[q[1]], q[2])].type>>
  <2>1. <<g, r>> \in Q
    BY <1>4 DEF Leads
  <2>2. e = <<<<g, r>>[1], <<g, r>>[2], fs[GetFileId(fs, rt[<<g, r>>[1]], <<g, r>>[2])].type>>
    BY <1>4 DEF TypeAt
  <2> HIDE DEF Q
  <2> QED BY <2>1, <2>2
<1> QED BY <1>3, <1>4

Parts == Names \cup {""}

LEMMA FullPathsAre ==
    /\ \A s \in Spellings : FilePath(s) \in Seq(Parts) /\ FilePath(s) \in FullPaths
    /\ FullPaths \subseteq Seq(Parts)
    /\ \A q \in FullPaths : \A n \in 0 .. Len(q) : SubSeq(q, 1, n) \in FullPaths
<1>1. ASSUME NEW s \in Spellings PROVE FilePath(s) \in Seq(Parts)
  <2>1. s \in Seq(Parts)
    BY FileTreeAssumption DEF Parts
  <2> QED BY <2>1, FilePathIs
<1>2. \A q : q \in FullPaths <=>
          \E s \in Spellings : \E l \in 0 .. Len(FilePath(s)) : q = SubSeq(FilePath(s), 1, l)
  BY DEF FullPaths, Prefixes
<1>3. ASSUME NEW s \in Spellings PROVE FilePath(s) \in FullPaths
  <2>1. PICK p \in Seq(Parts) : p = FilePath(s)
    BY <1>1
  <2>2. Len(p) \in 0 .. Len(p) /\ p = SubSeq(p, 1, Len(p))
    OBVIOUS
  <2> QED BY <1>2, <2>1, <2>2
<1>4. ASSUME NEW q \in FullPaths
      PROVE  q \in Seq(Parts) /\ \A n \in 0 .. Len(q) : SubSeq(q, 1, n) \in FullPaths
  <2>1. PICK s \in Spellings : \E l \in 0 .. Len(FilePath(s)) : q = SubSeq(FilePath(s), 1, l)
    BY <1>2
  <2>2. PICK p \in Seq(Parts) : p = FilePath(s)
    BY <1>1
  <2>3. PICK l \in 0 .. Len(p) : q = SubSeq(p, 1, l)
    BY <2>1, <2>2
  <2>4. q \in Seq(Parts) /\ Len(q) = l
    BY <2>3
  <2>5. ASSUME NEW n \in 0 .. Len(q) PROVE SubSeq(q, 1, n) \in FullPaths
    <3>1. SubSeq(q, 1, n) = SubSeq(p, 1, n) /\ n \in 0 .. Len(p)
      BY <2>3, <2>4
    <3> QED BY <1>2, <2>2, <3>1
  <2> QED BY <2>4, <2>5
<1> QED BY <1>1, <1>3, <1>4

LEMMA AgreeIs ==
    ASSUME NEW S, NEW p \in Seq(S), NEW q \in Seq(S)
    PROVE  /\ \A k \in 0 .. Len(p) :
                  q = SubSeq(p, 1, k) <=> Len(q) = k /\ Agree(p, q, k)
           /\ Len(p) <= Len(q) =>
                  (SubSeq(q, 1, Len(p)) = p <=> Agree(p, q, Len(p)))
<1>1. ASSUME NEW k \in 0 .. Len(p)
      PROVE  q = SubSeq(p, 1, k) <=> Len(q) = k /\ Agree(p, q, k)
  <2> DEFINE r == SubSeq(p, 1, k)
  <2>1. r \in Seq(S) /\ Len(r) = k /\ \A m \in 1 .. k : r[m] = p[m]
    OBVIOUS
  <2> HIDE DEF r
  <2>2. ASSUME Len(q) = k, Agree(p, q, k) PROVE q = r
    BY <2>1, <2>2 DEF Agree
  <2>3. ASSUME q = r PROVE Len(q) = k /\ Agree(p, q, k)
    BY <2>1, <2>3 DEF Agree
  <2> QED BY <2>2, <2>3 DEF r
<1>2. ASSUME Len(p) <= Len(q)
      PROVE  SubSeq(q, 1, Len(p)) = p <=> Agree(p, q, Len(p))
  <2> DEFINE n == Len(p)
             r == SubSeq(q, 1, n)
  <2>1. r \in Seq(S) /\ Len(r) = n /\ \A m \in 1 .. n : r[m] = q[m]
    BY <1>2
  <2> HIDE DEF r
  <2>2. ASSUME Agree(p, q, n) PROVE r = p
    BY <2>1, <2>2 DEF Agree
  <2>3. ASSUME r = p PROVE Agree(p, q, n)
    BY <2>1, <2>3 DEF Agree
  <2> QED BY <2>2, <2>3 DEF r
<1> QED BY <1>1, <1>2

LEMMA MorePaths ==
    ASSUME NEW fs, NEW nx, NEW rt, Named(fs, nx, rt), NEW ft, NEW mx, Table(ft, mx), Trees(ft),
           NEW g \in Groups, NEW p \in FullPaths, NEW n, NEW base, NEW dir,
           HasMore(fs, ft, rt, g, p, n, base, dir),
           rt[g] # Invalid,
           \A i \in FileIds : fs[i].type # "absent" => ft[i].type = fs[i].type
    PROVE  PathsOf(ft, rt) = PathsOf(fs, rt)
               \cup {<<g, SubSeq(p, 1, k), ft[base + k].type>> : k \in n + 1 .. Len(p)}
<1> DEFINE new == {<<g, SubSeq(p, 1, k), ft[base + k].type>> : k \in n + 1 .. Len(p)}
<1>0. /\ p \in Seq(Parts) /\ FullPaths \subseteq Seq(Parts)
      /\ n \in Nat /\ Len(p) \in Nat /\ base \in Int /\ Invalid \notin FileIds
  BY FullPathsAre, IdsAreNumbers DEF HasMore
<1>1. OneName(ft)
  BY <1>0, MoreOneName DEF Named
<1>2. ASSUME NEW h \in Groups, NEW q \in FullPaths
      PROVE  LET onto == OntoNew(g, p, n, h, q, Len(q))
             IN  /\ GetFileId(ft, rt[h], q) = IF onto THEN base + Len(q) ELSE GetFileId(fs, rt[h], q)
                 /\ onto => GetFileId(fs, rt[h], q) = Invalid
  <2>1. q \in Seq(Parts) /\ Len(q) \in Nat /\ Len(q) \in 0 .. Len(q)
    BY <1>0
  <2>2. rt[h] \in Ids
    BY DEF Named, Roots, Ids
  <2>3. Exact(ft, rt[h], q, FoundIds(ft, rt[h], q))
    BY <1>1, <2>1, <2>2, LookupExact
  <2>p. p \in Seq(Parts)
    BY <1>0
  <2>e. Exact(ft, rt[h], q, WithMore(fs, rt, g, p, n, base, h, q))
    BY <2>p, <2>1, MoreExact
  <2>4. OntoNew(g, p, n, h, q, Len(q)) => FoundIds(fs, rt[h], q)[Len(q)] = Invalid
    BY <2>p, <2>1, MoreExact
  <2>5. Agree(q, q, Len(q))
    BY DEF Agree
  <2>6. FoundIds(ft, rt[h], q)[Len(q)] = WithMore(fs, rt, g, p, n, base, h, q)[Len(q)]
    BY <2>1, <2>3, <2>e, <2>5, ExactAgrees
  <2>7. WithMore(fs, rt, g, p, n, base, h, q)[Len(q)] =
            IF OntoNew(g, p, n, h, q, Len(q)) THEN base + Len(q) ELSE FoundIds(fs, rt[h], q)[Len(q)]
    BY <2>1 DEF WithMore
  <2> QED BY <2>1, <2>4, <2>6, <2>7 DEF GetFileId
<1>3. ASSUME NEW h \in Groups, NEW q \in FullPaths, Leads(fs, rt, h, q)
      PROVE  TypeAt(ft, rt, h, q) = TypeAt(fs, rt, h, q) /\ Leads(ft, rt, h, q)
  <2>1. q \in Seq(Parts) /\ Len(q) \in Nat /\ Len(q) \in 0 .. Len(q)
    BY <1>0
  <2>2. rt[h] \in Ids
    BY DEF Named, Roots, Ids
  <2>3. Exact(fs, rt[h], q, FoundIds(fs, rt[h], q))
    BY <2>1, <2>2, LookupExact DEF Named
  <2>4. LET i == GetFileId(fs, rt[h], q)
        IN  i \in FileIds /\ fs[i].type \in {"directory", "general"}
    BY <1>3, <2>1, <2>3, FoundExists DEF Named, Leads, GetFileId
  <2>5. GetFileId(ft, rt[h], q) = GetFileId(fs, rt[h], q)
    BY <1>2, <1>3 DEF Leads
  <2> QED BY <1>3, <2>4, <2>5 DEF Leads, TypeAt
<1>4. ASSUME NEW h \in Groups, NEW q \in FullPaths, OntoNew(g, p, n, h, q, Len(q))
      PROVE  /\ Leads(ft, rt, h, q) /\ <<h, q, TypeAt(ft, rt, h, q)>> \in new
  <2>1. q \in Seq(Parts) /\ Len(q) \in Nat /\ Len(q) \in n + 1 .. Len(p) /\ Len(q) \in 0 .. Len(p)
    BY <1>0, <1>4 DEF OntoNew
  <2>2. q = SubSeq(p, 1, Len(q)) /\ h = g
    BY <1>0, <1>4, <2>1, AgreeIs DEF OntoNew
  <2>3. GetFileId(ft, rt[h], q) = base + Len(q)
    BY <1>2, <1>4
  <2>4. base + Len(q) \in FileIds
    BY <2>1 DEF HasMore
  <2>5. PICK k \in n + 1 .. Len(p) : k = Len(q)
    BY <2>1
  <2>6. <<h, q, TypeAt(ft, rt, h, q)>> = <<g, SubSeq(p, 1, k), ft[base + k].type>>
    BY <2>2, <2>3, <2>5 DEF TypeAt
  <2> QED BY <1>0, <2>2, <2>3, <2>4, <2>6 DEF Leads
<1>5. ASSUME NEW e \in new PROVE e \in PathsOf(ft, rt)
  <2>1. PICK k \in n + 1 .. Len(p) : e = <<g, SubSeq(p, 1, k), ft[base + k].type>>
    OBVIOUS
  <2>2. k \in 0 .. Len(p) /\ n < k /\ k <= Len(p)
    BY <1>0
  <2>3. PICK q \in FullPaths : q = SubSeq(p, 1, k)
    BY <2>2, FullPathsAre
  <2>4. Len(q) = k /\ Agree(p, q, k)
    <3>1. p \in Seq(Parts) /\ q \in Seq(Parts)
      BY <1>0
    <3>2. \A m \in 0 .. Len(p) : q = SubSeq(p, 1, m) <=> Len(q) = m /\ Agree(p, q, m)
      BY ONLY <3>1, AgreeIs, Zenon
    <3> QED BY <2>2, <2>3, <3>2, Zenon
  <2>5. OntoNew(g, p, n, g, q, Len(q))
    BY <2>2, <2>4 DEF OntoNew
  <2>6. GetFileId(ft, rt[g], q) = base + k
    BY <1>2, <2>4, <2>5
  <2>7. Leads(ft, rt, g, q)
    BY <1>4, <2>5
  <2>8. e = <<g, q, TypeAt(ft, rt, g, q)>>
    BY <2>1, <2>3, <2>6 DEF TypeAt
  <2> QED BY <2>7, <2>8, PathsAre
<1> HIDE DEF new
<1>6. ASSUME NEW e \in PathsOf(fs, rt) PROVE e \in PathsOf(ft, rt)
  <2>1. PICK h \in Groups, q \in FullPaths : Leads(fs, rt, h, q) /\ e = <<h, q, TypeAt(fs, rt, h, q)>>
    BY PathsAre
  <2>2. Leads(ft, rt, h, q) /\ e = <<h, q, TypeAt(ft, rt, h, q)>>
    BY <1>3, <2>1
  <2> QED BY <2>2, PathsAre
<1>7. ASSUME NEW e \in PathsOf(ft, rt) PROVE e \in PathsOf(fs, rt) \cup new
  <2>1. PICK h \in Groups, q \in FullPaths : Leads(ft, rt, h, q) /\ e = <<h, q, TypeAt(ft, rt, h, q)>>
    BY PathsAre
  <2>2. CASE OntoNew(g, p, n, h, q, Len(q))
    BY <1>4, <2>1, <2>2
  <2>3. CASE ~OntoNew(g, p, n, h, q, Len(q))
    <3>1. Leads(fs, rt, h, q)
      BY <1>2, <2>1, <2>3 DEF Leads
    <3>2. e = <<h, q, TypeAt(fs, rt, h, q)>>
      BY <1>3, <2>1, <3>1
    <3>3. e \in PathsOf(fs, rt)
      BY <3>1, <3>2, PathsAre
    <3> QED BY <3>3
  <2> QED BY <2>2, <2>3
<1>8. PathsOf(ft, rt) = PathsOf(fs, rt) \cup new
  BY <1>5, <1>6, <1>7
<1> QED BY <1>8 DEF new

LEMMA LessPaths ==
    ASSUME NEW fs, NEW nx, NEW rt, Named(fs, nx, rt), NEW ft, NEW mx, Table(ft, mx), Trees(ft),
           Roots(ft, rt), NEW g \in Groups, NEW p \in FullPaths, Len(p) # 0,
           NEW gone, gone = GetFileId(fs, rt[g], p), gone # Invalid, HasLess(fs, ft, gone),
           \A i \in FileIds : ft[i].type \in {fs[i].type, "absent"}
    PROVE  PathsOf(ft, rt) =
               {e \in PathsOf(fs, rt) : ~(e[1] = g /\ Store!IsPrefix(p, e[2]))}
<1> DEFINE left == {e \in PathsOf(fs, rt) : ~(e[1] = g /\ Store!IsPrefix(p, e[2]))}
<1>0. p \in Seq(Parts) /\ FullPaths \subseteq Seq(Parts) /\ Len(p) \in Nat
  BY FullPathsAre
<1>1. OneName(ft)
  BY LessOneName DEF Named
<1>2. ASSUME NEW h \in Groups, NEW q \in FullPaths
      PROVE  /\ GetFileId(ft, rt[h], q) =
                    IF h = g /\ Store!IsPrefix(p, q) THEN Invalid ELSE GetFileId(fs, rt[h], q)
             /\ Leads(ft, rt, h, q) => TypeAt(ft, rt, h, q) = fs[GetFileId(ft, rt[h], q)].type
  <2>1. q \in Seq(Parts) /\ Len(q) \in Nat /\ Len(q) \in 0 .. Len(q)
    BY <1>0
  <2>2. rt[h] \in Ids
    BY DEF Named, Roots, Ids
  <2>3. Exact(ft, rt[h], q, FoundIds(ft, rt[h], q))
    BY <1>1, <2>1, <2>2, LookupExact
  <2>4. gone = FoundIds(fs, rt[g], p)[Len(p)]
    BY DEF GetFileId
  <2>5. Exact(ft, rt[h], q, WithLess(fs, rt, g, p, h, q))
    BY <1>0, <2>1, <2>4, LessExact
  <2>6. Agree(q, q, Len(q))
    BY DEF Agree
  <2>7. FoundIds(ft, rt[h], q)[Len(q)] = WithLess(fs, rt, g, p, h, q)[Len(q)]
    BY <2>1, <2>3, <2>5, <2>6, ExactAgrees
  <2>8. WithLess(fs, rt, g, p, h, q)[Len(q)] =
            IF Below(g, p, h, q, Len(q)) THEN Invalid ELSE FoundIds(fs, rt[h], q)[Len(q)]
    BY <2>1 DEF WithLess
  <2>9. Below(g, p, h, q, Len(q)) <=> h = g /\ Store!IsPrefix(p, q)
    BY <1>0, <2>1, AgreeIs DEF Below, Store!IsPrefix
  <2>10. ASSUME Leads(ft, rt, h, q)
         PROVE  TypeAt(ft, rt, h, q) = fs[GetFileId(ft, rt[h], q)].type
    <3>1. LET i == GetFileId(ft, rt[h], q)
          IN  i \in FileIds /\ ft[i].type \in {"directory", "general"}
      BY <2>1, <2>3, <2>10, FoundExists DEF Leads, GetFileId
    <3> QED BY <3>1 DEF TypeAt
  <2> QED BY <2>7, <2>8, <2>9, <2>10 DEF GetFileId
<1>3. ASSUME NEW e \in PathsOf(ft, rt) PROVE e \in left
  <2>1. PICK h \in Groups, q \in FullPaths : Leads(ft, rt, h, q) /\ e = <<h, q, TypeAt(ft, rt, h, q)>>
    BY PathsAre
  <2>2. ~(h = g /\ Store!IsPrefix(p, q)) /\ Leads(fs, rt, h, q)
    BY <1>2, <2>1 DEF Leads
  <2>3. e = <<h, q, TypeAt(fs, rt, h, q)>>
    BY <1>2, <2>1, <2>2 DEF TypeAt
  <2>4. e \in PathsOf(fs, rt) /\ e[1] = h /\ e[2] = q
    BY <2>2, <2>3, PathsAre
  <2> QED BY <2>2, <2>4
<1>4. ASSUME NEW e \in left PROVE e \in PathsOf(ft, rt)
  <2>1. PICK h \in Groups, q \in FullPaths : Leads(fs, rt, h, q) /\ e = <<h, q, TypeAt(fs, rt, h, q)>>
    BY PathsAre
  <2>2. ~(h = g /\ Store!IsPrefix(p, q))
    BY <1>4, <2>1
  <2>3. Leads(ft, rt, h, q) /\ GetFileId(ft, rt[h], q) = GetFileId(fs, rt[h], q)
    BY <1>2, <2>1, <2>2 DEF Leads
  <2>4. e = <<h, q, TypeAt(ft, rt, h, q)>>
    BY <1>2, <2>1, <2>3 DEF TypeAt
  <2> QED BY <2>3, <2>4, PathsAre
<1> HIDE DEF left
<1>5. PathsOf(ft, rt) = left
  BY <1>3, <1>4
<1> QED BY <1>5 DEF left

-----------------------------------------------------------------------------
(* What the handlers do to the entries *)

LEMMA SoundNamed ==
    ASSUME NEW fs, NEW nx, NEW rt, NEW nd, Sound(fs, nx, rt, nd), OneName(fs)
    PROVE  Named(fs, nx, rt)
<1>1. PICK owner \in [FileIds -> Groups] : Owners(fs, rt, nd, owner)
  BY DEF Sound
<1>2. \A g \in Groups : rt[g] # Invalid => owner[rt[g]] = g
  BY <1>1 DEF Owners
<1>3. OneRoot(rt)
  BY <1>2 DEF OneRoot
<1> QED BY <1>3 DEF Sound, Named

\* A put into a directory that has no such entry: one more entry there.
LEMMA PutMore ==
    ASSUME NEW fs, NEW nx, NEW rt, Named(fs, nx, rt), NEW node_ \in Nodes, NEW g \in Groups,
           NEW p \in Seq(Parts), p # <<>>, NEW dir \in FileIds, IsDirectory(fs, dir),
           dir = FoundIds(fs, rt[g], p)[Len(p) - 1], GetFileId(fs, rt[g], p) = Invalid,
           nx + 1 \in FileIds, NEW ft, ft = AfterPut(fs, nx, Last(p), node_, dir)
    PROVE  /\ HasMore(fs, ft, rt, g, p, Len(p) - 1, nx + 1 - Len(p), dir)
           /\ \A i \in FileIds : fs[i].type # "absent" => ft[i].type = fs[i].type
           /\ ft[nx + 1].type = "general"
<1> DEFINE x == [fs[dir] EXCEPT !.list = Append(@, nx + 1)]
           name == Last(p)
           l == Len(p)
           found == FoundIds(fs, rt[g], p)
<1>1. /\ l \in Nat /\ l # 0 /\ l - 1 \in 0 .. l /\ l \in 1 .. l /\ name = p[l]
      /\ (l - 1) + 1 = l
  <2>1. l \in Nat /\ l # 0
    BY EmptySeq, LenProperties
  <2> QED BY <2>1 DEF Last
<1>2. /\ nx \in Nat /\ nx \in FileIds /\ nx # nx + 1
      /\ \A i \in FileIds : i \in Nat
  <2>1. nx \in 1 .. MaxFiles + 1
    BY DEF Named, Table
  <2>2. nx + 1 \in 1 .. MaxFiles
    BY DEF FileIds
  <2>3. nx \in 1 .. MaxFiles
    BY <2>1, <2>2, IdsAreNumbers
  <2> QED BY <2>1, <2>2, <2>3, IdsAreNumbers DEF FileIds
<1>3. fs[nx] = Absent /\ fs[nx + 1] = Absent
  BY <1>2 DEF Named, Table
<1>4. fs[dir] # Absent
  BY AbsentFields DEF IsDirectory
<1>5. IsPut(fs, ft, nx, name, node_, dir, x)
  <2>1. Table(fs, nx) /\ Trees(fs)
    BY DEF Named
  <2>2. ft = AfterPut(fs, nx, name, node_, dir)
    OBVIOUS
  <2> HIDE DEF name, l, found
  <2> QED BY <1>4, <2>1, <2>2, PutIs
<1>6. /\ ft[nx].type = "storage"
      /\ ft[nx + 1].type = "general" /\ ft[nx + 1].name = name
  BY <1>2, <1>5, StorageFields, GeneralFields DEF IsPut
<1>7. dir # nx /\ dir # nx + 1
  BY <1>3, <1>4
<1>8. /\ ft[dir] = x /\ HasEntry(x, fs, dir, nx + 1)
      /\ \A i \in FileIds : i \notin {nx, nx + 1, dir} => ft[i] = fs[i]
  BY <1>5, <1>7, Zenon DEF IsPut
<1> HIDE DEF x, name
<1>9. ASSUME NEW i \in FileIds, fs[i].type # "absent"
      PROVE  ft[i].type = fs[i].type /\ ft[i].name = fs[i].name
  <2>1. i # nx /\ i # nx + 1
    BY <1>3, <1>9, AbsentFields
  <2>2. CASE i = dir
    BY <1>8, <2>2 DEF HasEntry, IsDirectory
  <2>3. CASE i # dir
    BY <1>8, <2>1, <2>3
  <2> QED BY <2>2, <2>3
<1>10. ASSUME NEW d \in FileIds, NEW i \in FileIds
       PROVE  Holds(ft, d, i) <=> Holds(fs, d, i) \/ (d = dir /\ i = nx + 1)
  <2>1. CASE d = dir
    <3>1. Holds(ft, d, i) <=> \E k \in DOMAIN x.list : x.list[k] = i
      BY <1>8, <2>1 DEF Holds, HasEntry, IsDirectory
    <3> QED BY <1>8, <2>1, <3>1 DEF HasEntry
  <2>2. CASE d = nx \/ d = nx + 1
    <3>1. ~IsDirectory(ft, d) /\ ~IsDirectory(fs, d)
      BY <1>3, <1>6, <2>2, AbsentFields DEF IsDirectory
    <3> QED BY <1>7, <2>2, <3>1 DEF Holds
  <2>3. CASE d # dir /\ d # nx /\ d # nx + 1
    BY <1>8, <2>3 DEF Holds, IsDirectory
  <2> QED BY <2>1, <2>2, <2>3
<1>11. \A d, i \in FileIds : Holds(fs, d, i) => fs[i].type # "absent"
  BY DEF Named, Trees
<1>12. ASSUME NEW d \in FileIds, NEW i \in FileIds, NEW nm
       PROVE  Child(ft, d, nm, i) <=>
                  Child(fs, d, nm, i) \/ (d = dir /\ i = nx + 1 /\ nm = name)
  <2>1. CASE Holds(fs, d, i)
    <3>1. ft[i].name = fs[i].name /\ i # nx + 1
      BY <1>3, <1>9, <1>11, <2>1, AbsentFields
    <3> QED BY <1>10, <2>1, <3>1 DEF Child
  <2>2. CASE ~Holds(fs, d, i)
    BY <1>6, <1>10, <2>2 DEF Child
  <2> QED BY <2>1, <2>2
<1>13. \A d, i, nm : Added(p, l - 1, nx + 1 - l, dir, d, nm, i) <=>
                         d = dir /\ i = nx + 1 /\ nm = name
  <2> HIDE DEF l, found
  <2>1. \A k \in (l - 1) + 1 .. l : k = l /\ (nx + 1 - l) + k = nx + 1
    BY <1>1, <1>2
  <2>2. l \in (l - 1) + 1 .. l /\ (nx + 1 - l) + l = nx + 1
    BY <1>1, <1>2
  <2>3. \A d, i, nm : Added(p, l - 1, nx + 1 - l, dir, d, nm, i) => d = dir /\ i = nx + 1 /\ nm = name
    BY <1>1, <2>1 DEF Added, l
  <2>4. \A d, i, nm : d = dir /\ i = nx + 1 /\ nm = name => Added(p, l - 1, nx + 1 - l, dir, d, nm, i)
    BY <1>1, <2>2 DEF Added, l
  <2> QED BY <2>3, <2>4
<1>14. \A i \in FileIds : ~Child(fs, dir, p[l], i)
  <2> SUFFICES ASSUME NEW i \in FileIds, Child(fs, dir, p[l], i) PROVE FALSE
    OBVIOUS
  <2>1. rt[g] \in Ids
    BY DEF Named, Roots, Ids
  <2>2. Exact(fs, rt[g], p, found)
    BY <2>1, LookupExact DEF Named
  <2>3. found[l - 1] = dir /\ dir # Invalid
    BY IdsAreNumbers
  <2> HIDE DEF found
  <2>4. found[l] = i
    BY <1>1, <2>2, <2>3 DEF Exact
  <2>5. GetFileId(fs, rt[g], p) = found[l]
    BY DEF GetFileId, found
  <2> QED BY <2>4, <2>5, IdsAreNumbers
<1>15. HasMore(fs, ft, rt, g, p, l - 1, nx + 1 - l, dir)
  <2> DEFINE n == l - 1
             base == nx + 1 - l
  <2>1. n \in 0 .. l /\ base \in Int /\ n + 1 = l
    BY <1>1, <1>2
  <2>2. dir # Invalid
    BY IdsAreNumbers
  <2>3. \A k \in n + 1 .. l : base + k \in FileIds /\ fs[base + k] = Absent
    <3>1. \A k \in n + 1 .. l : base + k = nx + 1
      BY <1>1, <1>2
    <3> QED BY <1>3, <3>1
  <2>4. \A d, i \in FileIds : \A nm :
            Child(ft, d, nm, i) <=> Child(fs, d, nm, i) \/ Added(p, n, base, dir, d, nm, i)
    BY <1>12, <1>13
  <2>5. dir = FoundIds(fs, rt[g], p)[n]
    OBVIOUS
  <2>6. \A i \in FileIds : ~Child(fs, dir, p[n + 1], i)
    BY <1>14, <2>1
  <2> HIDE DEF n, base
  <2>7. HasMore(fs, ft, rt, g, p, n, base, dir)
    BY <2>1, <2>2, <2>3, <2>4, <2>5, <2>6 DEF HasMore
  <2> QED BY <2>7 DEF n, base
<1> QED BY <1>6, <1>9, <1>15

\* The missing directories of a path: an entry for each of its last components.
LEMMA CreateMore ==
    ASSUME NEW fs, NEW nx, NEW rt, Named(fs, nx, rt), NEW g \in Groups,
           NEW p \in Seq(Parts), NEW n \in Nat, n < Len(p), NEW parent \in FileIds,
           IsDirectory(fs, parent), parent = FoundIds(fs, rt[g], p)[n],
           FoundIds(fs, rt[g], p)[n + 1] = Invalid,
           nx .. nx + Len(p) - n - 1 \subseteq FileIds,
           NEW ft, ft = AfterCreate(fs, nx, p, n, parent)
    PROVE  /\ HasMore(fs, ft, rt, g, p, n, nx - n - 1, parent)
           /\ \A i \in FileIds : fs[i].type # "absent" => ft[i].type = fs[i].type
           /\ \A k \in n + 1 .. Len(p) : ft[nx - n - 1 + k].type = "directory"
<1> DEFINE x == [fs[parent] EXCEPT !.list = Append(@, nx)]
           found == FoundIds(fs, rt[g], p)
<1>l. PICK l : l = Len(p)
  OBVIOUS
<1>b. PICK base : base = nx - n - 1
  OBVIOUS
<1> DEFINE mx == nx + l - n
           New(i) == IsNew(i, nx, mx)
           Link(d, i) == New(i) /\ d = IF i = nx THEN parent ELSE i - 1
<1>1. /\ nx \in Nat /\ nx \in FileIds /\ nx < mx /\ mx \in 1 .. MaxFiles + 1 /\ parent < nx
      /\ l \in Nat /\ \A i \in FileIds : i \in Nat /\ i # Invalid
      /\ IsCreated(fs, ft, nx, p, n, parent, x)
  <2>1. Len(p) \in Nat /\ Table(fs, nx) /\ Trees(fs)
    BY LenProperties DEF Named
  <2>2. /\ nx \in Nat /\ nx \in FileIds /\ nx < nx + Len(p) - n
        /\ nx + Len(p) - n \in 1 .. MaxFiles + 1 /\ parent < nx
        /\ IsCreated(fs, ft, nx, p, n, parent, [fs[parent] EXCEPT !.list = Append(@, nx)])
    BY <2>1, CreateIs, Zenon
  <2> QED BY <1>l, <2>1, <2>2, IdsAreNumbers
<1> HIDE DEF x
<1>2. /\ HasEntry(x, fs, parent, nx)
      /\ \A i \in FileIds : New(i) => IsLink(ft[i], p[n + 1 + i - nx], i, New(i + 1))
      /\ \A i \in FileIds : ~New(i) => ft[i] = IF i = parent THEN x ELSE fs[i]
  BY <1>l, <1>1, Zenon DEF IsCreated
<1>3. base \in Int /\ n < l /\ n \in 0 .. l
  BY <1>l, <1>b, <1>1
<1>4. \A i \in FileIds : New(i) => fs[i] = Absent
  <2> SUFFICES ASSUME NEW i \in FileIds, New(i) PROVE fs[i] = Absent
    OBVIOUS
  <2>1. i \in Nat /\ ~(i < nx)
    BY <1>1 DEF IsNew
  <2> QED BY <2>1 DEF Named, Table
<1>5. ~New(parent) /\ New(nx)
  BY <1>1 DEF IsNew
<1>6. \A i \in FileIds : New(i) =>
          /\ ft[i].type = "directory" /\ ft[i].name = p[n + 1 + i - nx]
          /\ \A e \in FileIds : Holds(ft, i, e) <=> New(i + 1) /\ e = i + 1
  <2> SUFFICES ASSUME NEW i \in FileIds, New(i)
               PROVE  /\ ft[i].type = "directory" /\ ft[i].name = p[n + 1 + i - nx]
                      /\ \A e \in FileIds : Holds(ft, i, e) <=> New(i + 1) /\ e = i + 1
    OBVIOUS
  <2>1. PICK more : more = New(i + 1)
    OBVIOUS
  <2>2. PICK name : name = p[n + 1 + i - nx]
    OBVIOUS
  <2> HIDE DEF New
  <2>3. IsLink(ft[i], name, i, more)
    BY <1>2, <2>1, <2>2
  <2>4. /\ ft[i].type = "directory" /\ ft[i].name = name
        /\ \A e : (\E k \in DOMAIN ft[i].list : ft[i].list[k] = e) <=> more /\ e = i + 1
    BY <2>3 DEF IsLink
  <2>5. \A e \in FileIds : Holds(ft, i, e) <=> more /\ e = i + 1
    BY <2>4 DEF Holds, IsDirectory
  <2> QED BY <2>1, <2>2, <2>4, <2>5
<1>7. ASSUME NEW i \in FileIds, fs[i].type # "absent"
      PROVE  ft[i].type = fs[i].type /\ ft[i].name = fs[i].name
  <2>1. ~New(i)
    BY <1>4, <1>7, AbsentFields
  <2>2. CASE i = parent
    BY <1>2, <2>1, <2>2 DEF HasEntry, IsDirectory
  <2>3. CASE i # parent
    BY <1>2, <2>1, <2>3
  <2> QED BY <2>2, <2>3
<1>8. \A d \in FileIds, i \in FileIds : New(i) =>
          (New(d) /\ New(d + 1) /\ i = d + 1 <=> i # nx /\ d = i - 1)
  <2> HIDE DEF mx
  <2> QED BY <1>1 DEF IsNew
<1>8a. \A d \in FileIds : New(d) => d \in Nat /\ nx <= d
  BY <1>1 DEF IsNew
<1> HIDE DEF mx
<1>9. ASSUME NEW d \in FileIds, NEW i \in FileIds
      PROVE  Holds(ft, d, i) <=> Holds(fs, d, i) \/ Link(d, i)
  <2>1. CASE d = parent
    <3>1. ft[d] = x
      BY <1>2, <1>5, <2>1
    <3>2. Holds(ft, d, i) <=> \E k \in DOMAIN x.list : x.list[k] = i
      BY <1>2, <3>1 DEF Holds, HasEntry, IsDirectory
    <3>3. Holds(ft, d, i) <=> i = nx \/ Holds(fs, d, i)
      BY <1>2, <2>1, <3>2 DEF HasEntry
    <3>4. ~(New(i) /\ i # nx /\ d = i - 1)
      BY <1>5, <1>8, <2>1
    <3> QED BY <1>5, <2>1, <3>3, <3>4
  <2>2. CASE New(d)
    <3>1. ~Holds(fs, d, i)
      BY <1>4, <2>2, AbsentFields DEF Holds, IsDirectory
    <3>2. Holds(ft, d, i) <=> New(d + 1) /\ i = d + 1
      BY <1>6, <2>2
    <3>3. Link(d, i) <=> New(i) /\ i # nx /\ d = i - 1
      BY <1>5, <2>2
    <3>4. Link(d, i) <=> New(d + 1) /\ i = d + 1
      BY <1>8, <2>2, <3>3
    <3> QED BY <3>1, <3>2, <3>4
  <2>3. CASE d # parent /\ ~New(d)
    <3>1. ft[d] = fs[d]
      BY <1>2, <2>3
    <3>2. ~Link(d, i)
      BY <1>8, <2>3
    <3> QED BY <3>1, <3>2 DEF Holds, IsDirectory
  <2> QED BY <2>1, <2>2, <2>3
<1>10. \A d, i \in FileIds : Holds(fs, d, i) => fs[i].type # "absent"
  BY DEF Named, Trees
<1>11. \A i \in FileIds : n + 1 + i - nx = i - base
  BY <1>b, <1>1
<1>12. ASSUME NEW d \in FileIds, NEW i \in FileIds, NEW nm
       PROVE  Child(ft, d, nm, i) <=> Child(fs, d, nm, i) \/ (Link(d, i) /\ nm = p[i - base])
  <2>1. CASE Holds(fs, d, i)
    <3>1. ft[i].name = fs[i].name /\ ~New(i)
      BY <1>4, <1>7, <1>10, <2>1, AbsentFields
    <3> QED BY <1>9, <2>1, <3>1 DEF Child
  <2>2. CASE ~Holds(fs, d, i)
    BY <1>6, <1>9, <1>11, <2>2 DEF Child
  <2> QED BY <2>1, <2>2
<1>13. ASSUME NEW k \in n + 1 .. l
       PROVE  base + k \in FileIds /\ New(base + k) /\ (base + k) - base = k
              /\ (k = n + 1 <=> base + k = nx)
  <2>1. k \in Int /\ n + 1 <= k /\ k <= l /\ base + k = nx + k - n - 1
    BY <1>b, <1>1
  <2>2. base + k \in nx .. nx + Len(p) - n - 1 /\ New(base + k)
    BY <1>l, <1>1, <2>1 DEF IsNew, mx
  <2>3. (base + k) - base = k /\ (k = n + 1 <=> base + k = nx)
    BY <1>1, <1>3, <2>1
  <2> QED BY <2>2, <2>3
<1>14. \A i \in FileIds : New(i) => i - base \in n + 1 .. l /\ i = base + (i - base)
  <2>1. base = nx - n - 1 /\ l = Len(p)
    BY <1>b, <1>l
  <2> QED BY <1>1, <2>1 DEF IsNew, mx
<1>15. ASSUME NEW d \in FileIds, NEW i \in FileIds, NEW nm
       PROVE  Added(p, n, base, parent, d, nm, i) <=> Link(d, i) /\ nm = p[i - base]
  <2> HIDE DEF New, found
  <2>1. ASSUME Added(p, n, base, parent, d, nm, i) PROVE Link(d, i) /\ nm = p[i - base]
    <3>1. PICK k \in n + 1 .. l :
             nm = p[k] /\ i = base + k /\ d = IF k = n + 1 THEN parent ELSE base + k - 1
      BY <1>l, <2>1 DEF Added
    <3>2. New(i) /\ i - base = k /\ (k = n + 1 <=> i = nx)
      BY <1>13, <3>1
    <3>3. k \in Int /\ base + k - 1 = i - 1
      BY <1>3, <3>1
    <3> QED BY <3>1, <3>2, <3>3
  <2>2. ASSUME Link(d, i), nm = p[i - base] PROVE Added(p, n, base, parent, d, nm, i)
    <3>1. PICK k : k = i - base
      OBVIOUS
    <3>2. k \in n + 1 .. l /\ i = base + k
      BY <1>14, <2>2, <3>1
    <3>3. k = n + 1 <=> i = nx
      BY <1>13, <3>2
    <3>4. d = IF k = n + 1 THEN parent ELSE base + k - 1
      <4>1. base + k - 1 = i - 1
        BY <1>3, <3>2
      <4> QED BY <2>2, <3>3, <4>1
    <3> QED BY <1>l, <2>2, <3>1, <3>2, <3>4 DEF Added
  <2> QED BY <2>1, <2>2
<1>16. \A i \in FileIds : ~Child(fs, parent, p[n + 1], i)
  <2> SUFFICES ASSUME NEW i \in FileIds, Child(fs, parent, p[n + 1], i) PROVE FALSE
    OBVIOUS
  <2>1. rt[g] \in Ids
    BY DEF Named, Roots, Ids
  <2>2. Exact(fs, rt[g], p, found)
    BY <2>1, LookupExact DEF Named
  <2>3. n + 1 \in 1 .. Len(p) /\ (n + 1) - 1 = n
    BY <1>l, <1>3
  <2>4. found[n] = parent /\ parent # Invalid
    BY <1>1
  <2> HIDE DEF found
  <2>5. found[n + 1] = i
    BY <2>2, <2>3, <2>4 DEF Exact
  <2> QED BY <1>1, <2>5 DEF found
<1>17. HasMore(fs, ft, rt, g, p, n, base, parent)
  <2>1. \A k \in n + 1 .. Len(p) : base + k \in FileIds /\ fs[base + k] = Absent
    BY <1>l, <1>4, <1>13
  <2>2. \A d, i \in FileIds : \A nm :
            Child(ft, d, nm, i) <=> Child(fs, d, nm, i) \/ Added(p, n, base, parent, d, nm, i)
    BY <1>12, <1>15
  <2>3. parent # Invalid
    BY <1>1
  <2> QED BY <1>l, <1>3, <1>16, <2>1, <2>2, <2>3 DEF HasMore
<1>18. ASSUME NEW k \in n + 1 .. Len(p) PROVE ft[base + k].type = "directory"
  <2>1. base + k \in FileIds /\ New(base + k)
    BY <1>l, <1>13
  <2> QED BY <1>6, <2>1
<1> QED BY <1>b, <1>7, <1>17, <1>18

\* A file that is removed is no entry any more, and has none.
LEMMA RemoveLess ==
    ASSUME NEW fs, NEW nx, Table(fs, nx), Trees(fs), Storages(fs),
           NEW parent \in FileIds, NEW id \in FileIds, Holds(fs, parent, id),
           NEW gone, gone = IF fs[id].type = "general" THEN {id, fs[id].storage} ELSE {id},
           NEW ft, ft = AfterRemove(fs, id, gone, parent)
    PROVE  /\ HasLess(fs, ft, id)
           /\ \A i \in FileIds : ft[i].type \in {fs[i].type, "absent"}
<1>1. PICK rest : rest = Without(fs[parent].list, id)
  OBVIOUS
<1>2. IsRemoved(fs, ft, id, gone, parent, rest)
  BY <1>1, RemoveIs
<1>3. IsDirectory(fs, parent)
  BY DEF Holds
<1>4. ASSUME NEW i \in FileIds, i \notin gone
      PROVE  ft[i].type = fs[i].type /\ ft[i].name = fs[i].name
  <2>1. CASE i = parent
    BY <1>2, <1>3, <2>1 DEF IsRemoved, IsDirectory
  <2>2. CASE i # parent
    <3>1. ft[i] = fs[i]
      BY <1>2, <1>4, <2>2 DEF IsRemoved
    <3> QED
      BY <3>1
  <2> QED
    BY <2>1, <2>2
<1>5. \A i \in FileIds : i \in gone => ft[i].type = "absent" /\ (i = id \/ ~IsDirectory(fs, i))
  <2> SUFFICES ASSUME NEW i \in FileIds, i \in gone
               PROVE  ft[i].type = "absent" /\ (i = id \/ ~IsDirectory(fs, i))
    OBVIOUS
  <2>1. i # parent
    BY <1>2 DEF IsRemoved
  <2>2. ft[i] = Absent
    BY <1>2, <2>1 DEF IsRemoved
  <2>3. i = id \/ fs[i].type = "storage"
    BY <1>2 DEF IsRemoved
  <2>4. i = id \/ ~IsDirectory(fs, i)
    BY <2>3 DEF IsDirectory
  <2> QED
    BY <2>2, <2>4, AbsentFields
<1>6. ASSUME NEW d \in FileIds, NEW i \in FileIds
      PROVE  Holds(ft, d, i) <=> Holds(fs, d, i) /\ i # id /\ d # id
  <2>1. CASE d = parent
    <3>1. Holds(ft, d, i) <=> \E k \in DOMAIN rest : rest[k] = i
      BY <1>2, <2>1 DEF IsRemoved, Holds, IsDirectory
    <3> QED BY <1>2, <2>1, <3>1 DEF IsRemoved
  <2>2. CASE d # parent /\ d \in gone
    BY <1>5, <2>2 DEF Holds, IsDirectory
  <2>3. CASE d # parent /\ d \notin gone
    <3>1. ft[d] = fs[d] /\ d # id
      BY <1>2, <2>3 DEF IsRemoved
    <3>2. ~Holds(fs, d, id)
      BY <2>3 DEF Trees
    <3>3. Holds(ft, d, i) <=> Holds(fs, d, i)
      BY <3>1 DEF Holds, IsDirectory
    <3> QED BY <3>1, <3>2, <3>3
  <2> QED BY <2>1, <2>2, <2>3
<1>7. ASSUME NEW d \in FileIds, NEW i \in FileIds, Holds(fs, d, i), i # id
      PROVE  ft[i].name = fs[i].name
  <2>1. fs[i].type \in {"directory", "general"}
    BY <1>7 DEF Trees
  <2>2. i \notin gone
    BY <1>2, <1>7, <2>1 DEF IsRemoved
  <2> QED BY <1>4, <2>2
<1>8. HasLess(fs, ft, id)
  BY <1>6, <1>7 DEF HasLess, Child
<1> QED BY <1>4, <1>5, <1>8

-----------------------------------------------------------------------------
(* The first paths *)

\* A root directory that is empty has no path below it.
LEMMA EmptyRoot ==
    ASSUME NEW fs, NEW r \in FileIds, \A i \in FileIds : ~Holds(fs, r, i),
           ListsTyped(fs), NEW q \in Seq(Parts)
    PROVE  GetFileId(fs, r, q) = IF q = <<>> THEN r ELSE Invalid
<1> DEFINE id == FoundIds(fs, r, q)
<1>1. r \in Ids /\ Len(q) \in Nat /\ (q = <<>> <=> Len(q) = 0) /\ Invalid \notin FileIds
  BY IdsAreNumbers, EmptySeq, LenProperties DEF Ids
<1>2. id[0] = r
  BY <1>1, FoundIdsStep
<1>3. GetFileId(fs, r, q) = id[Len(q)]
  BY DEF GetFileId
<1>4. CASE q = <<>>
  BY <1>1, <1>2, <1>3, <1>4
<1>5. CASE q # <<>>
  <2>1. Len(q) \in 1 .. Len(q) /\ Len(q) \in 0 .. Len(q)
    BY <1>1, <1>5
  <2> SUFFICES ASSUME id[Len(q)] # Invalid PROVE FALSE
    BY <1>3, <1>5
  <2>2. ASSUME NEW k \in 1 .. Len(q), id[k] # Invalid
        PROVE  id[k] \in FileIds /\ id[k - 1] \in FileIds /\ Holds(fs, id[k - 1], id[k])
    BY <1>1, <2>2, FoundHolds
  <2> DEFINE T == {k \in 1 .. Len(q) : id[k] # Invalid}
  <2> HIDE DEF id
  <2>3. T \subseteq Nat /\ T # {}
    BY <2>1
  <2>4. PICK m \in T : \A k \in T : m <= k
    <3> HIDE DEF T
    <3> QED BY <2>3, LeastNumber
  <2>5. m \in 1 .. Len(q) /\ id[m] # Invalid /\ m - 1 \notin T
    BY <1>1, <2>4
  <2>6. id[m] \in FileIds /\ id[m - 1] \in FileIds /\ Holds(fs, id[m - 1], id[m])
    BY <2>2, <2>5
  <2>7. m - 1 = 0
    BY <1>1, <2>5, <2>6
  <2> QED BY <1>2, <2>6, <2>7
<1> QED BY <1>4, <1>5

\* Where the entries are the same, so is what a lookup finds.
LEMMA SameLookup ==
    ASSUME NEW fs, NEW nx, Table(fs, nx), Trees(fs), OneName(fs),
           NEW ft, NEW mx, Table(ft, mx), Trees(ft), OneName(ft),
           \A d, i \in FileIds : \A name : Child(ft, d, name, i) <=> Child(fs, d, name, i),
           NEW r \in Ids, NEW S, NEW q \in Seq(S)
    PROVE  GetFileId(ft, r, q) = GetFileId(fs, r, q)
<1> DEFINE a == FoundIds(fs, r, q)
           b == FoundIds(ft, r, q)
<1>1. Exact(fs, r, q, a) /\ Exact(ft, r, q, b)
  BY LookupExact
<1>2. Len(q) \in 0 .. Len(q) /\ Len(q) <= Len(q) /\ Agree(q, q, Len(q))
  <2>1. Len(q) \in Nat
    BY LenProperties
  <2> QED BY <2>1 DEF Agree
<1>3. a[Len(q)] = GetFileId(fs, r, q) /\ b[Len(q)] = GetFileId(ft, r, q)
  BY DEF GetFileId
<1> HIDE DEF a, b
<1>4. \A k \in 1 .. Len(q) : k - 1 \in 0 .. Len(q) /\ k \in 0 .. Len(q)
  <2>1. Len(q) \in Nat
    BY LenProperties
  <2> QED BY <2>1
<1>5. \A k \in 0 .. Len(q) : a[k] # Invalid => a[k] \in FileIds
  BY <1>1 DEF Exact, Ids
<1>6. \A k \in 1 .. Len(q) : a[k] # Invalid => a[k - 1] # Invalid /\ Child(ft, a[k - 1], q[k], a[k])
  BY <1>1, <1>4, <1>5 DEF Exact
<1>7. \A k \in 1 .. Len(q) : \A i \in FileIds :
          a[k - 1] # Invalid /\ Child(ft, a[k - 1], q[k], i) => a[k] = i
  BY <1>1, <1>4, <1>5 DEF Exact
<1>8. Exact(ft, r, q, a)
  BY <1>1, <1>6, <1>7 DEF Exact
<1>9. a[Len(q)] = b[Len(q)]
  BY <1>1, <1>2, <1>8, ExactAgrees
<1> QED BY <1>3, <1>9

\* A new group: its root directory is new and empty, and nothing else has changed.
LEMMA RegisterPaths ==
    ASSUME NEW fs, NEW nx \in FileIds, NEW rt, Named(fs, nx, rt),
           NEW g \in Groups, rt[g] = Invalid,
           NEW ft, NEW mx, Table(ft, mx), Trees(ft), ft[nx].type = "directory", ft[nx].list = <<>>,
           \A i \in FileIds : i # nx => ft[i] = fs[i],
           NEW rs, rs[g] = nx, \A h \in Groups : h # g => rs[h] = rt[h],
           <<>> \in FullPaths
    PROVE  /\ OneName(ft)
           /\ PathsOf(ft, rs) = PathsOf(fs, rt) \cup {<<g, <<>>, "directory">>}
<1>1. nx # Invalid
  BY IdsAreNumbers
<1>2. fs[nx] = Absent
  <2>1. nx \in Nat
    BY IdsAreNumbers
  <2> QED BY <2>1 DEF Named, Table
<1>5. \A d, i \in FileIds : Holds(fs, d, i) => d # nx /\ i # nx
  BY <1>2, AbsentFields DEF Named, Trees, Holds, IsDirectory
<1>6. \A d, i \in FileIds : ~(d = nx /\ Holds(ft, d, i))
  BY DEF Holds
<1>7. ASSUME NEW d \in FileIds, NEW i \in FileIds, NEW name
      PROVE  Child(ft, d, name, i) <=> Child(fs, d, name, i)
  <2>1. CASE d = nx
    BY <1>5, <1>6, <2>1 DEF Child
  <2>2. CASE d # nx
    <3>1. ft[d] = fs[d]
      BY <2>2
    <3>2. Holds(ft, d, i) <=> Holds(fs, d, i)
      BY <3>1 DEF Holds, IsDirectory
    <3>3. Holds(fs, d, i) => ft[i] = fs[i]
      BY <1>5
    <3> QED BY <3>2, <3>3 DEF Child
  <2> QED BY <2>1, <2>2
<1>8. OneName(ft)
  BY <1>7 DEF Named, OneName
<1>9. \A h \in Groups : rt[h] \in Ids
  BY DEF Named, Roots, Ids
<1>10. \A q \in FullPaths : q \in Seq(Parts)
  BY FullPathsAre
<1>11. ASSUME NEW h \in Groups, NEW q \in FullPaths, h # g
       PROVE  /\ GetFileId(ft, rs[h], q) = GetFileId(fs, rt[h], q)
              /\ Leads(fs, rt, h, q) => TypeAt(ft, rs, h, q) = TypeAt(fs, rt, h, q)
              /\ Leads(ft, rs, h, q) <=> Leads(fs, rt, h, q)
  <2>1. rs[h] = rt[h] /\ rt[h] \in Ids /\ q \in Seq(Parts)
    BY <1>9, <1>10, <1>11
  <2>2. Table(fs, nx) /\ Trees(fs) /\ OneName(fs)
    BY DEF Named
  <2>3. GetFileId(ft, rt[h], q) = GetFileId(fs, rt[h], q)
    <3>1. PICK r \in Ids : r = rt[h]
      BY <2>1
    <3>2. q \in Seq(Parts)
      BY <2>1
    <3>3. \A d, i \in FileIds : \A name : Child(ft, d, name, i) <=> Child(fs, d, name, i)
      BY <1>7
    <3>4. GetFileId(ft, r, q) = GetFileId(fs, r, q)
      BY <1>8, <2>2, <3>2, <3>3, SameLookup
    <3> QED BY <3>1, <3>4
  <2>4. ASSUME Leads(fs, rt, h, q) PROVE ft[GetFileId(fs, rt[h], q)] = fs[GetFileId(fs, rt[h], q)]
    <3> DEFINE id == FoundIds(fs, rt[h], q)
               i == id[Len(q)]
    <3>1. Len(q) \in 0 .. Len(q)
      <4>1. Len(q) \in Nat
        BY <2>1, LenProperties
      <4> QED BY <4>1
    <3>2. Exact(fs, rt[h], q, id)
      BY <2>1, <2>2, LookupExact
    <3>3. i # Invalid /\ i = GetFileId(fs, rt[h], q)
      BY <2>4 DEF Leads, GetFileId
    <3> HIDE DEF id
    <3>4. i \in FileIds /\ fs[i].type \in {"directory", "general"}
      BY <2>1, <2>2, <3>1, <3>2, <3>3, FoundExists DEF Named
    <3>5. i # nx
      BY <1>2, <3>4, AbsentFields
    <3> QED BY <3>3, <3>4, <3>5
  <2> QED BY <2>1, <2>3, <2>4 DEF Leads, TypeAt
<1>12a. \A q \in FullPaths : ~Leads(fs, rt, g, q)
  BY DEF Leads
<1>12. ASSUME NEW q \in FullPaths
       PROVE  /\ ~Leads(fs, rt, g, q)
              /\ Leads(ft, rs, g, q) <=> q = <<>>
              /\ q = <<>> => TypeAt(ft, rs, g, q) = "directory"
  <2>1. q \in Seq(Parts)
    BY <1>10
  <2>2. ListsTyped(ft)
    BY TableTyped
  <2>3. \A i \in FileIds : ~Holds(ft, nx, i)
    BY <1>6
  <2>4. GetFileId(ft, nx, q) = IF q = <<>> THEN nx ELSE Invalid
    BY <2>1, <2>2, <2>3, EmptyRoot
  <2> QED BY <1>1, <1>12a, <2>4 DEF Leads, TypeAt
<1>13. ASSUME NEW e
       PROVE  e \in PathsOf(ft, rs) <=> e \in PathsOf(fs, rt) \cup {<<g, <<>>, "directory">>}
  <2>1. ASSUME e \in PathsOf(ft, rs), e \notin PathsOf(fs, rt) PROVE e = <<g, <<>>, "directory">>
    <3>1. PICK h \in Groups, q \in FullPaths :
             Leads(ft, rs, h, q) /\ e = <<h, q, TypeAt(ft, rs, h, q)>>
      BY <2>1, PathsAre
    <3>2. h = g
      <4> SUFFICES ASSUME h # g PROVE FALSE
        OBVIOUS
      <4>1. Leads(fs, rt, h, q) /\ e = <<h, q, TypeAt(fs, rt, h, q)>>
        BY <1>11, <3>1
      <4> QED BY <2>1, <4>1, PathsAre
    <3> QED BY <1>12, <3>1, <3>2
  <2>2. ASSUME e \in PathsOf(fs, rt) PROVE e \in PathsOf(ft, rs)
    <3>1. PICK h \in Groups, q \in FullPaths :
             Leads(fs, rt, h, q) /\ e = <<h, q, TypeAt(fs, rt, h, q)>>
      BY <2>2, PathsAre
    <3>2. h # g
      BY <1>12, <3>1
    <3>3. Leads(ft, rs, h, q) /\ e = <<h, q, TypeAt(ft, rs, h, q)>>
      BY <1>11, <3>1, <3>2
    <3> QED BY <3>3, PathsAre
  <2>3. ASSUME e = <<g, <<>>, "directory">> PROVE e \in PathsOf(ft, rs)
    <3>1. Leads(ft, rs, g, <<>>) /\ e = <<g, <<>>, TypeAt(ft, rs, g, <<>>)>>
      BY <1>12, <2>3
    <3> QED BY <3>1, PathsAre
  <2> QED BY <2>1, <2>2, <2>3
<1> QED BY <1>8, <1>13

LEMMA EmptyPaths ==
    ASSUME <<>> \in FullPaths
    PROVE  PathsOf(Empty.files, Empty.root) = Store!Start /\ OneName(Empty.files)
<1>1. PICK fs : fs = Empty.files
  OBVIOUS
<1>2. PICK rt : rt = Empty.root
  OBVIOUS
<1>3. Official \in Groups /\ 1 \in FileIds /\ 1 # Invalid
  <2>1. Official \in Groups /\ MaxFiles \in Nat \ {0}
    BY FileTreeAssumption
  <2> QED BY <2>1 DEF FileIds, Invalid
<1>4. /\ fs = [i \in FileIds |-> IF i = 1 THEN Directory("official", <<>>) ELSE Absent]
      /\ rt = [g \in Groups |-> IF g = Official THEN 1 ELSE Invalid]
  BY <1>1, <1>2 DEF Empty
<1>5. /\ \A g \in Groups : rt[g] # Invalid => g = Official
      /\ rt[Official] = 1
  BY <1>3, <1>4
<1>6. fs[1].type = "directory" /\ fs[1].list = <<>>
  <2>1. \A x : x = Directory("official", <<>>) => x.type = "directory" /\ x.list = <<>>
    BY NewRoot, Zenon
  <2>2. fs[1] = Directory("official", <<>>)
    BY <1>3, <1>4
  <2> QED BY <2>1, <2>2, Zenon
<1>7. \A d, i \in FileIds : ~Holds(fs, d, i)
  <2>1. \A d \in FileIds : d # 1 => fs[d].type = "absent"
    BY <1>4, AbsentFields
  <2> QED BY <1>6, <2>1 DEF Holds, IsDirectory
<1>8. ListsTyped(fs)
  <2>1. Table(fs, Empty.next)
    BY <1>1, EmptySound DEF Sound
  <2> QED BY <2>1, TableTyped
<1>9. ASSUME NEW g \in Groups, NEW q \in FullPaths
      PROVE  /\ Leads(fs, rt, g, q) <=> g = Official /\ q = <<>>
             /\ Leads(fs, rt, g, q) => TypeAt(fs, rt, g, q) = "directory"
  <2>1. CASE g = Official
    <3>1. rt[g] = 1 /\ rt[g] \in FileIds /\ q \in Seq(Parts)
      BY <1>3, <1>5, <2>1, FullPathsAre
    <3>2. GetFileId(fs, rt[g], q) = IF q = <<>> THEN rt[g] ELSE Invalid
      <4>1. \A i \in FileIds : ~Holds(fs, 1, i)
        BY <1>3, <1>7
      <4>2. GetFileId(fs, 1, q) = IF q = <<>> THEN 1 ELSE Invalid
        BY <1>3, <1>8, <3>1, <4>1, EmptyRoot
      <4> QED BY <3>1, <4>2
    <3> QED BY <1>3, <1>6, <2>1, <3>1, <3>2 DEF Leads, TypeAt
  <2>2. CASE g # Official
    BY <1>5, <2>2 DEF Leads
  <2> QED BY <2>1, <2>2
<1>10. ASSUME NEW e
       PROVE  e \in PathsOf(fs, rt) <=> e = <<Official, <<>>, "directory">>
  <2>1. e \in PathsOf(fs, rt) <=>
            \E g \in Groups, q \in FullPaths :
                Leads(fs, rt, g, q) /\ e = <<g, q, TypeAt(fs, rt, g, q)>>
    BY PathsAre
  <2>2. Leads(fs, rt, Official, <<>>) /\ TypeAt(fs, rt, Official, <<>>) = "directory"
    BY <1>3, <1>9
  <2> QED BY <1>3, <1>9, <2>1, <2>2
<1>11. OneName(fs)
  BY <1>7 DEF OneName, Child
<1> QED BY <1>1, <1>2, <1>10, <1>11 DEF Store!Start

LEMMA NoPaths ==
    ASSUME NEW fs, NEW rt, \A g \in Groups : rt[g] = Invalid
    PROVE  PathsOf(fs, rt) = {}
<1>1. \A e : e \notin PathsOf(fs, rt)
  BY PathsAre DEF Leads
<1> QED BY <1>1

-----------------------------------------------------------------------------
(* The table is a set of paths *)

LEMMA PathIs ==
    ASSUME NEW fs, NEW rt, NEW g \in Groups, NEW q \in FullPaths, NEW ty
    PROVE  <<g, q, ty>> \in PathsOf(fs, rt) <=> Leads(fs, rt, g, q) /\ ty = TypeAt(fs, rt, g, q)
<1>1. <<g, q, ty>> \in PathsOf(fs, rt) <=>
          \E h \in Groups, s \in FullPaths :
              Leads(fs, rt, h, s) /\ <<g, q, ty>> = <<h, s, TypeAt(fs, rt, h, s)>>
  BY PathsAre
<1> QED BY <1>1

LEMMA LeadsFound ==
    ASSUME NEW fs, NEW nx, NEW rt, Named(fs, nx, rt), NEW g \in Groups, NEW q \in FullPaths,
           Leads(fs, rt, g, q)
    PROVE  GetFileId(fs, rt[g], q) \in FileIds /\ TypeAt(fs, rt, g, q) \in {"directory", "general"}
<1> DEFINE id == FoundIds(fs, rt[g], q)
<1>1. Table(fs, nx) /\ Trees(fs) /\ Roots(fs, rt) /\ OneName(fs) /\ rt[g] \in Ids
  BY DEF Named, Roots, Ids
<1>2. q \in Seq(Parts) /\ Len(q) \in 0 .. Len(q)
  <2>1. q \in Seq(Parts)
    BY FullPathsAre
  <2>2. Len(q) \in Nat
    BY <2>1, LenProperties
  <2> QED BY <2>1, <2>2
<1>3. Exact(fs, rt[g], q, id)
  BY <1>1, <1>2, LookupExact
<1>4. id[Len(q)] # Invalid /\ GetFileId(fs, rt[g], q) = id[Len(q)]
  BY DEF Leads, GetFileId
<1> HIDE DEF id
<1>5. id[Len(q)] \in FileIds /\ fs[id[Len(q)]].type \in {"directory", "general"}
  BY <1>1, <1>2, <1>3, <1>4, FoundExists
<1> QED BY <1>4, <1>5 DEF TypeAt

\* The part of a path that a lookup has come to.
LEMMA PrefixIs ==
    ASSUME NEW fs, NEW nx, NEW rt, Named(fs, nx, rt), NEW g \in Groups, NEW p \in FullPaths,
           NEW k \in 0 .. Len(p)
    PROVE  /\ SubSeq(p, 1, k) \in FullPaths
           /\ Leads(fs, rt, g, SubSeq(p, 1, k)) <=>
                  rt[g] # Invalid /\ FoundIds(fs, rt[g], p)[k] # Invalid
           /\ TypeAt(fs, rt, g, SubSeq(p, 1, k)) = fs[FoundIds(fs, rt[g], p)[k]].type
<1>1. ListsTyped(fs) /\ rt[g] \in Ids
  BY TableTyped DEF Named, Roots, Ids
<1>2. p \in Seq(Parts) /\ SubSeq(p, 1, k) \in FullPaths
  BY FullPathsAre
<1>3. GetFileId(fs, rt[g], SubSeq(p, 1, k)) = FoundIds(fs, rt[g], p)[k]
  BY <1>1, <1>2, FoundPrefix
<1> QED BY <1>2, <1>3 DEF Leads, TypeAt

LEMMA StoreIs ==
    ASSUME Named(files, next, root), NEW g \in Groups, NEW q \in FullPaths
    PROVE  /\ \A ty : Store!Is(g, q, ty) <=> Leads(files, root, g, q) /\ ty = TypeAt(files, root, g, q)
           /\ Store!Exists(g, q) <=> Leads(files, root, g, q)
<1>1. \A ty : Store!Is(g, q, ty) <=> Leads(files, root, g, q) /\ ty = TypeAt(files, root, g, q)
  BY PathIs DEF Store!Is
<1>2. Leads(files, root, g, q) => TypeAt(files, root, g, q) \in {"directory", "general"}
  BY LeadsFound
<1> QED BY <1>1, <1>2 DEF Store!Exists

\* Of the spellings, FilePath leaves no empty name.
PlainSpellings == Spellings # {} /\ \A s \in Spellings : Plain(FilePath(s))

LEMMA RootPath == ASSUME PlainSpellings PROVE <<>> \in FullPaths
<1>1. PICK s \in Spellings : TRUE
  BY DEF PlainSpellings
<1>2. PICK p \in FullPaths : p \in Seq(Parts)
  BY <1>1, FullPathsAre
<1>3. 0 \in 0 .. Len(p) /\ SubSeq(p, 1, 0) = <<>>
  <2>1. Len(p) \in Nat
    BY <1>2, LenProperties
  <2> QED BY <1>2, <2>1
<1> QED BY <1>3, FullPathsAre

\* What is stored changes only with the data file.
Kept == disk' = disk /\ torn' = torn

LEMMA StoredKept ==
    ASSUME Kept
    PROVE  (IF torn THEN PathsOf(Empty.files, Empty.root) ELSE PathsOf(disk.files, disk.root))'
               = IF torn THEN PathsOf(Empty.files, Empty.root) ELSE PathsOf(disk.files, disk.root)
BY DEF Kept

LEMMA RegisterGroupAdds ==
    ASSUME IInv, OneName(files), PlainSpellings,
           NEW g \in Groups, NEW n \in Nodes, RegisterGroup(g, n)
    PROVE  OneName(files') /\ Store!AddGroup(g)
<1>1. /\ root[g] = Invalid /\ next <= MaxFiles
      /\ files' = [files EXCEPT ![next] = Directory("group", <<>>)]
      /\ root' = [root EXCEPT ![g] = next] /\ Kept
  BY DEF RegisterGroup, Handler, store, Kept
<1>2. Named(files, next, root)
  BY SoundNamed DEF IInv
<1>3. Sound(files', next', root', node')
  BY RegisterGroupStep
<1>4. Table(files', next') /\ Trees(files')
  BY <1>3 DEF Sound
<1>5. next \in FileIds
  <2>1. next \in 1 .. MaxFiles + 1 /\ MaxFiles \in Nat
    BY <1>2, IdsAreNumbers DEF Named, Table
  <2> QED BY <1>1, <2>1 DEF FileIds
<1>6. /\ files'[next] = Directory("group", <<>>)
      /\ \A i \in FileIds : i # next => files'[i] = files[i]
  BY <1>1, <1>2, <1>5 DEF Named, Table
<1>7. files'[next].type = "directory" /\ files'[next].list = <<>>
  <2>1. \A x : x = Directory("group", <<>>) => x.type = "directory" /\ x.list = <<>>
    BY NewRoot, Zenon
  <2> QED BY <1>6, <2>1, Zenon
<1>8. root'[g] = next /\ \A h \in Groups : h # g => root'[h] = root[h]
  BY <1>1, <1>2 DEF Named, Roots
<1>9. <<>> \in FullPaths
  BY RootPath
<1>10. PICK ft : ft = files'
  OBVIOUS
<1>11. PICK rs : rs = root'
  OBVIOUS
<1>12. /\ OneName(ft)
       /\ PathsOf(ft, rs) = PathsOf(files, root) \cup {<<g, <<>>, "directory">>}
  <2>1. Table(ft, next') /\ Trees(ft) /\ ft[next].type = "directory" /\ ft[next].list = <<>>
    BY <1>4, <1>7, <1>10
  <2>2. \A i \in FileIds : i # next => ft[i] = files[i]
    BY <1>6, <1>10
  <2>3. rs[g] = next /\ (\A h \in Groups : h # g => rs[h] = root[h]) /\ root[g] = Invalid
    BY <1>1, <1>8, <1>11
  <2> QED BY <1>2, <1>5, <1>9, <2>1, <2>2, <2>3, RegisterPaths
<1>13. ~Store!Exists(g, <<>>)
  BY <1>1, <1>2, <1>9, StoreIs DEF Leads
<1> QED BY <1>1, <1>10, <1>11, <1>12, <1>13, StoredKept DEF Store!AddGroup

LEMMA CreatePathAdds ==
    ASSUME IInv, OneName(files), NEW g \in Groups, root[g] # Invalid, NEW p \in FullPaths,
           CreatePath(g, p)
    PROVE  OneName(files') /\ Store!AddDirectories(g, p)
<1>n. PICK n : n = Existing(g, p)
  OBVIOUS
<1>f. PICK found : found = FoundIds(files, root[g], p)
  OBVIOUS
<1>t. PICK ft : ft = files'
  OBVIOUS
<1>1. Named(files, next, root)
  BY SoundNamed DEF IInv
<1>2. p \in Seq(Parts) /\ Len(p) \in Nat
  <2>1. p \in Seq(Parts)
    BY FullPathsAre
  <2> QED BY <2>1, LenProperties
<1>3. ListsTyped(files) /\ root[g] \in FileIds /\ root[g] \in Ids
  BY <1>1, TableTyped DEF Named, Roots, Ids
<1>4. /\ n \in 0 .. Len(p) /\ FileId(g, SubSeq(p, 1, n)) = found[n] /\ found[n] # Invalid
      /\ \A k \in 0 .. Len(p) : found[k] # Invalid => n >= k
  BY <1>n, <1>f, <1>2, <1>3, ExistingFound
<1>p. PICK parent : parent = found[n]
  OBVIOUS
<1>5. /\ n < Len(p) /\ IsDirectory(files, parent)
      /\ next .. next + Len(p) - n - 1 \subseteq FileIds
      /\ ft = AfterCreate(files, next, p, n, parent)
      /\ root' = root /\ Kept
  BY <1>n, <1>p, <1>t, <1>4 DEF CreatePath, AfterCreate, Handler, Kept, store
<1>6. Sound(files', next', root', node')
  BY <1>2, CreatePathStep
<1>7. PICK mx : Table(ft, mx) /\ Trees(ft)
  BY <1>6, <1>t DEF Sound
<1>8. Exact(files, root[g], p, found)
  BY <1>f, <1>1, <1>2, <1>3, LookupExact DEF Named
<1>9. parent \in FileIds /\ n \in Nat /\ found[n + 1] = Invalid
  <2>1. parent \in Ids
    BY <1>4, <1>8, <1>p DEF Exact
  <2>2. n + 1 \in 0 .. Len(p) /\ ~(n >= n + 1) /\ n \in Nat
    BY <1>2, <1>4, <1>5
  <2> QED BY <1>4, <1>p, <2>1, <2>2 DEF Ids
<1>b. PICK base : base = next - n - 1
  OBVIOUS
<1>10. /\ HasMore(files, ft, root, g, p, n, base, parent)
       /\ \A i \in FileIds : files[i].type # "absent" => ft[i].type = files[i].type
       /\ \A k \in n + 1 .. Len(p) : ft[base + k].type = "directory"
  <2>1. parent = FoundIds(files, root[g], p)[n] /\ FoundIds(files, root[g], p)[n + 1] = Invalid
    BY <1>f, <1>p, <1>9
  <2> QED BY <1>1, <1>2, <1>5, <1>9, <1>b, <2>1, CreateMore
<1>11. PathsOf(ft, root) = PathsOf(files, root)
           \cup {<<g, SubSeq(p, 1, k), ft[base + k].type>> : k \in n + 1 .. Len(p)}
  BY <1>1, <1>7, <1>10, MorePaths
<1>12. OneName(ft)
  BY <1>1, <1>2, <1>10, MoreOneName DEF Named
<1>13. ASSUME NEW k \in 0 .. Len(p)
       PROVE  IF k <= n THEN found[k] # Invalid /\ files[found[k]].type = "directory"
                        ELSE found[k] = Invalid
  <2>1. CASE k > n
    BY <1>2, <1>4, <2>1
  <2>2. CASE k = n
    BY <1>2, <1>4, <1>5, <1>p, <2>2 DEF IsDirectory
  <2>3. CASE k < n
    <3>1. k + 1 \in 0 .. n /\ k + 1 \in 1 .. Len(p) /\ (k + 1) - 1 = k /\ k <= n
      BY <1>2, <1>4, <2>3
    <3>2. found[k + 1] # Invalid
      <4>1. PICK m \in 0 .. n : m = k + 1
        BY <3>1
      <4>2. p \in Seq(Parts)
        BY <1>2
      <4>3. n \in 0 .. Len(p)
        BY <1>4
      <4>4. found[n] # Invalid
        BY <1>4
      <4>5. found[m] # Invalid
        BY <1>8, <4>2, <4>3, <4>4, ExactPast
      <4> QED BY <4>1, <4>5
    <3>3. found[k] # Invalid /\ Child(files, found[k], p[k + 1], found[k + 1])
      BY <1>8, <3>1, <3>2 DEF Exact
    <3> QED BY <3>1, <3>3 DEF Child, Holds, IsDirectory
  <2> QED BY <1>2, <1>4, <2>1, <2>2, <2>3
<1>14. ASSUME NEW k \in 0 .. Len(p)
       PROVE  /\ SubSeq(p, 1, k) \in FullPaths
              /\ Leads(files, root, g, SubSeq(p, 1, k)) <=> k <= n
              /\ k <= n => TypeAt(files, root, g, SubSeq(p, 1, k)) = "directory"
  BY <1>f, <1>1, <1>13, PrefixIs
<1>15. Store!Exists(g, <<>>)
  <2>1. 0 \in 0 .. Len(p) /\ 0 <= n /\ SubSeq(p, 1, 0) = <<>>
    BY <1>2, <1>4
  <2>2. <<>> \in FullPaths /\ Leads(files, root, g, <<>>)
    BY <1>14, <2>1
  <2> QED BY <1>1, <2>2, StoreIs
<1>16. ASSUME NEW k \in 0 .. Len(p) PROVE ~Store!Is(g, SubSeq(p, 1, k), "general")
  BY <1>1, <1>14, StoreIs
<1>17. PathsOf(ft, root) = PathsOf(files, root)
           \cup {<<g, q, "directory">> : q \in {SubSeq(p, 1, k) : k \in 0 .. Len(p)}}
  <2>1. \A k \in n + 1 .. Len(p) : k \in 0 .. Len(p)
    BY <1>2, <1>9
  <2>2. ASSUME NEW k \in 0 .. Len(p)
        PROVE  <<g, SubSeq(p, 1, k), "directory">> \in PathsOf(ft, root)
    <3>1. CASE k <= n
      BY <1>11, <1>14, <3>1, PathIs
    <3>2. CASE ~(k <= n)
      <4>1. k \in n + 1 .. Len(p)
        BY <1>2, <1>9, <3>2
      <4> QED BY <1>10, <1>11, <4>1
    <3> QED BY <3>1, <3>2
  <2>3. ASSUME NEW e \in PathsOf(ft, root), e \notin PathsOf(files, root)
        PROVE  \E k \in 0 .. Len(p) : e = <<g, SubSeq(p, 1, k), "directory">>
    <3>1. PICK k \in n + 1 .. Len(p) : e = <<g, SubSeq(p, 1, k), ft[base + k].type>>
      BY <1>11, <2>3
    <3> QED BY <1>10, <2>1, <3>1
  <2>4. PathsOf(files, root) \subseteq PathsOf(ft, root)
    BY <1>11
  <2> QED BY <2>2, <2>3, <2>4
<1>18. PathsOf(files', root') = PathsOf(files, root)
           \cup {<<g, q, "directory">> : q \in {SubSeq(p, 1, k) : k \in 0 .. Len(p)}}
  BY <1>5, <1>17, <1>t
<1> QED BY <1>5, <1>12, <1>15, <1>16, <1>18, <1>t, StoredKept DEF Store!AddDirectories

\* A put below a file registers two files that no path leads to.
LEMMA PutNone ==
    ASSUME NEW fs, NEW nx, NEW rt, Named(fs, nx, rt), NEW node_ \in Nodes, NEW g \in Groups,
           NEW p \in Seq(Parts), NEW dir \in FileIds, fs[dir] # Absent, ~IsDirectory(fs, dir),
           nx + 1 \in FileIds, NEW name, NEW ft, ft = AfterPut(fs, nx, name, node_, dir)
    PROVE  /\ HasMore(fs, ft, rt, g, p, Len(p), 0, dir)
           /\ \A i \in FileIds : fs[i].type # "absent" => ft[i].type = fs[i].type
<1>x. PICK x : x = [fs[dir] EXCEPT !.list = Append(@, nx + 1)]
  OBVIOUS
<1>1. IsPut(fs, ft, nx, name, node_, dir, x)
  <2>1. Table(fs, nx) /\ Trees(fs)
    BY DEF Named
  <2> QED BY <1>x, <2>1, PutIs
<1>2. /\ nx \in Nat /\ nx \in FileIds /\ nx # nx + 1
  <2>1. nx \in 1 .. MaxFiles + 1
    BY DEF Named, Table
  <2>2. nx + 1 \in 1 .. MaxFiles
    BY DEF FileIds
  <2> QED BY <2>1, <2>2, IdsAreNumbers DEF FileIds
<1>3. fs[nx] = Absent /\ fs[nx + 1] = Absent
  BY <1>2 DEF Named, Table
<1>4. ft[nx].type = "storage" /\ ft[nx + 1].type = "general"
  BY <1>1, <1>2, StorageFields, GeneralFields DEF IsPut
<1>5. \A i \in FileIds : i # nx /\ i # nx + 1 => ft[i] = fs[i]
  BY <1>1 DEF IsPut
<1>6. ASSUME NEW d \in FileIds, NEW i \in FileIds, NEW nm
      PROVE  Child(ft, d, nm, i) <=> Child(fs, d, nm, i)
  <2>1. Holds(fs, d, i) => i # nx /\ i # nx + 1
    BY <1>3, AbsentFields DEF Named, Trees
  <2>2. CASE d = nx \/ d = nx + 1
    <3>1. ~IsDirectory(ft, d) /\ ~IsDirectory(fs, d)
      BY <1>3, <1>4, <2>2, AbsentFields DEF IsDirectory
    <3> QED BY <3>1 DEF Child, Holds
  <2>3. CASE d # nx /\ d # nx + 1
    <3>1. Holds(ft, d, i) <=> Holds(fs, d, i)
      BY <1>5, <2>3 DEF Holds, IsDirectory
    <3> QED BY <1>5, <2>1, <3>1 DEF Child
  <2> QED BY <2>2, <2>3
<1>7. Len(p) \in Nat
  BY LenProperties
<1>8. \A k : k \notin Len(p) + 1 .. Len(p)
  BY <1>7
<1>9. \A d, nm, i : ~Added(p, Len(p), 0, dir, d, nm, i)
  BY <1>8 DEF Added
<1>10. HasMore(fs, ft, rt, g, p, Len(p), 0, dir)
  <2>1. Len(p) \in 0 .. Len(p) /\ ~(Len(p) < Len(p)) /\ 0 \in Int
    BY <1>7
  <2> QED BY <1>6, <1>8, <1>9, <2>1 DEF HasMore
<1>11. \A i \in FileIds : fs[i].type # "absent" => ft[i].type = fs[i].type
  BY <1>3, <1>5, AbsentFields
<1> QED BY <1>10, <1>11

LEMMA PutFileAdds ==
    ASSUME IInv, OneName(files), NEW g \in Groups, root[g] # Invalid, NEW p \in FullPaths,
           Plain(p), PutFile(g, p)
    PROVE  /\ OneName(files')
           /\ Store!AddFile(g, p) \/ UNCHANGED Store!vars
<1>f. PICK found : found = FoundIds(files, root[g], p)
  OBVIOUS
<1>t. PICK ft : ft = files'
  OBVIOUS
<1>1. Named(files, next, root)
  BY SoundNamed DEF IInv
<1>2. p \in Seq(Parts)
  BY FullPathsAre
<1>3. ListsTyped(files) /\ root[g] \in Ids /\ node[g] \in Nodes
  BY <1>1, TableTyped DEF Named, Roots, Ids, IInv, Sound
<1>4. p # <<>>
  BY DEF PutFile
<1>5. /\ Len(p) \in Nat /\ Len(p) # 0 /\ Len(p) - 1 \in 0 .. Len(p)
      /\ Front(p) = SubSeq(p, 1, Len(p) - 1) /\ Front(p) \in Seq(Parts)
  BY <1>2, <1>4, FrontIs
<1>l. PICK l : l = Len(p)
  OBVIOUS
<1>6. DirectoryPath(p) = Front(p)
  <2>1. \A k \in DOMAIN Front(p) : k \in DOMAIN p /\ Front(p)[k] = p[k]
    BY <1>2, <1>5
  <2>2. Plain(Front(p))
    BY <2>1, Zenon DEF Plain
  <2> QED BY <1>5, <2>2, FilePathIs DEF DirectoryPath
<1>7. FileId(g, Front(p)) = found[l - 1] /\ FileId(g, p) = found[l]
  BY <1>f, <1>l, <1>2, <1>3, <1>5, FoundPrefix DEF FileId, GetFileId
<1>d. PICK dir : dir = found[l - 1]
  OBVIOUS
<1>8. /\ dir # Invalid /\ found[l] = Invalid /\ next + 1 \in FileIds
      /\ ft = AfterPut(files, next, Last(p), node[g], dir)
      /\ root' = root /\ Kept
  BY <1>6, <1>7, <1>d, <1>t
  DEF PutFile, AfterPut, Registered, ExistPath, Handler, Kept, store
<1>9. Sound(files', next', root', node')
  BY <1>2, PutFileStep
<1>10. PICK mx : Table(ft, mx) /\ Trees(ft)
  BY <1>9, <1>t DEF Sound
<1>11. /\ SubSeq(p, 1, l - 1) \in FullPaths
       /\ Leads(files, root, g, SubSeq(p, 1, l - 1))
       /\ TypeAt(files, root, g, SubSeq(p, 1, l - 1)) = files[dir].type
       /\ GetFileId(files, root[g], SubSeq(p, 1, l - 1)) = dir
  BY <1>f, <1>l, <1>d, <1>1, <1>5, <1>7, <1>8, PrefixIs DEF FileId
<1>12. dir \in FileIds /\ files[dir].type \in {"directory", "general"}
  BY <1>1, <1>11, LeadsFound
<1>13. CASE IsDirectory(files, dir)
  <2>b. PICK base : base = next + 1 - l
    OBVIOUS
  <2>1. /\ HasMore(files, ft, root, g, p, l - 1, base, dir)
        /\ \A i \in FileIds : files[i].type # "absent" => ft[i].type = files[i].type
        /\ ft[next + 1].type = "general"
    <3>1. dir = FoundIds(files, root[g], p)[Len(p) - 1] /\ GetFileId(files, root[g], p) = Invalid
      BY <1>f, <1>l, <1>d, <1>7, <1>8 DEF FileId
    <3>2. /\ HasMore(files, ft, root, g, p, Len(p) - 1, next + 1 - Len(p), dir)
          /\ \A i \in FileIds : files[i].type # "absent" => ft[i].type = files[i].type
          /\ ft[next + 1].type = "general"
      BY <1>1, <1>2, <1>3, <1>4, <1>8, <1>12, <1>13, <3>1, PutMore
    <3> QED BY <1>l, <2>b, <3>2
  <2>2. PathsOf(ft, root) = PathsOf(files, root)
            \cup {<<g, SubSeq(p, 1, k), ft[base + k].type>> : k \in (l - 1) + 1 .. Len(p)}
    BY <1>1, <1>10, <2>1, MorePaths
  <2>3. OneName(ft)
    BY <1>1, <1>2, <2>1, MoreOneName DEF Named
  <2>4. (l - 1) + 1 .. Len(p) = {l} /\ base + l = next + 1 /\ SubSeq(p, 1, l) = p
    <3>1. next \in Nat
      BY <1>1 DEF Named, Table
    <3>2. SubSeq(p, 1, l) = p
      BY <1>l, <1>2
    <3> QED BY <1>l, <1>5, <2>b, <3>1, <3>2
  <2>5. PathsOf(ft, root) = PathsOf(files, root) \cup {<<g, p, "general">>}
    BY <2>1, <2>2, <2>4
  <2>6. Store!Is(g, SubSeq(p, 1, Len(p) - 1), "directory")
    BY <1>1, <1>l, <1>11, <1>13, StoreIs DEF IsDirectory
  <2>7. ~Store!Exists(g, p)
    <3>1. ~Leads(files, root, g, p)
      BY <1>7, <1>8 DEF Leads, FileId
    <3> QED BY <1>1, <3>1, StoreIs
  <2>8. PathsOf(files', root') = PathsOf(files, root) \cup {<<g, p, "general">>}
    BY <1>8, <1>t, <2>5
  <2>9. Store!AddFile(g, p)
    BY <1>4, <1>8, <2>6, <2>7, <2>8, StoredKept DEF Store!AddFile
  <2> QED BY <1>t, <2>3, <2>9
<1>14. CASE ~IsDirectory(files, dir)
  <2>1. files[dir] # Absent
    BY <1>12, AbsentFields
  <2>2. /\ HasMore(files, ft, root, g, p, Len(p), 0, dir)
        /\ \A i \in FileIds : files[i].type # "absent" => ft[i].type = files[i].type
    BY <1>1, <1>2, <1>3, <1>8, <1>12, <1>14, <2>1, PutNone
  <2>3. PathsOf(ft, root) = PathsOf(files, root)
            \cup {<<g, SubSeq(p, 1, k), ft[0 + k].type>> : k \in Len(p) + 1 .. Len(p)}
    BY <1>1, <1>10, <2>2, MorePaths
  <2>4. Len(p) + 1 .. Len(p) = {}
    BY <1>5
  <2>5. PathsOf(ft, root) = PathsOf(files, root)
    BY <2>3, <2>4
  <2>6. OneName(ft)
    BY <1>1, <1>2, <2>2, MoreOneName DEF Named
  <2>7. PathsOf(files', root') = PathsOf(files, root)
    BY <1>8, <1>t, <2>5
  <2>8. UNCHANGED Store!vars
    BY <1>8, <2>7, StoredKept DEF Store!vars
  <2> QED BY <1>t, <2>6, <2>8
<1> QED BY <1>13, <1>14

LEMMA RemovePathRemoves ==
    ASSUME IInv, OneName(files), NEW g \in Groups, root[g] # Invalid, NEW p \in FullPaths,
           RemovePath(g, p)
    PROVE  OneName(files') /\ Store!RemoveAll(g, p)
<1>f. PICK found : found = FoundIds(files, root[g], p)
  OBVIOUS
<1>t. PICK ft : ft = files'
  OBVIOUS
<1>1. Named(files, next, root)
  BY SoundNamed DEF IInv
<1>2. p \in Seq(Parts) /\ Len(p) \in Nat
  <2>1. p \in Seq(Parts)
    BY FullPathsAre
  <2> QED BY <2>1, LenProperties
<1>3. ListsTyped(files) /\ root[g] \in Ids
  BY <1>1, TableTyped DEF Named, Roots, Ids
<1>i. PICK id : id = FileId(g, p)
  OBVIOUS
<1>g. PICK gone : gone = Removed(id)
  OBVIOUS
<1>p. PICK parent : parent = FileId(g, Front(p))
  OBVIOUS
<1>4. /\ id # Invalid /\ id # root[g]
      /\ ft = AfterRemove(files, id, gone, parent)
      /\ root' = root /\ Kept
  BY <1>i, <1>g, <1>p, <1>t DEF RemovePath, AfterRemove, Handler, Kept, store
<1>5. id = found[Len(p)] /\ found[0] = root[g]
  BY <1>f, <1>i, <1>2, <1>3, FoundIdsStep DEF FileId, GetFileId
<1>6. Len(p) # 0 /\ p # <<>>
  BY <1>2, <1>4, <1>5
<1>7. Len(p) - 1 \in 0 .. Len(p) /\ Front(p) = SubSeq(p, 1, Len(p) - 1) /\ Len(p) \in 1 .. Len(p)
  BY <1>2, <1>6, FrontIs
<1>8. parent = found[Len(p) - 1]
  BY <1>f, <1>p, <1>2, <1>3, <1>7, FoundPrefix DEF FileId
<1>9. id \in FileIds /\ parent \in FileIds /\ Holds(files, parent, id)
  BY <1>f, <1>2, <1>3, <1>4, <1>5, <1>7, <1>8, FoundHolds
<1>10. gone = IF files[id].type = "general" THEN {id, files[id].storage} ELSE {id}
  BY <1>g DEF Removed
<1>11. Sound(files', next', root', node')
  BY <1>2, RemovePathStep
<1>12. PICK mx : Table(ft, mx) /\ Trees(ft) /\ Roots(ft, root)
  BY <1>4, <1>11, <1>t DEF Sound
<1>13. /\ HasLess(files, ft, id)
       /\ \A i \in FileIds : ft[i].type \in {files[i].type, "absent"}
  <2>1. Table(files, next) /\ Trees(files) /\ Storages(files)
    BY DEF IInv, Sound
  <2> QED BY <1>4, <1>9, <1>10, <2>1, RemoveLess
<1>14. OneName(ft)
  BY <1>13, LessOneName
<1>15. id = GetFileId(files, root[g], p)
  BY <1>i DEF FileId
<1>16. PathsOf(ft, root) =
           {e \in PathsOf(files, root) : ~(e[1] = g /\ Store!IsPrefix(p, e[2]))}
  BY <1>1, <1>4, <1>6, <1>12, <1>13, <1>15, LessPaths
<1>17. Store!Exists(g, p)
  <2>1. Leads(files, root, g, p)
    BY <1>4, <1>15 DEF Leads
  <2> QED BY <1>1, <2>1, StoreIs
<1>18. PathsOf(files', root') =
           {e \in PathsOf(files, root) : ~(e[1] = g /\ Store!IsPrefix(p, e[2]))}
  BY <1>4, <1>16, <1>t
<1> QED BY <1>4, <1>6, <1>14, <1>17, <1>18, <1>t, StoredKept DEF Store!RemoveAll

-----------------------------------------------------------------------------
(* The table implements the set of paths *)

\* No directory has two entries of one name, and while the server is down there is no group.
NInv ==
    /\ IInv
    /\ OneName(files)
    /\ OneName(disk.files)
    /\ phase = "down" => \A g \in Groups : root[g] = Invalid

\* A step keeps the names apart, and is one of the set of paths.
Keeps == NInv' /\ [Store!Next]_(Store!vars)

LEMMA HandlerKeeps ==
    ASSUME NInv, IInv', Handler, OneName(files')
    PROVE  NInv'
<1>1. disk' = disk /\ phase' = "up"
  BY DEF Handler, store
<1> QED BY <1>1 DEF NInv

LEMMA RequestKeeps ==
    ASSUME PlainSpellings, NInv, IInv', NEW g \in Groups, root[g] # Invalid, NEW s \in Spellings,
           CreatePath(g, FilePath(s)) \/ PutFile(g, FilePath(s)) \/ RemovePath(g, FilePath(s))
    PROVE  Keeps
<1>1. PICK p : p = FilePath(s)
  OBVIOUS
<1>2. p \in FullPaths /\ Plain(p)
  BY <1>1, FullPathsAre DEF PlainSpellings
<1>3. IInv /\ OneName(files)
  BY DEF NInv
<1>4. Handler /\ (CreatePath(g, p) \/ PutFile(g, p) \/ RemovePath(g, p))
  BY <1>1 DEF CreatePath, PutFile, RemovePath
<1>5. OneName(files') /\
      (\/ Store!AddDirectories(g, p) \/ Store!AddFile(g, p) \/ Store!RemoveAll(g, p)
       \/ UNCHANGED Store!vars)
  <2>1. CASE CreatePath(g, p)
    BY <1>2, <1>3, <2>1, CreatePathAdds
  <2>2. CASE PutFile(g, p)
    BY <1>2, <1>3, <2>2, PutFileAdds
  <2>3. CASE RemovePath(g, p)
    BY <1>2, <1>3, <2>3, RemovePathRemoves
  <2> QED BY <1>4, <2>1, <2>2, <2>3
<1>6. NInv'
  BY <1>4, <1>5, HandlerKeeps
<1> QED BY <1>2, <1>5, <1>6 DEF Keeps, Store!Next

LEMMA StepKeeps ==
    ASSUME PlainSpellings, NInv, [Next]_vars
    PROVE  Keeps
<1>1. IInv'
  BY NextInv DEF NInv
<1>2. <<>> \in FullPaths
  BY RootPath
<1>3. ASSUME NEW g \in Groups, NEW n \in Nodes, RegisterGroup(g, n) PROVE Keeps
  <2>1. OneName(files') /\ Store!AddGroup(g)
    BY <1>3, RegisterGroupAdds DEF NInv
  <2>2. Handler
    BY <1>3 DEF RegisterGroup
  <2>3. NInv'
    BY <1>1, <2>1, <2>2, HandlerKeeps
  <2> QED BY <2>1, <2>3 DEF Keeps, Store!Next
<1>4. CASE BeginSave
  <2>1. /\ files' = files /\ root' = root /\ disk' = disk /\ torn' = TRUE /\ phase' = "saving"
    BY <1>4 DEF BeginSave, memory
  <2>2. NInv'
    BY <1>1, <2>1 DEF NInv
  <2>3. PathsOf(Empty.files, Empty.root) = Store!Start
    BY <1>2, EmptyPaths
  <2>4. Store!SaveBegins
    BY <2>1, <2>3 DEF Store!SaveBegins, Store!Start
  <2> QED BY <2>2, <2>4 DEF Keeps, Store!Next
<1>5. CASE EndSave
  <2>1. /\ files' = files /\ root' = root /\ torn' = FALSE /\ phase' = "up"
        /\ disk' = [files |-> files, next |-> next, root |-> root, node |-> node]
    BY <1>5 DEF EndSave, memory
  <2>2. disk'.files = files /\ disk'.root = root
    BY <2>1
  <2>3. NInv'
    BY <1>1, <2>1, <2>2 DEF NInv
  <2>4. Store!Save
    BY <2>1, <2>2 DEF Store!Save
  <2> QED BY <2>3, <2>4 DEF Keeps, Store!Next
<1>6. CASE Crash
  <2>1. /\ files' = [i \in FileIds |-> Absent] /\ root' = [g \in Groups |-> Invalid]
        /\ Kept /\ phase' = "down"
    BY <1>6 DEF Crash, store, Kept
  <2>2. \A g \in Groups : root'[g] = Invalid
    BY <2>1
  <2>3. OneName(files')
    <3>1. \A d \in FileIds : files'[d].type = "absent"
      BY <2>1, AbsentFields
    <3> QED BY <3>1 DEF OneName, Child, Holds, IsDirectory
  <2>4. NInv'
    BY <1>1, <2>1, <2>2, <2>3 DEF NInv, Kept
  <2>5. PathsOf(files', root') = {}
    BY <2>2, NoPaths
  <2>6. Store!Crash
    BY <2>1, <2>5, StoredKept DEF Store!Crash
  <2> QED BY <2>4, <2>6 DEF Keeps, Store!Next
<1>7. CASE Boot
  <2>1. PICK t : t = IF torn THEN Empty ELSE disk
    OBVIOUS
  <2>2. /\ phase = "down" /\ files' = t.files /\ root' = t.root /\ Kept /\ phase' = "up"
    BY <1>7, <2>1 DEF Boot, Restore, store, Kept
  <2>3. OneName(files')
    BY <1>2, <2>1, <2>2, EmptyPaths DEF NInv
  <2>4. NInv'
    BY <1>1, <2>2, <2>3 DEF NInv, Kept
  <2>5. PathsOf(files, root) = {}
    BY <2>2, NoPaths DEF NInv
  <2>6. PathsOf(files', root') =
            IF torn THEN PathsOf(Empty.files, Empty.root) ELSE PathsOf(disk.files, disk.root)
    BY <2>1, <2>2
  <2>7. Store!Restart
    BY <2>2, <2>5, <2>6, StoredKept DEF Store!Restart
  <2> QED BY <2>4, <2>7 DEF Keeps, Store!Next
<1>8. CASE UNCHANGED vars
  <2>1. /\ files' = files /\ root' = root /\ disk' = disk /\ phase' = phase /\ Kept
    BY <1>8 DEF vars, memory, store, Kept
  <2>2. NInv'
    BY <1>1, <2>1 DEF NInv
  <2>3. UNCHANGED Store!vars
    BY <2>1, StoredKept DEF Store!vars
  <2> QED BY <2>2, <2>3 DEF Keeps
<1> QED BY <1>1, <1>3, <1>4, <1>5, <1>6, <1>7, <1>8, RequestKeeps DEF Next

LEMMA FirstKeeps ==
    ASSUME PlainSpellings, Init
    PROVE  NInv /\ Store!Init
<1>1. IInv
  BY InitInv
<1>2. PathsOf(Empty.files, Empty.root) = Store!Start /\ OneName(Empty.files)
  BY RootPath, EmptyPaths
<1>3. /\ files = Empty.files /\ root = Empty.root /\ disk = Empty /\ torn = FALSE /\ phase = "up"
  BY DEF Init
<1>4. NInv
  BY <1>1, <1>2, <1>3 DEF NInv
<1>5. Store!Init
  BY <1>2, <1>3 DEF Store!Init, Store!Start
<1> QED BY <1>4, <1>5

\* Whatever is created, put, removed, saved and lost: what the lookups of SharingGroup find
\* is a set of paths, to which create_path adds what is missing of one, a put one file in a
\* directory that exists, and from which remove_path takes one with all below it; a restart
\* has what the last whole save had.  The spellings are those of which FilePath leaves no
\* empty name; what the others do to it is said at ImplementsPathStore.
THEOREM TableIsPathStore ==
    ASSUME PlainSpellings
    PROVE  Spec => ImplementsPathStore
<1>1. Init => NInv /\ Store!Init
  BY FirstKeeps
<1>2. NInv /\ [Next]_vars => NInv' /\ [Store!Next]_(Store!vars)
  BY StepKeeps DEF Keeps
<1> QED BY <1>1, <1>2, PTL DEF Spec, ImplementsPathStore, Store!Spec

=============================================================================
