------------------------------ MODULE FileTree ------------------------------
(***************************************************************************)
(* The files of the sharing groups (SharingFileManager, SharingDirectory   *)
(* and the path operations of SharingGroup in resource_server/core.cpp),   *)
(* and their way to the data file and back (SerializationManager).         *)
(*                                                                         *)
(* All files of all groups live in one table, by id; a directory holds the *)
(* ids of its entries.  One worker thread runs every handler to its end,   *)
(* and so does the timer that saves; only a crash comes between two steps. *)
(* Who may call what is in Sharing, what a put sends is in Transfer: a put *)
(* that finds its session open changes nothing here.                       *)
(***************************************************************************)
EXTENDS Integers, FiniteSets, SequencesExt

CONSTANTS
    Names,          \* components of paths
    Spellings,      \* paths in requests, split at "/": an empty part is a "//"
    Groups,
    Nodes,          \* storage nodes
    MaxFiles,       \* bound: ids that are ever given
    MaxSaves, MaxCrashes \* bounds

Official == 1       \* the group that main() makes sure of

ASSUME FileTreeAssumption ==
    /\ Spellings \subseteq Seq(Names \cup {""})
    /\ Official \in Groups
    /\ Nodes # {}
    /\ MaxFiles \in Nat \ {0}
    /\ MaxSaves \in Nat
    /\ MaxCrashes \in Nat

FileIds == 1 .. MaxFiles
Invalid == 0        \* INVALID_ID

Absent == [type |-> "absent"]
Directory(name, list) == [type |-> "directory", name |-> name, list |-> list]
GeneralFile(name, storage) == [type |-> "general", name |-> name, storage |-> storage]
StorageFile(name, node, uses) == [type |-> "storage", name |-> name, node |-> node, uses |-> uses]

VARIABLES
    files, next,    \* SharingFileManager: m_file_list, m_next_id
    root, node,     \* SharingGroup: m_root_dir_id (Invalid: no such group), m_node_id
    disk, torn,     \* the data file; torn: cut off and not yet written
    phase,          \* "up", "saving" (inside serialize) or "down"
    saves, crashes  \* bounds

memory == <<files, next, root, node>>
store == <<disk, torn>>
bounds == <<saves, crashes>>
vars == <<memory, store, phase, bounds>>

-----------------------------------------------------------------------------
(* Paths *)

\* Where the separator behind part i stands in its run of separators.
InRun(s, i) == i + 1 - Max({1} \cup {k \in 1 .. i : s[k] # ""})

\* replaceInPlace(m_path, "//", "/"): one pass, every second of a run is dropped.
Squeeze(s) ==
    LET kept[k \in 0 .. Len(s)] ==
            IF k = 0 THEN <<>>
            ELSE IF k = Len(s) \/ InRun(s, k) % 2 = 1 THEN Append(kept[k - 1], s[k])
            ELSE kept[k - 1]
    IN  kept[Len(s)]

\* The constructor of FilePath and split(): one separator is cut at either end.
FilePath(s) ==
    LET squeezed == Squeeze(s)
        front == IF Len(squeezed) > 1 /\ Head(squeezed) = "" THEN Tail(squeezed) ELSE squeezed
    IN  IF front # <<>> /\ Last(front) = "" THEN Front(front) ELSE front

\* directory_path(): a string, which becomes a FilePath where it is used.
DirectoryPath(p) == FilePath(Front(p))

-----------------------------------------------------------------------------
(* The table of files *)

IsDirectory(fs, id) == fs[id].type = "directory"

\* SharingDirectory::find_file: the first entry of that name.
FindFile(fs, d, name) ==
    LET list == fs[d].list
        found == {k \in DOMAIN list : fs[list[k]] # Absent /\ fs[list[k]].name = name}
    IN  IF found = {} THEN Invalid ELSE list[Min(found)]

\* What SharingGroup::get_file_id finds for each component, from the root directory r
FoundIds(fs, r, p) ==
    LET id[k \in 0 .. Len(p)] ==
            IF k = 0 THEN r
            ELSE IF id[k - 1] # Invalid /\ IsDirectory(fs, id[k - 1])
                 THEN FindFile(fs, id[k - 1], p[k]) ELSE Invalid
    IN  id

GetFileId(fs, r, p) == FoundIds(fs, r, p)[Len(p)]

FileId(g, p) == GetFileId(files, root[g], p)
ExistPath(g, p) == FileId(g, p) # Invalid

Empty ==
    [files |-> [i \in FileIds |-> IF i = 1 THEN Directory("official", <<>>) ELSE Absent],
     next |-> 2,
     root |-> [g \in Groups |-> IF g = Official THEN 1 ELSE Invalid],
     node |-> [g \in Groups |-> CHOOSE n \in Nodes : TRUE]]

\* The data file that comes with the program has the root directory.
Init ==
    /\ files = Empty.files
    /\ next = Empty.next
    /\ root = Empty.root
    /\ node = Empty.node
    /\ disk = Empty
    /\ torn = FALSE
    /\ phase = "up"
    /\ saves = 0
    /\ crashes = 0

-----------------------------------------------------------------------------
(* The handlers *)

Handler ==
    /\ phase = "up"
    /\ UNCHANGED <<store, phase, bounds>>

\* SharingGroupManager::register_group
RegisterGroup(g, n) ==
    /\ Handler
    /\ root[g] = Invalid
    /\ next <= MaxFiles
    /\ files' = [files EXCEPT ![next] = Directory("group", <<>>)]
    /\ next' = next + 1
    /\ root' = [root EXCEPT ![g] = next]
    /\ node' = [node EXCEPT ![g] = n]

\* How many components of p exist.
Existing(g, p) == Max({k \in 0 .. Len(p) : ExistPath(g, SubSeq(p, 1, k))})

\* SharingGroup::create_path: the missing directories, each in the one before.
CreatePath(g, p) ==
    LET n == Existing(g, p)
        parent == FileId(g, SubSeq(p, 1, n))
        new == next .. next + Len(p) - n - 1
    IN  /\ Handler
        /\ n < Len(p) /\ IsDirectory(files, parent)
        /\ new \subseteq FileIds
        /\ files' = [i \in FileIds |->
               CASE i \in new -> Directory(p[n + 1 + i - next],
                                           IF i + 1 \in new THEN <<i + 1>> ELSE <<>>)
                 [] i = parent -> [files[i] EXCEPT !.list = Append(@, next)]
                 [] OTHER -> files[i]]
        /\ next' = next + Len(p) - n
        /\ UNCHANGED <<root, node>>

\* register_file for both files of a put
Registered(g, p) ==
    [files EXCEPT ![next] = StorageFile(Last(p), node[g], 1),
                  ![next + 1] = GeneralFile(Last(p), next)]

\* Mutant of PutFile: it does not look whether the path exists.
MutantPutFileTwice(g, p) ==
    LET dir == FileId(g, DirectoryPath(p))
    IN  /\ Handler
        /\ p # <<>> /\ dir # Invalid
        /\ next + 1 \in FileIds
        /\ files' = IF IsDirectory(files, dir)
                    THEN [Registered(g, p) EXCEPT ![dir].list = Append(@, next + 1)]
                    ELSE Registered(g, p)
        /\ next' = next + 2
        /\ UNCHANGED <<root, node>>
\* PutFileSessionTrans::on_init where no session is found.  add_file throws when
\* the directory is a file: the two new files are registered, and in no directory.
PutFile(g, p) ==
    LET dir == FileId(g, DirectoryPath(p))
    IN  /\ Handler
        /\ p # <<>> /\ dir # Invalid /\ ~ExistPath(g, p)
        /\ next + 1 \in FileIds
        /\ files' = IF IsDirectory(files, dir)
                    THEN [Registered(g, p) EXCEPT ![dir].list = Append(@, next + 1)]
                    ELSE Registered(g, p)
        /\ next' = next + 2
        /\ UNCHANGED <<root, node>>

\* SharingFileManager::remove_file: the storage file goes with the general file.
Removed(id) ==
    IF files[id].type = "general" THEN {id, files[id].storage} ELSE {id}

\* SharingDirectory::remove_file: std::remove and erase
Without(list, id) ==
    LET kept[k \in 0 .. Len(list)] ==
            IF k = 0 THEN <<>>
            ELSE IF list[k] = id THEN kept[k - 1] ELSE Append(kept[k - 1], list[k])
    IN  kept[Len(list)]

\* Mutant of RemovePath: the id is taken out of the root directory.
MutantRemovePathFromRoot(g, p) ==
    LET id == FileId(g, p)
        parent == root[g]
    IN  /\ Handler
        /\ id \notin {Invalid, root[g]}
        /\ files' = [[i \in FileIds |-> IF i \in Removed(id) THEN Absent ELSE files[i]]
                        EXCEPT ![parent].list = Without(@, id)]
        /\ UNCHANGED <<next, root, node>>
\* SharingGroup::remove_path: what is in a directory stays in the table.
RemovePath(g, p) ==
    LET id == FileId(g, p)
        parent == FileId(g, Front(p))
    IN  /\ Handler
        /\ id \notin {Invalid, root[g]}
        /\ files' = [[i \in FileIds |-> IF i \in Removed(id) THEN Absent ELSE files[i]]
                        EXCEPT ![parent].list = Without(@, id)]
        /\ UNCHANGED <<next, root, node>>

-----------------------------------------------------------------------------
(* The data file *)

\* serialize(): opening the stream cuts the file off ...
BeginSave ==
    /\ phase = "up"
    /\ saves < MaxSaves
    /\ saves' = saves + 1
    /\ phase' = "saving"
    /\ torn' = TRUE
    /\ UNCHANGED <<memory, disk, crashes>>

\* ... and only then it is written.
EndSave ==
    /\ phase = "saving"
    /\ phase' = "up"
    /\ disk' = [files |-> files, next |-> next, root |-> root, node |-> node]
    /\ torn' = FALSE
    /\ UNCHANGED <<memory, bounds>>

\* Nothing is saved at an orderly stop either.
Crash ==
    /\ phase # "down"
    /\ crashes < MaxCrashes
    /\ crashes' = crashes + 1
    /\ phase' = "down"
    /\ files' = [i \in FileIds |-> Absent]
    /\ next' = 1
    /\ root' = [g \in Groups |-> Invalid]
    /\ UNCHANGED <<node, saves, store>>

Restore(t) ==
    /\ phase = "down"
    /\ phase' = "up"
    /\ files' = t.files
    /\ next' = t.next
    /\ root' = t.root
    /\ node' = t.node
    /\ UNCHANGED <<store, bounds>>

\* main(): deserialize(), and the official group when there is none.  A part of a
\* file does not parse and main() returns; an empty one may be taken as no data.
Boot == Restore(IF torn THEN Empty ELSE disk)

Next ==
    \/ \E g \in Groups, n \in Nodes : RegisterGroup(g, n)
    \/ \E g \in {h \in Groups : root[h] # Invalid}, s \in Spellings :
           CreatePath(g, FilePath(s)) \/ PutFile(g, FilePath(s)) \/ RemovePath(g, FilePath(s))
    \/ BeginSave
    \/ EndSave
    \/ Crash
    \/ Boot

Spec == Init /\ [][Next]_vars

-----------------------------------------------------------------------------
(* Properties *)

\* Every variable holds values of its type.
TypeOK ==
    /\ DOMAIN files = FileIds
    /\ \A i \in FileIds :
           \/ files[i] = Absent
           \/ IsDirectory(files, i) /\ files[i].list \in Seq(FileIds)
           \/ files[i].type = "general" /\ files[i].storage \in FileIds
           \/ files[i].type = "storage" /\ files[i].node \in Nodes /\ files[i].uses \in Nat
    /\ next \in 1 .. MaxFiles + 1
    /\ root \in [Groups -> FileIds \cup {Invalid}]
    /\ node \in [Groups -> Nodes]
    /\ torn \in BOOLEAN
    /\ phase \in {"up", "saving", "down"}
    /\ saves \in 0 .. MaxSaves
    /\ crashes \in 0 .. MaxCrashes

Directories == {i \in FileIds : IsDirectory(files, i)}
Generals == {i \in FileIds : files[i].type = "general"}
Places(i) ==
    UNION {{<<d, k>> : k \in {l \in DOMAIN files[d].list : files[d].list[l] = i}} : d \in Directories}

\* Every entry of a directory is in the table, so that on_list_file never throws
\* half way; it is in one place only, a root directory in none, and no id that is
\* yet to be given is in use: neither removals nor a restart take that away.
EntriesExist ==
    /\ \A d \in Directories : \A i \in Range(files[d].list) :
           files[i].type \in {"directory", "general"} /\ Cardinality(Places(i)) = 1
    /\ \A g \in Groups : root[g] # Invalid => IsDirectory(files, root[g]) /\ Places(root[g]) = {}
    /\ \A i \in FileIds : files[i] # Absent => i < next

\* A general file stands on a storage file that counts its users right; puts go to
\* the node of the group (on_init of PutFileTrans), gets to that of the storage
\* file (GetFileSessionTrans), and the two are the same.
StorageBacked ==
    /\ \A i \in Generals :
           LET s == files[i].storage
           IN  /\ files[s].type = "storage"
               /\ files[s].uses = Cardinality({j \in Generals : files[j].storage = s})
    /\ \A g \in Groups : \A s \in Spellings :
           LET i == FileId(g, FilePath(s))
           IN  i \in Generals => files[files[i].storage].node = node[g]

\* What handlers, saves and restarts preserve of the table, each part relying on the
\* others: it is what every lookup of SharingGroup and every put or get starts from.
TableIsSound == TypeOK /\ EntriesExist /\ StorageBacked

\* The components a path is looked up by.
FullPaths == UNION {Prefixes(FilePath(s)) : s \in Spellings}
PathsOf(fs, rs) ==
    {<<q[1], q[2], fs[GetFileId(fs, rs[q[1]], q[2])].type>> :
        q \in {e \in Groups \X FullPaths :
                  rs[e[1]] # Invalid /\ GetFileId(fs, rs[e[1]], e[2]) # Invalid}}

Store == INSTANCE PathStore WITH
    paths <- PathsOf(files, root),
    stored <- IF torn THEN PathsOf(Empty.files, Empty.root) ELSE PathsOf(disk.files, disk.root)

\* The table, its ids and its two kinds of files are a set of paths: create_path adds
\* what is missing of a path, a put one file in a directory that exists, remove_path a
\* path and all below it and nothing else; a crash goes back to what was last saved,
\* and loses more only if it falls into a save.  For spellings of which FilePath leaves
\* no empty name: below "a///b", two entries of one name can hide one another.
ImplementsPathStore == Store!Spec
=============================================================================
