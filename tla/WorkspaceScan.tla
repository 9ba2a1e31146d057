---------------------------- MODULE WorkspaceScan ----------------------------
(***************************************************************************)
(* observe_workspace (workspace.py): a directory tree that others may edit *)
(* at any moment is walked twice, system call by system call, and the      *)
(* observation is accepted if both walks report the same entries.          *)
(*                                                                         *)
(* An object has a key (device and inode).  The data of a file is read in  *)
(* blocks through a descriptor, which stays with its object when the path  *)
(* is given another one; a directory stream likewise.  Directories and     *)
(* their children are visited in any order, a superset of the sorted order *)
(* of the code.  Links, special files, hard links and other devices are    *)
(* the kind "other".                                                       *)
(***************************************************************************)
EXTENDS Naturals, FiniteSets

CONSTANTS
  Root,        \* the workspace root
  Paths,       \* the paths below it
  Parent,      \* path -> the directory it is in
  Above,       \* path -> its proper ancestors below the root
  Alias,       \* path -> its case-folded Windows key
  Keys,        \* object identities
  NBlocks,     \* a file has at most so many blocks
  Versions,    \* the contents of a block
  Trees,       \* the trees an observation may begin with
  MaxEntries,  \* MAX_WORKSPACE_ENTRIES
  MaxEdits,    \* bound: edits by others
  MaxCallFailures  \* bound: failing system calls

ASSUME TreeAssumption ==
  /\ IsFiniteSet(Paths) /\ Root \notin Paths
  /\ Parent \in [Paths -> Paths \union {Root}]
  /\ Above \in [Paths -> SUBSET Paths]
  /\ \A p \in Paths :
       Above[p] = IF Parent[p] = Root THEN {} ELSE Above[Parent[p]] \union {Parent[p]}
  /\ \A p \in Paths : p \notin Above[p] /\ \A a \in Above[p] : Above[a] \subseteq Above[p]
  /\ \A p \in Paths : \A a \in Above[p] \union {Root} :
       \E c \in Above[p] \union {p} : Parent[c] = a
  /\ DOMAIN Alias = Paths
  /\ Keys \subseteq Nat \ {0} /\ Versions \subseteq Nat \ {0}
  /\ NBlocks \in Nat /\ MaxEntries \in Nat /\ MaxEdits \in Nat /\ MaxCallFailures \in Nat

VARIABLES
  tree,      \* path -> the object there
  at, pass,
  stack,     \* directories still to be scanned, with the key they were found with
  dir,       \* the directory being scanned
  unread,    \* its names the stream has not reached yet
  todo,      \* its names that were returned and not yet inspected
  file,      \* the file being hashed
  seen,      \* the entries of this walk
  first,     \* the entries of the first walk
  edits, callFailures,
  past,      \* history: what each facet of a path has been, and no longer is
  mid,       \* history: the tree between the two walks
  midPast,   \* history: past at that moment
  recurred,  \* history: an edit has brought a facet back to what it had been
  inPlace,   \* history: a file was written in place
  held       \* history: the files each path has held during this walk

world == <<tree, edits, past, recurred, inPlace>>
walk == <<stack, dir, unread, todo, file, seen>>
scanVars == <<world, walk, at, pass, first, callFailures, mid, midPast, held>>

-----------------------------------------------------------------------------

Blocks == 1..NBlocks
NoData == [i \in Blocks |-> 0]
Absent == [kind |-> "absent", key |-> 0, data |-> NoData]

\* A block beyond the end is 0.
Data == {d \in [Blocks -> Versions \union {0}] :
           \A i \in Blocks : d[i] = 0 => \A j \in Blocks : i <= j => d[j] = 0}
Objects == {Absent}
           \union [kind: {"dir", "other"}, key: Keys, data: {NoData}]
           \union [kind: {"file"}, key: Keys, data: Data]

\* A tree: what is in a directory that is not there is not there.
Consistent(t) == \A p \in Paths : \A a \in Above[p] : t[a].kind # "dir" => t[p] = Absent
Distinct(t) == \A p, q \in Paths : t[p].key = t[q].key /\ t[p].key # 0 => p = q

ASSUME TreesAssumption == \A t \in Trees : t \in [Paths -> Objects] /\ Consistent(t) /\ Distinct(t)

\* The root itself stays where it is; its key is compared like any other.
DirKey(p) == IF p = Root THEN 0 ELSE tree[p].key
IsDir(p) == p = Root \/ (p \in Paths /\ tree[p].kind = "dir")
Children(p) == {q \in Paths : Parent[q] = p}
Below(p) == {q \in Paths : p \in Above[q]}

\* What an entry of the observation says of an object.
Report(o) == [kind |-> o.kind, data |-> o.data]
Reported == {p \in Paths : seen[p].kind # "absent"}

NoDir == [path |-> Root, key |-> 0, stream |-> 0]
NoFile == [path |-> Root, key |-> 0, open |-> 0, data |-> NoData, got |-> NoData, n |-> 0]

-----------------------------------------------------------------------------
(* The others.                                                             *)

KindFacet == <<"kind", 0>>
DirFacet == <<"dir", 0>>
BlockFacet(i) == <<"block", i>>
Facets == {KindFacet, DirFacet} \union {BlockFacet(i) : i \in Blocks}

\* The observable facets of an object; "dir" is the identity of a directory.
Facet(o, f) == CASE f = KindFacet -> o.kind
                 [] f = DirFacet -> IF o.kind = "dir" THEN o.key ELSE 0
                 [] OTHER -> o.data[f[2]]

InUse == {tree[q].key : q \in Paths} \union {file.open, dir.stream}

\* One system call of somebody else: create, replace, write in place, truncate, remove, move in
\* or out.  A directory that leaves its path takes its entries with it.
Edit(p, o) ==
  /\ at \notin {"idle", "accepted", "refused"}
  /\ edits < MaxEdits /\ edits' = edits + 1
  /\ IsDir(Parent[p]) /\ o # tree[p]
  /\ o.kind = "absent" \/ o.key = tree[p].key \/ o.key \notin InUse
  /\ o.key = tree[p].key => o.kind = tree[p].kind
  /\ tree' = [q \in Paths |-> IF q = p THEN o ELSE IF q \in Below(p) THEN Absent ELSE tree[q]]
  /\ file' = IF o.kind = "file" /\ file.open = o.key
             THEN [file EXCEPT !.data = o.data] ELSE file
  /\ past' = [q \in Paths |-> [f \in Facets |->
                past[q][f] \union ({Facet(tree[q], f)} \ {Facet(tree'[q], f)})]]
  /\ recurred' = (recurred \/ \E q \in Paths, f \in Facets : Facet(tree'[q], f) \in past'[q][f])
  /\ inPlace' = (inPlace \/ (o.kind = "file" /\ o.key = tree[p].key))
  /\ held' = [q \in Paths |-> held[q] \union {tree'[q].data}]
  /\ UNCHANGED <<at, pass, stack, dir, unread, todo, seen, first, callFailures, mid, midPast>>

-----------------------------------------------------------------------------
(* The walk.                                                               *)

Refuse == at' = "refused" /\ UNCHANGED <<walk, pass, first, mid, midPast, held>>

\* observe_workspace records the root's key and starts the first walk.
Begin ==
  /\ at = "idle"
  /\ at' = "pop" /\ pass' = 1
  /\ stack' = {[path |-> Root, key |-> 0]} /\ seen' = [p \in Paths |-> Report(Absent)]
  /\ past' = [p \in Paths |-> [f \in Facets |-> {}]]
  /\ recurred' = FALSE /\ inPlace' = FALSE
  /\ held' = [p \in Paths |-> {tree[p].data}]
  /\ UNCHANGED <<tree, edits, dir, unread, todo, file, first, callFailures, mid, midPast>>

\* stack.pop() and the first _checked_directory_metadata.
Pop ==
  /\ at = "pop" /\ UNCHANGED <<world, callFailures>>
  /\ \E s \in stack :
       IF IsDir(s.path) /\ DirKey(s.path) = s.key
       THEN /\ at' = "opendir"
            /\ stack' = stack \ {s}
            /\ dir' = [path |-> s.path, key |-> s.key, stream |-> 0]
            /\ UNCHANGED <<unread, todo, file, seen, pass, first, mid, midPast, held>>
       ELSE Refuse

OpenDir ==
  /\ at = "opendir" /\ UNCHANGED <<world, callFailures>>
  /\ IF IsDir(dir.path)
     THEN /\ at' = "opened"
          /\ dir' = [dir EXCEPT !.stream = DirKey(dir.path)]
          /\ UNCHANGED <<stack, unread, todo, file, seen, pass, first, mid, midPast, held>>
     ELSE Refuse

CheckOpened ==
  /\ at = "opened" /\ UNCHANGED <<world, callFailures>>
  /\ IF IsDir(dir.path) /\ DirKey(dir.path) = dir.key
     THEN /\ at' = "list"
          /\ unread' = Children(dir.path) /\ todo' = {}
          /\ UNCHANGED <<stack, dir, file, seen, pass, first, mid, midPast, held>>
     ELSE Refuse

\* Mutant: one entry too many is let through.
ListNameOneMore ==
  /\ at = "list" /\ UNCHANGED <<world, callFailures>>
  /\ \E p \in unread, there \in BOOLEAN :
       /\ IsDir(dir.path) /\ DirKey(dir.path) = dir.stream => there = (tree[p].kind # "absent")
       /\ IF there /\ Cardinality(todo) > MaxEntries - Cardinality(Reported)
          THEN Refuse
          ELSE /\ unread' = unread \ {p}
               /\ todo' = IF there THEN todo \union {p} ELSE todo
               /\ UNCHANGED <<at, stack, dir, file, seen, pass, first, mid, midPast, held>>

\* The stream comes to a name: one that is there is returned.  What is in a directory that has
\* left its path is not known here.
ListName ==
  /\ at = "list" /\ UNCHANGED <<world, callFailures>>
  /\ \E p \in unread, there \in BOOLEAN :
       /\ IsDir(dir.path) /\ DirKey(dir.path) = dir.stream => there = (tree[p].kind # "absent")
       /\ IF there /\ Cardinality(todo) >= MaxEntries - Cardinality(Reported)
          THEN Refuse
          ELSE /\ unread' = unread \ {p}
               /\ todo' = IF there THEN todo \union {p} ELSE todo
               /\ UNCHANGED <<at, stack, dir, file, seen, pass, first, mid, midPast, held>>

CheckListed ==
  /\ at = "list" /\ unread = {} /\ UNCHANGED <<world, callFailures>>
  /\ IF IsDir(dir.path) /\ DirKey(dir.path) = dir.key
     THEN /\ at' = "children"
          /\ dir' = NoDir
          /\ UNCHANGED <<stack, unread, todo, file, seen, pass, first, mid, midPast, held>>
     ELSE Refuse

Aliased(p) == \E q \in Reported : q # p /\ Alias[q] = Alias[p]

\* The lstat of one returned name: a directory is pushed, a file is hashed, the rest refused.
Inspect ==
  /\ at = "children" /\ UNCHANGED <<world, callFailures>>
  /\ \E p \in todo :
       \/ /\ tree[p].kind = "dir" /\ ~Aliased(p)
          /\ todo' = todo \ {p}
          /\ seen' = [seen EXCEPT ![p] = Report(tree[p])]
          /\ stack' = stack \union {[path |-> p, key |-> tree[p].key]}
          /\ UNCHANGED <<at, dir, unread, file, pass, first, mid, midPast, held>>
       \/ /\ tree[p].kind = "file" /\ ~Aliased(p)
          /\ at' = "open"
          /\ todo' = todo \ {p}
          /\ file' = [NoFile EXCEPT !.path = p, !.key = tree[p].key]
          /\ UNCHANGED <<stack, dir, unread, seen, pass, first, mid, midPast, held>>
       \/ /\ tree[p].kind \in {"absent", "other"} \/ Aliased(p)
          /\ Refuse

\* os.open and the first fstat.
OpenFile ==
  /\ at = "open" /\ UNCHANGED <<world, callFailures>>
  /\ IF tree[file.path].kind = "file" /\ tree[file.path].key = file.key
     THEN /\ at' = "read"
          /\ file' = [file EXCEPT !.open = file.key, !.data = tree[file.path].data]
          /\ UNCHANGED <<stack, dir, unread, todo, seen, pass, first, mid, midPast, held>>
     ELSE Refuse

\* Mutant: the last block is counted and not hashed.
ReadBlockSkipsLast ==
  /\ at = "read" /\ file.n + 1 \in Blocks /\ file.data[file.n + 1] # 0
  /\ file' = [file EXCEPT !.n = @ + 1,
                          !.got[file.n + 1] = IF file.n + 2 \in Blocks THEN file.data[file.n + 1] ELSE 0]
  /\ UNCHANGED <<world, stack, dir, unread, todo, seen, at, pass, first, callFailures, mid, midPast, held>>

ReadBlock ==
  /\ at = "read" /\ file.n + 1 \in Blocks /\ file.data[file.n + 1] # 0
  /\ file' = [file EXCEPT !.n = @ + 1, !.got[file.n + 1] = file.data[file.n + 1]]
  /\ UNCHANGED <<world, stack, dir, unread, todo, seen, at, pass, first, callFailures, mid, midPast, held>>

Eof ==
  /\ at = "read" /\ (file.n + 1 \in Blocks => file.data[file.n + 1] = 0)
  /\ at' = "fstat"
  /\ UNCHANGED <<world, walk, pass, first, callFailures, mid, midPast, held>>

Size(d) == Cardinality({i \in Blocks : d[i] # 0})

\* The second fstat: the size is what was read.
StatFile ==
  /\ at = "fstat" /\ UNCHANGED <<world, callFailures>>
  /\ IF Size(file.data) = file.n
     THEN at' = "lstat" /\ UNCHANGED <<walk, pass, first, mid, midPast, held>>
     ELSE Refuse

\* The last lstat, and the entry.
StatPath ==
  /\ at = "lstat" /\ UNCHANGED <<world, callFailures>>
  /\ IF tree[file.path].kind = "file" /\ tree[file.path].key = file.key
     THEN /\ at' = "children"
          /\ seen' = [seen EXCEPT ![file.path] = [kind |-> "file", data |-> file.got]]
          /\ file' = NoFile
          /\ UNCHANGED <<stack, dir, unread, todo, pass, first, mid, midPast, held>>
     ELSE Refuse

DirDone ==
  /\ at = "children" /\ todo = {}
  /\ at' = IF stack = {} THEN "walked" ELSE "pop"
  /\ UNCHANGED <<world, walk, pass, first, callFailures, mid, midPast, held>>

\* After the first walk the second begins; after the second the two are compared.
SecondWalk ==
  /\ at = "walked" /\ pass = 1
  /\ at' = "pop" /\ pass' = 2
  /\ first' = seen /\ seen' = [p \in Paths |-> Report(Absent)]
  /\ stack' = {[path |-> Root, key |-> 0]}
  /\ mid' = tree /\ midPast' = past
  /\ held' = [p \in Paths |-> {tree[p].data}]
  /\ UNCHANGED <<world, dir, unread, todo, file, callFailures>>

\* Mutant: the first walk alone decides.
CompareNothing ==
  /\ at = "walked" /\ pass = 2 /\ UNCHANGED <<world, callFailures>>
  /\ at' = "accepted" /\ UNCHANGED <<walk, pass, first, mid, midPast, held>>

Compare ==
  /\ at = "walked" /\ pass = 2 /\ UNCHANGED <<world, callFailures>>
  /\ IF first = seen
     THEN at' = "accepted" /\ UNCHANGED <<walk, pass, first, mid, midPast, held>>
     ELSE Refuse

\* Any system call may fail, and a size limit may be exceeded.
CallFails ==
  /\ at \notin {"idle", "walked", "accepted", "refused"}
  /\ callFailures < MaxCallFailures /\ callFailures' = callFailures + 1
  /\ Refuse /\ UNCHANGED world

-----------------------------------------------------------------------------

ScanInit ==
  /\ tree \in Trees
  /\ at = "idle" /\ pass = 1
  /\ stack = {} /\ dir = NoDir /\ unread = {} /\ todo = {} /\ file = NoFile
  /\ seen = [p \in Paths |-> Report(Absent)] /\ first = seen
  /\ edits = 0 /\ callFailures = 0
  /\ past = [p \in Paths |-> [f \in Facets |-> {}]] /\ midPast = past
  /\ mid = tree /\ held = [p \in Paths |-> {}]
  /\ recurred = FALSE /\ inPlace = FALSE

Hash == OpenFile \/ ReadBlock \/ Eof \/ StatFile \/ StatPath
Walk == Pop \/ OpenDir \/ CheckOpened \/ ListName \/ CheckListed \/ Inspect \/ Hash \/ DirDone

ScanNext == \/ \E p \in Paths, o \in Objects : Edit(p, o)
        \/ Begin \/ Walk \/ SecondWalk \/ Compare \/ CallFails

ScanSpec == ScanInit /\ [][ScanNext]_scanVars

-----------------------------------------------------------------------------
(* Properties.                                                             *)

DirRecords == [path: Paths \union {Root}, key: Keys \union {0}, stream: Keys \union {0}]
FileRecords == [path: Paths \union {Root}, key: Keys \union {0}, open: Keys \union {0},
                data: Data, got: [Blocks -> Versions \union {0}], n: 0..NBlocks]

\* The shape of the state; the tree stays a tree.
ScanTypeOK ==
  /\ tree \in [Paths -> Objects] /\ Consistent(tree) /\ Distinct(tree)
  /\ pass \in 1..2 /\ edits \in 0..MaxEdits /\ callFailures \in 0..MaxCallFailures
  /\ stack \subseteq [path: Paths \union {Root}, key: Keys \union {0}]
  /\ dir \in DirRecords /\ file \in FileRecords
  /\ unread \subseteq Paths /\ todo \subseteq Paths
  /\ seen \in [Paths -> [kind: {"absent", "dir", "file"}, data: [Blocks -> Versions \union {0}]]]

\* Two walks that agree are a snapshot: unless an edit brought something back to what it had been
\* before, the reported entries are exactly the tree of one moment, the one between the walks,
\* however files and directories were edited during both (observe_workspace).
SnapshotWhenAgreed ==
  at = "accepted" /\ ~recurred => seen = [p \in Paths |-> Report(mid[p])]

\* Somewhere in the tree something cannot be reported.
Unsupported(t) ==
  \/ \E p \in Paths : t[p].kind = "other"
  \/ \E p, q \in Paths : p # q /\ Alias[p] = Alias[q] /\ "absent" \notin {t[p].kind, t[q].kind}
  \/ Cardinality({p \in Paths : t[p].kind # "absent"}) > MaxEntries

\* The policy on kinds, aliases and the number of entries is applied exactly: a tree nobody edits
\* is refused only for one of the three or a failed call, and nothing is reported that exceeds the
\* entry limit or aliases (_scan_workspace_once; its limits on bytes, depth and names are not told
\* apart from a failed call, CallFails).
PolicyExact ==
  /\ at = "refused" /\ edits = 0 /\ callFailures = 0 => Unsupported(tree)
  /\ at \in {"walked", "accepted"} =>
       /\ Cardinality(Reported) <= MaxEntries
       /\ \A p, q \in Reported : p # q => Alias[p] # Alias[q]

\* If files are only ever replaced as a whole, a walk never reports a mixture of two contents: it
\* reports what the path held at some moment of that walk (_bounded_file_identity).
NoTornFile ==
  at \in {"walked", "accepted"} /\ ~inPlace =>
    \A p \in Reported : seen[p].kind = "file" => seen[p].data \in held[p]
=============================================================================
