--------------------------------- MODULE VFS ---------------------------------
(***************************************************************************)
(* The in-memory file system, filesystem/vfs/vfs.c: a fixed table of nodes *)
(* threaded into a tree by parent, child and sibling pointers, the working *)
(* directory as an absolute path, and file contents in heap buffers.       *)
(*                                                                         *)
(* A path is its sequence of components and whether it starts with a       *)
(* slash; an empty last component is a trailing slash.  The lengths of     *)
(* names and paths, modes and owners are left out.  The file system is one *)
(* record, so that vfs_copy and vfs_rename compose the operations they     *)
(* call; operations that may run out of heap return a set of outcomes.     *)
(***************************************************************************)
EXTENDS Integers, Sequences, SequencesExt, FiniteSets

CONSTANTS
    VFS_MAX_NODES,
    MAX_PARTS,  \* 32, the components vfs_chdir has room for
    Names,      \* the names of files and directories
    Contents,   \* the contents of files
    Empty,      \* the content of size zero
    Paths,      \* the paths callers pass
    SeedDirs,   \* the directories vfs_init makes, in order
    SeedFiles   \* the files it writes: <<[path, content], ...>>

NULL == 0
Nodes == 1 .. VFS_MAX_NODES
Root == 1
NoData == "no data"  \* node->data is NULL
NoName == ""
Components == Names \cup {NoName, ".", ".."}
PathNames == [abs : BOOLEAN, parts : Seq(Components)]

ASSUME NodesAssumption == VFS_MAX_NODES \in Nat \ {0} /\ MAX_PARTS \in Nat
ASSUME NamesAssumption == Names \cap {NoName, ".", "..", "/"} = {}
ASSUME ContentsAssumption == Empty \in Contents /\ NoData \notin Contents
ASSUME PathsAssumption == Paths \subseteq PathNames
ASSUME SeedAssumption ==
    /\ SeedDirs \in Seq(PathNames)
    /\ SeedFiles \in Seq([path : PathNames, content : Contents])

VARIABLES
    fs,   \* the node table, the working directory and the buffers in use
    ret   \* what the last call returned

vars == <<fs, ret>>

Pointers == Nodes \cup {NULL}
AllNames == Names \cup {NoName, ".", "..", "/"}

\* bufs is history: kmalloc calls less kfree calls made for file contents.
FileSystems ==
    [name : [Nodes -> AllNames], type : [Nodes -> {"none", "file", "dir"}],
     data : [Nodes -> Contents \cup {NoData}],
     parent : [Nodes -> Pointers], child : [Nodes -> Pointers],
     sibling : [Nodes -> Pointers],
     node_count : 0 .. VFS_MAX_NODES, cwd : Seq(Names), bufs : Int]
----------------------------------------------------------------------------
\* The children of d in list order, padded with NULL.
Sibling(f, n) == IF n = NULL THEN NULL ELSE f.sibling[n]

Children(f, d) ==
    LET c[k \in 0 .. VFS_MAX_NODES] ==
            IF k = 0 THEN f.child[d] ELSE Sibling(f, c[k - 1])
    IN  c

\* A fault: only the first child is compared.
FirstChild(f, d, name) ==
    LET k == f.child[d] IN IF k = NULL THEN NULL ELSE IF f.name[k] = name THEN k ELSE NULL

find_child(f, d, name) ==
    LET c == Children(f, d)
        hits == {k \in DOMAIN c : c[k] # NULL /\ f.name[c[k]] = name}
    IN  IF hits = {} THEN NULL ELSE c[CHOOSE k \in hits : \A j \in hits : k <= j]

normalize_path(f, path) == IF path.abs THEN path.parts ELSE f.cwd \o path.parts

\* One iteration of the loop in vfs_resolve.
Step(f, cur, part) ==
    CASE cur = NULL           -> NULL
      [] cur # NULL /\ part \in {NoName, "."} -> cur
      [] cur # NULL /\ part = ".." -> IF f.parent[cur] = NULL THEN cur ELSE f.parent[cur]
      [] OTHER                -> find_child(f, cur, part)

Follow(f, parts) == FoldLeft(LAMBDA cur, part : Step(f, cur, part), Root, parts)
vfs_resolve(f, path) == Follow(f, normalize_path(f, path))

\* A fault: one node too many.
TableOverfull(f) == f.node_count > VFS_MAX_NODES
TableFull(f) == f.node_count >= VFS_MAX_NODES

\* vfs_mkdir and vfs_create, which differ in the type of the new node:
\* ensure_parent, the tests, then alloc_node and link_child.
MakeNode(f, path, type) ==
    LET full   == normalize_path(f, path)
        leaf   == IF full = <<>> THEN NoName ELSE Last(full)
        dir    == IF full = <<>> THEN Root ELSE Follow(f, Front(full))
        n      == f.node_count + 1
    IN  IF dir = NULL \/ leaf = NoName THEN [fs |-> f, ret |-> NULL]
        ELSE IF f.type[dir] # "dir" THEN [fs |-> f, ret |-> NULL]
        ELSE IF find_child(f, dir, leaf) # NULL
             THEN [fs |-> f, ret |-> find_child(f, dir, leaf)]
        ELSE IF TableFull(f) THEN [fs |-> f, ret |-> NULL]
        ELSE [fs |-> [f EXCEPT !.node_count = n,
                               !.name[n] = leaf, !.type[n] = type,
                               !.parent[n] = dir,
                               !.sibling[n] = f.child[dir], !.child[dir] = n],
              ret |-> n]

vfs_mkdir(f, path) == MakeNode(f, path, "dir")
vfs_create(f, path) == MakeNode(f, path, "file")

Size(content) == IF content \in {Empty, NoData} THEN 0 ELSE 1

\* Faults: the old buffer is not freed, or freed before the new one is
\* there.
WriteLeaks(f, n, content) ==
    IF n = NULL THEN {[fs |-> f, ret |-> -1]}
    ELSE IF f.type[n] # "file" THEN {[fs |-> f, ret |-> -1]}
    ELSE {[fs |-> f, ret |-> -1],
          [fs |-> [f EXCEPT !.data[n] = content, !.bufs = @ + 1], ret |-> Size(content)]}

WriteFreesFirst(f, n, content) ==
    IF n = NULL THEN {[fs |-> f, ret |-> -1]}
    ELSE IF f.type[n] # "file" THEN {[fs |-> f, ret |-> -1]}
    ELSE {[fs |-> [f EXCEPT !.data[n] = NoData,
                            !.bufs = IF f.data[n] = NoData THEN @ ELSE @ - 1],
           ret |-> -1],
          [fs |-> [f EXCEPT !.data[n] = content,
                            !.bufs = IF f.data[n] = NoData THEN @ + 1 ELSE @],
           ret |-> Size(content)]}

\* The content is replaced: a buffer that was there is freed.
Overwrite(f, n, content) ==
    [f EXCEPT !.data[n] = content, !.bufs = IF f.data[n] = NoData THEN @ + 1 ELSE @]

\* The new buffer is allocated before the old one is freed; without memory
\* the call fails and the file keeps its content.
vfs_write(f, n, content) ==
    IF n = NULL THEN {[fs |-> f, ret |-> -1]}
    ELSE IF f.type[n] # "file" THEN {[fs |-> f, ret |-> -1]}
    ELSE {[fs |-> f, ret |-> -1], [fs |-> Overwrite(f, n, content), ret |-> Size(content)]}

\* A fault: the list is cut at the node, wherever it is.
UnlinkHead(f, path) ==
    LET n   == vfs_resolve(f, path)
        dir == f.parent[n]
    IN  IF n \in {NULL, Root} THEN [fs |-> f, ret |-> -1]
        ELSE [fs |-> [f EXCEPT !.child[dir] = f.sibling[n],
                               !.bufs = IF f.data[n] = NoData THEN @ ELSE @ - 1,
                               !.data[n] = NoData,
                               !.name[n] = NoName],
              ret |-> 0]

\* The children of a directory stay allocated, out of reach.
vfs_unlink(f, path) ==
    LET n   == vfs_resolve(f, path)
        dir == f.parent[n]
        c   == Children(f, dir)
        before == {k \in DOMAIN c : c[k] # NULL /\ f.sibling[c[k]] = n}
    IN  IF n \in {NULL, Root} THEN [fs |-> f, ret |-> -1]
        ELSE [fs |-> [f EXCEPT
                        !.child[dir] = IF @ = n THEN f.sibling[n] ELSE @,
                        !.sibling = IF f.child[dir] = n \/ before = {} THEN @
                                    ELSE [@ EXCEPT ![c[CHOOSE k \in before : TRUE]] = f.sibling[n]],
                        !.bufs = IF f.data[n] = NoData THEN @ ELSE @ - 1,
                        !.data[n] = NoData,
                        !.name[n] = NoName],
              ret |-> 0]

\* An empty source creates the destination and writes nothing.
vfs_copy(f, src, dst) ==
    LET s == vfs_resolve(f, src)
        d == vfs_create(f, dst)
    IN  IF s = NULL THEN {[fs |-> f, ret |-> -1]}
        ELSE IF f.type[s] # "file" THEN {[fs |-> f, ret |-> -1]}
        ELSE IF d.ret = NULL THEN {[fs |-> d.fs, ret |-> -1]}
        ELSE IF Size(f.data[s]) = 0 THEN {[fs |-> d.fs, ret |-> 0]}
        ELSE vfs_write(d.fs, d.ret, f.data[s])

vfs_rename(f, src, dst) ==
    {IF o.ret # 0 THEN [fs |-> o.fs, ret |-> -1] ELSE vfs_unlink(o.fs, src)
        : o \in vfs_copy(f, src, dst)}

\* The way from n up to the root, along the parent pointers.
Parent(f, n) == IF n \in {NULL, Root} THEN n ELSE f.parent[n]

Up(f, n) ==
    LET up[k \in 0 .. VFS_MAX_NODES] == IF k = 0 THEN n ELSE Parent(f, up[k - 1])
    IN  up

Depth(f, n) == Cardinality({k \in 0 .. VFS_MAX_NODES : Up(f, n)[k] \notin {NULL, Root}})

\* The names on the way that `parts' has room for.
Kept(f, n) == IF Depth(f, n) < MAX_PARTS THEN Depth(f, n) ELSE MAX_PARTS

\* A fault: the last component is lost.
PathShort(f, n) == [i \in 1 .. Kept(f, n) - 1 |-> f.name[Up(f, n)[Kept(f, n) - i]]]

\* The names from the root, or from below it where there are too many, to n.
PathOf(f, n) == [i \in 1 .. Kept(f, n) |-> f.name[Up(f, n)[Kept(f, n) - i]]]

vfs_chdir(f, path) ==
    LET n == vfs_resolve(f, path)
    IN  IF n = NULL THEN [fs |-> f, ret |-> -1]
        ELSE IF f.type[n] # "dir" THEN [fs |-> f, ret |-> -1]
        ELSE [fs |-> [f EXCEPT !.cwd = PathOf(f, n)], ret |-> 0]

\* The table after memset, with the root.
Blank ==
    [name |-> [n \in Nodes |-> IF n = Root THEN "/" ELSE NoName],
     type |-> [n \in Nodes |-> IF n = Root THEN "dir" ELSE "none"],
     data |-> [n \in Nodes |-> NoData],
     parent |-> [n \in Nodes |-> NULL], child |-> [n \in Nodes |-> NULL],
     sibling |-> [n \in Nodes |-> NULL],
     node_count |-> 1, cwd |-> <<>>, bufs |-> 0]

\* A file of the seeded hierarchy, if it can be made.
SeedFile(f, s) ==
    LET m == vfs_create(f, s.path)
    IN  IF m.ret = NULL THEN m.fs
        ELSE IF m.fs.type[m.ret] # "file" THEN m.fs
        ELSE Overwrite(m.fs, m.ret, s.content)

\* vfs_init: the root and the seeded hierarchy, with memory to spare.
vfs_init ==
    FoldLeft(SeedFile, FoldLeft(LAMBDA f, p : vfs_mkdir(f, p).fs, Blank, SeedDirs), SeedFiles)
----------------------------------------------------------------------------
Init == fs = vfs_init /\ ret = 0

Returns(o) == fs' = o.fs /\ ret' = o.ret

\* vfs_mkdir returns a pointer, which callers compare with NULL.
Mkdir(p) == LET m == vfs_mkdir(fs, p)
            IN  fs' = m.fs /\ ret' = IF m.ret = NULL THEN -1 ELSE 0
Cd(p) == Returns(vfs_chdir(fs, p))
Rm(p) == Returns(vfs_unlink(fs, p))
Cp(src, dst) == \E o \in vfs_copy(fs, src, dst) : Returns(o)
Mv(src, dst) == \E o \in vfs_rename(fs, src, dst) : Returns(o)

\* How every caller writes: create or find the file, then write it whole.
Save(p, content) ==
    LET m == vfs_create(fs, p)
    IN  \E o \in vfs_write(m.fs, m.ret, content) : Returns(o)

Next ==
    \/ \E p \in Paths : Mkdir(p) \/ Cd(p) \/ Rm(p)
    \/ \E p \in Paths, content \in Contents : Save(p, content)
    \/ \E src, dst \in Paths : Cp(src, dst) \/ Mv(src, dst)

Spec == Init /\ [][Next]_vars
----------------------------------------------------------------------------
TypeOK == fs \in FileSystems /\ ret \in {-1, 0, 1}

Members(f, d) == {Children(f, d)[k] : k \in 0 .. VFS_MAX_NODES} \ {NULL}

\* n and the nodes below it.
WithMembers(f, S) == S \cup UNION {Members(f, d) : d \in S}

Below(f, n) ==
    LET r[k \in 0 .. VFS_MAX_NODES] == IF k = 0 THEN {n} ELSE WithMembers(f, r[k - 1])
    IN  r[VFS_MAX_NODES]

Reachable(f) == Below(f, Root)

(***************************************************************************)
(* The pointers form a tree, through every mkdir, create, unlink, copy and *)
(* rename: every child list ends, holds nodes that point back to its owner *)
(* (so a node is in one list only), has no two children of one name, and   *)
(* only directories have children (link_child vfs.c:24, unlink vfs.c:180). *)
(***************************************************************************)
TreeWellFormed ==
    \A d \in Nodes :
        /\ Children(fs, d)[VFS_MAX_NODES] = NULL
        /\ \A n \in Members(fs, d) :
              /\ fs.parent[n] = d /\ fs.type[d] = "dir"
              /\ n # Root /\ fs.type[n] # "none" /\ fs.name[n] # NoName
        /\ \A m, n \in Members(fs, d) : fs.name[m] = fs.name[n] => m = n

(***************************************************************************)
(* Every heap buffer the file system holds belongs to exactly one node:    *)
(* overwriting, copying a file onto itself, failed writes and unlinking    *)
(* neither leak a buffer nor free one twice (vfs.c:157, vfs.c:161,         *)
(* vfs.c:187).                                                             *)
(***************************************************************************)
BuffersExact == fs.bufs = Cardinality({n \in Nodes : fs.data[n] # NoData})

(***************************************************************************)
(* vfs_unlink (vfs.c:175) takes away the node and what is below it, and    *)
(* leaves every other node where it was, with its content.                 *)
(***************************************************************************)
RmTakesOnlySubtree ==
    [][(fs'.name # fs.name /\ ret' = 0) => \A p \in Paths : Rm(p) =>
          LET n    == vfs_resolve(fs, p)
              rest == Reachable(fs) \ Below(fs, n)
          IN  /\ Reachable(fs') = rest
              /\ \A m \in rest : PathOf(fs', m) = PathOf(fs, m) /\ fs'.data[m] = fs.data[m]]_vars

(***************************************************************************)
(* A write that fails, or a copy whose write fails, loses nothing that was *)
(* there: vfs_write allocates before it frees (vfs.c:157), so that a file  *)
(* keeps its old content until the new one is in place.                    *)
(***************************************************************************)
FailureKeepsContent ==
    [][(ret' = -1 /\ \E n \in Nodes : fs.data[n] \notin {NoData, fs'.data[n]})
         => /\ \A p \in Paths, content \in Contents : ~Save(p, content)
            /\ \A src, dst \in Paths : ~Cp(src, dst)]_vars

(***************************************************************************)
(* After a successful vfs_chdir the path rebuilt in cwd (vfs.c:216) leads  *)
(* back to the directory that was named, whatever mixture of `..' and      *)
(* relative parts named it, as long as it lies no deeper than `parts' has  *)
(* room for (vfs.c:220); below that the path loses its beginning.          *)
(***************************************************************************)
CdArrives ==
    [][fs'.cwd # fs.cwd => \A p \in Paths : Cd(p) =>
          \/ Depth(fs, vfs_resolve(fs, p)) > MAX_PARTS
          \/ Follow(fs', fs'.cwd) = vfs_resolve(fs, p)]_vars

(***************************************************************************)
(* `mv' is offered among the "classic UNIX-like commands"                  *)
(* (terminal.c:2): once vfs_rename (vfs.c:202) has put the content of the  *)
(* source under a new name, it reports success and the old name is gone.   *)
(***************************************************************************)
MvMoves ==
    [][\A src, dst \in Paths :
          LET s == vfs_resolve(fs, src)
              d == vfs_resolve(fs', dst)
              copied == IF s = NULL \/ d = NULL THEN FALSE
                        ELSE Size(fs.data[s]) > 0 /\ fs'.data[d] = fs.data[s]
          IN  (Mv(src, dst) /\ vfs_resolve(fs, dst) = NULL /\ copied)
                => ret' = 0 /\ vfs_resolve(fs', src) = NULL]_vars
=============================================================================
