------------------------------ MODULE VFSProof ------------------------------
(***************************************************************************)
(* Proofs about VFS for every table size, set of names and contents,       *)
(* seeded hierarchy and set of paths.                                      *)
(***************************************************************************)
EXTENDS VFS, Counting

\* The nodes that point to d as their parent and were not unlinked.
Kids(f, d) == {n \in Nodes : f.parent[n] = d /\ f.name[n] # NoName}

\* The list of a directory holds its kids, the newest first: each new node
\* has a higher number than those before and comes to the head of its list.
Threaded(f) ==
    \A d \in Nodes :
        /\ f.child[d] \in Kids(f, d) \cup {NULL}
        /\ \A n \in Kids(f, d) :
              /\ n <= f.child[d]
              /\ f.sibling[n] \in Kids(f, d) \cup {NULL}
              /\ f.sibling[n] < n
              /\ \A m \in Kids(f, d) : m < n => m <= f.sibling[n]

\* A node that has a parent is in use and younger than its parent, which is
\* a directory.
Parented(f) ==
    \A n \in Nodes : f.parent[n] # NULL =>
        /\ f.parent[n] < n /\ n <= f.node_count
        /\ f.type[f.parent[n]] = "dir" /\ f.type[n] # "none"

Rooted(f) == f.node_count >= 1 /\ f.type[Root] = "dir"

Distinct(f) ==
    \A d \in Nodes : \A m, n \in Kids(f, d) : f.name[m] = f.name[n] => m = n

Buffered(f) == {n \in Nodes : f.data[n] # NoData}
Counted(f) == f.bufs = Cardinality(Buffered(f))

\* The inductive invariant.
Good(f) ==
    /\ f \in FileSystems
    /\ Threaded(f) /\ Parented(f) /\ Rooted(f) /\ Distinct(f) /\ Counted(f)
----------------------------------------------------------------------------
\* What the type of a file system says of its fields.
LEMMA Fields ==
    ASSUME NEW f \in FileSystems
    PROVE  /\ f.name \in [Nodes -> AllNames]
           /\ f.type \in [Nodes -> {"none", "file", "dir"}]
           /\ f.data \in [Nodes -> Contents \cup {NoData}]
           /\ f.parent \in [Nodes -> Pointers]
           /\ f.child \in [Nodes -> Pointers]
           /\ f.sibling \in [Nodes -> Pointers]
           /\ f.node_count \in 0 .. VFS_MAX_NODES
           /\ f.cwd \in Seq(Names)
           /\ f.bufs \in Int
BY DEF FileSystems

\* Nodes are positive numbers.
LEMMA NodesAre ==
    /\ VFS_MAX_NODES \in Nat /\ VFS_MAX_NODES >= 1
    /\ Nodes \subseteq Nat /\ Pointers \subseteq Nat /\ Root \in Nodes
    /\ NULL = 0 /\ NULL \notin Nodes /\ Root = 1
    /\ \A n : n \in Nodes <=> n \in Nat /\ 1 <= n /\ n <= VFS_MAX_NODES
    /\ \A n : n \in Pointers <=> n \in Nat /\ n <= VFS_MAX_NODES
BY NodesAssumption DEF Nodes, Pointers, Root, NULL

\* The recursive function in Children exists.
LEMMA ChildrenDef ==
    ASSUME NEW f \in FileSystems, NEW d \in Nodes
    PROVE  /\ Children(f, d) \in [0 .. VFS_MAX_NODES -> Pointers]
           /\ Children(f, d)[0] = f.child[d]
           /\ \A k \in 1 .. VFS_MAX_NODES :
                 Children(f, d)[k] = Sibling(f, Children(f, d)[k - 1])
<1> DEFINE N == VFS_MAX_NODES
           Eq(c) == c = [k \in 0 .. N |-> IF k = 0 THEN f.child[d] ELSE Sibling(f, c[k - 1])]
           F == [n \in Pointers |-> Sibling(f, n)]
<1>1. N \in Nat /\ f.child[d] \in Pointers
  BY Fields, NodesAre
<1>2. \A n \in Pointers : Sibling(f, n) \in Pointers /\ F[n] = Sibling(f, n)
  <2> TAKE n \in Pointers
  <2>1. n = NULL \/ n \in Nodes
    BY DEF Pointers
  <2>2. NULL \in Pointers
    BY DEF Pointers
  <2> QED
    BY <2>1, <2>2, Fields DEF Sibling
<1>3. \E c : Eq(c) /\ c \in [0 .. N -> Pointers]
  <2> HIDE DEF N, F
  <2>0. \A v \in Pointers : F[v] \in Pointers
    BY <1>2
  <2>1. PICK c \in [0 .. N -> Pointers] : Iterates(F, f.child[d], N, c)
    BY <1>1, <2>0, IterationExists
  <2>2. \A k \in 0 .. N : k # 0 => c[k - 1] \in Pointers
    BY <1>1
  <2>3. \A k \in 0 .. N : k # 0 => F[c[k - 1]] = Sibling(f, c[k - 1])
    BY <1>2, <2>2
  <2>4. Eq(c)
    BY <2>1, <2>3 DEF Iterates
  <2> QED
    BY <2>4
<1>4. Eq(Children(f, d))
  <2>1. Children(f, d) = CHOOSE c : Eq(c)
    BY DEF Children
  <2> HIDE DEF Eq
  <2> QED
    BY <1>3, <2>1
<1> DEFINE c == Children(f, d)
<1> HIDE DEF c
<1>5. /\ c[0] = f.child[d]
      /\ \A k \in 1 .. N : c[k] = Sibling(f, c[k - 1])
      /\ DOMAIN c = 0 .. N /\ c = [k \in 0 .. N |-> c[k]]
  <2>1. c = [k \in 0 .. N |-> IF k = 0 THEN f.child[d] ELSE Sibling(f, c[k - 1])]
    BY <1>4 DEF c
  <2>2. 0 \in 0 .. N /\ \A k \in 1 .. N : k \in 0 .. N /\ k # 0
    BY <1>1
  <2> HIDE DEF N
  <2> QED
    BY <2>1, <2>2
<1>6. \A k \in 0 .. N : c[k] \in Pointers
  <2> DEFINE Done == {k \in Nat : k \in 0 .. N => c[k] \in Pointers}
  <2>1. 0 \in Done
    BY <1>1, <1>5
  <2>2. ASSUME NEW k \in Nat, k \in Done PROVE k + 1 \in Done
    <3> SUFFICES ASSUME k + 1 \in 0 .. N PROVE c[k + 1] \in Pointers
      OBVIOUS
    <3>1. k \in 0 .. N /\ k + 1 \in 1 .. N /\ (k + 1) - 1 = k
      BY <1>1
    <3>2. c[k] \in Pointers /\ c[k + 1] = Sibling(f, c[k])
      BY <1>5, <2>2, <3>1
    <3> QED
      BY <1>2, <3>2
  <2>3. Nat \subseteq Done
    <3> HIDE DEF Done
    <3> QED
      BY <2>1, <2>2, SetInduction
  <2> QED
    BY <2>3, <1>1
<1> QED
  BY <1>5, <1>6 DEF c

\* The list of d is its kids, and it ends.
LEMMA MembersAreKids ==
    ASSUME NEW f, Good(f), NEW d \in Nodes
    PROVE  /\ Members(f, d) = Kids(f, d)
           /\ Children(f, d)[VFS_MAX_NODES] = NULL
<1> DEFINE N == VFS_MAX_NODES
           c == Children(f, d)
           K == Kids(f, d)
<1>1. /\ f \in FileSystems /\ N \in Nat
      /\ K \subseteq Nodes /\ NULL \notin K /\ NULL = 0
      /\ \A n \in K \cup {NULL} : n \in Nat /\ n <= N
      /\ f.child[d] \in K \cup {NULL}
      /\ \A n \in K : /\ n <= f.child[d] /\ n <= N /\ n \in Nat /\ n # NULL
                      /\ f.sibling[n] \in K \cup {NULL}
                      /\ f.sibling[n] < n
                      /\ \A m \in K : m < n => m <= f.sibling[n]
  <2>1. f \in FileSystems /\ Threaded(f) /\ K \subseteq Nodes
    BY DEF Good, Kids
  <2>2. N \in Nat /\ NULL \notin K /\ NULL = 0
        /\ \A n \in K \cup {NULL} : n \in Nat /\ n <= N
    BY <2>1, NodesAre
  <2> QED
    BY <2>1, <2>2 DEF Threaded
<1>2. /\ c[0] = f.child[d]
      /\ \A k \in 1 .. N : c[k] = Sibling(f, c[k - 1])
  BY <1>1, ChildrenDef
<1> HIDE DEF c, K
\* Each member is a kid, and the k-th is at most N - k.
<1> DEFINE Walked == {k \in Nat : k \in 0 .. N =>
                         /\ c[k] \in K \cup {NULL}
                         /\ c[k] <= N - k
                         /\ \A n \in K : n > c[k] => \E j \in 0 .. k : c[j] = n}
<1>3. 0 \in Walked
  <2>2. c[0] \in K \cup {NULL} /\ c[0] <= N - 0
    BY <1>1, <1>2
  <2>3. \A n \in K : ~(n > c[0])
    BY <1>1, <1>2, <2>2
  <2> QED
    BY <2>2, <2>3
<1>4. ASSUME NEW k \in Nat, k \in Walked PROVE k + 1 \in Walked
  <2> SUFFICES ASSUME k + 1 \in 0 .. N
               PROVE  /\ c[k + 1] \in K \cup {NULL}
                      /\ c[k + 1] <= N - (k + 1)
                      /\ \A n \in K : n > c[k + 1] => \E j \in 0 .. k + 1 : c[j] = n
    OBVIOUS
  <2>1. k \in 0 .. N /\ k + 1 \in 1 .. N /\ (k + 1) - 1 = k /\ k \in 0 .. k + 1
        /\ k + 1 <= N
    BY <1>1
  <2>2. /\ c[k] \in K \cup {NULL} /\ c[k] <= N - k
        /\ \A n \in K : n > c[k] => \E j \in 0 .. k : c[j] = n
    BY <1>4, <2>1
  <2>3. c[k + 1] = Sibling(f, c[k])
    BY <1>2, <2>1
  <2>4. CASE c[k] = NULL
    <3>1. c[k + 1] = NULL
      BY <2>3, <2>4 DEF Sibling
    <3>2. 0 <= N - (k + 1) /\ NULL = 0
      BY <1>1, <2>1
    <3>3. \A n \in K : \E j \in 0 .. k : c[j] = n
      BY <1>1, <2>2, <2>4, <3>2
    <3> QED
      BY <3>1, <3>2, <3>3
  <2>5. CASE c[k] # NULL
    <3>1. c[k] \in K /\ c[k + 1] = f.sibling[c[k]]
      BY <2>2, <2>3, <2>5 DEF Sibling
    <3> DEFINE x == c[k]
               y == f.sibling[x]
    <3>2. x \in Nat /\ y \in K \cup {NULL} /\ y < x /\ y \in Nat
      BY <1>1, <3>1
    <3>3. y <= N - (k + 1)
      BY <1>1, <2>2, <3>2
    <3>4. ASSUME NEW n \in K, n > y PROVE \E j \in 0 .. k + 1 : c[j] = n
      <4>1. n \in Nat /\ ~(n < x)
        BY <1>1, <3>1, <3>2, <3>4
      <4>2. CASE n = x
        BY <2>1, <4>2
      <4>3. CASE n > x
        <5>1. PICK j \in 0 .. k : c[j] = n
          BY <2>2, <4>3
        <5>2. j \in 0 .. k + 1
          BY <5>1
        <5> QED
          BY <5>1, <5>2
      <4> QED
        BY <3>2, <4>1, <4>2, <4>3
    <3> QED
      BY <3>1, <3>2, <3>3, <3>4
  <2> QED
    BY <2>4, <2>5
<1>5. Nat \subseteq Walked
  <2> HIDE DEF Walked
  <2> QED
    BY <1>3, <1>4, SetInduction
<1>6. \A k \in 0 .. N : /\ c[k] \in K \cup {NULL}
                        /\ c[k] <= N - k
                        /\ \A n \in K : n > c[k] => \E j \in 0 .. k : c[j] = n
  BY <1>5, <1>1
<1>7. N \in 0 .. N /\ N - N = 0
  BY <1>1
<1>8. c[N] = NULL
  <2>1. c[N] \in K \cup {NULL} /\ c[N] <= 0
    BY <1>6, <1>7
  <2> QED
    BY <1>1, <2>1
<1>9. K \subseteq {c[k] : k \in 0 .. N}
  <2> SUFFICES ASSUME NEW n \in K PROVE \E k \in 0 .. N : c[k] = n
    OBVIOUS
  <2>1. n > c[N]
    BY <1>1, <1>8
  <2> QED
    BY <1>6, <1>7, <2>1
<1>10. Members(f, d) = {c[k] : k \in 0 .. N} \ {NULL}
  BY DEF Members, c
<1>11. \A k \in 0 .. N : c[k] \in K \cup {NULL}
  BY <1>6
<1> QED
  BY <1>1, <1>8, <1>9, <1>10, <1>11 DEF c, K
----------------------------------------------------------------------------
\* find_child returns a kid of that name, or NULL if there is none.
LEMMA FindChild ==
    ASSUME NEW f, Good(f), NEW d \in Nodes, NEW name
    PROVE  \/ /\ find_child(f, d, name) \in Kids(f, d)
              /\ f.name[find_child(f, d, name)] = name
           \/ /\ find_child(f, d, name) = NULL
              /\ \A n \in Kids(f, d) : f.name[n] # name
<1> DEFINE N == VFS_MAX_NODES
           c == Children(f, d)
           hits == {k \in DOMAIN c : c[k] # NULL /\ f.name[c[k]] = name}
<1>1. c \in [0 .. N -> Pointers] /\ N \in Nat
  BY ChildrenDef, NodesAre DEF Good
<1>2. Kids(f, d) = {c[k] : k \in 0 .. N} \ {NULL}
  BY MembersAreKids DEF Members
<1>3. find_child(f, d, name) =
        IF hits = {} THEN NULL ELSE c[CHOOSE k \in hits : \A j \in hits : k <= j]
  BY DEF find_child
<1> HIDE DEF c
<1>4. CASE hits = {}
  BY <1>1, <1>2, <1>3, <1>4
<1>5. CASE hits # {}
  <2>1. hits \in SUBSET Int /\ IsFiniteSet(hits)
    <3>1. hits \in SUBSET (0 .. N) /\ IsFiniteSet(0 .. N)
      BY <1>1, FS_Interval
    <3>2. \A i \in 0 .. N : i \in Int
      OBVIOUS
    <3> HIDE DEF hits
    <3> QED
      BY <3>1, <3>2, FS_Subset
  <2>2. \E k \in hits : \A j \in hits : k <= j
    <3> HIDE DEF hits
    <3> QED
      BY <1>5, <2>1, LeastExists
  <2> DEFINE k == CHOOSE i \in hits : \A j \in hits : i <= j
  <2>3. k \in hits
    <3> HIDE DEF hits
    <3> QED
      BY <2>2
  <2>4. find_child(f, d, name) = c[k]
    BY <1>3, <1>5
  <2> HIDE DEF k
  <2>5. k \in 0 .. N /\ c[k] # NULL /\ f.name[c[k]] = name
    BY <1>1, <2>3
  <2> QED
    BY <1>2, <2>4, <2>5
<1> QED
  BY <1>4, <1>5
----------------------------------------------------------------------------
\* Nodes from which the parents lead to the root, all of them linked and
\* under names that can be looked up.
Anchored(f, S) ==
    \A n \in S : n = Root \/ /\ f.parent[n] \in S
                             /\ n \in Kids(f, f.parent[n])
                             /\ f.name[n] \in Names

Attached(f) == UNION {S \in SUBSET Nodes : Anchored(f, S)}

\* The attached nodes are anchored, and include the root and their own kids.
LEMMA AttachedFacts ==
    ASSUME NEW f
    PROVE  /\ Attached(f) \subseteq Nodes /\ Root \in Attached(f)
           /\ \A n \in Attached(f) :
                 n = Root \/ /\ f.parent[n] \in Attached(f)
                             /\ n \in Kids(f, f.parent[n])
                             /\ f.name[n] \in Names
           /\ \A d \in Attached(f) : \A n \in Kids(f, d) :
                 f.name[n] \in Names => n \in Attached(f)
<1>1. Attached(f) \subseteq Nodes
  BY DEF Attached
<1>2. Root \in Attached(f)
  <2>1. {Root} \in SUBSET Nodes /\ Anchored(f, {Root})
    BY NodesAre DEF Anchored
  <2> QED
    BY <2>1 DEF Attached
<1>3. ASSUME NEW n \in Attached(f)
      PROVE  n = Root \/ /\ f.parent[n] \in Attached(f)
                         /\ n \in Kids(f, f.parent[n])
                         /\ f.name[n] \in Names
  <2>1. PICK S \in SUBSET Nodes : Anchored(f, S) /\ n \in S
    BY DEF Attached
  <2>2. S \subseteq Attached(f)
    BY <2>1 DEF Attached
  <2> QED
    BY <2>1, <2>2 DEF Anchored
<1>4. ASSUME NEW d \in Attached(f), NEW n \in Kids(f, d), f.name[n] \in Names
      PROVE  n \in Attached(f)
  <2>1. PICK S \in SUBSET Nodes : Anchored(f, S) /\ d \in S
    BY DEF Attached
  <2>2. n \in Nodes /\ f.parent[n] = d
    BY DEF Kids
  <2>3. S \cup {n} \in SUBSET Nodes /\ Anchored(f, S \cup {n})
    BY <1>4, <2>1, <2>2 DEF Anchored
  <2> QED
    BY <2>3 DEF Attached
<1> QED
  BY <1>1, <1>2, <1>3, <1>4

\* The root has no parent.
LEMMA RootParent == ASSUME NEW f, Good(f) PROVE f.parent[Root] = NULL
<1>1. Root \in Nodes /\ Root = 1 /\ NULL = 0
  BY NodesAre
<1>2. f.parent[Root] \in Nat
  BY <1>1, Fields, NodesAre DEF Good
<1>3. f.parent[Root] # NULL => f.parent[Root] < Root
  BY <1>1 DEF Good, Parented
<1> QED
  BY <1>1, <1>2, <1>3

\* One part of a path leads from an attached node to an attached one.
LEMMA StepStays ==
    ASSUME NEW f, Good(f), NEW cur \in Attached(f) \cup {NULL}, NEW part \in Components
    PROVE  Step(f, cur, part) \in Attached(f) \cup {NULL}
<1>1. CASE cur = NULL
  BY <1>1 DEF Step
<1>2. CASE cur # NULL /\ part \in {NoName, "."}
  <2>1. Step(f, cur, part) = cur
    BY <1>2 DEF Step, NoName
  <2> QED
    BY <2>1
<1>3. CASE cur # NULL /\ part = ".."
  <2>1. Step(f, cur, part) = IF f.parent[cur] = NULL THEN cur ELSE f.parent[cur]
    BY <1>3 DEF Step, NoName
  <2>2. cur = Root => f.parent[cur] = NULL
    BY RootParent
  <2> QED
    BY <1>3, <2>1, <2>2, AttachedFacts
<1>4. CASE cur # NULL /\ part \notin {NoName, ".", ".."}
  <2>1. Step(f, cur, part) = find_child(f, cur, part)
    BY <1>4 DEF Step
  <2>2. part \in Names /\ cur \in Attached(f) /\ cur \in Nodes
    BY <1>4, AttachedFacts DEF Components
  <2>3. \/ find_child(f, cur, part) \in Kids(f, cur) /\ f.name[find_child(f, cur, part)] = part
        \/ find_child(f, cur, part) = NULL
    BY <2>2, FindChild
  <2> QED
    BY <2>1, <2>2, <2>3, AttachedFacts
<1> QED
  BY <1>1, <1>2, <1>3, <1>4

\* The equation of the function in Follow.
Traces(f, parts, g) ==
    g = [s \in SUBSET DOMAIN parts |->
            IF s = {} THEN Root ELSE Step(f, g[s \ {Max(s)}], parts[Max(s)])]

\* Follow walks the path part by part, through attached nodes.
LEMMA FollowTraces ==
    ASSUME NEW f, Good(f), NEW parts \in Seq(Components)
    PROVE  \E g \in [SUBSET DOMAIN parts -> Attached(f) \cup {NULL}] :
              Traces(f, parts, g) /\ Follow(f, parts) = g[DOMAIN parts]
<1> DEFINE I == DOMAIN parts
           V == Attached(f) \cup {NULL}
           F == [x \in I \X V |-> Step(f, x[2], parts[x[1]])]
           k == CHOOSE g : Traces(f, parts, g)
<1>1. I \in SUBSET Int /\ IsFiniteSet(I) /\ \A s \in SUBSET I : s # {} => Max(s) \in s
  BY Indices
<1>2. \A i \in I, v \in V : Step(f, v, parts[i]) \in V /\ F[<<i, v>>] = Step(f, v, parts[i])
  <2> TAKE i \in I, v \in V
  <2>1. parts[i] \in Components
    BY Indices
  <2>2. Step(f, v, parts[i]) \in V
    BY <2>1, StepStays
  <2> QED
    BY <2>2
<1>3. Root \in V
  BY AttachedFacts
<1>4. Follow(f, parts) = k[I]
  BY DEF Follow, FoldLeft, MapThenFoldSet, Traces
<1> HIDE DEF V
<1>5. \E g : Traces(f, parts, g)
  <2>1. PICK g \in [SUBSET I -> V] : FoldsBy(F, Root, SUBSET I, g)
    <3> HIDE DEF I, F
    <3>1. \A i \in I, v \in V : F[<<i, v>>] \in V
      BY <1>2
    <3> QED
      BY <1>1, <1>3, <3>1, FoldExists
  <2>2. \A s \in SUBSET I : s # {} => F[<<Max(s), g[s \ {Max(s)}]>>] =
                                      Step(f, g[s \ {Max(s)}], parts[Max(s)])
    <3> TAKE s \in SUBSET I
    <3> HAVE s # {}
    <3>1. Max(s) \in I /\ s \ {Max(s)} \in SUBSET I
      BY <1>1
    <3>2. g[s \ {Max(s)}] \in V
      BY <2>1, <3>1
    <3> HIDE DEF F
    <3> QED
      BY <1>2, <3>1, <3>2
  <2>3. Traces(f, parts, g)
    <3> HIDE DEF F
    <3> QED
      BY <2>1, <2>2 DEF FoldsBy, Traces
  <2> QED
    BY <2>3
<1>6. Traces(f, parts, k)
  BY <1>5
<1> HIDE DEF k
<1>7. /\ k[{}] = Root
      /\ \A s \in SUBSET I : s # {} => k[s] = Step(f, k[s \ {Max(s)}], parts[Max(s)])
      /\ k = [s \in SUBSET I |-> k[s]]
  BY <1>6 DEF Traces
<1> DEFINE G == {s \in SUBSET I : k[s] \in V}
<1>8. SUBSET I \subseteq G
  <2>1. {} \in G
    BY <1>3, <1>7
  <2>2. \A s \in SUBSET I : s # {} /\ s \ {Max(s)} \in G => s \in G
    <3> SUFFICES ASSUME NEW s \in SUBSET I, s # {}, s \ {Max(s)} \in G PROVE s \in G
      OBVIOUS
    <3>1. Max(s) \in I /\ k[s \ {Max(s)}] \in V
      BY <1>1
    <3> QED
      BY <1>2, <1>7, <3>1
  <2> HIDE DEF G, I
  <2> QED
    BY <1>1, <2>1, <2>2, SubsetInduction
<1>9. k \in [SUBSET I -> V]
  <2>1. \A s \in SUBSET I : k[s] \in V
    BY <1>8
  <2> QED
    BY <1>7, <2>1
<1> QED
  BY <1>4, <1>6, <1>9 DEF V
----------------------------------------------------------------------------
\* g has the nodes and links of f.
SameLinks(f, g) ==
    /\ g.name = f.name /\ g.type = f.type /\ g.parent = f.parent
    /\ g.child = f.child /\ g.sibling = f.sibling /\ g.node_count = f.node_count

\* Then it is as good a tree.
LEMMA SameTree ==
    ASSUME NEW f, Good(f), NEW g \in FileSystems, SameLinks(f, g), Counted(g)
    PROVE  Good(g)
<1>1. \A d : Kids(g, d) = Kids(f, d)
  BY DEF Kids, SameLinks
<1> QED
  BY <1>1 DEF Good, Threaded, Parented, Rooted, Distinct, SameLinks

\* A set of nodes is finite, and grows and shrinks one by one.
LEMMA NodeSets ==
    ASSUME NEW S \in SUBSET Nodes, NEW n \in Nodes
    PROVE  /\ Cardinality(S) \in Nat
           /\ Cardinality(S \cup {n}) = IF n \in S THEN Cardinality(S) ELSE Cardinality(S) + 1
           /\ Cardinality(S \ {n}) = IF n \in S THEN Cardinality(S) - 1 ELSE Cardinality(S)
<1>1. IsFiniteSet(Nodes)
  BY FS_Interval, NodesAssumption DEF Nodes
<1>2. IsFiniteSet(S)
  BY <1>1, FS_Subset
<1> QED
  BY <1>2, FS_CardinalityType, FS_AddElement, FS_RemoveElement

\* The fields after a write.
LEMMA OverwriteFields ==
    ASSUME NEW f \in FileSystems, NEW n \in Nodes, NEW content \in Contents
    PROVE  /\ Overwrite(f, n, content) \in FileSystems
           /\ SameLinks(f, Overwrite(f, n, content))
           /\ Overwrite(f, n, content).data = [f.data EXCEPT ![n] = content]
           /\ Overwrite(f, n, content).bufs = IF f.data[n] = NoData THEN f.bufs + 1 ELSE f.bufs
           /\ Overwrite(f, n, content).cwd = f.cwd
<1> DEFINE b == IF f.data[n] = NoData THEN f.bufs + 1 ELSE f.bufs
<1>1. Overwrite(f, n, content) = [f EXCEPT !.data[n] = content, !.bufs = b]
  BY DEF Overwrite
<1> HIDE DEF b
<1>2. PICK g : g = Overwrite(f, n, content)
  OBVIOUS
<1>3. /\ g.data = [f.data EXCEPT ![n] = content] /\ g.bufs = b /\ g.cwd = f.cwd
      /\ g.name = f.name /\ g.type = f.type /\ g.parent = f.parent
      /\ g.child = f.child /\ g.sibling = f.sibling /\ g.node_count = f.node_count
  BY <1>1, <1>2 DEF FileSystems
<1>4. g = [name |-> g.name, type |-> g.type, data |-> g.data, parent |-> g.parent,
           child |-> g.child, sibling |-> g.sibling, node_count |-> g.node_count,
           cwd |-> g.cwd, bufs |-> g.bufs]
  BY <1>1, <1>2 DEF FileSystems
<1>5. b \in Int /\ [f.data EXCEPT ![n] = content] \in [Nodes -> Contents \cup {NoData}]
  BY Fields DEF b
<1>6. g \in FileSystems
  BY <1>3, <1>4, <1>5, Fields DEF FileSystems
<1> QED
  BY <1>2, <1>3, <1>6 DEF SameLinks, b

\* A write frees the buffer it replaces.
LEMMA OverwriteGood ==
    ASSUME NEW f, Good(f), NEW n \in Nodes, NEW content \in Contents
    PROVE  Good(Overwrite(f, n, content))
<1> DEFINE g == Overwrite(f, n, content)
<1>1. /\ f \in FileSystems /\ f.data \in [Nodes -> Contents \cup {NoData}]
      /\ f.bufs = Cardinality(Buffered(f)) /\ Buffered(f) \in SUBSET Nodes
  BY Fields DEF Good, Counted, Buffered
<1>2. /\ g \in FileSystems /\ SameLinks(f, g)
      /\ g.data = [f.data EXCEPT ![n] = content]
      /\ g.bufs = IF f.data[n] = NoData THEN f.bufs + 1 ELSE f.bufs
  BY <1>1, OverwriteFields
<1> HIDE DEF g
<1>3. Buffered(g) = Buffered(f) \cup {n}
  <2>1. content # NoData
    BY ContentsAssumption
  <2>2. \A m \in Nodes : g.data[m] = IF m = n THEN content ELSE f.data[m]
    BY <1>1, <1>2
  <2> QED
    BY <2>1, <2>2 DEF Buffered
<1>4. n \in Buffered(f) <=> f.data[n] # NoData
  BY DEF Buffered
<1>5. Cardinality(Buffered(f) \cup {n}) =
        IF n \in Buffered(f) THEN Cardinality(Buffered(f)) ELSE Cardinality(Buffered(f)) + 1
  BY <1>1, NodeSets
<1>6. Counted(g)
  BY <1>1, <1>2, <1>3, <1>4, <1>5 DEF Counted
<1> QED
  BY <1>2, <1>6, SameTree DEF g

\* Where vfs_write leads: nowhere, or to the new content.
LEMMA WriteGood ==
    ASSUME NEW f, Good(f), NEW n \in Pointers, NEW content \in Contents,
           NEW o \in vfs_write(f, n, content)
    PROVE  /\ Good(o.fs) /\ o.ret \in {-1, 0, 1} /\ SameLinks(f, o.fs)
           /\ o.ret = -1 => o.fs = f
<1>1. SameLinks(f, f)
  BY DEF SameLinks
<1>2. CASE o = [fs |-> f, ret |-> -1]
  BY <1>1, <1>2
<1>3. CASE o # [fs |-> f, ret |-> -1]
  <2>1. o = [fs |-> Overwrite(f, n, content), ret |-> Size(content)] /\ n \in Nodes
    BY <1>3 DEF vfs_write, Pointers
  <2>2. o.fs = Overwrite(f, n, content) /\ o.ret = Size(content)
    BY <2>1
  <2>3. Size(content) \in {0, 1}
    BY DEF Size
  <2>4. Good(o.fs) /\ SameLinks(f, o.fs)
    BY <2>1, <2>2, OverwriteGood, OverwriteFields DEF Good
  <2> QED
    BY <2>2, <2>3, <2>4
<1> QED
  BY <1>2, <1>3
----------------------------------------------------------------------------
\* A path in full is a sequence of components.
LEMMA NormalizedPath ==
    ASSUME NEW f \in FileSystems, NEW path \in PathNames
    PROVE  normalize_path(f, path) \in Seq(Components)
<1>1. path.parts \in Seq(Components) /\ f.cwd \in Seq(Names)
  BY Fields DEF PathNames
<1>2. f.cwd \in Seq(Components)
  BY <1>1 DEF Components
<1> QED
  BY <1>1, <1>2 DEF normalize_path

\* A path leads to an attached node or nowhere.
LEMMA FollowStays ==
    ASSUME NEW f, Good(f), NEW parts \in Seq(Components)
    PROVE  Follow(f, parts) \in Attached(f) \cup {NULL}
<1>1. PICK g \in [SUBSET DOMAIN parts -> Attached(f) \cup {NULL}] :
        Follow(f, parts) = g[DOMAIN parts]
  BY FollowTraces
<1>2. DOMAIN parts \in SUBSET DOMAIN parts
  OBVIOUS
<1> QED
  BY <1>1, <1>2

\* And so does what a caller names.
LEMMA ResolveStays ==
    ASSUME NEW f, Good(f), NEW path \in PathNames
    PROVE  vfs_resolve(f, path) \in Attached(f) \cup {NULL}
BY FollowStays, NormalizedPath DEF Good, vfs_resolve

\* f with a new node at the head of the list of `dir'.
Grown(f, dir, leaf, type) ==
    [f EXCEPT !.node_count = f.node_count + 1,
              !.name[f.node_count + 1] = leaf, !.type[f.node_count + 1] = type,
              !.parent[f.node_count + 1] = dir,
              !.sibling[f.node_count + 1] = f.child[dir],
              !.child[dir] = f.node_count + 1]

\* Its fields.
Grows(f, g, dir, leaf, type, n) ==
    /\ g.name = [f.name EXCEPT ![n] = leaf]
    /\ g.type = [f.type EXCEPT ![n] = type]
    /\ g.parent = [f.parent EXCEPT ![n] = dir]
    /\ g.sibling = [f.sibling EXCEPT ![n] = f.child[dir]]
    /\ g.child = [f.child EXCEPT ![dir] = n]
    /\ g.node_count = n
    /\ g.data = f.data /\ g.bufs = f.bufs /\ g.cwd = f.cwd

LEMMA GrownFields ==
    ASSUME NEW f \in FileSystems, NEW dir \in Nodes, NEW leaf \in AllNames,
           NEW type \in {"file", "dir"}, NEW n \in Nodes, n = f.node_count + 1
    PROVE  /\ Grown(f, dir, leaf, type) \in FileSystems
           /\ Grows(f, Grown(f, dir, leaf, type), dir, leaf, type, n)
<1>0. PICK g : g = Grown(f, dir, leaf, type)
  OBVIOUS
<1>1. g = [f EXCEPT !.node_count = n, !.name[n] = leaf, !.type[n] = type,
                    !.parent[n] = dir, !.sibling[n] = f.child[dir], !.child[dir] = n]
  BY <1>0 DEF Grown
<1>2. /\ g.name = [f.name EXCEPT ![n] = leaf]
      /\ g.type = [f.type EXCEPT ![n] = type]
      /\ g.parent = [f.parent EXCEPT ![n] = dir]
      /\ g.sibling = [f.sibling EXCEPT ![n] = f.child[dir]]
      /\ g.child = [f.child EXCEPT ![dir] = n]
      /\ g.node_count = n
      /\ g.data = f.data /\ g.bufs = f.bufs /\ g.cwd = f.cwd
  BY <1>1 DEF FileSystems
<1>3. dir \in Pointers /\ n \in Pointers /\ n \in 0 .. VFS_MAX_NODES
  BY NodesAre DEF Pointers
<1>4. g \in FileSystems
  <2>1. /\ [f.name EXCEPT ![n] = leaf] \in [Nodes -> AllNames]
        /\ [f.type EXCEPT ![n] = type] \in [Nodes -> {"none", "file", "dir"}]
        /\ [f.parent EXCEPT ![n] = dir] \in [Nodes -> Pointers]
        /\ [f.sibling EXCEPT ![n] = f.child[dir]] \in [Nodes -> Pointers]
        /\ [f.child EXCEPT ![dir] = n] \in [Nodes -> Pointers]
    BY <1>3, Fields
  <2>2. g = [name |-> g.name, type |-> g.type, data |-> g.data, parent |-> g.parent,
             child |-> g.child, sibling |-> g.sibling, node_count |-> g.node_count,
             cwd |-> g.cwd, bufs |-> g.bufs]
    BY <1>1 DEF FileSystems
  <2> QED
    BY <1>2, <1>3, <2>1, <2>2, Fields DEF FileSystems
<1> QED
  BY <1>0, <1>2, <1>4 DEF Grows

\* A new node keeps the tree, if its name is new in its directory.
LEMMA GrownGood ==
    ASSUME NEW f, Good(f), NEW dir \in Nodes, NEW leaf \in Components \ {NoName},
           NEW type \in {"file", "dir"}, NEW n \in Nodes, n = f.node_count + 1,
           dir <= f.node_count, f.type[dir] = "dir",
           \A m \in Kids(f, dir) : f.name[m] # leaf
    PROVE  Good(Grown(f, dir, leaf, type))
<1>1. PICK g : g = Grown(f, dir, leaf, type)
  OBVIOUS
<1>2. /\ f \in FileSystems /\ Threaded(f) /\ Parented(f) /\ Rooted(f) /\ Distinct(f)
      /\ Counted(f) /\ leaf \in AllNames /\ leaf # NoName
  BY DEF Good, AllNames, Components
<1>3. /\ g \in FileSystems
      /\ g.name = [f.name EXCEPT ![n] = leaf]
      /\ g.type = [f.type EXCEPT ![n] = type]
      /\ g.parent = [f.parent EXCEPT ![n] = dir]
      /\ g.sibling = [f.sibling EXCEPT ![n] = f.child[dir]]
      /\ g.child = [f.child EXCEPT ![dir] = n]
      /\ g.node_count = n
      /\ g.data = f.data /\ g.bufs = f.bufs
  <2>1. g \in FileSystems /\ Grows(f, g, dir, leaf, type, n)
    BY <1>1, <1>2, GrownFields
  <2> QED
    BY <2>1 DEF Grows
<1>4. /\ \A m \in Nodes : /\ g.name[m] = IF m = n THEN leaf ELSE f.name[m]
                          /\ g.type[m] = IF m = n THEN type ELSE f.type[m]
                          /\ g.parent[m] = IF m = n THEN dir ELSE f.parent[m]
                          /\ g.sibling[m] = IF m = n THEN f.child[dir] ELSE f.sibling[m]
                          /\ g.child[m] = IF m = dir THEN n ELSE f.child[m]
  BY <1>2, <1>3, Fields
<1>5. /\ \A m \in Nodes : m \in Nat /\ m # NULL
      /\ f.node_count \in Nat /\ n \in Nat /\ NULL = 0 /\ dir # n
      /\ \A m \in Nodes : f.parent[m] \in Pointers /\ f.child[m] \in Pointers
                          /\ f.sibling[m] \in Pointers
  <2>1. \A m \in Nodes : m \in Nat /\ m # NULL
    BY NodesAre
  <2>2. f.node_count \in Nat
    BY <1>2, Fields
  <2> QED
    BY <1>2, <2>1, <2>2, Fields, NodesAre
<1>6. f.parent[n] = NULL
  BY <1>2, <1>5 DEF Parented
<1>7. \A d \in Nodes : Kids(g, d) = IF d = dir THEN Kids(f, dir) \cup {n} ELSE Kids(f, d)
  <2> TAKE d \in Nodes
  <2>1. d # NULL /\ n \notin Kids(f, d)
    BY <1>5, <1>6 DEF Kids
  <2>2. \A m \in Nodes : m \in Kids(g, d) <=> (IF m = n THEN d = dir ELSE m \in Kids(f, d))
    BY <1>2, <1>4 DEF Kids
  <2>3. Kids(g, d) \subseteq Nodes /\ Kids(f, d) \subseteq Nodes
    BY DEF Kids
  <2> QED
    BY <2>1, <2>2, <2>3
<1>8. \A d \in Nodes : \A m \in Kids(f, d) : m \in Nodes /\ m # n /\ m < n
  <2> TAKE d \in Nodes
  <2> TAKE m \in Kids(f, d)
  <2>1. m \in Nodes /\ f.parent[m] = d /\ d # NULL
    BY <1>5 DEF Kids
  <2>2. m <= f.node_count
    BY <1>2, <2>1 DEF Parented
  <2> QED
    BY <1>5, <2>1, <2>2
<1>9. Threaded(g)
  <2> SUFFICES ASSUME NEW d \in Nodes
               PROVE  /\ g.child[d] \in Kids(g, d) \cup {NULL}
                      /\ \A m \in Kids(g, d) :
                            /\ m <= g.child[d]
                            /\ g.sibling[m] \in Kids(g, d) \cup {NULL}
                            /\ g.sibling[m] < m
                            /\ \A l \in Kids(g, d) : l < m => l <= g.sibling[m]
    BY DEF Threaded
  <2> DEFINE K == Kids(f, d)
  <2>1. /\ f.child[d] \in K \cup {NULL}
        /\ \A m \in K : /\ m <= f.child[d]
                        /\ f.sibling[m] \in K \cup {NULL}
                        /\ f.sibling[m] < m
                        /\ \A l \in K : l < m => l <= f.sibling[m]
        /\ \A m \in K : m \in Nodes /\ m \in Nat /\ m # n /\ m < n
    BY <1>2, <1>5, <1>8 DEF Threaded
  <2> HIDE DEF K
  <2>2. CASE d # dir
    <3>1. Kids(g, d) = K /\ g.child[d] = f.child[d] /\ \A m \in K : g.sibling[m] = f.sibling[m]
      BY <1>4, <1>7, <2>1, <2>2 DEF K
    <3> QED
      BY <2>1, <3>1
  <2>3. CASE d = dir
    <3>1. /\ Kids(g, d) = K \cup {n} /\ g.child[d] = n
          /\ g.sibling[n] = f.child[d] /\ \A m \in K : g.sibling[m] = f.sibling[m]
      BY <1>4, <1>7, <2>1, <2>3 DEF K
    <3>2. f.child[d] \in Nat /\ f.child[d] < n
      BY <1>5, <2>1
    <3>3. g.child[d] \in Kids(g, d) \cup {NULL}
      BY <3>1
    <3>4. ASSUME NEW m \in K
          PROVE  /\ m <= n /\ f.sibling[m] \in K \cup {n} \cup {NULL}
                 /\ f.sibling[m] < m
                 /\ \A l \in K \cup {n} : l < m => l <= f.sibling[m]
      <4>1. m \in Nat /\ m < n /\ ~(n < m)
        BY <1>5, <2>1
      <4> QED
        BY <1>5, <2>1, <4>1
    <3>5. /\ n <= n /\ f.child[d] \in K \cup {n} \cup {NULL}
          /\ f.child[d] < n
          /\ \A l \in K \cup {n} : l < n => l <= f.child[d]
      BY <1>5, <2>1, <3>2
    <3> QED
      BY <3>1, <3>3, <3>4, <3>5
  <2> QED
    BY <2>2, <2>3
<1>10. Parented(g)
  <2> SUFFICES ASSUME NEW m \in Nodes, g.parent[m] # NULL
               PROVE  /\ g.parent[m] < m /\ m <= g.node_count
                      /\ g.type[g.parent[m]] = "dir" /\ g.type[m] # "none"
    BY DEF Parented
  <2>1. CASE m = n
    <3>1. g.parent[m] = dir /\ g.type[dir] = f.type[dir] /\ g.type[m] = type
      BY <1>4, <1>5, <2>1
    <3>2. dir < n
      <4>1. dir \in Nat
        BY <1>5
      <4> QED
        BY <1>5, <4>1
    <3> QED
      BY <1>3, <1>5, <2>1, <3>1, <3>2
  <2>2. CASE m # n
    <3>1. g.parent[m] = f.parent[m] /\ g.type[m] = f.type[m] /\ f.parent[m] \in Nodes
      BY <1>4, <1>5, <2>2 DEF Pointers
    <3>2. /\ f.parent[m] < m /\ m <= f.node_count
          /\ f.type[f.parent[m]] = "dir" /\ f.type[m] # "none"
      BY <1>2, <3>1 DEF Parented
    <3>3. f.parent[m] # n /\ g.type[f.parent[m]] = f.type[f.parent[m]]
      <4>1. f.parent[m] \in Nat /\ m \in Nat
        BY <1>5, <3>1
      <4>2. f.parent[m] # n
        BY <1>5, <3>2, <4>1
      <4> QED
        BY <1>4, <3>1, <4>2
    <3> QED
      BY <1>3, <1>5, <3>1, <3>2, <3>3
  <2> QED
    BY <2>1, <2>2
<1>11. Rooted(g)
  <2>1. Root \in Nodes /\ Root # n
    BY <1>2, <1>5, NodesAre DEF Rooted
  <2> QED
    BY <1>2, <1>3, <1>4, <1>5, <2>1 DEF Rooted
<1>12. Distinct(g)
  <2> SUFFICES ASSUME NEW d \in Nodes, NEW m \in Kids(g, d), NEW l \in Kids(g, d),
                      g.name[m] = g.name[l]
               PROVE  m = l
    BY DEF Distinct
  <2>1. CASE d # dir
    <3>1. m \in Kids(f, d) /\ l \in Kids(f, d)
      BY <1>7, <2>1
    <3> QED
      BY <1>2, <1>4, <1>8, <3>1 DEF Distinct
  <2>2. CASE d = dir
    <3>1. m \in Kids(f, d) \cup {n} /\ l \in Kids(f, d) \cup {n}
      BY <1>7, <2>2
    <3>2. g.name[n] = leaf /\ \A x \in Kids(f, d) : g.name[x] = f.name[x] /\ f.name[x] # leaf
      BY <1>4, <1>8, <2>2
    <3> QED
      BY <1>2, <3>1, <3>2 DEF Distinct
  <2> QED
    BY <2>1, <2>2
<1>13. Counted(g)
  BY <1>2, <1>3 DEF Counted, Buffered
<1> QED
  BY <1>1, <1>3, <1>9, <1>10, <1>11, <1>12, <1>13 DEF Good

\* Attached nodes are in use.
LEMMA AttachedUsed ==
    ASSUME NEW f, Good(f), NEW d \in Attached(f)
    PROVE  d \in Nodes /\ d <= f.node_count
<1>1. d \in Nodes
  BY AttachedFacts
<1>2. CASE d = Root
  BY <1>1, <1>2, NodesAre DEF Good, Rooted
<1>3. CASE d # Root
  <2>1. f.parent[d] \in Nodes
    BY <1>3, AttachedFacts
  <2>2. f.parent[d] # NULL
    BY <2>1, NodesAre
  <2> QED
    BY <1>1, <2>2 DEF Good, Parented
<1> QED
  BY <1>2, <1>3

\* vfs_mkdir and vfs_create keep the tree, and no content changes.
LEMMA MakeGood ==
    ASSUME NEW f, Good(f), NEW path \in PathNames, NEW type \in {"file", "dir"}
    PROVE  /\ Good(MakeNode(f, path, type).fs)
           /\ MakeNode(f, path, type).ret \in Pointers
           /\ MakeNode(f, path, type).fs.data = f.data
<1> DEFINE full == normalize_path(f, path)
           leaf == IF full = <<>> THEN NoName ELSE Last(full)
           dir  == IF full = <<>> THEN Root ELSE Follow(f, Front(full))
           n    == f.node_count + 1
           m    == MakeNode(f, path, type)
<1>1. full \in Seq(Components)
  BY NormalizedPath DEF Good
<1>2. leaf \in Components /\ dir \in Attached(f) \cup {NULL}
  <2>1. CASE full = <<>>
    BY <2>1, AttachedFacts DEF Components
  <2>2. CASE full # <<>>
    <3> HIDE DEF full
    <3>1. Last(full) \in Components /\ Front(full) \in Seq(Components)
      BY <1>1, <2>2 DEF Last, Front
    <3>2. Follow(f, Front(full)) \in Attached(f) \cup {NULL}
      BY <3>1, FollowStays
    <3> QED
      BY <2>2, <3>1, <3>2
  <2> QED
    BY <2>1, <2>2
<1>3. m = IF dir = NULL \/ leaf = NoName THEN [fs |-> f, ret |-> NULL]
          ELSE IF f.type[dir] # "dir" THEN [fs |-> f, ret |-> NULL]
          ELSE IF find_child(f, dir, leaf) # NULL
               THEN [fs |-> f, ret |-> find_child(f, dir, leaf)]
          ELSE IF TableFull(f) THEN [fs |-> f, ret |-> NULL]
          ELSE [fs |-> Grown(f, dir, leaf, type), ret |-> n]
  BY DEF MakeNode, Grown
<1> HIDE DEF leaf, dir, m
<1>4. NULL \in Pointers
  BY DEF Pointers
<1>5. CASE dir = NULL \/ leaf = NoName
  BY <1>3, <1>4, <1>5 DEF m
<1>6. CASE ~(dir = NULL \/ leaf = NoName)
  <2>1. dir \in Attached(f) /\ dir \in Nodes /\ dir <= f.node_count
    BY <1>2, <1>6, AttachedUsed
  <2>2. \/ find_child(f, dir, leaf) \in Kids(f, dir)
        \/ find_child(f, dir, leaf) = NULL /\ \A k \in Kids(f, dir) : f.name[k] # leaf
    BY <2>1, FindChild
  <2>3. find_child(f, dir, leaf) \in Pointers
    BY <1>4, <2>2 DEF Kids, Pointers
  <2>4. CASE f.type[dir] # "dir" \/ find_child(f, dir, leaf) # NULL \/ TableFull(f)
    BY <1>3, <1>4, <1>6, <2>3, <2>4 DEF m
  <2>5. CASE ~(f.type[dir] # "dir" \/ find_child(f, dir, leaf) # NULL \/ TableFull(f))
    <3>1. m = [fs |-> Grown(f, dir, leaf, type), ret |-> n]
      BY <1>3, <1>6, <2>5
    <3>2. n \in Nodes
      <4>1. f.node_count \in 0 .. VFS_MAX_NODES /\ ~(f.node_count >= VFS_MAX_NODES)
        BY <2>5, Fields DEF Good, TableFull
      <4> QED
        BY <4>1, NodesAre DEF Nodes
    <3>3. n \in Pointers
      BY <3>2 DEF Pointers
    <3>4. \A k \in Kids(f, dir) : f.name[k] # leaf
      BY <2>2, <2>5, NodesAre DEF Kids
    <3>5. Good(Grown(f, dir, leaf, type))
      BY <1>2, <1>6, <2>1, <2>5, <3>2, <3>4, GrownGood
    <3>6. Grown(f, dir, leaf, type).data = f.data
      <4>1. f \in FileSystems /\ leaf \in AllNames
        BY <1>2 DEF Good, Components, AllNames
      <4>2. Grows(f, Grown(f, dir, leaf, type), dir, leaf, type, n)
        BY <2>1, <3>2, <4>1, GrownFields
      <4> QED
        BY <4>2 DEF Grows
    <3> QED
      BY <3>1, <3>3, <3>5, <3>6 DEF m
  <2> QED
    BY <2>4, <2>5
<1> QED
  BY <1>5, <1>6
----------------------------------------------------------------------------
\* g is f without n in the list of its parent, where the node before n, if n
\* is not the first, is linked to the one after it.
Cuts(f, g, n) ==
    /\ g.name = [f.name EXCEPT ![n] = NoName]
    /\ g.data = [f.data EXCEPT ![n] = NoData]
    /\ g.type = f.type /\ g.parent = f.parent /\ g.node_count = f.node_count
    /\ g.cwd = f.cwd
    /\ g.bufs = IF f.data[n] = NoData THEN f.bufs ELSE f.bufs - 1
    /\ \/ /\ f.child[f.parent[n]] = n
          /\ g.child = [f.child EXCEPT ![f.parent[n]] = f.sibling[n]]
          /\ g.sibling = f.sibling
       \/ /\ f.child[f.parent[n]] # n
          /\ g.child = f.child
          /\ \E x \in Kids(f, f.parent[n]) :
                f.sibling[x] = n /\ g.sibling = [f.sibling EXCEPT ![x] = f.sibling[n]]

\* A kid that is not the first of its list has one before it.
LEMMA BeforeExists ==
    ASSUME NEW f, Good(f), NEW d \in Nodes, NEW n \in Kids(f, d), f.child[d] # n
    PROVE  \E x \in Kids(f, d) : f.sibling[x] = n
<1> DEFINE K == Kids(f, d)
           later == {m \in K : n < m}
<1>1. /\ f.child[d] \in K \cup {NULL}
      /\ \A m \in K : /\ m <= f.child[d]
                      /\ f.sibling[m] \in K \cup {NULL}
                      /\ f.sibling[m] < m
                      /\ \A l \in K : l < m => l <= f.sibling[m]
  BY DEF Good, Threaded
<1>2. K \in SUBSET Nodes /\ NULL = 0 /\ \A m \in K : m \in Nat /\ m > 0
  BY NodesAre DEF Kids
<1> HIDE DEF K
<1>3. n \in K
  BY DEF K
<1>4. f.child[d] \in later
  BY <1>1, <1>2, <1>3
<1>5. later \in SUBSET Int /\ IsFiniteSet(later)
  <2>1. IsFiniteSet(Nodes)
    BY FS_Interval, NodesAssumption DEF Nodes
  <2>2. later \in SUBSET Nodes
    BY <1>2
  <2>3. later \in SUBSET Int
    BY <1>2
  <2> QED
    BY <2>1, <2>2, <2>3, FS_Subset
<1>6. PICK x \in later : \A m \in later : x <= m
  <2> HIDE DEF later
  <2> QED
    BY <1>4, <1>5, LeastExists
<1>7. x \in K /\ n < x /\ n <= f.sibling[x] /\ f.sibling[x] \in K /\ f.sibling[x] < x
  BY <1>1, <1>2, <1>3, <1>6
<1>8. ~(n < f.sibling[x])
  BY <1>2, <1>3, <1>6, <1>7
<1>9. f.sibling[x] = n
  BY <1>2, <1>3, <1>7, <1>8
<1> QED
  BY <1>7, <1>9 DEF K

\* What vfs_unlink does: it refuses, or cuts an attached node out.
LEMMA UnlinkCuts ==
    ASSUME NEW f, Good(f), NEW path \in PathNames
    PROVE  \/ vfs_unlink(f, path) = [fs |-> f, ret |-> -1]
           \/ /\ vfs_resolve(f, path) \in Attached(f) \ {Root}
              /\ vfs_unlink(f, path).ret = 0
              /\ vfs_unlink(f, path).fs \in FileSystems
              /\ Cuts(f, vfs_unlink(f, path).fs, vfs_resolve(f, path))
<1> DEFINE n == vfs_resolve(f, path)
           dir == f.parent[n]
           c == Children(f, dir)
           before == {k \in DOMAIN c : c[k] # NULL /\ f.sibling[c[k]] = n}
           x == c[CHOOSE k \in before : TRUE]
           sib == IF f.child[dir] = n \/ before = {} THEN f.sibling
                  ELSE [f.sibling EXCEPT ![x] = f.sibling[n]]
           head == IF f.child[dir] = n THEN f.sibling[n] ELSE f.child[dir]
           b == IF f.data[n] = NoData THEN f.bufs ELSE f.bufs - 1
           G == [f EXCEPT !.child[dir] = head, !.sibling = sib, !.bufs = b,
                          !.data[n] = NoData, !.name[n] = NoName]
<1>1. n \in Attached(f) \cup {NULL}
  BY ResolveStays
<1>2. vfs_unlink(f, path) =
        IF n \in {NULL, Root} THEN [fs |-> f, ret |-> -1] ELSE [fs |-> G, ret |-> 0]
  BY DEF vfs_unlink
<1> HIDE DEF n
<1>3. CASE n \in {NULL, Root}
  BY <1>2, <1>3
<1>4. CASE n \notin {NULL, Root}
  <2>1. n \in Attached(f) \ {Root} /\ n \in Nodes /\ dir \in Nodes /\ n \in Kids(f, dir)
    BY <1>1, <1>4, AttachedFacts
  <2>2. f \in FileSystems
    BY DEF Good
  <2>3. f.child[dir] # n => before # {} /\ x \in Kids(f, dir) /\ f.sibling[x] = n
    <3> SUFFICES ASSUME f.child[dir] # n
                 PROVE  before # {} /\ x \in Kids(f, dir) /\ f.sibling[x] = n
      OBVIOUS
    <3> HIDE DEF dir
    <3>1. PICK y \in Kids(f, dir) : f.sibling[y] = n
      BY <2>1, BeforeExists
    <3>2. c \in [0 .. VFS_MAX_NODES -> Pointers]
          /\ Kids(f, dir) = {c[k] : k \in 0 .. VFS_MAX_NODES} \ {NULL}
      BY <2>1, <2>2, ChildrenDef, MembersAreKids DEF Members
    <3> HIDE DEF c
    <3>3. before # {}
      BY <3>1, <3>2
    <3>4. (CHOOSE k \in before : TRUE) \in before
      BY <3>3
    <3> HIDE DEF before
    <3>5. x \in Kids(f, dir) /\ f.sibling[x] = n
      BY <3>2, <3>4 DEF before
    <3> QED
      BY <3>3, <3>5
  <2> HIDE DEF x, before, c
  <2>4. sib \in [Nodes -> Pointers] /\ head \in Pointers /\ b \in Int
        /\ NoName \in AllNames
    <3>1. /\ f.sibling \in [Nodes -> Pointers] /\ f.sibling[n] \in Pointers
          /\ f.child[dir] \in Pointers /\ f.bufs \in Int
      BY <2>1, <2>2, Fields
    <3>2. [f.sibling EXCEPT ![x] = f.sibling[n]] \in [Nodes -> Pointers]
      BY <3>1
    <3>3. head \in Pointers /\ b \in Int
      BY <3>1
    <3> HIDE DEF dir, head, b
    <3> QED
      BY <3>1, <3>2, <3>3 DEF AllNames
  <2>5. sib = IF f.child[dir] = n THEN f.sibling ELSE [f.sibling EXCEPT ![x] = f.sibling[n]]
    BY <2>3
  <2> HIDE DEF sib
  <2>6. PICK g : g = G
    OBVIOUS
  <2>7. /\ g.child = [f.child EXCEPT ![dir] = head] /\ g.sibling = sib /\ g.bufs = b
        /\ g.data = [f.data EXCEPT ![n] = NoData] /\ g.name = [f.name EXCEPT ![n] = NoName]
        /\ g.type = f.type /\ g.parent = f.parent /\ g.node_count = f.node_count
        /\ g.cwd = f.cwd
    <3> HIDE DEF dir, head, b
    <3> QED
      BY <2>2, <2>6 DEF FileSystems
  <2>8. g = [name |-> g.name, type |-> g.type, data |-> g.data, parent |-> g.parent,
             child |-> g.child, sibling |-> g.sibling, node_count |-> g.node_count,
             cwd |-> g.cwd, bufs |-> g.bufs]
    <3> HIDE DEF dir, head, b
    <3> QED
      BY <2>2, <2>6 DEF FileSystems
  <2>9. g \in FileSystems
    <3> HIDE DEF dir, head, b
    <3>1. /\ [f.child EXCEPT ![dir] = head] \in [Nodes -> Pointers]
          /\ [f.data EXCEPT ![n] = NoData] \in [Nodes -> Contents \cup {NoData}]
          /\ [f.name EXCEPT ![n] = NoName] \in [Nodes -> AllNames]
      BY <2>1, <2>2, <2>4, Fields
    <3> QED
      BY <2>2, <2>4, <2>7, <2>8, <3>1, Fields DEF FileSystems
  <2>10. f.child[dir] # n => g.child = f.child
    <3>1. f.child \in [Nodes -> Pointers]
      BY <2>2, Fields
    <3> QED
      BY <2>1, <2>7, <3>1
  <2>11. Cuts(f, g, n)
    <3>1. CASE f.child[dir] = n
      BY <2>5, <2>7, <3>1 DEF Cuts
    <3>2. CASE f.child[dir] # n
      BY <2>3, <2>5, <2>7, <2>10, <3>2 DEF Cuts
    <3> QED
      BY <3>1, <3>2
  <2>12. vfs_unlink(f, path) = [fs |-> g, ret |-> 0]
    BY <1>2, <1>4, <2>6
  <2> QED
    BY <2>1, <2>9, <2>11, <2>12 DEF n
<1> QED
  BY <1>3, <1>4

\* Cutting a linked node out keeps the tree and frees its buffer.
LEMMA CutGood ==
    ASSUME NEW f, Good(f), NEW n \in Nodes, f.parent[n] \in Nodes,
           n \in Kids(f, f.parent[n]), NEW g \in FileSystems, Cuts(f, g, n)
    PROVE  /\ Good(g)
           /\ \A d \in Nodes : Kids(g, d) = Kids(f, d) \ {n}
<1> DEFINE dir == f.parent[n]
<1>1. /\ f \in FileSystems /\ Threaded(f) /\ Parented(f) /\ Rooted(f) /\ Distinct(f)
      /\ Counted(f)
  BY DEF Good
<1>2. /\ g.name = [f.name EXCEPT ![n] = NoName]
      /\ g.data = [f.data EXCEPT ![n] = NoData]
      /\ g.type = f.type /\ g.parent = f.parent /\ g.node_count = f.node_count
      /\ g.bufs = IF f.data[n] = NoData THEN f.bufs ELSE f.bufs - 1
  BY DEF Cuts
<1>3. /\ \A m \in Nodes : g.name[m] = IF m = n THEN NoName ELSE f.name[m]
      /\ \A m \in Nodes : g.data[m] = IF m = n THEN NoData ELSE f.data[m]
  BY <1>1, <1>2, Fields
<1>4. \A d \in Nodes : Kids(g, d) = Kids(f, d) \ {n}
  BY <1>2, <1>3 DEF Kids
<1>5. \A m \in Nodes : m \in Nat /\ m # NULL
  BY NodesAre
<1>6. Threaded(g)
  <2> SUFFICES ASSUME NEW d \in Nodes
               PROVE  /\ g.child[d] \in Kids(g, d) \cup {NULL}
                      /\ \A m \in Kids(g, d) :
                            /\ m <= g.child[d]
                            /\ g.sibling[m] \in Kids(g, d) \cup {NULL}
                            /\ g.sibling[m] < m
                            /\ \A l \in Kids(g, d) : l < m => l <= g.sibling[m]
    BY DEF Threaded
  <2> DEFINE K == Kids(f, d)
  <2>1. /\ f.child[d] \in K \cup {NULL}
        /\ \A m \in K : /\ m <= f.child[d]
                        /\ f.sibling[m] \in K \cup {NULL}
                        /\ f.sibling[m] < m
                        /\ \A l \in K : l < m => l <= f.sibling[m]
        /\ \A m \in K : m \in Nodes /\ m \in Nat /\ m # NULL /\ f.parent[m] = d
        /\ NULL = 0
    BY <1>1, <1>5, NodesAre DEF Threaded, Kids
  <2>2. Kids(g, d) = K \ {n}
    BY <1>4
  <2>3. f.child \in [Nodes -> Pointers] /\ f.sibling \in [Nodes -> Pointers]
    BY <1>1, Fields
  <2> HIDE DEF K
  <2>4. CASE d # dir
    <3>1. n \notin K
      BY <2>1, <2>4
    <3>2. g.child[d] = f.child[d] /\ \A m \in K : g.sibling[m] = f.sibling[m]
      BY <2>1, <2>3, <2>4 DEF Cuts, Kids
    <3>3. Kids(g, d) = K
      BY <2>2, <3>1
    <3> QED
      BY <2>1, <3>2, <3>3
  <2>5. CASE d = dir
    <3>1. n \in K /\ n \in Nat
      BY <2>1, <2>5 DEF K
    <3>2. CASE f.child[dir] = n
      <4>1. g.child[d] = f.sibling[n] /\ \A m \in K : g.sibling[m] = f.sibling[m]
        BY <2>3, <2>5, <3>2 DEF Cuts
      <4>2. f.sibling[n] \in (K \ {n}) \cup {NULL}
        BY <2>1, <3>1
      <4>3. ASSUME NEW m \in K, m # n
            PROVE  /\ m <= f.sibling[n] /\ f.sibling[m] # n
        <5>1. m <= n /\ m < n
          <6>1. m \in Nat /\ m <= f.child[d] /\ f.child[d] = n
            BY <2>1, <2>5, <3>2
          <6> QED
            BY <3>1, <4>3, <6>1
        <5>2. f.sibling[m] \in Nat /\ f.sibling[m] < m
          BY <2>1
        <5> QED
          BY <2>1, <3>1, <5>1, <5>2
      <4> QED
        BY <2>1, <2>2, <4>1, <4>2, <4>3
    <3>3. CASE f.child[dir] # n
      <4>1. g.child = f.child
        BY <3>3 DEF Cuts
      <4>2. PICK x \in K : f.sibling[x] = n /\ g.sibling = [f.sibling EXCEPT ![x] = f.sibling[n]]
        BY <2>5, <3>3 DEF Cuts, K
      <4>3. \A m \in K : g.sibling[m] = IF m = x THEN f.sibling[n] ELSE f.sibling[m]
        BY <2>1, <2>3, <4>2
      <4>4. x \in Nat /\ n < x /\ x # n /\ f.sibling[n] \in K \cup {NULL} /\ f.sibling[n] < n
            /\ f.sibling[n] \in Nat
        <5>1. x \in Nat /\ n < x
          BY <2>1, <4>2
        <5>2. f.sibling[n] \in K \cup {NULL} /\ f.sibling[n] < n
          BY <2>1, <3>1
        <5>3. f.sibling[n] \in Nat
          BY <2>1, <5>2
        <5> QED
          BY <3>1, <5>1, <5>2, <5>3
      <4>5. ASSUME NEW m \in K, m # n, m # x PROVE f.sibling[m] # n
        <5> SUFFICES ASSUME f.sibling[m] = n PROVE FALSE
          OBVIOUS
        <5>1. m \in Nat /\ n < m
          BY <2>1
        <5>2. m < x => m <= n
          BY <2>1, <4>2
        <5>3. x < m => x <= n
          BY <2>1
        <5> QED
          BY <3>1, <4>4, <4>5, <5>1, <5>2, <5>3
      <4>6. \A l \in K : l # n /\ l < x => l <= f.sibling[n]
        <5> SUFFICES ASSUME NEW l \in K, l # n, l < x PROVE l <= f.sibling[n]
          OBVIOUS
        <5>1. l \in Nat /\ l <= n
          BY <2>1, <4>2
        <5>2. l < n
          BY <3>1, <5>1
        <5> QED
          BY <2>1, <3>1, <5>2
      <4>7. f.sibling[n] < x
        BY <3>1, <4>4
      <4>8. g.child[d] \in (K \ {n}) \cup {NULL}
        BY <2>1, <2>5, <3>3, <4>1
      <4>9. ASSUME NEW m \in K, m # n
            PROVE  /\ m <= g.child[d]
                   /\ g.sibling[m] \in (K \ {n}) \cup {NULL}
                   /\ g.sibling[m] < m
                   /\ \A l \in K \ {n} : l < m => l <= g.sibling[m]
        <5>1. CASE m = x
          <6>1. g.sibling[m] = f.sibling[n]
            BY <4>3, <5>1
          <6>2. f.sibling[n] \in (K \ {n}) \cup {NULL}
            BY <3>1, <4>4
          <6> QED
            BY <2>1, <4>1, <4>6, <4>7, <5>1, <6>1, <6>2
        <5>2. CASE m # x
          <6>1. g.sibling[m] = f.sibling[m] /\ f.sibling[m] # n
            BY <4>3, <4>5, <4>9, <5>2
          <6> QED
            BY <2>1, <4>1, <6>1
        <5> QED
          BY <5>1, <5>2
      <4> QED
        BY <2>2, <4>8, <4>9
    <3> QED
      BY <3>2, <3>3
  <2> QED
    BY <2>4, <2>5
<1>7. Parented(g) /\ Rooted(g)
  BY <1>1, <1>2 DEF Parented, Rooted
<1>8. Distinct(g)
  <2> SUFFICES ASSUME NEW d \in Nodes, NEW m \in Kids(g, d), NEW l \in Kids(g, d),
                      g.name[m] = g.name[l]
               PROVE  m = l
    BY DEF Distinct
  <2>1. m \in Kids(f, d) /\ l \in Kids(f, d) /\ m # n /\ l # n /\ m \in Nodes /\ l \in Nodes
    BY <1>4 DEF Kids
  <2> QED
    BY <1>1, <1>3, <2>1 DEF Distinct
<1>9. Counted(g)
  <2>1. Buffered(g) = Buffered(f) \ {n} /\ Buffered(f) \in SUBSET Nodes
    BY <1>3 DEF Buffered
  <2>2. n \in Buffered(f) <=> f.data[n] # NoData
    BY DEF Buffered
  <2>3. Cardinality(Buffered(f) \ {n}) =
          IF n \in Buffered(f) THEN Cardinality(Buffered(f)) - 1 ELSE Cardinality(Buffered(f))
    BY <2>1, NodeSets
  <2> QED
    BY <1>1, <1>2, <2>1, <2>2, <2>3 DEF Counted
<1> QED
  BY <1>4, <1>6, <1>7, <1>8, <1>9 DEF Good

\* So vfs_unlink keeps the tree.
LEMMA UnlinkGood ==
    ASSUME NEW f, Good(f), NEW path \in PathNames
    PROVE  Good(vfs_unlink(f, path).fs) /\ vfs_unlink(f, path).ret \in {-1, 0}
<1>1. CASE vfs_unlink(f, path) = [fs |-> f, ret |-> -1]
  BY <1>1
<1>2. CASE vfs_unlink(f, path) # [fs |-> f, ret |-> -1]
  <2> DEFINE n == vfs_resolve(f, path)
             g == vfs_unlink(f, path).fs
  <2>1. /\ n \in Attached(f) \ {Root} /\ vfs_unlink(f, path).ret = 0
        /\ g \in FileSystems /\ Cuts(f, g, n)
    BY <1>2, UnlinkCuts
  <2> HIDE DEF n, g
  <2>2. n \in Nodes /\ f.parent[n] \in Nodes /\ n \in Kids(f, f.parent[n])
    BY <2>1, AttachedFacts
  <2>3. Good(g)
    BY <2>1, <2>2, CutGood
  <2> QED
    BY <2>1, <2>3 DEF g
<1> QED
  BY <1>1, <1>2
----------------------------------------------------------------------------
\* vfs_copy keeps the tree, and no content if it fails.
LEMMA CopyGood ==
    ASSUME NEW f, Good(f), NEW src \in PathNames, NEW dst \in PathNames,
           NEW o \in vfs_copy(f, src, dst)
    PROVE  /\ Good(o.fs) /\ o.ret \in {-1, 0, 1}
           /\ o.ret = -1 => o.fs.data = f.data
<1> DEFINE s == vfs_resolve(f, src)
           d == vfs_create(f, dst)
<1>1. Good(d.fs) /\ d.ret \in Pointers /\ d.fs.data = f.data
  BY MakeGood DEF vfs_create
<1>2. o \in IF s = NULL THEN {[fs |-> f, ret |-> -1]}
            ELSE IF f.type[s] # "file" THEN {[fs |-> f, ret |-> -1]}
            ELSE IF d.ret = NULL THEN {[fs |-> d.fs, ret |-> -1]}
            ELSE IF Size(f.data[s]) = 0 THEN {[fs |-> d.fs, ret |-> 0]}
            ELSE vfs_write(d.fs, d.ret, f.data[s])
  BY DEF vfs_copy
<1>3. s # NULL => s \in Nodes
  BY ResolveStays, AttachedFacts
<1> HIDE DEF s, d
<1>4. CASE s = NULL \/ f.type[s] # "file"
  BY <1>2, <1>4
<1>5. CASE ~(s = NULL \/ f.type[s] # "file")
  <2>1. CASE d.ret = NULL
    BY <1>1, <1>2, <1>5, <2>1
  <2>2. CASE d.ret # NULL /\ Size(f.data[s]) = 0
    BY <1>1, <1>2, <1>5, <2>2
  <2>3. CASE d.ret # NULL /\ Size(f.data[s]) # 0
    <3>1. o \in vfs_write(d.fs, d.ret, f.data[s])
      BY <1>2, <1>5, <2>3
    <3>2. f.data[s] \in Contents
      <4>1. f.data[s] \in Contents \cup {NoData}
        BY <1>3, <1>5, Fields DEF Good
      <4> QED
        BY <2>3, <4>1 DEF Size
    <3>3. /\ Good(o.fs) /\ o.ret \in {-1, 0, 1}
          /\ o.ret = -1 => o.fs = d.fs
      BY <1>1, <3>1, <3>2, WriteGood
    <3> QED
      BY <1>1, <3>3
  <2> QED
    BY <2>1, <2>2, <2>3
<1> QED
  BY <1>4, <1>5

\* And vfs_rename, which is a copy and an unlink.
LEMMA RenameGood ==
    ASSUME NEW f, Good(f), NEW src \in PathNames, NEW dst \in PathNames,
           NEW o \in vfs_rename(f, src, dst)
    PROVE  Good(o.fs) /\ o.ret \in {-1, 0, 1}
<1>1. PICK c \in vfs_copy(f, src, dst) :
        o = IF c.ret # 0 THEN [fs |-> c.fs, ret |-> -1] ELSE vfs_unlink(c.fs, src)
  BY DEF vfs_rename
<1>2. Good(c.fs)
  BY CopyGood
<1>3. CASE c.ret # 0
  BY <1>1, <1>2, <1>3
<1>4. CASE c.ret = 0
  <2>1. o = vfs_unlink(c.fs, src)
    BY <1>1, <1>4
  <2> QED
    BY <1>2, <2>1, UnlinkGood
<1> QED
  BY <1>3, <1>4
----------------------------------------------------------------------------
\* The way up stays in a set that no parent leaves.
LEMMA UpWithin ==
    ASSUME NEW f, NEW V, NEW n \in V, \A m \in V : Parent(f, m) \in V
    PROVE  /\ Up(f, n) \in [0 .. VFS_MAX_NODES -> V]
           /\ Up(f, n)[0] = n
           /\ \A k \in 1 .. VFS_MAX_NODES : Up(f, n)[k] = Parent(f, Up(f, n)[k - 1])
<1> DEFINE N == VFS_MAX_NODES
           Eq(c) == c = [k \in 0 .. N |-> IF k = 0 THEN n ELSE Parent(f, c[k - 1])]
           F == [m \in V |-> Parent(f, m)]
<1>1. N \in Nat
  BY NodesAre
<1>2. \A m \in V : Parent(f, m) \in V /\ F[m] = Parent(f, m)
  OBVIOUS
<1> HIDE DEF F, N
<1>3. \E c : Eq(c)
  <2>1. PICK c \in [0 .. N -> V] : Iterates(F, n, N, c)
    <3>1. \A v \in V : F[v] \in V
      BY <1>2
    <3> QED
      BY <1>1, <3>1, IterationExists
  <2>2. \A k \in 0 .. N : k # 0 => c[k - 1] \in V
    BY <1>1
  <2>3. \A k \in 0 .. N : k # 0 => F[c[k - 1]] = Parent(f, c[k - 1])
    BY <1>2, <2>2
  <2>4. Eq(c)
    BY <2>1, <2>3 DEF Iterates
  <2> QED
    BY <2>4
<1> DEFINE u == Up(f, n)
<1>4. Eq(u)
  <2>1. Up(f, n) = CHOOSE c : Eq(c)
    BY DEF Up, N
  <2> HIDE DEF Eq
  <2> QED
    BY <1>3, <2>1
<1> HIDE DEF u
<1>5. /\ u[0] = n
      /\ \A k \in 1 .. N : u[k] = Parent(f, u[k - 1])
      /\ u = [k \in 0 .. N |-> u[k]]
  <2>1. 0 \in 0 .. N /\ \A k \in 1 .. N : k \in 0 .. N /\ k # 0
    BY <1>1
  <2> QED
    BY <1>4, <2>1
<1>6. \A k \in 0 .. N : u[k] \in V
  <2> DEFINE G == {k \in Nat : u[k] \in V}
  <2>1. 0 \in G
    BY <1>5
  <2>2. \A k \in 0 .. N - 1 : k \in G => k + 1 \in G
    <3> SUFFICES ASSUME NEW k \in 0 .. N - 1, k \in G PROVE k + 1 \in G
      OBVIOUS
    <3>1. k + 1 \in 1 .. N /\ (k + 1) - 1 = k /\ k + 1 \in Nat
      BY <1>1
    <3>2. u[k + 1] = Parent(f, u[k])
      BY <1>5, <3>1
    <3> QED
      BY <1>2, <3>1, <3>2
  <2>3. 0 .. N \subseteq G
    <3> HIDE DEF G
    <3> QED
      BY <1>1, <2>1, <2>2, IntervalInduction
  <2> QED
    BY <2>3
<1> QED
  BY <1>5, <1>6 DEF u, N

\* From an attached node it stays among the attached ones.
LEMMA UpDef ==
    ASSUME NEW f, Good(f), NEW n \in Attached(f)
    PROVE  /\ Up(f, n) \in [0 .. VFS_MAX_NODES -> Attached(f)]
           /\ Up(f, n)[0] = n
           /\ \A k \in 1 .. VFS_MAX_NODES : Up(f, n)[k] = Parent(f, Up(f, n)[k - 1])
<1>1. \A m \in Attached(f) : Parent(f, m) \in Attached(f)
  <2> TAKE m \in Attached(f)
  <2>1. m # NULL
    BY AttachedFacts, NodesAre
  <2> QED
    BY <2>1, AttachedFacts DEF Parent
<1> QED
  BY <1>1, UpWithin

\* It meets the root after as many nodes as Depth counts.
LEMMA UpDepth ==
    ASSUME NEW f, Good(f), NEW n \in Attached(f)
    PROVE  /\ Depth(f, n) \in 0 .. VFS_MAX_NODES
           /\ \A k \in 0 .. VFS_MAX_NODES : k < Depth(f, n) <=> Up(f, n)[k] # Root
<1> DEFINE N == VFS_MAX_NODES
           u == Up(f, n)
           D == {k \in 0 .. N : u[k] # Root}
<1>1. /\ u \in [0 .. N -> Attached(f)] /\ u[0] = n /\ N \in Nat
      /\ \A k \in 1 .. N : u[k] = Parent(f, u[k - 1])
  BY UpDef, NodesAre
<1>2. Depth(f, n) = Cardinality(D)
  <2>1. \A k \in 0 .. N : u[k] # NULL
    BY <1>1, AttachedFacts, NodesAre
  <2>2. {k \in 0 .. N : u[k] \notin {NULL, Root}} = D
    BY <2>1
  <2> QED
    BY <2>2, Zenon DEF Depth
<1> HIDE DEF u
\* Above the root there is only the root.
<1>3. ASSUME NEW k \in 0 .. N, u[k] = Root PROVE \A j \in 0 .. N : k <= j => u[j] = Root
  <2> DEFINE G == {j \in Nat : k <= j => u[j] = Root}
  <2>1. 0 \in G
    BY <1>3
  <2>2. \A j \in 0 .. N - 1 : j \in G => j + 1 \in G
    <3> SUFFICES ASSUME NEW j \in 0 .. N - 1, j \in G, k <= j + 1 PROVE u[j + 1] = Root
      BY <1>1
    <3>1. CASE k = j + 1
      BY <1>3, <3>1
    <3>2. CASE k # j + 1
      <4>1. k <= j /\ j + 1 \in 1 .. N /\ (j + 1) - 1 = j
        BY <1>1, <3>2
      <4>2. u[j] = Root /\ u[j + 1] = Parent(f, u[j])
        BY <1>1, <4>1
      <4> QED
        BY <4>2 DEF Parent
    <3> QED
      BY <3>1, <3>2
  <2>3. 0 .. N \subseteq G
    <3> HIDE DEF G
    <3> QED
      BY <1>1, <2>1, <2>2, IntervalInduction
  <2> QED
    BY <2>3
\* Parents have smaller numbers, so the root is met.
<1>4. u[N] = Root
  <2> DEFINE G == {k \in Nat : u[k] = Root \/ u[k] <= N - k}
  <2>1. \A k \in 0 .. N : u[k] \in Nodes /\ u[k] \in Nat /\ u[k] >= 1 /\ u[k] <= N
    <3>1. \A k \in 0 .. N : u[k] \in Nodes
      BY <1>1, AttachedFacts
    <3>2. \A m \in Nodes : m \in Nat /\ m >= 1 /\ m <= N
      BY NodesAre
    <3> QED
      BY <3>1, <3>2
  <2>2. 0 \in G
    BY <1>1, <2>1
  <2>3. \A k \in 0 .. N - 1 : k \in G => k + 1 \in G
    <3> SUFFICES ASSUME NEW k \in 0 .. N - 1, k \in G PROVE k + 1 \in G
      OBVIOUS
    <3>1. k \in 0 .. N /\ k + 1 \in 1 .. N /\ (k + 1) - 1 = k /\ k + 1 \in Nat
      BY <1>1
    <3>2. u[k + 1] = Parent(f, u[k])
      BY <1>1, <3>1
    <3>3. CASE u[k] = Root
      BY <3>1, <3>2, <3>3 DEF Parent
    <3>4. CASE u[k] # Root
      <4>1. u[k] \in Nodes /\ u[k] \in Nat /\ u[k] # NULL /\ u[k] <= N - k
        BY <2>1, <3>1, <3>4, NodesAre
      <4>2. u[k + 1] = f.parent[u[k]] /\ f.parent[u[k]] \in Nodes
        BY <1>1, <3>1, <3>2, <3>4, <4>1, AttachedFacts DEF Parent
      <4>3. f.parent[u[k]] < u[k]
        <5>1. f.parent[u[k]] # NULL
          BY <4>2, NodesAre
        <5> QED
          BY <4>1, <5>1 DEF Good, Parented
      <4>4. u[k + 1] \in Nat
        BY <2>1, <3>1
      <4>5. u[k + 1] <= N - (k + 1)
        BY <1>1, <4>1, <4>2, <4>3, <4>4
      <4> QED
        BY <3>1, <4>5
    <3> QED
      BY <3>3, <3>4
  <2>4. 0 .. N \subseteq G
    <3> HIDE DEF G
    <3> QED
      BY <1>1, <2>2, <2>3, IntervalInduction
  <2>5. N \in 0 .. N /\ N - N = 0
    BY <1>1
  <2>6. u[N] = Root \/ u[N] <= 0
    BY <2>4, <2>5
  <2>7. u[N] \in Nat /\ u[N] >= 1
    BY <2>1, <2>5
  <2> QED
    BY <2>6, <2>7
\* The first k that is at the root.
<1>5. PICK t \in 0 .. N : u[t] = Root /\ \A k \in 0 .. N : u[k] = Root => t <= k
  <2> DEFINE T == {k \in 0 .. N : u[k] = Root}
  <2>1. T \in SUBSET Int /\ IsFiniteSet(T) /\ T # {}
    <3>1. T \in SUBSET (0 .. N) /\ IsFiniteSet(0 .. N)
      BY <1>1, FS_Interval
    <3>2. N \in T
      BY <1>1, <1>4
    <3>3. T \in SUBSET Int
      OBVIOUS
    <3> QED
      BY <3>1, <3>2, <3>3, FS_Subset
  <2>2. PICK t \in T : \A k \in T : t <= k
    <3> HIDE DEF T
    <3> QED
      BY <2>1, LeastExists
  <2> QED
    BY <2>2
<1>6. \A k \in 0 .. N : u[k] # Root <=> k < t
  <2> SUFFICES ASSUME NEW k \in 0 .. N PROVE u[k] # Root <=> k < t
    OBVIOUS
  <2>1. t <= k => u[k] = Root
    BY <1>3, <1>5
  <2>2. u[k] = Root => t <= k
    BY <1>5
  <2> QED
    BY <1>1, <2>1, <2>2
<1>7. D = 0 .. (t - 1)
  <2>1. \A k : k \in 0 .. N /\ k < t <=> k \in 0 .. (t - 1)
    BY <1>1
  <2>2. \A k : k \in D <=> k \in 0 .. (t - 1)
    BY <1>6, <2>1
  <2> HIDE DEF D
  <2> QED
    BY <2>2
<1>8. Cardinality(D) = t
  <2>1. Cardinality(0 .. (t - 1)) = t
    BY <1>1, FS_Interval
  <2> QED
    BY <1>7, <2>1, Zenon
<1> QED
  BY <1>2, <1>5, <1>6, <1>8 DEF u

\* The path that vfs_chdir rebuilds is made of names.
LEMMA PathTyped ==
    ASSUME NEW f, Good(f), NEW n \in Attached(f)
    PROVE  PathOf(f, n) \in Seq(Names) /\ Kept(f, n) \in Nat /\ Kept(f, n) <= Depth(f, n)
<1> DEFINE N == VFS_MAX_NODES
           u == Up(f, n)
           d == Depth(f, n)
           p == Kept(f, n)
<1>1. /\ u \in [0 .. N -> Attached(f)] /\ d \in 0 .. N /\ N \in Nat
      /\ \A k \in 0 .. N : k < d <=> u[k] # Root
  <2>1. u \in [0 .. N -> Attached(f)]
    BY UpDef
  <2>2. d \in 0 .. N /\ \A k \in 0 .. N : k < d <=> u[k] # Root
    BY UpDepth
  <2>3. N \in Nat
    BY NodesAre
  <2> HIDE DEF u, d, N
  <2> QED
    BY <2>1, <2>2, <2>3
<1>2. p \in Nat /\ p <= d
  BY <1>1, NodesAssumption DEF Kept
<1>3. PathOf(f, n) = [i \in 1 .. p |-> f.name[u[p - i]]]
  BY DEF PathOf
<1> HIDE DEF u, d, p
<1>4. \A i \in 1 .. p : f.name[u[p - i]] \in Names
  <2> TAKE i \in 1 .. p
  <2>1. p - i \in 0 .. N /\ p - i < d
    BY <1>1, <1>2
  <2>2. u[p - i] \in Attached(f) /\ u[p - i] # Root
    BY <1>1, <2>1
  <2> QED
    BY <2>2, AttachedFacts
<1>5. [i \in 1 .. p |-> f.name[u[p - i]]] \in Seq(Names)
  BY <1>2, <1>4
<1> QED
  BY <1>2, <1>3, <1>5 DEF p, d

\* vfs_chdir changes the working directory only.
LEMMA ChdirGood ==
    ASSUME NEW f, Good(f), NEW path \in PathNames
    PROVE  /\ Good(vfs_chdir(f, path).fs) /\ vfs_chdir(f, path).ret \in {-1, 0}
           /\ \/ vfs_chdir(f, path).fs = f
              \/ /\ vfs_resolve(f, path) \in Attached(f)
                 /\ SameLinks(f, vfs_chdir(f, path).fs)
                 /\ vfs_chdir(f, path).fs.cwd = PathOf(f, vfs_resolve(f, path))
<1> DEFINE n == vfs_resolve(f, path)
           p == PathOf(f, n)
           G == [f EXCEPT !.cwd = p]
<1>1. vfs_chdir(f, path) = IF n = NULL THEN [fs |-> f, ret |-> -1]
                           ELSE IF f.type[n] # "dir" THEN [fs |-> f, ret |-> -1]
                           ELSE [fs |-> G, ret |-> 0]
  BY DEF vfs_chdir
<1>2. n \in Attached(f) \cup {NULL}
  BY ResolveStays
<1>3. n # NULL => p \in Seq(Names)
  BY <1>2, PathTyped
<1> HIDE DEF n, p
<1>4. CASE n = NULL \/ f.type[n] # "dir"
  BY <1>1, <1>4
<1>5. CASE ~(n = NULL \/ f.type[n] # "dir")
  <2>1. f \in FileSystems /\ p \in Seq(Names)
    BY <1>3, <1>5 DEF Good
  <2>2. PICK g : g = G
    OBVIOUS
  <2>3. /\ g.data = f.data /\ g.bufs = f.bufs /\ g.cwd = p
        /\ g.name = f.name /\ g.type = f.type /\ g.parent = f.parent
        /\ g.child = f.child /\ g.sibling = f.sibling /\ g.node_count = f.node_count
    BY <2>1, <2>2 DEF FileSystems
  <2>4. g = [name |-> g.name, type |-> g.type, data |-> g.data, parent |-> g.parent,
             child |-> g.child, sibling |-> g.sibling, node_count |-> g.node_count,
             cwd |-> g.cwd, bufs |-> g.bufs]
    BY <2>1, <2>2 DEF FileSystems
  <2>5. g \in FileSystems
    BY <2>1, <2>3, <2>4, Fields DEF FileSystems
  <2>6. SameLinks(f, g)
    BY <2>3 DEF SameLinks
  <2>7. Counted(g)
    <3>1. Buffered(g) = Buffered(f)
      BY <2>3 DEF Buffered
    <3> QED
      BY <2>3, <3>1 DEF Good, Counted
  <2>8. Good(g)
    BY <2>5, <2>6, <2>7, SameTree
  <2>9. vfs_chdir(f, path) = [fs |-> g, ret |-> 0]
    BY <1>1, <1>5, <2>2
  <2> QED
    BY <1>2, <1>5, <2>3, <2>6, <2>8, <2>9 DEF n, p
<1> QED
  BY <1>4, <1>5
----------------------------------------------------------------------------
\* The table vfs_init starts from.
LEMMA BlankGood == Good(Blank)
<1> DEFINE b == Blank
<1>1. Root \in Nodes /\ Root = 1 /\ NULL = 0 /\ NULL \in Pointers /\ VFS_MAX_NODES \in Nat
      /\ VFS_MAX_NODES >= 1 /\ NULL \notin Nodes
  BY NodesAre DEF Pointers
<1>2. /\ "/" \in AllNames /\ NoName \in AllNames /\ <<>> \in Seq(Names)
  BY DEF AllNames
<1>3. b \in FileSystems
  BY <1>1, <1>2 DEF Blank, FileSystems
<1>4. /\ \A n \in Nodes : b.parent[n] = NULL /\ b.child[n] = NULL /\ b.data[n] = NoData
      /\ b.node_count = 1 /\ b.type[Root] = "dir" /\ b.bufs = 0
  BY <1>1 DEF Blank
<1> HIDE DEF b
<1>5. \A d \in Nodes : Kids(b, d) = {}
  BY <1>1, <1>4 DEF Kids
<1>6. Threaded(b) /\ Parented(b) /\ Rooted(b) /\ Distinct(b)
  <2>1. Threaded(b)
    BY <1>4, <1>5 DEF Threaded
  <2>2. Parented(b)
    BY <1>4 DEF Parented
  <2>3. Rooted(b)
    BY <1>4 DEF Rooted
  <2>4. Distinct(b)
    BY <1>5 DEF Distinct
  <2> QED
    BY <2>1, <2>2, <2>3, <2>4
<1>7. Counted(b)
  <2>1. Buffered(b) = {}
    BY <1>4 DEF Buffered
  <2> QED
    BY <1>4, <2>1, FS_EmptySet DEF Counted
<1> QED
  BY <1>3, <1>6, <1>7 DEF Good, b

\* A seeded file keeps the tree.
LEMMA SeedGood ==
    ASSUME NEW f, Good(f), NEW s \in [path : PathNames, content : Contents]
    PROVE  Good(SeedFile(f, s))
<1> DEFINE m == vfs_create(f, s.path)
<1>1. s.path \in PathNames /\ s.content \in Contents
  OBVIOUS
<1>2. Good(m.fs) /\ m.ret \in Pointers
  BY <1>1, MakeGood DEF vfs_create
<1>3. SeedFile(f, s) = IF m.ret = NULL THEN m.fs
                       ELSE IF m.fs.type[m.ret] # "file" THEN m.fs
                       ELSE Overwrite(m.fs, m.ret, s.content)
  BY DEF SeedFile
<1> HIDE DEF m
<1>4. m.ret # NULL => Good(Overwrite(m.fs, m.ret, s.content))
  BY <1>1, <1>2, OverwriteGood DEF Pointers
<1> QED
  BY <1>2, <1>3, <1>4

\* The equations of the two folds in vfs_init.
MakesDirs(g) ==
    g = [s \in SUBSET DOMAIN SeedDirs |->
            IF s = {} THEN Blank ELSE vfs_mkdir(g[s \ {Max(s)}], SeedDirs[Max(s)]).fs]

MakesFiles(base, g) ==
    g = [s \in SUBSET DOMAIN SeedFiles |->
            IF s = {} THEN base ELSE SeedFile(g[s \ {Max(s)}], SeedFiles[Max(s)])]

\* The directories are made from the blank table.
LEMMA SeedDirsGood == Good(FoldLeft(LAMBDA f, p : vfs_mkdir(f, p).fs, Blank, SeedDirs))
<1> DEFINE I == DOMAIN SeedDirs
           V == {f \in FileSystems : Good(f)}
           F == [x \in I \X V |-> vfs_mkdir(x[2], SeedDirs[x[1]]).fs]
           k == CHOOSE g : MakesDirs(g)
<1>1. I \in SUBSET Int /\ IsFiniteSet(I) /\ \A s \in SUBSET I : s # {} => Max(s) \in s
  BY SeedAssumption, Indices
<1>2. \A i \in I, v \in V : vfs_mkdir(v, SeedDirs[i]).fs \in V
                            /\ F[<<i, v>>] = vfs_mkdir(v, SeedDirs[i]).fs
  <2> TAKE i \in I, v \in V
  <2>1. SeedDirs[i] \in PathNames
    BY SeedAssumption, Indices
  <2>2. Good(vfs_mkdir(v, SeedDirs[i]).fs)
    BY <2>1, MakeGood DEF vfs_mkdir
  <2> QED
    BY <2>2 DEF Good
<1>3. Blank \in V
  BY BlankGood DEF Good
<1>4. FoldLeft(LAMBDA f, p : vfs_mkdir(f, p).fs, Blank, SeedDirs) = k[I]
  BY DEF FoldLeft, MapThenFoldSet, MakesDirs
<1> HIDE DEF V
<1>5. \E g : MakesDirs(g)
  <2>1. PICK g \in [SUBSET I -> V] : FoldsBy(F, Blank, SUBSET I, g)
    <3> HIDE DEF I, F
    <3>1. \A i \in I, v \in V : F[<<i, v>>] \in V
      BY <1>2
    <3> QED
      BY <1>1, <1>3, <3>1, FoldExists
  <2>2. \A s \in SUBSET I : s # {} => F[<<Max(s), g[s \ {Max(s)}]>>] =
                                      vfs_mkdir(g[s \ {Max(s)}], SeedDirs[Max(s)]).fs
    <3> TAKE s \in SUBSET I
    <3> HAVE s # {}
    <3>1. Max(s) \in I /\ s \ {Max(s)} \in SUBSET I
      BY <1>1
    <3>2. g[s \ {Max(s)}] \in V
      BY <2>1, <3>1
    <3> HIDE DEF F
    <3> QED
      BY <1>2, <3>1, <3>2
  <2>3. MakesDirs(g)
    <3> HIDE DEF F
    <3> QED
      BY <2>1, <2>2 DEF FoldsBy, MakesDirs
  <2> QED
    BY <2>3
<1>6. MakesDirs(k)
  BY <1>5
<1> HIDE DEF k
<1>7. /\ k[{}] = Blank
      /\ \A s \in SUBSET I : s # {} =>
            k[s] = vfs_mkdir(k[s \ {Max(s)}], SeedDirs[Max(s)]).fs
  BY <1>6 DEF MakesDirs
<1> DEFINE G == {s \in SUBSET I : k[s] \in V}
<1>8. SUBSET I \subseteq G
  <2>1. {} \in G
    BY <1>3, <1>7
  <2>2. \A s \in SUBSET I : s # {} /\ s \ {Max(s)} \in G => s \in G
    <3> SUFFICES ASSUME NEW s \in SUBSET I, s # {}, s \ {Max(s)} \in G PROVE s \in G
      OBVIOUS
    <3>1. Max(s) \in I /\ k[s \ {Max(s)}] \in V
      BY <1>1
    <3> QED
      BY <1>2, <1>7, <3>1
  <2> HIDE DEF G, I
  <2> QED
    BY <1>1, <2>1, <2>2, SubsetInduction
<1>9. k[I] \in V
  BY <1>8
<1> QED
  BY <1>4, <1>9 DEF V

\* And the files in them.
LEMMA SeedFilesGood ==
    ASSUME NEW base, Good(base) PROVE Good(FoldLeft(SeedFile, base, SeedFiles))
<1> DEFINE I == DOMAIN SeedFiles
           V == {f \in FileSystems : Good(f)}
           F == [x \in I \X V |-> SeedFile(x[2], SeedFiles[x[1]])]
           k == CHOOSE g : MakesFiles(base, g)
<1>1. I \in SUBSET Int /\ IsFiniteSet(I) /\ \A s \in SUBSET I : s # {} => Max(s) \in s
  BY SeedAssumption, Indices
<1>2. \A i \in I, v \in V : SeedFile(v, SeedFiles[i]) \in V
                            /\ F[<<i, v>>] = SeedFile(v, SeedFiles[i])
  <2> TAKE i \in I, v \in V
  <2>1. SeedFiles[i] \in [path : PathNames, content : Contents]
    BY SeedAssumption, Indices
  <2>2. Good(SeedFile(v, SeedFiles[i]))
    BY <2>1, SeedGood
  <2> QED
    BY <2>2 DEF Good
<1>3. base \in V
  BY DEF Good
<1>4. FoldLeft(SeedFile, base, SeedFiles) = k[I]
  BY DEF FoldLeft, MapThenFoldSet, MakesFiles
<1> HIDE DEF V
<1>5. \E g : MakesFiles(base, g)
  <2>1. PICK g \in [SUBSET I -> V] : FoldsBy(F, base, SUBSET I, g)
    <3> HIDE DEF I, F
    <3>1. \A i \in I, v \in V : F[<<i, v>>] \in V
      BY <1>2
    <3> QED
      BY <1>1, <1>3, <3>1, FoldExists
  <2>2. \A s \in SUBSET I : s # {} => F[<<Max(s), g[s \ {Max(s)}]>>] =
                                      SeedFile(g[s \ {Max(s)}], SeedFiles[Max(s)])
    <3> TAKE s \in SUBSET I
    <3> HAVE s # {}
    <3>1. Max(s) \in I /\ s \ {Max(s)} \in SUBSET I
      BY <1>1
    <3>2. g[s \ {Max(s)}] \in V
      BY <2>1, <3>1
    <3> HIDE DEF F
    <3> QED
      BY <1>2, <3>1, <3>2
  <2>3. MakesFiles(base, g)
    <3> HIDE DEF F
    <3> QED
      BY <2>1, <2>2 DEF FoldsBy, MakesFiles
  <2> QED
    BY <2>3
<1>6. MakesFiles(base, k)
  BY <1>5
<1> HIDE DEF k
<1>7. /\ k[{}] = base
      /\ \A s \in SUBSET I : s # {} => k[s] = SeedFile(k[s \ {Max(s)}], SeedFiles[Max(s)])
  BY <1>6 DEF MakesFiles
<1> DEFINE G == {s \in SUBSET I : k[s] \in V}
<1>8. SUBSET I \subseteq G
  <2>1. {} \in G
    BY <1>3, <1>7
  <2>2. \A s \in SUBSET I : s # {} /\ s \ {Max(s)} \in G => s \in G
    <3> SUFFICES ASSUME NEW s \in SUBSET I, s # {}, s \ {Max(s)} \in G PROVE s \in G
      OBVIOUS
    <3>1. Max(s) \in I /\ k[s \ {Max(s)}] \in V
      BY <1>1
    <3> QED
      BY <1>2, <1>7, <3>1
  <2> HIDE DEF G, I
  <2> QED
    BY <1>1, <2>1, <2>2, SubsetInduction
<1>9. k[I] \in V
  BY <1>8
<1> QED
  BY <1>4, <1>9 DEF V
----------------------------------------------------------------------------
\* The inductive invariant of the specification.
IInv == Good(fs) /\ ret \in {-1, 0, 1}

\* vfs_init establishes it.
LEMMA InitGood == Init => IInv
<1>1. Good(vfs_init)
  BY SeedDirsGood, SeedFilesGood DEF vfs_init
<1> QED
  BY <1>1 DEF Init, IInv

\* Every action keeps it.
LEMMA StepGood ==
    ASSUME IInv, Next
    PROVE  IInv'
<1>1. Good(fs) /\ \A p \in Paths : p \in PathNames
  BY PathsAssumption DEF IInv
<1>2. ASSUME NEW p \in Paths, Mkdir(p) PROVE IInv'
  <2> DEFINE m == vfs_mkdir(fs, p)
  <2>1. Good(m.fs)
    BY <1>1, MakeGood DEF vfs_mkdir
  <2>2. fs' = m.fs /\ ret' = IF m.ret = NULL THEN -1 ELSE 0
    BY <1>2 DEF Mkdir
  <2> HIDE DEF m
  <2> QED
    BY <2>1, <2>2 DEF IInv
<1>3. ASSUME NEW p \in Paths, Cd(p) PROVE IInv'
  <2> DEFINE o == vfs_chdir(fs, p)
  <2>1. Good(o.fs) /\ o.ret \in {-1, 0}
    BY <1>1, ChdirGood
  <2>2. fs' = o.fs /\ ret' = o.ret
    BY <1>3 DEF Cd, Returns
  <2> HIDE DEF o
  <2> QED
    BY <2>1, <2>2 DEF IInv
<1>4. ASSUME NEW p \in Paths, Rm(p) PROVE IInv'
  <2> DEFINE o == vfs_unlink(fs, p)
  <2>1. Good(o.fs) /\ o.ret \in {-1, 0}
    BY <1>1, UnlinkGood
  <2>2. fs' = o.fs /\ ret' = o.ret
    BY <1>4 DEF Rm, Returns
  <2> HIDE DEF o
  <2> QED
    BY <2>1, <2>2 DEF IInv
<1>5. ASSUME NEW p \in Paths, NEW content \in Contents, Save(p, content) PROVE IInv'
  <2> DEFINE m == vfs_create(fs, p)
  <2>1. Good(m.fs) /\ m.ret \in Pointers
    BY <1>1, MakeGood DEF vfs_create
  <2>2. PICK o \in vfs_write(m.fs, m.ret, content) : Returns(o)
    BY <1>5 DEF Save
  <2> HIDE DEF m
  <2>3. Good(o.fs) /\ o.ret \in {-1, 0, 1}
    BY <2>1, WriteGood
  <2> QED
    BY <2>2, <2>3 DEF IInv, Returns
<1>6. ASSUME NEW src \in Paths, NEW dst \in Paths, Cp(src, dst) PROVE IInv'
  <2>1. PICK o \in vfs_copy(fs, src, dst) : Returns(o)
    BY <1>6 DEF Cp
  <2>2. Good(o.fs) /\ o.ret \in {-1, 0, 1}
    BY <1>1, CopyGood
  <2> QED
    BY <2>1, <2>2 DEF IInv, Returns
<1>7. ASSUME NEW src \in Paths, NEW dst \in Paths, Mv(src, dst) PROVE IInv'
  <2>1. PICK o \in vfs_rename(fs, src, dst) : Returns(o)
    BY <1>7 DEF Mv
  <2>2. Good(o.fs) /\ o.ret \in {-1, 0, 1}
    BY <1>1, RenameGood
  <2> QED
    BY <2>1, <2>2 DEF IInv, Returns
<1> QED
  BY <1>2, <1>3, <1>4, <1>5, <1>6, <1>7 DEF Next

\* The tree of vfs.c is good after vfs_init and after every call.
THEOREM VFSInvariant == Spec => []IInv
<1>1. IInv /\ [Next]_vars => IInv'
  <2> SUFFICES ASSUME IInv, [Next]_vars PROVE IInv'
    OBVIOUS
  <2>1. CASE Next
    BY <2>1, StepGood
  <2>2. CASE UNCHANGED vars
    BY <2>2 DEF vars, IInv, Good
  <2> QED
    BY <2>1, <2>2
<1> QED
  BY <1>1, InitGood, PTL DEF Spec

\* The node table, the links, the working directory and the return value
\* keep the types that vfs.c gives them.
THEOREM TypeCorrect == Spec => []TypeOK
<1>1. IInv => TypeOK
  BY DEF IInv, Good, TypeOK
<1> QED
  BY <1>1, VFSInvariant, PTL

\* Whatever is made, written, copied, renamed or unlinked, the child lists
\* of vfs.c end, hold nodes that point back to their owner and no two
\* children of one name.
THEOREM TreeKept == Spec => []TreeWellFormed
<1>1. IInv => TreeWellFormed
  <2> SUFFICES ASSUME Good(fs), NEW d \in Nodes
               PROVE  /\ Children(fs, d)[VFS_MAX_NODES] = NULL
                      /\ \A n \in Members(fs, d) :
                            /\ fs.parent[n] = d /\ fs.type[d] = "dir"
                            /\ n # Root /\ fs.type[n] # "none" /\ fs.name[n] # NoName
                      /\ \A m, n \in Members(fs, d) : fs.name[m] = fs.name[n] => m = n
    BY DEF IInv, TreeWellFormed
  <2>1. Members(fs, d) = Kids(fs, d) /\ Children(fs, d)[VFS_MAX_NODES] = NULL
    BY MembersAreKids
  <2>2. ASSUME NEW n \in Kids(fs, d)
        PROVE  /\ fs.parent[n] = d /\ fs.type[d] = "dir"
               /\ n # Root /\ fs.type[n] # "none" /\ fs.name[n] # NoName
    <3>1. n \in Nodes /\ fs.parent[n] = d /\ fs.name[n] # NoName /\ d # NULL
      BY NodesAre DEF Kids
    <3>2. fs.type[d] = "dir" /\ fs.type[n] # "none"
      BY <3>1 DEF Good, Parented
    <3>3. n # Root
      BY <3>1, RootParent
    <3> QED
      BY <3>1, <3>2, <3>3
  <2>3. \A m, n \in Kids(fs, d) : fs.name[m] = fs.name[n] => m = n
    BY DEF Good, Distinct
  <2> QED
    BY <2>1, <2>2, <2>3
<1> QED
  BY <1>1, VFSInvariant, PTL

\* The buffers vfs.c holds from the heap are those its nodes point to: none
\* leaks and none is freed twice.
THEOREM BuffersKept == Spec => []BuffersExact
<1>1. IInv => BuffersExact
  BY DEF IInv, Good, Counted, Buffered, BuffersExact
<1> QED
  BY <1>1, VFSInvariant, PTL

\* A write or a copy that fails leaves every content that was there.
LEMMA FailureKeepsStep ==
    ASSUME IInv, ret' = -1, NEW k \in Nodes, fs.data[k] \notin {NoData, fs'.data[k]}
    PROVE  /\ \A p \in Paths, content \in Contents : ~Save(p, content)
           /\ \A src, dst \in Paths : ~Cp(src, dst)
<1>1. Good(fs) /\ \A p \in Paths : p \in PathNames
  BY PathsAssumption DEF IInv
<1>2. ASSUME NEW p \in Paths, NEW content \in Contents, Save(p, content) PROVE FALSE
  <2> DEFINE m == vfs_create(fs, p)
  <2>1. Good(m.fs) /\ m.ret \in Pointers /\ m.fs.data = fs.data
    BY <1>1, MakeGood DEF vfs_create
  <2>2. PICK o \in vfs_write(m.fs, m.ret, content) : Returns(o)
    BY <1>2 DEF Save
  <2> HIDE DEF m
  <2>3. o.ret = -1 => o.fs = m.fs
    BY <2>1, WriteGood
  <2>4. fs'.data = fs.data
    BY <2>1, <2>2, <2>3 DEF Returns
  <2> QED
    BY <2>4
<1>3. ASSUME NEW src \in Paths, NEW dst \in Paths, Cp(src, dst) PROVE FALSE
  <2>1. PICK o \in vfs_copy(fs, src, dst) : Returns(o)
    BY <1>3 DEF Cp
  <2>2. o.ret = -1 => o.fs.data = fs.data
    BY <1>1, CopyGood
  <2>3. fs'.data = fs.data
    BY <2>1, <2>2 DEF Returns
  <2> QED
    BY <2>3
<1> QED
  BY <1>2, <1>3

\* vfs_write and vfs_copy keep the old content of a file until the new one
\* is in place.
THEOREM FailureKeeps == Spec => FailureKeepsContent
<1>1. IInv => ((ret' = -1 /\ \E n \in Nodes : fs.data[n] \notin {NoData, fs'.data[n]})
         => /\ \A p \in Paths, content \in Contents : ~Save(p, content)
            /\ \A src, dst \in Paths : ~Cp(src, dst))
  BY FailureKeepsStep
<1> QED
  BY <1>1, VFSInvariant, PTL DEF FailureKeepsContent
----------------------------------------------------------------------------
\* Looking an attached node up by its name in its parent finds it.
LEMMA StepDown ==
    ASSUME NEW f, Good(f), NEW x \in Attached(f), x # Root
    PROVE  Step(f, f.parent[x], f.name[x]) = x
<1> DEFINE d == f.parent[x]
           name == f.name[x]
<1>1. d \in Attached(f) /\ d \in Nodes /\ d # NULL /\ x \in Kids(f, d) /\ name \in Names
  BY AttachedFacts, NodesAre
<1>2. name \notin {NoName, ".", ".."}
  BY <1>1, NamesAssumption
<1> HIDE DEF d, name
<1>3. Step(f, d, name) = find_child(f, d, name)
  BY <1>1, <1>2 DEF Step
<1>4. \/ find_child(f, d, name) \in Kids(f, d) /\ f.name[find_child(f, d, name)] = name
      \/ \A k \in Kids(f, d) : f.name[k] # name
  BY <1>1, FindChild
<1>5. f.name[x] = name
  BY DEF name
<1>6. find_child(f, d, name) = x
  BY <1>1, <1>4, <1>5 DEF Good, Distinct
<1> QED
  BY <1>3, <1>6 DEF d, name

\* A node that is not too deep is where its path leads.
LEMMA PathLeads ==
    ASSUME NEW f, Good(f), NEW n \in Attached(f), Depth(f, n) <= MAX_PARTS
    PROVE  Follow(f, PathOf(f, n)) = n
<1> DEFINE N == VFS_MAX_NODES
           u == Up(f, n)
           d == Depth(f, n)
           parts == PathOf(f, n)
<1>1. /\ u \in [0 .. N -> Attached(f)] /\ u[0] = n
      /\ \A k \in 1 .. N : u[k] = Parent(f, u[k - 1])
  BY UpDef
<1>2. d \in 0 .. N /\ \A k \in 0 .. N : k < d <=> u[k] # Root
  BY UpDepth
<1>3. N \in Nat /\ MAX_PARTS \in Nat
  BY NodesAssumption
<1>4. parts \in Seq(Components)
  BY PathTyped DEF Components
<1>5. Kept(f, n) = d
  BY <1>2, <1>3 DEF Kept
<1>6. parts = [i \in 1 .. d |-> f.name[u[d - i]]]
  BY <1>5 DEF PathOf
<1> HIDE DEF u, d, parts, N
<1>7. DOMAIN parts = 1 .. d
  BY <1>6
<1>8. PICK g \in [SUBSET DOMAIN parts -> Attached(f) \cup {NULL}] :
        Traces(f, parts, g) /\ Follow(f, parts) = g[DOMAIN parts]
  BY <1>4, FollowTraces
<1>9. /\ g[{}] = Root
      /\ \A s \in SUBSET (1 .. d) : s # {} => g[s] = Step(f, g[s \ {Max(s)}], parts[Max(s)])
  BY <1>7, <1>8 DEF Traces
<1> DEFINE G == {i \in Nat : g[1 .. i] = u[d - i]}
<1>10. 0 \in G
  <2>1. 1 .. 0 = {} /\ d - 0 = d
    BY <1>2, <1>3
  <2>2. u[d] = Root
    BY <1>2, <1>3
  <2>3. g[1 .. 0] = u[d - 0]
    BY <1>9, <2>1, <2>2, Zenon
  <2> QED
    BY <2>3
<1>11. \A i \in 0 .. d - 1 : i \in G => i + 1 \in G
  <2> SUFFICES ASSUME NEW i \in 0 .. d - 1, i \in G PROVE i + 1 \in G
    OBVIOUS
  <2> DEFINE s == 1 .. (i + 1)
             x == u[d - (i + 1)]
  <2>1. /\ i \in Nat /\ i + 1 \in 1 .. d /\ d - (i + 1) \in 0 .. N /\ d - (i + 1) < d
        /\ d - i \in 1 .. N /\ (d - i) - 1 = d - (i + 1)
    BY <1>2, <1>3
  <2>2. x \in Attached(f) /\ x # Root
    BY <1>1, <1>2, <2>1
  <2>3. u[d - i] = f.parent[x]
    <3>1. x \notin {NULL, Root}
      BY <2>2, AttachedFacts, NodesAre
    <3>2. u[d - i] = Parent(f, x)
      BY <1>1, <2>1
    <3> QED
      BY <3>1, <3>2 DEF Parent
  <2>4. s \in SUBSET (1 .. d) /\ i + 1 \in s /\ \A j \in s : j <= i + 1
    BY <1>2, <1>3, <2>1
  <2>5. Max(s) = i + 1
    <3>1. 1 \in Int /\ i + 1 \in Int
      BY <2>1
    <3>2. IsFiniteSet(s)
      BY <3>1, FS_Interval
    <3>3. s \in SUBSET Int /\ s # {}
      <4>1. \A j \in s : j \in Int
        BY <3>1
      <4>2. i + 1 \in s
        BY <2>4
      <4> HIDE DEF s
      <4> QED
        BY <4>1, <4>2, Zenon
    <3>4. Max(s) \in s /\ \A v \in s : Max(s) >= v
      <4> HIDE DEF s
      <4> QED
        BY <3>2, <3>3, MaxExists
    <3> QED
      BY <2>1, <2>4, <3>4
  <2>6. s \ {i + 1} = 1 .. i
    BY <2>1
  <2>7. parts[i + 1] = f.name[x]
    BY <1>6, <2>1
  <2> HIDE DEF x, s
  <2>8. g[s] = Step(f, g[s \ {Max(s)}], parts[Max(s)])
    BY <1>9, <2>4
  <2>9. g[s \ {Max(s)}] = u[d - i]
    <3>1. g[1 .. i] = u[d - i]
      OBVIOUS
    <3> QED
      BY <2>5, <2>6, <3>1, Zenon
  <2>10. g[s] = Step(f, f.parent[x], f.name[x])
    BY <2>3, <2>5, <2>7, <2>8, <2>9, Zenon
  <2>11. g[s] = x
    BY <2>2, <2>10, StepDown
  <2> QED
    BY <2>1, <2>11 DEF s, x
<1>12. 0 .. d \subseteq G
  <2>1. d \in Nat
    BY <1>2, <1>3
  <2> HIDE DEF G
  <2> QED
    BY <1>10, <1>11, <2>1, IntervalInduction
<1>13. g[1 .. d] = n
  <2>1. d \in 0 .. d /\ d - d = 0
    BY <1>2, <1>3
  <2>2. g[1 .. d] = u[d - d]
    BY <1>12, <2>1
  <2> QED
    BY <1>1, <2>1, <2>2
<1>14. Follow(f, parts) = g[1 .. d]
  BY <1>7, <1>8, Zenon
<1> QED
  BY <1>13, <1>14 DEF parts

\* The way up depends on the parents only.
LEMMA SameUp ==
    ASSUME NEW f, NEW g, g.parent = f.parent, NEW n
    PROVE  /\ Up(g, n) = Up(f, n) /\ Depth(g, n) = Depth(f, n)
           /\ Kept(g, n) = Kept(f, n)
<1> DEFINE Way(par) == CHOOSE up : up = [k \in 0 .. VFS_MAX_NODES |->
                IF k = 0 THEN n
                ELSE IF up[k - 1] \in {NULL, Root} THEN up[k - 1] ELSE par[up[k - 1]]]
<1>1. Up(g, n) = Way(g.parent) /\ Up(f, n) = Way(f.parent)
  BY Zenon DEF Up, Parent
<1>2. Up(g, n) = Up(f, n)
  <2> HIDE DEF Way
  <2> QED
    BY <1>1
<1>3. Depth(g, n) = Depth(f, n)
  BY <1>2, Zenon DEF Depth
<1>4. Kept(g, n) = Kept(f, n)
  BY <1>3, Zenon DEF Kept
<1> QED
  BY <1>2, <1>3, <1>4

\* The same links make the same paths.
LEMMA SameWay ==
    ASSUME NEW f, NEW g, SameLinks(f, g), NEW n
    PROVE  /\ Attached(g) = Attached(f) /\ Depth(g, n) = Depth(f, n)
           /\ PathOf(g, n) = PathOf(f, n)
<1>1. g.parent = f.parent /\ g.name = f.name
  BY DEF SameLinks
<1>2. /\ Up(g, n) = Up(f, n) /\ Depth(g, n) = Depth(f, n)
      /\ Kept(g, n) = Kept(f, n)
  BY <1>1, SameUp
<1>3. PathOf(g, n) = PathOf(f, n)
  BY <1>1, <1>2, Zenon DEF PathOf
<1>4. \A d : Kids(g, d) = Kids(f, d)
  BY <1>1 DEF Kids
<1>5. \A S : Anchored(g, S) <=> Anchored(f, S)
  BY <1>1, <1>4 DEF Anchored
<1>6. Attached(g) = Attached(f)
  BY <1>5 DEF Attached
<1> QED
  BY <1>2, <1>3, <1>6

\* A step of vfs_chdir leads to a working directory that resolves to the
\* directory that was named.
LEMMA CdArrivesStep ==
    ASSUME IInv, fs'.cwd # fs.cwd, NEW p \in Paths, Cd(p),
           ~(Depth(fs, vfs_resolve(fs, p)) > MAX_PARTS)
    PROVE  Follow(fs', fs'.cwd) = vfs_resolve(fs, p)
<1> DEFINE o == vfs_chdir(fs, p)
           n == vfs_resolve(fs, p)
<1>1. Good(fs) /\ p \in PathNames
  BY PathsAssumption DEF IInv
<1>2. fs' = o.fs
  BY DEF Cd, Returns
<1>3. o.fs # fs
  BY <1>2
<1>4. /\ Good(o.fs) /\ n \in Attached(fs) /\ SameLinks(fs, o.fs)
      /\ o.fs.cwd = PathOf(fs, n)
  BY <1>1, <1>3, ChdirGood
<1> HIDE DEF o, n
<1>5. PICK g : g = o.fs
  OBVIOUS
<1>6. Good(g) /\ SameLinks(fs, g)
  BY <1>4, <1>5
<1>7. /\ Attached(g) = Attached(fs) /\ Depth(g, n) = Depth(fs, n)
      /\ PathOf(g, n) = PathOf(fs, n)
  BY <1>6, SameWay
<1>8. Depth(fs, n) <= MAX_PARTS
  <2>1. Depth(fs, n) \in 0 .. VFS_MAX_NODES
    BY <1>1, <1>4, UpDepth
  <2> QED
    BY <2>1, NodesAssumption DEF n
<1>9. Follow(g, PathOf(g, n)) = n
  <2>1. n \in Attached(g) /\ Depth(g, n) <= MAX_PARTS
    BY <1>4, <1>7, <1>8
  <2> QED
    BY <1>6, <2>1, PathLeads
<1>10. Follow(g, g.cwd) = n
  BY <1>4, <1>5, <1>7, <1>9
<1> QED
  BY <1>2, <1>5, <1>10 DEF n

\* After vfs_chdir the path in cwd leads back to the directory that was
\* named, for every tree and every path, unless the directory lies deeper
\* than vfs_chdir has room for.
THEOREM ChdirArrives == Spec => CdArrives
<1>1. IInv => (fs'.cwd # fs.cwd => \A p \in Paths : Cd(p) =>
          \/ Depth(fs, vfs_resolve(fs, p)) > MAX_PARTS
          \/ Follow(fs', fs'.cwd) = vfs_resolve(fs, p))
  BY CdArrivesStep
<1> QED
  BY <1>1, VFSInvariant, PTL DEF CdArrives
----------------------------------------------------------------------------
\* S has the kids of its members.
Closed(f, S) == \A d \in S : Kids(f, d) \subseteq S

\* Below(f, n) is the least closed set with n: kids have higher numbers than
\* their parents, so that no round of Below is missing.
LEMMA BelowLeast ==
    ASSUME NEW f, Good(f), NEW n \in Nodes
    PROVE  /\ Below(f, n) \in SUBSET Nodes /\ n \in Below(f, n)
           /\ Closed(f, Below(f, n))
           /\ \A S \in SUBSET Nodes : n \in S /\ Closed(f, S) => Below(f, n) \subseteq S
<1> DEFINE N == VFS_MAX_NODES
           V == SUBSET Nodes
           F == [S \in V |-> WithMembers(f, S)]
           Eq(c) == c = [k \in 0 .. N |-> IF k = 0 THEN {n} ELSE WithMembers(f, c[k - 1])]
           r == CHOOSE c : Eq(c)
<1>1. N \in Nat
  BY NodesAre
<1>2. \A S \in V : WithMembers(f, S) = S \cup UNION {Kids(f, d) : d \in S}
  <2> TAKE S \in V
  <2>1. \A d \in S : Members(f, d) = Kids(f, d)
    BY MembersAreKids
  <2> QED
    BY <2>1 DEF WithMembers
<1>3. \A S \in V : WithMembers(f, S) \in V /\ F[S] = WithMembers(f, S)
  BY <1>2 DEF Kids
<1>4. Below(f, n) = r[N]
  BY DEF Below
<1> HIDE DEF V, F, N
<1>5. \E c : Eq(c)
  <2>1. PICK c \in [0 .. N -> V] : Iterates(F, {n}, N, c)
    <3>1. \A S \in V : F[S] \in V
      BY <1>3
    <3>2. {n} \in V
      BY DEF V
    <3> QED
      BY <1>1, <3>1, <3>2, IterationExists
  <2>2. \A k \in 0 .. N : k # 0 => c[k - 1] \in V
    BY <1>1
  <2>3. \A k \in 0 .. N : k # 0 => F[c[k - 1]] = WithMembers(f, c[k - 1])
    BY <1>3, <2>2
  <2>4. Eq(c)
    BY <2>1, <2>3 DEF Iterates
  <2> QED
    BY <2>4
<1>6. Eq(r)
  <2> HIDE DEF Eq
  <2> QED
    BY <1>5
<1> HIDE DEF r
<1>7. /\ r[0] = {n}
      /\ \A k \in 0 .. N - 1 : r[k + 1] = WithMembers(f, r[k])
  <2>1. 0 \in 0 .. N
    BY <1>1
  <2>2. \A k \in 0 .. N - 1 : k + 1 \in 0 .. N /\ k + 1 # 0 /\ (k + 1) - 1 = k
    BY <1>1
  <2> QED
    BY <1>6, <2>1, <2>2
<1>8. \A k \in 0 .. N : r[k] \in V /\ n \in r[k]
  <2> DEFINE G == {k \in Nat : r[k] \in V /\ n \in r[k]}
  <2>1. 0 \in G
    BY <1>7 DEF V
  <2>2. \A k \in 0 .. N - 1 : k \in G => k + 1 \in G
    BY <1>1, <1>2, <1>3, <1>7
  <2>3. 0 .. N \subseteq G
    <3> HIDE DEF G
    <3> QED
      BY <1>1, <2>1, <2>2, IntervalInduction
  <2> QED
    BY <2>3
<1>9. \A k \in 0 .. N - 1 : r[k + 1] = r[k] \cup UNION {Kids(f, d) : d \in r[k]}
  <2> TAKE k \in 0 .. N - 1
  <2>1. r[k] \in V
    BY <1>1, <1>8
  <2> QED
    BY <1>2, <1>7, <2>1
\* After k rounds the kids of the nodes up to k are there.
<1>10. \A k \in 0 .. N : \A d \in r[k] : d <= k => Kids(f, d) \subseteq r[k]
  <2> DEFINE G == {k \in Nat : \A d \in r[k] : d <= k => Kids(f, d) \subseteq r[k]}
  <2>1. 0 \in G
    <3>1. n >= 1 /\ n \in Nat
      BY NodesAre
    <3>2. ~(n <= 0)
      BY <3>1
    <3> QED
      BY <1>7, <3>2
  <2>2. \A k \in 0 .. N - 1 : k \in G => k + 1 \in G
    <3> SUFFICES ASSUME NEW k \in 0 .. N - 1, k \in G,
                        NEW d \in r[k + 1], d <= k + 1
                 PROVE  Kids(f, d) \subseteq r[k + 1]
      BY <1>1
    <3>1. CASE d \in r[k]
      BY <1>9, <3>1
    <3>2. CASE d \notin r[k]
      <4>1. PICK e \in r[k] : d \in Kids(f, e)
        BY <1>9, <3>2
      <4>2. e \in Nodes /\ d \in Nodes /\ f.parent[d] = e
        BY <1>1, <1>8, <4>1 DEF V, Kids
      <4>3. e # NULL /\ e \in Nat /\ d \in Nat
        BY <4>2, NodesAre
      <4>4. e < d
        BY <4>2, <4>3 DEF Good, Parented
      <4>5. e <= k
        BY <4>3, <4>4
      <4>6. Kids(f, e) \subseteq r[k]
        BY <4>5
      <4> QED
        BY <3>2, <4>1, <4>6
    <3> QED
      BY <3>1, <3>2
  <2>3. 0 .. N \subseteq G
    <3> HIDE DEF G
    <3> QED
      BY <1>1, <2>1, <2>2, IntervalInduction
  <2> QED
    BY <2>3
<1>11. N \in 0 .. N /\ r[N] \in SUBSET Nodes /\ n \in r[N]
  BY <1>1, <1>8 DEF V
<1>12. Closed(f, r[N])
  <2>1. \A d \in r[N] : d <= N
    BY <1>11, NodesAre DEF N
  <2> QED
    BY <1>10, <1>11, <2>1 DEF Closed
<1>13. ASSUME NEW S \in SUBSET Nodes, n \in S, Closed(f, S) PROVE r[N] \subseteq S
  <2> DEFINE G == {k \in Nat : r[k] \subseteq S}
  <2>1. 0 \in G
    BY <1>7, <1>13
  <2>2. \A k \in 0 .. N - 1 : k \in G => k + 1 \in G
    <3> SUFFICES ASSUME NEW k \in 0 .. N - 1, k \in G PROVE k + 1 \in G
      OBVIOUS
    <3>1. r[k + 1] \subseteq S
      BY <1>9, <1>13 DEF Closed
    <3> QED
      BY <1>1, <3>1
  <2>3. 0 .. N \subseteq G
    <3> HIDE DEF G
    <3> QED
      BY <1>1, <2>1, <2>2, IntervalInduction
  <2> QED
    BY <1>11, <2>3
<1> QED
  BY <1>4, <1>11, <1>12, <1>13

\* Apart from n, a node below n has its parent below n.
LEMMA BelowParent ==
    ASSUME NEW f, Good(f), NEW n \in Nodes, NEW y \in Below(f, n), y # n
    PROVE  f.parent[y] \in Below(f, n) /\ y \in Kids(f, f.parent[y])
<1> DEFINE B == Below(f, n)
           S == B \ {y}
<1>1. /\ B \in SUBSET Nodes /\ n \in B /\ Closed(f, B)
      /\ \A T \in SUBSET Nodes : n \in T /\ Closed(f, T) => B \subseteq T
  BY BelowLeast
<1> HIDE DEF B
<1>2. y \in B
  BY DEF B
<1>3. ~Closed(f, S)
  BY <1>1, <1>2
<1>4. PICK d \in S : ~(Kids(f, d) \subseteq S)
  BY <1>3 DEF Closed
<1>5. Kids(f, d) \subseteq B
  BY <1>1 DEF Closed
<1>6. y \in Kids(f, d)
  BY <1>4, <1>5
<1>7. f.parent[y] = d
  BY <1>6 DEF Kids
<1> QED
  BY <1>6, <1>7 DEF B

\* Cutting n out takes what is below n out of reach, and nothing else.
LEMMA CutReach ==
    ASSUME NEW f, Good(f), NEW g, Good(g), NEW n \in Nodes, n # Root,
           \A d \in Nodes : Kids(g, d) = Kids(f, d) \ {n}
    PROVE  Reachable(g) = Reachable(f) \ Below(f, n)
<1> DEFINE R == Below(f, Root)
           Q == Below(g, Root)
           B == Below(f, n)
<1>0. Root \in Nodes
  BY NodesAre
<1>1. /\ R \in SUBSET Nodes /\ Root \in R /\ Closed(f, R)
      /\ \A S \in SUBSET Nodes : Root \in S /\ Closed(f, S) => R \subseteq S
  BY <1>0, BelowLeast
<1>2. /\ Q \in SUBSET Nodes /\ Root \in Q /\ Closed(g, Q)
      /\ \A S \in SUBSET Nodes : Root \in S /\ Closed(g, S) => Q \subseteq S
  BY <1>0, BelowLeast
<1>3. /\ B \in SUBSET Nodes /\ n \in B /\ Closed(f, B)
      /\ \A S \in SUBSET Nodes : n \in S /\ Closed(f, S) => B \subseteq S
  BY BelowLeast
<1>4. \A y \in B : y # n => f.parent[y] \in B
  BY BelowParent
<1> HIDE DEF R, Q, B
<1>5. Root \notin B
  <2>1. f.parent[Root] = NULL /\ NULL \notin Nodes
    BY RootParent, NodesAre
  <2> QED
    BY <1>3, <1>4, <2>1
<1>6. Q \subseteq R \ B
  <2>1. Closed(g, R \ B)
    <3> SUFFICES ASSUME NEW d \in R \ B, NEW y \in Kids(g, d) PROVE y \in R \ B
      BY DEF Closed
    <3>1. d \in Nodes /\ y \in Kids(f, d) /\ y # n
      BY <1>1
    <3>2. y \in R
      BY <1>1, <3>1 DEF Closed
    <3>3. f.parent[y] = d
      BY <3>1 DEF Kids
    <3> QED
      BY <1>4, <3>1, <3>2, <3>3
  <2>2. R \ B \in SUBSET Nodes /\ Root \in R \ B
    BY <1>1, <1>5
  <2> QED
    BY <1>2, <2>1, <2>2
<1>7. R \subseteq Q \cup B
  <2>1. Closed(f, Q \cup B)
    <3> SUFFICES ASSUME NEW d \in Q \cup B, NEW y \in Kids(f, d) PROVE y \in Q \cup B
      BY DEF Closed
    <3>1. CASE d \in B
      BY <1>3, <3>1 DEF Closed
    <3>2. CASE d \in Q
      <4>1. y = n \/ y \in Kids(g, d)
        BY <1>2, <3>2
      <4> QED
        BY <1>2, <1>3, <3>2, <4>1 DEF Closed
    <3> QED
      BY <3>1, <3>2
  <2>2. Q \cup B \in SUBSET Nodes /\ Root \in Q \cup B
    BY <1>2, <1>3
  <2> QED
    BY <1>1, <2>1, <2>2
<1>8. Q = R \ B
  BY <1>6, <1>7
<1> QED
  BY <1>8 DEF Reachable, R, Q, B

\* What stays in reach keeps its path.
LEMMA CutPaths ==
    ASSUME NEW f, NEW g, Good(g), g.parent = f.parent, NEW n,
           \A k \in Nodes : k # n => g.name[k] = f.name[k],
           NEW m \in Reachable(g), n \notin Reachable(g)
    PROVE  PathOf(g, m) = PathOf(f, m)
<1> DEFINE N == VFS_MAX_NODES
           Q == Below(g, Root)
           u == Up(g, m)
           D == {k \in 0 .. N : u[k] \notin {NULL, Root}}
           p == Kept(g, m)
<1>1. Root \in Nodes /\ N \in Nat
  BY NodesAre
<1>2. Q \in SUBSET Nodes /\ Root \in Q
  BY <1>1, BelowLeast
<1>3. \A y \in Q : y # Root => g.parent[y] \in Q
  BY <1>1, BelowParent
<1>4. m \in Q /\ n \notin Q
  BY DEF Reachable
<1> HIDE DEF Q
<1>5. u \in [0 .. N -> Q]
  <2>1. \A y \in Q : Parent(g, y) \in Q
    <3> TAKE y \in Q
    <3>1. y # NULL
      BY <1>2, NodesAre
    <3> QED
      BY <1>3, <3>1 DEF Parent
  <2> QED
    BY <1>4, <2>1, UpWithin
<1>6. p \in Nat /\ p <= N + 1
  <2>1. IsFiniteSet(0 .. N) /\ Cardinality(0 .. N) = N + 1
    BY <1>1, FS_Interval
  <2>2. D \subseteq 0 .. N
    OBVIOUS
  <2>3. Cardinality(D) \in Nat /\ Cardinality(D) <= N + 1
    <3> HIDE DEF D
    <3> QED
      BY <2>1, <2>2, FS_Subset, FS_CardinalityType
  <2>4. Depth(g, m) = Cardinality(D)
    BY DEF Depth
  <2> QED
    BY <1>1, <2>3, <2>4, NodesAssumption DEF Kept
<1>7. Up(f, m) = u /\ Kept(f, m) = p
  BY SameUp
<1> HIDE DEF u, p
<1>8. \A i \in 1 .. p : g.name[u[p - i]] = f.name[u[p - i]]
  <2> TAKE i \in 1 .. p
  <2>1. p - i \in 0 .. N
    BY <1>1, <1>6
  <2>2. u[p - i] \in Q
    BY <1>5, <2>1
  <2> QED
    BY <1>2, <1>4, <2>2
<1>9. PathOf(g, m) = [i \in 1 .. p |-> g.name[u[p - i]]]
  BY DEF PathOf, u, p
<1>10. PathOf(f, m) = [i \in 1 .. p |-> f.name[u[p - i]]]
  BY <1>7, Zenon DEF PathOf
<1> QED
  BY <1>8, <1>9, <1>10

\* A successful vfs_unlink takes the node and what is below it.
LEMMA RmStep ==
    ASSUME IInv, ret' = 0, NEW p \in Paths, Rm(p)
    PROVE  LET n    == vfs_resolve(fs, p)
               rest == Reachable(fs) \ Below(fs, n)
           IN  /\ Reachable(fs') = rest
               /\ \A m \in rest : PathOf(fs', m) = PathOf(fs, m) /\ fs'.data[m] = fs.data[m]
<1> DEFINE n == vfs_resolve(fs, p)
           o == vfs_unlink(fs, p)
           rest == Reachable(fs) \ Below(fs, n)
<1>1. Good(fs) /\ p \in PathNames
  BY PathsAssumption DEF IInv
<1>2. fs' = o.fs /\ o.ret = 0
  BY DEF Rm, Returns
<1>3. o # [fs |-> fs, ret |-> -1]
  BY <1>2
<1>4. n \in Attached(fs) \ {Root} /\ o.fs \in FileSystems /\ Cuts(fs, o.fs, n)
  BY <1>1, <1>3, UnlinkCuts
<1> HIDE DEF n, o
<1>5. PICK g : g = o.fs
  OBVIOUS
<1>6. n \in Nodes /\ n # Root /\ fs.parent[n] \in Nodes /\ n \in Kids(fs, fs.parent[n])
  BY <1>4, AttachedFacts
<1>7. Good(g) /\ \A d \in Nodes : Kids(g, d) = Kids(fs, d) \ {n}
  BY <1>1, <1>4, <1>5, <1>6, CutGood
<1>8. /\ g.parent = fs.parent
      /\ \A k \in Nodes : k # n => g.name[k] = fs.name[k] /\ g.data[k] = fs.data[k]
  <2>1. /\ g.name = [fs.name EXCEPT ![n] = NoName]
        /\ g.data = [fs.data EXCEPT ![n] = NoData] /\ g.parent = fs.parent
    BY <1>4, <1>5 DEF Cuts
  <2> QED
    BY <1>1, <2>1, Fields DEF Good
<1>9. Reachable(g) = rest
  BY <1>1, <1>6, <1>7, CutReach
<1>10. n \in Below(fs, n) /\ Reachable(fs) \in SUBSET Nodes
  BY <1>1, <1>6, BelowLeast, NodesAre DEF Reachable
<1>11. ASSUME NEW m \in rest
       PROVE  PathOf(g, m) = PathOf(fs, m) /\ g.data[m] = fs.data[m]
  <2>1. m \in Reachable(g) /\ n \notin Reachable(g) /\ m # n /\ m \in Nodes
    BY <1>9, <1>10
  <2>2. PathOf(g, m) = PathOf(fs, m)
    BY <1>7, <1>8, <2>1, CutPaths
  <2> QED
    BY <1>8, <2>1, <2>2
<1>12. fs' = g
  BY <1>2, <1>5
<1> QED
  BY <1>9, <1>11, <1>12 DEF n

\* vfs_unlink takes away the node and what is below it, and leaves every
\* other node where it was, with its content.
THEOREM RmTakesSubtree == Spec => RmTakesOnlySubtree
<1>1. IInv => ((fs'.name # fs.name /\ ret' = 0) => \A p \in Paths : Rm(p) =>
          LET n    == vfs_resolve(fs, p)
              rest == Reachable(fs) \ Below(fs, n)
          IN  /\ Reachable(fs') = rest
              /\ \A m \in rest : PathOf(fs', m) = PathOf(fs, m) /\ fs'.data[m] = fs.data[m])
  BY RmStep
<1> QED
  BY <1>1, VFSInvariant, PTL DEF RmTakesOnlySubtree
=============================================================================
