------------------------------ MODULE VMMProof ------------------------------
(***************************************************************************)
(* The page tables for every size of a table, set of pages, boot mapping   *)
(* and sequence of calls: they form a tree, and what vmm_resolve answers   *)
(* is an address space.                                                    *)
(*                                                                         *)
(* Neither is inductive as it stands, since both speak of the tables that  *)
(* can be reached, and nothing says what the others hold.  The invariant   *)
(* gives every table its level, or none while the physical memory manager  *)
(* still has the page (Good).                                              *)
(***************************************************************************)
EXTENDS VMM, FiniteSetTheorems, TLAPS

States == [table : [Tables -> [Index -> Entries]], left : SUBSET Frames]
Paths == Index \X Index \X Index \X Index

Present(s, t, i) == s.table[t][i].present
IsHuge(s, t, i) == s.table[t][i].huge
To(s, t, i) == s.table[t][i].to

\* Entry i of table t leads to table u.
Leads(s, t, i, u) == Present(s, t, i) /\ ~IsHuge(s, t, i) /\ To(s, t, i) = u

\* L[t] is the level of table t, 0 if it is none.
Ranks(s, L) ==
    /\ L \in [Tables -> 0 .. 4]
    /\ \A t \in Tables : L[t] = 1 <=> t = BootPml4
    /\ L[BootPdpt] = 2 /\ L[BootPd] = 3
    /\ \A f \in Frames : L[f] = 0 <=> f \in s.left

\* Every entry of a table but the last level leads one level down, except
\* those of the boot mapping.
Descends(s, L) ==
    /\ \A t \in Tables : \A i \in Index :
          /\ L[t] \in 1 .. 3 /\ Present(s, t, i) /\ ~IsHuge(s, t, i)
                => To(s, t, i) \in Tables /\ L[To(s, t, i)] = L[t] + 1
          /\ L[t] = 4 /\ Present(s, t, i) => To(s, t, i) \in Physical
          /\ L[t] # 0 /\ IsHuge(s, t, i) => t = BootPd
    /\ \A i \in Index : IsHuge(s, BootPd, i) /\ To(s, BootPd, i) \in Physical
    /\ Leads(s, BootPml4, Boot, BootPdpt) /\ Leads(s, BootPdpt, Boot, BootPd)

\* Every table below the top is linked at one entry of the level above it.
Once(s, L) ==
    \A t, u \in Tables : \A i, j \in Index :
        (/\ L[t] \in 1 .. 3 /\ L[u] \in 1 .. 3
         /\ Present(s, t, i) /\ ~IsHuge(s, t, i)
         /\ Present(s, u, j) /\ ~IsHuge(s, u, j)
         /\ To(s, t, i) = To(s, u, j)) => t = u /\ i = j
Held(s, L) ==
    \A u \in Tables : L[u] \in 2 .. 4 =>
        \E t \in Tables : \E i \in Index : L[t] = L[u] - 1 /\ Leads(s, t, i, u)

Good(s, L) == Ranks(s, L) /\ Descends(s, L) /\ Once(s, L) /\ Held(s, L)

IInv ==
    /\ vm \in States /\ ret \in BOOLEAN
    /\ \E L : Good(vm, L)
----------------------------------------------------------------------------
\* The tables of the boot loader are three.
LEMMA BootTables ==
    /\ BootPml4 # BootPdpt /\ BootPdpt # BootPd /\ BootPml4 # BootPd
    /\ BootPml4 \in Tables /\ BootPdpt \in Tables /\ BootPd \in Tables
    /\ BootPml4 \notin Frames /\ BootPdpt \notin Frames /\ BootPd \notin Frames
    /\ Frames \subseteq Tables /\ NULL \notin Tables /\ NULL \notin Physical
<1>1. \A x : IsFiniteSet({x}) /\ Cardinality({x}) = 1
  BY FS_Singleton
<1>2. \A x, y : Cardinality({x, y}) # 3
  <2> TAKE x, y
  <2>1. CASE x = y
    <3>1. {x, y} = {x}
      BY <2>1
    <3>2. Cardinality({x}) # 3
      BY <1>1
    <3> QED
      BY <3>1, <3>2, Zenon
  <2>2. CASE x # y
    <3>1. {x, y} = {x} \cup {y} /\ y \notin {x}
      BY <2>2
    <3>2. Cardinality({x} \cup {y}) = Cardinality({x}) + 1
      BY <1>1, <3>1, FS_AddElement
    <3>3. Cardinality({x} \cup {y}) # 3
      BY <1>1, <3>2
    <3> QED
      BY <3>1, <3>3, Zenon
  <2> QED
    BY <2>1, <2>2
<1>3. Cardinality({BootPml4, BootPdpt, BootPd}) = 3
  BY BootAssumption
<1>4. BootPml4 # BootPdpt
  <2> SUFFICES ASSUME BootPml4 = BootPdpt PROVE FALSE
    OBVIOUS
  <2>1. {BootPml4, BootPdpt, BootPd} = {BootPdpt, BootPd}
    OBVIOUS
  <2>2. Cardinality({BootPdpt, BootPd}) = 3
    BY <1>3, <2>1, Zenon
  <2> QED
    BY <1>2, <2>2, Zenon
<1>5. BootPdpt # BootPd
  <2> SUFFICES ASSUME BootPdpt = BootPd PROVE FALSE
    OBVIOUS
  <2>1. {BootPml4, BootPdpt, BootPd} = {BootPml4, BootPdpt}
    OBVIOUS
  <2>2. Cardinality({BootPml4, BootPdpt}) = 3
    BY <1>3, <2>1, Zenon
  <2> QED
    BY <1>2, <2>2, Zenon
<1>6. BootPml4 # BootPd
  <2> SUFFICES ASSUME BootPml4 = BootPd PROVE FALSE
    OBVIOUS
  <2>1. {BootPml4, BootPdpt, BootPd} = {BootPml4, BootPdpt}
    OBVIOUS
  <2>2. Cardinality({BootPml4, BootPdpt}) = 3
    BY <1>3, <2>1, Zenon
  <2> QED
    BY <1>2, <2>2, Zenon
<1> QED
  BY <1>4, <1>5, <1>6, BootAssumption DEF Tables

\* What an entry can be.
LEMMA EntryShape ==
    /\ Absent \in Entries
    /\ \A p \in Tables \cup Physical : Link(p) \in Entries
    /\ \A p \in Physical : Huge(p) \in Entries
    /\ Absent.present = FALSE /\ Absent.huge = FALSE /\ Absent.to = NULL
    /\ \A p : Link(p).present = TRUE /\ Link(p).huge = FALSE /\ Link(p).to = p
    /\ \A p : Huge(p).present = TRUE /\ Huge(p).huge = TRUE /\ Huge(p).to = p
    /\ \A e \in Entries : ~e.present => e = Absent
    /\ \A e \in Entries : ~e.present => ~e.huge /\ e.to = NULL
    /\ \A e \in Entries : e.present => e.to # NULL
<1>1. /\ Absent \in Entries
      /\ \A p \in Tables \cup Physical : Link(p) \in Entries
      /\ \A p \in Physical : Huge(p) \in Entries
  BY DEF Entries
<1>2. /\ Absent.present = FALSE /\ Absent.huge = FALSE /\ Absent.to = NULL
      /\ \A p : Link(p).present = TRUE /\ Link(p).huge = FALSE /\ Link(p).to = p
      /\ \A p : Huge(p).present = TRUE /\ Huge(p).huge = TRUE /\ Huge(p).to = p
  BY DEF Absent, Link, Huge
<1>3. \A e \in Entries : \/ e = Absent
                         \/ \E p \in Tables \cup Physical : e = Link(p)
                         \/ \E p \in Physical : e = Huge(p)
  BY DEF Entries
<1>4. ASSUME NEW e \in Entries
      PROVE  /\ ~e.present => e = Absent
             /\ ~e.present => ~e.huge /\ e.to = NULL
             /\ e.present => e.to # NULL
  BY <1>2, <1>3, BootTables
<1> QED
  BY <1>1, <1>2, <1>4

\* The entries of a state.
LEMMA Typed ==
    ASSUME NEW s \in States, NEW t \in Tables, NEW i \in Index
    PROVE  /\ s.table[t][i] \in Entries
           /\ ~Present(s, t, i) =>
                 s.table[t][i] = Absent /\ ~IsHuge(s, t, i) /\ To(s, t, i) = NULL
           /\ Present(s, t, i) => To(s, t, i) # NULL
<1>1. s.table[t][i] \in Entries
  BY DEF States
<1> QED
  BY <1>1, EntryShape DEF Present, IsHuge, To
----------------------------------------------------------------------------
\* How vmm_resolve can come to its answer r: it stops at an entry that is
\* not present, at a huge page, or at an entry of the last level.
Resolved(s, v, r) ==
    \/ ~Present(s, BootPml4, v[1]) /\ r = NULL
    \/ \E a \in Tables :
          /\ Leads(s, BootPml4, v[1], a)
          /\ \/ ~Present(s, a, v[2]) /\ r = NULL
             \/ \E b \in Tables :
                   /\ Leads(s, a, v[2], b)
                   /\ \/ IsHuge(s, b, v[3]) /\ r = To(s, b, v[3])
                      \/ ~Present(s, b, v[3]) /\ r = NULL
                      \/ \E c \in Tables : /\ Leads(s, b, v[3], c)
                                           /\ r = To(s, c, v[4])

\* The levels met on the way.
LEMMA LevelsDown ==
    ASSUME NEW s \in States, NEW L, Good(s, L), NEW v \in Paths
    PROVE  /\ v[1] \in Index /\ v[2] \in Index /\ v[3] \in Index /\ v[4] \in Index
           /\ BootPml4 \in Tables /\ L[BootPml4] = 1
           /\ Present(s, BootPml4, v[1]) =>
                 \E a \in Tables : Leads(s, BootPml4, v[1], a)
           /\ \A a \in Tables : Leads(s, BootPml4, v[1], a) =>
                 /\ L[a] = 2
                 /\ Present(s, a, v[2]) => \E b \in Tables : Leads(s, a, v[2], b)
           /\ \A a, b \in Tables : L[a] = 2 /\ Leads(s, a, v[2], b) =>
                 /\ L[b] = 3
                 /\ Present(s, b, v[3]) /\ ~IsHuge(s, b, v[3]) =>
                       \E c \in Tables : Leads(s, b, v[3], c)
           /\ \A b, c \in Tables : L[b] = 3 /\ Leads(s, b, v[3], c) => L[c] = 4
<1>1. v[1] \in Index /\ v[2] \in Index /\ v[3] \in Index /\ v[4] \in Index
  BY DEF Paths
<1>2. BootPml4 \in Tables /\ L[BootPml4] = 1 /\ L[BootPd] = 3
  BY BootTables DEF Good, Ranks
<1>3. \A t \in Tables : L[t] \in 0 .. 4
  BY DEF Good, Ranks
<1>4. \A t \in Tables : \A i \in Index : L[t] \in {1, 2} => ~IsHuge(s, t, i)
  BY <1>2, <1>3 DEF Good, Descends
<1>5. \A t \in Tables : \A i \in Index : L[t] \in 1 .. 3 /\ Present(s, t, i) /\ ~IsHuge(s, t, i)
          => To(s, t, i) \in Tables /\ L[To(s, t, i)] = L[t] + 1
  BY DEF Good, Descends
<1>6. \A t, u \in Tables : \A i \in Index : L[t] \in 1 .. 3 /\ Leads(s, t, i, u) => L[u] = L[t] + 1
  BY <1>5 DEF Leads
<1>7. \A t \in Tables : \A i \in Index : L[t] \in 1 .. 3 /\ Present(s, t, i) /\ ~IsHuge(s, t, i)
          => \E u \in Tables : Leads(s, t, i, u)
  BY <1>5 DEF Leads
<1>8. Present(s, BootPml4, v[1]) => \E a \in Tables : Leads(s, BootPml4, v[1], a)
  BY <1>1, <1>2, <1>4, <1>7
<1>9. \A a \in Tables : Leads(s, BootPml4, v[1], a) => L[a] = 2
  BY <1>1, <1>2, <1>6
<1>10. \A a \in Tables : L[a] = 2 /\ Present(s, a, v[2]) => \E b \in Tables : Leads(s, a, v[2], b)
  BY <1>1, <1>4, <1>7
<1>11. \A a, b \in Tables : L[a] = 2 /\ Leads(s, a, v[2], b) => L[b] = 3
  BY <1>1, <1>6
<1>12. \A b \in Tables : L[b] = 3 /\ Present(s, b, v[3]) /\ ~IsHuge(s, b, v[3]) =>
          \E c \in Tables : Leads(s, b, v[3], c)
  BY <1>1, <1>7
<1>13. \A b, c \in Tables : L[b] = 3 /\ Leads(s, b, v[3], c) => L[c] = 4
  BY <1>1, <1>6
<1> QED
  BY <1>1, <1>2, <1>8, <1>9, <1>10, <1>11, <1>12, <1>13

\* Below, where there is a table.
LEMMA BelowIs ==
    ASSUME NEW s \in States, NEW t \in Tables, NEW i \in Index
    PROVE  /\ ~Present(s, t, i) => Below(s, t, i) = NULL
           /\ Present(s, t, i) => Below(s, t, i) = To(s, t, i)
           /\ Below(s, t, i) = To(s, t, i)
           /\ Below(s, NULL, i) = NULL
  BY BootTables, Typed DEF Below, Present, To

\* vmm_resolve gives the one answer there is.
LEMMA ResolveIs ==
    ASSUME NEW s \in States, NEW L, Good(s, L), NEW v \in Paths, NEW r
    PROVE  Resolved(s, v, r) <=> r = vmm_resolve(s, v)
<1>1. /\ v[1] \in Index /\ v[2] \in Index /\ v[3] \in Index /\ v[4] \in Index
      /\ BootPml4 \in Tables /\ NULL \notin Tables
  BY LevelsDown, BootTables
<1>2. CASE ~Present(s, BootPml4, v[1])
  <2>1. PdOf(s, v) = NULL
    BY <1>1, <1>2, BelowIs DEF PdOf
  <2>2. vmm_resolve(s, v) = NULL
    BY <2>1, EntryShape DEF vmm_resolve
  <2> QED
    BY <1>2, <2>2 DEF Resolved, Leads
<1>3. ASSUME NEW a \in Tables, Leads(s, BootPml4, v[1], a)
      PROVE  Resolved(s, v, r) <=> r = vmm_resolve(s, v)
  <2>1. PdOf(s, v) = To(s, a, v[2])
    BY <1>1, <1>3, BelowIs DEF PdOf, Leads
  <2>2. \A x : Leads(s, BootPml4, v[1], x) => x = a
    BY <1>3 DEF Leads
  <2>3. CASE ~Present(s, a, v[2])
    <3>1. PdOf(s, v) = NULL
      BY <1>1, <2>1, <2>3, Typed
    <3>2. vmm_resolve(s, v) = NULL
      BY <3>1, EntryShape DEF vmm_resolve
    <3> QED
      BY <1>3, <2>2, <2>3, <3>2 DEF Resolved, Leads
  <2>4. ASSUME NEW b \in Tables, Leads(s, a, v[2], b)
        PROVE  Resolved(s, v, r) <=> r = vmm_resolve(s, v)
    <3>1. PdOf(s, v) = b /\ b # NULL
      BY <1>1, <2>1, <2>4 DEF Leads
    <3>2. \A x : Leads(s, a, v[2], x) => x = b
      BY <2>4 DEF Leads
    <3>3. vmm_resolve(s, v) = IF IsHuge(s, b, v[3]) THEN To(s, b, v[3])
                              ELSE IF ~Present(s, b, v[3]) THEN NULL
                              ELSE Below(s, To(s, b, v[3]), v[4])
      BY <3>1 DEF vmm_resolve, IsHuge, To, Present
    <3>4. Resolved(s, v, r) <=> \/ IsHuge(s, b, v[3]) /\ r = To(s, b, v[3])
                                \/ ~Present(s, b, v[3]) /\ r = NULL
                                \/ \E c \in Tables : /\ Leads(s, b, v[3], c)
                                                     /\ r = To(s, c, v[4])
      BY <1>3, <2>2, <2>4, <3>2 DEF Resolved, Leads
    <3>5. CASE IsHuge(s, b, v[3])
      <4>1. Present(s, b, v[3])
        BY <1>1, <3>5, Typed
      <4> QED
        BY <3>3, <3>4, <3>5, <4>1 DEF Leads
    <3>6. CASE ~Present(s, b, v[3])
      <4>1. ~IsHuge(s, b, v[3])
        BY <1>1, <3>6, Typed
      <4> QED
        BY <3>3, <3>4, <3>6, <4>1 DEF Leads
    <3>7. CASE Present(s, b, v[3]) /\ ~IsHuge(s, b, v[3])
      <4>1. PICK c \in Tables : Leads(s, b, v[3], c)
        BY <1>3, <2>4, <3>7, LevelsDown
      <4>2. To(s, b, v[3]) = c /\ \A x : Leads(s, b, v[3], x) => x = c
        BY <4>1 DEF Leads
      <4>3. Below(s, c, v[4]) = To(s, c, v[4])
        BY <1>1, BelowIs
      <4>4. vmm_resolve(s, v) = To(s, c, v[4])
        BY <3>3, <3>7, <4>2, <4>3
      <4>5. Resolved(s, v, r) <=> r = To(s, c, v[4])
        BY <3>4, <3>7, <4>1, <4>2
      <4> QED
        BY <4>4, <4>5
    <3> QED
      BY <3>5, <3>6, <3>7
  <2> QED
    BY <1>3, <2>3, <2>4, LevelsDown
<1> QED
  BY <1>2, <1>3, LevelsDown
----------------------------------------------------------------------------
\* The state in which page f has become the table of entry i of t.
Alloc(s, t, i, f) ==
    [table |-> [s.table EXCEPT ![t][i] = Link(f), ![f] = NewTable], left |-> s.left \ {f}]

\* Its entries.
LEMMA AllocFields ==
    ASSUME NEW s \in States, NEW t \in Tables, NEW i \in Index, NEW f \in s.left, f # t
    PROVE  LET g == Alloc(s, t, i, f)
           IN  /\ g \in States
               /\ g.left = s.left \ {f}
               /\ \A j \in Index : g.table[f][j] = Absent
               /\ g.table[t][i] = Link(f)
               /\ \A u \in Tables : \A j \in Index :
                     u # f /\ ~(u = t /\ j = i) => g.table[u][j] = s.table[u][j]
<1> DEFINE g == Alloc(s, t, i, f)
           T == [s.table EXCEPT ![t] = [s.table[t] EXCEPT ![i] = Link(f)], ![f] = NewTable]
<1>1. f \in Frames /\ f \in Tables /\ s.left \ {f} \in SUBSET Frames
  BY DEF States, Tables
<1>2. s.table \in [Tables -> [Index -> Entries]] /\ s.table[t] \in [Index -> Entries]
  BY DEF States
<1>3. Link(f) \in Entries /\ Absent \in Entries
  BY <1>1, EntryShape
<1>4. /\ NewTable \in [Index -> Entries] /\ \A j \in Index : NewTable[j] = Absent
      /\ [s.table[t] EXCEPT ![i] = Link(f)] \in [Index -> Entries]
  BY <1>2, <1>3 DEF NewTable
<1>5. g = [table |-> T, left |-> s.left \ {f}]
  BY <1>2 DEF Alloc
<1>6. T \in [Tables -> [Index -> Entries]]
  BY <1>1, <1>2, <1>4
<1>7. /\ T[f] = NewTable
      /\ T[t] = [s.table[t] EXCEPT ![i] = Link(f)]
      /\ \A u \in Tables : u # f /\ u # t => T[u] = s.table[u]
  BY <1>1, <1>2
<1> HIDE DEF T
<1>8. g \in States /\ g.table = T /\ g.left = s.left \ {f}
  BY <1>1, <1>5, <1>6 DEF States
<1> HIDE DEF g
<1>9. \A j \in Index : g.table[f][j] = Absent
  BY <1>4, <1>7, <1>8
<1>10. g.table[t][i] = Link(f)
  BY <1>2, <1>7, <1>8
<1>11. \A j \in Index : j # i => g.table[t][j] = s.table[t][j]
  BY <1>2, <1>7, <1>8
<1>12. \A u \in Tables : \A j \in Index :
          u # f /\ ~(u = t /\ j = i) => g.table[u][j] = s.table[u][j]
  BY <1>7, <1>8, <1>11
<1> QED
  BY <1>8, <1>9, <1>10, <1>12 DEF g

\* The entries of g are those of s, except that entry i of t, which was not
\* present, leads to the empty table f.
Extended(s, g, t, i, f) ==
    /\ g.left = s.left \ {f}
    /\ \A j \in Index : ~Present(g, f, j) /\ ~IsHuge(g, f, j) /\ To(g, f, j) = NULL
    /\ ~Present(s, t, i) /\ Leads(g, t, i, f)
    /\ \A u \in Tables : \A j \in Index : u # f /\ ~(u = t /\ j = i) =>
          /\ Present(g, u, j) <=> Present(s, u, j)
          /\ IsHuge(g, u, j) <=> IsHuge(s, u, j)
          /\ To(g, u, j) = To(s, u, j)

\* A new table is one.
LEMMA AllocExtends ==
    ASSUME NEW s \in States, NEW t \in Tables, NEW i \in Index, NEW f \in s.left, f # t,
           ~Present(s, t, i)
    PROVE  Alloc(s, t, i, f) \in States /\ Extended(s, Alloc(s, t, i, f), t, i, f)
<1> DEFINE g == Alloc(s, t, i, f)
<1>1. /\ g \in States
      /\ g.left = s.left \ {f}
      /\ \A j \in Index : g.table[f][j] = Absent
      /\ g.table[t][i] = Link(f)
      /\ \A u \in Tables : \A j \in Index :
            u # f /\ ~(u = t /\ j = i) => g.table[u][j] = s.table[u][j]
  BY AllocFields
<1> HIDE DEF g
<1>2. \A j \in Index : ~Present(g, f, j) /\ ~IsHuge(g, f, j) /\ To(g, f, j) = NULL
  BY <1>1, EntryShape DEF Present, IsHuge, To
<1>3. Leads(g, t, i, f)
  BY <1>1, EntryShape DEF Leads, Present, IsHuge, To
<1>4. \A u \in Tables : \A j \in Index : u # f /\ ~(u = t /\ j = i) =>
          /\ Present(g, u, j) <=> Present(s, u, j)
          /\ IsHuge(g, u, j) <=> IsHuge(s, u, j)
          /\ To(g, u, j) = To(s, u, j)
  BY <1>1 DEF Present, IsHuge, To
<1> QED
  BY <1>1, <1>2, <1>3, <1>4 DEF Extended, g

\* The tables stay a tree.
LEMMA ExtendedGood ==
    ASSUME NEW s \in States, NEW L, Good(s, L), NEW t \in Tables, L[t] \in 1 .. 3,
           NEW i \in Index, NEW f \in s.left,
           NEW g \in States, Extended(s, g, t, i, f)
    PROVE  Good(g, [L EXCEPT ![f] = L[t] + 1])
<1> DEFINE M == [L EXCEPT ![f] = L[t] + 1]
<1>1. f \in Frames /\ f \in Tables /\ L[f] = 0 /\ f # t
  BY BootTables DEF States, Good, Ranks
<1>2. L \in [Tables -> 0 .. 4] /\ L[t] \in Nat /\ t # BootPd
  <2>1. t # BootPd
    <3>1. IsHuge(s, BootPd, i) /\ ~Present(s, t, i)
      BY DEF Good, Descends, Extended
    <3> QED
      BY <3>1, Typed
  <2> QED
    BY <2>1 DEF Good, Ranks
<1>3. M \in [Tables -> 0 .. 4] /\ M[f] = L[t] + 1 /\ \A u \in Tables : u # f => M[u] = L[u]
  BY <1>1, <1>2
<1> HIDE DEF M
<1>4. \A u \in Tables : L[u] # 0 => u # f /\ M[u] = L[u]
  BY <1>1, <1>3
<1>5. BootPml4 # f /\ BootPdpt # f /\ BootPd # f
  BY <1>1, BootTables
<1>6. Ranks(g, M)
  <2>1. \A u \in Tables : M[u] = 1 <=> u = BootPml4
    <3>1. M[f] # 1 /\ f # BootPml4
      BY <1>2, <1>3, <1>5
    <3> QED
      BY <1>3, <3>1 DEF Good, Ranks
  <2>2. M[BootPdpt] = 2 /\ M[BootPd] = 3
    BY <1>3, <1>5, BootTables DEF Good, Ranks
  <2>3. \A e \in Frames : M[e] = 0 <=> e \in g.left
    <3>1. M[f] # 0 /\ f \notin g.left
      BY <1>2, <1>3 DEF Extended
    <3> QED
      BY <1>3, <3>1, BootTables DEF Good, Ranks, Extended
  <2> QED
    BY <1>3, <2>1, <2>2, <2>3 DEF Ranks
\* Entries of g in tables that count: those of s, the new one, none in f.
<1>7. \A u \in Tables : \A j \in Index : Present(g, u, j) =>
          \/ u = t /\ j = i /\ To(g, u, j) = f /\ ~IsHuge(g, u, j)
          \/ /\ u # f /\ ~(u = t /\ j = i) /\ Present(s, u, j)
             /\ (IsHuge(g, u, j) <=> IsHuge(s, u, j)) /\ To(g, u, j) = To(s, u, j)
             /\ M[u] = L[u]
  BY <1>3 DEF Extended, Leads
<1>8. \A u \in Tables : \A j \in Index : Present(s, u, j) /\ u # f =>
          /\ ~(u = t /\ j = i) /\ Present(g, u, j) /\ To(g, u, j) = To(s, u, j)
          /\ (IsHuge(g, u, j) <=> IsHuge(s, u, j))
  BY DEF Extended
<1>9. Descends(g, M)
  <2>1. ASSUME NEW u \in Tables, NEW j \in Index, M[u] \in 1 .. 3, Present(g, u, j), ~IsHuge(g, u, j)
        PROVE  To(g, u, j) \in Tables /\ M[To(g, u, j)] = M[u] + 1
    <3>1. CASE u = t /\ j = i /\ To(g, u, j) = f
      BY <1>1, <1>3, <3>1
    <3>2. CASE /\ u # f /\ Present(s, u, j) /\ ~IsHuge(s, u, j)
               /\ To(g, u, j) = To(s, u, j) /\ M[u] = L[u]
      <4>1. To(s, u, j) \in Tables /\ L[To(s, u, j)] = L[u] + 1
        BY <2>1, <3>2 DEF Good, Descends
      <4>2. L[To(s, u, j)] # 0
        BY <2>1, <3>2, <4>1
      <4> QED
        BY <1>4, <3>2, <4>1, <4>2
    <3> QED
      BY <1>7, <2>1, <3>1, <3>2
  <2>2. ASSUME NEW u \in Tables, NEW j \in Index, M[u] = 4, Present(g, u, j)
        PROVE  To(g, u, j) \in Physical
    <3>1. ~(u = t /\ j = i)
      BY <1>1, <1>2, <1>3, <2>2
    <3> QED
      BY <1>7, <2>2, <3>1 DEF Good, Descends
  <2>3. ASSUME NEW u \in Tables, NEW j \in Index, M[u] # 0, IsHuge(g, u, j)
        PROVE  u = BootPd
    <3>1. Present(g, u, j)
      BY <2>3, Typed
    <3> QED
      BY <1>7, <2>3, <3>1 DEF Good, Descends
  <2>4. \A j \in Index : IsHuge(g, BootPd, j) /\ To(g, BootPd, j) \in Physical
    <3> TAKE j \in Index
    <3>1. IsHuge(s, BootPd, j) /\ To(s, BootPd, j) \in Physical
      BY DEF Good, Descends
    <3> QED
      BY <1>2, <1>5, <3>1, BootTables DEF Extended
  <2>5. Leads(g, BootPml4, Boot, BootPdpt) /\ Leads(g, BootPdpt, Boot, BootPd)
    <3>1. Leads(s, BootPml4, Boot, BootPdpt) /\ Leads(s, BootPdpt, Boot, BootPd)
      BY DEF Good, Descends
    <3> QED
      BY <1>5, <1>8, <3>1, BootTables, BootAssumption DEF Leads
  <2> QED
    BY <2>1, <2>2, <2>3, <2>4, <2>5 DEF Descends
<1>10. Once(g, M)
  <2> SUFFICES ASSUME NEW u \in Tables, NEW x \in Tables, NEW j \in Index, NEW k \in Index,
                      M[u] \in 1 .. 3, M[x] \in 1 .. 3,
                      Present(g, u, j), ~IsHuge(g, u, j),
                      Present(g, x, k), ~IsHuge(g, x, k), To(g, u, j) = To(g, x, k)
               PROVE  u = x /\ j = k
    BY DEF Once
  <2>1. \A y \in Tables : \A l \in Index :
           (/\ Present(s, y, l) /\ ~IsHuge(s, y, l) /\ L[y] \in 1 .. 3) => To(s, y, l) # f
    <3> SUFFICES ASSUME NEW y \in Tables, NEW l \in Index,
                        Present(s, y, l), ~IsHuge(s, y, l), L[y] \in 1 .. 3
                 PROVE  To(s, y, l) # f
      OBVIOUS
    <3>1. L[To(s, y, l)] = L[y] + 1
      BY DEF Good, Descends
    <3>2. L[To(s, y, l)] # 0
      BY <3>1
    <3> QED
      BY <1>1, <3>2
  <2>2. CASE u = t /\ j = i
    <3>1. To(g, u, j) = f
      BY <2>2 DEF Extended, Leads
    <3> QED
      BY <1>7, <2>1, <2>2, <3>1
  <2>3. CASE x = t /\ k = i
    <3>1. To(g, x, k) = f
      BY <2>3 DEF Extended, Leads
    <3> QED
      BY <1>7, <2>1, <2>3, <3>1
  <2>4. CASE ~(u = t /\ j = i) /\ ~(x = t /\ k = i)
    <3>1. /\ Present(s, u, j) /\ ~IsHuge(s, u, j) /\ L[u] \in 1 .. 3
          /\ Present(s, x, k) /\ ~IsHuge(s, x, k) /\ L[x] \in 1 .. 3
          /\ To(s, u, j) = To(s, x, k)
      BY <1>7, <2>4
    <3> QED
      BY <3>1 DEF Good, Once
  <2> QED
    BY <2>2, <2>3, <2>4
<1>11. Held(g, M)
  <2> SUFFICES ASSUME NEW u \in Tables, M[u] \in 2 .. 4
               PROVE  \E x \in Tables : \E j \in Index : M[x] = M[u] - 1 /\ Leads(g, x, j, u)
    BY DEF Held
  <2>1. CASE u = f
    <3>1. M[t] = M[u] - 1 /\ Leads(g, t, i, u)
      BY <1>1, <1>2, <1>3, <2>1 DEF Extended
    <3> QED
      BY <3>1
  <2>2. CASE u # f
    <3>1. M[u] = L[u]
      BY <1>3, <2>2
    <3>2. PICK x \in Tables, j \in Index : L[x] = L[u] - 1 /\ Leads(s, x, j, u)
      BY <3>1 DEF Good, Held
    <3>3. L[x] # 0
      BY <3>1, <3>2
    <3>4. M[x] = M[u] - 1 /\ x # f
      BY <1>4, <3>1, <3>2, <3>3
    <3>5. Leads(g, x, j, u)
      BY <1>8, <3>2, <3>4 DEF Leads
    <3> QED
      BY <3>4, <3>5
  <2> QED
    BY <2>1, <2>2
<1> QED
  BY <1>6, <1>9, <1>10, <1>11 DEF Good, M

\* No answer of vmm_resolve changes: the new table is empty.
LEMMA ExtendedSame ==
    ASSUME NEW s \in States, NEW L, Good(s, L), NEW t \in Tables, L[t] \in 1 .. 3,
           NEW i \in Index, NEW f \in s.left,
           NEW g \in States, Extended(s, g, t, i, f), NEW v \in Paths
    PROVE  vmm_resolve(g, v) = vmm_resolve(s, v)
<1> DEFINE r == vmm_resolve(s, v)
<1>1. Resolved(s, v, r)
  BY ResolveIs
<1>2. \E M : Good(g, M)
  BY ExtendedGood
<1>3. /\ v[1] \in Index /\ v[2] \in Index /\ v[3] \in Index /\ v[4] \in Index
      /\ BootPml4 \in Tables /\ L[BootPml4] = 1
  BY LevelsDown
<1>4. f \in Tables /\ L[f] = 0
  BY BootTables DEF States, Good, Ranks
<1>5. \A u, x \in Tables : \A j \in Index : u # f /\ Leads(s, u, j, x) => Leads(g, u, j, x)
  BY DEF Extended, Leads
<1>6. \A u \in Tables : \A j \in Index : u # f /\ ~Present(s, u, j) =>
          ~Present(g, u, j) \/ (Leads(g, u, j, f) /\ u = t /\ j = i)
  BY DEF Extended
<1>7. \A j \in Index : ~Present(g, f, j) /\ To(g, f, j) = NULL
  BY DEF Extended
<1> HIDE DEF r
<1>8. Resolved(g, v, r)
  <2>1. CASE ~Present(s, BootPml4, v[1]) /\ r = NULL
    <3>1. BootPml4 # f
      BY <1>3, <1>4
    <3> QED
      BY <1>3, <1>4, <1>6, <1>7, <2>1, <3>1 DEF Resolved
  <2>2. ASSUME NEW a \in Tables, Leads(s, BootPml4, v[1], a),
               ~Present(s, a, v[2]), r = NULL
        PROVE  Resolved(g, v, r)
    <3>1. BootPml4 # f /\ a # f /\ L[a] = 2
      BY <1>3, <1>4, <2>2, LevelsDown
    <3>2. Leads(g, BootPml4, v[1], a)
      BY <1>3, <1>5, <2>2, <3>1
    <3>3. ~Present(g, a, v[2]) \/ Leads(g, a, v[2], f)
      BY <1>3, <1>6, <2>2, <3>1
    <3>4. ~Present(g, f, v[3])
      BY <1>3, <1>7
    <3> QED
      BY <1>4, <2>2, <3>2, <3>3, <3>4 DEF Resolved
  <2>3. ASSUME NEW a \in Tables, Leads(s, BootPml4, v[1], a),
               NEW b \in Tables, Leads(s, a, v[2], b),
               \/ IsHuge(s, b, v[3]) /\ r = To(s, b, v[3])
               \/ ~Present(s, b, v[3]) /\ r = NULL
               \/ \E x \in Tables : Leads(s, b, v[3], x) /\ r = To(s, x, v[4])
        PROVE  Resolved(g, v, r)
    <3>1. BootPml4 # f /\ a # f /\ L[a] = 2
      BY <1>3, <1>4, <2>3, LevelsDown
    <3>2. b # f /\ L[b] = 3
      BY <1>4, <2>3, <3>1, LevelsDown
    <3>3. Leads(g, BootPml4, v[1], a) /\ Leads(g, a, v[2], b)
      BY <1>3, <1>5, <2>3, <3>1
    <3>4. CASE IsHuge(s, b, v[3]) /\ r = To(s, b, v[3])
      <4>1. Present(s, b, v[3])
        BY <1>3, <3>4, Typed
      <4>2. IsHuge(g, b, v[3]) /\ To(g, b, v[3]) = r
        BY <1>3, <3>2, <3>4, <4>1 DEF Extended
      <4> QED
        BY <3>3, <4>2 DEF Resolved
    <3>5. CASE ~Present(s, b, v[3]) /\ r = NULL
      <4>1. ~Present(g, b, v[3]) \/ Leads(g, b, v[3], f)
        BY <1>3, <1>6, <3>2, <3>5
      <4>2. To(g, f, v[4]) = NULL
        BY <1>3, <1>7
      <4> QED
        BY <1>4, <3>3, <3>5, <4>1, <4>2 DEF Resolved
    <3>6. ASSUME NEW x \in Tables, Leads(s, b, v[3], x), r = To(s, x, v[4])
          PROVE  Resolved(g, v, r)
      <4>1. L[x] = 4 /\ x # f
        BY <1>4, <3>2, <3>6, LevelsDown
      <4>2. Leads(g, b, v[3], x)
        BY <1>3, <1>5, <3>2, <3>6
      <4>3. x # t
        BY <4>1
      <4>4. To(g, x, v[4]) = r
        BY <1>3, <3>6, <4>1, <4>3 DEF Extended
      <4> QED
        BY <3>3, <4>2, <4>4 DEF Resolved
    <3> QED
      BY <2>3, <3>4, <3>5, <3>6
  <2> QED
    BY <1>1, <2>1, <2>2, <2>3 DEF Resolved
<1>9. r = vmm_resolve(g, v)
  BY <1>2, <1>8, ResolveIs
<1> QED
  BY <1>9 DEF r
----------------------------------------------------------------------------
\* What a walk may do on its way: it adds tables, moves none, and no page
\* is mapped elsewhere for it.
Grown(s, L, g, M) ==
    /\ g \in States /\ Good(g, M)
    /\ \A u \in Tables : L[u] # 0 => M[u] = L[u]
    /\ \A u, x \in Tables : \A j \in Index : L[u] # 0 /\ Leads(s, u, j, x) => Leads(g, u, j, x)
    /\ \A v \in Paths : vmm_resolve(g, v) = vmm_resolve(s, v)

\* One walk after the other.
LEMMA GrownTwice ==
    ASSUME NEW s, NEW L, NEW g, NEW M, NEW h, NEW N, Grown(s, L, g, M), Grown(g, M, h, N)
    PROVE  Grown(s, L, h, N)
  BY DEF Grown

\* table_walk_alloc (vmm.c:14) fails and changes nothing, or ends at a table
\* of the next level, old or new.
LEMMA WalkGood ==
    ASSUME NEW s \in States, NEW L, Good(s, L), NEW t \in Tables, L[t] \in 1 .. 3,
           NEW i \in Index, ~IsHuge(s, t, i), NEW w \in table_walk_alloc(s, t, i)
    PROVE  /\ w = [s |-> w.s, t |-> w.t]
           /\ \E M : /\ Grown(s, L, w.s, M)
                     /\ w.t # NULL => /\ w.t \in Tables /\ M[w.t] = L[t] + 1
                                      /\ Leads(w.s, t, i, w.t)
<1>1. Grown(s, L, s, L)
  BY DEF Grown
<1>2. CASE Present(s, t, i)
  <2>1. w = [s |-> s, t |-> To(s, t, i)]
    BY <1>2 DEF table_walk_alloc, Present, To
  <2>2. w.s = s /\ w.t = To(s, t, i) /\ w = [s |-> w.s, t |-> w.t]
    BY <2>1
  <2>3. To(s, t, i) \in Tables /\ L[To(s, t, i)] = L[t] + 1
    BY <1>2 DEF Good, Descends
  <2>4. Leads(s, t, i, To(s, t, i))
    BY <1>2 DEF Leads
  <2> QED
    BY <1>1, <2>2, <2>3, <2>4
<1>3. CASE ~Present(s, t, i)
  <2>1. w = [s |-> s, t |-> NULL] \/ \E f \in s.left : w = [s |-> Alloc(s, t, i, f), t |-> f]
    BY <1>3 DEF table_walk_alloc, Present, Alloc
  <2>2. CASE w = [s |-> s, t |-> NULL]
    <3>1. w.s = s /\ w.t = NULL /\ w = [s |-> w.s, t |-> w.t]
      BY <2>2
    <3> QED
      BY <1>1, <3>1
  <2>3. ASSUME NEW f \in s.left, w = [s |-> Alloc(s, t, i, f), t |-> f]
        PROVE  /\ w = [s |-> w.s, t |-> w.t]
               /\ \E M : /\ Grown(s, L, w.s, M)
                         /\ w.t # NULL => /\ w.t \in Tables /\ M[w.t] = L[t] + 1
                                          /\ Leads(w.s, t, i, w.t)
    <3> DEFINE g == Alloc(s, t, i, f)
               M == [L EXCEPT ![f] = L[t] + 1]
    <3>1. w.s = g /\ w.t = f /\ w = [s |-> w.s, t |-> w.t]
      BY <2>3
    <3>2. f \in Tables /\ L[f] = 0 /\ f # t
      BY BootTables DEF States, Good, Ranks
    <3>3. g \in States /\ Extended(s, g, t, i, f)
      BY <1>3, <3>2, AllocExtends
    <3> HIDE DEF g
    <3>4. Good(g, M)
      BY <3>3, ExtendedGood
    <3>5. M[f] = L[t] + 1 /\ \A u \in Tables : L[u] # 0 => M[u] = L[u]
      BY <3>2 DEF Good, Ranks
    <3> HIDE DEF M
    <3>6. \A u, x \in Tables : \A j \in Index :
             L[u] # 0 /\ Leads(s, u, j, x) => Leads(g, u, j, x)
      BY <3>2, <3>3 DEF Extended, Leads
    <3>7. \A v \in Paths : vmm_resolve(g, v) = vmm_resolve(s, v)
      BY <3>3, ExtendedSame
    <3>8. Grown(s, L, g, M) /\ Leads(g, t, i, f)
      BY <3>3, <3>4, <3>5, <3>6, <3>7 DEF Grown, Extended
    <3> QED
      BY <3>1, <3>2, <3>5, <3>8
  <2> QED
    BY <2>1, <2>2, <2>3
<1> QED
  BY <1>2, <1>3
----------------------------------------------------------------------------
\* An entry of the last level is written.
Put(s, t, k, e) == [s EXCEPT !.table[t][k] = e]

\* The path v leads through a and b to the table t of the last level.
Route(s, v, a, b, t) ==
    Leads(s, BootPml4, v[1], a) /\ Leads(s, a, v[2], b) /\ Leads(s, b, v[3], t)

Written(s, g, t, k, e) ==
    /\ g.left = s.left
    /\ g.table[t][k] = e
    /\ \A u \in Tables : \A j \in Index : ~(u = t /\ j = k) => g.table[u][j] = s.table[u][j]

\* Its entries.
LEMMA PutFields ==
    ASSUME NEW s \in States, NEW t \in Tables, NEW k \in Index, NEW e \in Entries
    PROVE  Put(s, t, k, e) \in States /\ Written(s, Put(s, t, k, e), t, k, e)
<1> DEFINE g == Put(s, t, k, e)
           T == [s.table EXCEPT ![t] = [s.table[t] EXCEPT ![k] = e]]
<1>1. s.table \in [Tables -> [Index -> Entries]] /\ s.table[t] \in [Index -> Entries]
  BY DEF States
<1>2. g = [s EXCEPT !.table = T]
  BY <1>1 DEF Put, States
<1>3. T \in [Tables -> [Index -> Entries]]
  BY <1>1
<1>4. /\ T[t] = [s.table[t] EXCEPT ![k] = e]
      /\ \A u \in Tables : u # t => T[u] = s.table[u]
  BY <1>1
<1> HIDE DEF T
<1>5. g \in States /\ g.table = T /\ g.left = s.left
  BY <1>2, <1>3 DEF States
<1> HIDE DEF g
<1>6. g.table[t][k] = e /\ \A j \in Index : j # k => g.table[t][j] = s.table[t][j]
  BY <1>1, <1>4, <1>5
<1>7. \A u \in Tables : \A j \in Index :
          ~(u = t /\ j = k) => g.table[u][j] = s.table[u][j]
  BY <1>4, <1>5, <1>6
<1> QED
  BY <1>5, <1>6, <1>7 DEF g, Written

\* Writing an entry of the last level maps the one page whose path leads
\* there, and keeps the tree.
LEMMA PutGood ==
    ASSUME NEW s \in States, NEW L, Good(s, L), NEW v \in Paths,
           NEW a \in Tables, NEW b \in Tables, NEW t \in Tables, Route(s, v, a, b, t),
           NEW e \in Entries, ~e.huge, e.present => e.to \in Physical
    PROVE  LET g == Put(s, t, v[4], e)
           IN  /\ g \in States /\ Good(g, L)
               /\ vmm_resolve(g, v) = e.to
               /\ \A u \in Paths : u # v => vmm_resolve(g, u) = vmm_resolve(s, u)
<1> DEFINE g == Put(s, t, v[4], e)
<1>1. /\ v[1] \in Index /\ v[2] \in Index /\ v[3] \in Index /\ v[4] \in Index
      /\ BootPml4 \in Tables /\ L[BootPml4] = 1
  BY LevelsDown
<1>2. L[a] = 2 /\ L[b] = 3
  BY LevelsDown DEF Route
<1>3. L[t] = 4
  BY <1>2, LevelsDown DEF Route
<1>4. /\ g \in States /\ g.left = s.left
      /\ g.table[t][v[4]] = e
      /\ \A u \in Tables : \A j \in Index :
            ~(u = t /\ j = v[4]) => g.table[u][j] = s.table[u][j]
  <2>1. g \in States /\ Written(s, g, t, v[4], e)
    BY <1>1, PutFields
  <2> QED
    BY <2>1 DEF Written
<1> HIDE DEF g
<1>5. \A u \in Tables : u # t => \A j \in Index :
         /\ Present(g, u, j) <=> Present(s, u, j)
         /\ IsHuge(g, u, j) <=> IsHuge(s, u, j)
         /\ To(g, u, j) = To(s, u, j)
         /\ \A x : Leads(g, u, j, x) <=> Leads(s, u, j, x)
  BY <1>4 DEF Present, IsHuge, To, Leads
<1>6. \A u \in Tables : L[u] # 4 => u # t
  BY <1>3
<1>7. BootPml4 # t /\ BootPdpt # t /\ BootPd # t
  BY <1>1, <1>3 DEF Good, Ranks
<1>8. \A j \in Index : ~IsHuge(g, t, j) /\ (Present(g, t, j) => To(g, t, j) \in Physical)
  <2> TAKE j \in Index
  <2>1. CASE j = v[4]
    BY <1>4, <2>1 DEF IsHuge, Present, To
  <2>2. CASE j # v[4]
    <3>1. g.table[t][j] = s.table[t][j]
      BY <1>4, <2>2
    <3>2. ~IsHuge(s, t, j) /\ (Present(s, t, j) => To(s, t, j) \in Physical)
      <4>1. L[t] # 0
        BY <1>3
      <4> QED
        BY <1>3, <1>7, <4>1 DEF Good, Descends
    <3> QED
      BY <3>1, <3>2 DEF IsHuge, Present, To
  <2> QED
    BY <2>1, <2>2
<1>9. Good(g, L)
  <2>1. Ranks(g, L)
    BY <1>4 DEF Good, Ranks
  <2>2. Descends(g, L)
    <3>1. ASSUME NEW u \in Tables, NEW j \in Index, u # t
          PROVE  /\ L[u] \in 1 .. 3 /\ Present(g, u, j) /\ ~IsHuge(g, u, j)
                      => To(g, u, j) \in Tables /\ L[To(g, u, j)] = L[u] + 1
                 /\ L[u] = 4 /\ Present(g, u, j) => To(g, u, j) \in Physical
                 /\ L[u] # 0 /\ IsHuge(g, u, j) => u = BootPd
      BY <1>5, <3>1 DEF Good, Descends
    <3>2. ASSUME NEW j \in Index
          PROVE  /\ L[t] \in 1 .. 3 /\ Present(g, t, j) /\ ~IsHuge(g, t, j)
                      => To(g, t, j) \in Tables /\ L[To(g, t, j)] = L[t] + 1
                 /\ L[t] = 4 /\ Present(g, t, j) => To(g, t, j) \in Physical
                 /\ L[t] # 0 /\ IsHuge(g, t, j) => t = BootPd
      BY <1>3, <1>8
    <3>3. \A j \in Index : IsHuge(g, BootPd, j) /\ To(g, BootPd, j) \in Physical
      BY <1>5, <1>7, BootTables DEF Good, Descends
    <3>4. Leads(g, BootPml4, Boot, BootPdpt) /\ Leads(g, BootPdpt, Boot, BootPd)
      BY <1>5, <1>7, BootTables, BootAssumption DEF Good, Descends
    <3> QED
      BY <3>1, <3>2, <3>3, <3>4 DEF Descends
  <2>3. Once(g, L)
    <3> SUFFICES ASSUME NEW u \in Tables, NEW x \in Tables, NEW j \in Index, NEW k \in Index,
                        L[u] \in 1 .. 3, L[x] \in 1 .. 3,
                        Present(g, u, j), ~IsHuge(g, u, j),
                        Present(g, x, k), ~IsHuge(g, x, k), To(g, u, j) = To(g, x, k)
                 PROVE  u = x /\ j = k
      BY DEF Once
    <3>1. u # t /\ x # t
      BY <1>3
    <3>2. /\ Present(s, u, j) /\ ~IsHuge(s, u, j)
          /\ Present(s, x, k) /\ ~IsHuge(s, x, k) /\ To(s, u, j) = To(s, x, k)
      BY <1>5, <3>1
    <3> QED
      BY <3>2 DEF Good, Once
  <2>4. Held(g, L)
    <3> SUFFICES ASSUME NEW u \in Tables, L[u] \in 2 .. 4
                 PROVE  \E x \in Tables : \E j \in Index : L[x] = L[u] - 1 /\ Leads(g, x, j, u)
      BY DEF Held
    <3>1. PICK x \in Tables, j \in Index : L[x] = L[u] - 1 /\ Leads(s, x, j, u)
      BY DEF Good, Held
    <3>2. x # t
      BY <1>3, <3>1
    <3> QED
      BY <1>5, <3>1, <3>2
  <2> QED
    BY <2>1, <2>2, <2>3, <2>4 DEF Good
<1>10. vmm_resolve(g, v) = e.to
  <2>1. Leads(g, BootPml4, v[1], a) /\ Leads(g, a, v[2], b) /\ Leads(g, b, v[3], t)
    <3>1. BootPml4 # t /\ a # t /\ b # t
      BY <1>2, <1>3, <1>7
    <3> QED
      BY <1>1, <1>5, <3>1 DEF Route
  <2>2. To(g, t, v[4]) = e.to
    BY <1>4 DEF To
  <2>3. Resolved(g, v, e.to)
    BY <2>1, <2>2 DEF Resolved
  <2> QED
    BY <1>4, <1>9, <2>3, ResolveIs
<1>11. ASSUME NEW u \in Paths, u # v PROVE vmm_resolve(g, u) = vmm_resolve(s, u)
  <2> DEFINE r == vmm_resolve(s, u)
  <2>1. Resolved(s, u, r)
    BY ResolveIs
  <2>2. u[1] \in Index /\ u[2] \in Index /\ u[3] \in Index /\ u[4] \in Index
    BY LevelsDown
  <2> HIDE DEF r
  <2>3. Resolved(g, u, r)
    <3>1. CASE ~Present(s, BootPml4, u[1]) /\ r = NULL
      BY <1>1, <1>5, <1>7, <2>2, <3>1 DEF Resolved
    <3>2. ASSUME NEW x \in Tables, Leads(s, BootPml4, u[1], x), ~Present(s, x, u[2]), r = NULL
          PROVE  Resolved(g, u, r)
      <4>1. L[x] = 2 /\ x # t
        BY <1>3, <3>2, LevelsDown
      <4> QED
        BY <1>1, <1>5, <1>7, <2>2, <3>2, <4>1 DEF Resolved
    <3>3. ASSUME NEW x \in Tables, Leads(s, BootPml4, u[1], x),
                 NEW y \in Tables, Leads(s, x, u[2], y),
                 \/ IsHuge(s, y, u[3]) /\ r = To(s, y, u[3])
                 \/ ~Present(s, y, u[3]) /\ r = NULL
                 \/ \E z \in Tables : Leads(s, y, u[3], z) /\ r = To(s, z, u[4])
          PROVE  Resolved(g, u, r)
      <4>1. L[x] = 2 /\ x # t
        BY <1>3, <3>3, LevelsDown
      <4>2. L[y] = 3 /\ y # t
        BY <1>3, <3>3, <4>1, LevelsDown
      <4>3. Leads(g, BootPml4, u[1], x) /\ Leads(g, x, u[2], y)
        BY <1>1, <1>5, <1>7, <2>2, <3>3, <4>1
      <4>4. CASE IsHuge(s, y, u[3]) /\ r = To(s, y, u[3])
        BY <1>5, <2>2, <4>2, <4>3, <4>4 DEF Resolved
      <4>5. CASE ~Present(s, y, u[3]) /\ r = NULL
        BY <1>5, <2>2, <4>2, <4>3, <4>5 DEF Resolved
      <4>6. ASSUME NEW z \in Tables, Leads(s, y, u[3], z), r = To(s, z, u[4])
            PROVE  Resolved(g, u, r)
        <5>1. Leads(g, y, u[3], z)
          BY <1>5, <2>2, <4>2, <4>6
        <5>2. ~(z = t /\ u[4] = v[4])
          <6> SUFFICES ASSUME z = t, u[4] = v[4] PROVE FALSE
            OBVIOUS
          <6>1. y = b /\ u[3] = v[3]
            BY <1>1, <1>2, <2>2, <4>2, <4>6 DEF Route, Leads, Good, Once
          <6>2. x = a /\ u[2] = v[2]
            BY <1>1, <1>2, <2>2, <3>3, <4>1, <6>1 DEF Route, Leads, Good, Once
          <6>3. u[1] = v[1]
            BY <1>1, <2>2, <3>3, <6>2 DEF Route, Leads, Good, Once
          <6> QED
            BY <1>11, <6>1, <6>2, <6>3 DEF Paths
        <5>3. To(g, z, u[4]) = r
          BY <1>4, <2>2, <4>6, <5>2 DEF To
        <5> QED
          BY <4>3, <5>1, <5>3 DEF Resolved
      <4> QED
        BY <3>3, <4>4, <4>5, <4>6
    <3> QED
      BY <2>1, <3>1, <3>2, <3>3 DEF Resolved
  <2>4. r = vmm_resolve(g, u)
    BY <1>4, <1>9, <2>3, ResolveIs
  <2> QED
    BY <2>4 DEF r
<1> QED
  BY <1>4, <1>9, <1>10, <1>11 DEF g
----------------------------------------------------------------------------
\* The tables a walk for page v has reached after one, two and three levels.
Found(s, L, v, w, k) ==
    /\ w = [s |-> w.s, t |-> w.t]
    /\ \E M : /\ Grown(s, L, w.s, M)
              /\ w.t # NULL =>
                    /\ w.t \in Tables
                    /\ k = 1 => M[w.t] = 2 /\ Leads(w.s, BootPml4, v[1], w.t)
                    /\ k = 2 => /\ M[w.t] = 3
                                /\ \E a \in Tables : /\ Leads(w.s, BootPml4, v[1], a)
                                                     /\ Leads(w.s, a, v[2], w.t)
                    /\ k = 3 => \E a, b \in Tables : Route(w.s, v, a, b, w.t)

\* The first level.
LEMMA FirstLevel ==
    ASSUME NEW s \in States, NEW L, Good(s, L), NEW v \in Paths,
           NEW w \in table_walk_alloc(s, BootPml4, v[1])
    PROVE  Found(s, L, v, w, 1)
<1>1. v[1] \in Index /\ BootPml4 \in Tables /\ L[BootPml4] = 1
  BY LevelsDown
<1>2. ~IsHuge(s, BootPml4, v[1])
  BY <1>1, BootTables DEF Good, Descends
<1>3. /\ w = [s |-> w.s, t |-> w.t]
      /\ \E M : /\ Grown(s, L, w.s, M)
                /\ w.t # NULL => /\ w.t \in Tables /\ M[w.t] = L[BootPml4] + 1
                                 /\ Leads(w.s, BootPml4, v[1], w.t)
  BY <1>1, <1>2, WalkGood
<1> QED
  BY <1>1, <1>3 DEF Found

\* The second.
LEMMA SecondLevel ==
    ASSUME NEW s \in States, NEW L, Good(s, L), NEW v \in Paths,
           NEW w, Found(s, L, v, w, 1),
           NEW x \in (IF w.t = NULL THEN {w} ELSE table_walk_alloc(w.s, w.t, v[2]))
    PROVE  Found(s, L, v, x, 2)
<1>1. CASE w.t = NULL
  <2>1. x = w
    BY <1>1
  <2> QED
    BY <1>1, <2>1 DEF Found
<1>2. CASE w.t # NULL
  <2>1. PICK M : /\ Grown(s, L, w.s, M)
                 /\ w.t \in Tables /\ M[w.t] = 2 /\ Leads(w.s, BootPml4, v[1], w.t)
    BY <1>2 DEF Found
  <2>2. w.s \in States /\ Good(w.s, M) /\ v[1] \in Index /\ v[2] \in Index /\ M[BootPml4] = 1
    <3>1. w.s \in States /\ Good(w.s, M)
      BY <2>1 DEF Grown
    <3> QED
      BY <3>1, LevelsDown
  <2>3. ~IsHuge(w.s, w.t, v[2])
    BY <2>1, <2>2 DEF Good, Descends, Ranks
  <2>4. /\ x = [s |-> x.s, t |-> x.t]
        /\ \E N : /\ Grown(w.s, M, x.s, N)
                  /\ x.t # NULL => /\ x.t \in Tables /\ N[x.t] = M[w.t] + 1
                                   /\ Leads(x.s, w.t, v[2], x.t)
    <3>1. x \in table_walk_alloc(w.s, w.t, v[2]) /\ M[w.t] \in 1 .. 3
      BY <1>2, <2>1
    <3> QED
      BY <2>1, <2>2, <2>3, <3>1, WalkGood
  <2>5. PICK N : /\ Grown(w.s, M, x.s, N)
                 /\ x.t # NULL => /\ x.t \in Tables /\ N[x.t] = M[w.t] + 1
                                  /\ Leads(x.s, w.t, v[2], x.t)
    BY <2>4
  <2>6. Grown(s, L, x.s, N)
    BY <2>1, <2>5, GrownTwice
  <2>7. Leads(x.s, BootPml4, v[1], w.t)
    BY <2>1, <2>2, <2>5, BootTables DEF Grown
  <2>8. M[w.t] + 1 = 3
    BY <2>1
  <2> QED
    BY <2>1, <2>4, <2>5, <2>6, <2>7, <2>8 DEF Found
<1> QED
  BY <1>1, <1>2

\* The third, behind the test for a huge page.
LEMMA ThirdLevel ==
    ASSUME NEW s \in States, NEW L, Good(s, L), NEW v \in Paths,
           NEW u, Found(s, L, v, u, 2), NEW w, w = RefuseHuge(u, v[3]),
           NEW x \in (IF w.t = NULL THEN {w} ELSE table_walk_alloc(w.s, w.t, v[3]))
    PROVE  Found(s, L, v, x, 3)
<1>1. /\ w = [s |-> w.s, t |-> w.t] /\ w.s = u.s
      /\ w.t # NULL => w = u /\ ~IsHuge(w.s, w.t, v[3])
  <2>1. CASE u.t = NULL
    BY <2>1 DEF RefuseHuge, Found
  <2>2. CASE u.t # NULL /\ u.s.table[u.t][v[3]].huge
    <3>1. w = [u EXCEPT !.t = NULL] /\ u = [s |-> u.s, t |-> u.t]
      BY <2>2 DEF RefuseHuge, Found
    <3>2. w = [s |-> u.s, t |-> NULL]
      BY <3>1
    <3> QED
      BY <3>2
  <2>3. CASE u.t # NULL /\ ~u.s.table[u.t][v[3]].huge
    BY <2>3 DEF RefuseHuge, Found, IsHuge
  <2> QED
    BY <2>1, <2>2, <2>3
<1>2. CASE w.t = NULL
  <2>1. x = w
    BY <1>2
  <2>2. \E M : Grown(s, L, x.s, M)
    BY <1>1, <2>1 DEF Found
  <2> QED
    BY <1>1, <1>2, <2>1, <2>2 DEF Found
<1>3. CASE w.t # NULL
  <2>1. PICK M : /\ Grown(s, L, w.s, M) /\ w.t \in Tables /\ M[w.t] = 3
                 /\ \E a \in Tables : /\ Leads(w.s, BootPml4, v[1], a)
                                      /\ Leads(w.s, a, v[2], w.t)
    BY <1>1, <1>3 DEF Found
  <2>2. PICK a \in Tables : Leads(w.s, BootPml4, v[1], a) /\ Leads(w.s, a, v[2], w.t)
    BY <2>1
  <2>3. w.s \in States /\ Good(w.s, M)
    BY <2>1 DEF Grown
  <2>4. /\ v[1] \in Index /\ v[2] \in Index /\ v[3] \in Index
        /\ BootPml4 \in Tables /\ M[BootPml4] = 1 /\ M[a] = 2
    BY <2>2, <2>3, LevelsDown
  <2>5. /\ x = [s |-> x.s, t |-> x.t]
        /\ \E N : /\ Grown(w.s, M, x.s, N)
                  /\ x.t # NULL => /\ x.t \in Tables /\ N[x.t] = M[w.t] + 1
                                   /\ Leads(x.s, w.t, v[3], x.t)
    <3>1. x \in table_walk_alloc(w.s, w.t, v[3]) /\ M[w.t] \in 1 .. 3
      BY <1>3, <2>1
    <3> QED
      BY <1>1, <1>3, <2>1, <2>3, <2>4, <3>1, WalkGood
  <2>6. PICK N : /\ Grown(w.s, M, x.s, N)
                 /\ x.t # NULL => /\ x.t \in Tables /\ N[x.t] = M[w.t] + 1
                                  /\ Leads(x.s, w.t, v[3], x.t)
    BY <2>5
  <2>7. Grown(s, L, x.s, N)
    BY <2>1, <2>6, GrownTwice
  <2>8. Leads(x.s, BootPml4, v[1], a) /\ Leads(x.s, a, v[2], w.t)
    BY <2>1, <2>2, <2>4, <2>6 DEF Grown
  <2>9. x.t # NULL => Route(x.s, v, a, w.t, x.t)
    BY <2>6, <2>8 DEF Route
  <2> QED
    BY <2>1, <2>5, <2>6, <2>7, <2>9 DEF Found
<1> QED
  BY <1>2, <1>3

\* A page of the boot mapping has no table of the last level.
LEMMA FixedHuge ==
    ASSUME NEW s \in States, NEW L, Good(s, L), NEW v \in Paths,
           NEW a, NEW b, NEW t, Route(s, v, a, b, t)
    PROVE  ~(v[1] = Boot /\ v[2] = Boot)
<1>1. v[3] \in Index
  BY LevelsDown
<1> QED
  BY <1>1 DEF Route, Leads, Good, Descends

\* vmm_map_page fails and changes no answer, or maps the page to p.
LEMMA MapGood ==
    ASSUME NEW s \in States, NEW L, Good(s, L), NEW v \in Paths, NEW p \in Physical,
           NEW o \in vmm_map_page(s, v, p)
    PROVE  /\ o.s \in States /\ \E M : Good(o.s, M)
           /\ \/ o.ret = FALSE /\ \A u \in Paths : vmm_resolve(o.s, u) = vmm_resolve(s, u)
              \/ /\ o.ret = TRUE /\ ~(v[1] = Boot /\ v[2] = Boot)
                 /\ vmm_resolve(o.s, v) = p
                 /\ \A u \in Paths : u # v => vmm_resolve(o.s, u) = vmm_resolve(s, u)
<1> DEFINE pdpt == table_walk_alloc(s, BootPml4, v[1])
           pd == Levels(pdpt, v[2])
           pt == Levels({RefuseHuge(w, v[3]) : w \in pd}, v[3])
<1>1. \A w \in pdpt : Found(s, L, v, w, 1)
  BY FirstLevel
<1>2. \A x \in pd : Found(s, L, v, x, 2)
  <2> SUFFICES ASSUME NEW x \in pd PROVE Found(s, L, v, x, 2)
    OBVIOUS
  <2>1. PICK w \in pdpt : x \in (IF w.t = NULL THEN {w} ELSE table_walk_alloc(w.s, w.t, v[2]))
    BY DEF Levels
  <2>2. Found(s, L, v, w, 1)
    BY <1>1
  <2> QED
    BY <2>1, <2>2, SecondLevel
<1>3. \A x \in pt : Found(s, L, v, x, 3)
  <2> SUFFICES ASSUME NEW x \in pt PROVE Found(s, L, v, x, 3)
    OBVIOUS
  <2>1. PICK u \in pd : \E w : /\ w = RefuseHuge(u, v[3])
                               /\ x \in (IF w.t = NULL THEN {w}
                                         ELSE table_walk_alloc(w.s, w.t, v[3]))
    <3> HIDE DEF pd
    <3> QED
      BY DEF Levels
  <2>2. Found(s, L, v, u, 2)
    BY <1>2
  <2> QED
    BY <2>1, <2>2, ThirdLevel
<1>4. PICK x \in pt : o = IF x.t = NULL THEN [s |-> x.s, ret |-> FALSE]
                          ELSE [s |-> [x.s EXCEPT !.table[x.t][v[4]] = Link(p)], ret |-> TRUE]
  BY DEF vmm_map_page
<1> HIDE DEF pt, pd, pdpt
<1>5. PICK M : /\ Grown(s, L, x.s, M)
               /\ x.t # NULL => x.t \in Tables /\ \E a, b \in Tables : Route(x.s, v, a, b, x.t)
  BY <1>3 DEF Found
<1>6. /\ x.s \in States /\ Good(x.s, M)
      /\ \A u \in Paths : vmm_resolve(x.s, u) = vmm_resolve(s, u)
  BY <1>5 DEF Grown
<1>7. CASE x.t = NULL
  <2>1. o.s = x.s /\ o.ret = FALSE
    BY <1>4, <1>7
  <2> QED
    BY <1>6, <2>1
<1>8. CASE x.t # NULL
  <2>1. o.s = Put(x.s, x.t, v[4], Link(p)) /\ o.ret = TRUE
    BY <1>4, <1>8 DEF Put
  <2>2. PICK a \in Tables, b \in Tables : Route(x.s, v, a, b, x.t)
    BY <1>5, <1>8
  <2>3. /\ Link(p) \in Entries /\ ~Link(p).huge
        /\ Link(p).to = p /\ (Link(p).present => Link(p).to \in Physical)
    BY EntryShape
  <2> DEFINE e == Link(p)
             g == Put(x.s, x.t, v[4], e)
  <2>4. g \in States /\ Good(g, M) /\ vmm_resolve(g, v) = e.to
        /\ \A u \in Paths : u # v => vmm_resolve(g, u) = vmm_resolve(x.s, u)
    <3> HIDE DEF e
    <3>1. e \in Entries /\ ~e.huge /\ (e.present => e.to \in Physical) /\ x.t \in Tables
      BY <1>5, <1>8, <2>3 DEF e
    <3> QED
      BY <1>6, <2>2, <3>1, PutGood
  <2>5. ~(v[1] = Boot /\ v[2] = Boot)
    BY <1>6, <2>2, FixedHuge
  <2> HIDE DEF g
  <2>6. o.s = g /\ e.to = p
    BY <2>1, <2>3 DEF g
  <2> QED
    BY <1>6, <2>1, <2>4, <2>5, <2>6
<1> QED
  BY <1>7, <1>8

\* vmm_unmap_page changes nothing, or unmaps the page.
LEMMA UnmapGood ==
    ASSUME NEW s \in States, NEW L, Good(s, L), NEW v \in Paths
    PROVE  LET o == vmm_unmap_page(s, v)
           IN  \/ o.s = s /\ o.ret = FALSE
               \/ /\ o.s \in States /\ Good(o.s, L)
                  /\ o.ret = TRUE /\ ~(v[1] = Boot /\ v[2] = Boot)
                  /\ vmm_resolve(o.s, v) = NULL
                  /\ \A u \in Paths : u # v => vmm_resolve(o.s, u) = vmm_resolve(s, u)
<1> DEFINE o == vmm_unmap_page(s, v)
           pd == PdOf(s, v)
           e  == IF pd = NULL THEN Absent ELSE s.table[pd][v[3]]
<1>1. /\ v[1] \in Index /\ v[2] \in Index /\ v[3] \in Index /\ v[4] \in Index
      /\ BootPml4 \in Tables /\ NULL \notin Tables
  BY LevelsDown, BootTables
<1>2. o = IF e.huge \/ ~e.present THEN [s |-> s, ret |-> FALSE]
          ELSE [s |-> Put(s, e.to, v[4], Absent), ret |-> TRUE]
  BY DEF vmm_unmap_page, Put
<1>3. CASE e.huge \/ ~e.present
  <2>1. o = [s |-> s, ret |-> FALSE]
    <3> HIDE DEF e, o
    <3> QED
      BY <1>2, <1>3
  <2>2. o.s = s /\ o.ret = FALSE
    BY <2>1
  <2> QED
    BY <2>2
<1>4. CASE ~e.huge /\ e.present
  <2>1. pd # NULL
    BY <1>4, EntryShape
  <2>2. PICK a \in Tables, b \in Tables : /\ Leads(s, BootPml4, v[1], a)
                                          /\ Leads(s, a, v[2], b) /\ pd = b
    <3>1. Below(s, BootPml4, v[1]) # NULL
      BY <1>1, <2>1 DEF PdOf, Below
    <3>2. Present(s, BootPml4, v[1])
      BY <1>1, <3>1, BelowIs
    <3>3. PICK a \in Tables : Leads(s, BootPml4, v[1], a)
      BY <3>2, LevelsDown
    <3>4. Below(s, BootPml4, v[1]) = a
      BY <1>1, <3>3, BelowIs DEF Leads
    <3>5. pd = Below(s, a, v[2])
      BY <3>4 DEF PdOf
    <3>6. Present(s, a, v[2])
      BY <1>1, <2>1, <3>5, BelowIs
    <3>7. PICK b \in Tables : Leads(s, a, v[2], b)
      BY <3>3, <3>6, LevelsDown
    <3>8. pd = b
      BY <1>1, <3>5, <3>7, BelowIs DEF Leads
    <3> QED
      BY <3>3, <3>7, <3>8
  <2>3. e = s.table[b][v[3]]
    BY <2>1, <2>2
  <2>4. Present(s, b, v[3]) /\ ~IsHuge(s, b, v[3]) /\ e.to = To(s, b, v[3])
    <3> HIDE DEF e
    <3> QED
      BY <1>4, <2>3 DEF Present, IsHuge, To
  <2>5. L[a] = 2 /\ L[b] = 3
    BY <2>2, LevelsDown
  <2>6. PICK t \in Tables : Leads(s, b, v[3], t)
    BY <2>2, <2>4, <2>5, LevelsDown
  <2>7. e.to = t /\ Route(s, v, a, b, t)
    BY <2>2, <2>4, <2>6 DEF Leads, Route
  <2>8. o.s = Put(s, t, v[4], Absent) /\ o.ret = TRUE
    <3> HIDE DEF e, o
    <3>1. o = [s |-> Put(s, t, v[4], Absent), ret |-> TRUE]
      BY <1>2, <1>4, <2>7
    <3> QED
      BY <3>1
  <2> DEFINE g == Put(s, t, v[4], Absent)
  <2>9. /\ g \in States /\ Good(g, L) /\ vmm_resolve(g, v) = Absent.to
        /\ \A u \in Paths : u # v => vmm_resolve(g, u) = vmm_resolve(s, u)
    <3>1. Absent \in Entries /\ ~Absent.huge /\ (Absent.present => Absent.to \in Physical)
      BY EntryShape
    <3> QED
      BY <2>7, <3>1, PutGood
  <2>10. ~(v[1] = Boot /\ v[2] = Boot) /\ Absent.to = NULL
    BY <2>7, FixedHuge, EntryShape
  <2> HIDE DEF g, o, e
  <2>11. o.s = g
    BY <2>8 DEF g
  <2> QED
    BY <2>8, <2>9, <2>10, <2>11 DEF o
<1> QED
  BY <1>3, <1>4
----------------------------------------------------------------------------
\* The boot loader's tables (boot.asm:65-84) are a tree.
LEMMA InitGood == Init => IInv
<1> SUFFICES ASSUME Init PROVE IInv
  OBVIOUS
<1> DEFINE L == [t \in Tables |-> IF t = BootPml4 THEN 1 ELSE IF t = BootPdpt THEN 2
                                  ELSE IF t = BootPd THEN 3 ELSE 0]
           T == [t \in Tables |->
                   CASE t = BootPml4 -> [NewTable EXCEPT ![Boot] = Link(BootPdpt)]
                     [] t = BootPdpt -> [NewTable EXCEPT ![Boot] = Link(BootPd)]
                     [] t = BootPd   -> [i \in Index |-> Huge(Phys(i))]
                     [] OTHER        -> NewTable]
<1>1. vm = [table |-> T, left |-> Frames] /\ ret = TRUE
  BY DEF Init
<1>2. NewTable \in [Index -> Entries] /\ \A j \in Index : NewTable[j] = Absent
  BY EntryShape DEF NewTable
<1>3. /\ T[BootPml4] = [NewTable EXCEPT ![Boot] = Link(BootPdpt)]
      /\ T[BootPdpt] = [NewTable EXCEPT ![Boot] = Link(BootPd)]
      /\ T[BootPd] = [i \in Index |-> Huge(Phys(i))]
      /\ \A f \in Frames : T[f] = NewTable
  BY BootTables
<1>4. /\ T[BootPml4] \in [Index -> Entries] /\ T[BootPdpt] \in [Index -> Entries]
      /\ T[BootPd] \in [Index -> Entries] /\ \A f \in Frames : T[f] \in [Index -> Entries]
  <2>1. Link(BootPdpt) \in Entries /\ Link(BootPd) \in Entries
    BY BootTables, EntryShape
  <2>2. \A i \in Index : Huge(Phys(i)) \in Entries
    BY BootAssumption, EntryShape
  <2> HIDE DEF T
  <2>3. /\ [NewTable EXCEPT ![Boot] = Link(BootPdpt)] \in [Index -> Entries]
        /\ [NewTable EXCEPT ![Boot] = Link(BootPd)] \in [Index -> Entries]
    BY <1>2, <2>1
  <2>4. [i \in Index |-> Huge(Phys(i))] \in [Index -> Entries]
    BY <2>2
  <2> QED
    BY <1>2, <1>3, <2>3, <2>4, Zenon
<1>5. T \in [Tables -> [Index -> Entries]]
  <2>1. \A t \in Tables : T[t] \in [Index -> Entries]
    <3> HIDE DEF T
    <3> QED
      BY <1>4 DEF Tables
  <2>2. T = [t \in Tables |-> T[t]]
    OBVIOUS
  <2> HIDE DEF T
  <2> QED
    BY <2>1, <2>2
<1> HIDE DEF T
<1>6. vm \in States /\ vm.table = T /\ vm.left = Frames
  BY <1>1, <1>5 DEF States
<1>7. /\ \A j \in Index : j # Boot =>
            ~Present(vm, BootPml4, j) /\ ~IsHuge(vm, BootPml4, j)
      /\ \A j \in Index : j # Boot =>
            ~Present(vm, BootPdpt, j) /\ ~IsHuge(vm, BootPdpt, j)
      /\ Leads(vm, BootPml4, Boot, BootPdpt) /\ Leads(vm, BootPdpt, Boot, BootPd)
  <2>1. /\ \A j \in Index : j # Boot => T[BootPml4][j] = Absent /\ T[BootPdpt][j] = Absent
        /\ T[BootPml4][Boot] = Link(BootPdpt) /\ T[BootPdpt][Boot] = Link(BootPd)
    BY <1>2, <1>3, BootAssumption
  <2> QED
    BY <1>6, <2>1, EntryShape DEF Present, IsHuge, To, Leads
<1>8. \A j \in Index : /\ Present(vm, BootPd, j) /\ IsHuge(vm, BootPd, j)
                       /\ To(vm, BootPd, j) \in Physical
  BY <1>3, <1>6, BootAssumption, EntryShape DEF Present, IsHuge, To
<1>9. /\ L \in [Tables -> 0 .. 4]
      /\ L[BootPml4] = 1 /\ L[BootPdpt] = 2 /\ L[BootPd] = 3
      /\ \A f \in Frames : L[f] = 0
      /\ \A t \in Tables : L[t] # 0 => t = BootPml4 \/ t = BootPdpt \/ t = BootPd
      /\ \A t \in Tables : L[t] = 1 => t = BootPml4
  BY BootTables
<1> HIDE DEF L
<1>10. Ranks(vm, L)
  BY <1>6, <1>9 DEF Ranks
<1>11. Descends(vm, L)
  <2>1. ASSUME NEW t \in Tables, NEW i \in Index, L[t] \in 1 .. 3,
               Present(vm, t, i), ~IsHuge(vm, t, i)
        PROVE  To(vm, t, i) \in Tables /\ L[To(vm, t, i)] = L[t] + 1
    <3>1. (t = BootPml4 \/ t = BootPdpt) /\ i = Boot
      BY <1>7, <1>8, <1>9, <2>1
    <3> QED
      BY <1>7, <1>9, <3>1, BootTables DEF Leads
  <2>2. \A t \in Tables : L[t] # 4
    BY <1>9
  <2>3. ASSUME NEW t \in Tables, NEW i \in Index, L[t] # 0, IsHuge(vm, t, i)
        PROVE  t = BootPd
    BY <1>7, <1>9, <2>3 DEF Leads
  <2> QED
    BY <1>7, <1>8, <2>1, <2>2, <2>3 DEF Descends
<1>12. Once(vm, L)
  <2>1. \A t \in Tables : \A i \in Index :
           L[t] \in 1 .. 3 /\ Present(vm, t, i) /\ ~IsHuge(vm, t, i) =>
              /\ i = Boot
              /\ \/ t = BootPml4 /\ To(vm, t, i) = BootPdpt
                 \/ t = BootPdpt /\ To(vm, t, i) = BootPd
    BY <1>7, <1>8, <1>9 DEF Leads
  <2> QED
    BY <2>1, BootTables DEF Once
<1>13. Held(vm, L)
  <2>1. \A t \in Tables : L[t] \in 2 .. 4 => t = BootPdpt \/ t = BootPd
    BY <1>9
  <2> QED
    BY <1>7, <1>9, <2>1, BootTables, BootAssumption DEF Held
<1>14. Good(vm, L)
  BY <1>10, <1>11, <1>12, <1>13 DEF Good
<1>15. ret \in BOOLEAN
  BY <1>1, Zenon
<1> QED
  BY <1>6, <1>14, <1>15 DEF IInv

\* The address space of a state, as Space has it.
Answers(s) == [v \in Virtual |-> vmm_resolve(s, v)]

\* At boot the pages of the boot mapping are mapped, and no others.
LEMMA InitSpace == Init => Space!Init
<1> SUFFICES ASSUME Init PROVE Space!Init
  OBVIOUS
<1>1. IInv
  BY InitGood
<1>2. PICK L : vm \in States /\ Good(vm, L)
  BY <1>1 DEF IInv
<1>3. ASSUME NEW v \in Virtual
      PROVE  /\ vmm_resolve(vm, v) \in Physical \cup {NULL}
             /\ vmm_resolve(vm, v) # NULL <=> v[1] = Boot /\ v[2] = Boot
  <2>1. v \in Paths
    BY VirtualAssumption DEF Paths
  <2>2. v[1] \in Index /\ v[2] \in Index /\ v[3] \in Index
    BY <1>2, <2>1, LevelsDown
  <2>3. /\ Leads(vm, BootPml4, Boot, BootPdpt) /\ Leads(vm, BootPdpt, Boot, BootPd)
        /\ IsHuge(vm, BootPd, v[3]) /\ To(vm, BootPd, v[3]) \in Physical
    BY <1>2, <2>2 DEF Good, Descends
  <2>4. \A j \in Index : j # Boot => ~Present(vm, BootPml4, j) /\ ~Present(vm, BootPdpt, j)
    <3> TAKE j \in Index
    <3> HAVE j # Boot
    <3>1. vm.table[BootPml4] = [NewTable EXCEPT ![Boot] = Link(BootPdpt)]
          /\ vm.table[BootPdpt] = [NewTable EXCEPT ![Boot] = Link(BootPd)]
      BY BootTables DEF Init
    <3>2. vm.table[BootPml4][j] = Absent /\ vm.table[BootPdpt][j] = Absent
      BY <3>1 DEF NewTable
    <3> QED
      BY <3>2, EntryShape DEF Present
  <2>5. CASE v[1] = Boot /\ v[2] = Boot
    <3>1. Resolved(vm, v, To(vm, BootPd, v[3]))
      BY <2>3, <2>5, BootTables DEF Resolved
    <3>2. vmm_resolve(vm, v) = To(vm, BootPd, v[3])
      BY <1>2, <2>1, <3>1, ResolveIs
    <3> QED
      BY <2>3, <2>5, <3>2, BootTables
  <2>6. CASE ~(v[1] = Boot /\ v[2] = Boot)
    <3>1. Resolved(vm, v, NULL)
      <4>1. CASE v[1] # Boot
        BY <2>2, <2>4, <4>1 DEF Resolved
      <4>2. CASE v[1] = Boot /\ v[2] # Boot
        BY <2>2, <2>3, <2>4, <4>2, BootTables DEF Resolved
      <4> QED
        BY <2>6, <4>1, <4>2
    <3>2. vmm_resolve(vm, v) = NULL
      BY <1>2, <2>1, <3>1, ResolveIs
    <3> QED
      BY <2>6, <3>2
  <2> QED
    BY <2>5, <2>6
<1>4. Answers(vm) \in [Virtual -> Physical \cup {NULL}]
  BY <1>3 DEF Answers
<1>5. \A v \in Virtual : Answers(vm)[v] # NULL <=> v[1] = Boot /\ v[2] = Boot
  BY <1>3 DEF Answers
<1>6. ret = TRUE
  BY DEF Init
<1>7. \A v \in Virtual :
         Answers(vm)[v] # NULL <=> v \in {u \in Virtual : u[1] = Boot /\ u[2] = Boot}
  BY <1>5
<1> QED
  BY <1>4, <1>6, <1>7, Zenon DEF Space!Init, Answers

\* A step keeps the invariant and is one of the address space.
LEMMA StepGood == IInv /\ [Next]_vars => IInv' /\ [Space!Next]_(Space!vars)
<1> SUFFICES ASSUME IInv, [Next]_vars PROVE IInv' /\ [Space!Next]_(Space!vars)
  OBVIOUS
<1>1. PICK L : vm \in States /\ Good(vm, L)
  BY DEF IInv
<1>2. Virtual \subseteq Paths
  BY VirtualAssumption DEF Paths
<1>3. ASSUME vm' = vm PROVE Answers(vm') = Answers(vm)
  BY <1>3 DEF Answers
<1>4. CASE UNCHANGED vars
  <2>1. vm' = vm /\ ret' = ret
    BY <1>4 DEF vars
  <2>2. IInv'
    BY <2>1, Zenon DEF IInv
  <2>3. UNCHANGED Space!vars
    BY <1>3, <2>1 DEF Space!vars, Answers
  <2> QED
    BY <2>2, <2>3
<1>5. ASSUME \A u \in Paths : vmm_resolve(vm', u) = vmm_resolve(vm, u), ret' = FALSE
      PROVE  Space!Next
  <2>1. \A v \in Virtual : vmm_resolve(vm', v) = vmm_resolve(vm, v)
    BY <1>2, <1>5
  <2>2. Answers(vm') = Answers(vm)
    BY <2>1 DEF Answers
  <2>3. Space!Fail
    BY <1>5, <2>2 DEF Space!Fail, Answers
  <2> QED
    BY <2>3 DEF Space!Next
<1>6. ASSUME NEW v \in Virtual, NEW p,
             vmm_resolve(vm', v) = p,
             \A u \in Paths : u # v => vmm_resolve(vm', u) = vmm_resolve(vm, u)
      PROVE  Answers(vm') = [Answers(vm) EXCEPT ![v] = p]
  <2>1. \A u \in Virtual : u # v => vmm_resolve(vm', u) = vmm_resolve(vm, u)
    BY <1>2, <1>6
  <2> QED
    BY <1>6, <2>1 DEF Answers
<1>7. ASSUME NEW v \in Virtual, NEW p \in Physical, Map(v, p)
      PROVE  IInv' /\ Space!Next
  <2>1. PICK o \in vmm_map_page(vm, v, p) : vm' = o.s /\ ret' = o.ret
    BY <1>7 DEF Map
  <2>2. /\ o.s \in States /\ \E M : Good(o.s, M)
        /\ \/ o.ret = FALSE /\ \A u \in Paths : vmm_resolve(o.s, u) = vmm_resolve(vm, u)
           \/ /\ o.ret = TRUE /\ ~(v[1] = Boot /\ v[2] = Boot)
              /\ vmm_resolve(o.s, v) = p
              /\ \A u \in Paths : u # v => vmm_resolve(o.s, u) = vmm_resolve(vm, u)
    BY <1>1, <1>2, MapGood
  <2>3. ret' \in BOOLEAN
    BY <2>1, <2>2, Zenon
  <2>4. IInv'
    BY <2>1, <2>2, <2>3, Zenon DEF IInv
  <2>5. CASE o.ret = FALSE /\ \A u \in Paths : vmm_resolve(o.s, u) = vmm_resolve(vm, u)
    BY <1>5, <2>1, <2>4, <2>5
  <2>6. CASE /\ o.ret = TRUE /\ ~(v[1] = Boot /\ v[2] = Boot)
             /\ vmm_resolve(o.s, v) = p
             /\ \A u \in Paths : u # v => vmm_resolve(o.s, u) = vmm_resolve(vm, u)
    <3>1. Answers(vm') = [Answers(vm) EXCEPT ![v] = p]
      BY <1>6, <2>1, <2>6
    <3>2. v \notin {u \in Virtual : u[1] = Boot /\ u[2] = Boot}
      BY <2>6
    <3>3. ret' = TRUE
      BY <2>1, <2>6
    <3>4. Space!Map(v, p)
      BY <3>1, <3>2, <3>3, Zenon DEF Space!Map, Answers
    <3> QED
      BY <2>4, <3>4 DEF Space!Next
  <2> QED
    BY <2>2, <2>5, <2>6
<1>8. ASSUME NEW v \in Virtual, Unmap(v)
      PROVE  IInv' /\ Space!Next
  <2> DEFINE o == vmm_unmap_page(vm, v)
  <2>1. vm' = o.s /\ ret' = o.ret
    BY <1>8 DEF Unmap
  <2>2. \/ o.s = vm /\ o.ret = FALSE
        \/ /\ o.s \in States /\ Good(o.s, L)
           /\ o.ret = TRUE /\ ~(v[1] = Boot /\ v[2] = Boot)
           /\ vmm_resolve(o.s, v) = NULL
           /\ \A u \in Paths : u # v => vmm_resolve(o.s, u) = vmm_resolve(vm, u)
    BY <1>1, <1>2, UnmapGood
  <2> HIDE DEF o
  <2>3. ret' \in BOOLEAN
    BY <2>1, <2>2, Zenon
  <2>4. o.s \in States /\ Good(o.s, L)
    BY <1>1, <2>2
  <2>5. IInv'
    BY <2>1, <2>3, <2>4, Zenon DEF IInv
  <2>6. CASE o.s = vm /\ o.ret = FALSE
    BY <1>5, <2>1, <2>5, <2>6
  <2>7. CASE /\ o.ret = TRUE /\ ~(v[1] = Boot /\ v[2] = Boot)
             /\ vmm_resolve(o.s, v) = NULL
             /\ \A u \in Paths : u # v => vmm_resolve(o.s, u) = vmm_resolve(vm, u)
    <3>1. Answers(vm') = [Answers(vm) EXCEPT ![v] = NULL]
      BY <1>6, <2>1, <2>7
    <3>2. v \notin {u \in Virtual : u[1] = Boot /\ u[2] = Boot}
      BY <2>7
    <3>3. ret' = TRUE
      BY <2>1, <2>7
    <3>4. Space!Unmap(v)
      BY <3>1, <3>2, <3>3, Zenon DEF Space!Unmap, Answers
    <3> QED
      BY <2>5, <3>4 DEF Space!Next
  <2> QED
    BY <2>2, <2>6, <2>7
<1> QED
  BY <1>4, <1>7, <1>8 DEF Next

\* The tree of the invariant is that of TablesTree.
LEMMA InvTree == IInv => TypeOK /\ TablesTree
<1> SUFFICES ASSUME IInv PROVE TypeOK /\ TablesTree
  OBVIOUS
<1>1. PICK L : vm \in States /\ Good(vm, L)
  BY DEF IInv
<1>2. TypeOK
  <2>1. vm.table \in [Tables -> [Index -> Entries]] /\ vm.left \subseteq Frames
    BY <1>1 DEF States
  <2> QED
    BY <2>1, Zenon DEF TypeOK, IInv
<1>3. /\ \A t \in Tables : L[t] \in 0 .. 4 /\ (L[t] = 1 <=> t = BootPml4)
      /\ L[BootPdpt] = 2 /\ L[BootPd] = 3
      /\ BootPml4 \in Tables /\ BootPdpt \in Tables /\ BootPd \in Tables
      /\ \A f \in Frames : f \in Tables /\ (L[f] = 0 <=> f \in vm.left)
  BY <1>1, BootTables DEF Good, Ranks
<1>4. \A t \in Tables : \A i \in Index : L[t] \in 1 .. 2 =>
         /\ To(vm, t, i) # NULL <=> Present(vm, t, i) /\ ~IsHuge(vm, t, i)
         /\ To(vm, t, i) # NULL => To(vm, t, i) \in Tables /\ L[To(vm, t, i)] = L[t] + 1
  <2> TAKE t \in Tables
  <2> TAKE i \in Index
  <2> HAVE L[t] \in 1 .. 2
  <2>1. ~IsHuge(vm, t, i)
    BY <1>1, <1>3 DEF Good, Descends
  <2>2. /\ ~Present(vm, t, i) => To(vm, t, i) = NULL
        /\ Present(vm, t, i) => To(vm, t, i) # NULL
    BY <1>1, Typed
  <2>3. L[t] \in 1 .. 3
    OBVIOUS
  <2>4. Present(vm, t, i) => To(vm, t, i) \in Tables /\ L[To(vm, t, i)] = L[t] + 1
    BY <1>1, <2>1, <2>3 DEF Good, Descends
  <2> QED
    BY <2>1, <2>2, <2>4
<1>5. \A u \in Tables : L[u] \in 2 .. 4 =>
         \E t \in Tables : \E i \in Index : L[t] = L[u] - 1 /\ Leads(vm, t, i, u)
  BY <1>1 DEF Good, Held
<1>6. Pdpts = {t \in Tables : L[t] = 2}
  <2>1. Pdpts = {To(vm, BootPml4, i) : i \in Index} \ {NULL}
    BY DEF Pdpts, To
  <2>2. \A i \in Index : To(vm, BootPml4, i) # NULL =>
           To(vm, BootPml4, i) \in Tables /\ L[To(vm, BootPml4, i)] = 2
    BY <1>3, <1>4
  <2>3. ASSUME NEW u \in Tables, L[u] = 2
        PROVE  \E i \in Index : To(vm, BootPml4, i) = u
    <3>1. PICK t \in Tables, i \in Index : L[t] = 1 /\ Leads(vm, t, i, u)
      BY <1>5, <2>3
    <3> QED
      BY <1>3, <3>1 DEF Leads
  <2>4. NULL \notin Tables
    BY BootTables
  <2> QED
    BY <2>1, <2>2, <2>3, <2>4
<1>7. Pds = {t \in Tables : L[t] = 3}
  <2>1. Pds = {To(vm, t, i) : t \in Pdpts, i \in Index} \ {NULL}
    BY DEF Pds, To
  <2>2. \A t \in Pdpts : \A i \in Index : To(vm, t, i) # NULL =>
           To(vm, t, i) \in Tables /\ L[To(vm, t, i)] = 3
    BY <1>4, <1>6
  <2>3. ASSUME NEW u \in Tables, L[u] = 3
        PROVE  \E t \in Pdpts : \E i \in Index : To(vm, t, i) = u
    <3>1. PICK t \in Tables, i \in Index : L[t] = 2 /\ Leads(vm, t, i, u)
      BY <1>5, <2>3
    <3> QED
      BY <1>6, <3>1 DEF Leads
  <2>4. NULL \notin Tables
    BY BootTables
  <2> QED
    BY <2>1, <2>2, <2>3, <2>4
<1>8. {BootPml4} \cup Pdpts \cup Pds = {t \in Tables : L[t] \in 1 .. 3}
  BY <1>3, <1>6, <1>7
<1>9. \A x : x \in Linked <=>
         /\ x \in {t \in Tables : L[t] \in 1 .. 3} \X Index
         /\ Present(vm, x[1], x[2]) /\ ~IsHuge(vm, x[1], x[2])
  BY <1>8, Zenon DEF Linked, Present, IsHuge
<1>10. \A x \in Linked : /\ x[1] \in Tables /\ L[x[1]] \in 1 .. 3 /\ x[2] \in Index
                         /\ x = <<x[1], x[2]>>
                         /\ Present(vm, x[1], x[2]) /\ ~IsHuge(vm, x[1], x[2])
  BY <1>9
<1>11. \A x, y \in Linked : To(vm, x[1], x[2]) = To(vm, y[1], y[2]) => x = y
  BY <1>1, <1>10 DEF Good, Once
<1>12. {To(vm, x[1], x[2]) : x \in Linked} = {u \in Tables : L[u] \in 2 .. 4}
  <2>1. \A x \in Linked : To(vm, x[1], x[2]) \in Tables /\ L[To(vm, x[1], x[2])] \in 2 .. 4
    <3> TAKE x \in Linked
    <3>1. To(vm, x[1], x[2]) \in Tables /\ L[To(vm, x[1], x[2])] = L[x[1]] + 1
      BY <1>1, <1>10 DEF Good, Descends
    <3> QED
      BY <1>10, <3>1
  <2>2. ASSUME NEW u \in Tables, L[u] \in 2 .. 4
        PROVE  \E x \in Linked : To(vm, x[1], x[2]) = u
    <3>1. PICK t \in Tables, i \in Index : L[t] = L[u] - 1 /\ Leads(vm, t, i, u)
      BY <1>5, <2>2
    <3>2. <<t, i>>[1] = t /\ <<t, i>>[2] = i /\ L[t] \in 1 .. 3
      BY <2>2, <3>1
    <3>3. <<t, i>> \in {y \in Tables : L[y] \in 1 .. 3} \X Index
      BY <3>2
    <3>4. Present(vm, <<t, i>>[1], <<t, i>>[2]) /\ ~IsHuge(vm, <<t, i>>[1], <<t, i>>[2])
      BY <3>1, <3>2 DEF Leads
    <3>5. <<t, i>> \in Linked
      BY <1>9, <3>3, <3>4, Zenon
    <3> QED
      BY <3>1, <3>2, <3>5 DEF Leads
  <2> QED
    BY <2>1, <2>2
<1>13. {u \in Tables : L[u] \in 2 .. 4} = (Frames \ vm.left) \cup {BootPdpt, BootPd}
  BY <1>3, BootTables DEF Tables
<1> QED
  BY <1>2, <1>11, <1>12, <1>13 DEF TablesTree, To
----------------------------------------------------------------------------
\* The invariant holds throughout.
THEOREM VMMInvariant == Spec => []IInv
<1>1. IInv /\ [Next]_vars => IInv'
  BY StepGood
<1> QED
  BY <1>1, InitGood, PTL DEF Spec

(***************************************************************************)
(* Every entry keeps its form and every page taken for a table (vmm.c:14)  *)
(* comes from the physical memory manager.                                 *)
(***************************************************************************)
THEOREM TypeCorrect == Spec => []TypeOK
<1>1. IInv => TypeOK
  BY InvTree
<1> QED
  BY <1>1, VMMInvariant, PTL

(***************************************************************************)
(* The tables are a tree (vmm.c:14-50): no page is linked twice, none that *)
(* was taken is lost, whatever vmm_map_page leaves behind when it fails.   *)
(***************************************************************************)
THEOREM TablesAreATree == Spec => []TablesTree
<1>1. IInv => TablesTree
  BY InvTree
<1> QED
  BY <1>1, VMMInvariant, PTL

(***************************************************************************)
(* vmm_map_page, vmm_unmap_page and vmm_resolve (vmm.c:30-86) implement an *)
(* address space.                                                          *)
(***************************************************************************)
THEOREM AddressSpaceImplemented == Spec => ImplementsAddressSpace
<1>1. IInv /\ [Next]_vars => [Space!Next]_(Space!vars)
  BY StepGood
<1> QED
  BY <1>1, InitSpace, VMMInvariant, PTL DEF Spec, ImplementsAddressSpace, Space!Spec
=============================================================================
