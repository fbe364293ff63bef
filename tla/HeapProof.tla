----------------------------- MODULE HeapProof -----------------------------
(***************************************************************************)
(* Proofs about Heap for every header size, alignment, page size, memory   *)
(* and set of requests.                                                    *)
(*                                                                         *)
(* Each operator on the heap has two lemmas: one that reads off the fields *)
(* of its result (a ...Fields lemma, about a ...ed relation), and one that *)
(* the result is good if the heap was.  The theorems at the end compose    *)
(* them along the actions.  That every block is reached from heap_head is  *)
(* carried along as a closure property (Reached); that the walk kmalloc    *)
(* makes meets them all and ends follows from it by counting (WalkCoherent).*)
(***************************************************************************)
EXTENDS Heap, Counting

USE DEF NULL

\* The fields of a heap, without the record.
Typed(h) ==
    /\ h.size \in [Addr -> Nat] /\ h.free \in [Addr -> BOOLEAN]
    /\ h.next \in [Addr -> Addr \cup {NULL}]
    /\ h.prev \in [Addr -> Addr \cup {NULL}]
    /\ h.head \in Addr \cup {NULL}
    /\ h.linked \subseteq Addr /\ h.stale \subseteq Addr /\ h.mem \subseteq Addr
    /\ h.bases \subseteq Addr /\ h.seam \in BOOLEAN

\* The parts of the inductive invariant that speak of the heap alone.
Ordered(h) == \A a, b \in h.linked : a < b => End(h, a) <= b
Covered(h) == \A a \in h.linked :
                 /\ End(h, a) <= TOP + 1
                 /\ \A x \in Addr : (a <= x /\ x < End(h, a)) => x \in h.mem
Filled(h) == \A x \in h.mem : \E a \in h.linked : a <= x /\ x < End(h, a)
Doubly(h) ==
    /\ h.head # NULL => h.head \in h.linked /\ h.prev[h.head] = NULL
    /\ \A a \in h.linked :
          /\ h.next[a] # NULL => h.next[a] \in h.linked /\ h.prev[h.next[a]] = a
          /\ h.prev[a] # NULL => h.prev[a] \in h.linked /\ h.next[h.prev[a]] = a
\* No set of blocks but the whole list has the head and all its successors.
Reached(h) ==
    /\ h.head = NULL => h.linked = {}
    /\ \A S \in SUBSET h.linked :
          (h.head \in S /\ \A a \in S : h.next[a] # NULL => h.next[a] \in S)
              => h.linked \subseteq S
Rejected(h) == \A s \in h.stale : h.free[s] /\ s \notin h.linked /\ s \in h.mem
Based(h) == h.head \in h.bases \cup {NULL}

Good(h) == /\ Ordered(h) /\ Covered(h) /\ Filled(h)
           /\ Doubly(h) /\ Reached(h) /\ Rejected(h) /\ Based(h)

\* The numbers the proofs reckon with.
LEMMA Numbers ==
    /\ HDR \in Nat /\ HDR > 0 /\ TOP \in Nat
    /\ Addr \subseteq Nat /\ 0 \notin Addr
    /\ \A x \in Nat : x \in Addr <=> 0 < x /\ x <= TOP
BY HeaderAssumption, TopAssumption DEF Addr

\* There are finitely many addresses.
LEMMA AddrFinite == \A S \in SUBSET Addr : IsFiniteSet(S)
<1>1. IsFiniteSet(Addr)
  BY TopAssumption, FS_Interval DEF Addr
<1> QED
  BY <1>1, FS_Subset

\* A heap has typed fields.
LEMMA HeapsTyped == \A h \in Heaps : Typed(h)
BY DEF Heaps, Typed

\* A block on the list has an address, a size and an end beyond its header.
LEMMA Extents ==
    \A h \in Heaps : \A c \in h.linked :
        /\ c \in Addr /\ c \in Nat /\ h.size[c] \in Nat
        /\ End(h, c) \in Nat /\ c < End(h, c)
<1> TAKE h \in Heaps
<1> TAKE c \in h.linked
<1>1. c \in Addr /\ c \in Nat /\ h.size[c] \in Nat
  BY HeapsTyped, Numbers DEF Typed
<1> QED
  BY <1>1, Numbers DEF End

\* Block b and its neighbour are not both free blocks of one region; of all
\* blocks, and of all but b and the one before it, and of all but the latter.
ApartAt(h, b) ==
    (h.free[b] /\ h.next[b] \notin h.bases \cup {NULL}) => ~h.free[h.next[b]]
Apart(h) == \A c \in h.linked : ApartAt(h, c)
ApartAround(h, b) == \A c \in h.linked : c # b /\ h.next[c] # b => ApartAt(h, c)
ApartBefore(h, b) == \A c \in h.linked : h.next[c] # b => ApartAt(h, c)

\* g has the blocks in use of h, with their sizes.
Keeps(h, g) == InUse(g) = InUse(h) /\ \A c \in InUse(h) : g.size[c] = h.size[c]
----------------------------------------------------------------------------
Absorbed(h, g, a, n) ==
    /\ g.size = [h.size EXCEPT ![a] = h.size[a] + HDR + h.size[n]]
    /\ g.free = h.free
    /\ g.next = [h.next EXCEPT ![a] = h.next[n]]
    /\ g.prev = SetPrev(h, h.next[n], a)
    /\ g.head = h.head
    /\ g.linked = h.linked \ {n}
    /\ g.stale = h.stale \cup {n}
    /\ g.mem = h.mem
    /\ g.bases = h.bases
    /\ g.seam = (h.seam \/ n # End(h, a))
    /\ g.used = h.used

\* The heap after one half of coalesce.
LEMMA AbsorbFields ==
    \A h \in Heaps : \A a, n \in Addr :
        Absorb(h, a, n) \in Heaps /\ Absorbed(h, Absorb(h, a, n), a, n)
<1> TAKE h \in Heaps
<1> TAKE a, n \in Addr
<1> DEFINE g == Absorb(h, a, n)
<1>1. g = [h EXCEPT !.size = [h.size EXCEPT ![a] = h.size[a] + HDR + h.size[n]],
                    !.next = [h.next EXCEPT ![a] = h.next[n]],
                    !.prev = SetPrev(h, h.next[n], a),
                    !.linked = h.linked \ {n},
                    !.stale = h.stale \cup {n},
                    !.seam = h.seam \/ n # End(h, a)]
  BY DEF Absorb, Heaps
<1>2. /\ [h.size EXCEPT ![a] = h.size[a] + HDR + h.size[n]] \in [Addr -> Nat]
      /\ [h.next EXCEPT ![a] = h.next[n]] \in [Addr -> Addr \cup {NULL}]
      /\ SetPrev(h, h.next[n], a) \in [Addr -> Addr \cup {NULL}]
      /\ h.linked \ {n} \in SUBSET Addr
      /\ h.stale \cup {n} \in SUBSET Addr
  BY HeaderAssumption DEF Heaps, SetPrev
<1>3. (h.seam \/ n # End(h, a)) \in BOOLEAN
  OBVIOUS
<1> HIDE DEF g
<1>4. g \in Heaps
  BY <1>1, <1>2, <1>3 DEF Heaps
<1>5. Absorbed(h, g, a, n)
  BY <1>1, <1>4 DEF Heaps, Absorbed
<1> QED
  BY <1>4, <1>5 DEF g

\* Joining two neighbours that touch keeps the heap good.
LEMMA AbsorbGood ==
    ASSUME NEW h \in Heaps, Good(h),
           NEW a \in h.linked, NEW n \in h.linked,
           h.next[a] = n, h.free[n], n = End(h, a)
    PROVE  Good(Absorb(h, a, n))
<1> DEFINE g == Absorb(h, a, n)
<1>1. Typed(h) /\ a \in Addr /\ n \in Addr
  BY HeapsTyped DEF Typed
<1>2. Absorbed(h, g, a, n)
  BY <1>1, AbsorbFields, Zenon
<1> HIDE DEF g
<1>3. a \in Nat /\ n \in Nat /\ a < n
  BY <1>1, Numbers DEF End, Typed
<1>4. /\ \A c \in h.linked : End(h, c) \in Nat /\ c \in Nat /\ c \in Addr /\ c < End(h, c)
      /\ End(h, a) = n
  BY Extents
<1>5. End(g, a) = End(h, n)
  <2>1. g.size[a] = h.size[a] + HDR + h.size[n]
    BY <1>1, <1>2 DEF Absorbed, Typed
  <2>2. h.size[a] \in Nat /\ h.size[n] \in Nat
    BY <1>1 DEF Typed
  <2> QED
    BY <1>3, <1>4, <2>1, <2>2, Numbers DEF End
<1>6. \A c \in g.linked : c # a => End(g, c) = End(h, c)
  BY <1>1, <1>2, Numbers DEF End, Absorbed, Typed
<1>7. g.linked = h.linked \ {n} /\ g.mem = h.mem
  BY <1>2 DEF Absorbed
<1>8. Ordered(g)
  BY <1>3, <1>4, <1>5, <1>6, <1>7 DEF Ordered, Good
<1>9. Covered(g)
  BY <1>3, <1>4, <1>5, <1>6, <1>7, Numbers DEF Covered, Good
<1>10. Filled(g)
  <2> SUFFICES ASSUME NEW x \in g.mem
               PROVE  \E c \in g.linked : c <= x /\ x < End(g, c)
    BY DEF Filled
  <2>1. PICK c \in h.linked : c <= x /\ x < End(h, c)
    BY <1>7 DEF Filled, Good
  <2>2. x \in Nat
    BY <1>1, <1>7, Numbers DEF Typed
  <2>3. CASE c = n \/ c = a
    <3>1. a <= x /\ x < End(g, a)
      BY <1>3, <1>4, <1>5, <2>1, <2>2, <2>3
    <3> QED
      BY <1>3, <1>7, <3>1
  <2>4. CASE c # n /\ c # a
    BY <1>6, <1>7, <2>1, <2>4
  <2> QED
    BY <2>3, <2>4
<1>11. Doubly(g)
  BY <1>1, <1>2, <1>3, Numbers DEF Doubly, Good, SetPrev, Absorbed, Typed
<1>12. Rejected(g)
  <2>1. n \in h.mem
    BY <1>1, <1>4 DEF Covered, Good
  <2> QED
    BY <1>2, <2>1 DEF Rejected, Good, Absorbed
<1>13. Based(g)
  BY <1>2 DEF Based, Good, Absorbed
<1>14. Reached(g)
  <2>1. g.head = h.head /\ g.next = [h.next EXCEPT ![a] = h.next[n]]
    BY <1>2 DEF Absorbed
  <2>2. h.head # n /\ h.prev[n] = a /\ a # NULL /\ a # n
    <3>1. a # NULL /\ n # NULL /\ a # n
      BY <1>1, <1>3, Numbers
    <3> QED
      BY <3>1 DEF Good, Doubly
  <2>3. h.head = NULL => g.linked = {}
    BY <1>7 DEF Good, Reached
  <2>4. ASSUME NEW S \in SUBSET g.linked, g.head \in S,
               \A c \in S : g.next[c] # NULL => g.next[c] \in S
        PROVE  g.linked \subseteq S
    <3> DEFINE T == IF a \in S THEN S \cup {n} ELSE S
    <3>1. T \in SUBSET h.linked /\ h.head \in T
      BY <1>7, <2>1, <2>4
    <3>2. \A c \in T : h.next[c] # NULL => h.next[c] \in T
      <4> SUFFICES ASSUME NEW c \in T, h.next[c] # NULL PROVE h.next[c] \in T
        OBVIOUS
      <4>1. c \in h.linked /\ c \in Addr
        BY <1>4, <3>1
      <4>2. CASE c = a
        BY <1>7, <4>2, <2>2
      <4>3. CASE c = n
        <5>1. a \in S /\ g.next[a] = h.next[n]
          BY <1>1, <1>7, <2>1, <4>3 DEF Typed
        <5> QED
          BY <2>4, <4>3, <5>1
      <4>4. CASE c # a /\ c # n
        <5>1. g.next[c] = h.next[c] /\ c \in S
          BY <1>1, <2>1, <4>1, <4>4 DEF Typed
        <5> QED
          BY <2>4, <5>1
      <4> QED
        BY <4>2, <4>3, <4>4
    <3>3. h.linked \subseteq T
      BY <3>1, <3>2 DEF Good, Reached
    <3> QED
      BY <1>7, <2>2, <3>3
  <2> QED
    BY <2>1, <2>3, <2>4 DEF Reached
<1> QED
  BY <1>8, <1>9, <1>10, <1>11, <1>12, <1>13, <1>14 DEF Good, g

\* The blocks in use are untouched when the block that grows is free.
LEMMA AbsorbKeeps ==
    ASSUME NEW h \in Heaps, NEW a \in Addr, NEW n \in Addr, h.free[a], h.free[n]
    PROVE  Keeps(h, Absorb(h, a, n))
<1>1. Absorbed(h, Absorb(h, a, n), a, n) /\ Typed(h)
  BY AbsorbFields, HeapsTyped, Zenon
<1> QED
  BY <1>1 DEF Absorbed, Keeps, InUse, Typed
----------------------------------------------------------------------------
Claimed(h, g, b) ==
    /\ g.size = h.size /\ g.next = h.next /\ g.prev = h.prev /\ g.head = h.head
    /\ g.free = [h.free EXCEPT ![b] = FALSE]
    /\ g.linked = h.linked /\ g.mem = h.mem /\ g.bases = h.bases /\ g.seam = h.seam
    /\ g.stale = h.stale \ Extent(h, b)
    /\ g.used = h.used + h.size[b]

\* The heap after its block b went to a client.
LEMMA ClaimFields ==
    \A h \in Heaps : \A b \in Addr : Claim(h, b) \in Heaps /\ Claimed(h, Claim(h, b), b)
<1> TAKE h \in Heaps
<1> TAKE b \in Addr
<1>1. Claim(h, b) = [h EXCEPT !.free = [h.free EXCEPT ![b] = FALSE],
                              !.used = h.used + h.size[b],
                              !.stale = h.stale \ Extent(h, b)]
  BY DEF Claim, Heaps
<1>2. /\ [h.free EXCEPT ![b] = FALSE] \in [Addr -> BOOLEAN]
      /\ h.used + h.size[b] \in Int
      /\ h.stale \ Extent(h, b) \in SUBSET Addr
  BY DEF Heaps
<1>3. Claim(h, b) \in Heaps
  BY <1>1, <1>2 DEF Heaps
<1> QED
  BY <1>1, <1>3 DEF Heaps, Claimed

\* Handing a block to a client.
LEMMA ClaimGood ==
    ASSUME NEW h \in Heaps, Good(h), NEW b \in h.linked
    PROVE  LET g == Claim(h, b)
           IN  /\ Good(g)
               /\ InUse(g) = InUse(h) \cup {b}
<1> DEFINE g == Claim(h, b)
<1>1. Typed(h) /\ b \in Addr
  BY HeapsTyped DEF Typed
<1>2. Claimed(h, g, b)
  BY <1>1, ClaimFields, Zenon
<1> HIDE DEF g
<1>3. \A c : End(g, c) = End(h, c)
  BY <1>2 DEF Claimed, End
<1>4. Ordered(g) /\ Covered(g) /\ Filled(g)
  BY <1>2, <1>3 DEF Claimed, Good, Ordered, Covered, Filled
<1>5. Doubly(g)
  BY <1>2 DEF Claimed, Good, Doubly
<1>6. Rejected(g)
  BY <1>1, <1>2 DEF Claimed, Good, Rejected, Typed
<1>7. InUse(g) = InUse(h) \cup {b}
  BY <1>1, <1>2 DEF Claimed, InUse, Typed
<1>8. Reached(g) /\ Based(g)
  BY <1>2 DEF Reached, Based, Good, Claimed
<1> QED
  BY <1>4, <1>5, <1>6, <1>7, <1>8 DEF Good, g
----------------------------------------------------------------------------
\* kfree marks the block before it coalesces.
Mark(h, b) == [h EXCEPT !.free[b] = TRUE, !.used = @ - h.size[b]]

Marked(h, g, b) ==
    /\ g.size = h.size /\ g.next = h.next /\ g.prev = h.prev /\ g.head = h.head
    /\ g.free = [h.free EXCEPT ![b] = TRUE]
    /\ g.linked = h.linked /\ g.mem = h.mem /\ g.bases = h.bases /\ g.seam = h.seam
    /\ g.stale = h.stale
    /\ g.used = h.used - h.size[b]

\* The heap after kfree has set the flag of b.
LEMMA MarkFields ==
    \A h \in Heaps : \A b \in Addr : Mark(h, b) \in Heaps /\ Marked(h, Mark(h, b), b)
<1> TAKE h \in Heaps
<1> TAKE b \in Addr
<1>1. Mark(h, b) = [h EXCEPT !.free = [h.free EXCEPT ![b] = TRUE],
                             !.used = h.used - h.size[b]]
  BY DEF Mark, Heaps
<1>2. /\ [h.free EXCEPT ![b] = TRUE] \in [Addr -> BOOLEAN]
      /\ h.used - h.size[b] \in Int
  BY DEF Heaps
<1>3. Mark(h, b) \in Heaps
  BY <1>1, <1>2 DEF Heaps
<1> QED
  BY <1>1, <1>3 DEF Heaps, Marked

\* Setting the flag takes b, and no other block, out of use.
LEMMA MarkGood ==
    ASSUME NEW h \in Heaps, Good(h), NEW b \in h.linked
    PROVE  LET g == Mark(h, b)
           IN  /\ Good(g)
               /\ InUse(g) = InUse(h) \ {b}
<1> DEFINE g == Mark(h, b)
<1>1. Typed(h) /\ b \in Addr
  BY HeapsTyped DEF Typed
<1>2. Marked(h, g, b)
  BY <1>1, MarkFields, Zenon
<1> HIDE DEF g
<1>3. \A c : End(g, c) = End(h, c)
  BY <1>2 DEF Marked, End
<1>4. Ordered(g) /\ Covered(g) /\ Filled(g)
  BY <1>2, <1>3 DEF Marked, Good, Ordered, Covered, Filled
<1>5. Doubly(g)
  BY <1>2 DEF Marked, Good, Doubly
<1>6. Rejected(g)
  BY <1>1, <1>2 DEF Marked, Good, Rejected, Typed
<1>7. InUse(g) = InUse(h) \ {b}
  BY <1>1, <1>2 DEF Marked, InUse, Typed
<1>8. Reached(g) /\ Based(g)
  BY <1>2 DEF Reached, Based, Good, Marked
<1> QED
  BY <1>4, <1>5, <1>6, <1>7, <1>8 DEF Good, g
----------------------------------------------------------------------------
Splits(h, b, need) == h.size[b] >= need + HDR + HEAP_MIN

SplitAt(h, g, b, need, n) ==
    /\ g.size = [h.size EXCEPT ![n] = h.size[b] - need - HDR, ![b] = need]
    /\ g.free = [h.free EXCEPT ![n] = TRUE]
    /\ g.next = [h.next EXCEPT ![n] = h.next[b], ![b] = n]
    /\ g.prev = [SetPrev(h, h.next[b], n) EXCEPT ![n] = b]
    /\ g.head = h.head
    /\ g.linked = h.linked \cup {n}
    /\ g.stale = h.stale \ Trampled(h, n)
    /\ g.mem = h.mem /\ g.bases = h.bases /\ g.seam = h.seam /\ g.used = h.used

\* The heap after kmalloc has cut a block off the tail of b.
LEMMA SplitFields ==
    ASSUME NEW h \in Heaps, NEW b \in Addr, NEW need \in Nat, NEW n \in Addr,
           n = b + HDR + need, Splits(h, b, need)
    PROVE  Split(h, b, need) \in Heaps /\ SplitAt(h, Split(h, b, need), b, need, n)
<1> DEFINE g == Split(h, b, need)
           size == [h.size EXCEPT ![n] = h.size[b] - need - HDR, ![b] = need]
           prev == [SetPrev(h, h.next[b], n) EXCEPT ![n] = b]
           next == [h.next EXCEPT ![n] = h.next[b], ![b] = n]
<1>1. Typed(h) /\ HEAP_MIN \in Nat /\ h.size[b] \in Nat /\ HDR \in Nat
  BY HeapsTyped, AlignAssumption, Numbers DEF Typed
<1>2. ~(h.size[b] < need + HDR + HEAP_MIN)
  BY <1>1 DEF Splits
<1>3. g = [h EXCEPT !.size = size,
                    !.free = [h.free EXCEPT ![n] = TRUE],
                    !.next = next,
                    !.prev = prev,
                    !.linked = h.linked \cup {n},
                    !.stale = h.stale \ Trampled(h, n)]
  BY <1>2 DEF Split, Heaps
<1>4. h.size[b] - need - HDR \in Nat
  BY <1>1 DEF Splits
<1>5. /\ size \in [Addr -> Nat] /\ next \in [Addr -> Addr \cup {NULL}]
      /\ prev \in [Addr -> Addr \cup {NULL}]
      /\ [h.free EXCEPT ![n] = TRUE] \in [Addr -> BOOLEAN]
      /\ h.linked \cup {n} \in SUBSET Addr
      /\ h.stale \ Trampled(h, n) \in SUBSET Addr
  BY <1>1, <1>4 DEF Typed, SetPrev
<1> HIDE DEF g, size, prev, next
<1>6. g \in Heaps
  BY <1>3, <1>5 DEF Heaps
<1>7. SplitAt(h, g, b, need, n)
  BY <1>3, <1>6 DEF Heaps, SplitAt, size, prev, next
<1> QED
  BY <1>6, <1>7 DEF g

\* Splitting a free block that is large enough, or leaving it whole.
LEMMA SplitGood ==
    ASSUME NEW h \in Heaps, Good(h), NEW b \in h.linked, h.free[b],
           NEW need \in Nat, need <= h.size[b]
    PROVE  LET g == Split(h, b, need)
           IN  /\ g \in Heaps /\ Good(g) /\ Keeps(h, g)
               /\ b \in g.linked /\ g.free[b] /\ need <= g.size[b]
               /\ g.seam = h.seam /\ g.used = h.used
               /\ Apart(h) => ApartAround(g, b)
<1> DEFINE g == Split(h, b, need)
           n == b + HDR + need
<1>1. Typed(h) /\ b \in Addr /\ b \in Nat /\ h.size[b] \in Nat
  BY HeapsTyped, Extents DEF Typed
<1>2. CASE ~Splits(h, b, need)
  <2>1. g = h
    BY <1>1, <1>2, AlignAssumption, Numbers DEF Split, Splits
  <2>2. Apart(h) => ApartAround(h, b)
    BY DEF Apart, ApartAround
  <2> QED
    BY <2>1, <2>2 DEF Keeps
<1>3. CASE Splits(h, b, need)
  <2>1. n \in Nat /\ b < n /\ n < End(h, b) /\ n + HDR <= End(h, b) /\ HEAP_MIN \in Nat
    BY <1>1, <1>3, AlignAssumption, Numbers DEF End, Splits
  <2>2. n \in Addr
    BY <1>1, <2>1, Numbers, Extents DEF Good, Covered
  <2>3. n \notin h.linked
    BY <2>1, Extents DEF Good, Ordered
  <2>4. g \in Heaps /\ SplitAt(h, g, b, need, n)
    BY <1>1, <1>3, <2>2, SplitFields
  <2> HIDE DEF g
  <2>5. \A c \in h.linked : /\ c \in Nat /\ c \in Addr /\ End(h, c) \in Nat /\ c < End(h, c)
    BY Extents
  <2>6. End(g, b) = n /\ End(g, n) = End(h, b)
    <3>1. g.size[b] = need /\ g.size[n] = h.size[b] - need - HDR
      BY <1>1, <2>1, <2>2, <2>4 DEF SplitAt, Typed
    <3> QED
      BY <1>1, <3>1, Numbers DEF End
  <2>7. \A c \in h.linked : c # b => End(g, c) = End(h, c)
    BY <1>1, <2>2, <2>3, <2>4 DEF SplitAt, Typed, End
  <2>8. g.linked = h.linked \cup {n} /\ g.mem = h.mem
    BY <2>4 DEF SplitAt
  <2> HIDE DEF n
  <2>9. Ordered(g)
    BY <2>1, <2>3, <2>5, <2>6, <2>7, <2>8 DEF Ordered, Good
  <2>10. Covered(g)
    BY <2>1, <2>5, <2>6, <2>7, <2>8, Numbers DEF Covered, Good
  <2>11. Filled(g)
    <3> SUFFICES ASSUME NEW x \in g.mem
                 PROVE  \E c \in g.linked : c <= x /\ x < End(g, c)
      BY DEF Filled
    <3>1. PICK c \in h.linked : c <= x /\ x < End(h, c)
      BY <2>8 DEF Filled, Good
    <3>2. x \in Nat
      BY <1>1, <2>8, Numbers DEF Typed
    <3>3. CASE c = b /\ x < n
      BY <2>6, <2>8, <3>1, <3>3
    <3>4. CASE c = b /\ ~(x < n)
      BY <2>1, <2>6, <2>8, <3>1, <3>2, <3>4
    <3>5. CASE c # b
      BY <2>7, <2>8, <3>1, <3>5
    <3> QED
      BY <3>3, <3>4, <3>5
  <2>12. Doubly(g)
    BY <1>1, <2>1, <2>2, <2>3, <2>4, Numbers DEF Doubly, Good, SetPrev, SplitAt, Typed
  <2>13. Rejected(g)
    <3>1. n \in Trampled(h, n) \/ n \notin h.stale
      BY <2>1, Numbers DEF Trampled
    <3> QED
      BY <1>1, <2>2, <2>4, <3>1 DEF Rejected, Good, SplitAt, Typed
  <2>14. Keeps(h, g)
    BY <1>1, <2>2, <2>3, <2>4 DEF Keeps, InUse, SplitAt, Typed
  <2>15. b \in g.linked /\ g.free[b] /\ need <= g.size[b] /\ g.seam = h.seam
    BY <1>1, <2>2, <2>4, <2>1 DEF SplitAt, Typed
  <2>16. Based(g)
    BY <2>4 DEF Based, Good, SplitAt
  <2>17. Reached(g)
    <3>1. g.head = h.head /\ g.next = [h.next EXCEPT ![n] = h.next[b], ![b] = n]
      BY <2>4 DEF SplitAt
    <3>2. g.next[b] = n /\ g.next[n] = h.next[b] /\ b # n /\ n # NULL
          /\ \A c \in h.linked : c # b => g.next[c] = h.next[c]
      BY <1>1, <2>1, <2>2, <2>3, <2>5, <3>1, Numbers DEF Typed
    <3>3. h.head # NULL /\ h.head \in h.linked
      BY DEF Good, Reached, Doubly
    <3>4. ASSUME NEW S \in SUBSET g.linked, g.head \in S,
                 \A c \in S : g.next[c] # NULL => g.next[c] \in S
          PROVE  g.linked \subseteq S
      <4> DEFINE T == S \ {n}
      <4>1. T \in SUBSET h.linked /\ h.head \in T
        BY <2>3, <2>8, <3>1, <3>3, <3>4
      <4>2. \A c \in T : h.next[c] # NULL => h.next[c] \in T
        <5> SUFFICES ASSUME NEW c \in T, h.next[c] # NULL PROVE h.next[c] \in T
          OBVIOUS
        <5>1. h.next[c] \in h.linked /\ h.next[c] # n
          BY <2>3, <4>1 DEF Good, Doubly
        <5>2. CASE c = b
          BY <3>2, <3>4, <5>1, <5>2
        <5>3. CASE c # b
          BY <3>2, <3>4, <4>1, <5>1, <5>3
        <5> QED
          BY <5>2, <5>3
      <4>3. h.linked \subseteq T
        BY <4>1, <4>2 DEF Good, Reached
      <4>4. n \in S
        BY <3>2, <3>4, <4>3
      <4> QED
        BY <2>8, <4>3, <4>4
    <3> QED
      BY <3>1, <3>3, <3>4 DEF Reached
  <2>18. g.used = h.used
    BY <2>4 DEF SplitAt
  <2>19. ASSUME Apart(h) PROVE ApartAround(g, b)
    <3> SUFFICES ASSUME NEW c \in g.linked, c # b PROVE ApartAt(g, c)
      BY DEF ApartAround
    <3>1. /\ g.free = [h.free EXCEPT ![n] = TRUE] /\ g.bases = h.bases
          /\ g.next = [h.next EXCEPT ![n] = h.next[b], ![b] = n]
      BY <2>4 DEF SplitAt
    <3>2. CASE c = n
      <4>1. g.next[c] = h.next[b] /\ h.next[b] # n
        BY <1>1, <2>2, <2>3, <3>1, <3>2, Numbers DEF Typed, Good, Doubly
      <4>2. ApartAt(h, b) /\ h.next[b] \in Addr \cup {NULL}
        BY <1>1, <2>19 DEF Apart, Typed
      <4> QED
        BY <1>1, <2>2, <3>1, <4>1, <4>2 DEF ApartAt, Typed
    <3>3. CASE c # n
      <4>1. c \in h.linked /\ c \in Addr
        BY <2>5, <2>8, <3>3
      <4>2. g.next[c] = h.next[c] /\ g.free[c] = h.free[c] /\ h.next[c] # n
        BY <1>1, <2>2, <2>3, <3>1, <3>3, <4>1, Numbers DEF Typed, Good, Doubly
      <4>3. ApartAt(h, c) /\ h.next[c] \in Addr \cup {NULL}
        BY <1>1, <2>19, <4>1 DEF Apart, Typed
      <4> QED
        BY <1>1, <2>2, <3>1, <4>1, <4>2, <4>3 DEF ApartAt, Typed
    <3> QED
      BY <3>2, <3>3
  <2> QED
    BY <2>4, <2>9, <2>10, <2>11, <2>12, <2>13, <2>14, <2>15, <2>16, <2>17, <2>18, <2>19
       DEF Good, g
<1> QED
  BY <1>2, <1>3
----------------------------------------------------------------------------
Added(h, g, b, len) ==
    /\ g.size = [h.size EXCEPT ![b] = len - HDR]
    /\ g.free = [h.free EXCEPT ![b] = TRUE]
    /\ g.next = [h.next EXCEPT ![b] = h.head]
    /\ g.prev = [SetPrev(h, h.head, b) EXCEPT ![b] = NULL]
    /\ g.head = b
    /\ g.linked = h.linked \cup {b}
    /\ g.stale = h.stale
    /\ g.mem = h.mem \cup (b .. b + len - 1)
    /\ g.bases = h.bases \cup {b}
    /\ g.seam = h.seam /\ g.used = h.used

\* The heap after heap_add_region.
LEMMA AddFields ==
    ASSUME NEW h \in Heaps, NEW b \in Addr, NEW len \in Nat,
           HDR <= len, b + len - 1 <= TOP
    PROVE  /\ heap_add_region(h, b, len) \in Heaps
           /\ Added(h, heap_add_region(h, b, len), b, len)
<1> DEFINE g == heap_add_region(h, b, len)
           prev == [SetPrev(h, h.head, b) EXCEPT ![b] = NULL]
           mem == h.mem \cup (b .. b + len - 1)
<1>1. Typed(h) /\ h.total \in Nat
  BY HeapsTyped DEF Heaps
<1>2. g = [h EXCEPT !.size = [h.size EXCEPT ![b] = len - HDR],
                    !.free = [h.free EXCEPT ![b] = TRUE],
                    !.next = [h.next EXCEPT ![b] = h.head],
                    !.prev = prev,
                    !.head = b,
                    !.total = h.total + len,
                    !.linked = h.linked \cup {b},
                    !.mem = mem,
                    !.bases = h.bases \cup {b}]
  BY DEF heap_add_region, Heaps
<1>3. (b .. b + len - 1) \subseteq Addr
  BY Numbers DEF Addr
<1>4. len - HDR \in Nat /\ h.total + len \in Nat
  BY <1>1, Numbers
<1>5. /\ [h.size EXCEPT ![b] = len - HDR] \in [Addr -> Nat]
      /\ [h.free EXCEPT ![b] = TRUE] \in [Addr -> BOOLEAN]
      /\ [h.next EXCEPT ![b] = h.head] \in [Addr -> Addr \cup {NULL}]
      /\ prev \in [Addr -> Addr \cup {NULL}]
      /\ h.linked \cup {b} \in SUBSET Addr
      /\ mem \in SUBSET Addr
      /\ h.bases \cup {b} \in SUBSET Addr
  BY <1>1, <1>3, <1>4 DEF Typed, SetPrev
<1> HIDE DEF g, prev, mem
<1>6. g \in Heaps
  BY <1>2, <1>4, <1>5 DEF Heaps
<1>7. Added(h, g, b, len)
  BY <1>2, <1>6 DEF Heaps, Added, prev, mem
<1> QED
  BY <1>6, <1>7 DEF g

\* A region that the heap does not have yet becomes its first block.
LEMMA AddGood ==
    ASSUME NEW h \in Heaps, Good(h), NEW b \in Addr, NEW len \in Nat,
           HDR <= len, b + len - 1 <= TOP, (b .. b + len - 1) \cap h.mem = {}
    PROVE  LET g == heap_add_region(h, b, len)
           IN  /\ g \in Heaps /\ Good(g) /\ Keeps(h, g)
               /\ b \in g.linked /\ g.free[b] /\ g.size[b] = len - HDR
               /\ g.seam = h.seam /\ g.used = h.used
               /\ Apart(h) => Apart(g)
<1> DEFINE g == heap_add_region(h, b, len)
<1>1. Typed(h) /\ b \in Nat /\ HDR \in Nat /\ HDR > 0 /\ TOP \in Nat
  BY HeapsTyped, Numbers
<1>2. g \in Heaps /\ Added(h, g, b, len)
  BY AddFields
<1> HIDE DEF g
<1>3. \A c \in h.linked : /\ c \in Nat /\ c \in Addr /\ End(h, c) \in Nat /\ c < End(h, c)
  BY Extents
<1>4. \A x \in Nat : b <= x /\ x < b + len => x \notin h.mem
  BY <1>1
<1>5. \A c \in h.linked : c # b /\ (End(h, c) <= b \/ b + len <= c)
  <2> TAKE c \in h.linked
  <2>1. c \in h.mem
    BY <1>3 DEF Good, Covered
  <2>2. (c <= b /\ b < End(h, c)) => b \in h.mem
    BY DEF Good, Covered
  <2> QED
    BY <1>1, <1>3, <1>4, <2>1, <2>2
<1>6. b \notin h.linked
  BY <1>5
<1>7. End(g, b) = b + len
  <2>1. g.size[b] = len - HDR
    BY <1>1, <1>2 DEF Added, Typed
  <2> QED
    BY <1>1, <2>1 DEF End
<1>8. \A c \in h.linked : End(g, c) = End(h, c)
  BY <1>1, <1>2, <1>6 DEF Added, Typed, End
<1>9. g.linked = h.linked \cup {b} /\ g.mem = h.mem \cup (b .. b + len - 1)
  BY <1>2 DEF Added
<1>10. Ordered(g)
  BY <1>1, <1>3, <1>5, <1>7, <1>8, <1>9 DEF Ordered, Good
<1>11. Covered(g)
  <2> SUFFICES ASSUME NEW c \in g.linked
               PROVE  /\ End(g, c) <= TOP + 1
                      /\ \A x \in Addr : (c <= x /\ x < End(g, c)) => x \in g.mem
    BY DEF Covered
  <2>1. CASE c = b
    BY <1>1, <1>7, <1>9, <2>1, Numbers
  <2>2. CASE c # b
    BY <1>8, <1>9, <2>2 DEF Good, Covered
  <2> QED
    BY <2>1, <2>2
<1>12. Filled(g)
  BY <1>1, <1>7, <1>8, <1>9 DEF Filled, Good
<1>13. Doubly(g)
  BY <1>1, <1>2, <1>6, Numbers DEF Doubly, Good, SetPrev, Added, Typed
<1>14. Rejected(g)
  <2>1. b \notin h.mem
    <3>1. b \in b .. b + len - 1
      BY <1>1
    <3> QED
      BY <3>1
  <2> QED
    BY <1>1, <1>2, <2>1 DEF Rejected, Good, Added, Typed
<1>15. Keeps(h, g)
  BY <1>1, <1>2, <1>6 DEF Keeps, InUse, Added, Typed
<1>16. b \in g.linked /\ g.free[b] /\ g.size[b] = len - HDR /\ g.seam = h.seam
  BY <1>1, <1>2 DEF Added, Typed
<1>17. Based(g)
  BY <1>2 DEF Based, Added
<1>18. Reached(g)
  <2>1. g.head = b /\ g.next = [h.next EXCEPT ![b] = h.head] /\ b # NULL
    BY <1>2, Numbers DEF Added
  <2>2. g.next[b] = h.head /\ \A c \in h.linked : g.next[c] = h.next[c]
    BY <1>1, <1>3, <1>6, <2>1 DEF Typed
  <2>3. ASSUME NEW S \in SUBSET g.linked, g.head \in S,
               \A c \in S : g.next[c] # NULL => g.next[c] \in S
        PROVE  g.linked \subseteq S
    <3> DEFINE T == S \ {b}
    <3>1. T \in SUBSET h.linked
      BY <1>9
    <3>2. \A c \in T : h.next[c] # NULL => h.next[c] \in T
      BY <1>6, <2>2, <2>3, <3>1 DEF Good, Doubly
    <3>3. h.head # NULL => h.head \in T
      BY <1>6, <2>1, <2>2, <2>3 DEF Good, Doubly
    <3>4. h.linked \subseteq T
      BY <3>1, <3>2, <3>3 DEF Good, Reached
    <3> QED
      BY <1>9, <2>1, <2>3, <3>4
  <2> QED
    BY <2>1, <2>3 DEF Reached
<1>19. ASSUME Apart(h) PROVE Apart(g)
  <2> SUFFICES ASSUME NEW c \in g.linked PROVE ApartAt(g, c)
    BY DEF Apart
  <2>1. /\ g.free = [h.free EXCEPT ![b] = TRUE] /\ g.bases = h.bases \cup {b}
        /\ g.next = [h.next EXCEPT ![b] = h.head]
    BY <1>2 DEF Added
  <2>2. CASE c = b
    BY <1>1, <2>1, <2>2 DEF Typed, ApartAt, Good, Based
  <2>3. CASE c # b
    <3>1. c \in h.linked /\ c \in Addr
      BY <1>3, <1>9, <2>3
    <3>2. g.next[c] = h.next[c] /\ g.free[c] = h.free[c]
      BY <1>1, <2>1, <2>3, <3>1 DEF Typed
    <3>3. ApartAt(h, c) /\ h.next[c] \in Addr \cup {NULL}
      BY <1>1, <1>19, <3>1 DEF Apart, Typed
    <3> QED
      BY <1>1, <2>1, <3>2, <3>3 DEF ApartAt, Typed
  <2> QED
    BY <2>2, <2>3
<1>20. g.used = h.used
  BY <1>2 DEF Added
<1> QED
  BY <1>2, <1>10, <1>11, <1>12, <1>13, <1>14, <1>15, <1>16, <1>17, <1>18, <1>19, <1>20
     DEF Good, g
----------------------------------------------------------------------------
\* kmalloc once it has found its block.
LEMMA TakeGood ==
    ASSUME NEW h \in Heaps, Good(h), NEW b \in h.linked, h.free[b],
           NEW need \in Nat, need <= h.size[b]
    PROVE  LET g == Take(h, b, need)
           IN  /\ g \in Heaps /\ Good(g) /\ g.seam = h.seam
               /\ InUse(g) = InUse(h) \cup {b}
               /\ \A c \in InUse(h) : g.size[c] = h.size[c]
               /\ need <= g.size[b] /\ b \notin InUse(h)
               /\ g.used = h.used + g.size[b]
               /\ Apart(h) => Apart(g)
<1> DEFINE k == Split(h, b, need)
           g == Claim(k, b)
<1>1. /\ k \in Heaps /\ Good(k) /\ Keeps(h, k)
      /\ b \in k.linked /\ k.free[b] /\ need <= k.size[b] /\ k.seam = h.seam
      /\ k.used = h.used /\ (Apart(h) => ApartAround(k, b))
  BY SplitGood
<1> HIDE DEF k
<1>2. b \in Addr
  BY <1>1, Extents
<1>3. g \in Heaps /\ Claimed(k, g, b)
  BY <1>1, <1>2, ClaimFields, Zenon
<1>4. Good(g) /\ InUse(g) = InUse(k) \cup {b}
  BY <1>1, ClaimGood
<1>5. g.size = k.size /\ g.seam = k.seam
  BY <1>3 DEF Claimed
<1>6. b \notin InUse(h)
  BY DEF InUse
<1>7. Take(h, b, need) = g
  BY DEF Take, k
<1> HIDE DEF g
<1>8. g.used = h.used + g.size[b]
  BY <1>1, <1>3 DEF Claimed
<1>9. ASSUME Apart(h) PROVE Apart(g)
  <2> SUFFICES ASSUME NEW c \in g.linked PROVE ApartAt(g, c)
    BY DEF Apart
  <2>1. Typed(k) /\ c \in k.linked /\ c \in Addr
    BY <1>1, <1>3, HeapsTyped, Extents DEF Claimed
  <2>2. g.next = k.next /\ g.bases = k.bases /\ g.free = [k.free EXCEPT ![b] = FALSE]
    BY <1>3 DEF Claimed
  <2>3. CASE c = b \/ k.next[c] = b
    BY <1>2, <2>1, <2>2, <2>3 DEF Typed, ApartAt
  <2>4. CASE c # b /\ k.next[c] # b
    <3>1. ApartAt(k, c) /\ k.next[c] \in Addr \cup {NULL}
      BY <1>1, <1>9, <2>1, <2>4 DEF ApartAround, Typed
    <3> QED
      BY <2>1, <2>2, <2>4, <3>1 DEF Typed, ApartAt
  <2> QED
    BY <2>3, <2>4
<1> QED
  BY <1>1, <1>3, <1>4, <1>5, <1>6, <1>7, <1>8, <1>9 DEF Keeps
----------------------------------------------------------------------------
\* The first half of coalesce, for a block that is free.
LEMMA AbsorbNextGood ==
    ASSUME NEW h \in Heaps, NEW b \in Addr, h.free[b]
    PROVE  LET g == AbsorbNext(h, b)
           IN  /\ g \in Heaps /\ g.free = h.free
               /\ h.seam => g.seam
               /\ Keeps(h, g) /\ g.used = h.used
               /\ (Good(h) /\ b \in h.linked /\ ~g.seam) =>
                      /\ Good(g) /\ b \in g.linked
                      /\ ApartAround(h, b) => ApartBefore(g, b)
<1> DEFINE g == AbsorbNext(h, b)
           n == h.next[b]
<1>1. Typed(h) /\ n \in Addr \cup {NULL}
  BY HeapsTyped DEF Typed
<1>2. CASE n # NULL /\ h.free[n]
  <2>1. g = Absorb(h, b, n) /\ n \in Addr
    BY <1>1, <1>2 DEF AbsorbNext
  <2>2. g \in Heaps /\ Absorbed(h, g, b, n)
    BY <2>1, AbsorbFields, Zenon
  <2>3. g.free = h.free /\ (h.seam => g.seam) /\ g.used = h.used
    BY <1>1, <2>2 DEF Absorbed, Typed
  <2>4. Keeps(h, g)
    BY <1>2, <2>1, AbsorbKeeps
  <2>5. ASSUME Good(h), b \in h.linked, ~g.seam
        PROVE  /\ Good(g) /\ b \in g.linked
               /\ ApartAround(h, b) => ApartBefore(g, b)
    <3>1. n \in h.linked
      BY <1>2, <2>5 DEF Good, Doubly
    <3>2. n = End(h, b)
      BY <2>2, <2>5 DEF Absorbed
    <3>3. Good(g)
      BY <1>2, <2>1, <2>5, <3>1, <3>2, AbsorbGood
    <3>4. b # n
      BY <2>5, <3>2, Extents
    <3>5. ASSUME ApartAround(h, b) PROVE ApartBefore(g, b)
      <4> SUFFICES ASSUME NEW c \in g.linked, g.next[c] # b PROVE ApartAt(g, c)
        BY DEF ApartBefore
      <4>1. /\ g.free = h.free /\ g.bases = h.bases /\ g.linked = h.linked \ {n}
            /\ g.next = [h.next EXCEPT ![b] = h.next[n]]
        BY <2>2 DEF Absorbed
      <4>2. CASE c = b
        <5>1. g.next[c] = h.next[n] /\ h.next[n] # b
          BY <1>1, <4>1, <4>2 DEF Typed
        <5>2. ApartAt(h, n)
          BY <3>1, <3>4, <3>5, <5>1 DEF ApartAround
        <5> QED
          BY <1>2, <4>1, <5>1, <5>2 DEF ApartAt
      <4>3. CASE c # b
        <5>1. c \in h.linked /\ g.next[c] = h.next[c]
          BY <1>1, <4>1, <4>3 DEF Typed
        <5>2. ApartAt(h, c)
          BY <3>5, <4>3, <5>1 DEF ApartAround
        <5> QED
          BY <4>1, <5>1, <5>2 DEF ApartAt
      <4> QED
        BY <4>2, <4>3
    <3> QED
      BY <2>2, <2>5, <3>3, <3>4, <3>5 DEF Absorbed
  <2> QED
    BY <2>2, <2>3, <2>4, <2>5
<1>3. CASE ~(n # NULL /\ h.free[n])
  <2>1. g = h
    BY <1>3 DEF AbsorbNext
  <2>2. ApartAround(h, b) => ApartBefore(h, b)
    BY <1>3 DEF ApartAround, ApartBefore, ApartAt
  <2> QED
    BY <2>1, <2>2 DEF Keeps
<1> QED
  BY <1>2, <1>3

\* The second half of coalesce.
LEMMA AbsorbIntoPrevGood ==
    ASSUME NEW h \in Heaps, NEW b \in Addr, h.free[b]
    PROVE  LET g == AbsorbIntoPrev(h, b)
           IN  /\ g \in Heaps
               /\ h.seam => g.seam
               /\ Keeps(h, g) /\ g.used = h.used
               /\ (Good(h) /\ b \in h.linked /\ ~g.seam) =>
                      Good(g) /\ (ApartBefore(h, b) => Apart(g))
<1> DEFINE g == AbsorbIntoPrev(h, b)
           p == h.prev[b]
<1>1. Typed(h) /\ p \in Addr \cup {NULL}
  BY HeapsTyped DEF Typed
<1>2. CASE p # NULL /\ h.free[p]
  <2>1. g = Absorb(h, p, b) /\ p \in Addr
    BY <1>1, <1>2 DEF AbsorbIntoPrev
  <2>2. g \in Heaps /\ Absorbed(h, g, p, b)
    BY <2>1, AbsorbFields, Zenon
  <2>3. (h.seam => g.seam) /\ g.used = h.used
    BY <1>1, <2>2 DEF Absorbed, Typed
  <2>4. Keeps(h, g)
    BY <1>2, <2>1, AbsorbKeeps
  <2>5. ASSUME Good(h), b \in h.linked, ~g.seam
        PROVE  Good(g) /\ (ApartBefore(h, b) => Apart(g))
    <3>1. p \in h.linked /\ h.next[p] = b
      BY <1>2, <2>5 DEF Good, Doubly
    <3>2. b = End(h, p)
      BY <2>2, <2>5 DEF Absorbed
    <3>3. Good(g)
      BY <2>1, <2>5, <3>1, <3>2, AbsorbGood
    <3>4. p # b
      BY <3>1, <3>2, Extents
    <3>5. ASSUME ApartBefore(h, b) PROVE Apart(g)
      <4> SUFFICES ASSUME NEW c \in g.linked PROVE ApartAt(g, c)
        BY DEF Apart
      <4>1. /\ g.free = h.free /\ g.bases = h.bases /\ g.linked = h.linked \ {b}
            /\ g.next = [h.next EXCEPT ![p] = h.next[b]]
        BY <2>2 DEF Absorbed
      <4>2. b # NULL /\ \A d \in h.linked : h.next[d] = b => d = p
        BY <2>5, Numbers DEF Good, Doubly
      <4>3. CASE c = p
        <5>1. g.next[c] = h.next[b] /\ h.next[b] # b
          BY <1>1, <2>1, <2>5, <3>4, <4>1, <4>2, <4>3 DEF Typed
        <5>2. ApartAt(h, b)
          BY <2>5, <3>5, <5>1 DEF ApartBefore
        <5> QED
          BY <4>1, <5>1, <5>2 DEF ApartAt
      <4>4. CASE c # p
        <5>1. c \in h.linked /\ g.next[c] = h.next[c] /\ h.next[c] # b
          BY <1>1, <4>1, <4>2, <4>4 DEF Typed
        <5>2. ApartAt(h, c)
          BY <3>5, <5>1 DEF ApartBefore
        <5> QED
          BY <4>1, <5>1, <5>2 DEF ApartAt
      <4> QED
        BY <4>3, <4>4
    <3> QED
      BY <3>3, <3>5
  <2> QED
    BY <2>2, <2>3, <2>4, <2>5
<1>3. CASE ~(p # NULL /\ h.free[p])
  <2>1. g = h
    BY <1>3 DEF AbsorbIntoPrev
  <2>2. ASSUME Good(h), b \in h.linked, ApartBefore(h, b) PROVE Apart(h)
    <3>1. \A d \in h.linked : h.next[d] = b => d = p /\ p # NULL
      <4>1. b # NULL /\ \A d \in h.linked : d # NULL
        BY Extents, Numbers
      <4> QED
        BY <2>2, <4>1 DEF Good, Doubly
    <3>2. \A d \in h.linked : h.next[d] = b => ~h.free[d]
      BY <1>3, <3>1
    <3> QED
      BY <2>2, <3>2 DEF Apart, ApartBefore, ApartAt
  <2> QED
    BY <2>1, <2>2 DEF Keeps
<1> QED
  BY <1>2, <1>3

\* kfree of a block in use: unless it joins blocks that do not touch, the
\* heap stays good and exactly that block is no longer in use.
LEMMA KfreeGood ==
    ASSUME NEW h \in Heaps, NEW b \in Addr, ~h.free[b]
    PROVE  LET g == kfree(h, b)
           IN  /\ g \in Heaps
               /\ h.seam => g.seam
               /\ InUse(g) = InUse(h) \ {b}
               /\ \A c \in InUse(g) : g.size[c] = h.size[c]
               /\ g.used = h.used - h.size[b]
               /\ (Good(h) /\ b \in h.linked /\ ~g.seam) =>
                      Good(g) /\ (Apart(h) => Apart(g))
<1> DEFINE m == Mark(h, b)
           k == AbsorbNext(m, b)
           g == AbsorbIntoPrev(k, b)
<1>1. kfree(h, b) = g
  BY DEF kfree, coalesce, Mark
<1>2. m \in Heaps /\ Marked(h, m, b)
  BY MarkFields, Zenon
<1>3. /\ m.free[b] /\ m.seam = h.seam /\ m.size = h.size /\ m.linked = h.linked
      /\ m.used = h.used - h.size[b] /\ InUse(m) = InUse(h) \ {b}
  BY <1>2, HeapsTyped DEF Marked, Typed, InUse
<1>4. (Good(h) /\ b \in h.linked) => Good(m)
  BY MarkGood
<1>5. Apart(h) => ApartAround(m, b)
  <2>1. Typed(h) /\ m.next = h.next /\ m.bases = h.bases
        /\ m.free = [h.free EXCEPT ![b] = TRUE]
    BY <1>2, HeapsTyped DEF Marked
  <2> HIDE DEF m
  <2>2. \A c \in h.linked : c \in Addr /\ h.next[c] \in Addr \cup {NULL}
    BY <2>1 DEF Typed
  <2> QED
    BY <1>3, <2>1, <2>2 DEF Apart, ApartAround, ApartAt, Typed
<1> HIDE DEF m
<1>6. /\ k \in Heaps /\ k.free = m.free /\ (m.seam => k.seam)
      /\ Keeps(m, k) /\ k.used = m.used
      /\ (Good(m) /\ b \in m.linked /\ ~k.seam) =>
             Good(k) /\ b \in k.linked /\ (ApartAround(m, b) => ApartBefore(k, b))
  BY <1>2, <1>3, AbsorbNextGood
<1> HIDE DEF k
<1>7. /\ g \in Heaps /\ (k.seam => g.seam)
      /\ Keeps(k, g) /\ g.used = k.used
      /\ (Good(k) /\ b \in k.linked /\ ~g.seam) =>
             Good(g) /\ (ApartBefore(k, b) => Apart(g))
  BY <1>3, <1>6, AbsorbIntoPrevGood
<1> HIDE DEF g
<1> QED
  BY <1>1, <1>3, <1>4, <1>5, <1>6, <1>7 DEF Keeps
----------------------------------------------------------------------------
\* What H3OS_ALIGN_UP promises: a multiple of a, no smaller than n.
LEMMA RoundUpBounds ==
    ASSUME NEW n \in Nat, NEW a \in Nat \ {0}
    PROVE  RoundUp(n, a) \in Nat /\ n <= RoundUp(n, a)
<1> DEFINE m == n + a - 1
           q == m \div a
<1>1. m \in Nat /\ a \in Nat /\ 0 < a /\ n = m - a + 1
  OBVIOUS
<1> HIDE DEF m
<1>2. q \in Nat /\ m = a * q + (m % a) /\ m % a \in 0 .. a - 1
  BY <1>1
<1> HIDE DEF q
<1>3. q * a \in Nat /\ q * a = a * q
  BY <1>1, <1>2
<1>4. n <= q * a
  BY <1>1, <1>2, <1>3
<1> QED
  BY <1>3, <1>4 DEF RoundUp, q, m

\* What kmalloc looks for is positive and no smaller than the request.
LEMMA NeedBounds ==
    ASSUME NEW size \in Nat \ {0}
    PROVE  Need(size) \in Nat \ {0} /\ size <= Need(size)
BY RoundUpBounds, AlignAssumption DEF Need

\* kmalloc fails and changes nothing, or hands out a block no one holds.
LEMMA KmallocGood ==
    ASSUME NEW h \in Heaps, Good(h), NEW need \in Nat, NEW o \in kmalloc(h, need)
    PROVE  \/ o.heap = h /\ o.ret = NULL
           \/ /\ o.heap \in Heaps /\ Good(o.heap) /\ o.heap.seam = h.seam
              /\ o.ret \in Addr \ InUse(h) /\ o.ret # NULL
              /\ InUse(o.heap) = InUse(h) \cup {o.ret}
              /\ \A c \in InUse(h) : o.heap.size[c] = h.size[c]
              /\ need <= o.heap.size[o.ret]
              /\ o.heap.used = h.used + o.heap.size[o.ret]
              /\ Apart(h) => Apart(o.heap)
<1>1. CASE \E b \in h.linked : Fits(h, b, need)
  <2>1. PICK b \in FirstFits(h, need) : o = [heap |-> Take(h, b, need), ret |-> b]
    BY <1>1 DEF kmalloc
  <2>2. b \in h.linked /\ h.free[b] /\ need <= h.size[b] /\ b \in Addr
    BY Extents DEF FirstFits, Fits
  <2> DEFINE g == Take(h, b, need)
  <2>3. /\ g \in Heaps /\ Good(g) /\ g.seam = h.seam
        /\ InUse(g) = InUse(h) \cup {b}
        /\ \A c \in InUse(h) : g.size[c] = h.size[c]
        /\ need <= g.size[b] /\ b \notin InUse(h)
        /\ g.used = h.used + g.size[b] /\ (Apart(h) => Apart(g))
    BY <2>2, TakeGood
  <2>4. o.heap = g /\ o.ret = b
    BY <2>1
  <2> HIDE DEF g
  <2> QED
    BY <2>2, <2>3, <2>4, Numbers
<1>2. CASE ~\E b \in h.linked : Fits(h, b, need)
  <2> DEFINE len == ExpandBytes(need)
  <2>1. \/ o = [heap |-> h, ret |-> NULL]
        \/ \E b \in Runs(h, len) :
              o = [heap |-> Take(heap_add_region(h, b, len), b, need), ret |-> b]
    BY <1>2 DEF kmalloc
  <2>2. CASE o = [heap |-> h, ret |-> NULL]
    BY <2>2
  <2>3. ASSUME NEW b \in Runs(h, len),
               o = [heap |-> Take(heap_add_region(h, b, len), b, need), ret |-> b]
        PROVE  /\ o.heap \in Heaps /\ Good(o.heap) /\ o.heap.seam = h.seam
               /\ o.ret \in Addr \ InUse(h) /\ o.ret # NULL
               /\ InUse(o.heap) = InUse(h) \cup {o.ret}
               /\ \A c \in InUse(h) : o.heap.size[c] = h.size[c]
               /\ need <= o.heap.size[o.ret]
               /\ o.heap.used = h.used + o.heap.size[o.ret]
               /\ Apart(h) => Apart(o.heap)
    <3>1. len \in Nat /\ need + HDR + PAGE <= len
      BY RoundUpBounds, Numbers, PageAssumption DEF ExpandBytes
    <3>2. b \in Addr /\ b + len - 1 <= TOP /\ (b .. b + len - 1) \cap h.mem = {}
      BY DEF Runs
    <3> HIDE DEF len
    <3> DEFINE k == heap_add_region(h, b, len)
               g == Take(k, b, need)
    <3>3. HDR <= len /\ need <= len - HDR
      BY <3>1, Numbers, PageAssumption
    <3>4. /\ k \in Heaps /\ Good(k) /\ Keeps(h, k)
          /\ b \in k.linked /\ k.free[b] /\ k.size[b] = len - HDR
          /\ k.seam = h.seam /\ k.used = h.used /\ (Apart(h) => Apart(k))
      BY <3>1, <3>2, <3>3, AddGood
    <3> HIDE DEF k
    <3>5. /\ g \in Heaps /\ Good(g) /\ g.seam = k.seam
          /\ InUse(g) = InUse(k) \cup {b}
          /\ \A c \in InUse(k) : g.size[c] = k.size[c]
          /\ need <= g.size[b] /\ b \notin InUse(k)
          /\ g.used = k.used + g.size[b] /\ (Apart(k) => Apart(g))
      BY <3>3, <3>4, TakeGood
    <3>6. o.heap = g /\ o.ret = b
      BY <2>3 DEF k
    <3> HIDE DEF g
    <3> QED
      BY <3>2, <3>4, <3>5, <3>6, Numbers DEF Keeps
  <2> QED
    BY <2>1, <2>2, <2>3
<1> QED
  BY <1>1, <1>2
----------------------------------------------------------------------------
\* The blocks in use are those of the clients, and large enough for them.
Holds(h, l) ==
    \A b \in Addr : (l[b] > 0 <=> b \in InUse(h)) /\ (l[b] > 0 => l[b] <= h.size[b])

\* heap_used is the sum of the blocks in use.
Tallied(h) == h.used = SumOver(h.size, InUse(h))

\* One more block in use.
LEMMA TallyMore ==
    ASSUME NEW h \in Heaps, Tallied(h), NEW g \in Heaps, NEW b \in Addr \ InUse(h),
           InUse(g) = InUse(h) \cup {b}, \A c \in InUse(h) : g.size[c] = h.size[c],
           g.used = h.used + g.size[b]
    PROVE  Tallied(g)
<1>1. IsFiniteSet(InUse(h)) /\ InUse(h) \in SUBSET Addr
  BY AddrFinite, HeapsTyped DEF Typed, InUse
<1>2. \A c \in InUse(h) \cup {b} : g.size[c] \in Int
  BY <1>1, HeapsTyped DEF Typed
<1>3. SumOver(g.size, InUse(h) \cup {b}) = SumOver(g.size, InUse(h)) + g.size[b]
  BY <1>1, <1>2, SumAdd
<1>4. SumOver(g.size, InUse(h)) = SumOver(h.size, InUse(h))
  BY <1>1, SumSame
<1> QED
  BY <1>3, <1>4 DEF Tallied

\* One block less in use.
LEMMA TallyLess ==
    ASSUME NEW h \in Heaps, Tallied(h), NEW g \in Heaps, NEW b \in InUse(h),
           InUse(g) = InUse(h) \ {b}, \A c \in InUse(g) : g.size[c] = h.size[c],
           g.used = h.used - h.size[b]
    PROVE  Tallied(g)
<1> DEFINE U == InUse(g)
<1>1. IsFiniteSet(U) /\ InUse(h) \in SUBSET Addr /\ U \in SUBSET Addr
  BY AddrFinite, HeapsTyped DEF Typed, InUse
<1>2. U \cup {b} = InUse(h) /\ b \notin U
  OBVIOUS
<1>3. \A c \in InUse(h) : h.size[c] \in Int
  BY <1>1, HeapsTyped DEF Typed
<1> HIDE DEF U
<1>4. /\ SumOver(h.size, U) \in Int
      /\ SumOver(h.size, U \cup {b}) = SumOver(h.size, U) + h.size[b]
  <2>1. \A c \in U \cup {b} : h.size[c] \in Int
    BY <1>2, <1>3
  <2> QED
    BY <1>1, <1>2, <2>1, SumAdd
<1>5. SumOver(g.size, U) = SumOver(h.size, U)
  BY <1>1, SumSame DEF U
<1>6. SumOver(h.size, InUse(h)) = SumOver(h.size, U \cup {b})
  BY <1>2, Zenon
<1>7. h.size[b] \in Int
  BY <1>3
<1>8. g.used = SumOver(g.size, U)
  BY <1>4, <1>5, <1>6, <1>7 DEF Tallied
<1> QED
  BY <1>8 DEF Tallied, U

\* The inductive invariant.  A heap whose blocks were joined over a seam is
\* only typed: Next is not enabled there.
IInv ==
    /\ TypeOK
    /\ Tallied(heap)
    /\ Intact => Good(heap) /\ Apart(heap) /\ Holds(heap, live)

\* What a step does to the blocks that stay with their clients.
Stable ==
    Intact' => \A b \in Addr : (live[b] > 0 /\ live'[b] > 0) =>
                  b \in heap'.linked /\ heap'.size[b] = heap.size[b]

\* heap_init starts from the empty list and adds the arena.
LEMMA InitGood == Init => IInv
<1> SUFFICES ASSUME Init PROVE IInv
  OBVIOUS
<1> DEFINE e == [size |-> [a \in Addr |-> 0], free |-> [a \in Addr |-> FALSE],
                 next |-> [a \in Addr |-> NULL], prev |-> [a \in Addr |-> NULL],
                 head |-> NULL, used |-> 0, total |-> 0, linked |-> {},
                 stale |-> {}, mem |-> {}, bases |-> {}, seam |-> FALSE]
           g == heap_add_region(e, ARENA, EARLY_HEAP)
<1>1. e \in Heaps
  BY DEF Heaps
<1>2. e.linked = {} /\ e.mem = {} /\ e.stale = {} /\ e.head = NULL /\ e.seam = FALSE
  OBVIOUS
<1>3. heap = g /\ live = [b \in Addr |-> 0]
  BY DEF Init, heap_init
<1> HIDE DEF e
<1>4. Good(e)
  BY <1>2 DEF Good, Ordered, Covered, Filled, Doubly, Reached, Based, Rejected
<1>5. InUse(e) = {}
  BY <1>2 DEF InUse
<1>6. /\ ARENA \in Addr /\ EARLY_HEAP \in Nat /\ HDR <= EARLY_HEAP
      /\ ARENA + EARLY_HEAP - 1 <= TOP
      /\ (ARENA .. ARENA + EARLY_HEAP - 1) \cap e.mem = {}
  BY <1>2, ArenaAssumption, AlignAssumption, Numbers
<1>7. g \in Heaps /\ Good(g) /\ Keeps(e, g) /\ Apart(g) /\ g.used = 0
  <2>1. Apart(e) /\ e.used = 0
    BY <1>2 DEF Apart, e
  <2> QED
    BY <1>1, <1>4, <1>6, <2>1, AddGood
<1> HIDE DEF g
<1>8. Holds(heap, live)
  BY <1>3, <1>5, <1>7 DEF Holds, Keeps
<1>9. TypeOK
  BY <1>3, <1>7 DEF TypeOK
<1>10. Tallied(heap)
  <2>1. InUse(g) = {}
    BY <1>5, <1>7 DEF Keeps
  <2>2. SumOver(g.size, {}) = 0
    BY SumEmpty
  <2> QED
    BY <1>3, <1>7, <2>1, <2>2 DEF Tallied
<1> QED
  BY <1>3, <1>7, <1>8, <1>9, <1>10 DEF IInv

\* kmalloc, whether it finds a block, expands the heap or fails.
LEMMA KmallocStep ==
    ASSUME IInv, Intact, NEW size \in Requests, Kmalloc(size)
    PROVE  IInv' /\ Stable
<1>1. /\ heap \in Heaps /\ live \in [Addr -> Nat]
      /\ Good(heap) /\ Apart(heap) /\ Tallied(heap) /\ Holds(heap, live)
  BY DEF IInv, TypeOK
<1> DEFINE need == Need(size)
<1>2. need \in Nat /\ need > 0
  BY NeedBounds, RequestsAssumption
<1>3. PICK o \in kmalloc(heap, need) :
         /\ heap' = o.heap
         /\ live' = IF o.ret = NULL THEN live ELSE [live EXCEPT ![o.ret] = need]
  BY DEF Kmalloc
<1> HIDE DEF need
<1>4. CASE o.heap = heap /\ o.ret = NULL
  <2>1. heap' = heap /\ live' = live
    BY <1>3, <1>4
  <2> QED
    BY <1>1, <2>1 DEF IInv, TypeOK, Stable, Intact, Holds, InUse, Good, Ordered, Covered,
                      Filled, Doubly, Reached, Based, Rejected, End
<1>5. CASE /\ o.heap \in Heaps /\ Good(o.heap) /\ o.heap.seam = heap.seam
           /\ o.ret \in Addr \ InUse(heap) /\ o.ret # NULL
           /\ InUse(o.heap) = InUse(heap) \cup {o.ret}
           /\ \A c \in InUse(heap) : o.heap.size[c] = heap.size[c]
           /\ need <= o.heap.size[o.ret]
           /\ o.heap.used = heap.used + o.heap.size[o.ret]
           /\ Apart(heap) => Apart(o.heap)
  <2> DEFINE r == o.ret
             g == o.heap
             l == [live EXCEPT ![r] = need]
  <2>1. heap' = g /\ live' = l /\ r \in Addr /\ r \notin InUse(heap)
    BY <1>3, <1>5
  <2>2. l \in [Addr -> Nat] /\ \A c \in Addr : l[c] = IF c = r THEN need ELSE live[c]
    BY <1>1, <1>2, <2>1
  <2> HIDE DEF l
  <2>3. Holds(g, l)
    BY <1>1, <1>2, <1>5, <2>1, <2>2 DEF Holds
  <2>4. Tallied(g) /\ Apart(g)
    BY <1>1, <1>5, TallyMore
  <2>5. IInv'
    BY <1>5, <2>1, <2>2, <2>3, <2>4 DEF IInv, TypeOK
  <2>6. Stable
    BY <1>1, <1>5, <2>1, <2>2 DEF Stable, Holds, InUse
  <2> QED
    BY <2>5, <2>6
<1> QED
  BY <1>1, <1>2, <1>4, <1>5, KmallocGood

\* kfree of a block its client holds.
LEMMA KfreeStep ==
    ASSUME IInv, Intact, NEW b \in Addr, Kfree(b)
    PROVE  IInv' /\ Stable
<1>1. /\ heap \in Heaps /\ live \in [Addr -> Nat]
      /\ Good(heap) /\ Apart(heap) /\ Tallied(heap) /\ Holds(heap, live)
  BY DEF IInv, TypeOK
<1>2. live[b] > 0 /\ heap' = kfree(heap, b) /\ live' = [live EXCEPT ![b] = 0]
  BY DEF Kfree
<1>3. b \in heap.linked /\ ~heap.free[b]
  BY <1>1, <1>2 DEF Holds, InUse
<1> DEFINE g == kfree(heap, b)
<1>4. /\ g \in Heaps
      /\ InUse(g) = InUse(heap) \ {b}
      /\ \A c \in InUse(g) : g.size[c] = heap.size[c]
      /\ g.used = heap.used - heap.size[b]
      /\ ~g.seam => Good(g) /\ Apart(g)
  BY <1>1, <1>3, KfreeGood
<1> HIDE DEF g
<1>5. live' \in [Addr -> Nat] /\ \A c \in Addr : live'[c] = IF c = b THEN 0 ELSE live[c]
  BY <1>1, <1>2
<1>6. heap' = g
  BY <1>2 DEF g
<1>7. ~g.seam => Holds(g, live')
  BY <1>1, <1>4, <1>5 DEF Holds
<1>8. Tallied(g)
  <2>1. b \in InUse(heap)
    BY <1>3 DEF InUse
  <2> QED
    BY <1>1, <1>4, <2>1, TallyLess
<1>9. IInv'
  BY <1>4, <1>5, <1>6, <1>7, <1>8 DEF IInv, TypeOK, Intact
<1>10. Stable
  BY <1>1, <1>4, <1>5, <1>6 DEF Stable, Holds, InUse, Intact
<1> QED
  BY <1>9, <1>10

\* A header that no client holds says free, on the list or off it.
LEMMA KfreeAgainStep ==
    ASSUME IInv, Intact, NEW b \in Addr, KfreeAgain(b)
    PROVE  UNCHANGED vars
<1>1. heap \in Heaps /\ live \in [Addr -> Nat] /\ Good(heap) /\ Holds(heap, live)
  BY DEF IInv, TypeOK
<1>2. live[b] = 0 /\ b \in heap.linked \cup heap.stale
  BY DEF KfreeAgain
<1>3. heap.free[b]
  <2>1. CASE b \in heap.linked
    BY <1>1, <1>2, <2>1 DEF Holds, InUse
  <2>2. CASE b \in heap.stale
    BY <1>1, <2>2 DEF Good, Rejected
  <2> QED
    BY <1>2, <2>1, <2>2
<1> QED
  BY <1>3 DEF KfreeAgain, kfree, vars

\* krealloc in place, moving the block, or failing.
LEMMA KreallocStep ==
    ASSUME IInv, Intact, NEW b \in Addr, NEW size \in Requests, Krealloc(b, size)
    PROVE  IInv' /\ Stable
<1>1. /\ heap \in Heaps /\ live \in [Addr -> Nat]
      /\ Good(heap) /\ Apart(heap) /\ Tallied(heap) /\ Holds(heap, live)
  BY DEF IInv, TypeOK
<1>2. size \in Nat /\ size > 0 /\ Need(size) \in Nat /\ Need(size) > 0
  BY NeedBounds, RequestsAssumption
<1>3. live[b] > 0 /\ b \in InUse(heap)
  BY <1>1 DEF Krealloc, Holds
<1>4. CASE /\ size <= heap.size[b]
           /\ live' = [live EXCEPT ![b] = IF size > @ THEN size ELSE @]
           /\ UNCHANGED heap
  <2>1. /\ live' \in [Addr -> Nat]
        /\ \A c \in Addr : c # b => live'[c] = live[c]
        /\ live'[b] > 0 /\ (live'[b] = size \/ live'[b] = live[b])
    BY <1>1, <1>2, <1>3, <1>4
  <2>2. Holds(heap, live')
    BY <1>1, <1>3, <1>4, <2>1 DEF Holds
  <2>3. IInv'
    BY <1>1, <1>4, <2>1, <2>2 DEF IInv, TypeOK
  <2>4. Stable
    BY <1>1, <1>4 DEF Stable, Holds, InUse
  <2> QED
    BY <2>3, <2>4
<1>5. ASSUME NEW o \in kmalloc(heap, Need(size)),
             IF o.ret = NULL THEN UNCHANGED vars
             ELSE /\ heap' = kfree(o.heap, b)
                  /\ live' = [live EXCEPT ![o.ret] = Need(size), ![b] = 0]
      PROVE  IInv' /\ Stable
  <2>1. CASE o.heap = heap /\ o.ret = NULL
    <3>1. heap' = heap /\ live' = live
      BY <1>5, <2>1 DEF vars
    <3> QED
      BY <1>1, <3>1 DEF IInv, TypeOK, Stable, Intact, Holds, InUse, Good, Ordered, Covered,
                        Filled, Doubly, Reached, Based, Rejected, End
  <2>2. CASE /\ o.heap \in Heaps /\ Good(o.heap) /\ o.heap.seam = heap.seam
             /\ o.ret \in Addr \ InUse(heap) /\ o.ret # NULL
             /\ InUse(o.heap) = InUse(heap) \cup {o.ret}
             /\ \A c \in InUse(heap) : o.heap.size[c] = heap.size[c]
             /\ Need(size) <= o.heap.size[o.ret]
             /\ o.heap.used = heap.used + o.heap.size[o.ret]
             /\ Apart(heap) => Apart(o.heap)
    <3> DEFINE r == o.ret
               k == o.heap
               g == kfree(k, b)
    <3>1. heap' = g /\ live' = [live EXCEPT ![r] = Need(size), ![b] = 0]
      BY <1>5, <2>2
    <3>2. b \in InUse(k) /\ b # r /\ r \in Addr
      BY <1>3, <2>2
    <3>3. b \in k.linked /\ ~k.free[b]
      BY <3>2 DEF InUse
    <3>4. /\ g \in Heaps
          /\ InUse(g) = InUse(k) \ {b}
          /\ \A c \in InUse(g) : g.size[c] = k.size[c]
          /\ g.used = k.used - k.size[b]
          /\ ~g.seam => Good(g) /\ Apart(g)
      BY <1>1, <2>2, <3>3, KfreeGood
    <3> HIDE DEF g
    <3>5. /\ live' \in [Addr -> Nat]
          /\ \A c \in Addr : live'[c] = IF c = b THEN 0
                                        ELSE IF c = r THEN Need(size) ELSE live[c]
      BY <1>1, <1>2, <3>1, <3>2
    <3>6. ~g.seam => Holds(g, live')
      BY <1>1, <1>2, <2>2, <3>2, <3>4, <3>5 DEF Holds
    <3>7. Tallied(g)
      <4>1. Tallied(k)
        BY <1>1, <2>2, TallyMore
      <4> QED
        BY <2>2, <3>2, <3>4, <4>1, TallyLess
    <3>8. IInv'
      BY <3>1, <3>4, <3>5, <3>6, <3>7 DEF IInv, TypeOK, Intact
    <3>9. Stable
      BY <1>1, <2>2, <3>1, <3>2, <3>4, <3>5 DEF Stable, Holds, InUse, Intact
    <3> QED
      BY <3>8, <3>9
  <2> QED
    BY <1>1, <1>2, <2>1, <2>2, KmallocGood
<1> QED
  BY <1>4, <1>5 DEF Krealloc

\* Every step keeps the invariant and the blocks of the clients.
LEMMA StepGood == IInv /\ [Next]_vars => IInv' /\ (Next => Stable)
<1> SUFFICES ASSUME IInv, [Next]_vars PROVE IInv' /\ (Next => Stable)
  OBVIOUS
<1>1. ASSUME UNCHANGED vars PROVE IInv' /\ (Intact => Stable)
  <2>1. heap' = heap /\ live' = live
    BY <1>1 DEF vars
  <2>2. IInv'
    BY <2>1 DEF IInv, TypeOK, Intact, Holds, InUse, Good, Ordered, Covered, Filled,
                Doubly, Reached, Based, Rejected, End
  <2> QED
    BY <2>1, <2>2 DEF IInv, Stable, Holds, InUse
<1>2. CASE Next
  <2>1. Intact
    BY <1>2 DEF Next
  <2>2. CASE \E size \in Requests : Kmalloc(size)
    BY <2>1, <2>2, KmallocStep
  <2>3. CASE \E b \in Addr : Kfree(b)
    BY <2>1, <2>3, KfreeStep
  <2>4. CASE \E b \in Addr : KfreeAgain(b)
    BY <1>1, <2>1, <2>4, KfreeAgainStep
  <2>5. CASE \E b \in Addr, size \in Requests : Krealloc(b, size)
    BY <2>1, <2>5, KreallocStep
  <2> QED
    BY <1>2, <2>2, <2>3, <2>4, <2>5 DEF Next
<1> QED
  BY <1>1, <1>2
----------------------------------------------------------------------------
\* The invariant holds in every reachable state.
THEOREM Invariance == Spec => []IInv
<1>1. Init => IInv
  BY InitGood
<1>2. IInv /\ [Next]_vars => IInv'
  BY StepGood
<1> QED
  BY <1>1, <1>2, PTL DEF Spec

\* Type correctness of the heap, in every reachable state, even after
\* coalesce (heap.c:54) has joined blocks that do not touch.
THEOREM TypeCorrect == Spec => []TypeOK
<1>1. IInv => TypeOK
  BY DEF IInv
<1> QED
  BY <1>1, Invariance, PTL

\* The blocks tile the memory of the heap (heap.c:32-128), for every
\* memory, header, page size and sequence of calls.
THEOREM Tiling == Spec => []BlocksTile
<1>1. IInv => BlocksTile
  <2> SUFFICES ASSUME IInv, Intact
               PROVE  /\ \A a, b \in heap.linked :
                             a # b => Extent(heap, a) \cap Extent(heap, b) = {}
                      /\ heap.mem = UNION {Extent(heap, b) : b \in heap.linked}
    BY DEF BlocksTile
  <2>1. heap \in Heaps /\ Good(heap)
    BY DEF IInv, TypeOK
  <2>2. \A c \in heap.linked :
           c \in Addr /\ c \in Nat /\ End(heap, c) \in Nat /\ c < End(heap, c)
    BY <2>1, Extents
  <2>3. \A c \in heap.linked : \A x :
           x \in Extent(heap, c) <=> x \in Int /\ c <= x /\ x < End(heap, c)
    BY <2>2 DEF Extent
  <2>4. \A a, b \in heap.linked : a # b => Extent(heap, a) \cap Extent(heap, b) = {}
    BY <2>1, <2>2, <2>3 DEF Good, Ordered
  <2>5. \A x \in heap.mem : \E c \in heap.linked : x \in Extent(heap, c)
    <3> TAKE x \in heap.mem
    <3>1. x \in Int
      <4>1. Typed(heap)
        BY <2>1, HeapsTyped
      <4>2. heap.mem \subseteq Addr
        BY <4>1 DEF Typed
      <4>3. x \in Addr
        BY <4>2
      <4> QED
        BY <4>3, TopAssumption DEF Addr
    <3>2. PICK c \in heap.linked : c <= x /\ x < End(heap, c)
      BY <2>1 DEF Good, Filled
    <3> QED
      BY <2>3, <3>1, <3>2
  <2>6. \A c \in heap.linked : \A x \in Extent(heap, c) : x \in heap.mem
    <3> TAKE c \in heap.linked
    <3> TAKE x \in Extent(heap, c)
    <3>1. x \in Addr
      BY <2>1, <2>2, <2>3, Numbers DEF Good, Covered
    <3> QED
      BY <2>1, <2>3, <3>1 DEF Good, Covered
  <2> QED
    BY <2>4, <2>5, <2>6
<1> QED
  BY <1>1, Invariance, PTL

\* Blocks in use and clients agree (kmalloc, kfree and krealloc,
\* heap.c:76-140).
THEOREM Ownership == Spec => []LiveBlocksExact
<1>1. IInv => LiveBlocksExact
  BY DEF IInv, Holds, LiveBlocksExact
<1> QED
  BY <1>1, Invariance, PTL

\* A second kfree of the same pointer (heap.c:121) changes nothing.
THEOREM DoubleFree == Spec => DoubleFreeIgnored
<1>1. IInv /\ [Next]_vars => [\A b \in Addr : KfreeAgain(b) => UNCHANGED heap]_vars
  <2> SUFFICES ASSUME IInv, Next, NEW b \in Addr, KfreeAgain(b) PROVE UNCHANGED heap
    OBVIOUS
  <2>1. Intact
    BY DEF Next
  <2> QED
    BY <2>1, KfreeAgainStep DEF vars
<1> QED
  BY <1>1, Invariance, PTL DEF Spec, DoubleFreeIgnored

\* No step moves, resizes or loses a block that stays with its client.
THEOREM Stability == Spec => LiveBlocksStable
<1>1. IInv /\ [Next]_vars =>
        [Intact' =>
          \A b \in Addr : (live[b] > 0 /\ live'[b] > 0) =>
              b \in heap'.linked /\ heap'.size[b] = heap.size[b]]_vars
  BY StepGood DEF Stable
<1> QED
  BY <1>1, Invariance, PTL DEF Spec, LiveBlocksStable

\* heap_used (heap.c:28) is the sum of the blocks in use, whatever was
\* split, merged and reallocated.
THEOREM UsedIsExact == Spec => []UsedExact
<1>1. IInv => UsedExact
  BY DEF IInv, Tallied, UsedExact, SumOver
<1> QED
  BY <1>1, Invariance, PTL

\* No two neighbouring blocks of a region are free (coalesce, heap.c:54).
THEOREM FullyCoalesced == Spec => []NoAdjacentFree
<1>1. IInv => NoAdjacentFree
  BY DEF IInv, Apart, ApartAt, NoAdjacentFree
<1> QED
  BY <1>1, Invariance, PTL
----------------------------------------------------------------------------
\* w is the walk of the first n + 1 places of the list.
Walks(h, n, w) ==
    w = [i \in 0 .. n |-> IF i = 0 THEN h.head ELSE NextOf(h, w[i - 1])]

\* There is such a walk for every n.
LEMMA WalkExists == ASSUME NEW h PROVE \A n \in Nat : \E w : Walks(h, n, w)
<1> DEFINE Done == {n \in Nat : \E w : Walks(h, n, w)}
<1>1. 0 \in Done
  <2>1. Walks(h, 0, [i \in 0 .. 0 |-> h.head])
    BY DEF Walks
  <2> QED
    BY <2>1
<1>2. ASSUME NEW n \in Nat, n \in Done PROVE n + 1 \in Done
  <2>1. PICK w : Walks(h, n, w)
    BY <1>2
  <2> DEFINE v == [i \in 0 .. n + 1 |-> IF i = 0 THEN h.head ELSE NextOf(h, w[i - 1])]
  <2>2. \A i \in 0 .. n : v[i] = w[i]
    BY <2>1 DEF Walks
  <2>3. \A i \in 0 .. n + 1 : i # 0 => i - 1 \in 0 .. n
    OBVIOUS
  <2>4. \A i \in 0 .. n + 1 : i # 0 => v[i - 1] = w[i - 1]
    BY <2>2, <2>3
  <2>5. Walks(h, n + 1, v)
    BY <2>4 DEF Walks
  <2> HIDE DEF v
  <2> QED
    BY <2>5
<1>3. Nat \subseteq Done
  <2> HIDE DEF Done
  <2> QED
    BY <1>1, <1>2, SetInduction
<1> QED
  BY <1>3

\* Walk is one of them.
LEMMA WalkWalks ==
    ASSUME NEW h, Cardinality(h.linked) \in Nat
    PROVE  Walks(h, Cardinality(h.linked), Walk(h))
<1>1. \E w : Walks(h, Cardinality(h.linked), w)
  BY WalkExists
<1>2. Walk(h) = CHOOSE w : Walks(h, Cardinality(h.linked), w)
  BY DEF Walk, Walks
<1> QED
  BY <1>1, <1>2

\* A walk that is longer than the list meets every block, once, in an order
\* that the prev pointers retrace, and comes to its end.
LEMMA WalkCoherent ==
    ASSUME NEW h \in Heaps, Doubly(h), Reached(h)
    PROVE  LET w == Walk(h)
           IN  /\ {w[n] : n \in DOMAIN w} \ {NULL} = h.linked
               /\ w[Cardinality(h.linked)] = NULL
               /\ \A n \in DOMAIN w : w[n] # NULL =>
                     h.prev[w[n]] = IF n = 0 THEN NULL ELSE w[n - 1]
<1> DEFINE w == Walk(h)
           N == Cardinality(h.linked)
<1>1. /\ IsFiniteSet(h.linked) /\ N \in Nat
      /\ h.linked \subseteq Addr /\ NULL \notin h.linked
  BY HeapsTyped, AddrFinite, FS_CardinalityType, Numbers DEF Typed
<1>2. Walks(h, N, w)
  BY <1>1, WalkWalks
<1> HIDE DEF w, N
<1>3. /\ DOMAIN w = 0 .. N
      /\ w[0] = h.head
      /\ \A n \in Nat : n + 1 <= N => w[n + 1] = NextOf(h, w[n])
  <2>1. DOMAIN w = 0 .. N
    BY <1>2 DEF Walks
  <2>2. \A n \in 0 .. N : w[n] = IF n = 0 THEN h.head ELSE NextOf(h, w[n - 1])
    BY <1>2 DEF Walks
  <2>3. \A n \in Nat : n + 1 <= N => n + 1 \in 0 .. N /\ n + 1 # 0 /\ (n + 1) - 1 = n
    BY <1>1
  <2>4. 0 \in 0 .. N
    BY <1>1
  <2> QED
    BY <2>1, <2>2, <2>3, <2>4
<1>4. \A n \in 0 .. N : w[n] \in h.linked \cup {NULL}
  <2> DEFINE Done == {n \in Nat : n <= N => w[n] \in h.linked \cup {NULL}}
  <2>1. 0 \in Done
    BY <1>3 DEF Doubly
  <2>2. ASSUME NEW n \in Nat, n \in Done PROVE n + 1 \in Done
    <3> SUFFICES ASSUME n + 1 <= N PROVE w[n + 1] \in h.linked \cup {NULL}
      OBVIOUS
    <3>1. w[n] \in h.linked \cup {NULL}
      BY <1>1, <2>2
    <3>2. w[n + 1] = NextOf(h, w[n])
      BY <1>3
    <3> QED
      BY <3>1, <3>2 DEF NextOf, Doubly
  <2>3. Nat \subseteq Done
    <3> HIDE DEF Done
    <3> QED
      BY <2>1, <2>2, SetInduction
  <2> QED
    BY <2>3, <1>1
<1>5. \A n \in Nat : (n + 1 <= N /\ w[n + 1] # NULL) =>
          w[n] # NULL /\ h.prev[w[n + 1]] = w[n]
  <2> TAKE n \in Nat
  <2> HAVE n + 1 <= N /\ w[n + 1] # NULL
  <2>1. w[n + 1] = NextOf(h, w[n]) /\ n \in 0 .. N
    BY <1>1, <1>3
  <2> QED
    BY <1>4, <2>1 DEF NextOf, Doubly
<1>6. \A i \in Nat : \A j \in Nat : (i < j /\ j <= N /\ w[j] # NULL) => w[i] # w[j]
  <2> DEFINE Done == {i \in Nat : \A j \in Nat :
                         (i < j /\ j <= N /\ w[j] # NULL) => w[i] # w[j]}
  <2>1. 0 \in Done
    <3> SUFFICES ASSUME NEW j \in Nat, 0 < j, j <= N, w[j] # NULL PROVE w[0] # w[j]
      OBVIOUS
    <3>1. j - 1 \in Nat /\ (j - 1) + 1 = j
      OBVIOUS
    <3>2. w[j - 1] # NULL /\ h.prev[w[j]] = w[j - 1]
      BY <1>5, <3>1
    <3> QED
      BY <1>3, <3>2 DEF Doubly
  <2>2. ASSUME NEW i \in Nat, i \in Done PROVE i + 1 \in Done
    <3> SUFFICES ASSUME NEW j \in Nat, i + 1 < j, j <= N, w[j] # NULL
                 PROVE  w[i + 1] # w[j]
      OBVIOUS
    <3>1. j - 1 \in Nat /\ (j - 1) + 1 = j /\ i < j - 1 /\ j - 1 <= N /\ i + 1 <= N
      BY <1>1
    <3>2. w[j - 1] # NULL /\ h.prev[w[j]] = w[j - 1]
      BY <1>5, <3>1
    <3>3. w[i] # w[j - 1]
      BY <2>2, <3>1, <3>2
    <3> QED
      BY <1>5, <3>1, <3>2, <3>3
  <2>3. Nat \subseteq Done
    <3> HIDE DEF Done
    <3> QED
      BY <2>1, <2>2, SetInduction
  <2> QED
    BY <2>3
<1>7. w[N] = NULL
  <2> SUFFICES ASSUME w[N] # NULL PROVE FALSE
    OBVIOUS
  <2> DEFINE Done == {k \in Nat : k <= N => w[N - k] # NULL}
  <2>1. 0 \in Done
    BY <1>1
  <2>2. ASSUME NEW k \in Nat, k \in Done PROVE k + 1 \in Done
    <3> SUFFICES ASSUME k + 1 <= N PROVE w[N - (k + 1)] # NULL
      OBVIOUS
    <3>1. N - (k + 1) \in Nat /\ (N - (k + 1)) + 1 = N - k /\ N - k <= N /\ k <= N
      BY <1>1
    <3>2. w[N - k] # NULL
      BY <2>2, <3>1
    <3> QED
      BY <1>5, <3>1, <3>2
  <2>3. Nat \subseteq Done
    <3> HIDE DEF Done
    <3> QED
      BY <2>1, <2>2, SetInduction
  <2>4. \A n \in 0 .. N : w[n] # NULL
    <3> TAKE n \in 0 .. N
    <3>1. N - n \in Nat /\ N - n <= N /\ N - (N - n) = n
      BY <1>1
    <3> QED
      BY <2>3, <3>1
  <2>5. \A n \in 0 .. N : w[n] \in h.linked
    BY <1>4, <2>4
  <2>6. w \in [0 .. N -> h.linked]
    <3>1. w = [n \in 0 .. N |-> w[n]]
      BY <1>2 DEF Walks
    <3> QED
      BY <2>5, <3>1
  <2>7. IsFiniteSet(0 .. N) /\ Cardinality(0 .. N) = N + 1
    BY <1>1, FS_Interval
  <2>8. N < N + 1
    BY <1>1
  <2>9. \E x, y \in 0 .. N : x # y /\ w[x] = w[y]
    <3>1. Cardinality(h.linked) < Cardinality(0 .. N)
      BY <2>7, <2>8 DEF N
    <3> QED
      BY <1>1, <2>6, <2>7, <3>1, FS_PigeonHole
  <2>10. PICK x \in 0 .. N, y \in 0 .. N : x # y /\ w[x] = w[y]
    BY <2>9
  <2>11. x < y \/ y < x
    BY <2>10
  <2> QED
    BY <1>1, <1>6, <2>4, <2>10, <2>11
<1>8. {w[n] : n \in DOMAIN w} \ {NULL} = h.linked
  <2> DEFINE S == {w[n] : n \in 0 .. N} \ {NULL}
  <2>1. S \in SUBSET h.linked
    BY <1>4
  <2>2. CASE h.head = NULL
    BY <1>3, <2>1, <2>2 DEF Reached
  <2>3. CASE h.head # NULL
    <3>1. h.head \in S
      BY <1>1, <1>3, <2>3
    <3>2. \A a \in S : h.next[a] # NULL => h.next[a] \in S
      <4> TAKE a \in S
      <4> HAVE h.next[a] # NULL
      <4>1. PICK n \in 0 .. N : w[n] = a
        OBVIOUS
      <4>2. a # NULL /\ n # N
        BY <1>7, <4>1
      <4>3. n \in Nat /\ n + 1 <= N /\ n + 1 \in 0 .. N
        BY <1>1, <4>2
      <4>4. w[n + 1] = h.next[a]
        BY <1>3, <4>1, <4>2, <4>3 DEF NextOf
      <4> QED
        BY <4>3, <4>4
    <3>3. h.linked \subseteq S
      <4> HIDE DEF S
      <4> QED
        BY <2>1, <3>1, <3>2 DEF Reached
    <3> QED
      BY <1>3, <2>1, <3>3
  <2> QED
    BY <2>2, <2>3
<1>9. \A n \in DOMAIN w : w[n] # NULL => h.prev[w[n]] = IF n = 0 THEN NULL ELSE w[n - 1]
  <2> SUFFICES ASSUME NEW n \in 0 .. N, w[n] # NULL
               PROVE  h.prev[w[n]] = IF n = 0 THEN NULL ELSE w[n - 1]
    BY <1>3
  <2>1. CASE n = 0
    BY <1>3, <2>1 DEF Doubly
  <2>2. CASE n # 0
    <3>1. n - 1 \in Nat /\ (n - 1) + 1 = n /\ n <= N
      BY <1>1, <2>2
    <3> QED
      BY <1>5, <2>2, <3>1
  <2> QED
    BY <2>1, <2>2
<1> QED
  BY <1>7, <1>8, <1>9 DEF w, N

\* The list is doubly linked and kmalloc's walk of it (heap.c:82) meets every
\* block and ends, for every sequence of calls.
THEOREM ListIsCoherent == Spec => []ListCoherent
<1>1. IInv => ListCoherent
  BY WalkCoherent DEF IInv, TypeOK, Good, ListCoherent
<1> QED
  BY <1>1, Invariance, PTL
=============================================================================
