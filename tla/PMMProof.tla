------------------------------ MODULE PMMProof ------------------------------
(***************************************************************************)
(* Proofs about PMM for every page size, bitmap size, kernel image, memory *)
(* map and set of requests.                                                *)
(***************************************************************************)
EXTENDS PMM, Counting

\* The inductive invariant: what BitmapExact, AllocationsDisjoint and
\* UsedExact say, and that what clients hold lies below total_pages.
Unbooted == ~booted => owned = {} /\ page_bitmap = {} /\ total_pages = 0
Below == \A a \in owned : a.count > 0 /\ a.page + a.count <= total_pages
Apart == \A a, b \in owned :
            a # b => Run(a.page, a.count) \cap Run(b.page, b.count) = {}
Outside == \A a \in owned : Run(a.page, a.count) \cap Reserved = {}

IInv == /\ TypeOK /\ Unbooted /\ Below /\ Apart /\ Outside
        /\ BitmapExact /\ UsedExact
----------------------------------------------------------------------------
\* Products with the page size are monotone.
LEMMA Scale ==
    ASSUME NEW p \in Nat, NEW q \in Nat, p <= q PROVE PAGE * p <= PAGE * q
<1>1. q - p \in Nat /\ PAGE \in Nat /\ q = p + (q - p)
  BY PageAssumption
<1>2. PAGE * (q - p) \in Nat /\ PAGE * p \in Nat
  BY <1>1
<1>3. PAGE * q = PAGE * p + PAGE * (q - p)
  BY <1>1
<1> QED
  BY <1>1, <1>2, <1>3

\* What rounding an address down and up to a page gives.
LEMMA PageBounds ==
    ASSUME NEW x \in Nat
    PROVE  /\ PageDown(x) \in Nat /\ PageUp(x) \in Nat
           /\ PageDown(x) <= PageUp(x)
           /\ PAGE * PageDown(x) <= x
           /\ x <= PAGE * PageUp(x)
<1> DEFINE d == x \div PAGE
           m == x + PAGE - 1
           u == m \div PAGE
<1>0. PAGE \in Nat /\ PAGE > 0 /\ m \in Nat /\ x <= m /\ x = m - PAGE + 1
  BY PageAssumption
<1> HIDE DEF m
<1>1. d \in Nat /\ x = PAGE * d + (x % PAGE) /\ x % PAGE \in 0 .. PAGE - 1
  BY <1>0
<1>2. u \in Nat /\ m = PAGE * u + (m % PAGE) /\ m % PAGE \in 0 .. PAGE - 1
  BY <1>0
<1> HIDE DEF d, u
<1>3. PAGE * d \in Nat /\ PAGE * u \in Nat
  BY <1>0, <1>1, <1>2
<1>4. PAGE * d <= x /\ x <= PAGE * u
  BY <1>0, <1>1, <1>2, <1>3
<1>5. d <= u
  <2> SUFFICES ASSUME u < d PROVE FALSE
    BY <1>1, <1>2
  <2>1. u + 1 \in Nat /\ u + 1 <= d
    BY <1>1, <1>2
  <2>2. PAGE * (u + 1) <= PAGE * d
    BY <1>1, <2>1, Scale
  <2>3. PAGE * (u + 1) = PAGE * u + PAGE
    BY <1>0, <1>2
  <2> QED
    BY <1>0, <1>1, <1>2, <1>3, <2>2, <2>3
<1> QED
  BY <1>1, <1>2, <1>4, <1>5 DEF PageDown, PageUp, d, u, m

\* No entry ends above the highest page.
LEMMA HighestBounds ==
    ASSUME NEW m \in Maps
    PROVE  /\ HighestPage(m) \in Nat
           /\ \A e \in m : /\ e.addr + e.len \in Nat
                           /\ PageUp(e.addr + e.len) \in Nat
                           /\ PageUp(e.addr + e.len) <= HighestPage(m)
<1>1. m \subseteq Entries /\ IsFiniteSet(m)
  BY MapsAssumption
<1> DEFINE last(e) == PageUp(e.addr + e.len)
           L == {last(e) : e \in m}
           S == {0} \cup L
<1>2. \A e \in m : e.addr + e.len \in Nat /\ last(e) \in Nat
  <2> TAKE e \in m
  <2>1. e.addr + e.len \in Nat
    BY <1>1 DEF Entries
  <2> QED
    BY <2>1, PageBounds
<1>3. IsFiniteSet(L)
  <2> DEFINE f == [e \in m |-> last(e)]
  <2>1. f \in Surjection(m, L)
    BY DEF Surjection
  <2> QED
    BY <1>1, <2>1, FS_Surjection
<1>4. S \in SUBSET Nat /\ S # {} /\ IsFiniteSet(S)
  <2>1. IsFiniteSet({0} \cup L)
    BY <1>3, FS_AddElement
  <2> QED
    BY <1>2, <2>1
<1>5. HighestPage(m) \in Nat /\ \A e \in m : last(e) <= HighestPage(m)
  <2>1. Max(S) \in S /\ \A y \in S : Max(S) >= y
    <3> HIDE DEF S
    <3>1. S \in SUBSET Int
      BY <1>4
    <3> QED
      BY <1>4, <3>1, MaxExists
  <2>2. HighestPage(m) = Max(S)
    BY DEF HighestPage
  <2>3. \A e \in m : last(e) \in S
    OBVIOUS
  <2>4. Max(S) \in Nat
    BY <1>4, <2>1
  <2> HIDE DEF S, last
  <2> QED
    BY <1>2, <2>1, <2>2, <2>3, <2>4
<1> QED
  BY <1>2, <1>5

\* total_pages fits the bitmap, and no page the scan clears lies beyond it.
LEMMA TotalBounds ==
    ASSUME NEW m \in Maps \cup {NoMap}
    PROVE  /\ TotalPages(m) \in 0 .. PMM_MAX_PAGES
           /\ \A p \in Cleared(m) : p < TotalPages(m)
<1>1. CASE m = NoMap
  BY <1>1, FallbackAssumption, MaxPagesAssumption DEF TotalPages, Cleared, Pages
<1>2. CASE m # NoMap
  <2> DEFINE last(e) == PageUp(e.addr + e.len)
  <2>1. \A e \in m : e.addr + e.len \in Nat /\ last(e) \in Nat
    BY <1>2, HighestBounds
  <2>2. HighestPage(m) \in Nat /\ \A e \in m : last(e) <= HighestPage(m)
    BY <1>2, HighestBounds
  <2>3. TotalPages(m) \in 0 .. PMM_MAX_PAGES
    BY <1>2, <2>2, MaxPagesAssumption DEF TotalPages
  <2>4. ASSUME NEW p \in Cleared(m) PROVE p < TotalPages(m)
    <3>1. PICK e \in m : p < PageDown(e.addr + e.len)
      BY <1>2 DEF Cleared
    <3>2. p \in Nat /\ p < PMM_MAX_PAGES
      BY <1>2, MaxPagesAssumption DEF Cleared, Pages
    <3>3. PageDown(e.addr + e.len) \in Nat /\ PageDown(e.addr + e.len) <= last(e)
      BY <2>1, PageBounds
    <3>4. p < HighestPage(m)
      <4>1. last(e) <= HighestPage(m) /\ last(e) \in Nat
        BY <2>1, <2>2
      <4> HIDE DEF last
      <4> QED
        BY <2>2, <3>1, <3>2, <3>3, <4>1
    <3> QED
      BY <1>2, <2>2, <3>2, <3>4, MaxPagesAssumption DEF TotalPages
  <2> QED
    BY <2>3, <2>4
<1> QED
  BY <1>1, <1>2
----------------------------------------------------------------------------
\* Sets of pages are finite, and their cardinalities are numbers.
LEMMA PagesFinite ==
    ASSUME NEW S \in SUBSET Pages
    PROVE  IsFiniteSet(S) /\ Cardinality(S) \in Nat
<1>1. IsFiniteSet(Pages)
  BY FS_Interval, MaxPagesAssumption DEF Pages
<1> QED
  BY <1>1, FS_Subset, FS_CardinalityType

\* The size of a disjoint union of sets of pages.
LEMMA DisjointUnion ==
    ASSUME NEW S \in SUBSET Pages, NEW T \in SUBSET Pages, S \cap T = {}
    PROVE  Cardinality(S \cup T) = Cardinality(S) + Cardinality(T)
<1>1. /\ IsFiniteSet(S) /\ IsFiniteSet(T)
      /\ Cardinality(S) \in Nat /\ Cardinality(T) \in Nat
  BY PagesFinite
<1>2. Cardinality(S \cup T) = Cardinality(S) + Cardinality(T) - Cardinality(S \cap T)
  BY <1>1, FS_Union
<1>3. Cardinality(S \cap T) = 0
  BY FS_EmptySet
<1> QED
  BY <1>1, <1>2, <1>3

\* The pages of an allocation that ends below total_pages.
LEMMA RunBelow ==
    ASSUME TypeOK, NEW page \in Nat, NEW count \in Nat, page + count <= total_pages
    PROVE  /\ Run(page, count) \subseteq Pages
           /\ \A p \in Run(page, count) : p < total_pages
           /\ Cardinality(Run(page, count)) = count
<1>1. total_pages \in Nat /\ total_pages <= PMM_MAX_PAGES
  BY MaxPagesAssumption DEF TypeOK
<1>2. /\ Run(page, count) \subseteq Pages
      /\ \A p \in Run(page, count) : p < total_pages
  BY <1>1, MaxPagesAssumption DEF Run, Pages
<1>3. Cardinality(page .. page + count - 1) =
        IF page > page + count - 1 THEN 0 ELSE page + count - 1 - page + 1
  BY FS_Interval
<1>4. Cardinality(Run(page, count)) = count
  BY <1>3 DEF Run
<1> QED
  BY <1>2, <1>4

\* The low pages: those below LOW, page 0 among them.
LEMMA LowPages ==
    /\ LOW \div PAGE \in Nat \ {0}
    /\ LowRegion = {p \in Pages : p < LOW \div PAGE}
<1>1. PAGE \in Nat /\ PAGE > 0 /\ LOW \in Nat /\ LOW > 0 /\ LOW % PAGE = 0
  BY PageAssumption, LowAssumption
<1> DEFINE d == LOW \div PAGE
<1>2. d \in Nat /\ LOW = PAGE * d
  BY <1>1
<1>3. d # 0
  BY <1>1, <1>2
<1>4. PageDown(0) = 0
  BY <1>1 DEF PageDown
<1>5. PageUp(LOW) = d
  <2> DEFINE u == PageUp(LOW)
  <2>1. u \in Nat /\ PageDown(LOW) <= u /\ PageDown(LOW) = d
    BY <1>1, PageBounds DEF PageDown
  <2>2. u = (LOW + PAGE - 1) \div PAGE
    BY DEF PageUp
  <2>3. LOW + PAGE - 1 = PAGE * u + ((LOW + PAGE - 1) % PAGE)
        /\ (LOW + PAGE - 1) % PAGE \in 0 .. PAGE - 1
    BY <1>1, <2>2
  <2> HIDE DEF u, d
  <2>4. u <= d
    <3> SUFFICES ASSUME d < u PROVE FALSE
      BY <1>2, <2>1
    <3>1. d + 1 \in Nat /\ d + 1 <= u
      BY <1>2, <2>1
    <3>2. PAGE * (d + 1) <= PAGE * u
      BY <2>1, <3>1, Scale
    <3>3. PAGE * (d + 1) = PAGE * d + PAGE
      BY <1>1, <1>2
    <3>4. PAGE * u \in Nat
      BY <1>1, <2>1
    <3> QED
      BY <1>1, <1>2, <2>3, <3>2, <3>3, <3>4
  <2> QED
    BY <1>2, <2>1, <2>4 DEF u
<1> HIDE DEF d
<1>6. LowRegion = {p \in Pages : PageDown(0) <= p /\ p < PageUp(LOW)}
  BY <1>1 DEF LowRegion, Region
<1>7. \A p \in Pages : 0 <= p
  BY MaxPagesAssumption DEF Pages
<1> QED
  BY <1>2, <1>3, <1>4, <1>5, <1>6, <1>7 DEF d

\* What the fallback's constant stands for: the pages it leaves set.
LEMMA ScanCounts ==
    ASSUME NEW m \in Maps \cup {NoMap}
    PROVE  ScanUsed(m, Pages \ Cleared(m)) =
               Cardinality({p \in Pages \ Cleared(m) : p < TotalPages(m)})
<1>1. CASE m = NoMap
  <2> DEFINE d == LOW \div PAGE
  <2>1. d \in Nat /\ d <= FALLBACK /\ FALLBACK \in Nat /\ FALLBACK <= PMM_MAX_PAGES
    BY LowPages, FallbackAssumption
  <2> HIDE DEF d
  <2>2. {p \in Pages \ Cleared(m) : p < TotalPages(m)} = 0 .. d - 1
    BY <1>1, <2>1, MaxPagesAssumption DEF Cleared, TotalPages, Pages, d
  <2>3. Cardinality(0 .. d - 1) = d
    BY <2>1, FS_Interval
  <2> QED
    BY <1>1, <2>2, <2>3 DEF ScanUsed, d
<1>2. CASE m # NoMap
  BY <1>2 DEF ScanUsed
<1> QED
  BY <1>1, <1>2
----------------------------------------------------------------------------
\* pmm_init counts every page it sets once, whichever of the scan and the
\* two reservations sets it.
LEMMA InitStep ==
    ASSUME IInv, NEW m \in Maps \cup {NoMap}, pmm_init(m)
    PROVE  IInv'
<1> DEFINE scanned == Pages \ Cleared(m)
           low == scanned \cup LowRegion
           bits == low \cup KernelRegion
           t == TotalPages(m)
<1>1. /\ ~booted /\ booted' = TRUE /\ mmap' = m /\ total_pages' = t
      /\ page_bitmap' = bits /\ owned' = owned
      /\ used_pages' = ScanUsed(m, scanned) + Cardinality(LowRegion \ scanned)
                                            + Cardinality(KernelRegion \ low)
  BY DEF pmm_init
<1>2. owned = {}
  BY <1>1 DEF IInv, Unbooted
<1>3. t \in 0 .. PMM_MAX_PAGES /\ \A p \in Cleared(m) : p < t
  BY TotalBounds
<1>4. LowRegion \subseteq Pages /\ KernelRegion \subseteq Pages
  BY DEF LowRegion, KernelRegion, Region
<1>5. Cleared(m) \subseteq Pages
  BY DEF Cleared
<1> DEFINE A == {p \in scanned : p < t}
           B == LowRegion \ scanned
           C == KernelRegion \ low
<1>6. used_pages' = Cardinality(A) + Cardinality(B) + Cardinality(C)
  BY <1>1, ScanCounts
<1>7. A \in SUBSET Pages /\ B \in SUBSET Pages /\ C \in SUBSET Pages
  BY <1>4
<1>8. A \cap B = {} /\ (A \cup B) \cap C = {}
  OBVIOUS
<1>9. {p \in bits : p < t} = (A \cup B) \cup C
  BY <1>3, <1>4, <1>5
<1>10. UsedExact'
  <2>1. Cardinality(A \cup B) = Cardinality(A) + Cardinality(B)
    BY <1>7, <1>8, DisjointUnion
  <2>2. Cardinality((A \cup B) \cup C) = Cardinality(A \cup B) + Cardinality(C)
    <3> HIDE DEF A, B, C
    <3> QED
      BY <1>7, <1>8, DisjointUnion
  <2> HIDE DEF A, B, C, bits, t
  <2> QED
    BY <1>1, <1>6, <1>9, <2>1, <2>2 DEF UsedExact
<1>11. TypeOK'
  <2>1. Cardinality(A) \in Nat /\ Cardinality(B) \in Nat /\ Cardinality(C) \in Nat
    BY <1>7, PagesFinite
  <2>2. used_pages' \in Int
    BY <1>6, <2>1
  <2>3. bits \subseteq Pages
    BY <1>4
  <2> QED
    BY <1>1, <1>2, <1>3, <2>2, <2>3 DEF TypeOK
<1>12. BitmapExact'
  BY <1>1, <1>2 DEF BitmapExact, Reserved, OwnedPages
<1>13. Unbooted' /\ Below' /\ Apart' /\ Outside'
  BY <1>1, <1>2 DEF Unbooted, Below, Apart, Outside
<1> QED
  BY <1>10, <1>11, <1>12, <1>13 DEF IInv

\* An allocation takes pages that no one holds and that are not reserved.
LEMMA AllocStep ==
    ASSUME IInv, NEW count \in Nat \ {0}, pmm_alloc_pages(count)
    PROVE  IInv'
<1>1. TypeOK /\ booted /\ count \in Nat /\ count > 0
  BY DEF IInv, pmm_alloc_pages
<1>2. PICK p \in Pages :
         /\ Fits(p, count)
         /\ page_bitmap' = page_bitmap \cup Run(p, count)
         /\ used_pages' = used_pages + count
         /\ owned' = owned \cup {[page |-> p, count |-> count]}
  BY DEF pmm_alloc_pages
<1>3. booted' = booted /\ mmap' = mmap /\ total_pages' = total_pages
  BY DEF pmm_alloc_pages
<1> DEFINE R == Run(p, count)
           n == [page |-> p, count |-> count]
<1>4. p \in Nat /\ p + count <= total_pages /\ R \cap page_bitmap = {}
  BY <1>2, MaxPagesAssumption DEF Fits, Pages
<1>5. /\ R \subseteq Pages /\ Cardinality(R) = count
      /\ \A q \in R : q < total_pages
  BY <1>1, <1>4, RunBelow
<1>6. n \in Allocations /\ n.page = p /\ n.count = count
  BY <1>1, <1>4 DEF Allocations
<1>7. page_bitmap = Reserved \cup OwnedPages
  BY <1>1 DEF IInv, BitmapExact
<1>8. Reserved' = Reserved
  BY <1>3 DEF Reserved
<1> HIDE DEF R
<1>9. TypeOK'
  BY <1>1, <1>2, <1>3, <1>5, <1>6 DEF TypeOK, R
<1>10. Unbooted'
  BY <1>1, <1>3 DEF Unbooted
<1>11. Below'
  BY <1>1, <1>2, <1>3, <1>4, <1>6 DEF IInv, Below
<1>12. \A a \in owned : Run(a.page, a.count) \cap R = {}
  BY <1>4, <1>7 DEF OwnedPages
<1>13. Apart'
  BY <1>2, <1>6, <1>12 DEF IInv, Apart, R
<1>14. Outside'
  BY <1>2, <1>4, <1>6, <1>7, <1>8 DEF IInv, Outside, R
<1>15. BitmapExact'
  <2>1. OwnedPages' = OwnedPages \cup R
    BY <1>2, <1>6 DEF OwnedPages, R
  <2> QED
    BY <1>2, <1>7, <1>8, <2>1 DEF BitmapExact, R
<1>16. UsedExact'
  <2> DEFINE U == {q \in page_bitmap : q < total_pages}
  <2>1. {q \in page_bitmap' : q < total_pages'} = U \cup R
    BY <1>2, <1>3, <1>5 DEF R
  <2>2. U \in SUBSET Pages /\ U \cap R = {}
    BY <1>1, <1>4 DEF TypeOK
  <2> HIDE DEF U
  <2>3. Cardinality(U \cup R) = Cardinality(U) + Cardinality(R)
    BY <1>5, <2>2, DisjointUnion
  <2>4. used_pages = Cardinality(U)
    BY DEF IInv, UsedExact, U
  <2> QED
    BY <1>2, <1>5, <2>1, <2>3, <2>4 DEF UsedExact
<1> QED
  BY <1>9, <1>10, <1>11, <1>13, <1>14, <1>15, <1>16 DEF IInv

\* Giving an allocation back clears exactly its pages.
LEMMA ReleaseStep ==
    ASSUME IInv, NEW a \in owned, Release(a)
    PROVE  IInv'
<1> DEFINE R == Run(a.page, a.count)
<1>1. TypeOK /\ booted /\ a.page \in Nat /\ a.count \in Nat
  BY DEF IInv, TypeOK, Release, Allocations
<1>2. a.page + a.count <= total_pages
  BY DEF IInv, Below
<1>3. R \subseteq Pages /\ \A q \in R : q < total_pages
  BY <1>1, <1>2, RunBelow
<1>4. page_bitmap = Reserved \cup OwnedPages
  BY <1>1 DEF IInv, BitmapExact
<1>5. R \subseteq OwnedPages
  BY DEF OwnedPages
<1>6. {p \in R : p < total_pages /\ p \in page_bitmap} = R
  BY <1>3, <1>4, <1>5
<1>7. /\ page_bitmap' = page_bitmap \ R
      /\ used_pages' = used_pages - Cardinality(R)
      /\ booted' = booted /\ mmap' = mmap /\ total_pages' = total_pages
      /\ owned' = owned \ {a}
  BY <1>6 DEF Release, pmm_free_pages
<1>8. Reserved' = Reserved
  BY <1>7 DEF Reserved
<1>9. Cardinality(R) \in Nat
  BY <1>3, PagesFinite
<1> HIDE DEF R
<1>10. TypeOK'
  BY <1>1, <1>7, <1>9 DEF TypeOK
<1>11. Unbooted' /\ Below' /\ Apart' /\ Outside'
  BY <1>1, <1>7, <1>8 DEF IInv, Unbooted, Below, Apart, Outside
<1>12. BitmapExact'
  <2>1. \A b \in owned : b # a => Run(b.page, b.count) \cap R = {}
    BY DEF IInv, Apart, R
  <2>2. OwnedPages' = OwnedPages \ R
    BY <1>7, <2>1 DEF OwnedPages, R
  <2>3. R \cap Reserved = {}
    BY DEF IInv, Outside, R
  <2> QED
    BY <1>4, <1>7, <1>8, <2>2, <2>3 DEF BitmapExact
<1>13. UsedExact'
  <2> DEFINE U == {q \in page_bitmap : q < total_pages}
             V == {q \in page_bitmap' : q < total_pages'}
  <2>1. V = U \ R
    BY <1>7
  <2>2. V \cup R = U /\ V \cap R = {} /\ V \in SUBSET Pages
    BY <1>1, <1>3, <1>4, <1>5, <2>1 DEF TypeOK
  <2> HIDE DEF U, V
  <2>3. Cardinality(U) = Cardinality(V) + Cardinality(R) /\ Cardinality(V) \in Nat
    BY <1>3, <2>2, DisjointUnion, PagesFinite
  <2>4. used_pages = Cardinality(U)
    BY DEF IInv, UsedExact, U
  <2>5. used_pages' = Cardinality(V)
    BY <1>7, <1>9, <2>3, <2>4
  <2> QED
    BY <2>5 DEF UsedExact, V
<1> QED
  BY <1>10, <1>11, <1>12, <1>13 DEF IInv

\* Freeing what is already free changes nothing.
LEMMA ReleaseAgainStep ==
    ASSUME IInv, NEW page \in Pages, NEW count \in Counts, ReleaseAgain(page, count)
    PROVE  UNCHANGED vars
<1>1. {p \in Run(page, count) : p < total_pages /\ p \in page_bitmap} = {}
  <2>1. total_pages \in Nat /\ page \in Nat /\ count \in Nat
    BY MaxPagesAssumption, CountsAssumption DEF IInv, TypeOK, Pages
  <2>2. \A p \in Run(page, count) : p \in Int
    BY <2>1 DEF Run
  <2> QED
    BY <2>1, <2>2 DEF ReleaseAgain
<1>2. Cardinality({}) = 0 /\ used_pages \in Int
  BY FS_EmptySet DEF IInv, TypeOK
<1>3. used_pages' = used_pages - 0 /\ page_bitmap' = page_bitmap \ {}
  BY <1>1, <1>2 DEF ReleaseAgain, pmm_free_pages
<1> QED
  BY <1>2, <1>3 DEF ReleaseAgain, pmm_free_pages, vars

\* The invariant is inductive.
LEMMA StepGood == IInv /\ [Next]_vars => IInv'
<1> SUFFICES ASSUME IInv, [Next]_vars PROVE IInv'
  OBVIOUS
<1>1. ASSUME UNCHANGED vars PROVE IInv'
  BY <1>1 DEF IInv, vars, TypeOK, Unbooted, Below, Apart, Outside, BitmapExact,
              UsedExact, Reserved, OwnedPages
<1>2. CASE \E m \in Maps \cup {NoMap} : pmm_init(m)
  BY <1>2, InitStep
<1>3. CASE \E c \in Counts : pmm_alloc_pages(c)
  BY <1>3, AllocStep, CountsAssumption
<1>4. CASE \E a \in owned : Release(a)
  BY <1>4, ReleaseStep
<1>5. CASE \E p \in Pages, c \in Counts : ReleaseAgain(p, c)
  BY <1>1, <1>5, ReleaseAgainStep
<1> QED
  BY <1>1, <1>2, <1>3, <1>4, <1>5 DEF Next
----------------------------------------------------------------------------
\* It holds before boot.
LEMMA InitGood == Init => IInv
<1> SUFFICES ASSUME Init PROVE IInv
  OBVIOUS
<1>1. used_pages = 0 /\ {p \in page_bitmap : p < total_pages} = {}
  BY DEF Init
<1>2. UsedExact
  BY <1>1, FS_EmptySet DEF UsedExact
<1>3. TypeOK
  <2>1. total_pages \in 0 .. PMM_MAX_PAGES /\ used_pages \in Int
    BY MaxPagesAssumption DEF Init
  <2>2. booted \in BOOLEAN /\ mmap \in Maps \cup {NoMap}
    BY Zenon DEF Init
  <2> QED
    BY <2>1, <2>2, Zenon DEF Init, TypeOK
<1> QED
  BY <1>2, <1>3 DEF Init, IInv, Unbooted, Below, Apart, Outside, BitmapExact

\* The invariant holds in every reachable state.
THEOREM Invariance == Spec => []IInv
<1>1. IInv /\ [Next]_vars => IInv'
  BY StepGood
<1> QED
  BY <1>1, InitGood, PTL DEF Spec

\* Type correctness: total_pages never exceeds the bitmap (pmm.c:91).
THEOREM TypeCorrect == Spec => []TypeOK
<1>1. IInv => TypeOK
  BY DEF IInv
<1> QED
  BY <1>1, Invariance, PTL

\* The bitmap is the reserved pages and those clients hold (pmm.c:110-154).
THEOREM Bitmap == Spec => []BitmapExact
<1>1. IInv => BitmapExact
  BY DEF IInv
<1> QED
  BY <1>1, Invariance, PTL

\* The invariant keeps allocations apart, and off page 0.
LEMMA InvDisjoint == IInv => AllocationsDisjoint
<1> SUFFICES ASSUME IInv, NEW a \in owned PROVE a.page # 0
  BY DEF IInv, Apart, Outside, AllocationsDisjoint
<1>1. /\ a.page \in Nat /\ a.count \in Nat /\ a.count > 0
      /\ a.page + a.count <= total_pages
      /\ total_pages \in Nat /\ total_pages <= PMM_MAX_PAGES
  BY MaxPagesAssumption DEF IInv, TypeOK, Allocations, Below
<1>2. a.page \in Run(a.page, a.count)
  BY <1>1 DEF Run
<1>3. a.page \notin LowRegion
  BY <1>2 DEF IInv, Outside, Reserved
<1>4. a.page \in Pages
  BY <1>1, MaxPagesAssumption DEF Pages
<1>5. ~(a.page < LOW \div PAGE)
  BY <1>3, <1>4, LowPages
<1> QED
  BY <1>1, <1>5, LowPages

\* pmm_alloc_pages (pmm.c:110) hands out disjoint runs of unreserved pages,
\* and never page 0.
THEOREM Disjointness == Spec => []AllocationsDisjoint
BY InvDisjoint, Invariance, PTL

\* used_pages is exact (pmm_init, pmm_alloc_pages and pmm_free_pages).
THEOREM Accounting == Spec => []UsedExact
<1>1. IInv => UsedExact
  BY DEF IInv
<1> QED
  BY <1>1, Invariance, PTL

\* Only whole pages of available memory are handed out (pmm.c:81).
THEOREM RamOnly == Spec => []OnlyRam
<1>1. IInv => OnlyRam
  <2> SUFFICES ASSUME IInv, booted, mmap # NoMap, NEW p \in OwnedPages
               PROVE  \E e \in mmap : /\ e.available
                                      /\ e.addr <= p * PAGE
                                      /\ (p + 1) * PAGE <= e.addr + e.len
    BY DEF OnlyRam
  <2>1. PICK a \in owned : p \in Run(a.page, a.count)
    BY DEF OwnedPages
  <2>2. p \in Pages /\ p \notin Reserved
    <3>1. TypeOK /\ a.page \in Nat /\ a.count \in Nat /\ a.page + a.count <= total_pages
      BY DEF IInv, TypeOK, Allocations, Below
    <3> QED
      BY <2>1, <3>1, RunBelow DEF IInv, Outside
  <2>3. p \in Cleared(mmap) /\ p \in Nat
    BY <2>2, MaxPagesAssumption DEF Reserved, Pages
  <2>4. PICK e \in mmap : /\ e.available
                          /\ PageUp(e.addr) <= p
                          /\ p < PageDown(e.addr + e.len)
    BY <2>3 DEF Cleared
  <2>5. e.addr \in Nat /\ e.addr + e.len \in Nat
    BY MapsAssumption DEF IInv, TypeOK, Entries
  <2> DEFINE u == PageUp(e.addr)
             d == PageDown(e.addr + e.len)
  <2>6. /\ u \in Nat /\ e.addr <= PAGE * u
        /\ d \in Nat /\ PAGE * d <= e.addr + e.len
    BY <2>5, PageBounds
  <2>7. PAGE * u <= PAGE * p /\ PAGE * (p + 1) <= PAGE * d
    <3>1. u <= p /\ p + 1 <= d /\ p + 1 \in Nat
      BY <2>3, <2>4, <2>6
    <3> HIDE DEF u, d
    <3> QED
      BY <2>3, <2>6, <3>1, Scale
  <2>8. /\ PAGE * p = p * PAGE /\ PAGE * (p + 1) = (p + 1) * PAGE
        /\ PAGE * u \in Nat /\ PAGE * d \in Nat /\ p * PAGE \in Nat
        /\ (p + 1) * PAGE \in Nat
    <3> HIDE DEF u, d
    <3> QED
      BY <2>3, <2>6, PageAssumption
  <2> HIDE DEF u, d
  <2> QED
    BY <2>4, <2>5, <2>6, <2>7, <2>8
<1> QED
  BY <1>1, Invariance, PTL
=============================================================================
