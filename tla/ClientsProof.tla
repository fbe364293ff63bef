---------------------------- MODULE ClientsProof ----------------------------
(***************************************************************************)
(* Proofs about the modules built on the physical memory manager: the      *)
(* kernel of Boot, and the PE loader and the terminal of Terminal.         *)
(*                                                                         *)
(* Boot uses the memory manager as PMM lets its clients use it, so that    *)
(* everything PMMProof shows of the memory manager holds from boot on,     *)
(* through every frame and every client.                                   *)
(*                                                                         *)
(* The loader takes its memory there or from the heap, so that images,     *)
(* the memory of other clients and the kernel are apart: with what the     *)
(* folds of pe_run do to memory, every image stays as its file describes   *)
(* it.  The terminal's screen implements a scroll buffer.                  *)
(***************************************************************************)
EXTENDS Boot, Terminal, PMMProof, SequenceTheorems

\* The double buffer is as large as one of the surfaces fb_init may choose.
BackCounted == pc = "back" => BackPages(fb) \in Counts

\* Nothing is asked for before the framebuffer comes up.
LEMMA BackInit == BootInit => BackCounted
BY DEF BootInit, BackCounted

\* Whichever surface fb_init chooses, its size is one of those counted.
LEMMA SurfacePages ==
    ASSUME NEW tag \in Tags \cup {NoTag}, FbFront(tag)
    PROVE  BackPages(fb') \in Counts
<1>1. BackPages(Soft("ram", 0)) \in Counts /\ SoftPages \in Counts
  BY SurfaceCounts DEF BackPages, SoftPages, Bytes, Soft, NoFb
<1>2. \A from, addr : BackPages(Soft(from, addr)) = BackPages(Soft("ram", 0))
  BY DEF BackPages, Bytes, Soft, NoFb
<1>3. CASE Usable(tag)
  <2>1. tag \in Tags
    BY <1>3 DEF Usable
  <2>2. fb' = [NoFb EXCEPT !.from = "tag", !.addr = tag.addr, !.width = tag.width,
                           !.height = tag.height, !.pitch = tag.pitch]
    BY <1>3 DEF FbFront
  <2>3. Bytes(fb') = tag.pitch * tag.height
    BY <2>2 DEF Bytes, NoFb
  <2> QED
    BY <2>1, <2>3, SurfaceCounts DEF BackPages
<1>4. CASE ~Usable(tag)
  <2>1. \E from, addr : fb' = Soft(from, addr)
    BY <1>4 DEF FbFront
  <2> QED
    BY <2>1, <1>1, <1>2
<1> QED
  BY <1>3, <1>4

\* Only InitFront gets to the double buffer.
LEMMA BackStep == BackCounted /\ [BootNext]_bootVars => BackCounted'
<1> SUFFICES ASSUME BackCounted, [BootNext]_bootVars, pc' = "back"
             PROVE  BackPages(fb') \in Counts
  BY DEF BackCounted
<1>1. CASE InitFront
  BY <1>1, SurfacePages DEF InitFront
<1>2. CASE UNCHANGED bootVars
  BY <1>2 DEF bootVars, fbVars, BackCounted
<1>3. ~InitMemory /\ ~InitBack /\ ~InitProfile /\ ~Clients
  BY DEF InitMemory, InitBack, InitProfile, Clients
<1>4. ~desktop_render
  BY DEF desktop_render, draw_wallpaper, draw_taskbar, Decorate, Present, DrawStep, Touch
<1>5. ~Halt \/ UNCHANGED bootVars
  BY DEF Halt
<1> QED
  BY <1>1, <1>2, <1>3, <1>4, <1>5 DEF BootNext

\* A step of the kernel is a step of the PMM's clients, or none of theirs.
LEMMA StepUses ==
    ASSUME BackCounted, [BootNext]_bootVars
    PROVE  [Next]_vars
<1>1. CASE InitMemory
  BY <1>1 DEF InitMemory, Next
<1>2. CASE InitFront
  <2>1. SoftPages \in Counts
    BY SurfaceCounts DEF SoftPages, Bytes, Soft, NoFb
  <2>2. PICK tag \in Tags \cup {NoTag} : FbFront(tag)
    BY <1>2 DEF InitFront
  <2> QED
    BY <2>1, <2>2 DEF FbFront, Next
<1>3. CASE InitBack
  <2>1. BackPages(fb) \in Counts
    BY <1>3 DEF InitBack, BackCounted
  <2> QED
    BY <1>3, <2>1 DEF InitBack, FbBack, Next
<1>4. CASE InitProfile
  BY <1>4 DEF InitProfile, adaptive_init
<1>5. CASE Clients
  BY <1>5 DEF Clients, Next
<1>6. CASE desktop_render
  BY <1>6 DEF desktop_render, draw_wallpaper, draw_taskbar, Decorate, Present, DrawStep
<1>7. CASE Halt \/ UNCHANGED bootVars
  BY <1>7 DEF Halt, bootVars
<1> QED
  BY <1>1, <1>2, <1>3, <1>4, <1>5, <1>6, <1>7 DEF BootNext

(***************************************************************************)
(* Every behaviour of the booting and drawing kernel is a behaviour of PMM *)
(* (main.c:106, framebuffer.c:126): fb_init, the heap and the programs are *)
(* clients like any other.                                                 *)
(***************************************************************************)
THEOREM BootUsesPMM == BootSpec => Spec
<1>1. BootInit => Init
  BY DEF BootInit
<1>2. BackCounted /\ [BootNext]_bootVars => [Next]_vars
  BY StepUses
<1> QED
  BY <1>1, <1>2, BackInit, BackStep, PTL DEF BootSpec, Spec

(***************************************************************************)
(* From boot on, whatever memory map and framebuffer the boot loader hands *)
(* over, the bitmap is exact (pmm.c:15).                                   *)
(***************************************************************************)
THEOREM BootBitmap == BootSpec => []BitmapExact
BY BootUsesPMM, Bitmap, PTL

(***************************************************************************)
(* The two surfaces (framebuffer.c:147, framebuffer.c:156) and what the    *)
(* other clients hold never share a page.                                  *)
(***************************************************************************)
THEOREM BootDisjoint == BootSpec => []AllocationsDisjoint
BY BootUsesPMM, Disjointness, PTL

(***************************************************************************)
(* The statistics that adaptive_init (adaptive.c:13) and the task manager  *)
(* read are right at every frame.                                          *)
(***************************************************************************)
THEOREM BootAccounting == BootSpec => []UsedExact
BY BootUsesPMM, Accounting, PTL

(***************************************************************************)
(* The surfaces in RAM and everything else that is handed out lie wholly   *)
(* in entries the boot loader called available.                            *)
(***************************************************************************)
THEOREM BootRamOnly == BootSpec => []OnlyRam
BY BootUsesPMM, RamOnly, PTL
----------------------------------------------------------------------------
Lengths(S) == [e \in S |-> e.len]

\* What the memory map calls available is a sum of lengths.
LEMMA RamSums ==
    ASSUME IsFiniteSet({e \in mmap : e.available})
    PROVE  \E g : /\ Sums(Lengths({e \in mmap : e.available}),
                          SUBSET {e \in mmap : e.available}, g)
                  /\ Ram = g[{e \in mmap : e.available}]
<1> DEFINE S == {e \in mmap : e.available}
           Eq(g) == g = [s \in SUBSET S |-> IF s = {} THEN 0
                                            ELSE Pick(s).len + g[s \ {Pick(s)}]]
           k == CHOOSE g : Eq(g)
<1>1. Ram = k[S]
  BY DEF Ram, MapThenSumSet, MapThenFoldSet, Pick
<1> HIDE DEF S
<1>2. ASSUME NEW g PROVE Eq(g) <=> Sums(Lengths(S), SUBSET S, g)
  <2>1. \A s \in SUBSET S : s # {} => Lengths(S)[Pick(s)] = Pick(s).len
    BY PickIn DEF Lengths
  <2>2. [s \in SUBSET S |-> IF s = {} THEN 0 ELSE Pick(s).len + g[s \ {Pick(s)}]] =
        [s \in SUBSET S |-> IF s = {} THEN 0 ELSE Lengths(S)[Pick(s)] + g[s \ {Pick(s)}]]
    BY <2>1
  <2> QED
    BY <2>2, Zenon DEF Sums
<1>3. Eq(k)
  <2>1. PICK g : Sums(Lengths(S), SUBSET S, g)
    BY SumsExist DEF S
  <2>2. Eq(g)
    BY <1>2, <2>1
  <2> HIDE DEF Eq
  <2> QED
    BY <2>2, Zenon DEF k
<1> HIDE DEF k, Eq
<1>4. Sums(Lengths(S), SUBSET S, k)
  BY <1>2, <1>3
<1> QED
  BY <1>1, <1>4, Zenon DEF S

\* Entries that do not overlap and end at or below an address are together
\* no longer than what lies below it: by induction, the entry that starts
\* highest leaves what lies below it to the others.
LEMMA Packed ==
    ASSUME NEW S \in SUBSET Entries, IsFiniteSet(S),
           \A e, f \in S : e # f => e.addr + e.len <= f.addr \/ f.addr + f.len <= e.addr,
           NEW g, Sums(Lengths(S), SUBSET S, g),
           NEW bound \in Nat, \A e \in S : e.addr + e.len <= bound
    PROVE  g[S] \in Int /\ g[S] <= bound
<1> DEFINE Within(s, b) == \A e \in s : e.addr + e.len <= b
           Done == {n \in Nat : \A s \in SUBSET S : Cardinality(s) = n =>
                                   \A b \in Nat : Within(s, b) => g[s] <= b}
<1>1. \A e \in S : e.addr \in Nat /\ e.len \in Nat /\ Lengths(S)[e] = e.len
  BY DEF Entries, Lengths
<1>2. \A s \in SUBSET S : g[s] \in Int
  <2>1. \A e \in S : Lengths(S)[e] \in Int
    BY <1>1
  <2> QED
    BY <2>1, SumsInt
<1>3. \A s \in SUBSET S : \A e \in s : g[s] = e.len + g[s \ {e}]
  <2>1. \A e \in S : Lengths(S)[e] \in Int
    BY <1>1
  <2> DEFINE f == Lengths(S)
  <2>2. \A e \in S : f[e] \in Int
    BY <2>1
  <2>3. Sums(f, SUBSET S, g)
    OBVIOUS
  <2>4. \A s \in SUBSET S : \A e \in s : g[s] = f[e] + g[s \ {e}]
    <3> HIDE DEF f
    <3> TAKE s \in SUBSET S
    <3> TAKE e \in s
    <3> QED
      BY <2>2, <2>3, SumsAnyOrder
  <2> QED
    BY <1>1, <2>4
<1>4. 0 \in Done
  <2> SUFFICES ASSUME NEW s \in SUBSET S, Cardinality(s) = 0, NEW b \in Nat
               PROVE  g[s] <= b
    OBVIOUS
  <2>1. s = {}
    BY FS_Subset, FS_EmptySet
  <2>2. g[s] = 0
    BY <2>1 DEF Sums
  <2> QED
    BY <2>2
<1>5. ASSUME NEW n \in Nat, n \in Done PROVE n + 1 \in Done
  <2> SUFFICES ASSUME NEW s \in SUBSET S, Cardinality(s) = n + 1,
                      NEW b \in Nat, Within(s, b)
               PROVE  g[s] <= b
    OBVIOUS
  <2>1. \A e \in s : s \ {e} \in SUBSET S /\ Cardinality(s \ {e}) = n
    <3> TAKE e \in s
    <3>1. /\ s \ {e} \in SUBSET S /\ Cardinality(s) \in Nat
          /\ Cardinality(s \ {e}) = Cardinality(s) - 1
      BY Smaller
    <3> QED
      BY <3>1
  <2>2. CASE \E x \in s : x.len = 0
    <3>1. PICK x \in s : x.len = 0
      BY <2>2
    <3>2. g[s] = x.len + g[s \ {x}] /\ g[s \ {x}] \in Int
      BY <1>2, <1>3, <2>1
    <3>3. g[s \ {x}] <= b
      <4>1. Within(s \ {x}, b)
        OBVIOUS
      <4> QED
        BY <1>5, <2>1, <4>1
    <3> QED
      BY <3>1, <3>2, <3>3
  <2>3. CASE \A x \in s : x.len # 0
    <3> DEFINE starts == {e.addr : e \in s}
    <3>1. starts \in SUBSET Nat /\ IsFiniteSet(starts) /\ starts # {}
      <4>1. IsFiniteSet(s)
        BY FS_Subset
      <4>2. s # {}
        <5>1. Cardinality({}) = 0 /\ n + 1 # 0
          BY FS_EmptySet
        <5> QED
          BY <5>1
      <4>3. IsFiniteSet(starts)
        <5> DEFINE f == [e \in s |-> e.addr]
        <5>1. f \in Surjection(s, starts)
          BY DEF Surjection
        <5> QED
          BY <4>1, <5>1, FS_Surjection
      <4>4. \A e \in s : e.addr \in Nat
        BY <1>1
      <4> QED
        BY <4>2, <4>3, <4>4
    <3>2. PICK x \in s : \A e \in s : e.addr <= x.addr
      <4>1. Max(starts) \in starts /\ \A a \in starts : Max(starts) >= a
        <5> HIDE DEF starts
        <5>1. starts \in SUBSET Int
          BY <3>1
        <5> QED
          BY <3>1, <5>1, MaxExists
      <4>2. PICK x \in s : x.addr = Max(starts)
        BY <4>1
      <4>3. \A e \in s : e.addr \in starts /\ e.addr \in Nat /\ x.addr \in Nat
        BY <1>1
      <4> QED
        BY <4>1, <4>2, <4>3
    <3>3. Within(s \ {x}, x.addr)
      <4> SUFFICES ASSUME NEW e \in s, e # x PROVE e.addr + e.len <= x.addr
        OBVIOUS
      <4>1. /\ e.addr \in Nat /\ e.len \in Nat /\ x.addr \in Nat /\ x.len \in Nat
            /\ x.len # 0 /\ e.addr <= x.addr
        BY <1>1, <2>3, <3>2
      <4>2. e.addr + e.len <= x.addr \/ x.addr + x.len <= e.addr
        OBVIOUS
      <4> QED
        BY <4>1, <4>2
    <3>4. x.addr \in Nat /\ x.len \in Nat /\ x.addr + x.len <= b
      BY <1>1
    <3>5. g[s \ {x}] <= x.addr
      BY <1>5, <2>1, <3>3, <3>4
    <3>6. g[s] = x.len + g[s \ {x}] /\ g[s \ {x}] \in Int
      BY <1>2, <1>3, <2>1
    <3> QED
      BY <3>4, <3>5, <3>6
  <2> QED
    BY <2>2, <2>3
<1>6. Nat \subseteq Done
  <2> HIDE DEF Done
  <2> QED
    BY <1>4, <1>5, SetInduction
<1> QED
  BY <1>2, <1>6, FS_CardinalityType

\* What the bitmap tracks is no less than the RAM, or than the bitmap's limit.
LEMMA RamTracked ==
    ASSUME mmap \in Maps, mmap # NoMap, total_pages = TotalPages(mmap)
    PROVE  /\ Ram \in Int /\ total_bytes \in Nat
           /\ Ram <= total_bytes \/ HIGH_MEM <= total_bytes
<1> DEFINE S == {e \in mmap : e.available}
           top == PAGE * HighestPage(mmap)
<1>1. mmap \subseteq Entries /\ IsFiniteSet(mmap)
  BY MapsAssumption
<1>2. S \in SUBSET Entries /\ IsFiniteSet(S)
  BY <1>1, FS_Subset
<1>3. PICK g : Sums(Lengths(S), SUBSET S, g) /\ Ram = g[S]
  BY <1>2, RamSums
<1>4. HighestPage(mmap) \in Nat /\ PAGE \in Nat /\ PMM_MAX_PAGES \in Nat /\ top \in Nat
  BY HighestBounds, PageAssumption, MaxPagesAssumption
<1>5. \A e \in S : e.addr + e.len <= top
  <2> SUFFICES ASSUME NEW e \in S PROVE e.addr + e.len <= top
    OBVIOUS
  <2> DEFINE end == e.addr + e.len
  <2>1. end \in Nat /\ PageUp(end) \in Nat /\ PageUp(end) <= HighestPage(mmap)
    BY HighestBounds
  <2> HIDE DEF end
  <2>2. end <= PAGE * PageUp(end)
    BY <2>1, PageBounds
  <2>3. PAGE * PageUp(end) <= PAGE * HighestPage(mmap)
    BY <1>4, <2>1, Scale
  <2>4. PAGE * PageUp(end) \in Nat
    BY <1>4, <2>1
  <2>5. end <= top
    BY <1>4, <2>1, <2>2, <2>3, <2>4
  <2> QED
    BY <2>5 DEF end
<1>6. \A e, f \in S : e # f => e.addr + e.len <= f.addr \/ f.addr + f.len <= e.addr
  BY RamAssumption
<1>7. g[S] \in Int /\ g[S] <= top
  <2> HIDE DEF S, top
  <2> QED
    BY <1>2, <1>3, <1>4, <1>5, <1>6, Packed
<1>8. CASE HighestPage(mmap) > PMM_MAX_PAGES
  <2>1. total_bytes = PMM_MAX_PAGES * PAGE
    BY <1>8 DEF TotalPages, total_bytes
  <2>2. PMM_MAX_PAGES * PAGE \in Nat
    BY <1>4
  <2> QED
    BY <1>3, <1>7, <2>1, <2>2, ThresholdAssumption
<1>9. CASE ~(HighestPage(mmap) > PMM_MAX_PAGES)
  <2>1. total_bytes = HighestPage(mmap) * PAGE
    BY <1>9 DEF TotalPages, total_bytes
  <2>2. HighestPage(mmap) * PAGE = top
    BY <1>4
  <2> HIDE DEF S, top
  <2> QED
    BY <1>3, <1>4, <1>7, <2>1, <2>2
<1> QED
  BY <1>8, <1>9

\* More memory never lowers the profile, and above the last threshold none
\* is missed.
LEMMA ProfileMonotone ==
    ASSUME NEW c \in Cpus, NEW x \in Int, NEW y \in Int, x <= y \/ HIGH_MEM <= y
    PROVE  Rank(Profile(y, c)) >= Rank(Profile(x, c))
<1>1. Rank("low") = 0 /\ Rank("balanced") = 1 /\ Rank("high") = 2
  BY DEF Rank
<1>2. LOW_MEM \in Nat /\ HIGH_MEM \in Nat /\ LOW_MEM <= HIGH_MEM
  BY ThresholdAssumption
<1>3. c.logical_cpus \in Nat /\ c.has_sse2 \in BOOLEAN
  BY CpusAssumption
<1>4. CASE c.logical_cpus <= 1 \/ ~c.has_sse2
  BY <1>1, <1>4 DEF Profile
<1>5. CASE ~(c.logical_cpus <= 1) /\ c.has_sse2
  <2>1. Profile(x, c) \in {"low", "balanced", "high"}
    BY DEF Profile
  <2>2. CASE y < LOW_MEM
    <3>1. Profile(x, c) = "low" /\ Profile(y, c) = "low"
      BY <1>2, <2>2 DEF Profile
    <3> QED
      BY <1>1, <3>1
  <2>3. CASE ~(y < LOW_MEM) /\ (y < HIGH_MEM \/ c.logical_cpus < 4)
    <3>1. Profile(y, c) = "balanced"
      BY <1>5, <2>3 DEF Profile
    <3>2. Profile(x, c) \in {"low", "balanced"}
      BY <1>2, <1>3, <2>3 DEF Profile
    <3> QED
      BY <1>1, <3>1, <3>2
  <2>4. CASE ~(y < LOW_MEM) /\ ~(y < HIGH_MEM) /\ ~(c.logical_cpus < 4)
    <3>1. Profile(y, c) = "high"
      BY <1>5, <2>4 DEF Profile
    <3> QED
      BY <1>1, <2>1, <3>1
  <2> QED
    BY <2>2, <2>3, <2>4
<1> QED
  BY <1>4, <1>5

\* The inductive invariant: the profile is the one total_pages calls for, and
\* neither has changed since pmm_init and adaptive_init.
Profiled ==
    /\ cpu \in Cpus
    /\ booted \in BOOLEAN
    /\ mmap \in Maps \cup {NoMap}
    /\ pc # "pmm" => booted
    /\ booted => total_pages = TotalPages(mmap)
    /\ profile # "unset" => booted /\ profile = Profile(total_pages * PAGE, cpu)

LEMMA ProfiledStep ==
    ASSUME Profiled, BackCounted, [BootNext]_bootVars
    PROVE  Profiled'
<1>1. [Next]_vars
  BY StepUses
<1>2. booted => booted' /\ UNCHANGED <<mmap, total_pages>>
  BY <1>1 DEF Next, vars, pmm_init, pmm_alloc_pages, Release, ReleaseAgain, pmm_free_pages
<1>3. booted' => total_pages' = TotalPages(mmap')
  <2>1. CASE booted
    BY <1>2, <2>1 DEF Profiled
  <2>2. CASE ~booted
    BY <1>1, <2>2 DEF Next, vars, pmm_init, pmm_alloc_pages, Release, ReleaseAgain
  <2> QED
    BY <2>1, <2>2
<1>4. mmap' \in Maps \cup {NoMap} /\ booted' \in BOOLEAN
  BY <1>1 DEF Next, vars, pmm_init, pmm_alloc_pages, Release, ReleaseAgain, pmm_free_pages,
              Profiled
<1>5. pc' # "pmm" => booted'
  <2>1. CASE pc = "pmm"
    <3>1. ~InitFront /\ ~InitBack /\ ~InitProfile /\ ~Clients /\ ~Halt
      BY <2>1 DEF InitFront, InitBack, InitProfile, Clients, Halt, Dead
    <3>2. ~desktop_render
      BY <2>1 DEF desktop_render, draw_wallpaper, draw_taskbar, Decorate, Present
    <3>3. InitMemory \/ UNCHANGED bootVars
      BY <1>2, <3>1, <3>2 DEF BootNext
    <3> QED
      BY <2>1, <3>3 DEF bootVars, InitMemory, pmm_init
  <2>2. CASE pc # "pmm"
    BY <1>2, <2>2 DEF Profiled
  <2> QED
    BY <2>1, <2>2
<1>6. CASE InitProfile
  <2>1. booted /\ cpu' = cpu /\ profile' = Profile(total_pages * PAGE, cpu)
    BY <1>6 DEF InitProfile, adaptive_init, total_bytes, Profiled
  <2> QED
    BY <1>2, <1>3, <1>4, <1>5, <2>1 DEF Profiled
<1>7. CASE ~InitProfile
  <2>1. UNCHANGED adaptiveVars
    BY <1>7 DEF BootNext, bootVars, InitMemory, InitFront, InitBack, Clients,
                desktop_render, draw_wallpaper, draw_taskbar, Decorate, Present, DrawStep, Halt
  <2>2. cpu' = cpu /\ profile' = profile
    BY <2>1 DEF adaptiveVars
  <2> QED
    BY <1>2, <1>3, <1>4, <1>5, <2>2 DEF Profiled
<1> QED
  BY <1>6, <1>7

(***************************************************************************)
(* adaptive_init (adaptive.c:15) gives no machine a lower profile than its *)
(* RAM deserves, on every memory map whose available entries do not        *)
(* overlap: neither the rounding to pages nor the bitmap's limit counts.   *)
(***************************************************************************)
THEOREM ProfileKept == BootSpec => []ProfileNotBelowRam
<1>1. BootInit => Profiled
  BY DEF BootInit, Init, Profiled
<1>2. Profiled /\ BackCounted /\ [BootNext]_bootVars => Profiled'
  BY ProfiledStep
<1>3. Profiled => ProfileNotBelowRam
  <2> SUFFICES ASSUME Profiled, profile # "unset", mmap # NoMap
               PROVE  Rank(profile) >= Rank(Profile(Ram, cpu))
    BY DEF ProfileNotBelowRam
  <2>1. cpu \in Cpus /\ mmap \in Maps /\ total_pages = TotalPages(mmap)
        /\ profile = Profile(total_bytes, cpu)
    BY DEF Profiled, total_bytes
  <2>2. /\ Ram \in Int /\ total_bytes \in Int
        /\ Ram <= total_bytes \/ HIGH_MEM <= total_bytes
    BY <2>1, RamTracked
  <2> QED
    BY <2>1, <2>2, ProfileMonotone
<1> QED
  BY <1>1, <1>2, <1>3, BackInit, BackStep, PTL DEF BootSpec
----------------------------------------------------------------------------
(***************************************************************************)
(* The loader and the terminal.                                            *)
(***************************************************************************)

Memories == [Addresses -> 0 .. WORD - 1]

\* The addresses of an allocation.
Span(a) == {x \in Addresses : x \div PAGE \in Run(a.page, a.count)}

\* An address lies in one page.
LEMMA PageOf ==
    ASSUME NEW x \in Nat
    PROVE  /\ x \div PAGE \in Nat
           /\ PAGE * (x \div PAGE) <= x /\ x < PAGE * (x \div PAGE) + PAGE
<1>1. PAGE \in Nat /\ PAGE > 0
  BY PageAssumption
<1> DEFINE d == x \div PAGE
<1>2. d \in Nat /\ x = PAGE * d + (x % PAGE) /\ x % PAGE \in 0 .. PAGE - 1
  BY <1>1
<1> HIDE DEF d
<1>3. PAGE * d \in Nat
  BY <1>1, <1>2
<1>4. PAGE * d <= x /\ x < PAGE * d + PAGE
  BY <1>1, <1>2, <1>3
<1> QED
  BY <1>2, <1>4 DEF d

\* An address in a row of pages, from the addresses of its ends.
LEMMA PageBetween ==
    ASSUME NEW x \in Nat, NEW p \in Nat, NEW q \in Nat, PAGE * p <= x, x < PAGE * q
    PROVE  p <= x \div PAGE /\ x \div PAGE < q
<1> DEFINE d == x \div PAGE
<1>1. PAGE \in Nat /\ PAGE > 0
  BY PageAssumption
<1>2. d \in Nat /\ PAGE * d <= x /\ x < PAGE * d + PAGE
  BY PageOf
<1> HIDE DEF d
<1>3. PAGE * d \in Nat /\ PAGE * p \in Nat /\ PAGE * q \in Nat
  BY <1>1, <1>2
<1>4. p <= d
  <2> SUFFICES ASSUME d + 1 <= p PROVE FALSE
    BY <1>2
  <2>1. PAGE * (d + 1) <= PAGE * p
    BY <1>2, Scale
  <2>2. PAGE * (d + 1) = PAGE * d + PAGE
    BY <1>1, <1>2
  <2> QED
    BY <1>1, <1>2, <1>3, <2>1, <2>2
<1>5. d < q
  <2> SUFFICES ASSUME q <= d PROVE FALSE
    BY <1>2
  <2>1. PAGE * q <= PAGE * d
    BY <1>2, Scale
  <2> QED
    BY <1>2, <1>3, <2>1
<1> QED
  BY <1>4, <1>5 DEF d

\* The addresses below the end of the kernel are in reserved pages.
LEMMA KernelApart ==
    ASSUME IInv, NEW a \in owned, NEW x \in 0 .. KERNEL_END - 1
    PROVE  x \notin Span(a)
<1> SUFFICES ASSUME x \in Span(a) PROVE FALSE
  OBVIOUS
<1> DEFINE d == x \div PAGE
<1>0. KERNEL_END \in Nat /\ LOW \in Nat /\ LOW <= KERNEL_END /\ x \in Nat /\ x < KERNEL_END
  BY KernelAssumption, LowAssumption
<1>1. d \in Run(a.page, a.count)
  BY DEF Span
<1>2. /\ a.page \in Nat /\ a.count \in Nat /\ a.page + a.count <= total_pages
      /\ total_pages \in Nat
  BY MaxPagesAssumption DEF IInv, TypeOK, Allocations, Below
<1>3. d \in Pages
  BY <1>1, <1>2, RunBelow DEF IInv
<1>4. d \notin LowRegion /\ d \notin KernelRegion
  BY <1>1 DEF IInv, Outside, Reserved
<1>5. d \in Nat /\ d < PageUp(KERNEL_END) /\ PageUp(KERNEL_END) \in Nat
  <2>1. PageUp(KERNEL_END) \in Nat /\ KERNEL_END <= PAGE * PageUp(KERNEL_END)
    BY <1>0, PageBounds
  <2>2. PAGE \in Nat
    BY PageAssumption
  <2>3. PAGE * PageUp(KERNEL_END) \in Nat /\ PAGE * 0 = 0
    BY <2>1, <2>2
  <2>4. PAGE * 0 <= x /\ x < PAGE * PageUp(KERNEL_END)
    BY <1>0, <2>1, <2>3
  <2> QED
    BY <1>0, <2>1, <2>4, PageBetween, PageOf
<1> HIDE DEF d
<1>6. LOW + (KERNEL_END - LOW) = KERNEL_END
  BY <1>0
<1>7. ~(PageDown(LOW) <= d /\ d < PageUp(KERNEL_END))
  BY <1>3, <1>4, <1>6 DEF KernelRegion, Region
<1>8. ~(d < LOW \div PAGE)
  BY <1>3, <1>4, LowPages
<1>9. LOW \div PAGE \in Nat /\ PageDown(LOW) = LOW \div PAGE
  BY LowPages DEF PageDown
<1> QED
  BY <1>5, <1>7, <1>8, <1>9

\* Two allocations have no address in common.
LEMMA SpansApart ==
    ASSUME IInv, NEW a \in owned, NEW b \in owned, a # b
    PROVE  Span(a) \cap Span(b) = {}
BY DEF IInv, Apart, Span
----------------------------------------------------------------------------
\* A relocated word is a word.
LEMMA AdjustedWord ==
    ASSUME NEW w \in 0 .. WORD - 1, NEW type, NEW delta \in Int
    PROVE  Adjusted(w, type, delta) \in 0 .. WORD - 1
<1>1. HALF \in Nat /\ HALF > 0 /\ WORD \in Nat /\ WORD > 0 /\ WORD % HALF = 0
  BY WordAssumption
<1>2. (w + delta) % WORD \in 0 .. WORD - 1
  BY <1>1
<1>3. (w - (w % HALF)) + (((w % HALF) + delta) % HALF) \in 0 .. WORD - 1
  <2> DEFINE d == w \div HALF
             k == WORD \div HALF
             x == ((w % HALF) + delta) % HALF
  <2>1. d \in Nat /\ w = HALF * d + (w % HALF) /\ w % HALF \in 0 .. HALF - 1
    BY <1>1
  <2>2. k \in Nat /\ WORD = HALF * k
    BY <1>1
  <2>3. x \in 0 .. HALF - 1
    BY <1>1
  <2> HIDE DEF d, k, x
  <2>4. HALF * d \in Nat /\ HALF * k \in Nat
    BY <1>1, <2>1, <2>2
  <2>5. d + 1 <= k
    <3> SUFFICES ASSUME k <= d PROVE FALSE
      BY <2>1, <2>2
    <3>1. d - k \in Nat /\ HALF * (d - k) \in Nat
      BY <1>1, <2>1, <2>2
    <3>2. HALF * d = HALF * k + HALF * (d - k)
      BY <1>1, <2>1, <2>2
    <3> QED
      BY <1>1, <2>1, <2>2, <2>4, <3>1, <3>2
  <2>6. HALF * d + HALF <= HALF * k
    <3>1. k - d - 1 \in Nat /\ HALF * (k - d - 1) \in Nat
      BY <1>1, <2>1, <2>2, <2>5
    <3>2. HALF * k = HALF * d + HALF + HALF * (k - d - 1)
      BY <1>1, <2>1, <2>2, <3>1
    <3> QED
      BY <1>1, <2>4, <3>1, <3>2
  <2>7. w - (w % HALF) = HALF * d
    BY <1>1, <2>1, <2>4
  <2>8. HALF * d + x \in 0 .. WORD - 1
    BY <1>1, <2>2, <2>3, <2>4, <2>6
  <2> QED
    BY <2>7, <2>8 DEF x
<1> QED
  BY <1>2, <1>3 DEF Adjusted

\* At the address a file is linked for, relocating is the identity.
LEMMA AdjustedByNothing ==
    ASSUME NEW w \in 0 .. WORD - 1, NEW type
    PROVE  Adjusted(w, type, 0) = w
<1>1. HALF \in Nat /\ HALF > 0 /\ WORD \in Nat /\ WORD > 0
  BY WordAssumption
<1>2. (w + 0) % WORD = w
  BY <1>1
<1> DEFINE r == w % HALF
<1>3. r \in 0 .. HALF - 1
  BY <1>1
<1> HIDE DEF r
<1>4. (r + 0) % HALF = r /\ (w - r) + r = w
  BY <1>1, <1>3
<1> QED
  BY <1>2, <1>4 DEF Adjusted, r
----------------------------------------------------------------------------
\* Addresses are numbers.
LEMMA AddressesNat == Addresses \subseteq Nat
<1>1. PMM_MAX_PAGES * PAGE \in Nat
  BY MaxPagesAssumption, PageAssumption
<1> QED
  BY <1>1 DEF Addresses

\* The header words that are copied come from the file.
LEMMA HeaderWords ==
    ASSUME NEW f \in Files
    PROVE  /\ hdr_copy(f) \in Nat /\ hdr_copy(f) <= f.size
           /\ hdr_copy(f) <= f.size_of_image
<1> DEFINE S == {f.size_of_headers, f.size, f.size_of_image}
<1>1. S \in SUBSET Nat /\ S # {}
  BY FilesAssumption DEF Executables
<1>2. IsFiniteSet(S)
  <2>1. IsFiniteSet({f.size_of_image})
    BY FS_Singleton
  <2>2. IsFiniteSet({f.size_of_image} \cup {f.size})
    BY <2>1, FS_AddElement
  <2>3. IsFiniteSet(({f.size_of_image} \cup {f.size}) \cup {f.size_of_headers})
    BY <2>2, FS_AddElement
  <2>4. S = ({f.size_of_image} \cup {f.size}) \cup {f.size_of_headers}
    BY Zenon
  <2> QED
    BY <2>3, <2>4
<1>3. PICK w \in S : \A v \in S : w <= v
  <2> HIDE DEF S
  <2>1. S \in SUBSET Int
    BY <1>1
  <2> QED
    BY <1>1, <1>2, <2>1, LeastExists
<1>4. Min(S) \in S /\ \A v \in S : Min(S) <= v
  BY <1>3 DEF Min
<1> QED
  BY <1>1, <1>4 DEF hdr_copy

\* The word at an offset once the sections with an index in s are copied.
Seen(f, rva, s) ==
    IF Sections(f, rva) \cap s # {}
    THEN Word(f.sections[Max(Sections(f, rva) \cap s)].pointer_to_raw_data + rva
              - f.sections[Max(Sections(f, rva) \cap s)].virtual_address)
    ELSE IF rva < hdr_copy(f) THEN Word(rva) ELSE 0

\* Memory with an image of which those sections are copied.
Placing(f, base, mem, m, s) ==
    /\ m \in Memories
    /\ \A a \in Addresses :
          m[a] = IF base <= a /\ a < base + f.size_of_image
                 THEN Seen(f, a - base, s) ELSE mem[a]

\* The fields of a section.
LEMMA SectionFields ==
    ASSUME NEW f \in Files, NEW n \in DOMAIN f.sections
    PROVE  /\ f.sections[n].virtual_address \in Nat
           /\ f.sections[n].pointer_to_raw_data \in Nat
           /\ f.sections[n].size_of_raw_data \in Nat
           /\ f.size \in Nat /\ f.size_of_image \in Nat /\ f.size < WORD
<1> DEFINE R == [virtual_address : Nat, pointer_to_raw_data : Nat, size_of_raw_data : Nat]
<1>1. f.sections \in Seq(R) /\ f.size \in Nat /\ f.size_of_image \in Nat /\ f.size < WORD
  BY FilesAssumption DEF Executables
<1>2. f.sections[n] \in R
  BY <1>1, Indices
<1> QED
  BY <1>1, <1>2

\* The headers alone: the memory Placed starts from.
LEMMA PlacingHeaders ==
    ASSUME NEW f \in Files, NEW base \in Nat, NEW mem \in Memories
    PROVE  Placing(f, base, mem, Copy(Zeroed(mem, base, f), base, 0, hdr_copy(f)), {})
<1> DEFINE m == Copy(Zeroed(mem, base, f), base, 0, hdr_copy(f))
           h == hdr_copy(f)
<1>1. h \in Nat /\ h <= f.size /\ h <= f.size_of_image
  BY HeaderWords
<1>2. f.size \in Nat /\ f.size_of_image \in Nat /\ f.size < WORD /\ WORD \in Nat /\ WORD > 0
  BY FilesAssumption, WordAssumption DEF Executables
<1>3. \A a \in Addresses : mem[a] \in 0 .. WORD - 1
  BY DEF Memories
<1>4. \A a \in Addresses :
        m[a] = IF base <= a /\ a < base + h THEN Word(0 + a - base)
               ELSE IF base <= a /\ a < base + f.size_of_image THEN 0 ELSE mem[a]
  BY DEF Copy, Zeroed
<1>5. DOMAIN m = Addresses
  BY DEF Copy
<1>6. \A rva : Seen(f, rva, {}) = IF rva < h THEN Word(rva) ELSE 0
  BY DEF Seen
<1>7. m = [a \in Addresses |-> m[a]]
  BY DEF Copy
<1> HIDE DEF m, h
<1>8. ASSUME NEW a \in Addresses
      PROVE  /\ m[a] = IF base <= a /\ a < base + f.size_of_image
                       THEN Seen(f, a - base, {}) ELSE mem[a]
             /\ m[a] \in 0 .. WORD - 1
  <2>1. a \in Nat
    BY AddressesNat
  <2>2. 0 + a - base = a - base /\ (a < base + h <=> a - base < h)
    BY <1>1, <2>1
  <2>3. m[a] = IF base <= a /\ a < base + f.size_of_image
               THEN IF a - base < h THEN Word(a - base) ELSE 0 ELSE mem[a]
    BY <1>1, <1>2, <1>4, <2>1, <2>2
  <2>4. base <= a /\ a - base < h => Word(a - base) \in 0 .. WORD - 1
    BY <1>1, <1>2, <2>1 DEF Word
  <2> QED
    BY <1>2, <1>3, <1>6, <2>3, <2>4
<1>9. m \in Memories
  BY <1>7, <1>8 DEF Memories
<1> QED
  BY <1>8, <1>9 DEF Placing, m, h

\* One section more, copied or left out.
PlaceOne(f, base, m, s) ==
    IF Copied(f, s)
    THEN Copy(m, base + s.virtual_address, s.pointer_to_raw_data, s.size_of_raw_data)
    ELSE m

LEMMA PlacingSection ==
    ASSUME NEW f \in Files, NEW base \in Nat, NEW mem \in Memories, NEW m,
           NEW s \in SUBSET DOMAIN f.sections, s # {},
           Placing(f, base, mem, m, s \ {Max(s)})
    PROVE  Placing(f, base, mem, PlaceOne(f, base, m, f.sections[Max(s)]), s)
<1> DEFINE n == Max(s)
           c == f.sections[n]
           va == c.virtual_address
           ptr == c.pointer_to_raw_data
           raw == c.size_of_raw_data
           q == PlaceOne(f, base, m, c)
           In(a) == base <= a /\ a < base + f.size_of_image
           Here(a) == Copied(f, c) /\ base + va <= a /\ a < base + va + raw
<1>1. n \in s /\ n \in DOMAIN f.sections /\ \A k \in s : k <= n
  <2>1. s \in SUBSET Int /\ IsFiniteSet(s)
    <3>1. f.sections \in Seq([virtual_address : Nat, pointer_to_raw_data : Nat,
                              size_of_raw_data : Nat])
      BY FilesAssumption DEF Executables
    <3>2. DOMAIN f.sections \in SUBSET Int /\ IsFiniteSet(DOMAIN f.sections)
      BY <3>1, Indices
    <3> QED
      BY <3>2, FS_Subset
  <2>2. Max(s) \in s /\ \A v \in s : Max(s) >= v
    BY <2>1, MaxExists
  <2> QED
    BY <2>1, <2>2
<1>2. /\ va \in Nat /\ ptr \in Nat /\ raw \in Nat
      /\ f.size \in Nat /\ f.size_of_image \in Nat /\ f.size < WORD /\ WORD \in Nat
  BY <1>1, SectionFields, WordAssumption
<1>3. /\ m \in Memories
      /\ \A a \in Addresses : m[a] = IF In(a) THEN Seen(f, a - base, s \ {n}) ELSE mem[a]
  BY DEF Placing
<1>4. \A a \in Addresses :
        q[a] = IF Here(a) THEN Word(ptr + a - (base + va)) ELSE m[a]
  BY <1>3 DEF PlaceOne, Copy, Memories
<1>5. q = [a \in Addresses |-> q[a]]
  BY <1>3 DEF PlaceOne, Copy, Memories
<1>6. \A a \in Addresses : n \in Sections(f, a - base) <=>
                Copied(f, c) /\ va <= a - base /\ a - base < va + raw
  BY <1>1 DEF Sections
<1> HIDE DEF q
<1>7. ASSUME NEW a \in Addresses, Here(a)
      PROVE  /\ In(a) /\ q[a] = Seen(f, a - base, s)
             /\ q[a] \in 0 .. WORD - 1
  <2> DEFINE hit == Sections(f, a - base) \cap s
  <2>1. a \in Nat
    BY AddressesNat
  <2>2. /\ ptr + raw <= f.size /\ va + raw <= f.size_of_image
        /\ base + va <= a /\ a < base + va + raw
    BY <1>7 DEF Copied
  <2>3. /\ base <= a /\ a < base + f.size_of_image
        /\ va <= a - base /\ a - base < va + raw
        /\ ptr + a - (base + va) = ptr + (a - base) - va
        /\ ptr + a - (base + va) \in Nat /\ ptr + a - (base + va) + 1 <= WORD - 1
    <3> HIDE DEF va, ptr, raw
    <3> QED
      BY <1>2, <2>1, <2>2
  <2>4. n \in hit
    BY <1>1, <1>6, <1>7, <2>3
  <2>5. Max(hit) = n
    <3>1. hit \in SUBSET s /\ \A k \in hit : k <= n
      BY <1>1
    <3>2. hit \in SUBSET DOMAIN f.sections
      OBVIOUS
    <3>3. DOMAIN f.sections \in SUBSET Int
      BY FilesAssumption, Indices DEF Executables
    <3>4. Max(hit) \in hit /\ \A v \in hit : Max(hit) >= v
      <4>1. \E w \in hit : \A v \in hit : w >= v
        BY <2>4, <3>1, <3>2, <3>3
      <4> QED
        BY <4>1 DEF Max
    <3> HIDE DEF hit, n
    <3> QED
      BY <2>4, <3>1, <3>2, <3>3, <3>4
  <2>6. Seen(f, a - base, s) = Word(ptr + (a - base) - va)
    BY <2>4, <2>5 DEF Seen
  <2>7. q[a] = Word(ptr + a - (base + va))
    BY <1>4, <1>7
  <2>8. Word(ptr + a - (base + va)) \in 0 .. WORD - 1
    BY <1>2, <2>3 DEF Word
  <2> QED
    BY <2>3, <2>6, <2>7, <2>8
<1>8. ASSUME NEW a \in Addresses, ~Here(a)
      PROVE  /\ q[a] = IF In(a) THEN Seen(f, a - base, s) ELSE mem[a]
             /\ q[a] \in 0 .. WORD - 1
  <2>1. a \in Nat
    BY AddressesNat
  <2>2. n \notin Sections(f, a - base)
    <3>1. ASSUME va <= a - base, a - base < va + raw
          PROVE  base + va <= a /\ a < base + va + raw
      <4> HIDE DEF va, ptr, raw
      <4> QED
        BY <1>2, <2>1, <3>1
    <3> QED
      BY <1>6, <1>8, <3>1
  <2>3. Sections(f, a - base) \cap s = Sections(f, a - base) \cap (s \ {n})
    BY <2>2
  <2>4. Seen(f, a - base, s) = Seen(f, a - base, s \ {n})
    <3> HIDE DEF n
    <3> QED
      BY <2>3 DEF Seen
  <2>5. q[a] = m[a] /\ m[a] \in 0 .. WORD - 1
    BY <1>3, <1>4, <1>8 DEF Memories
  <2> QED
    BY <1>3, <2>4, <2>5
<1>9. q \in Memories
  <2> HIDE DEF Here
  <2> QED
    BY <1>5, <1>7, <1>8 DEF Memories
<1> QED
  <2> HIDE DEF Here
  <2>1. \A a \in Addresses : q[a] = IF In(a) THEN Seen(f, a - base, s) ELSE mem[a]
    BY <1>7, <1>8
  <2> QED
    BY <1>9, <2>1 DEF Placing, q

\* The equation of the fold over the sections.
Places(f, base, start, g) ==
    g = [s \in SUBSET DOMAIN f.sections |->
            IF s = {} THEN start
            ELSE PlaceOne(f, base, g[s \ {Max(s)}], f.sections[Max(s)])]

\* All sections: the image is as the file describes it, and nothing else
\* is written.
LEMMA PlacedImage ==
    ASSUME NEW f \in Files, NEW base \in Nat, NEW mem \in Memories
    PROVE  Placing(f, base, mem, Placed(mem, base, f), DOMAIN f.sections)
<1> DEFINE I == DOMAIN f.sections
           start == Copy(Zeroed(mem, base, f), base, 0, hdr_copy(f))
           F == [x \in I \X Memories |-> PlaceOne(f, base, x[2], f.sections[x[1]])]
           k == CHOOSE g : Places(f, base, start, g)
<1>1. I \in SUBSET Int /\ IsFiniteSet(I) /\ \A s \in SUBSET I : s # {} => Max(s) \in s
  <2>1. f.sections \in Seq([virtual_address : Nat, pointer_to_raw_data : Nat,
                            size_of_raw_data : Nat])
    BY FilesAssumption DEF Executables
  <2> QED
    BY <2>1, Indices
<1>2. \A i \in I, v \in Memories : PlaceOne(f, base, v, f.sections[i]) \in Memories
                                   /\ F[<<i, v>>] = PlaceOne(f, base, v, f.sections[i])
  <2> TAKE i \in I, v \in Memories
  <2>1. PlaceOne(f, base, v, f.sections[i]) \in Memories
    <3> DEFINE c == f.sections[i]
    <3>1. /\ c.virtual_address \in Nat /\ c.pointer_to_raw_data \in Nat
          /\ c.size_of_raw_data \in Nat /\ f.size \in Nat /\ f.size < WORD /\ WORD \in Nat
      BY SectionFields, WordAssumption
    <3>2. CASE Copied(f, c)
      <4>1. c.pointer_to_raw_data + c.size_of_raw_data <= f.size
        BY <3>2 DEF Copied
      <4> HIDE DEF c
      <4>2. \A a \in Addresses :
               base + c.virtual_address <= a /\ a < base + c.virtual_address + c.size_of_raw_data
               => Word(c.pointer_to_raw_data + a - (base + c.virtual_address)) \in 0 .. WORD - 1
        BY <3>1, <4>1, AddressesNat DEF Word
      <4> QED
        BY <3>2, <4>2 DEF PlaceOne, Copy, Memories, c
    <3>3. CASE ~Copied(f, c)
      BY <3>3 DEF PlaceOne
    <3> QED
      BY <3>2, <3>3
  <2> QED
    BY <2>1
<1>3. Placing(f, base, mem, start, {}) /\ start \in Memories
  BY PlacingHeaders DEF Placing
<1>4. Placed(mem, base, f) = k[I]
  BY DEF Placed, FoldLeft, MapThenFoldSet, Places, PlaceOne
<1> HIDE DEF start
<1>5. \E g : Places(f, base, start, g)
  <2>1. PICK g \in [SUBSET I -> Memories] : FoldsBy(F, start, SUBSET I, g)
    <3> HIDE DEF I, F
    <3>1. \A i \in I, v \in Memories : F[<<i, v>>] \in Memories
      BY <1>2
    <3> QED
      BY <1>1, <1>3, <3>1, FoldExists
  <2>2. \A s \in SUBSET I : s # {} => F[<<Max(s), g[s \ {Max(s)}]>>] =
                                      PlaceOne(f, base, g[s \ {Max(s)}], f.sections[Max(s)])
    <3> TAKE s \in SUBSET I
    <3> HAVE s # {}
    <3>1. Max(s) \in I /\ s \ {Max(s)} \in SUBSET I
      BY <1>1
    <3>2. g[s \ {Max(s)}] \in Memories
      BY <2>1, <3>1
    <3> HIDE DEF F
    <3> QED
      BY <1>2, <3>1, <3>2
  <2>3. Places(f, base, start, g)
    <3> HIDE DEF F
    <3> QED
      BY <2>1, <2>2 DEF FoldsBy, Places
  <2> QED
    BY <2>3
<1>6. Places(f, base, start, k)
  BY <1>5
<1> HIDE DEF k
<1>7. /\ k[{}] = start
      /\ \A s \in SUBSET I : s # {} =>
            k[s] = PlaceOne(f, base, k[s \ {Max(s)}], f.sections[Max(s)])
  BY <1>6 DEF Places
<1> DEFINE G == {s \in SUBSET I : Placing(f, base, mem, k[s], s)}
<1>8. SUBSET I \subseteq G
  <2>1. {} \in G
    BY <1>3, <1>7
  <2>2. \A s \in SUBSET I : s # {} /\ s \ {Max(s)} \in G => s \in G
    <3> SUFFICES ASSUME NEW s \in SUBSET I, s # {}, s \ {Max(s)} \in G PROVE s \in G
      OBVIOUS
    <3>1. Placing(f, base, mem, k[s \ {Max(s)}], s \ {Max(s)})
      OBVIOUS
    <3>2. Placing(f, base, mem, PlaceOne(f, base, k[s \ {Max(s)}], f.sections[Max(s)]), s)
      BY <3>1, PlacingSection
    <3> QED
      BY <1>7, <3>2
  <2> HIDE DEF G, I
  <2> QED
    BY <1>1, <2>1, <2>2, SubsetInduction
<1>9. Placing(f, base, mem, k[I], I)
  BY <1>8
<1> QED
  BY <1>4, <1>9
----------------------------------------------------------------------------
\* Memory once the relocations with an index in s are applied, except for
\* words that are named twice.
Moving(f, base, mem, m, s) ==
    /\ m \in Memories
    /\ \A a \in Addresses :
          /\ \A n \in s : (\A k \in s : a = base + f.relocs[k].rva <=> k = n) =>
                m[a] = Adjusted(mem[a], f.relocs[n].type, base - f.image_base)
          /\ (\A n \in s : a # base + f.relocs[n].rva) => m[a] = mem[a]

\* One entry of the table.
MoveOne(f, base, m, r) ==
    [m EXCEPT ![base + r.rva] = Adjusted(@, r.type, base - f.image_base)]

\* An entry, and the numbers it is applied with.
LEMMA RelocFields ==
    ASSUME NEW f \in Files
    PROVE  /\ f.relocs \in Seq([type : {"DIR64", "HIGHLOW", "ABSOLUTE"}, rva : Nat])
           /\ f.image_base \in Nat /\ f.size_of_image \in Nat
           /\ \A n \in DOMAIN f.relocs : f.relocs[n].rva \in Nat
<1> DEFINE R == [type : {"DIR64", "HIGHLOW", "ABSOLUTE"}, rva : Nat]
<1>1. f.relocs \in Seq(R) /\ f.image_base \in Nat /\ f.size_of_image \in Nat
  BY FilesAssumption DEF Executables
<1>2. \A n \in DOMAIN f.relocs : f.relocs[n] \in R
  BY <1>1, Indices
<1> QED
  BY <1>1, <1>2

LEMMA MoveOneType ==
    ASSUME NEW f \in Files, NEW base \in Nat, NEW m \in Memories, NEW r
    PROVE  MoveOne(f, base, m, r) \in Memories
<1>1. base - f.image_base \in Int
  BY RelocFields
<1>2. \A a \in Addresses : Adjusted(m[a], r.type, base - f.image_base) \in 0 .. WORD - 1
  BY <1>1, AdjustedWord DEF Memories
<1> QED
  BY <1>2 DEF MoveOne, Memories

LEMMA MovingOne ==
    ASSUME NEW f \in Files, NEW base \in Nat, NEW mem \in Memories, NEW m,
           NEW s \in SUBSET DOMAIN f.relocs, s # {},
           Moving(f, base, mem, m, s \ {Max(s)})
    PROVE  Moving(f, base, mem, MoveOne(f, base, m, f.relocs[Max(s)]), s)
<1> DEFINE n == Max(s)
           r == f.relocs[n]
           q == MoveOne(f, base, m, r)
           At(k) == base + f.relocs[k].rva
<1>1. n \in s
  BY RelocFields, Indices
<1>2. m \in Memories /\ q \in Memories
  BY MoveOneType DEF Moving
<1>3. \A a \in Addresses :
        q[a] = IF a = At(n) THEN Adjusted(m[a], r.type, base - f.image_base) ELSE m[a]
  BY <1>2 DEF MoveOne, Memories
<1>5. \A a \in Addresses :
        /\ \A k \in s \ {n} : (\A j \in s \ {n} : a = At(j) <=> j = k) =>
              m[a] = Adjusted(mem[a], f.relocs[k].type, base - f.image_base)
        /\ (\A k \in s \ {n} : a # At(k)) => m[a] = mem[a]
  BY DEF Moving
<1>6. ASSUME NEW a \in Addresses
      PROVE  /\ \A k \in s : (\A j \in s : a = At(j) <=> j = k) =>
                   q[a] = Adjusted(mem[a], f.relocs[k].type, base - f.image_base)
             /\ (\A k \in s : a # At(k)) => q[a] = mem[a]
  <2> HIDE DEF At, q, n
  <2>1. ASSUME NEW k \in s, \A j \in s : a = At(j) <=> j = k
        PROVE  q[a] = Adjusted(mem[a], f.relocs[k].type, base - f.image_base)
    <3>1. CASE k = n
      <4>1. m[a] = mem[a] /\ a = At(n)
        BY <1>1, <1>5, <2>1, <3>1
      <4> QED
        BY <1>3, <3>1, <4>1
    <3>2. CASE k # n
      <4>1. k \in s \ {n} /\ a # At(n)
        BY <1>1, <2>1, <3>2
      <4>2. m[a] = Adjusted(mem[a], f.relocs[k].type, base - f.image_base)
        BY <1>5, <2>1, <4>1
      <4> QED
        BY <1>3, <4>1, <4>2
    <3> QED
      BY <3>1, <3>2
  <2>2. ASSUME \A k \in s : a # At(k) PROVE q[a] = mem[a]
    BY <1>1, <1>3, <1>5, <2>2
  <2> QED
    BY <2>1, <2>2
<1> QED
  BY <1>2, <1>6 DEF Moving

\* The equation of the fold over the table.
Moves(f, base, start, g) ==
    g = [s \in SUBSET DOMAIN f.relocs |->
            IF s = {} THEN start
            ELSE MoveOne(f, base, g[s \ {Max(s)}], f.relocs[Max(s)])]

\* The whole table.
LEMMA MovedImage ==
    ASSUME NEW f \in Files, NEW base \in Nat, NEW mem \in Memories
    PROVE  Moving(f, base, mem,
                  FoldLeft(LAMBDA m, r : [m EXCEPT ![base + r.rva] =
                                             Adjusted(@, r.type, base - f.image_base)],
                           mem, f.relocs),
                  DOMAIN f.relocs)
<1> DEFINE I == DOMAIN f.relocs
           F == [x \in I \X Memories |-> MoveOne(f, base, x[2], f.relocs[x[1]])]
           k == CHOOSE g : Moves(f, base, mem, g)
<1>1. I \in SUBSET Int /\ IsFiniteSet(I) /\ \A s \in SUBSET I : s # {} => Max(s) \in s
  BY RelocFields, Indices
<1>2. \A i \in I, v \in Memories : MoveOne(f, base, v, f.relocs[i]) \in Memories
                                   /\ F[<<i, v>>] = MoveOne(f, base, v, f.relocs[i])
  BY MoveOneType
<1>3. Moving(f, base, mem, mem, {})
  BY DEF Moving
<1>4. FoldLeft(LAMBDA m, r : [m EXCEPT ![base + r.rva] =
                                 Adjusted(@, r.type, base - f.image_base)],
               mem, f.relocs) = k[I]
  BY DEF FoldLeft, MapThenFoldSet, Moves, MoveOne
<1>5. \E g : Moves(f, base, mem, g)
  <2>1. PICK g \in [SUBSET I -> Memories] : FoldsBy(F, mem, SUBSET I, g)
    <3> HIDE DEF I, F
    <3>1. \A i \in I, v \in Memories : F[<<i, v>>] \in Memories
      BY <1>2
    <3> QED
      BY <1>1, <3>1, FoldExists
  <2>2. \A s \in SUBSET I : s # {} => F[<<Max(s), g[s \ {Max(s)}]>>] =
                                      MoveOne(f, base, g[s \ {Max(s)}], f.relocs[Max(s)])
    <3> TAKE s \in SUBSET I
    <3> HAVE s # {}
    <3>1. Max(s) \in I /\ s \ {Max(s)} \in SUBSET I
      BY <1>1
    <3>2. g[s \ {Max(s)}] \in Memories
      BY <2>1, <3>1
    <3> HIDE DEF F
    <3> QED
      BY <1>2, <3>1, <3>2
  <2>3. Moves(f, base, mem, g)
    <3> HIDE DEF F
    <3> QED
      BY <2>1, <2>2 DEF FoldsBy, Moves
  <2> QED
    BY <2>3
<1>6. Moves(f, base, mem, k)
  BY <1>5
<1> HIDE DEF k
<1>7. /\ k[{}] = mem
      /\ \A s \in SUBSET I : s # {} =>
            k[s] = MoveOne(f, base, k[s \ {Max(s)}], f.relocs[Max(s)])
  BY <1>6 DEF Moves
<1> DEFINE G == {s \in SUBSET I : Moving(f, base, mem, k[s], s)}
<1>8. SUBSET I \subseteq G
  <2>1. {} \in G
    BY <1>3, <1>7
  <2>2. \A s \in SUBSET I : s # {} /\ s \ {Max(s)} \in G => s \in G
    <3> SUFFICES ASSUME NEW s \in SUBSET I, s # {}, s \ {Max(s)} \in G PROVE s \in G
      OBVIOUS
    <3>1. Moving(f, base, mem, k[s \ {Max(s)}], s \ {Max(s)})
      OBVIOUS
    <3>2. Moving(f, base, mem, MoveOne(f, base, k[s \ {Max(s)}], f.relocs[Max(s)]), s)
      BY <3>1, MovingOne
    <3> QED
      BY <1>7, <3>2
  <2> HIDE DEF G, I
  <2> QED
    BY <1>1, <2>1, <2>2, SubsetInduction
<1>9. Moving(f, base, mem, k[I], I)
  BY <1>8
<1> QED
  BY <1>4, <1>9
----------------------------------------------------------------------------
\* The entry of an address: whether the table names it, and at most once.
Names(f, base, a) == ~Unmoved(f, base) /\ \E n \in DOMAIN f.relocs : a = base + f.relocs[n].rva
Once(f, rva) == \A m, n \in Relocs(f, rva) : m = n

\* Memory with a whole image in it.
Loaded(f, base, mem, m) ==
    /\ m \in Memories
    /\ \A a \in Addresses :
          IF base <= a /\ a < base + f.size_of_image
          THEN Once(f, a - base) => m[a] = Expected(f, base, a - base)
          ELSE ~Names(f, base, a) => m[a] = mem[a]

\* With all sections copied every word is the intended one.
LEMMA SeenAll == ASSUME NEW f, NEW rva PROVE Seen(f, rva, DOMAIN f.sections) = Intended(f, rva)
<1>1. Sections(f, rva) \cap DOMAIN f.sections = Sections(f, rva)
  BY DEF Sections
<1> QED
  BY <1>1 DEF Seen, Intended

\* pe_run's copying and relocating, whatever was in that memory before.
LEMMA LoadedImage ==
    ASSUME NEW f \in Files, NEW base \in Nat, NEW mem \in Memories
    PROVE  Loaded(f, base, mem, apply_relocations(Placed(mem, base, f), base, f))
<1> DEFINE p == Placed(mem, base, f)
           m == apply_relocations(p, base, f)
           In(a) == base <= a /\ a < base + f.size_of_image
           delta == base - f.image_base
           skip == Unmoved(f, base)
<1>1. /\ p \in Memories
      /\ \A a \in Addresses : p[a] = IF In(a) THEN Intended(f, a - base) ELSE mem[a]
  BY PlacedImage, SeenAll DEF Placing
<1>2. \A rva : Expected(f, base, rva) =
                  IF Relocs(f, rva) = {} \/ skip THEN Intended(f, rva)
                  ELSE Adjusted(Intended(f, rva), f.relocs[Max(Relocs(f, rva))].type, delta)
  BY DEF Expected
<1>3. CASE skip
  <2>1. m = p
    BY <1>3 DEF apply_relocations
  <2> HIDE DEF skip, p, m
  <2> QED
    BY <1>1, <1>2, <1>3, <2>1 DEF Loaded, p, m
<1>4. CASE ~skip
  <2>1. Moving(f, base, p, m, DOMAIN f.relocs)
    <3>1. m = FoldLeft(LAMBDA mm, r : [mm EXCEPT ![base + r.rva] =
                                          Adjusted(@, r.type, base - f.image_base)],
                       p, f.relocs)
      BY <1>4 DEF apply_relocations
    <3> HIDE DEF p
    <3> QED
      BY <1>1, <3>1, MovedImage
  <2> HIDE DEF p, m, skip
  <2>2. ASSUME NEW a \in Addresses, ~In(a), ~Names(f, base, a) PROVE m[a] = mem[a]
    <3>1. \A n \in DOMAIN f.relocs : a # base + f.relocs[n].rva
      BY <1>4, <2>2 DEF Names, skip
    <3>2. m[a] = p[a]
      BY <2>1, <3>1 DEF Moving
    <3> QED
      BY <1>1, <2>2, <3>2
  <2>3. ASSUME NEW a \in Addresses, In(a), Once(f, a - base)
        PROVE  m[a] = Expected(f, base, a - base)
    <3> DEFINE rva == a - base
    <3>1. a \in Nat /\ rva \in Int
      BY AddressesNat
    <3>2. ASSUME NEW n \in DOMAIN f.relocs
          PROVE  n \in Relocs(f, rva) <=> a = base + f.relocs[n].rva
      <4> DEFINE v == f.relocs[n].rva
      <4>1. v \in Nat
        BY RelocFields
      <4>2. v = rva <=> a = base + v
        <5> HIDE DEF v
        <5> QED
          BY <3>1, <4>1
      <4> QED
        BY <4>2 DEF Relocs
    <3>3. p[a] = Intended(f, rva)
      BY <1>1, <2>3
    <3>4. CASE Relocs(f, rva) = {}
      <4>1. \A n \in DOMAIN f.relocs : a # base + f.relocs[n].rva
        BY <3>2, <3>4
      <4>2. m[a] = p[a]
        BY <2>1, <4>1 DEF Moving
      <4> HIDE DEF rva
      <4> QED
        BY <1>2, <3>3, <3>4, <4>2 DEF rva
    <3>5. CASE Relocs(f, rva) # {}
      <4> DEFINE n == Max(Relocs(f, rva))
      <4>1. n \in Relocs(f, rva)
        <5>1. Relocs(f, rva) \in SUBSET DOMAIN f.relocs
          BY DEF Relocs
        <5> HIDE DEF rva
        <5> QED
          BY <3>5, <5>1, RelocFields, Indices
      <4>2. n \in DOMAIN f.relocs
        BY <4>1 DEF Relocs
      <4>3. \A k \in DOMAIN f.relocs : a = base + f.relocs[k].rva <=> k = n
        <5> HIDE DEF n, rva
        <5> QED
          BY <2>3, <3>2, <4>1 DEF Once, rva
      <4>4. m[a] = Adjusted(p[a], f.relocs[n].type, delta)
        <5> HIDE DEF n
        <5> QED
          BY <2>1, <4>2, <4>3 DEF Moving
      <4>5. Expected(f, base, rva) = Adjusted(Intended(f, rva), f.relocs[n].type, delta)
        BY <1>2, <1>4, <3>5
      <4> HIDE DEF n, delta
      <4> QED
        BY <3>3, <4>4, <4>5
    <3> QED
      BY <3>4, <3>5
  <2>4. m \in Memories
    BY <2>1 DEF Moving
  <2> HIDE DEF In
  <2>5. \A a \in Addresses : IF In(a) THEN Once(f, a - base) => m[a] = Expected(f, base, a - base)
                             ELSE ~Names(f, base, a) => m[a] = mem[a]
    BY <2>2, <2>3
  <2> QED
    BY <2>4, <2>5 DEF Loaded, p, m, In
<1> QED
  BY <1>3, <1>4
----------------------------------------------------------------------------
\* Where the memory of an image comes from: the heap, or pages of its own.
Allocation(i) == [page |-> i.page, count |-> img_pages(i.file)]

Housed(i) ==
    /\ i.file \in Files /\ i.base \in Nat
    /\ \/ i.page = 0 /\ Extent(i) \subseteq Arena
       \/ i.page # 0 /\ i.base = i.page * PAGE /\ Allocation(i) \in owned

\* The inductive invariant of memory: images have room of their own, every
\* image is intact, and so is what the other clients and the kernel hold,
\* apart from the words behind an image that its table names.
Separate == \A i, j \in images : i # j => Extent(i) \cap Extent(j) = {}
HoldersKept == \A c \in Holders : \A x \in Span(c) : x \notin Strays => ram[x] = Junk
KernelKept == \A x \in 0 .. KERNEL_END - 1 : x \notin Arena \cup Strays => ram[x] = 0

MemInv ==
    /\ ram \in Memories
    /\ \A i \in images : Housed(i)
    /\ Separate /\ ImagesFaithful /\ HoldersKept /\ KernelKept

\* The kernel's image is memory, and the heap is in it.
LEMMA KernelIn ==
    /\ KERNEL_END \in Nat
    /\ 0 .. KERNEL_END - 1 \subseteq Addresses
    /\ Arena \subseteq 0 .. KERNEL_END - 1
<1>1. PMM_MAX_PAGES * PAGE \in Nat
  BY MaxPagesAssumption, PageAssumption
<1> DEFINE top == PMM_MAX_PAGES * PAGE
<1>2. KERNEL_END \in Nat /\ LOW \in Nat /\ KERNEL_END <= top
  BY KernelAssumption, LowAssumption, ArenaAssumption
<1>3. Arena \subseteq LOW .. KERNEL_END - 1
  BY ArenaAssumption
<1> HIDE DEF top
<1>4. 0 .. KERNEL_END - 1 \subseteq 0 .. top - 1
  BY <1>1, <1>2 DEF top
<1>5. Arena \subseteq 0 .. KERNEL_END - 1
  BY <1>2, <1>3
<1> QED
  BY <1>2, <1>4, <1>5 DEF Addresses, top

\* An allocation lies within the memory the bitmap tracks.
LEMMA OwnedBounds ==
    ASSUME IInv, NEW a \in owned
    PROVE  /\ a.page \in Nat \ {0} /\ a.count \in Nat \ {0}
           /\ a.page + a.count <= PMM_MAX_PAGES
<1>1. /\ a.page \in Nat /\ a.count \in Nat /\ a.count > 0
      /\ a.page + a.count <= total_pages
      /\ total_pages \in Nat /\ total_pages <= PMM_MAX_PAGES
  BY MaxPagesAssumption DEF IInv, TypeOK, Allocations, Below
<1>2. a.page # 0
  BY InvDisjoint DEF AllocationsDisjoint
<1> QED
  BY <1>1, <1>2, MaxPagesAssumption

\* The addresses from the start of an allocation to its end are its own.
LEMMA InSpan ==
    ASSUME IInv, NEW a \in owned, NEW x \in Nat,
           PAGE * a.page <= x, x < PAGE * (a.page + a.count)
    PROVE  x \in Span(a)
<1> DEFINE p == a.page
           q == a.page + a.count
           d == x \div PAGE
<1>1. p \in Nat /\ q \in Nat /\ a.count \in Nat /\ q <= PMM_MAX_PAGES /\ PMM_MAX_PAGES \in Nat
  BY OwnedBounds, MaxPagesAssumption
<1>2. p <= d /\ d < q /\ d \in Nat
  <2> HIDE DEF p, q, d
  <2> QED
    BY <1>1, PageBetween, PageOf DEF p, q, d
<1>3. d \in Run(a.page, a.count)
  BY <1>1, <1>2 DEF Run
<1>4. x < PMM_MAX_PAGES * PAGE
  <2> HIDE DEF q
  <2>1. PAGE * q <= PAGE * PMM_MAX_PAGES
    BY <1>1, Scale
  <2>2. PAGE * q \in Nat /\ PAGE * PMM_MAX_PAGES \in Nat
        /\ PAGE * PMM_MAX_PAGES = PMM_MAX_PAGES * PAGE
    BY <1>1, PageAssumption
  <2> QED
    BY <2>1, <2>2 DEF q
<1>5. PMM_MAX_PAGES * PAGE \in Nat
  BY MaxPagesAssumption, PageAssumption
<1> QED
  BY <1>3, <1>4, <1>5 DEF Span, Addresses

\* Every page of an allocation, word by word.
LEMMA PageInSpan ==
    ASSUME IInv, NEW a \in owned, NEW p \in Run(a.page, a.count),
           NEW x \in p * PAGE .. (p + 1) * PAGE - 1
    PROVE  x \in Span(a)
<1>1. a.page \in Nat /\ a.count \in Nat
  BY OwnedBounds
<1>2. p \in Nat /\ a.page <= p /\ p + 1 <= a.page + a.count
      /\ p + 1 \in Nat /\ a.page + a.count \in Nat
  BY <1>1 DEF Run
<1>3. /\ PAGE * a.page <= PAGE * p
      /\ PAGE * (p + 1) <= PAGE * (a.page + a.count)
  BY <1>1, <1>2, Scale
<1>4. /\ PAGE * p = p * PAGE /\ PAGE * (p + 1) = (p + 1) * PAGE
      /\ PAGE * p \in Nat /\ PAGE * (p + 1) \in Nat
      /\ PAGE * a.page \in Nat /\ PAGE * (a.page + a.count) \in Nat
  BY <1>1, <1>2, PageAssumption
<1>5. x \in Nat /\ PAGE * a.page <= x /\ x < PAGE * (a.page + a.count)
  BY <1>3, <1>4
<1> QED
  BY <1>5, InSpan

\* A file's size, and the pages it needs.
LEMMA ImageSize ==
    ASSUME NEW f \in Files
    PROVE  /\ f.size_of_image \in Nat /\ img_pages(f) \in Nat
           /\ f.size_of_image <= PAGE * img_pages(f)
<1>1. f.size_of_image \in Nat
  BY FilesAssumption DEF Executables
<1> QED
  BY <1>1, PageBounds DEF img_pages

\* An image in pages lies in its allocation.
LEMMA ImageInSpan ==
    ASSUME IInv, NEW f \in Files, NEW a \in owned, a.count = img_pages(f),
           NEW x \in a.page * PAGE .. a.page * PAGE + f.size_of_image - 1
    PROVE  x \in Span(a)
<1> DEFINE n == img_pages(f)
           p == a.page
<1>1. p \in Nat /\ n \in Nat /\ f.size_of_image \in Nat /\ f.size_of_image <= PAGE * n
  BY OwnedBounds, ImageSize
<1> HIDE DEF n, p
<1>2. /\ PAGE * p = p * PAGE /\ PAGE * p \in Nat /\ PAGE * n \in Nat
      /\ PAGE * (p + n) = PAGE * p + PAGE * n
  BY <1>1, PageAssumption
<1>3. x \in Nat /\ PAGE * p <= x /\ x < PAGE * (p + n)
  BY <1>1, <1>2 DEF p
<1> QED
  BY <1>3, InSpan DEF n, p

\* So every image lies in memory.
LEMMA HousedIn ==
    ASSUME IInv, NEW i, Housed(i)
    PROVE  Extent(i) \subseteq Addresses
<1>1. CASE i.page = 0 /\ Extent(i) \subseteq Arena
  BY <1>1, KernelIn
<1>2. CASE i.page # 0 /\ i.base = i.page * PAGE /\ Allocation(i) \in owned
  <2> SUFFICES ASSUME NEW x \in Extent(i) PROVE x \in Addresses
    OBVIOUS
  <2>1. x \in Span(Allocation(i))
    BY <1>2, ImageInSpan DEF Allocation, Extent, Housed
  <2> QED
    BY <2>1 DEF Span
<1> QED
  BY <1>1, <1>2 DEF Housed

\* The images keep off an allocation that is none of theirs.
LEMMA HousedApart ==
    ASSUME IInv, NEW i, Housed(i), NEW a \in owned, i.page # 0 => Allocation(i) # a
    PROVE  Extent(i) \cap Span(a) = {}
<1>1. CASE i.page = 0 /\ Extent(i) \subseteq Arena
  BY <1>1, KernelIn, KernelApart
<1>2. CASE i.page # 0 /\ i.base = i.page * PAGE /\ Allocation(i) \in owned
  <2>1. Allocation(i) # a
    BY <1>2
  <2>2. Extent(i) \subseteq Span(Allocation(i))
    BY <1>2, ImageInSpan DEF Allocation, Extent, Housed
  <2> QED
    BY <1>2, <2>1, <2>2, SpansApart
<1> QED
  BY <1>1, <1>2 DEF Housed

\* What is true of allocations and images in a state of the PMM, as a
\* formula that can be primed.
SpanFacts ==
    IInv => /\ \A a \in owned : a.page # 0
            /\ \A a, b \in owned : a # b => Span(a) \cap Span(b) = {}
            /\ \A a \in owned : \A x \in 0 .. KERNEL_END - 1 : x \notin Span(a)
            /\ \A a \in owned, f \in Files : a.count = img_pages(f) =>
                  a.page * PAGE .. a.page * PAGE + f.size_of_image - 1 \subseteq Span(a)
            /\ \A i \in images, a \in owned : Housed(i) /\ (i.page # 0 => Allocation(i) # a) =>
                  Extent(i) \cap Span(a) = {}

LEMMA SpanFactsHold == SpanFacts
<1> SUFFICES ASSUME IInv
             PROVE  /\ \A a \in owned : a.page # 0
                    /\ \A a, b \in owned : a # b => Span(a) \cap Span(b) = {}
                    /\ \A a \in owned : \A x \in 0 .. KERNEL_END - 1 : x \notin Span(a)
                    /\ \A a \in owned, f \in Files : a.count = img_pages(f) =>
                          a.page * PAGE .. a.page * PAGE + f.size_of_image - 1 \subseteq Span(a)
                    /\ \A i \in images, a \in owned :
                          Housed(i) /\ (i.page # 0 => Allocation(i) # a) =>
                             Extent(i) \cap Span(a) = {}
  BY DEF SpanFacts
<1>1. \A a \in owned : a.page # 0
  BY OwnedBounds
<1>2. \A a, b \in owned : a # b => Span(a) \cap Span(b) = {}
  BY SpansApart
<1>3. \A a \in owned : \A x \in 0 .. KERNEL_END - 1 : x \notin Span(a)
  BY KernelApart
<1>4. \A a \in owned, f \in Files : a.count = img_pages(f) =>
         a.page * PAGE .. a.page * PAGE + f.size_of_image - 1 \subseteq Span(a)
  BY ImageInSpan
<1>5. \A i \in images, a \in owned : Housed(i) /\ (i.page # 0 => Allocation(i) # a) =>
         Extent(i) \cap Span(a) = {}
  BY HousedApart
<1> QED
  BY <1>1, <1>2, <1>3, <1>4, <1>5

LEMMA SpanFactsNext == SpanFacts'
BY SpanFactsHold, PTL

\* A new allocation is new.
LEMMA AllocFresh ==
    ASSUME IInv, NEW count \in Nat \ {0}, pmm_alloc_pages(count)
    PROVE  \E a \in Allocations : /\ a \notin owned /\ owned' = owned \cup {a}
                                  /\ a.count = count
<1>1. PICK p \in Pages : /\ Run(p, count) \cap page_bitmap = {}
                         /\ owned' = owned \cup {[page |-> p, count |-> count]}
  BY DEF pmm_alloc_pages, Fits
<1> DEFINE a == [page |-> p, count |-> count]
<1>2. p \in Nat /\ p \in Run(p, count)
  BY MaxPagesAssumption DEF Pages, Run
<1>3. a \in Allocations /\ a.count = count /\ a.page = p
  BY <1>2 DEF Allocations
<1>4. a \notin owned
  <2> SUFFICES ASSUME a \in owned PROVE FALSE
    OBVIOUS
  <2>1. p \in OwnedPages
    BY <1>2, <1>3 DEF OwnedPages
  <2>2. p \in page_bitmap
    BY <2>1 DEF IInv, BitmapExact, pmm_alloc_pages
  <2> QED
    BY <1>1, <1>2, <2>2
<1> QED
  BY <1>1, <1>3, <1>4

\* The words behind the images that tables name, through the steps.
LEMMA StraysStay == ASSUME UNCHANGED images PROVE Strays' = Strays
BY DEF Strays, Extent

LEMMA StraysGrow ==
    ASSUME NEW i, images' = images \cup {i}, NEW x, x \notin Strays'
    PROVE  /\ x \notin Strays
           /\ x \notin Extent(i) => ~Names(i.file, i.base, x)
<1> DEFINE Of(j) == {j.base + j.file.relocs[n].rva : n \in DOMAIN j.file.relocs} \ Extent(j)
<1>1. Strays = UNION {Of(j) : j \in {k \in images : ~Unmoved(k.file, k.base)}}
  BY DEF Strays
<1>2. Strays' = UNION {Of(j) : j \in {k \in images' : ~Unmoved(k.file, k.base)}}
  BY DEF Strays, Extent
<1>3. x \notin Extent(i) /\ Names(i.file, i.base, x) => ~Unmoved(i.file, i.base) /\ x \in Of(i)
  BY DEF Names
<1> HIDE DEF Of
<1> QED
  BY <1>1, <1>2, <1>3

\* An image is loaded into memory that no one has: everything else stays.
LEMMA LoadKeeps ==
    ASSUME IInv, IInv', MemInv,
           NEW f \in Files, NEW base \in Nat, NEW page,
           ram' = apply_relocations(Placed(ram, base, f), base, f),
           images' = images \cup {[file |-> f, base |-> base, page |-> page]},
           owned \subseteq owned',
           Housed([file |-> f, base |-> base, page |-> page])',
           base .. base + f.size_of_image - 1 \subseteq Addresses,
           \A i \in images : Extent(i) \cap (base .. base + f.size_of_image - 1) = {},
           \A c \in Holders' : c \in Holders /\ Span(c) \cap (base .. base + f.size_of_image - 1) = {},
           \A x \in 0 .. KERNEL_END - 1 : x \notin Arena => x \notin base .. base + f.size_of_image - 1
    PROVE  MemInv'
<1> DEFINE new == [file |-> f, base |-> base, page |-> page]
           E == base .. base + f.size_of_image - 1
<1>0. f.size_of_image \in Nat
  BY ImageSize
<1>1. Loaded(f, base, ram, ram')
  BY LoadedImage DEF MemInv
<1>2. \A a \in Addresses : a \notin E /\ a \notin Strays' => a \notin Strays /\ ram'[a] = ram[a]
  <2> SUFFICES ASSUME NEW a \in Addresses, a \notin E, a \notin Strays'
               PROVE  a \notin Strays /\ ram'[a] = ram[a]
    OBVIOUS
  <2>1. a \in Nat
    BY AddressesNat
  <2>2. ~(base <= a /\ a < base + f.size_of_image)
    BY <1>0, <2>1
  <2>3. images' = images \cup {new} /\ new.file = f /\ new.base = base /\ a \notin Extent(new)
    BY DEF Extent
  <2>4. a \notin Strays /\ ~Names(f, base, a)
    <3> HIDE DEF new
    <3> QED
      BY <2>3, StraysGrow
  <2> QED
    BY <1>1, <2>2, <2>4 DEF Loaded
<1>3. \A i \in images : Housed(i)'
  BY DEF MemInv, Housed
<1>4. \A i \in images' : Housed(i)'
  BY <1>3
<1>5. Extent(new) = E /\ new.file = f /\ new.base = base
  BY DEF Extent
<1>6. Separate'
  <2> HIDE DEF new
  <2>1. images' = images \cup {new}
    BY DEF new
  <2>2. \A i, j \in images : i # j => Extent(i) \cap Extent(j) = {}
    BY DEF MemInv, Separate
  <2>3. \A i \in images : Extent(i) \cap Extent(new) = {}
    BY <1>5
  <2> HIDE DEF E
  <2>4. \A i, j \in images' : i # j => Extent(i) \cap Extent(j) = {}
    BY <2>1, <2>2, <2>3
  <2> QED
    BY <2>4 DEF Separate, Extent
<1>7. ImagesFaithful'
  <2>1. ASSUME NEW i \in images, NEW rva \in 0 .. i.file.size_of_image - 1,
               Once(i.file, rva), i.base + rva \notin Strays'
        PROVE  ram'[i.base + rva] = Expected(i.file, i.base, rva)
    <3>1. i.base \in Nat /\ i.file.size_of_image \in Nat
      BY ImageSize DEF MemInv, Housed
    <3>2. i.base + rva \in Extent(i)
      BY <3>1 DEF Extent
    <3>3. i.base + rva \in Addresses
      BY <3>2, HousedIn DEF MemInv
    <3>4. i.base + rva \notin E
      BY <3>2
    <3>5. i.base + rva \notin Strays /\ ram'[i.base + rva] = ram[i.base + rva]
      BY <1>2, <2>1, <3>3, <3>4
    <3> QED
      BY <2>1, <3>5 DEF MemInv, ImagesFaithful, Once
  <2>2. ASSUME NEW rva \in 0 .. f.size_of_image - 1, Once(f, rva)
        PROVE  ram'[base + rva] = Expected(f, base, rva)
    <3>1. base + rva \in E /\ base <= base + rva /\ base + rva < base + f.size_of_image
          /\ (base + rva) - base = rva
      BY <1>0
    <3>2. base + rva \in Addresses
      BY <3>1
    <3> QED
      BY <1>1, <2>2, <3>1, <3>2 DEF Loaded
  <2>3. \A i \in images' : \A rva \in 0 .. i.file.size_of_image - 1 :
           Once(i.file, rva) /\ i.base + rva \notin Strays' =>
               ram'[i.base + rva] = Expected(i.file, i.base, rva)
    <3> SUFFICES ASSUME NEW i \in images', NEW rva \in 0 .. i.file.size_of_image - 1,
                        Once(i.file, rva), i.base + rva \notin Strays'
                 PROVE  ram'[i.base + rva] = Expected(i.file, i.base, rva)
      OBVIOUS
    <3>1. CASE i \in images
      BY <2>1, <3>1
    <3>2. CASE i = new
      <4>1. i.file = f /\ i.base = base
        BY <3>2
      <4> QED
        BY <2>2, <4>1
    <3> QED
      BY <3>1, <3>2
  <2> QED
    BY <2>3 DEF ImagesFaithful, Once
<1>8. HoldersKept'
  <2> SUFFICES ASSUME NEW c \in Holders', NEW x \in Span(c), x \notin Strays'
               PROVE  ram'[x] = Junk
    BY DEF HoldersKept
  <2>1. c \in Holders /\ x \notin E /\ x \in Addresses
    BY DEF Span
  <2> QED
    BY <1>2, <2>1 DEF MemInv, HoldersKept
<1>9. KernelKept'
  <2> SUFFICES ASSUME NEW x \in 0 .. KERNEL_END - 1, x \notin Arena, x \notin Strays'
               PROVE  ram'[x] = 0
    BY DEF KernelKept
  <2>1. x \in Addresses /\ x \notin E
    BY KernelIn
  <2> QED
    BY <1>2, <2>1 DEF MemInv, KernelKept
<1> QED
  <2>1. ram' \in Memories
    BY <1>1 DEF Loaded
  <2> QED
    BY <1>4, <1>6, <1>7, <1>8, <1>9, <2>1 DEF MemInv

\* A step that moves neither memory nor allocations nor images.
LEMMA MemStutter ==
    ASSUME MemInv, UNCHANGED <<ram, images, owned>>
    PROVE  MemInv'
<1>1. Strays' = Strays
  BY StraysStay
<1> QED
  BY <1>1 DEF MemInv, Housed, Separate, Extent, ImagesFaithful, HoldersKept, Holders, KernelKept

\* The two ways pe_run gets memory for an image.
LEMMA LoadInPagesStep ==
    ASSUME IInv, MemInv, NEW f \in Files, LoadInPages(f)
    PROVE  IInv' /\ MemInv'
<1>1. img_pages(f) \in Nat \ {0} /\ pmm_alloc_pages(img_pages(f))
  BY ImageSize DEF LoadInPages
<1>2. IInv'
  BY <1>1, AllocStep
<1>3. PICK a \in Allocations : /\ a \notin owned /\ owned' = owned \cup {a}
                               /\ a.count = img_pages(f)
  BY <1>1, AllocFresh
<1>4. /\ a \in owned' /\ owned \subseteq owned' /\ owned' \ owned = {a}
  BY <1>3
<1>5. a.page \in Nat /\ a.page * PAGE \in Nat
  BY PageAssumption DEF Allocations
<1> DEFINE base == a.page * PAGE
           E == base .. base + f.size_of_image - 1
           new == [file |-> f, base |-> base, page |-> a.page]
<1>6. /\ ram' = apply_relocations(Placed(ram, base, f), base, f)
      /\ images' = images \cup {new}
  BY <1>4 DEF LoadInPages, Start
<1>7. /\ a.page # 0 /\ E \subseteq Span(a)
      /\ \A c \in owned' : c # a => Span(c) \cap Span(a) = {}
      /\ \A x \in 0 .. KERNEL_END - 1 : x \notin Span(a)
      /\ \A i \in images' : Housed(i)' /\ (i.page # 0 => Allocation(i) # a) =>
            Extent(i) \cap Span(a) = {}
  <2>1. SpanFacts'
    BY SpanFactsNext
  <2>2. \A i : Extent(i)' = Extent(i) /\ Allocation(i)' = Allocation(i)
    BY DEF Extent, Allocation
  <2>3. \A c : Span(c)' = Span(c)
    BY DEF Span
  <2>4. a.page # 0 /\ E \subseteq Span(a)
    BY <1>2, <1>3, <1>4, <2>1 DEF SpanFacts
  <2>5. \A c \in owned' : c # a => Span(c) \cap Span(a) = {}
    BY <1>2, <1>4, <2>1 DEF SpanFacts
  <2>6. \A x \in 0 .. KERNEL_END - 1 : x \notin Span(a)
    BY <1>2, <1>4, <2>1 DEF SpanFacts
  <2>7. \A i \in images' : Housed(i)' /\ (i.page # 0 => Allocation(i) # a) =>
            Extent(i) \cap Span(a) = {}
    BY <1>2, <1>4, <2>1 DEF SpanFacts
  <2> QED
    BY <2>4, <2>5, <2>6, <2>7
<1>8. Allocation(new) = a
  <2>1. a = [page |-> a.page, count |-> a.count]
    BY DEF Allocations
  <2> QED
    BY <1>3, <2>1 DEF Allocation
<1>9. Housed(new)'
  BY <1>4, <1>5, <1>7, <1>8 DEF Housed
<1>10. E \subseteq Addresses
  BY <1>7 DEF Span
<1>11. \A i \in images : Extent(i) \cap E = {}
  <2> TAKE i \in images
  <2>1. Housed(i)' /\ (i.page # 0 => Allocation(i) # a)
    BY <1>3, <1>4 DEF MemInv, Housed
  <2>2. i \in images'
    BY <1>6
  <2> QED
    BY <1>7, <2>1, <2>2
<1>12. \A c \in Holders' : c \in Holders /\ Span(c) \cap E = {}
  <2> TAKE c \in Holders'
  <2>1. c \in owned' /\ \A i \in images' : i.page # c.page
    BY DEF Holders
  <2>2. new \in images' /\ new.page = a.page
    BY <1>6
  <2>3. c # a /\ c \in owned /\ \A i \in images : i.page # c.page
    BY <1>3, <1>6, <2>1, <2>2
  <2>4. c \in Holders
    BY <2>3 DEF Holders
  <2> QED
    BY <1>7, <2>1, <2>3, <2>4
<1>13. \A x \in 0 .. KERNEL_END - 1 : x \notin Arena => x \notin E
  BY <1>7
<1> QED
  <2> HIDE DEF base
  <2>1. base \in Nat
    BY <1>5 DEF base
  <2>2. MemInv'
    BY <1>2, <1>4, <1>6, <1>9, <1>10, <1>11, <1>12, <1>13, <2>1, LoadKeeps
  <2> QED
    BY <1>2, <2>2

LEMMA LoadInHeapStep ==
    ASSUME IInv, MemInv, NEW f \in Files, LoadInHeap(f)
    PROVE  IInv' /\ MemInv'
<1>1. UNCHANGED vars
  BY DEF LoadInHeap
<1>2. IInv'
  BY <1>1, StepGood
<1>3. PICK base \in kmalloc(f) :
         /\ ram' = apply_relocations(Placed(ram, base, f), base, f)
         /\ images' = images \cup {[file |-> f, base |-> base, page |-> 0]}
  BY DEF LoadInHeap, Start
<1> DEFINE E == base .. base + f.size_of_image - 1
           new == [file |-> f, base |-> base, page |-> 0]
<1>4. /\ base \in Arena /\ E \subseteq Arena
      /\ \A i \in images : Extent(i) \cap E = {}
  BY <1>3 DEF kmalloc
<1>5. base \in Nat
  BY <1>4, KernelIn, AddressesNat
<1>6. owned' = owned
  BY <1>1 DEF vars
<1>7. Housed(new)'
  BY <1>4, <1>5 DEF Housed, Extent
<1>8. E \subseteq Addresses
  BY <1>4, KernelIn
<1>9. \A c \in Holders' : c \in Holders /\ Span(c) \cap E = {}
  <2> TAKE c \in Holders'
  <2>1. c \in owned /\ c \in Holders
    BY <1>3, <1>6 DEF Holders
  <2>2. \A x \in E : x \in 0 .. KERNEL_END - 1
    BY <1>4, KernelIn
  <2>3. \A x \in E : x \notin Span(c)
    BY <2>1, <2>2, KernelApart
  <2> QED
    BY <2>1, <2>3
<1>10. \A x \in 0 .. KERNEL_END - 1 : x \notin Arena => x \notin E
  BY <1>4
<1> QED
  <2>1. owned \subseteq owned'
    BY <1>6
  <2>2. MemInv'
    BY <1>2, <1>3, <1>4, <1>5, <1>7, <1>8, <1>9, <1>10, <2>1, LoadKeeps
  <2> QED
    BY <1>2, <2>2

\* Another client takes pages and writes to them.
LEMMA ClientTakesStep ==
    ASSUME IInv, MemInv, NEW count \in Counts, ClientTakes(count)
    PROVE  IInv' /\ MemInv'
<1>1. count \in Nat \ {0} /\ pmm_alloc_pages(count) /\ images' = images
  BY CountsAssumption DEF ClientTakes
<1>0. Strays' = Strays
  BY <1>1, StraysStay
<1>2. IInv'
  BY <1>1, AllocStep
<1>3. PICK a \in Allocations : a \notin owned /\ owned' = owned \cup {a}
  BY <1>1, AllocFresh
<1>4. a \in owned' /\ owned \subseteq owned' /\ owned' \ owned = {a}
  BY <1>3
<1>5. ram' = [x \in Addresses |-> IF x \in Span(a) THEN Junk ELSE ram[x]]
  BY <1>4 DEF ClientTakes, Span
<1>6. ram' \in Memories
  <2>1. Junk \in 0 .. WORD - 1
    BY WordAssumption DEF Junk
  <2> QED
    BY <1>5, <2>1 DEF MemInv, Memories
<1>7. \A i \in images : Housed(i)'
  BY <1>4 DEF MemInv, Housed
<1>8. /\ \A x \in 0 .. KERNEL_END - 1 : x \notin Span(a)
      /\ \A i \in images : Extent(i) \cap Span(a) = {}
  <2>1. SpanFacts'
    BY SpanFactsNext
  <2>2. \A i : Extent(i)' = Extent(i) /\ Allocation(i)' = Allocation(i)
    BY DEF Extent, Allocation
  <2>3. \A x \in 0 .. KERNEL_END - 1 : x \notin Span(a)
    BY <1>2, <1>4, <2>1 DEF SpanFacts, Span
  <2>4. \A i \in images : i.page # 0 => Allocation(i) # a
    BY <1>3 DEF MemInv, Housed
  <2>5. \A i \in images : Extent(i)' \cap Span(a)' = {}
    BY <1>1, <1>2, <1>4, <1>7, <2>1, <2>2, <2>4 DEF SpanFacts
  <2>6. Span(a)' = Span(a)
    BY DEF Span
  <2> QED
    BY <2>2, <2>3, <2>5, <2>6
<1>9. ImagesFaithful'
  <2> SUFFICES ASSUME NEW i \in images, NEW rva \in 0 .. i.file.size_of_image - 1,
                      Once(i.file, rva), i.base + rva \notin Strays
               PROVE  ram'[i.base + rva] = Expected(i.file, i.base, rva)
    BY <1>0, <1>1 DEF ImagesFaithful, Once
  <2>1. i.base \in Nat /\ i.file.size_of_image \in Nat
    BY ImageSize DEF MemInv, Housed
  <2>2. i.base + rva \in Extent(i)
    BY <2>1 DEF Extent
  <2>3. i.base + rva \in Addresses /\ i.base + rva \notin Span(a)
    BY <1>8, <2>2, HousedIn DEF MemInv
  <2>4. ram'[i.base + rva] = ram[i.base + rva]
    BY <1>5, <2>3
  <2> QED
    BY <2>4 DEF MemInv, ImagesFaithful, Once
<1>10. HoldersKept'
  <2> SUFFICES ASSUME NEW c \in Holders', NEW x \in Span(c), x \notin Strays PROVE ram'[x] = Junk
    BY <1>0 DEF HoldersKept, Span
  <2>1. x \in Addresses
    BY DEF Span
  <2>2. CASE c = a
    BY <1>5, <2>1, <2>2
  <2>3. CASE c # a
    <3>1. c \in Holders
      BY <1>1, <1>3, <2>3 DEF Holders
    <3>2. ram[x] = Junk
      BY <3>1 DEF MemInv, HoldersKept
    <3> QED
      BY <1>5, <2>1, <3>2
  <2> QED
    BY <2>2, <2>3
<1>11. KernelKept'
  <2> SUFFICES ASSUME NEW x \in 0 .. KERNEL_END - 1, x \notin Arena \cup Strays
               PROVE  ram'[x] = 0
    BY <1>0 DEF KernelKept
  <2>1. x \in Addresses /\ x \notin Span(a)
    BY <1>8, KernelIn
  <2> QED
    BY <1>5, <2>1 DEF MemInv, KernelKept
<1>12. Separate'
  BY <1>1 DEF MemInv, Separate, Extent
<1> QED
  BY <1>1, <1>2, <1>6, <1>7, <1>9, <1>10, <1>11, <1>12 DEF MemInv

\* And gives them back, which frees no image's memory.
LEMMA ClientReturnsStep ==
    ASSUME IInv, MemInv, NEW a \in Holders, ClientReturns(a)
    PROVE  IInv' /\ MemInv'
<1>1. a \in owned /\ Release(a) /\ owned' = owned \ {a} /\ UNCHANGED <<ram, images>>
  BY DEF Holders, ClientReturns, Release, loaderVars
<1>2. IInv'
  BY <1>1, ReleaseStep
<1>3. \A i \in images : Housed(i)'
  <2> TAKE i \in images
  <2>1. i.page # a.page
    BY DEF Holders
  <2>2. Allocation(i) # a
    BY <2>1 DEF Allocation
  <2> QED
    BY <1>1, <2>2 DEF MemInv, Housed, Allocation, Extent
<1>4. Strays' = Strays
  BY <1>1, StraysStay
<1>5. HoldersKept'
  BY <1>1, <1>4 DEF MemInv, HoldersKept, Holders, Span
<1> QED
  BY <1>1, <1>2, <1>3, <1>4, <1>5 DEF MemInv, Separate, Extent, ImagesFaithful, KernelKept
----------------------------------------------------------------------------
\* The screens g_term can hold.
Screens == {s \in [lines : [1 .. TERM_ROWS -> Seq(Chars)], row : 1 .. TERM_ROWS] :
                \A r \in 1 .. TERM_ROWS : Len(s.lines[r]) <= TERM_COLS}

\* The screen shows the end of a text of these lines.
Matches(s, ls) ==
    /\ ls \in Seq(Seq(Chars)) /\ Len(ls) >= 1
    /\ s.row = IF Len(ls) <= TERM_ROWS THEN Len(ls) ELSE TERM_ROWS
    /\ \A r \in 1 .. s.row : s.lines[r] = ls[Len(ls) - s.row + r]

\* An array and a row with the right contents are a screen.
LEMMA MakeScreen ==
    ASSUME NEW ls \in [1 .. TERM_ROWS -> Seq(Chars)], NEW n \in 1 .. TERM_ROWS,
           \A r \in 1 .. TERM_ROWS : Len(ls[r]) <= TERM_COLS
    PROVE  [lines |-> ls, row |-> n] \in Screens
BY DEF Screens

LEMMA ScreenFields ==
    ASSUME NEW s \in Screens
    PROVE  /\ s.lines \in [1 .. TERM_ROWS -> Seq(Chars)] /\ s.row \in 1 .. TERM_ROWS
           /\ TERM_ROWS \in Nat \ {0} /\ TERM_COLS \in Nat \ {0}
           /\ \A r \in 1 .. TERM_ROWS : Len(s.lines[r]) <= TERM_COLS
           /\ s = [lines |-> s.lines, row |-> s.row]
BY ScreenAssumption DEF Screens

\* The cleared screen.
LEMMA EmptyScreen ==
    Empty \in Screens /\ Empty.row = 1 /\ Empty.lines[1] = <<>>
<1>1. TERM_ROWS \in Nat \ {0} /\ TERM_COLS \in Nat
  BY ScreenAssumption
<1> DEFINE ls == [r \in 1 .. TERM_ROWS |-> <<>>]
<1>2. ls \in [1 .. TERM_ROWS -> Seq(Chars)] /\ 1 \in 1 .. TERM_ROWS /\ ls[1] = <<>>
      /\ \A r \in 1 .. TERM_ROWS : Len(ls[r]) <= TERM_COLS
  BY <1>1
<1>3. Empty = [lines |-> ls, row |-> 1]
  BY DEF Empty
<1> HIDE DEF ls
<1>4. [lines |-> ls, row |-> 1] \in Screens
  BY <1>2, MakeScreen
<1> QED
  BY <1>2, <1>3, <1>4

\* What term_newline does to a screen.
LEMMA NewlineScreen ==
    ASSUME NEW s \in Screens
    PROVE  /\ term_newline(s) \in Screens
           /\ term_newline(s).row = IF s.row < TERM_ROWS THEN s.row + 1 ELSE s.row
           /\ s.row < TERM_ROWS => \A r \in 1 .. TERM_ROWS :
                 term_newline(s).lines[r] = IF r = s.row + 1 THEN <<>> ELSE s.lines[r]
           /\ ~(s.row < TERM_ROWS) => \A r \in 1 .. TERM_ROWS :
                 term_newline(s).lines[r] = IF r < TERM_ROWS THEN s.lines[r + 1] ELSE <<>>
<1>1. /\ s.lines \in [1 .. TERM_ROWS -> Seq(Chars)] /\ s.row \in 1 .. TERM_ROWS
      /\ TERM_ROWS \in Nat \ {0} /\ TERM_COLS \in Nat \ {0}
      /\ \A r \in 1 .. TERM_ROWS : Len(s.lines[r]) <= TERM_COLS
      /\ s = [lines |-> s.lines, row |-> s.row]
  BY ScreenFields
<1>2. <<>> \in Seq(Chars) /\ Len(<<>>) = 0
  OBVIOUS
<1>3. CASE s.row < TERM_ROWS
  <2> DEFINE ls == [s.lines EXCEPT ![s.row + 1] = <<>>]
             n == s.row + 1
  <2>1. term_newline(s) = [lines |-> ls, row |-> n]
    BY <1>3 DEF term_newline
  <2>2. ls \in [1 .. TERM_ROWS -> Seq(Chars)] /\ n \in 1 .. TERM_ROWS
    BY <1>1, <1>2, <1>3
  <2>3. \A r \in 1 .. TERM_ROWS : ls[r] = IF r = s.row + 1 THEN <<>> ELSE s.lines[r]
    BY <1>1
  <2>4. \A r \in 1 .. TERM_ROWS : Len(ls[r]) <= TERM_COLS
    BY <1>1, <1>2, <2>3
  <2> HIDE DEF ls, n
  <2>5. [lines |-> ls, row |-> n] \in Screens
    BY <2>2, <2>4, MakeScreen
  <2> QED
    BY <1>3, <2>1, <2>3, <2>5 DEF n
<1>4. CASE ~(s.row < TERM_ROWS)
  <2> DEFINE ls == [r \in 1 .. TERM_ROWS |-> IF r < TERM_ROWS THEN s.lines[r + 1] ELSE <<>>]
  <2>1. term_newline(s) = [lines |-> ls, row |-> s.row]
    BY <1>1, <1>4 DEF term_newline
  <2>2. \A r \in 1 .. TERM_ROWS : /\ ls[r] = IF r < TERM_ROWS THEN s.lines[r + 1] ELSE <<>>
                                  /\ ls[r] \in Seq(Chars) /\ Len(ls[r]) <= TERM_COLS
    <3> TAKE r \in 1 .. TERM_ROWS
    <3>1. r < TERM_ROWS => r + 1 \in 1 .. TERM_ROWS
      BY <1>1
    <3> QED
      BY <1>1, <1>2, <3>1
  <2>3. ls \in [1 .. TERM_ROWS -> Seq(Chars)]
    BY <2>2
  <2> HIDE DEF ls
  <2>4. [lines |-> ls, row |-> s.row] \in Screens
    BY <1>1, <2>2, <2>3, MakeScreen
  <2> QED
    BY <1>4, <2>1, <2>2, <2>4
<1> QED
  BY <1>3, <1>4

\* The row that is written is empty after a newline.
LEMMA NewlineEmpty ==
    ASSUME NEW s \in Screens
    PROVE  LET t == term_newline(s) IN t.lines[t.row] = <<>>
<1>1. s.row \in 1 .. TERM_ROWS /\ TERM_ROWS \in Nat
  BY ScreenFields
<1> DEFINE t == term_newline(s)
<1>2. /\ t.row = IF s.row < TERM_ROWS THEN s.row + 1 ELSE s.row
      /\ s.row < TERM_ROWS => \A r \in 1 .. TERM_ROWS :
            t.lines[r] = IF r = s.row + 1 THEN <<>> ELSE s.lines[r]
      /\ ~(s.row < TERM_ROWS) => \A r \in 1 .. TERM_ROWS :
            t.lines[r] = IF r < TERM_ROWS THEN s.lines[r + 1] ELSE <<>>
  BY NewlineScreen
<1> HIDE DEF t
<1>3. t.lines[t.row] = <<>>
  <2>1. CASE s.row < TERM_ROWS
    <3>1. t.row = s.row + 1 /\ s.row + 1 \in 1 .. TERM_ROWS
      BY <1>1, <1>2, <2>1
    <3> QED
      BY <1>2, <2>1, <3>1
  <2>2. CASE ~(s.row < TERM_ROWS)
    <3>1. t.row = s.row /\ s.row = TERM_ROWS
      BY <1>1, <1>2, <2>2
    <3> QED
      BY <1>1, <1>2, <2>2, <3>1
  <2> QED
    BY <2>1, <2>2
<1> QED
  BY <1>3 DEF t

\* A character put on the row that is written.
LEMMA PutScreen ==
    ASSUME NEW s \in Screens, NEW c \in Chars, Len(s.lines[s.row]) < TERM_COLS
    PROVE  LET t == [s EXCEPT !.lines[s.row] = Append(@, c)]
           IN  /\ t \in Screens /\ t.row = s.row
               /\ \A r \in 1 .. TERM_ROWS :
                     t.lines[r] = IF r = s.row THEN Append(s.lines[r], c) ELSE s.lines[r]
<1>1. /\ s.lines \in [1 .. TERM_ROWS -> Seq(Chars)] /\ s.row \in 1 .. TERM_ROWS
      /\ TERM_ROWS \in Nat \ {0} /\ TERM_COLS \in Nat \ {0}
      /\ \A r \in 1 .. TERM_ROWS : Len(s.lines[r]) <= TERM_COLS
      /\ s = [lines |-> s.lines, row |-> s.row]
  BY ScreenFields
<1> DEFINE ls == [s.lines EXCEPT ![s.row] = Append(@, c)]
           t == [s EXCEPT !.lines[s.row] = Append(@, c)]
<1>2. t = [lines |-> ls, row |-> s.row]
  <2>1. s \in [lines : [1 .. TERM_ROWS -> Seq(Chars)], row : 1 .. TERM_ROWS]
    BY DEF Screens
  <2>2. t = [s EXCEPT !.lines = ls]
    OBVIOUS
  <2> HIDE DEF ls, t
  <2> QED
    BY <2>1, <2>2
<1>3. Append(s.lines[s.row], c) \in Seq(Chars) /\ Len(Append(s.lines[s.row], c)) <= TERM_COLS
  <2>1. s.lines[s.row] \in Seq(Chars)
    BY <1>1
  <2> QED
    BY <1>1, <2>1
<1>4. \A r \in 1 .. TERM_ROWS : ls[r] = IF r = s.row THEN Append(s.lines[r], c) ELSE s.lines[r]
  BY <1>1
<1>5. ls \in [1 .. TERM_ROWS -> Seq(Chars)]
  BY <1>1, <1>3
<1>6. \A r \in 1 .. TERM_ROWS : Len(ls[r]) <= TERM_COLS
  BY <1>1, <1>3, <1>4
<1> HIDE DEF ls
<1>7. [lines |-> ls, row |-> s.row] \in Screens
  BY <1>1, <1>5, <1>6, MakeScreen
<1>8. t \in Screens /\ t.row = s.row /\ t.lines = ls
  BY <1>2, <1>7
<1> HIDE DEF t
<1>9. /\ t \in Screens /\ t.row = s.row
      /\ \A r \in 1 .. TERM_ROWS :
            t.lines[r] = IF r = s.row THEN Append(s.lines[r], c) ELSE s.lines[r]
  BY <1>4, <1>8
<1> QED
  BY <1>9 DEF t

\* Every character leaves a screen.
LEMMA PutCharScreen ==
    ASSUME NEW s \in Screens, NEW c \in Chars
    PROVE  PutChar(s, c) \in Screens
<1>1. CASE c = NL
  BY <1>1, NewlineScreen DEF PutChar
<1>2. CASE c # NL /\ Len(s.lines[s.row]) >= TERM_COLS
  <2> DEFINE t == term_newline(s)
  <2>1. PutChar(s, c) = [t EXCEPT !.lines[t.row] = Append(@, c)]
    BY <1>2 DEF PutChar
  <2>2. t \in Screens /\ t.lines[t.row] = <<>>
    BY NewlineScreen, NewlineEmpty
  <2> HIDE DEF t
  <2>3. Len(t.lines[t.row]) < TERM_COLS
    BY <2>2, ScreenAssumption
  <2> QED
    BY <2>1, <2>2, <2>3, PutScreen
<1>3. CASE c # NL /\ ~(Len(s.lines[s.row]) >= TERM_COLS)
  <2>1. PutChar(s, c) = [s EXCEPT !.lines[s.row] = Append(@, c)]
    BY <1>3 DEF PutChar
  <2>2. Len(s.lines[s.row]) < TERM_COLS
    <3>1. s.lines[s.row] \in Seq(Chars) /\ TERM_COLS \in Nat
      BY ScreenFields
    <3> QED
      BY <1>3, <3>1
  <2> QED
    BY <2>1, <2>2, PutScreen
<1> QED
  BY <1>1, <1>2, <1>3
----------------------------------------------------------------------------
\* A newline on the screen is a new line of the text, and scrolls it.
LEMMA MatchNewline ==
    ASSUME NEW s \in Screens, NEW ls, Matches(s, ls)
    PROVE  Matches(term_newline(s), Append(ls, <<>>))
<1> DEFINE t == term_newline(s)
           k == Append(ls, <<>>)
           N == Len(ls)
<1>1. s.row \in 1 .. TERM_ROWS /\ TERM_ROWS \in Nat \ {0}
  BY ScreenFields
<1>2. /\ ls \in Seq(Seq(Chars)) /\ N \in Nat /\ N >= 1
      /\ s.row = IF N <= TERM_ROWS THEN N ELSE TERM_ROWS
      /\ \A r \in 1 .. s.row : s.lines[r] = ls[N - s.row + r]
  BY DEF Matches
<1>3. /\ k \in Seq(Seq(Chars)) /\ Len(k) = N + 1 /\ k[N + 1] = <<>>
      /\ \A r \in 1 .. N : k[r] = ls[r]
  <2>1. <<>> \in Seq(Chars)
    OBVIOUS
  <2> QED
    BY <1>2, <2>1
<1>4. /\ t.row = IF s.row < TERM_ROWS THEN s.row + 1 ELSE s.row
      /\ s.row < TERM_ROWS => \A r \in 1 .. TERM_ROWS :
            t.lines[r] = IF r = s.row + 1 THEN <<>> ELSE s.lines[r]
      /\ ~(s.row < TERM_ROWS) => \A r \in 1 .. TERM_ROWS :
            t.lines[r] = IF r < TERM_ROWS THEN s.lines[r + 1] ELSE <<>>
  BY NewlineScreen
<1> HIDE DEF t, k, N
<1>5. t.row = IF N + 1 <= TERM_ROWS THEN N + 1 ELSE TERM_ROWS
  BY <1>1, <1>2, <1>4
<1>6. ASSUME NEW r \in 1 .. t.row PROVE t.lines[r] = k[((N + 1) - t.row) + r]
  <2>1. CASE s.row < TERM_ROWS
    <3>1. t.row = s.row + 1 /\ s.row = N /\ r \in 1 .. TERM_ROWS /\ r \in 1 .. N + 1
          /\ ((N + 1) - t.row) + r = r /\ (r # N + 1 => r \in 1 .. N /\ N - s.row + r = r)
      BY <1>1, <1>2, <1>4, <2>1
    <3> QED
      BY <1>2, <1>3, <1>4, <2>1, <3>1
  <2>2. CASE ~(s.row < TERM_ROWS)
    <3>1. t.row = TERM_ROWS /\ s.row = TERM_ROWS /\ N >= TERM_ROWS /\ r \in 1 .. TERM_ROWS
      BY <1>1, <1>2, <1>4, <2>2
    <3>2. CASE r = TERM_ROWS
      <4>1. t.lines[r] = <<>>
        BY <1>1, <1>4, <2>2, <3>1, <3>2
      <4>2. ((N + 1) - t.row) + r = N + 1
        BY <1>1, <1>2, <3>1, <3>2
      <4> QED
        BY <1>3, <4>1, <4>2
    <3>3. CASE r # TERM_ROWS
      <4>1. r < TERM_ROWS /\ r + 1 \in 1 .. s.row
        BY <1>1, <3>1, <3>3
      <4>2. t.lines[r] = s.lines[r + 1]
        BY <1>4, <2>2, <3>1, <4>1
      <4>3. s.lines[r + 1] = ls[N - s.row + (r + 1)]
        BY <1>2, <4>1
      <4>4. N - s.row + (r + 1) = ((N + 1) - t.row) + r /\ ((N + 1) - t.row) + r \in 1 .. N
        BY <1>1, <1>2, <3>1, <4>1
      <4> QED
        BY <1>3, <4>2, <4>3, <4>4
    <3> QED
      BY <3>2, <3>3
  <2> QED
    BY <2>1, <2>2
<1>7. Len(k) >= 1
  BY <1>2, <1>3
<1>8. Matches(t, k)
  <2>1. t.row = IF Len(k) <= TERM_ROWS THEN Len(k) ELSE TERM_ROWS
    BY <1>3, <1>5
  <2>2. \A r \in 1 .. t.row : t.lines[r] = k[Len(k) - t.row + r]
    <3>1. Len(k) = N + 1
      BY <1>3
    <3> QED
      BY <1>6, <3>1, Zenon
  <2> QED
    BY <1>3, <1>7, <2>1, <2>2 DEF Matches
<1> QED
  BY <1>8 DEF t, k

\* The last line of a text replaced.
LEMMA LastReplaced ==
    ASSUME NEW ls \in Seq(Seq(Chars)), Len(ls) >= 1, NEW e \in Seq(Chars)
    PROVE  LET k == SubSeq(ls, 1, Len(ls) - 1) \o <<e>>
           IN  /\ k \in Seq(Seq(Chars)) /\ Len(k) = Len(ls) /\ k[Len(ls)] = e
               /\ \A r \in 1 .. Len(ls) - 1 : k[r] = ls[r]
<1> DEFINE N == Len(ls)
           a == SubSeq(ls, 1, N - 1)
<1>1. N \in Nat /\ N - 1 \in Nat
  OBVIOUS
<1>2. /\ a \in Seq(Seq(Chars)) /\ Len(a) = N - 1
      /\ \A r \in 1 .. N - 1 : a[r] = ls[r]
  <2>1. \A r \in 1 .. N - 1 : ls[r] \in Seq(Chars)
    BY <1>1
  <2>2. /\ a \in Seq(Seq(Chars))
        /\ Len(a) = IF 1 <= N - 1 THEN (N - 1) - 1 + 1 ELSE 0
        /\ \A r \in 1 .. (N - 1) - 1 + 1 : a[r] = ls[1 + r - 1]
    <3> HIDE DEF N
    <3> QED
      BY <1>1, <2>1, SubSeqProperties
  <2> HIDE DEF a, N
  <2>3. (N - 1) - 1 + 1 = N - 1 /\ \A r \in 1 .. N - 1 : 1 + r - 1 = r
    BY <1>1
  <2>4. Len(a) = N - 1
    BY <1>1, <2>2
  <2> QED
    BY <2>2, <2>3, <2>4
<1> HIDE DEF a
<1>3. /\ a \o <<e>> \in Seq(Seq(Chars)) /\ Len(a \o <<e>>) = N
      /\ (a \o <<e>>)[N] = e /\ \A r \in 1 .. N - 1 : (a \o <<e>>)[r] = a[r]
  <2> DEFINE b == <<e>>
  <2>1. b \in Seq(Seq(Chars)) /\ Len(b) = 1 /\ b[1] = e
    OBVIOUS
  <2> HIDE DEF b, N
  <2>2. /\ a \o b \in Seq(Seq(Chars)) /\ Len(a \o b) = Len(a) + Len(b)
        /\ \A r \in 1 .. Len(a) + Len(b) :
              (a \o b)[r] = IF r <= Len(a) THEN a[r] ELSE b[r - Len(a)]
    BY <1>2, <2>1, ConcatProperties
  <2>3. /\ a \o b \in Seq(Seq(Chars)) /\ Len(a \o b) = N
        /\ (a \o b)[N] = e /\ \A r \in 1 .. N - 1 : (a \o b)[r] = a[r]
    BY <1>1, <1>2, <2>1, <2>2
  <2> QED
    BY <2>3 DEF b
<1> QED
  BY <1>2, <1>3 DEF a

\* The row that is written is the last line of the text.
LEMMA MatchReplace ==
    ASSUME NEW s, s.row \in Nat, NEW ls, Matches(s, ls), NEW t, NEW k \in Seq(Seq(Chars)),
           Len(k) = Len(ls), t.row = s.row,
           \A r \in 1 .. s.row - 1 : t.lines[r] = s.lines[r],
           \A r \in 1 .. Len(ls) - 1 : k[r] = ls[r],
           t.lines[s.row] = k[Len(ls)]
    PROVE  Matches(t, k)
<1> DEFINE N == Len(ls)
<1>1. /\ ls \in Seq(Seq(Chars)) /\ N \in Nat /\ N >= 1
      /\ s.row = IF N <= TERM_ROWS THEN N ELSE TERM_ROWS
      /\ \A r \in 1 .. s.row : s.lines[r] = ls[N - s.row + r]
  BY DEF Matches
<1>2. s.row <= N
  BY <1>1, ScreenAssumption
<1> HIDE DEF N
<1>3. ASSUME NEW r \in 1 .. s.row PROVE t.lines[r] = k[N - s.row + r]
  <2>1. CASE r = s.row
    <3>1. N - s.row + r = N
      BY <1>1, <1>2, <2>1
    <3> QED
      BY <2>1, <3>1 DEF N
  <2>2. CASE r # s.row
    <3>1. r \in 1 .. s.row - 1 /\ N - s.row + r \in 1 .. N - 1
      BY <1>1, <1>2, <2>2
    <3> QED
      BY <1>1, <3>1 DEF N
  <2> QED
    BY <2>1, <2>2
<1> QED
  BY <1>1, <1>3 DEF Matches, N

\* The row that is written holds the last line.
LEMMA MatchLast ==
    ASSUME NEW s \in Screens, NEW ls, Matches(s, ls)
    PROVE  /\ ls \in Seq(Seq(Chars)) /\ Len(ls) >= 1
           /\ ls[Len(ls)] = s.lines[s.row] /\ s.lines[s.row] \in Seq(Chars)
<1> DEFINE N == Len(ls)
<1>1. s.lines \in [1 .. TERM_ROWS -> Seq(Chars)] /\ s.row \in 1 .. TERM_ROWS
  BY ScreenFields
<1>2. /\ ls \in Seq(Seq(Chars)) /\ N \in Nat /\ N >= 1
      /\ \A r \in 1 .. s.row : s.lines[r] = ls[N - s.row + r]
  BY DEF Matches
<1> HIDE DEF N
<1>3. s.row \in 1 .. s.row /\ N - s.row + s.row = N
  BY <1>1, <1>2, ScreenAssumption
<1> QED
  BY <1>1, <1>2, <1>3 DEF N

\* One character of a text, on the screen and in the scroll buffer.
LEMMA MatchOne ==
    ASSUME NEW s \in Screens, NEW c \in Chars, NEW ls, Matches(s, ls)
    PROVE  Matches(PutChar(s, c), Scroll!Place(ls, c))
<1> DEFINE N == Len(ls)
<1>1. /\ ls \in Seq(Seq(Chars)) /\ N >= 1 /\ N \in Nat
      /\ ls[N] = s.lines[s.row] /\ s.lines[s.row] \in Seq(Chars)
  BY MatchLast
<1>2. s.row \in 1 .. TERM_ROWS /\ TERM_ROWS \in Nat /\ TERM_COLS \in Nat \ {0}
  BY ScreenFields
<1>3. CASE c = NL
  <2>1. PutChar(s, c) = term_newline(s) /\ Scroll!Place(ls, c) = Append(ls, <<>>)
    BY <1>3 DEF PutChar, Scroll!Place
  <2> QED
    BY <2>1, MatchNewline
<1>4. CASE c # NL /\ Len(s.lines[s.row]) < TERM_COLS
  <2> DEFINE t == [s EXCEPT !.lines[s.row] = Append(@, c)]
             e == Append(s.lines[s.row], c)
             k == SubSeq(ls, 1, N - 1) \o <<e>>
  <2>1. PutChar(s, c) = t
    <3>1. ~(Len(s.lines[s.row]) >= TERM_COLS)
      BY <1>1, <1>2, <1>4
    <3> QED
      BY <1>4, <3>1 DEF PutChar
  <2>2. Scroll!Place(ls, c) = k
    BY <1>1, <1>4 DEF Scroll!Place, Scroll!Front, Scroll!Last
  <2>3. /\ t.row = s.row
        /\ \A r \in 1 .. TERM_ROWS :
              t.lines[r] = IF r = s.row THEN Append(s.lines[r], c) ELSE s.lines[r]
    BY <1>4, PutScreen
  <2>4. e \in Seq(Chars)
    BY <1>1
  <2> HIDE DEF e
  <2>5. /\ k \in Seq(Seq(Chars)) /\ Len(k) = N /\ k[N] = e
        /\ \A r \in 1 .. N - 1 : k[r] = ls[r]
    BY <1>1, <2>4, LastReplaced
  <2> HIDE DEF t, k
  <2>6. t.lines[s.row] = k[N]
    BY <1>2, <2>3, <2>5 DEF e
  <2>7. \A r \in 1 .. s.row - 1 : t.lines[r] = s.lines[r]
    BY <1>2, <2>3
  <2>8. s.row \in Nat
    BY <1>2
  <2>9. Matches(t, k)
    BY <2>3, <2>5, <2>6, <2>7, <2>8, MatchReplace
  <2> QED
    BY <2>1, <2>2, <2>9
<1>5. CASE c # NL /\ ~(Len(s.lines[s.row]) < TERM_COLS)
  <2> DEFINE n == term_newline(s)
             t == [n EXCEPT !.lines[n.row] = Append(@, c)]
             j == Append(ls, <<>>)
             k == Append(ls, <<c>>)
  <2>1. PutChar(s, c) = t
    <3>1. Len(s.lines[s.row]) >= TERM_COLS
      BY <1>1, <1>2, <1>5
    <3> QED
      BY <1>5, <3>1 DEF PutChar
  <2>2. Scroll!Place(ls, c) = k
    BY <1>1, <1>5 DEF Scroll!Place, Scroll!Last
  <2>3. n \in Screens /\ n.lines[n.row] = <<>> /\ Matches(n, j)
    BY NewlineScreen, NewlineEmpty, MatchNewline
  <2> HIDE DEF n
  <2>4. Len(n.lines[n.row]) < TERM_COLS /\ n.row \in 1 .. TERM_ROWS
    BY <1>2, <2>3, ScreenFields
  <2>5. /\ t.row = n.row
        /\ \A r \in 1 .. TERM_ROWS :
              t.lines[r] = IF r = n.row THEN Append(n.lines[r], c) ELSE n.lines[r]
    BY <2>3, <2>4, PutScreen
  <2>6. <<c>> \in Seq(Chars) /\ <<>> \in Seq(Chars) /\ Append(<<>>, c) = <<c>>
    OBVIOUS
  <2>7. /\ j \in Seq(Seq(Chars)) /\ Len(j) = N + 1 /\ \A r \in 1 .. N : j[r] = ls[r]
        /\ k \in Seq(Seq(Chars)) /\ Len(k) = N + 1 /\ \A r \in 1 .. N : k[r] = ls[r]
        /\ k[N + 1] = <<c>>
    BY <1>1, <2>6
  <2> HIDE DEF t, j, k, N
  <2>8. t.lines[n.row] = k[Len(j)]
    <3>1. t.lines[n.row] = <<c>>
      BY <2>3, <2>4, <2>5, <2>6
    <3>2. k[Len(j)] = <<c>>
      BY <2>7
    <3> QED
      BY <3>1, <3>2
  <2>9. \A r \in 1 .. n.row - 1 : t.lines[r] = n.lines[r]
    BY <1>2, <2>4, <2>5
  <2>10. \A r \in 1 .. Len(j) - 1 : k[r] = j[r]
    <3>1. Len(j) - 1 = N
      BY <1>1, <2>7
    <3> QED
      BY <2>7, <3>1
  <2>11. n.row \in Nat /\ Len(k) = Len(j)
    BY <1>2, <2>4, <2>7
  <2>12. Matches(t, k)
    BY <2>3, <2>5, <2>7, <2>8, <2>9, <2>10, <2>11, MatchReplace
  <2> QED
    BY <2>1, <2>2, <2>12
<1> QED
  BY <1>3, <1>4, <1>5

\* Texts of at least one line, which characters keep so.
Paragraphs == {ls \in Seq(Seq(Chars)) : Len(ls) >= 1}

LEMMA PlaceType ==
    ASSUME NEW ls \in Paragraphs, NEW c \in Chars
    PROVE  Scroll!Place(ls, c) \in Paragraphs
<1> DEFINE N == Len(ls)
           e == Append(ls[N], c)
           k == SubSeq(ls, 1, N - 1) \o <<e>>
<1>1. ls \in Seq(Seq(Chars)) /\ N >= 1 /\ N \in Nat /\ ls[N] \in Seq(Chars)
  BY DEF Paragraphs
<1>2. e \in Seq(Chars) /\ <<c>> \in Seq(Chars) /\ <<>> \in Seq(Chars)
  BY <1>1
<1>3. /\ Append(ls, <<>>) \in Paragraphs /\ Append(ls, <<c>>) \in Paragraphs
  BY <1>1, <1>2 DEF Paragraphs
<1>4. k \in Paragraphs
  <2> HIDE DEF e
  <2>1. k \in Seq(Seq(Chars)) /\ Len(k) = N
    BY <1>1, <1>2, LastReplaced
  <2> QED
    BY <1>1, <2>1 DEF Paragraphs
<1>5. \/ Scroll!Place(ls, c) = Append(ls, <<>>)
      \/ Scroll!Place(ls, c) = Append(ls, <<c>>)
      \/ Scroll!Place(ls, c) = k
  BY DEF Scroll!Place, Scroll!Front, Scroll!Last
<1> QED
  BY <1>3, <1>4, <1>5

\* The equations of the two folds over a text.
PrintsBy(s, text, g) ==
    g = [d \in SUBSET DOMAIN text |->
            IF d = {} THEN s ELSE PutChar(g[d \ {Max(d)}], text[Max(d)])]

LaysBy(ls, text, g) ==
    g = [d \in SUBSET DOMAIN text |->
            IF d = {} THEN ls ELSE Scroll!Place(g[d \ {Max(d)}], text[Max(d)])]

LEMMA PrintFold ==
    ASSUME NEW s \in Screens, NEW text \in Seq(Chars)
    PROVE  \E g : PrintsBy(s, text, g) /\ term_print(s, text) = g[DOMAIN text]
<1> DEFINE I == DOMAIN text
           F == [x \in I \X Screens |-> PutChar(x[2], text[x[1]])]
           k == CHOOSE g : PrintsBy(s, text, g)
<1>1. I \in SUBSET Int /\ IsFiniteSet(I) /\ \A d \in SUBSET I : d # {} => Max(d) \in d
  BY Indices
<1>2. \A i \in I, v \in Screens : PutChar(v, text[i]) \in Screens
                                  /\ F[<<i, v>>] = PutChar(v, text[i])
  <2> TAKE i \in I, v \in Screens
  <2>1. text[i] \in Chars
    BY Indices
  <2> QED
    BY <2>1, PutCharScreen
<1>3. term_print(s, text) = k[I]
  BY DEF term_print, FoldLeft, MapThenFoldSet, PrintsBy
<1>4. \E g : PrintsBy(s, text, g)
  <2>1. PICK g \in [SUBSET I -> Screens] : FoldsBy(F, s, SUBSET I, g)
    <3> HIDE DEF I, F
    <3>1. \A i \in I, v \in Screens : F[<<i, v>>] \in Screens
      BY <1>2
    <3> QED
      BY <1>1, <3>1, FoldExists
  <2>2. \A d \in SUBSET I : d # {} => F[<<Max(d), g[d \ {Max(d)}]>>] =
                                      PutChar(g[d \ {Max(d)}], text[Max(d)])
    <3> TAKE d \in SUBSET I
    <3> HAVE d # {}
    <3>1. Max(d) \in I /\ d \ {Max(d)} \in SUBSET I
      BY <1>1
    <3>2. g[d \ {Max(d)}] \in Screens
      BY <2>1, <3>1
    <3> HIDE DEF F
    <3> QED
      BY <1>2, <3>1, <3>2
  <2>3. PrintsBy(s, text, g)
    <3> HIDE DEF F
    <3> QED
      BY <2>1, <2>2 DEF FoldsBy, PrintsBy
  <2> QED
    BY <2>3
<1>5. PrintsBy(s, text, k)
  BY <1>4
<1> HIDE DEF k
<1> QED
  BY <1>3, <1>5

LEMMA LayFold ==
    ASSUME NEW ls \in Paragraphs, NEW text \in Seq(Chars)
    PROVE  \E g : LaysBy(ls, text, g) /\ Scroll!Layout(ls, text) = g[DOMAIN text]
<1> DEFINE I == DOMAIN text
           F == [x \in I \X Paragraphs |-> Scroll!Place(x[2], text[x[1]])]
           k == CHOOSE g : LaysBy(ls, text, g)
<1>1. I \in SUBSET Int /\ IsFiniteSet(I) /\ \A d \in SUBSET I : d # {} => Max(d) \in d
  BY Indices
<1>2. \A i \in I, v \in Paragraphs : Scroll!Place(v, text[i]) \in Paragraphs
                                     /\ F[<<i, v>>] = Scroll!Place(v, text[i])
  <2> TAKE i \in I, v \in Paragraphs
  <2>1. text[i] \in Chars
    BY Indices
  <2> QED
    BY <2>1, PlaceType
<1>3. Scroll!Layout(ls, text) = k[I]
  BY DEF Scroll!Layout, Scroll!FoldLeft, Scroll!MapThenFoldSet, Scroll!Max, Max, LaysBy
<1>4. \E g : LaysBy(ls, text, g)
  <2>1. PICK g \in [SUBSET I -> Paragraphs] : FoldsBy(F, ls, SUBSET I, g)
    <3> HIDE DEF I, F
    <3>1. \A i \in I, v \in Paragraphs : F[<<i, v>>] \in Paragraphs
      BY <1>2
    <3> QED
      BY <1>1, <3>1, FoldExists
  <2>2. \A d \in SUBSET I : d # {} => F[<<Max(d), g[d \ {Max(d)}]>>] =
                                      Scroll!Place(g[d \ {Max(d)}], text[Max(d)])
    <3> TAKE d \in SUBSET I
    <3> HAVE d # {}
    <3>1. Max(d) \in I /\ d \ {Max(d)} \in SUBSET I
      BY <1>1
    <3>2. g[d \ {Max(d)}] \in Paragraphs
      BY <2>1, <3>1
    <3> HIDE DEF F
    <3> QED
      BY <1>2, <3>1, <3>2
  <2>3. LaysBy(ls, text, g)
    <3> HIDE DEF F
    <3> QED
      BY <2>1, <2>2 DEF FoldsBy, LaysBy
  <2> QED
    BY <2>3
<1>5. LaysBy(ls, text, k)
  BY <1>4
<1> HIDE DEF k
<1> QED
  BY <1>3, <1>5

\* A text printed on the screen, and written to the scroll buffer.
LEMMA PrintMatches ==
    ASSUME NEW s \in Screens, NEW text \in Seq(Chars), NEW ls, Matches(s, ls)
    PROVE  /\ term_print(s, text) \in Screens
           /\ Matches(term_print(s, text), Scroll!Layout(ls, text))
<1> DEFINE I == DOMAIN text
<1>1. I \in SUBSET Int /\ IsFiniteSet(I) /\ (\A d \in SUBSET I : d # {} => Max(d) \in d)
      /\ \A i \in I : text[i] \in Chars
  BY Indices
<1>2. ls \in Paragraphs
  BY DEF Paragraphs, Matches
<1>3. PICK g : PrintsBy(s, text, g) /\ term_print(s, text) = g[I]
  BY PrintFold
<1>4. PICK h : LaysBy(ls, text, h) /\ Scroll!Layout(ls, text) = h[I]
  BY <1>2, LayFold
<1>5. /\ g[{}] = s
      /\ \A d \in SUBSET I : d # {} => g[d] = PutChar(g[d \ {Max(d)}], text[Max(d)])
  BY <1>3 DEF PrintsBy
<1>6. /\ h[{}] = ls
      /\ \A d \in SUBSET I : d # {} => h[d] = Scroll!Place(h[d \ {Max(d)}], text[Max(d)])
  BY <1>4 DEF LaysBy
<1> DEFINE G == {d \in SUBSET I : g[d] \in Screens /\ Matches(g[d], h[d])}
<1>7. SUBSET I \subseteq G
  <2>1. {} \in G
    BY <1>5, <1>6
  <2>2. \A d \in SUBSET I : d # {} /\ d \ {Max(d)} \in G => d \in G
    <3> SUFFICES ASSUME NEW d \in SUBSET I, d # {}, d \ {Max(d)} \in G PROVE d \in G
      OBVIOUS
    <3> DEFINE x == g[d \ {Max(d)}]
               y == h[d \ {Max(d)}]
               c == text[Max(d)]
    <3>1. c \in Chars /\ x \in Screens /\ Matches(x, y)
      BY <1>1
    <3>2. g[d] = PutChar(x, c) /\ h[d] = Scroll!Place(y, c)
      BY <1>5, <1>6
    <3> HIDE DEF x, y, c
    <3>3. PutChar(x, c) \in Screens /\ Matches(PutChar(x, c), Scroll!Place(y, c))
      BY <3>1, PutCharScreen, MatchOne
    <3> QED
      BY <3>2, <3>3
  <2> HIDE DEF G, I
  <2> QED
    BY <1>1, <2>1, <2>2, SubsetInduction
<1>8. g[I] \in Screens /\ Matches(g[I], h[I])
  BY <1>7
<1> QED
  BY <1>3, <1>4, <1>8

\* What the screen shows, and that it matches itself.
LEMMA ShownMatches ==
    ASSUME NEW s \in Screens, NEW ls, Matches(s, ls)
    PROVE  SubSeq(s.lines, 1, s.row) = Scroll!Shown(ls)
<1> DEFINE N == Len(ls)
           a == SubSeq(s.lines, 1, s.row)
           m == (N - TERM_ROWS) + 1
           b == SubSeq(ls, m, N)
           Q == Seq(Chars)
<1>1. /\ s.lines \in [1 .. TERM_ROWS -> Q] /\ s.row \in 1 .. TERM_ROWS
      /\ TERM_ROWS \in Nat \ {0}
  BY ScreenFields
<1>2. /\ ls \in Seq(Q) /\ N \in Nat /\ N >= 1
      /\ s.row = IF N <= TERM_ROWS THEN N ELSE TERM_ROWS
      /\ \A r \in 1 .. s.row : s.lines[r] = ls[(N - s.row) + r]
      /\ \A r \in 1 .. N : ls[r] \in Q
  BY DEF Matches
<1> HIDE DEF Q, N
<1>3. /\ a \in Seq(Q) /\ Len(a) = s.row /\ \A r \in 1 .. s.row : a[r] = s.lines[r]
  <2>1. \A r \in 1 .. s.row : s.lines[r] \in Q
    BY <1>1
  <2>2. /\ a \in Seq(Q) /\ Len(a) = IF 1 <= s.row THEN s.row - 1 + 1 ELSE 0
        /\ \A r \in 1 .. s.row - 1 + 1 : a[r] = s.lines[1 + r - 1]
    BY <1>1, <2>1, SubSeqProperties
  <2> HIDE DEF a
  <2>3. s.row - 1 + 1 = s.row /\ 1 <= s.row /\ \A r \in 1 .. s.row : 1 + r - 1 = r
    BY <1>1
  <2> QED
    BY <2>2, <2>3
<1>4. CASE N <= TERM_ROWS
  <2>1. Scroll!Shown(ls) = ls
    BY <1>4 DEF Scroll!Shown, N
  <2>2. s.row = N /\ \A r \in 1 .. N : (N - s.row) + r = r
    BY <1>2, <1>4
  <2> HIDE DEF a
  <2>3. \A r \in 1 .. N : a[r] = ls[r]
    BY <1>2, <1>3, <2>2
  <2>4. a = ls
    BY <1>2, <1>3, <2>2, <2>3, SeqEqual DEF N
  <2> QED
    BY <2>1, <2>4 DEF a
<1>5. CASE ~(N <= TERM_ROWS)
  <2>1. Scroll!Shown(ls) = b
    BY <1>5 DEF Scroll!Shown, N
  <2>2. s.row = TERM_ROWS /\ m \in 1 .. N /\ m \in Int /\ N \in Int
    BY <1>1, <1>2, <1>5
  <2>3. /\ b \in Seq(Q) /\ Len(b) = IF m <= N THEN N - m + 1 ELSE 0
        /\ \A r \in 1 .. N - m + 1 : b[r] = ls[m + r - 1]
    <3>1. \A r \in m .. N : ls[r] \in Q
      BY <1>2, <2>2
    <3> HIDE DEF m
    <3> QED
      BY <2>2, <3>1, SubSeqProperties
  <2>4. N - m + 1 = TERM_ROWS /\ m <= N
        /\ \A r \in 1 .. TERM_ROWS : m + r - 1 = (N - s.row) + r
    BY <1>1, <1>2, <2>2
  <2> HIDE DEF a, b, m
  <2>5. Len(a) = Len(b) /\ \A r \in 1 .. Len(a) : a[r] = b[r]
    <3>1. Len(a) = TERM_ROWS /\ Len(b) = TERM_ROWS
      BY <1>3, <2>2, <2>3, <2>4
    <3>2. ASSUME NEW r \in 1 .. TERM_ROWS PROVE a[r] = b[r]
      <4>1. r \in 1 .. s.row /\ r \in 1 .. N - m + 1 /\ m + r - 1 = (N - s.row) + r
        BY <2>2, <2>4
      <4>2. a[r] = ls[(N - s.row) + r]
        BY <1>2, <1>3, <4>1
      <4>3. b[r] = ls[m + r - 1]
        BY <2>3, <4>1
      <4> QED
        BY <4>1, <4>2, <4>3
    <3> QED
      BY <3>1, <3>2
  <2>6. a = b
    BY <1>3, <2>3, <2>5, SeqEqual
  <2> QED
    BY <2>1, <2>6 DEF a
<1> QED
  BY <1>4, <1>5

LEMMA SelfMatches ==
    ASSUME NEW s \in Screens PROVE Matches(s, SubSeq(s.lines, 1, s.row))
<1> DEFINE a == SubSeq(s.lines, 1, s.row)
<1>1. s.lines \in [1 .. TERM_ROWS -> Seq(Chars)] /\ s.row \in 1 .. TERM_ROWS
      /\ TERM_ROWS \in Nat \ {0}
  BY ScreenFields
<1>2. \A r \in 1 .. s.row : s.lines[r] \in Seq(Chars)
  BY <1>1
<1>3. /\ a \in Seq(Seq(Chars)) /\ Len(a) = IF 1 <= s.row THEN s.row - 1 + 1 ELSE 0
      /\ \A r \in 1 .. s.row - 1 + 1 : a[r] = s.lines[1 + r - 1]
  BY <1>1, <1>2, SubSeqProperties
<1> HIDE DEF a
<1>4. /\ s.row - 1 + 1 = s.row /\ 1 <= s.row
      /\ \A r \in 1 .. s.row : 1 + r - 1 = r /\ (s.row - s.row) + r = r
  BY <1>1
<1>5. Len(a) = s.row /\ \A r \in 1 .. s.row : a[r] = s.lines[r]
  BY <1>3, <1>4
<1>6. Len(a) >= 1 /\ s.row = IF Len(a) <= TERM_ROWS THEN Len(a) ELSE TERM_ROWS
  BY <1>1, <1>5
<1>7. \A r \in 1 .. s.row : s.lines[r] = a[(Len(a) - s.row) + r]
  BY <1>4, <1>5
<1>8. Matches(s, a)
  BY <1>3, <1>6, <1>7 DEF Matches
<1> QED
  BY <1>8 DEF a
----------------------------------------------------------------------------
\* While a program runs, g_exited says whether it has told its code; once it
\* is back, what it told is the result.
ExitInv ==
    /\ program \in {"idle", "running"} /\ g_exited \in BOOLEAN
    /\ {g_exit_code, result} \cup told \subseteq Codes \cup {-1, 0}
    /\ program = "running" => told = IF g_exited THEN {g_exit_code} ELSE {}
    /\ ExitReported

ConsoleInv ==
    /\ Screen \in Screens
    /\ in_len \in 0 .. TERM_IN - 1
    /\ db \in {Missing} \cup Seq(Records)
    /\ off \in BOOLEAN

\* The inductive invariant.
TInv == IInv /\ MemInv /\ ExitInv /\ ConsoleInv

\* What a step does to the screen.
ScreenMove ==
    \/ UNCHANGED screen
    \/ Prints
    \/ Show(Empty)
    \/ \E text \in Texts : Show(term_print(Empty, text))

LEMMA ScreenMoves == ASSUME [TerminalNext]_allVars PROVE ScreenMove
BY DEF TerminalNext, allVars, terminalVars, screen, ScreenMove, Type, Command, Message, Clear,
       PowerOff, cmd_run, Install, Replace, terminal_open, Program, pe_term_write

\* A screen that is shown is the screen.
LEMMA ShowScreen ==
    ASSUME NEW s \in Screens, Show(s) PROVE Screen' = s /\ Screen' \in Screens
<1>1. s = [lines |-> s.lines, row |-> s.row]
  BY ScreenFields
<1>2. Screen' = [lines |-> lines', row |-> row']
  BY DEF Screen
<1> QED
  BY <1>1, <1>2 DEF Show

\* The cleared screen and a printed one.
LEMMA PrintScreen ==
    ASSUME NEW s \in Screens, NEW text \in Texts
    PROVE  term_print(s, text) \in Screens
<1>1. text \in Seq(Chars)
  BY TextsAssumption
<1> QED
  BY <1>1, SelfMatches, PrintMatches

LEMMA ScreenStep ==
    ASSUME Screen \in Screens, [TerminalNext]_allVars PROVE Screen' \in Screens
<1>1. ScreenMove
  BY ScreenMoves
<1>2. CASE UNCHANGED screen
  BY <1>2 DEF screen, Screen
<1>3. CASE Prints
  BY <1>3, PrintScreen, ShowScreen DEF Prints
<1>4. CASE Show(Empty)
  BY <1>4, EmptyScreen, ShowScreen
<1>5. CASE \E text \in Texts : Show(term_print(Empty, text))
  BY <1>5, EmptyScreen, PrintScreen, ShowScreen
<1> QED
  BY <1>1, <1>2, <1>3, <1>4, <1>5 DEF ScreenMove

\* `install' leaves a database.
LEMMA RecordType ==
    ASSUME db \in {Missing} \cup Seq(Records), NEW p \in Packages
    PROVE  Record(p) \subseteq {Missing} \cup Seq(Records)
<1>1. p \in Records
  BY DEF Records
<1>2. CASE db = Missing
  <2>1. <<p>> \in Seq(Records) /\ <<>> \in Seq(Records)
    BY <1>1
  <2> QED
    BY <1>2, <2>1 DEF Record
<1>3. CASE db # Missing
  <2>1. db \in Seq(Records) /\ Len(db) \in Nat /\ DB_BUF \in Nat
    BY <1>3, DatabaseAssumption
  <2>2. ReadDb \in Seq(Records)
    <3>1. CASE Len(db) < DB_BUF
      BY <2>1, <3>1 DEF ReadDb
    <3>2. CASE ~(Len(db) < DB_BUF)
      <4>1. \A r \in 1 .. DB_BUF - 1 : db[r] \in Records
        BY <2>1, <3>2
      <4>2. SubSeq(db, 1, DB_BUF - 1) \in Seq(Records)
        <5>1. 1 \in Int /\ DB_BUF - 1 \in Int
          BY <2>1
        <5> QED
          BY <4>1, <5>1, SubSeqProperties
      <4> QED
        BY <3>2, <4>2 DEF ReadDb
    <3> QED
      BY <3>1, <3>2
  <2>3. Append(ReadDb, p) \in Seq(Records)
    BY <1>1, <2>2
  <2> QED
    BY <1>3, <2>1, <2>3 DEF Record
<1> QED
  BY <1>2, <1>3

LEMMA ConsoleStep ==
    ASSUME ConsoleInv, [TerminalNext]_allVars PROVE ConsoleInv'
<1>1. Screen' \in Screens
  BY ScreenStep DEF ConsoleInv
<1>2. in_len' \in 0 .. TERM_IN - 1
  <2>1. in_len' = in_len \/ in_len' = 0 \/ Edit
    BY DEF TerminalNext, allVars, terminalVars, Type, Command, Message, Clear, Line,
           PowerOff, cmd_run, Install, Replace, terminal_open, Program, pe_term_write
  <2>2. in_len \in 0 .. TERM_IN - 1 /\ TERM_IN \in Nat \ {0}
    BY ScreenAssumption DEF ConsoleInv
  <2> QED
    BY <2>1, <2>2 DEF Edit
<1>3. db' \in {Missing} \cup Seq(Records)
  <2>1. db' = db \/ (\E p \in Packages : db' \in Record(p)) \/ db' \in Databases
    BY DEF TerminalNext, allVars, terminalVars, Type, Command, Message, Clear,
           PowerOff, cmd_run, Install, Replace, terminal_open, Program, pe_term_write
  <2> QED
    BY <2>1, RecordType, DatabaseAssumption DEF ConsoleInv
<1>4. off' \in BOOLEAN
  BY DEF ConsoleInv, TerminalNext, allVars, terminalVars, Type, Command, Message, Clear,
         PowerOff, cmd_run, Install, Replace, terminal_open, Program, pe_term_write
<1> QED
  BY <1>1, <1>2, <1>3, <1>4 DEF ConsoleInv
----------------------------------------------------------------------------
\* The steps of the loader, each with what the terminal adds to it left out.
LoaderMove ==
    \/ \E m \in Maps : Boot(m)
    \/ UNCHANGED <<vars, loaderVars>>
    \/ \E f \in Files : pe_run(f)
    \/ \E code \in Codes : api_exit(code)
    \/ \E rc \in Codes : Return(rc)
    \/ \E c \in Counts : ClientTakes(c)
    \/ \E a \in Holders : ClientReturns(a)

LEMMA LoaderMoves == ASSUME [TerminalNext]_allVars PROVE LoaderMove
<1>1. CASE UNCHANGED allVars
  BY <1>1 DEF allVars, LoaderMove
<1>2. CASE Type \/ Command \/ terminal_open
  BY <1>2 DEF LoaderMove, Type, Command, Message, Clear, PowerOff, cmd_run, Install, Replace,
              terminal_open
<1>3. CASE Program
  BY <1>3 DEF LoaderMove, Program, pe_term_write
<1>4. CASE \/ \E m \in Maps : Boot(m)
           \/ \E c \in Counts : ClientTakes(c)
           \/ \E a \in Holders : ClientReturns(a)
  BY <1>4 DEF LoaderMove
<1> QED
  BY <1>1, <1>2, <1>3, <1>4 DEF TerminalNext

\* Memory through every step.
LEMMA MemStep ==
    ASSUME IInv, MemInv, LoaderMove PROVE IInv' /\ MemInv'
<1>1. CASE \E m \in Maps : Boot(m)
  <2>1. PICK m \in Maps : pmm_init(m) /\ UNCHANGED loaderVars
    BY <1>1 DEF Boot
  <2>2. IInv'
    BY <2>1, InitStep
  <2>3. UNCHANGED <<ram, images, owned>>
    BY <2>1 DEF pmm_init, loaderVars
  <2> QED
    BY <2>2, <2>3, MemStutter
<1>2. ASSUME UNCHANGED <<vars, ram, images>> PROVE IInv' /\ MemInv'
  <2>1. UNCHANGED vars /\ UNCHANGED <<ram, images, owned>>
    BY <1>2 DEF vars
  <2>2. IInv'
    BY <2>1, StepGood
  <2> QED
    BY <2>1, <2>2, MemStutter
<1>3. CASE UNCHANGED <<vars, loaderVars>>
  BY <1>2, <1>3 DEF loaderVars
<1>4. CASE \E f \in Files : pe_run(f)
  <2>1. PICK f \in Files : Reject(f) \/ LoadInPages(f) \/ LoadInHeap(f)
    BY <1>4 DEF pe_run
  <2>2. CASE Reject(f)
    BY <1>2, <2>2 DEF Reject
  <2>3. CASE LoadInPages(f)
    BY <2>3, LoadInPagesStep
  <2>4. CASE LoadInHeap(f)
    BY <2>4, LoadInHeapStep
  <2> QED
    BY <2>1, <2>2, <2>3, <2>4
<1>5. CASE \E code \in Codes : api_exit(code)
  BY <1>2, <1>5 DEF api_exit
<1>6. CASE \E rc \in Codes : Return(rc)
  BY <1>2, <1>6 DEF Return
<1>7. CASE \E c \in Counts : ClientTakes(c)
  BY <1>7, ClientTakesStep
<1>8. CASE \E a \in Holders : ClientReturns(a)
  BY <1>8, ClientReturnsStep
<1> QED
  BY <1>1, <1>3, <1>4, <1>5, <1>6, <1>7, <1>8 DEF LoaderMove

\* The exit code through every step.
LEMMA ExitStep ==
    ASSUME ExitInv, LoaderMove PROVE ExitInv'
<1>1. ASSUME UNCHANGED <<program, g_exited, g_exit_code, result, told>> PROVE ExitInv'
  BY <1>1 DEF ExitInv, ExitReported
<1>2. CASE \/ \E m \in Maps : Boot(m)
           \/ UNCHANGED <<vars, loaderVars>>
           \/ \E c \in Counts : ClientTakes(c)
           \/ \E a \in Holders : ClientReturns(a)
  BY <1>1, <1>2 DEF Boot, ClientTakes, ClientReturns, loaderVars
<1>3. CASE \E f \in Files : pe_run(f)
  <2>1. program = "idle"
    BY <1>3 DEF pe_run
  <2>2. \/ Fails
        \/ Enter /\ program' = "running" /\ told' = {} /\ UNCHANGED result
    BY <1>3 DEF pe_run, Reject, LoadInPages, LoadInHeap, Start
  <2>3. CASE Fails
    BY <2>1, <2>3 DEF Fails, ExitInv, ExitReported
  <2>4. CASE Enter /\ program' = "running" /\ told' = {} /\ UNCHANGED result
    BY <2>4 DEF Enter, ExitInv, ExitReported
  <2> QED
    BY <2>2, <2>3, <2>4
<1>4. CASE \E code \in Codes : api_exit(code)
  BY <1>4 DEF api_exit, ExitInv, ExitReported
<1>5. CASE \E rc \in Codes : Return(rc)
  BY <1>5 DEF Return, ExitInv, ExitReported
<1> QED
  BY <1>2, <1>3, <1>4, <1>5 DEF LoaderMove

\* What is shown of a printed text, and of a cleared screen.
LEMMA WriteShown ==
    ASSUME NEW s \in Screens, NEW text \in Texts
    PROVE  LET t == term_print(s, text)
           IN  SubSeq(t.lines, 1, t.row) =
                  Scroll!Shown(Scroll!Layout(SubSeq(s.lines, 1, s.row), text))
<1>1. text \in Seq(Chars)
  BY TextsAssumption
<1> DEFINE a == SubSeq(s.lines, 1, s.row)
           t == term_print(s, text)
<1>2. Matches(s, a)
  BY SelfMatches
<1> HIDE DEF a
<1>3. t \in Screens /\ Matches(t, Scroll!Layout(a, text))
  BY <1>1, <1>2, PrintMatches
<1> HIDE DEF t
<1>4. SubSeq(t.lines, 1, t.row) = Scroll!Shown(Scroll!Layout(a, text))
  BY <1>3, ShownMatches
<1> QED
  BY <1>4 DEF a, t

LEMMA BlankShown ==
    ASSUME NEW ls, ls[1] = <<>> PROVE SubSeq(ls, 1, 1) = << <<>> >>
<1> DEFINE Q == {<<>>}
           a == SubSeq(ls, 1, 1)
           b == << <<>> >>
<1>1. \A r \in 1 .. 1 : ls[r] \in Q
  OBVIOUS
<1>2. /\ a \in Seq(Q) /\ Len(a) = IF 1 <= 1 THEN 1 - 1 + 1 ELSE 0
      /\ \A r \in 1 .. 1 - 1 + 1 : a[r] = ls[1 + r - 1]
  <2> HIDE DEF Q
  <2>1. 1 \in Int
    OBVIOUS
  <2> QED
    BY <1>1, <2>1, SubSeqProperties
<1> HIDE DEF a
<1>3. Len(a) = 1 /\ a[1] = <<>>
  BY <1>2
<1>4. b \in Seq(Q) /\ Len(b) = 1 /\ b[1] = <<>>
  OBVIOUS
<1> HIDE DEF b, Q
<1>5. Len(a) = Len(b) /\ \A r \in 1 .. Len(a) : a[r] = b[r]
  BY <1>3, <1>4
<1>6. a = b
  BY <1>2, <1>4, <1>5, SeqEqual
<1> QED
  BY <1>6 DEF a, b
----------------------------------------------------------------------------
\* The invariant holds at boot.
LEMMA TerminalInitGood == TerminalInit => TInv
<1> SUFFICES ASSUME TerminalInit PROVE TInv
  OBVIOUS
<1>1. IInv
  BY InitGood DEF TerminalInit, LoaderInit
<1>2. MemInv
  <2>1. ram = [a \in Addresses |-> 0] /\ images = {} /\ owned = {}
    BY DEF TerminalInit, LoaderInit, Init
  <2>2. ram \in Memories
    BY <2>1, WordAssumption DEF Memories
  <2>3. KernelKept
    BY <2>1, KernelIn DEF KernelKept
  <2> QED
    BY <2>1, <2>2, <2>3 DEF MemInv, Separate, ImagesFaithful, HoldersKept, Holders
<1>3. ExitInv
  BY DEF TerminalInit, LoaderInit, ExitInv, ExitReported
<1>4. ConsoleInv
  <2>1. Screen = Empty
    <3>1. Empty = [lines |-> Empty.lines, row |-> Empty.row]
      BY EmptyScreen, ScreenFields
    <3>2. lines = Empty.lines /\ row = Empty.row
      BY DEF TerminalInit
    <3> QED
      BY <3>1, <3>2 DEF Screen
  <2>2. in_len \in 0 .. TERM_IN - 1
    BY ScreenAssumption DEF TerminalInit
  <2>3. db \in {Missing} \cup Seq(Records)
    BY DatabaseAssumption DEF TerminalInit
  <2> QED
    BY <2>1, <2>2, <2>3, EmptyScreen DEF TerminalInit, ConsoleInv
<1> QED
  BY <1>1, <1>2, <1>3, <1>4 DEF TInv

\* And in every reachable state.
THEOREM TerminalInvariance == TerminalSpec => []TInv
<1>1. TInv /\ [TerminalNext]_allVars => TInv'
  <2> SUFFICES ASSUME TInv, [TerminalNext]_allVars PROVE TInv'
    OBVIOUS
  <2>1. LoaderMove
    BY LoaderMoves
  <2>2. IInv' /\ MemInv'
    BY <2>1, MemStep DEF TInv
  <2>3. ExitInv'
    BY <2>1, ExitStep DEF TInv
  <2>4. ConsoleInv'
    BY ConsoleStep DEF TInv
  <2> QED
    BY <2>2, <2>3, <2>4 DEF TInv
<1> QED
  BY <1>1, TerminalInitGood, PTL DEF TerminalSpec

\* Every image in memory is what its file describes, placed and relocated
\* for its own address, whatever is loaded after it (pe.c:192, pe.c:264),
\* but for words its table names twice and words behind some image that the
\* table of that image names, neither of which the code tests (pe.c:218).
THEOREM ImagesKept == TerminalSpec => []ImagesFaithful
<1>1. TInv => ImagesFaithful
  BY DEF TInv, MemInv
<1> QED
  BY <1>1, TerminalInvariance, PTL

\* pe_run writes to its own image (pe.c:257) and to the words its table of
\* relocations names, wherever they are (pe.c:218), and to nothing else.
THEOREM OthersKept == TerminalSpec => []OthersUntouched
<1>1. TInv => OthersUntouched
  <2> SUFFICES ASSUME TInv PROVE OthersUntouched
    OBVIOUS
  <2>1. IInv /\ MemInv
    BY DEF TInv
  <2>2. ASSUME NEW c \in Holders, NEW p \in Run(c.page, c.count),
               NEW a \in p * PAGE .. (p + 1) * PAGE - 1, a \notin Strays
        PROVE  ram[a] = Junk
    <3>1. c \in owned
      BY DEF Holders
    <3>2. a \in Span(c)
      BY <2>1, <3>1, PageInSpan
    <3> QED
      BY <2>1, <2>2, <3>2 DEF MemInv, HoldersKept
  <2>3. \A a \in 0 .. KERNEL_END - 1 : a \notin Arena \cup Strays => ram[a] = 0
    BY <2>1 DEF MemInv, KernelKept
  <2> QED
    BY <2>2, <2>3 DEF OthersUntouched
<1> QED
  BY <1>1, TerminalInvariance, PTL

\* What pe_run returns is what this program said (pe.c:283, pe.c:290).
THEOREM ExitsReported == TerminalSpec => []ExitReported
<1>1. TInv => ExitReported
  BY DEF TInv, ExitInv
<1> QED
  BY <1>1, TerminalInvariance, PTL

\* Type correctness: images lie in memory, the screen's rows keep to its
\* columns (terminal.c:43) and the input line keeps room for its terminator.
THEOREM TerminalTypeCorrect == TerminalSpec => []TerminalTypeOK
<1>1. TInv => TerminalTypeOK
  <2> SUFFICES ASSUME TInv PROVE TerminalTypeOK
    OBVIOUS
  <2>1. TypeOK /\ ram \in [Addresses -> 0 .. WORD - 1]
    BY DEF TInv, IInv, MemInv, Memories
  <2>2. \A i \in images : i.file \in Files /\ Extent(i) \subseteq Addresses
    BY HousedIn DEF TInv, MemInv, Housed
  <2>3. /\ program \in {"idle", "running"} /\ g_exited \in BOOLEAN
        /\ {g_exit_code, result} \cup told \subseteq Codes \cup {-1, 0}
    BY DEF TInv, ExitInv
  <2>4. /\ row \in 1 .. TERM_ROWS /\ DOMAIN lines = 1 .. TERM_ROWS
        /\ \A r \in 1 .. TERM_ROWS : Len(lines[r]) <= TERM_COLS
    <3>1. Screen \in Screens /\ Screen.lines = lines /\ Screen.row = row
      BY DEF TInv, ConsoleInv, Screen
    <3> HIDE DEF Screen
    <3>2. /\ Screen.lines \in [1 .. TERM_ROWS -> Seq(Chars)] /\ Screen.row \in 1 .. TERM_ROWS
          /\ \A r \in 1 .. TERM_ROWS : Len(Screen.lines[r]) <= TERM_COLS
      BY <3>1, ScreenFields
    <3> QED
      BY <3>1, <3>2
  <2>5. /\ in_len \in 0 .. TERM_IN - 1 /\ db \in {Missing} \cup Seq(Records)
        /\ off \in BOOLEAN
    BY DEF TInv, ConsoleInv
  <2> QED
    BY <2>1, <2>2, <2>3, <2>4, <2>5 DEF TerminalTypeOK
<1> QED
  BY <1>1, TerminalInvariance, PTL
----------------------------------------------------------------------------
\* `h3pkg install' loses no record: a database that does not fit the buffer
\* is left alone (terminal.c:321).
THEOREM InstallKeepsRecords == TerminalSpec => RecordsKept
<1> DEFINE A == \A p \in Packages : Install(p) => db = Missing \/ IsPrefix(db, db')
<1>1. TInv /\ [TerminalNext]_allVars => [A]_allVars
  <2> SUFFICES ASSUME TInv, NEW p \in Packages, Install(p), db # Missing
               PROVE  IsPrefix(db, db')
    OBVIOUS
  <2>1. db \in Seq(Records) /\ Len(db) \in Nat /\ DB_BUF \in Nat
    BY DatabaseAssumption DEF TInv, ConsoleInv
  <2>2. p \in Records
    BY DEF Records
  <2>3. IsPrefix(db, db)
    BY <2>1 DEF IsPrefix
  <2>4. CASE Len(db) < DB_BUF
    <3> DEFINE k == Append(db, p)
               n == Len(db)
    <3>1. k \in Seq(Records) /\ Len(k) = n + 1 /\ \A r \in 1 .. n : k[r] = db[r]
      BY <2>1, <2>2
    <3> HIDE DEF k
    <3>2. SubSeq(db, 1, n) = SubSeq(k, 1, n)
      <4> DEFINE x == SubSeq(db, 1, n)
                 y == SubSeq(k, 1, n)
      <4>1. n \in Int /\ 1 \in Int /\ (\A r \in 1 .. n : db[r] \in Records)
            /\ \A r \in 1 .. n : k[r] \in Records
        BY <2>1, <3>1
      <4> HIDE DEF n
      <4>2. /\ x \in Seq(Records) /\ Len(x) = IF 1 <= n THEN n - 1 + 1 ELSE 0
            /\ \A r \in 1 .. n - 1 + 1 : x[r] = db[1 + r - 1]
        BY <4>1, SubSeqProperties
      <4>3. /\ y \in Seq(Records) /\ Len(y) = IF 1 <= n THEN n - 1 + 1 ELSE 0
            /\ \A r \in 1 .. n - 1 + 1 : y[r] = k[1 + r - 1]
        BY <4>1, SubSeqProperties
      <4> HIDE DEF x, y
      <4>4. n \in Nat /\ n - 1 + 1 = n /\ \A r \in 1 .. n : 1 + r - 1 = r
        BY <2>1 DEF n
      <4>5. Len(x) = n /\ Len(y) = n
        BY <4>2, <4>3, <4>4
      <4>6. \A r \in 1 .. n : x[r] = y[r]
        BY <3>1, <4>2, <4>3, <4>4
      <4>7. x = y
        BY <4>2, <4>3, <4>5, <4>6, SeqEqual
      <4> QED
        BY <4>7 DEF x, y
    <3>3. IsPrefix(db, k)
      <4>1. n <= Len(k)
        BY <2>1, <3>1
      <4> QED
        BY <3>2, <4>1 DEF IsPrefix
    <3>4. db' = db \/ db' = k
      BY <2>4 DEF Install, Record, ReadDb, k
    <3> QED
      BY <2>3, <3>3, <3>4
  <2>5. CASE ~(Len(db) < DB_BUF)
    <3> DEFINE b == SubSeq(db, 1, DB_BUF - 1)
    <3>1. ReadDb = b
      BY <2>5 DEF ReadDb
    <3>2. \A r \in 1 .. DB_BUF - 1 : db[r] \in Records
      BY <2>1, <2>5
    <3>3. Len(b) = IF 1 <= DB_BUF - 1 THEN DB_BUF - 1 - 1 + 1 ELSE 0
      <4>1. 1 \in Int /\ DB_BUF - 1 \in Int
        BY <2>1
      <4> QED
        BY <3>2, <4>1, SubSeqProperties
    <3> HIDE DEF b
    <3>4. ~(Len(b) + 1 < DB_BUF)
      BY <2>1, <3>3
    <3>5. db' = db
      BY <3>1, <3>4 DEF Install, Record
    <3> QED
      BY <2>3, <3>5
  <2> QED
    BY <2>4, <2>5
<1> QED
  BY <1>1, TerminalInvariance, PTL DEF TerminalSpec, RecordsKept
----------------------------------------------------------------------------
\* The terminal's screen is a scroll buffer: term_print and term_newline
\* (terminal.c:32, terminal.c:43) show the last rows of what was written.
THEOREM ScrollBufferImplemented == TerminalSpec => ImplementsScrollBuffer
<1>1. TerminalInit => Scroll!Init
  <2> SUFFICES ASSUME TerminalInit PROVE SubSeq(lines, 1, row) = << <<>> >>
    BY DEF Scroll!Init, Scroll!Blank
  <2>1. lines = Empty.lines /\ row = 1 /\ Empty.lines[1] = <<>>
    BY EmptyScreen DEF TerminalInit
  <2> QED
    BY <2>1, BlankShown
<1>2. TInv /\ [TerminalNext]_allVars => [Scroll!Next]_(SubSeq(lines, 1, row))
  <2> SUFFICES ASSUME TInv, [TerminalNext]_allVars
               PROVE  [Scroll!Next]_(SubSeq(lines, 1, row))
    OBVIOUS
  <2>1. ScreenMove
    BY ScreenMoves
  <2>2. Screen \in Screens /\ Screen.lines = lines /\ Screen.row = row
    BY DEF TInv, ConsoleInv, Screen
  <2>3. CASE UNCHANGED screen
    BY <2>3 DEF screen
  <2>4. CASE Prints
    <3>1. PICK text \in Texts : Show(term_print(Screen, text))
      BY <2>4 DEF Prints
    <3>2. Scroll!Write(text)
      <4>1. SubSeq(lines', 1, row') = Scroll!Shown(Scroll!Layout(SubSeq(lines, 1, row), text))
        BY <2>2, <3>1, WriteShown DEF Show
      <4> QED
        BY <4>1 DEF Scroll!Write
    <3> QED
      BY <3>2 DEF Scroll!Next
  <2>5. CASE Show(Empty)
    <3>1. Scroll!Clear
      <4>1. SubSeq(lines', 1, row') = << <<>> >>
        BY <2>5, EmptyScreen, BlankShown DEF Show
      <4> QED
        BY <4>1 DEF Scroll!Clear, Scroll!Blank
    <3> QED
      BY <3>1 DEF Scroll!Next
  <2>6. CASE \E text \in Texts : Show(term_print(Empty, text))
    <3>1. PICK text \in Texts : Show(term_print(Empty, text))
      BY <2>6
    <3>2. Scroll!Restart(text)
      <4>1. SubSeq(Empty.lines, 1, Empty.row) = << <<>> >>
        BY EmptyScreen, BlankShown
      <4>2. SubSeq(lines', 1, row') = Scroll!Shown(Scroll!Layout(<< <<>> >>, text))
        BY <3>1, <4>1, EmptyScreen, WriteShown DEF Show
      <4> QED
        BY <4>2 DEF Scroll!Restart, Scroll!Blank
    <3> QED
      BY <3>2 DEF Scroll!Next
  <2> QED
    BY <2>1, <2>3, <2>4, <2>5, <2>6 DEF ScreenMove
<1> QED
  BY <1>1, <1>2, TerminalInvariance, PTL DEF TerminalSpec, ImplementsScrollBuffer, Scroll!Spec
=============================================================================
