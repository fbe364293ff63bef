-------------------------------- MODULE PMM --------------------------------
(***************************************************************************)
(* The physical memory manager, memory/pmm.c: a bitmap over page frames,   *)
(* built from the Multiboot2 memory map and handed out first fit.          *)
(*                                                                         *)
(* The bitmap is the set of pages whose bit is set.  Everything runs in    *)
(* the kernel's single flow of control (no interrupt handler touches the   *)
(* PMM), so each entry point is one atomic step.  The clients are          *)
(* represented by `owned', the allocations they hold: a client gives back  *)
(* what it holds, or what is already free (a second free).                 *)
(***************************************************************************)
EXTENDS Integers, FiniteSets, FiniteSetsExt

CONSTANTS
    PAGE,           \* PAGE_SIZE, in the units of the memory map
    PMM_MAX_PAGES,  \* pages the bitmap can track
    LOW,            \* 0x100000, the low memory that is always reserved
    KERNEL_END,     \* &_kernel_end
    FALLBACK,       \* 32768, the pages assumed without a memory map
    Maps,           \* the memory maps a boot loader may pass
    NoMap,          \* no mmap tag in the Multiboot2 information
    Counts          \* the page counts clients ask for

Entries == [addr : Nat, len : Nat, available : BOOLEAN]

ASSUME PageAssumption == PAGE \in Nat \ {0}
ASSUME MaxPagesAssumption == PMM_MAX_PAGES \in Nat
ASSUME LowAssumption == LOW \in Nat \ {0} /\ LOW % PAGE = 0
ASSUME KernelAssumption == KERNEL_END \in Nat /\ LOW <= KERNEL_END
ASSUME FallbackAssumption == FALLBACK \in Nat /\ FALLBACK <= PMM_MAX_PAGES
                             /\ LOW \div PAGE <= FALLBACK
ASSUME MapsAssumption == \A m \in Maps : m \subseteq Entries /\ IsFiniteSet(m)
ASSUME NoMapAssumption == NoMap \notin Maps
ASSUME CountsAssumption == Counts \subseteq Nat \ {0}

VARIABLES
    booted,       \* pmm_init has returned
    mmap,         \* the memory map pmm_init was given
    page_bitmap,  \* the pages whose bit is set
    total_pages,
    used_pages,
    owned         \* the allocations the clients hold

vars == <<booted, mmap, page_bitmap, total_pages, used_pages, owned>>

Pages == 0 .. PMM_MAX_PAGES - 1
Allocations == [page : Nat, count : Nat]
Run(page, count) == page .. page + count - 1
----------------------------------------------------------------------------
PageUp(addr) == (addr + PAGE - 1) \div PAGE
PageDown(addr) == addr \div PAGE

\* reserve_region: the pages that [addr, addr + len) touches
Region(addr, len) == {p \in Pages : PageDown(addr) <= p /\ p < PageUp(addr + len)}

\* A fault: an available entry rounded outwards.
ClearedOutward(m) ==
    {p \in Pages : \E e \in (IF m = NoMap THEN {} ELSE m) :
        e.available /\ PageDown(e.addr) <= p /\ p < PageUp(e.addr + e.len)}

\* The pages the scan of the memory map makes available: those that lie
\* wholly inside one available entry.
Cleared(m) ==
    IF m = NoMap
    THEN {p \in Pages : LOW \div PAGE <= p /\ p < FALLBACK}
    ELSE {p \in Pages : \E e \in m : /\ e.available
                                     /\ PageUp(e.addr) <= p
                                     /\ p < PageDown(e.addr + e.len)}

\* The highest page any entry, available or not, reaches.
HighestPage(m) == Max({0} \cup {PageUp(e.addr + e.len) : e \in m})

\* A fault: the bitmap's size forgotten.
TotalPagesUncapped(m) == IF m = NoMap THEN FALLBACK ELSE HighestPage(m)

TotalPages(m) ==
    IF m = NoMap THEN FALLBACK
    ELSE IF HighestPage(m) > PMM_MAX_PAGES THEN PMM_MAX_PAGES ELSE HighestPage(m)

LowRegion == Region(0, LOW)
KernelRegion == Region(LOW, KERNEL_END - LOW)

\* The count after the scan: a constant in the fallback, else a recount.
ScanUsed(m, bits) ==
    IF m = NoMap THEN LOW \div PAGE ELSE Cardinality({p \in bits : p < TotalPages(m)})

pmm_init(m) ==
    LET scanned == Pages \ Cleared(m)
        low     == scanned \cup LowRegion
    IN  /\ ~booted
        /\ booted' = TRUE
        /\ mmap' = m
        /\ total_pages' = TotalPages(m)
        /\ page_bitmap' = low \cup KernelRegion
        /\ used_pages' = ScanUsed(m, scanned) + Cardinality(LowRegion \ scanned)
                                              + Cardinality(KernelRegion \ low)
        /\ UNCHANGED owned

\* A fault: a run whose last page is not tested.
FitsShort(p, count) ==
    p + count <= total_pages /\ Run(p, count - 1) \cap page_bitmap = {}

\* A free run of `count' pages that starts at p and ends below total_pages.
Fits(p, count) == p + count <= total_pages /\ Run(p, count) \cap page_bitmap = {}

\* pmm_alloc_pages(count), and pmm_alloc_page() for a count of one: the
\* first run that fits.  A request that fits nowhere returns 0 and leaves
\* the state alone, which a stuttering step represents.
pmm_alloc_pages(count) ==
    /\ booted
    /\ \E p \in Pages :
          /\ Fits(p, count)
          /\ \A q \in Pages : q < p => ~Fits(q, count)
          /\ page_bitmap' = page_bitmap \cup Run(p, count)
          /\ used_pages' = used_pages + count
          /\ owned' = owned \cup {[page |-> p, count |-> count]}
    /\ UNCHANGED <<booted, mmap, total_pages>>

\* Faults: one page too many, and a count that trusts the caller.
FreeOneMore(page, count) ==
    LET freed == {p \in Run(page, count + 1) : p < total_pages /\ p \in page_bitmap}
    IN  /\ page_bitmap' = page_bitmap \ freed
        /\ used_pages' = used_pages - Cardinality(freed)
        /\ UNCHANGED <<booted, mmap, total_pages>>

FreeUncounted(page, count) ==
    /\ page_bitmap' = page_bitmap \ {p \in Run(page, count) : p < total_pages}
    /\ used_pages' = used_pages - count
    /\ UNCHANGED <<booted, mmap, total_pages>>

\* pmm_free_pages: for every page of the run, the bit is cleared if it lies
\* below total_pages and is set.
pmm_free_pages(page, count) ==
    LET freed == {p \in Run(page, count) : p < total_pages /\ p \in page_bitmap}
    IN  /\ page_bitmap' = page_bitmap \ freed
        /\ used_pages' = used_pages - Cardinality(freed)
        /\ UNCHANGED <<booted, mmap, total_pages>>

\* A client gives an allocation back.
Release(a) ==
    /\ booted
    /\ a \in owned
    /\ pmm_free_pages(a.page, a.count)
    /\ owned' = owned \ {a}

\* A client frees a run that is already free, in part beyond the end.
ReleaseAgain(page, count) ==
    /\ booted
    /\ \A p \in Run(page, count) : p >= total_pages \/ p \notin page_bitmap
    /\ pmm_free_pages(page, count)
    /\ UNCHANGED owned
----------------------------------------------------------------------------
Init ==
    /\ booted = FALSE
    /\ mmap = NoMap
    /\ page_bitmap = {}
    /\ total_pages = 0
    /\ used_pages = 0
    /\ owned = {}

Next ==
    \/ \E m \in Maps \cup {NoMap} : pmm_init(m)
    \/ \E c \in Counts : pmm_alloc_pages(c)
    \/ \E a \in owned : Release(a)
    \/ \E p \in Pages, c \in Counts : ReleaseAgain(p, c)

Spec == Init /\ [][Next]_vars
----------------------------------------------------------------------------
TypeOK ==
    /\ booted \in BOOLEAN
    /\ mmap \in Maps \cup {NoMap}
    /\ page_bitmap \subseteq Pages
    /\ total_pages \in 0 .. PMM_MAX_PAGES
    /\ used_pages \in Int
    /\ owned \subseteq Allocations

\* The pages that are never handed out: outside usable RAM, low, kernel.
Reserved == (Pages \ Cleared(mmap)) \cup LowRegion \cup KernelRegion
OwnedPages == UNION {Run(a.page, a.count) : a \in owned}

(***************************************************************************)
(* The bitmap (pmm.c:15) is exactly the reserved pages and the pages some  *)
(* client holds: no sequence of pmm_alloc_pages and pmm_free_pages leaks a *)
(* page, frees one that is held, or opens a reserved one.                  *)
(***************************************************************************)
BitmapExact == booted => page_bitmap = Reserved \cup OwnedPages

(***************************************************************************)
(* Two allocations never share a page, and no allocation reaches low       *)
(* memory, the kernel image or anything pmm_init (pmm.c:56) reserved.  In  *)
(* particular page 0 is never handed out, so that the 0 returned by        *)
(* pmm_alloc_pages (pmm.c:138) can only mean failure.                      *)
(***************************************************************************)
AllocationsDisjoint ==
    /\ \A a, b \in owned : a # b => Run(a.page, a.count) \cap Run(b.page, b.count) = {}
    /\ \A a \in owned : Run(a.page, a.count) \cap Reserved = {} /\ a.page # 0

(***************************************************************************)
(* used_pages counts the set bits below total_pages through every init,    *)
(* allocation, free and repeated free, so that pmm_get_stats (pmm.c:156)   *)
(* reports the pages that can really be allocated.                         *)
(***************************************************************************)
UsedExact == used_pages = Cardinality({p \in page_bitmap : p < total_pages})

(***************************************************************************)
(* Every byte of every page handed out lies in an available entry of the   *)
(* map: pmm_init rounds an available entry inwards (pmm.c:81).             *)
(***************************************************************************)
OnlyRam ==
    (booted /\ mmap # NoMap) =>
        \A p \in OwnedPages : \E e \in mmap :
            /\ e.available
            /\ e.addr <= p * PAGE
            /\ (p + 1) * PAGE <= e.addr + e.len
=============================================================================
