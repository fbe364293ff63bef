------------------------------ MODULE Adaptive ------------------------------
(***************************************************************************)
(* kernel/core/adaptive.c on top of the physical memory manager: the       *)
(* performance profile is chosen once at boot from pmm_get_stats and the   *)
(* CPU description.  The settings record g_perf is a function of the       *)
(* profile, so the profile stands for it.                                  *)
(***************************************************************************)
EXTENDS PMM

CONSTANTS
    LOW_MEM,   \* 512 MiB, in the units of the memory map
    HIGH_MEM,  \* 2048 MiB
    Cpus       \* the CPU descriptions: [logical_cpus, has_sse2]

\* The bitmap tracks as much memory as the highest threshold asks for: 2 GiB.
ASSUME ThresholdAssumption == /\ LOW_MEM \in Nat /\ HIGH_MEM \in Nat
                              /\ LOW_MEM <= HIGH_MEM
                              /\ HIGH_MEM <= PMM_MAX_PAGES * PAGE
ASSUME CpusAssumption == Cpus \subseteq [logical_cpus : Nat, has_sse2 : BOOLEAN]
\* The boot loader calls no byte available twice.
ASSUME RamAssumption ==
    \A m \in Maps : \A e, f \in {g \in m : g.available} :
        e # f => e.addr + e.len <= f.addr \/ f.addr + f.len <= e.addr

VARIABLES profile, cpu

adaptiveVars == <<profile, cpu>>

\* pmm_get_stats: total_bytes is the end of the highest page tracked.  A
\* fault: free_bytes in its place.
FreeBytes == (total_pages - used_pages) * PAGE

total_bytes == total_pages * PAGE

Profile(mem, c) ==
    IF mem < LOW_MEM \/ c.logical_cpus <= 1 \/ ~c.has_sse2 THEN "low"
    ELSE IF mem < HIGH_MEM \/ c.logical_cpus < 4 THEN "balanced"
    ELSE "high"

adaptive_init ==
    /\ profile = "unset"
    /\ profile' = Profile(total_bytes, cpu)
    /\ UNCHANGED <<vars, cpu>>

\* The RAM of the machine: what the memory map calls available.
Ram == MapThenSumSet(LAMBDA e : e.len, {e \in mmap : e.available})

Rank(p) == CASE p = "low" -> 0 [] p = "balanced" -> 1 [] p = "high" -> 2

(***************************************************************************)
(* adaptive_init (adaptive.c:15) takes the end of the highest entry of the *)
(* memory map, cut off at what the bitmap tracks, for the amount of RAM.   *)
(* The machine never gets a lower profile for it than its RAM deserves:    *)
(* neither the rounding to pages nor the cut-off at 2 GiB, where the last  *)
(* threshold lies, takes anything away.  It may get a higher one, when a   *)
(* reserved entry lies far above the RAM.                                  *)
(***************************************************************************)
ProfileNotBelowRam ==
    (profile # "unset" /\ mmap # NoMap) => Rank(profile) >= Rank(Profile(Ram, cpu))
=============================================================================
