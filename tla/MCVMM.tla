-------------------------------- MODULE MCVMM --------------------------------
(***************************************************************************)
(* VMM with tables of two entries and five pages for new tables.  Of the   *)
(* virtual pages one lies in the boot mapping and the others share none,   *)
(* one, two or all three of their tables: together they need six new       *)
(* tables, so that the PMM runs out at every level.                        *)
(***************************************************************************)
EXTENDS VMM, TLC

MCPhys(i) == IF i = 0 THEN 11 ELSE 12

MCVirtual == {<<0, 0, 1, 0>>, <<0, 1, 0, 0>>, <<0, 1, 0, 1>>, <<0, 1, 1, 0>>,
              <<1, 0, 0, 1>>}

Symmetry == Permutations(Frames)
=============================================================================
