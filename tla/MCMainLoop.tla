----------------------------- MODULE MCMainLoop -----------------------------
(***************************************************************************)
(* MainLoop with a buffer of four slots, a letter and a key that has no    *)
(* character, and the clock and frame rate of the balanced profile.        *)
(***************************************************************************)
EXTENDS MainLoop

MCKeys == {
    [plain |-> "a", shifted |-> "A", control |-> "^A"],
    [plain |-> None, shifted |-> None, control |-> None] }
=============================================================================
