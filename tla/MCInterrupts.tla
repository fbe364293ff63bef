---------------------------- MODULE MCInterrupts ----------------------------
(***************************************************************************)
(* Interrupts with the lines of timer, keyboard and mouse.                 *)
(***************************************************************************)
EXTENDS Interrupts

MCLines == <<0, 1, 12>>
=============================================================================
