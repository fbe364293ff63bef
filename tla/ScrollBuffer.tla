---------------------------- MODULE ScrollBuffer ----------------------------
(***************************************************************************)
(* What a text console promises: it shows the last Rows lines of what was  *)
(* written since it was last cleared, each line broken after Cols          *)
(* characters.                                                             *)
(***************************************************************************)
EXTENDS Integers, Sequences, SequencesExt

CONSTANTS
    Rows, Cols,
    Texts,    \* the texts that are written at a time
    NL        \* the newline character

VARIABLE text   \* the lines shown; the last one is being written

\* All the lines there are once a character, or a text, is written.
Place(ls, c) ==
    IF c = NL THEN Append(ls, <<>>)
    ELSE IF Len(Last(ls)) < Cols THEN Front(ls) \o <<Append(Last(ls), c)>>
    ELSE Append(ls, <<c>>)

Layout(ls, s) == FoldLeft(Place, ls, s)

Shown(ls) == IF Len(ls) <= Rows THEN ls ELSE SubSeq(ls, Len(ls) - Rows + 1, Len(ls))

Blank == << <<>> >>

Init == text = Blank

Write(s) == text' = Shown(Layout(text, s))
Clear == text' = Blank
Restart(s) == text' = Shown(Layout(Blank, s))

Next == Clear \/ \E s \in Texts : Write(s) \/ Restart(s)

Spec == Init /\ [][Next]_text
=============================================================================
