------------------------------ MODULE Terminal ------------------------------
(***************************************************************************)
(* The terminal, applications/terminal/terminal.c: its screen, its input   *)
(* line, the package commands and `run', on top of the PE loader.          *)
(*                                                                         *)
(* All terminal windows share g_term.  Of the input line the length is     *)
(* kept; a line that is not empty may be any command.  What a command      *)
(* prints is one of Texts.  Of the files h3pkg uses only the database is   *)
(* kept, a sequence of records; a package's own file is never read.  The   *)
(* creation of a node and each write may fail, as in VFS.  The other file  *)
(* commands are actions of VFS.                                            *)
(***************************************************************************)
EXTENDS Loader

CONSTANTS
    TERM_ROWS, TERM_COLS, TERM_IN,
    Texts, NL,   \* what is printed at a time, and the newline
    Packages,
    DB_BUF,      \* the buffer h3pkg reads the database into, in records
    Missing,     \* there is no database
    Seed,        \* the database vfs_init makes
    Databases    \* what a user may put in its place

Chars == UNION {Range(text) : text \in Texts}
Records == Packages \cup Range(Seed)

ASSUME ScreenAssumption == {TERM_ROWS, TERM_COLS, TERM_IN} \subseteq Nat \ {0}
ASSUME TextsAssumption == Texts \subseteq Seq(Chars)
ASSUME DatabaseAssumption == /\ DB_BUF \in Nat
                             /\ Databases \cup {Seed} \subseteq {Missing} \cup Seq(Records)

VARIABLES
    lines, row, in_len,   \* g_term
    db,
    off

screen == <<lines, row>>
terminalVars == <<lines, row, in_len, db, off>>

----------------------------------------------------------------------------
\* g_term's screen as a record [lines, row], rows counted from 1.
Screen == [lines |-> lines, row |-> row]
Empty == [lines |-> [r \in 1 .. TERM_ROWS |-> <<>>], row |-> 1]

\* A fault: the screen is not scrolled.
NewlineStays(s) ==
    IF s.row < TERM_ROWS
    THEN [lines |-> [s.lines EXCEPT ![s.row + 1] = <<>>], row |-> s.row + 1]
    ELSE [s EXCEPT !.lines[s.row] = <<>>]

term_newline(s) ==
    IF s.row < TERM_ROWS
    THEN [lines |-> [s.lines EXCEPT ![s.row + 1] = <<>>], row |-> s.row + 1]
    ELSE [s EXCEPT !.lines = [r \in 1 .. TERM_ROWS |->
                                 IF r < TERM_ROWS THEN s.lines[r + 1] ELSE <<>>]]

PutChar(s, c) ==
    IF c = NL THEN term_newline(s)
    ELSE LET t == IF Len(s.lines[s.row]) >= TERM_COLS THEN term_newline(s) ELSE s
         IN  [t EXCEPT !.lines[t.row] = Append(@, c)]

term_print(s, text) == FoldLeft(PutChar, s, text)

Show(s) == lines' = s.lines /\ row' = s.row
Prints == \E text \in Texts : Show(term_print(Screen, text))
----------------------------------------------------------------------------
\* Keys other than Enter.  A fault: no room is kept for the terminator.
TypeOver ==
    \/ in_len < TERM_IN /\ in_len' = in_len + 1
    \/ in_len > 0 /\ in_len' = in_len - 1

Edit ==
    \/ in_len + 1 < TERM_IN /\ in_len' = in_len + 1
    \/ in_len > 0 /\ in_len' = in_len - 1

Type ==
    /\ Edit
    /\ UNCHANGED <<screen, db, off, vars, loaderVars>>

\* Enter on a line that is not empty: the line is cleared, then run.
Line == in_len > 0 /\ in_len' = 0

\* An empty line, and the commands that only print, to which `h3pkg remove'
\* belongs: it removes the package's file and not its record.
Message ==
    /\ in_len' = 0
    /\ Prints
    /\ UNCHANGED <<db, off, vars, loaderVars>>

Clear ==
    /\ Line
    /\ Show(Empty)
    /\ UNCHANGED <<db, off, vars, loaderVars>>

\* cmd_run: the program writes to the screen until it returns, and its exit
\* code is printed.
cmd_run(f) ==
    /\ Line
    /\ pe_run(f)
    /\ Prints
    /\ UNCHANGED <<db, off>>

pe_term_write ==
    /\ program = "running"
    /\ Prints
    /\ UNCHANGED <<in_len, db, off, vars, loaderVars>>

Program ==
    \/ pe_term_write
    \/ \E code \in Codes : /\ api_exit(code)
                           /\ UNCHANGED terminalVars
    \/ \E rc \in Codes : /\ Return(rc)
                         /\ Prints
                         /\ UNCHANGED <<in_len, db, off>>

\* shutdown and reboot
PowerOff ==
    /\ Line
    /\ Prints
    /\ off' = TRUE
    /\ UNCHANGED <<db, vars, loaderVars>>
----------------------------------------------------------------------------
\* vfs_read into the buffer: the records that fit.
ReadDb == IF Len(db) < DB_BUF THEN db ELSE SubSeq(db, 1, DB_BUF - 1)

\* A fault: the room in the buffer is not tested.
RecordAlways(p) ==
    IF db = Missing THEN {Missing, <<>>, <<p>>} ELSE {db, Append(ReadDb, p)}

\* What `install' may leave in the database.
Record(p) ==
    IF db = Missing THEN {Missing, <<>>, <<p>>}
    ELSE IF Len(ReadDb) + 1 < DB_BUF THEN {db, Append(ReadDb, p)}
    ELSE {db}

Install(p) ==
    /\ Line
    /\ db' \in Record(p)
    /\ Prints
    /\ UNCHANGED <<off, vars, loaderVars>>

\* rm, mv and cp on the database
Replace(d) ==
    /\ Line
    /\ db' = d
    /\ Prints
    /\ UNCHANGED <<off, vars, loaderVars>>
----------------------------------------------------------------------------
\* A new terminal takes over g_term, also when there is no window for it.
terminal_open ==
    /\ in_len' = 0
    /\ Show(Empty) \/ \E text \in Texts : Show(term_print(Empty, text))
    /\ UNCHANGED <<db, off, vars, loaderVars>>

TerminalInit ==
    /\ LoaderInit
    /\ lines = Empty.lines /\ row = Empty.row /\ in_len = 0
    /\ db = Seed
    /\ off = FALSE

Command ==
    \/ Message \/ Clear \/ PowerOff
    \/ \E f \in Files : cmd_run(f)
    \/ \E p \in Packages : Install(p)
    \/ \E d \in Databases : Replace(d)

TerminalNext ==
    /\ ~off
    /\ \/ \E m \in Maps : Boot(m) /\ UNCHANGED terminalVars
       \/ booted /\ program = "idle" /\ (Type \/ Command \/ terminal_open)
       \/ Program
       \/ \E c \in Counts : ClientTakes(c) /\ UNCHANGED terminalVars
       \/ \E a \in Holders : ClientReturns(a) /\ UNCHANGED terminalVars

allVars == <<vars, loaderVars, terminalVars>>

TerminalSpec == TerminalInit /\ [][TerminalNext]_allVars
----------------------------------------------------------------------------
TerminalTypeOK ==
    /\ TypeOK
    /\ ram \in [Addresses -> 0 .. WORD - 1]
    /\ \A i \in images : i.file \in Files /\ Extent(i) \subseteq Addresses
    /\ program \in {"idle", "running"}
    /\ g_exited \in BOOLEAN
    /\ {g_exit_code, result} \cup told \subseteq Codes \cup {-1, 0}
    /\ row \in 1 .. TERM_ROWS /\ DOMAIN lines = 1 .. TERM_ROWS
    /\ \A r \in 1 .. TERM_ROWS : Len(lines[r]) <= TERM_COLS
    /\ in_len \in 0 .. TERM_IN - 1
    /\ db \in {Missing} \cup Seq(Records)
    /\ off \in BOOLEAN

(***************************************************************************)
(* The terminal's screen is a scroll buffer: term_print and term_newline   *)
(* (terminal.c:32, terminal.c:43), which wrap and shift a fixed array one  *)
(* character at a time, show the last TERM_ROWS lines of what commands and *)
(* programs wrote since the screen was last cleared.                       *)
(***************************************************************************)
Scroll == INSTANCE ScrollBuffer WITH Rows <- TERM_ROWS, Cols <- TERM_COLS,
                                     text <- SubSeq(lines, 1, row)

ImplementsScrollBuffer == Scroll!Spec

(***************************************************************************)
(* `h3pkg install' (terminal.c:321) loses no record of the database: not   *)
(* when the buffer it edits the database in is full, not when the database *)
(* is longer than the buffer, and not when a write fails.                  *)
(***************************************************************************)
RecordsKept == [][\A p \in Packages : Install(p) => db = Missing \/ IsPrefix(db, db')]_allVars
=============================================================================
