----------------------------- MODULE MCTerminal -----------------------------
(***************************************************************************)
(* Terminal on a machine of seven pages, four of them free, with a heap of *)
(* four units, a screen of two rows and two columns, and these programs:   *)
(* one of two pages with overlapping sections, a relocation table and a    *)
(* part beyond its sections; one whose table lies in a section that does   *)
(* not fit and is not copied; a damaged one that is smaller than its       *)
(* headers say, has no valid entry point and a table outside its sections  *)
(* with an entry behind the image and a word named twice; and a file that  *)
(* is no program.                                                          *)
(***************************************************************************)
EXTENDS Terminal

MCMaps == {{[addr |-> 0, len |-> 28, available |-> TRUE]}}
MCArena == 5 .. 8

Section(va, ptr, raw) == [virtual_address |-> va, pointer_to_raw_data |-> ptr,
                          size_of_raw_data |-> raw]

Tool == [valid |-> TRUE, size |-> 8, size_of_headers |-> 2, size_of_image |-> 7,
         entry_rva |-> 2, image_base |-> 20, has_dirs |-> TRUE, table |-> 3,
         sections |-> <<Section(2, 2, 3), Section(4, 4, 1), Section(5, 6, 1)>>,
         relocs |-> <<[type |-> "DIR64", rva |-> 3], [type |-> "HIGHLOW", rva |-> 4],
                      [type |-> "ABSOLUTE", rva |-> 0]>>]

Stray == [valid |-> TRUE, size |-> 8, size_of_headers |-> 1, size_of_image |-> 4,
          entry_rva |-> 1, image_base |-> 60, has_dirs |-> TRUE, table |-> 2,
          sections |-> <<Section(1, 3, 2), Section(3, 5, 2)>>,
          relocs |-> <<[type |-> "DIR64", rva |-> 1]>>]

Broken == [valid |-> TRUE, size |-> 3, size_of_headers |-> 5, size_of_image |-> 4,
           entry_rva |-> 4, image_base |-> 12, has_dirs |-> TRUE, table |-> 2,
           sections |-> <<Section(2, 2, 2)>>,
           relocs |-> <<[type |-> "DIR64", rva |-> 4], [type |-> "DIR64", rva |-> 1],
                        [type |-> "DIR64", rva |-> 1]>>]

Text == [valid |-> FALSE, size |-> 2, size_of_headers |-> 0, size_of_image |-> 0,
         entry_rva |-> 0, image_base |-> 0, has_dirs |-> FALSE, table |-> 0,
         sections |-> <<>>, relocs |-> <<>>]

MCFiles == {Tool, Stray, Broken, Text}

MCTexts == {<<"x", "x", "x">>, <<"x", "nl">>}
MCSeed == <<"q">>
MCDatabases == {Missing, <<"q", "q", "q">>}
=============================================================================
