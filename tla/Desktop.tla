------------------------------- MODULE Desktop -------------------------------
(***************************************************************************)
(* The desktop shell, desktop/desktop.c, as operators on its state: which  *)
(* popups are open.                                                        *)
(*                                                                         *)
(* Where the pointer is, is a choice among the regions the code tests, in  *)
(* its order.  Opening an application creates a window, whichever it is;   *)
(* the theme, the notification count, the search text and everything that  *)
(* is drawn are left out.                                                  *)
(***************************************************************************)
EXTENDS WindowManager

Desktops == [start : BOOLEAN, search : BOOLEAN, action : BOOLEAN, ctx : BOOLEAN,
             snap_ui : BOOLEAN]

desktop_init == [start |-> FALSE, search |-> FALSE, action |-> FALSE, ctx |-> FALSE,
                 snap_ui |-> FALSE]

\* A fault: the other popups stay open.
ToggleOnly(d) == [d EXCEPT !.start = ~@]

desktop_toggle_launcher(d) ==
    IF d.start THEN [d EXCEPT !.start = FALSE]
    ELSE [d EXCEPT !.start = TRUE, !.action = FALSE, !.search = FALSE, !.ctx = FALSE]

desktop_toggle_snap(d) == [d EXCEPT !.snap_ui = ~@]

CloseMenus(d) == [d EXCEPT !.start = FALSE, !.search = FALSE, !.ctx = FALSE]

\* The outcomes of a click, which decide where the main loop goes on: taken
\* by the desktop (g_click_consumed), left to the window manager, or the end.
Takes(s, d) == [wm |-> s, desk |-> d, then |-> "poll"]
Leaves(s, d) == [wm |-> s, desk |-> d, then |-> "wm"]
power_shutdown(s, d) == [wm |-> s, desk |-> d, then |-> "off"]

desktop_launch(s, d) == Takes(wm_create(s), CloseMenus(d))
----------------------------------------------------------------------------
\* The windows with a button in the taskbar: the first six.
TaskButtons(s) == {wm_get(s, i) : i \in {j \in 0 .. 5 : j < s.win_count}}

Taskbar(s, d) ==
    LET b == [d EXCEPT !.ctx = FALSE]
    IN  {Takes(s, desktop_toggle_launcher(b)),
         Takes(s, [b EXCEPT !.search = TRUE, !.start = FALSE, !.action = FALSE]),
         desktop_launch(s, b),
         Takes(s, [b EXCEPT !.action = ~@, !.start = FALSE]),  \* the tray
         Takes(s, [b EXCEPT !.action = ~@]),                   \* the clock
         Takes(s, b)}
        \cup {Takes(wm_restore_or_focus(s, w), b) : w \in TaskButtons(s)}

\* Above the taskbar each open popup is tested in turn; one that is missed
\* closes and the click goes on.
Icons(s, d) == {desktop_launch(s, d), Leaves(s, d)}

ContextMenu(s, d) ==
    LET closed == [d EXCEPT !.ctx = FALSE]
    IN  (IF d.ctx THEN {desktop_launch(s, closed), Takes(s, closed)} ELSE {})
        \cup Icons(s, closed)

SnapFlyout(s, d) ==
    LET closed == [d EXCEPT !.snap_ui = FALSE]
    IN  (IF d.snap_ui
         THEN {Takes(IF s.focused = NULL THEN s ELSE wm_snap(s, s.focused, i), closed)
                   : i \in 0 .. 5}
         ELSE {})
        \cup ContextMenu(s, closed)

ActionCenter(s, d) ==
    (IF d.action THEN {Takes(s, d)} ELSE {})
    \cup SnapFlyout(s, [d EXCEPT !.action = FALSE])

\* Two of the tiles open a terminal without closing the menu.
StartMenu(s, d) ==
    (IF d.start
     THEN {desktop_launch(s, d), Takes(wm_create(s), d), Takes(s, d), power_shutdown(s, d)}
     ELSE {})
    \cup ActionCenter(s, [d EXCEPT !.start = FALSE])

\* A right click on the bare desktop.
OpenContext(s, d) ==
    Takes(s, [d EXCEPT !.ctx = TRUE, !.start = FALSE, !.action = FALSE, !.search = FALSE])

\* desktop_handle_mouse: its outcomes, given the buttons it read.
desktop_handle_mouse(s, d, left_pressed, right_pressed) ==
    (IF right_pressed /\ NULL \in wm_at(s) THEN {OpenContext(s, d)} ELSE {})
    \cup (IF ~left_pressed THEN {Leaves(s, d)}
          ELSE Taskbar(s, d) \cup
               (IF right_pressed /\ wm_at(s) = {NULL} THEN {} ELSE StartMenu(s, d)))
=============================================================================
