---------------------------- MODULE WindowManager ----------------------------
(***************************************************************************)
(* The window manager, window_manager/wm.c, as operators on its state: the *)
(* table of windows, the focus, and the drag in progress.                  *)
(*                                                                         *)
(* Of a window's geometry only this is kept: whether it is exactly the     *)
(* whole desktop above the taskbar (`full'), and the same of the geometry  *)
(* saved in restore_x .. restore_h (`restore').  What lies under a pointer *)
(* is then any window that no full one hides.  Drawing is left out.        *)
(***************************************************************************)
EXTENDS Integers, FiniteSets, FiniteSetsExt

CONSTANTS
    WM_MAX_WINDOWS,
    max_windows      \* of the performance profile, adaptive_settings()

ASSUME WindowsAssumption == /\ WM_MAX_WINDOWS \in Nat \ {0}
                            /\ max_windows \in 0 .. WM_MAX_WINDOWS

NULL == 0
Slots == 1 .. WM_MAX_WINDOWS
States == {"normal", "maximized", "minimized"}

Wms == [active : SUBSET Slots,
        flagged : SUBSET Slots,           \* win->focused
        focused : Slots \cup {NULL},      \* the variable focused
        state : [Slots -> States],
        full : SUBSET Slots, restore : SUBSET Slots,
        win_count : Nat,
        dragging : BOOLEAN, drag_win : Slots \cup {NULL}]

wm_init == [active |-> {}, flagged |-> {}, focused |-> NULL,
            state |-> [w \in Slots |-> "normal"], full |-> {}, restore |-> {},
            win_count |-> 0, dragging |-> FALSE, drag_win |-> NULL]

With(S, w, in) == IF in THEN S \cup {w} ELSE S \ {w}
Visible(s) == {w \in s.active : s.state[w] # "minimized"}
----------------------------------------------------------------------------
wm_focus(s, w) ==
    [s EXCEPT !.flagged = {w},
              !.focused = w,
              !.state[w] = IF @ = "minimized" THEN "normal" ELSE @]

\* The memset of a slot in wm_create.  Nothing reads a closed window, so that
\* wm_destroy may do it as well: it spares states that differ in nothing.
Cleared(s, w) ==
    [s EXCEPT !.flagged = @ \ {w},
              !.state[w] = "normal",
              !.full = @ \ {w}, !.restore = @ \ {w}]

\* A fault: the new window is not counted.
CreateUncounted(s) ==
    IF s.win_count >= max_windows \/ s.active = Slots THEN s
    ELSE LET w == Min(Slots \ s.active)
         IN  wm_focus([Cleared(s, w) EXCEPT !.active = @ \cup {w}], w)

wm_create(s) ==
    IF s.win_count >= max_windows \/ s.active = Slots THEN s
    ELSE LET w == Min(Slots \ s.active)
         IN  wm_focus([Cleared(s, w) EXCEPT !.active = @ \cup {w},
                                            !.win_count = @ + 1],
                      w)

\* Faults: the focus stays on a closed window, and the count is forgotten.
DestroyKeepsFocus(s, w) ==
    [Cleared(s, w) EXCEPT !.active = @ \ {w}, !.win_count = @ - 1]

DestroyUncounted(s, w) ==
    [Cleared(s, w) EXCEPT !.active = @ \ {w}, !.focused = IF @ = w THEN NULL ELSE @]

wm_destroy(s, w) ==
    [Cleared(s, w) EXCEPT !.active = @ \ {w},
                          !.focused = IF @ = w THEN NULL ELSE @,
                          !.win_count = @ - 1]

\* The button of a window in the taskbar.
wm_restore_or_focus(s, w) ==
    IF w = NULL THEN s
    ELSE IF w \in s.flagged /\ s.state[w] # "minimized"
         THEN [s EXCEPT !.state[w] = "minimized", !.focused = NULL]
         ELSE wm_focus(s, w)

wm_set_state(s, w, state) ==
    IF state = "maximized" /\ s.state[w] # "maximized"
    THEN [s EXCEPT !.state[w] = state,
                   !.restore = With(@, w, w \in s.full),
                   !.full = @ \cup {w}]
    ELSE IF state = "normal" /\ s.state[w] = "maximized"
    THEN [s EXCEPT !.state[w] = state, !.full = With(@, w, w \in s.restore)]
    ELSE [s EXCEPT !.state[w] = state]

\* Layouts 0 to 5 are halves and quarters, layout 6 is the whole desktop.
Layouts == 0 .. 6

wm_snap(s, w, layout) ==
    IF layout = 6 THEN wm_set_state(s, w, "maximized")
    ELSE [s EXCEPT !.restore = IF s.state[w] = "maximized" THEN @
                               ELSE With(@, w, w \in s.full),
                   !.full = @ \ {w},
                   !.state[w] = "normal"]

\* wm_get: the active window with `index' active ones before it.
wm_get(s, index) ==
    LET nth == {w \in s.active : Cardinality({v \in s.active : v < w}) = index}
    IN  IF nth = {} THEN NULL ELSE CHOOSE w \in nth : TRUE

\* What wm_at may find: at a point of the desktop above the taskbar, where
\* the focused window comes first and then the last slot, and at a point of
\* the taskbar, which no full window reaches.
wm_at(s) ==
    IF s.focused \in Visible(s) \cap s.full THEN {s.focused}
    ELSE {w \in Visible(s) : \A v \in Visible(s) \cap s.full : v <= w}
         \cup ({s.focused} \cap Visible(s))
         \cup (IF Visible(s) \cap s.full = {} THEN {NULL} ELSE {})

wm_at_taskbar(s) == (Visible(s) \ s.full) \cup {NULL}
----------------------------------------------------------------------------
\* wm_handle_mouse while a drag is in progress and the button is down.  The
\* pointer may have moved or not.
Dragged(s, moved) ==
    LET w == s.drag_win
        t == IF s.state[w] = "maximized" THEN wm_set_state(s, w, "normal") ELSE s
    IN  IF moved THEN [t EXCEPT !.full = @ \ {w}] ELSE t

\* A fault: the end of a drag is forgotten.
DroppedHeld(s, layout) ==
    IF layout \in Layouts THEN wm_snap(s, s.drag_win, layout) ELSE s

\* The button is up: snap at the left, right or upper edge, and let go.
Dropped(s, layout) ==
    LET t == IF layout \in Layouts THEN wm_snap(s, s.drag_win, layout) ELSE s
    IN  [t EXCEPT !.dragging = FALSE, !.drag_win = NULL]

\* A press on a window, by the part of it under the pointer.
Parts == {"close", "maximize", "minimize", "title", "body"}

Pressed(s, hit, part) ==
    LET f == wm_focus(s, hit)
    IN  CASE part = "close"    -> wm_destroy(f, hit)
          [] part = "maximize" ->
                wm_set_state(f, hit, IF f.state[hit] = "maximized" THEN "normal"
                                     ELSE "maximized")
          [] part = "minimize" -> [f EXCEPT !.state[hit] = "minimized", !.focused = NULL]
          [] part = "title"    -> [f EXCEPT !.dragging = TRUE, !.drag_win = hit]
          [] OTHER             -> f

\* A fault: a press is looked at although a drag is in progress.
HandleBoth(s, left, left_pressed) ==
    (IF s.dragging /\ s.drag_win \in s.active /\ ~left
     THEN {Dropped(s, layout) : layout \in {-1, 0, 1, 6}} ELSE {})
    \cup (IF left_pressed
          THEN {Pressed(s, hit, part) :
                    hit \in (wm_at(s) \cup wm_at_taskbar(s)) \ {NULL}, part \in Parts}
               \cup {s}
          ELSE {s})

\* wm_handle_mouse: the states it may leave, given the buttons it read.
wm_handle_mouse(s, left, left_pressed) ==
    IF s.dragging /\ s.drag_win \in s.active
    THEN IF left THEN {Dragged(s, moved) : moved \in BOOLEAN}
         ELSE {Dropped(s, layout) : layout \in {-1, 0, 1, 6}}
    ELSE IF ~left_pressed THEN {s}
    ELSE {Pressed(s, hit, part) :
              hit \in (wm_at(s) \cup wm_at_taskbar(s)) \ {NULL}, part \in Parts}
         \cup (IF NULL \in wm_at(s) \cup wm_at_taskbar(s) THEN {s} ELSE {})
=============================================================================
