-------------------------------- MODULE Shell --------------------------------
(***************************************************************************)
(* The mouse driver, drivers/mouse/mouse.c, and the main loop of           *)
(* kernel/core/main.c that feeds its state to the desktop and to the       *)
(* window manager.                                                         *)
(*                                                                         *)
(* mouse_irq may fall between any two steps of the loop.  The desktop and  *)
(* the window manager each copy the mouse state (mouse_get) and act on the *)
(* copy; of the buttons the window manager uses one field of its copy or   *)
(* the other, never both, so the copy is one step with the handler.  The   *)
(* loop clears the edges at the end of the frame (mouse_poll_frame).       *)
(* prev_left and prev_right always equal left and right.  The edges of     *)
(* releases, which nothing reads, and the pointer's position, which the    *)
(* handlers choose, are left out.                                          *)
(***************************************************************************)
EXTENDS Desktop

VARIABLES
    wm, desk,
    left, right, left_pressed, right_pressed,   \* g_mouse
    pc                                          \* where kernel_idle is

vars == <<wm, desk, left, right, left_pressed, right_pressed, pc>>
mouse == <<left, right, left_pressed, right_pressed>>

\* kernel_main opens a terminal before interrupts are enabled.
Init ==
    /\ wm = wm_create(wm_init)
    /\ desk = desktop_init
    /\ left = FALSE /\ right = FALSE /\ left_pressed = FALSE /\ right_pressed = FALSE
    /\ pc = "keys"
----------------------------------------------------------------------------
\* The third byte of a packet.  The first two, a byte out of step and a
\* packet with its overflow bits set leave this state alone.
mouse_irq ==
    /\ left' \in BOOLEAN /\ right' \in BOOLEAN
    /\ left_pressed' = (left_pressed \/ (left' /\ ~left))
    /\ right_pressed' = (right_pressed \/ (right' /\ ~right))
    /\ UNCHANGED <<wm, desk, pc>>

mouse_poll_frame ==
    /\ pc = "poll"
    /\ left_pressed' = FALSE /\ right_pressed' = FALSE
    /\ pc' = "keys"
    /\ UNCHANGED <<wm, desk, left, right>>

\* The keys kernel_idle acts on; the others go to the focused window.
Shortcut ==
    /\ pc = "keys"
    /\ \/ wm' = wm_create(wm) /\ desk' = CloseMenus(desk)        \* ^T ^F ^S
       \/ desk' = desktop_toggle_launcher(desk) /\ UNCHANGED wm  \* ^L
       \/ desk' = desktop_toggle_snap(desk) /\ UNCHANGED wm      \* ^N
    /\ UNCHANGED <<mouse, pc>>

KeysDone ==
    /\ pc = "keys"
    /\ pc' = "desktop"
    /\ UNCHANGED <<wm, desk, mouse>>

HandleDesktop ==
    /\ pc = "desktop"
    /\ \E o \in desktop_handle_mouse(wm, desk, left_pressed, right_pressed) :
          /\ wm' = o.wm
          /\ desk' = o.desk
          /\ pc' = o.then
    /\ UNCHANGED mouse

HandleWindows ==
    /\ pc = "wm"
    /\ wm' \in wm_handle_mouse(wm, left, left_pressed)
    /\ pc' = "poll"
    /\ UNCHANGED <<desk, mouse>>

kernel_idle == KeysDone \/ HandleDesktop \/ HandleWindows \/ mouse_poll_frame

Next == mouse_irq \/ Shortcut \/ kernel_idle

\* The main loop never blocks and a user types finitely fast: it always
\* gets to the end of its keys and to its next step.
Spec == Init /\ [][Next]_vars /\ WF_vars(kernel_idle)
----------------------------------------------------------------------------
TypeOK ==
    /\ wm \in Wms /\ desk \in Desktops
    /\ left \in BOOLEAN /\ right \in BOOLEAN
    /\ left_pressed \in BOOLEAN /\ right_pressed \in BOOLEAN
    /\ pc \in {"keys", "desktop", "wm", "poll", "off"}

(***************************************************************************)
(* The variable focused, the focused flags of the windows (wm.c:68) and    *)
(* the windows' states agree: the window that gets the keys (wm.c:182) is  *)
(* open, shown and the only one flagged, whatever was closed, minimised or *)
(* opened while a drag was going on or a click was on its way.             *)
(***************************************************************************)
FocusCoherent ==
    /\ Cardinality(wm.flagged) <= 1
    /\ wm.focused # NULL => wm.focused \in Visible(wm) /\ wm.flagged = {wm.focused}

(***************************************************************************)
(* win_count (wm.c:22) is the number of open windows and never more than   *)
(* the profile allows, so that each of the buttons the desktop makes from  *)
(* wm_count (desktop.c:378) has its window.                                *)
(***************************************************************************)
WindowsCounted ==
    /\ wm.win_count = Cardinality(wm.active)
    /\ wm.win_count <= max_windows
    /\ NULL \notin TaskButtons(wm)

(***************************************************************************)
(* A drag is of a window that is open: no click, key or closed window      *)
(* leaves drag_win (wm.c:213) on a slot that wm_create may give to another *)
(* window, which would then follow the pointer.                            *)
(***************************************************************************)
DragCoherent ==
    /\ wm.dragging => wm.drag_win \in wm.active
    /\ ~wm.dragging => wm.drag_win = NULL

(***************************************************************************)
(* At most one of the start menu, the search box and the context menu is   *)
(* open, and the context menu never together with the action center,       *)
(* whichever of keys, taskbar and right clicks opened them                 *)
(* (desktop.c:59, desktop.c:341, desktop.c:354).                           *)
(***************************************************************************)
PopupsExclusive ==
    /\ ~(desk.start /\ desk.search)
    /\ desk.ctx => ~desk.start /\ ~desk.search /\ ~desk.action

(***************************************************************************)
(* A drag ends (wm.c:235): once the buttons stay up, the window is let go  *)
(* and stays let go, although the frame in which the release is seen may   *)
(* belong to a click of the desktop's.                                     *)
(***************************************************************************)
DragEnds == <>[](~left /\ ~right) => <>[](~wm.dragging \/ pc = "off")
=============================================================================
