----------------------------- MODULE ShellProof -----------------------------
(***************************************************************************)
(* Proofs about Shell for every table of windows and every limit of the    *)
(* performance profile.                                                    *)
(*                                                                         *)
(* WmInv is what every operation of the window manager keeps, DeskInv what *)
(* every operation of the desktop keeps; one lemma per operation says so.  *)
(* The inductive invariant IInv is both, with the types of the mouse and   *)
(* of the main loop.  Focus is needed for Drag and the other way round:    *)
(* the press that closes a window first focuses it, and only starts when   *)
(* no drag is in progress, so that the closed window is neither.           *)
(***************************************************************************)
EXTENDS Shell, Counting

\* The parts of WmInv: at most one flag, and the focused window is shown and
\* flagged; win_count counts; a drag is of an open window.
Focus(s) ==
    /\ s.flagged = {} \/ \E w \in Slots : s.flagged = {w}
    /\ s.focused # NULL => s.focused \in Visible(s) /\ s.flagged = {s.focused}
Count(s) == s.win_count = Cardinality(s.active) /\ s.win_count <= max_windows
Drag(s) == IF s.dragging THEN s.drag_win \in s.active ELSE s.drag_win = NULL
WmInv(s) == s \in Wms /\ Focus(s) /\ Count(s) /\ Drag(s)

\* The state after wm_focus.
LEMMA FocusFields ==
    ASSUME NEW s \in Wms, NEW w \in Slots
    PROVE  /\ wm_focus(s, w) \in Wms
           /\ wm_focus(s, w).active = s.active
           /\ wm_focus(s, w).flagged = {w}
           /\ wm_focus(s, w).focused = w
           /\ wm_focus(s, w).state = [s.state EXCEPT ![w] = IF @ = "minimized" THEN "normal" ELSE @]
           /\ wm_focus(s, w).win_count = s.win_count
           /\ wm_focus(s, w).dragging = s.dragging
           /\ wm_focus(s, w).drag_win = s.drag_win
  BY DEF wm_focus, Wms, Slots, States

\* wm_focus of an open window.
LEMMA FocusKeeps ==
    ASSUME NEW s, WmInv(s), NEW w \in s.active
    PROVE  WmInv(wm_focus(s, w))
  <1> DEFINE t == wm_focus(s, w)
  <1>1. s \in Wms /\ w \in Slots /\ s.active \in SUBSET Slots /\ s.state \in [Slots -> States]
    BY DEF WmInv, Wms
  <1>2. /\ t \in Wms /\ t.active = s.active /\ t.flagged = {w} /\ t.focused = w
        /\ t.state = [s.state EXCEPT ![w] = IF @ = "minimized" THEN "normal" ELSE @]
        /\ t.win_count = s.win_count /\ t.dragging = s.dragging /\ t.drag_win = s.drag_win
    BY <1>1, FocusFields
  <1> HIDE DEF t
  <1>3. Focus(t)
    BY <1>1, <1>2 DEF Focus, Visible
  <1>4. Count(t)
    BY <1>2 DEF WmInv, Count
  <1>5. Drag(t)
    BY <1>2 DEF WmInv, Drag
  <1>6. WmInv(t)
    BY <1>2, <1>3, <1>4, <1>5 DEF WmInv
  <1>7. QED
    BY <1>6 DEF t

\* t differs from s in the shape of windows only, and minimises none.
Reshaped(s, t) ==
    /\ t \in Wms
    /\ t.active = s.active /\ t.flagged = s.flagged /\ t.focused = s.focused
    /\ t.win_count = s.win_count /\ t.dragging = s.dragging /\ t.drag_win = s.drag_win
    /\ \A v \in Slots : s.state[v] # "minimized" => t.state[v] # "minimized"

\* A change of shape concerns neither focus, count nor drag.
LEMMA ReshapedKeeps ==
    ASSUME NEW s, WmInv(s), NEW t, Reshaped(s, t)
    PROVE  WmInv(t)
  <1>1. t \in Wms /\ s.active \in SUBSET Slots
    BY DEF WmInv, Wms, Reshaped
  <1>2. Focus(t)
    BY <1>1 DEF WmInv, Focus, Visible, Reshaped
  <1>3. Count(t)
    BY DEF WmInv, Count, Reshaped
  <1>4. Drag(t)
    BY DEF WmInv, Drag, Reshaped
  <1>5. QED
    BY <1>1, <1>2, <1>3, <1>4 DEF WmInv

\* wm_set_state as the window manager calls it.
LEMMA SetStateReshapes ==
    ASSUME NEW s \in Wms, NEW w \in Slots, NEW state \in {"normal", "maximized"}
    PROVE  Reshaped(s, wm_set_state(s, w, state))
  BY DEF Reshaped, wm_set_state, With, Wms, Slots, States

\* wm_snap, to any layout.
LEMMA SnapReshapes ==
    ASSUME NEW s \in Wms, NEW w \in Slots, NEW layout
    PROVE  Reshaped(s, wm_snap(s, w, layout))
  <1>1. CASE layout = 6
    BY <1>1, SetStateReshapes DEF wm_snap
  <1>2. CASE layout # 6
    BY <1>2 DEF wm_snap, Reshaped, With, Wms, Slots, States
  <1>3. QED
    BY <1>1, <1>2

\* wm_handle_mouse in the middle of a drag.
LEMMA DraggedReshapes ==
    ASSUME NEW s \in Wms, s.drag_win \in Slots, NEW moved
    PROVE  Reshaped(s, Dragged(s, moved))
  <1> DEFINE w == s.drag_win
             t == IF s.state[w] = "maximized" THEN wm_set_state(s, w, "normal") ELSE s
  <1>1. Reshaped(s, t)
    BY SetStateReshapes DEF Reshaped
  <1>2. Dragged(s, moved) = IF moved THEN [t EXCEPT !.full = @ \ {w}] ELSE t
    BY DEF Dragged
  <1> HIDE DEF t
  <1>3. Reshaped(s, [t EXCEPT !.full = @ \ {w}])
    BY <1>1 DEF Reshaped, Wms
  <1>4. QED
    BY <1>1, <1>2, <1>3

\* The table of windows is a finite set of numbers.
LEMMA SlotsFinite ==
    /\ Slots \in SUBSET Int /\ IsFiniteSet(Slots)
    /\ \A A \in SUBSET Slots : IsFiniteSet(A)
  <1>1. WM_MAX_WINDOWS \in Int
    BY WindowsAssumption
  <1>2. IsFiniteSet(Slots)
    BY <1>1, FS_Interval DEF Slots
  <1>3. \A A \in SUBSET Slots : IsFiniteSet(A)
    BY <1>2, FS_Subset
  <1>4. QED
    BY <1>1, <1>2, <1>3 DEF Slots

\* The state after a slot was cleared.
LEMMA ClearedFields ==
    ASSUME NEW s \in Wms, NEW w \in Slots
    PROVE  /\ Cleared(s, w) \in Wms
           /\ Cleared(s, w).active = s.active
           /\ Cleared(s, w).flagged = s.flagged \ {w}
           /\ Cleared(s, w).focused = s.focused
           /\ Cleared(s, w).state = [s.state EXCEPT ![w] = "normal"]
           /\ Cleared(s, w).win_count = s.win_count
           /\ Cleared(s, w).dragging = s.dragging
           /\ Cleared(s, w).drag_win = s.drag_win
  BY DEF Cleared, Wms, States

\* wm_create, which takes the first free slot or does nothing.
LEMMA CreateKeeps ==
    ASSUME NEW s, WmInv(s)
    PROVE  WmInv(wm_create(s))
  <1>1. CASE s.win_count >= max_windows \/ s.active = Slots
    BY <1>1 DEF wm_create
  <1>2. CASE ~(s.win_count >= max_windows \/ s.active = Slots)
    <2> DEFINE w == Min(Slots \ s.active)
               e == Cleared(s, w)
               c == [e EXCEPT !.active = @ \cup {w}, !.win_count = @ + 1]
               t == wm_focus(c, w)
    <2>1. wm_create(s) = t
      BY <1>2 DEF wm_create
    <2>2. s \in Wms /\ s.active \in SUBSET Slots /\ s.win_count \in Nat
      BY DEF WmInv, Wms
    <2>3. IsFiniteSet(Slots) /\ IsFiniteSet(s.active) /\ Slots \in SUBSET Int
      BY <2>2, SlotsFinite
    <2>4. w \in Slots /\ w \notin s.active
      <3>1. IsFiniteSet(Slots \ s.active) /\ Slots \ s.active # {}
        BY <1>2, <2>2, <2>3, FS_Difference
      <3>2. \E x \in Slots \ s.active : \A y \in Slots \ s.active : x <= y
        BY <3>1, <2>3, LeastExists
      <3>3. QED
        BY <3>2 DEF Min
    <2> HIDE DEF w
    <2>5. /\ c \in Wms
          /\ c.active = s.active \cup {w} /\ c.win_count = s.win_count + 1
          /\ c.dragging = s.dragging /\ c.drag_win = s.drag_win
          /\ c.state = [s.state EXCEPT ![w] = "normal"]
      <3>1. /\ e \in Wms /\ e.active = s.active /\ e.win_count = s.win_count
            /\ e.dragging = s.dragging /\ e.drag_win = s.drag_win
            /\ e.state = [s.state EXCEPT ![w] = "normal"]
        BY <2>2, <2>4, ClearedFields
      <3> HIDE DEF e
      <3>2. e.active \cup {w} \in SUBSET Slots /\ e.win_count + 1 \in Nat
        BY <2>2, <2>4, <3>1
      <3>3. c \in Wms
        BY <3>1, <3>2 DEF Wms
      <3>4. /\ c.active = e.active \cup {w} /\ c.win_count = e.win_count + 1
            /\ c.dragging = e.dragging /\ c.drag_win = e.drag_win /\ c.state = e.state
        BY <3>1 DEF Wms
      <3> HIDE DEF c
      <3>5. QED
        BY <3>1, <3>3, <3>4
    <2> HIDE DEF c
    <2>6. /\ t \in Wms /\ t.active = c.active /\ t.flagged = {w} /\ t.focused = w
          /\ t.state = [c.state EXCEPT ![w] = IF @ = "minimized" THEN "normal" ELSE @]
          /\ t.win_count = c.win_count /\ t.dragging = c.dragging
          /\ t.drag_win = c.drag_win
      BY <2>4, <2>5, FocusFields
    <2> HIDE DEF t
    <2>7. c.state \in [Slots -> States]
      BY <2>5 DEF Wms
    <2>8. Focus(t)
      BY <2>4, <2>5, <2>6, <2>7 DEF Focus, Visible
    <2>9. Count(t)
      <3>1. s.win_count = Cardinality(s.active) /\ s.win_count < max_windows
        BY <1>2, <2>2, WindowsAssumption DEF WmInv, Count
      <3>2. Cardinality(t.active) = Cardinality(s.active) + 1
        <4>1. t.active = s.active \cup {w}
          BY <2>5, <2>6
        <4>2. QED
          BY <4>1, <2>3, <2>4, FS_AddElement
      <3>3. QED
        BY <3>1, <3>2, <2>2, <2>5, <2>6, WindowsAssumption DEF Count
    <2>10. Drag(t)
      BY <2>5, <2>6 DEF WmInv, Drag
    <2>11. QED
      BY <2>1, <2>6, <2>8, <2>9, <2>10 DEF WmInv
  <1>3. QED
    BY <1>1, <1>2

\* wm_destroy of the window that has the flag and is not being dragged.
LEMMA DestroyKeeps ==
    ASSUME NEW s, WmInv(s), NEW w \in s.active, s.drag_win # w, s.flagged = {w}
    PROVE  WmInv(wm_destroy(s, w))
  <1> DEFINE t == wm_destroy(s, w)
  <1>1. s \in Wms /\ w \in Slots /\ s.active \in SUBSET Slots /\ s.win_count \in Nat
    BY DEF WmInv, Wms
  <1>2. IsFiniteSet(s.active) /\ Cardinality(s.active \ {w}) = Cardinality(s.active) - 1
    <2>1. IsFiniteSet(s.active)
      BY <1>1, SlotsFinite
    <2>2. QED
      BY <2>1, FS_RemoveElement
  <1>3. s.win_count # 0
    BY <1>2, FS_EmptySet DEF WmInv, Count
  <1>4. /\ t \in Wms
        /\ t.active = s.active \ {w} /\ t.flagged = {}
        /\ t.focused = (IF s.focused = w THEN NULL ELSE s.focused)
        /\ t.win_count = s.win_count - 1
        /\ t.dragging = s.dragging /\ t.drag_win = s.drag_win
    <2> DEFINE e == Cleared(s, w)
    <2>1. /\ e \in Wms /\ e.active = s.active /\ e.win_count = s.win_count
          /\ e.dragging = s.dragging /\ e.drag_win = s.drag_win
          /\ e.focused = s.focused /\ e.flagged = {}
      BY <1>1, ClearedFields
    <2>2. t = [e EXCEPT !.active = @ \ {w}, !.focused = IF @ = w THEN NULL ELSE @,
                        !.win_count = @ - 1]
      BY DEF wm_destroy
    <2> HIDE DEF e, t
    <2>3. e.active \ {w} \in SUBSET Slots /\ e.win_count - 1 \in Nat
      BY <2>1, <1>1, <1>3
    <2>4. t \in Wms
      BY <2>1, <2>2, <2>3 DEF Wms
    <2>5. /\ t.active = e.active \ {w} /\ t.flagged = e.flagged
          /\ t.focused = (IF e.focused = w THEN NULL ELSE e.focused)
          /\ t.win_count = e.win_count - 1
          /\ t.dragging = e.dragging /\ t.drag_win = e.drag_win
      BY <2>1, <2>2 DEF Wms
    <2>6. QED
      BY <2>1, <2>4, <2>5
  <1> HIDE DEF t
  <1>5. Focus(t)
    BY <1>4 DEF WmInv, Focus, NULL
  <1>6. Count(t)
    BY <1>1, <1>2, <1>4, WindowsAssumption DEF WmInv, Count
  <1>7. Drag(t)
    BY <1>4 DEF WmInv, Drag
  <1>8. WmInv(t)
    BY <1>4, <1>5, <1>6, <1>7 DEF WmInv
  <1>9. QED
    BY <1>8 DEF t

\* Minimising an open window, which takes the focus from all of them.
LEMMA MinimizeKeeps ==
    ASSUME NEW s, WmInv(s), NEW w \in s.active
    PROVE  WmInv([s EXCEPT !.state[w] = "minimized", !.focused = NULL])
  <1> DEFINE t == [s EXCEPT !.state[w] = "minimized", !.focused = NULL]
  <1>1. s \in Wms /\ w \in Slots
    BY DEF WmInv, Wms
  <1>2. /\ t \in Wms
        /\ t.active = s.active /\ t.flagged = s.flagged /\ t.focused = NULL
        /\ t.win_count = s.win_count /\ t.dragging = s.dragging /\ t.drag_win = s.drag_win
    BY <1>1 DEF Wms, States
  <1> HIDE DEF t
  <1>3. Focus(t)
    BY <1>2 DEF WmInv, Focus
  <1>4. Count(t)
    BY <1>2 DEF WmInv, Count
  <1>5. Drag(t)
    BY <1>2 DEF WmInv, Drag
  <1>6. WmInv(t)
    BY <1>2, <1>3, <1>4, <1>5 DEF WmInv
  <1>7. QED
    BY <1>6 DEF t

\* A click on a button of the taskbar.
LEMMA RestoreOrFocusKeeps ==
    ASSUME NEW s, WmInv(s), NEW w \in s.active \cup {NULL}
    PROVE  WmInv(wm_restore_or_focus(s, w))
  BY FocusKeeps, MinimizeKeeps DEF wm_restore_or_focus

\* wm_handle_mouse at the end of a drag, at an edge or not.
LEMMA DroppedKeeps ==
    ASSUME NEW s, WmInv(s), s.drag_win \in s.active, NEW layout
    PROVE  WmInv(Dropped(s, layout))
  <1> DEFINE t == IF layout \in Layouts THEN wm_snap(s, s.drag_win, layout) ELSE s
             u == [t EXCEPT !.dragging = FALSE, !.drag_win = NULL]
  <1>1. s \in Wms /\ s.drag_win \in Slots
    BY DEF WmInv, Wms
  <1>2. WmInv(t)
    BY <1>1, SnapReshapes, ReshapedKeeps
  <1> HIDE DEF t
  <1>3. /\ u \in Wms
        /\ u.active = t.active /\ u.flagged = t.flagged /\ u.focused = t.focused
        /\ u.state = t.state /\ u.win_count = t.win_count
        /\ u.dragging = FALSE /\ u.drag_win = NULL
    BY <1>2 DEF WmInv, Wms
  <1>4. Dropped(s, layout) = u
    BY DEF Dropped, t
  <1> HIDE DEF u
  <1>5. Focus(u)
    BY <1>2, <1>3 DEF WmInv, Focus, Visible
  <1>6. Count(u)
    BY <1>2, <1>3 DEF WmInv, Count
  <1>7. Drag(u)
    BY <1>3 DEF Drag
  <1>8. QED
    BY <1>3, <1>4, <1>5, <1>6, <1>7 DEF WmInv

\* A press on any part of an open window while nothing is dragged.
LEMMA PressedKeeps ==
    ASSUME NEW s, WmInv(s), ~s.dragging, NEW hit \in s.active, NEW part \in Parts
    PROVE  WmInv(Pressed(s, hit, part))
  <1> DEFINE f == wm_focus(s, hit)
  <1>1. s \in Wms /\ hit \in Slots /\ hit # NULL
    BY DEF WmInv, Wms, Slots, NULL
  <1>2. WmInv(f)
    BY FocusKeeps
  <1>3. f.active = s.active /\ f.flagged = {hit} /\ f.drag_win = s.drag_win
    BY <1>1, FocusFields
  <1>4. s.drag_win = NULL
    BY DEF WmInv, Drag
  <1>5. Pressed(s, hit, part) =
            CASE part = "close"    -> wm_destroy(f, hit)
              [] part = "maximize" ->
                    wm_set_state(f, hit, IF f.state[hit] = "maximized" THEN "normal"
                                         ELSE "maximized")
              [] part = "minimize" -> [f EXCEPT !.state[hit] = "minimized", !.focused = NULL]
              [] part = "title"    -> [f EXCEPT !.dragging = TRUE, !.drag_win = hit]
              [] OTHER             -> f
    BY DEF Pressed
  <1> HIDE DEF f
  <1>6. CASE part = "close"
    BY <1>1, <1>2, <1>3, <1>4, <1>5, <1>6, DestroyKeeps
  <1>7. CASE part = "maximize"
    <2>1. WmInv(wm_set_state(f, hit, IF f.state[hit] = "maximized" THEN "normal"
                                     ELSE "maximized"))
      <3>1. f \in Wms
        BY <1>2 DEF WmInv
      <3>2. QED
        BY <1>1, <1>2, <3>1, SetStateReshapes, ReshapedKeeps
    <2>2. QED
      BY <1>5, <1>7, <2>1
  <1>8. CASE part = "minimize"
    <2>1. WmInv([f EXCEPT !.state[hit] = "minimized", !.focused = NULL])
      BY <1>2, <1>3, MinimizeKeeps
    <2>2. QED
      BY <1>5, <1>8, <2>1
  <1>9. CASE part = "title"
    <2> DEFINE t == [f EXCEPT !.dragging = TRUE, !.drag_win = hit]
    <2>1. /\ t \in Wms
          /\ t.active = f.active /\ t.flagged = f.flagged /\ t.focused = f.focused
          /\ t.state = f.state /\ t.win_count = f.win_count
          /\ t.dragging = TRUE /\ t.drag_win = hit
      BY <1>1, <1>2 DEF WmInv, Wms
    <2>2. Pressed(s, hit, part) = t
      BY <1>5, <1>9
    <2> HIDE DEF t
    <2>3. Focus(t)
      BY <1>2, <2>1 DEF WmInv, Focus, Visible
    <2>4. Count(t)
      BY <1>2, <2>1 DEF WmInv, Count
    <2>5. Drag(t)
      BY <1>3, <2>1 DEF Drag
    <2>6. QED
      BY <2>1, <2>2, <2>3, <2>4, <2>5 DEF WmInv
  <1>10. CASE part = "body"
    BY <1>2, <1>5, <1>10
  <1>11. QED
    BY <1>6, <1>7, <1>8, <1>9, <1>10 DEF Parts

\* wm_at finds open windows only.
LEMMA AtOpen ==
    ASSUME NEW s
    PROVE  /\ wm_at(s) \subseteq s.active \cup {NULL}
           /\ wm_at_taskbar(s) \subseteq s.active \cup {NULL}
  BY DEF wm_at, wm_at_taskbar, Visible

\* wm_handle_mouse, whatever it read of the buttons.
LEMMA HandleMouseKeeps ==
    ASSUME NEW s, WmInv(s), NEW down, NEW pressed,
           NEW t \in wm_handle_mouse(s, down, pressed)
    PROVE  WmInv(t)
  <1>1. s \in Wms /\ (s.drag_win \in s.active => s.drag_win \in Slots)
    BY DEF WmInv, Wms
  <1>2. CASE s.dragging /\ s.drag_win \in s.active
    <2>1. \A moved : WmInv(Dragged(s, moved))
      BY <1>1, <1>2, DraggedReshapes, ReshapedKeeps
    <2>2. \A layout : WmInv(Dropped(s, layout))
      BY <1>2, DroppedKeeps
    <2>3. QED
      BY <1>2, <2>1, <2>2 DEF wm_handle_mouse
  <1>3. CASE ~(s.dragging /\ s.drag_win \in s.active)
    <2>1. ~s.dragging
      BY <1>3 DEF WmInv, Drag
    <2>2. \A hit \in s.active, part \in Parts : WmInv(Pressed(s, hit, part))
      BY <2>1, PressedKeeps
    <2>3. CASE t = s
      BY <2>3
    <2>4. CASE t # s
      <3>1. PICK hit \in (wm_at(s) \cup wm_at_taskbar(s)) \ {NULL}, part \in Parts :
                t = Pressed(s, hit, part)
        BY <1>3, <2>4 DEF wm_handle_mouse
      <3>2. hit \in s.active
        BY AtOpen
      <3>3. QED
        BY <2>2, <3>1, <3>2
    <2>5. QED
      BY <2>3, <2>4
  <1>4. QED
    BY <1>2, <1>3

\* Each of the first win_count indices has its window, so that every button
\* of the taskbar stands for an open one.
LEMMA ButtonsOpen ==
    ASSUME NEW s, WmInv(s)
    PROVE  TaskButtons(s) \subseteq s.active
  <1>1. s.active \in SUBSET Slots /\ s.win_count = Cardinality(s.active)
    BY DEF WmInv, Wms, Count
  <1>2. s.active \in SUBSET Int /\ IsFiniteSet(s.active)
    BY <1>1, SlotsFinite
  <1>3. ASSUME NEW i \in 0 .. 5, i < s.win_count
        PROVE  wm_get(s, i) \in s.active
    <2> DEFINE nth == {w \in s.active : Cardinality({v \in s.active : v < w}) = i}
    <2>1. \E w \in s.active : Cardinality({v \in s.active : v < w}) = i
      BY <1>1, <1>2, <1>3, RankExists
    <2>2. wm_get(s, i) = CHOOSE w \in nth : TRUE
      BY <2>1 DEF wm_get
    <2>3. QED
      BY <2>1, <2>2
  <1>4. QED
    BY <1>3 DEF TaskButtons

\* At most one of the popups that exclude each other is open.
DeskInv(d) ==
    /\ d \in Desktops
    /\ ~(d.start /\ d.search)
    /\ d.ctx => ~d.start /\ ~d.search /\ ~d.action

\* What every outcome of a click on the desktop satisfies.
Good(o) == WmInv(o.wm) /\ DeskInv(o.desk) /\ o.then \in {"poll", "wm", "off"}

\* The three ways a click may end.
LEMMA OutcomesGood ==
    ASSUME NEW s, WmInv(s), NEW d, DeskInv(d)
    PROVE  Good(Takes(s, d)) /\ Good(Leaves(s, d)) /\ Good(power_shutdown(s, d))
  BY DEF Good, Takes, Leaves, power_shutdown

\* The ways the desktop opens and closes its popups.
LEMMA DeskKeeps ==
    ASSUME NEW d, DeskInv(d)
    PROVE  /\ DeskInv(desktop_toggle_launcher(d))
           /\ DeskInv(desktop_toggle_snap(d))
           /\ DeskInv(CloseMenus(d))
           /\ DeskInv([d EXCEPT !.start = FALSE])
           /\ DeskInv([d EXCEPT !.action = FALSE])
           /\ DeskInv([d EXCEPT !.ctx = FALSE])
           /\ DeskInv([d EXCEPT !.snap_ui = FALSE])
           /\ DeskInv([d EXCEPT !.ctx = TRUE, !.start = FALSE, !.action = FALSE,
                                !.search = FALSE])
  <1>1. DeskInv(desktop_toggle_launcher(d))
    BY DEF desktop_toggle_launcher, DeskInv, Desktops
  <1>2. DeskInv(desktop_toggle_snap(d))
    BY DEF desktop_toggle_snap, DeskInv, Desktops
  <1>3. DeskInv(CloseMenus(d))
    BY DEF CloseMenus, DeskInv, Desktops
  <1>4. DeskInv([d EXCEPT !.start = FALSE]) /\ DeskInv([d EXCEPT !.action = FALSE])
    BY DEF DeskInv, Desktops
  <1>5. DeskInv([d EXCEPT !.ctx = FALSE]) /\ DeskInv([d EXCEPT !.snap_ui = FALSE])
    BY DEF DeskInv, Desktops
  <1>6. DeskInv([d EXCEPT !.ctx = TRUE, !.start = FALSE, !.action = FALSE,
                          !.search = FALSE])
    BY DEF DeskInv, Desktops
  <1>7. QED
    BY <1>1, <1>2, <1>3, <1>4, <1>5, <1>6

\* desktop_launch.
LEMMA LaunchGood ==
    ASSUME NEW s, WmInv(s), NEW d, DeskInv(d)
    PROVE  Good(desktop_launch(s, d))
  BY CreateKeeps, DeskKeeps, OutcomesGood DEF desktop_launch

\* A click on the taskbar, with the context menu closed.
LEMMA TaskbarGood ==
    ASSUME NEW s, WmInv(s), NEW d, DeskInv(d), NEW o \in Taskbar(s, d)
    PROVE  Good(o)
  <1> DEFINE b == [d EXCEPT !.ctx = FALSE]
  <1>1. DeskInv(b)
    BY DeskKeeps
  <1>2. b.ctx = FALSE
    BY DEF DeskInv, Desktops
  <1>3. o \in {Takes(s, desktop_toggle_launcher(b)),
               Takes(s, [b EXCEPT !.search = TRUE, !.start = FALSE, !.action = FALSE]),
               desktop_launch(s, b),
               Takes(s, [b EXCEPT !.action = ~@, !.start = FALSE]),
               Takes(s, [b EXCEPT !.action = ~@]),
               Takes(s, b)}
            \cup {Takes(wm_restore_or_focus(s, w), b) : w \in TaskButtons(s)}
    BY DEF Taskbar
  <1> HIDE DEF b
  <1>4. DeskInv([b EXCEPT !.search = TRUE, !.start = FALSE, !.action = FALSE])
    BY <1>1, <1>2 DEF DeskInv, Desktops
  <1>5. DeskInv([b EXCEPT !.action = ~@, !.start = FALSE])
    BY <1>1, <1>2 DEF DeskInv, Desktops
  <1>6. DeskInv([b EXCEPT !.action = ~@])
    BY <1>1, <1>2 DEF DeskInv, Desktops
  <1>7. \A w \in TaskButtons(s) : Good(Takes(wm_restore_or_focus(s, w), b))
    <2> SUFFICES ASSUME NEW w \in TaskButtons(s)
                 PROVE  Good(Takes(wm_restore_or_focus(s, w), b))
      OBVIOUS
    <2>1. w \in s.active \cup {NULL}
      BY ButtonsOpen
    <2>2. WmInv(wm_restore_or_focus(s, w))
      BY <2>1, RestoreOrFocusKeeps
    <2>3. QED
      BY <1>1, <2>2, OutcomesGood
  <1>8. Good(desktop_launch(s, b)) /\ Good(Takes(s, desktop_toggle_launcher(b)))
    BY <1>1, LaunchGood, DeskKeeps, OutcomesGood
  <1>9. QED
    BY <1>1, <1>3, <1>4, <1>5, <1>6, <1>7, <1>8, OutcomesGood

\* A click that reached the context menu or the icons behind it.
LEMMA ContextMenuGood ==
    ASSUME NEW s, WmInv(s), NEW d, DeskInv(d), NEW o \in ContextMenu(s, d)
    PROVE  Good(o)
  <1>1. DeskInv([d EXCEPT !.ctx = FALSE])
    BY DeskKeeps
  <1>2. QED
    BY <1>1, LaunchGood, OutcomesGood DEF ContextMenu, Icons

\* A click that reached the snap flyout.
LEMMA SnapFlyoutGood ==
    ASSUME NEW s, WmInv(s), NEW d, DeskInv(d), NEW o \in SnapFlyout(s, d)
    PROVE  Good(o)
  <1> DEFINE closed == [d EXCEPT !.snap_ui = FALSE]
             snapped(i) == IF s.focused = NULL THEN s ELSE wm_snap(s, s.focused, i)
  <1>1. DeskInv(closed)
    BY DeskKeeps
  <1>2. \A i : WmInv(snapped(i))
    <2>1. s \in Wms /\ (s.focused # NULL => s.focused \in Slots)
      BY DEF WmInv, Wms
    <2>2. QED
      BY <2>1, SnapReshapes, ReshapedKeeps
  <1>3. o \in {Takes(snapped(i), closed) : i \in 0 .. 5} \cup ContextMenu(s, closed)
    BY DEF SnapFlyout
  <1> HIDE DEF closed, snapped
  <1>4. QED
    BY <1>1, <1>2, <1>3, ContextMenuGood, OutcomesGood

\* A click above the taskbar, through all popups.
LEMMA StartMenuGood ==
    ASSUME NEW s, WmInv(s), NEW d, DeskInv(d), NEW o \in StartMenu(s, d)
    PROVE  Good(o)
  <1>1. DeskInv([d EXCEPT !.start = FALSE])
    BY DeskKeeps
  <1>2. ASSUME NEW e, DeskInv(e), o \in ActionCenter(s, e)
        PROVE  Good(o)
    <2>1. DeskInv([e EXCEPT !.action = FALSE])
      BY <1>2, DeskKeeps
    <2>2. QED
      BY <1>2, <2>1, SnapFlyoutGood, OutcomesGood DEF ActionCenter
  <1>3. WmInv(wm_create(s))
    BY CreateKeeps
  <1>4. QED
    BY <1>1, <1>2, <1>3, LaunchGood, OutcomesGood DEF StartMenu

\* desktop_handle_mouse, whatever it read of the buttons.
LEMMA DesktopGood ==
    ASSUME NEW s, WmInv(s), NEW d, DeskInv(d), NEW lp, NEW rp,
           NEW o \in desktop_handle_mouse(s, d, lp, rp)
    PROVE  Good(o)
  <1>1. Good(OpenContext(s, d))
    BY DeskKeeps, OutcomesGood DEF OpenContext
  <1>2. QED
    BY <1>1, TaskbarGood, StartMenuGood, OutcomesGood DEF desktop_handle_mouse

\* The inductive invariant.
IInv ==
    /\ WmInv(wm) /\ DeskInv(desk)
    /\ left \in BOOLEAN /\ right \in BOOLEAN
    /\ left_pressed \in BOOLEAN /\ right_pressed \in BOOLEAN
    /\ pc \in {"keys", "desktop", "wm", "poll", "off"}

\* The terminal that kernel_main opens.
LEMMA InitKeeps == Init => IInv
  <1>1. WmInv(wm_init)
    <2>1. wm_init \in Wms
      BY DEF wm_init, Wms, States, NULL
    <2>2. Cardinality({}) = 0 /\ 0 <= max_windows
      BY WindowsAssumption, FS_EmptySet
    <2>3. QED
      BY <2>1, <2>2 DEF wm_init, WmInv, Focus, Count, Drag, NULL
  <1>2. DeskInv(desktop_init)
    BY DEF desktop_init, DeskInv, Desktops
  <1>3. QED
    BY <1>1, <1>2, CreateKeeps DEF Init, IInv

\* Every step of the mouse and of the main loop keeps the invariant.
LEMMA StepKeeps == IInv /\ [Next]_vars => IInv'
  <1> SUFFICES ASSUME IInv, [Next]_vars
               PROVE  IInv'
    OBVIOUS
  <1>1. CASE mouse_irq
    BY <1>1 DEF IInv, mouse_irq
  <1>2. CASE mouse_poll_frame
    BY <1>2 DEF IInv, mouse_poll_frame
  <1>3. CASE Shortcut
    <2>1. WmInv(wm') /\ DeskInv(desk')
      BY <1>3, CreateKeeps, DeskKeeps DEF IInv, Shortcut
    <2>2. QED
      BY <1>3, <2>1 DEF IInv, Shortcut, mouse
  <1>4. CASE KeysDone
    BY <1>4 DEF IInv, KeysDone, mouse
  <1>5. CASE HandleDesktop
    <2>1. PICK o \in desktop_handle_mouse(wm, desk, left_pressed, right_pressed) :
              wm' = o.wm /\ desk' = o.desk /\ pc' = o.then
      BY <1>5 DEF HandleDesktop
    <2>2. Good(o)
      BY <2>1, DesktopGood DEF IInv
    <2>3. WmInv(wm') /\ DeskInv(desk') /\ pc' \in {"poll", "wm", "off"}
      BY <2>1, <2>2 DEF Good
    <2>4. QED
      BY <1>5, <2>3 DEF IInv, HandleDesktop, mouse
  <1>6. CASE HandleWindows
    <2>1. WmInv(wm')
      BY <1>6, HandleMouseKeeps DEF IInv, HandleWindows
    <2>2. QED
      BY <1>6, <2>1 DEF IInv, HandleWindows, mouse
  <1>7. CASE UNCHANGED vars
    BY <1>7 DEF IInv, vars
  <1>8. QED
    BY <1>1, <1>2, <1>3, <1>4, <1>5, <1>6, <1>7 DEF Next, kernel_idle

\* The inductive invariant holds in every state of the shell.
THEOREM ShellInvariant == Spec => []IInv
  BY InitKeeps, StepKeeps, PTL DEF Spec

\* The window manager's, the desktop's and the mouse's state keep their types:
\* no slot outside the table is ever focused, dragged or closed (wm.c:32).
THEOREM TypeCorrect == Spec => []TypeOK
  <1>1. IInv => TypeOK
    BY DEF IInv, TypeOK, WmInv, DeskInv
  <1>2. QED
    BY <1>1, ShellInvariant, PTL

\* The window that gets the keys (wm.c:182) is open, shown and the only one
\* flagged, for any number of windows.
THEOREM FocusIsCoherent == Spec => []FocusCoherent
  <1>1. IInv => FocusCoherent
    <2> SUFFICES ASSUME IInv PROVE FocusCoherent
      OBVIOUS
    <2>1. wm.flagged = {} \/ \E w \in Slots : wm.flagged = {w}
      BY DEF IInv, WmInv, Focus
    <2>2. Cardinality(wm.flagged) \in {0, 1}
      BY <2>1, FS_Singleton, FS_EmptySet
    <2>3. QED
      BY <2>2 DEF IInv, WmInv, Focus, FocusCoherent
  <1>2. QED
    BY <1>1, ShellInvariant, PTL

\* win_count (wm.c:22) is the number of open windows, within the profile's
\* limit, and each button made from it (desktop.c:378) has its window.
THEOREM WindowsAreCounted == Spec => []WindowsCounted
  <1>1. IInv => WindowsCounted
    <2> SUFFICES ASSUME IInv PROVE WindowsCounted
      OBVIOUS
    <2>1. wm.active \in SUBSET Slots /\ TaskButtons(wm) \subseteq wm.active
      BY ButtonsOpen DEF IInv, WmInv, Wms
    <2>2. NULL \notin Slots
      BY DEF Slots, NULL
    <2>3. QED
      BY <2>1, <2>2 DEF IInv, WmInv, Count, WindowsCounted
  <1>2. QED
    BY <1>1, ShellInvariant, PTL

\* A drag (wm.c:213) is of an open window, however closes, keys and clicks
\* fall into it.
THEOREM DragIsCoherent == Spec => []DragCoherent
  <1>1. IInv => DragCoherent
    BY DEF IInv, WmInv, Drag, DragCoherent
  <1>2. QED
    BY <1>1, ShellInvariant, PTL

\* The popups that exclude each other (desktop.c:59, desktop.c:341,
\* desktop.c:354) are never open together.
THEOREM PopupsAreExclusive == Spec => []PopupsExclusive
  <1>1. IInv => PopupsExclusive
    BY DEF IInv, DeskInv, PopupsExclusive
  <1>2. QED
    BY <1>1, ShellInvariant, PTL
=============================================================================
