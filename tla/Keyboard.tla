------------------------------ MODULE Keyboard ------------------------------
(***************************************************************************)
(* The PS/2 keyboard, drivers/keyboard/keyboard.c, between its interrupt   *)
(* handler and the loop over the keys in kernel_idle.                      *)
(*                                                                         *)
(* keyboard_irq runs behind an interrupt gate, so it is one atomic step;   *)
(* keyboard_try_read is not protected, so an interrupt may fall between    *)
(* its test, its read of the slot and its update of kbd_tail.              *)
(***************************************************************************)
EXTENDS Integers, Sequences

CONSTANTS
    KBD_BUF_SIZE,
    Keys,          \* the keys: [plain, shifted, control], the characters of
                   \* the two scancode maps and the control code, if any
    None           \* no character: the 0 of the scancode maps

ASSUME SizeAssumption == KBD_BUF_SIZE \in Nat /\ KBD_BUF_SIZE > 1

Chars == {k.plain : k \in Keys} \cup {k.shifted : k \in Keys}
             \cup {k.control : k \in Keys}
Accepted == Chars \ {None}
Slots == 0 .. KBD_BUF_SIZE - 1

VARIABLES
    kbd_buf, kbd_head, kbd_tail,
    dropped,    \* history: whether kbd_push dropped the last character
    shift, caps, ctrl,
    pc,         \* where the main loop is
    c,          \* its local variable: the character it is reading
    delivered   \* the character keyboard_try_read last returned

vars == <<kbd_buf, kbd_head, kbd_tail, dropped, shift, caps, ctrl, pc, c, delivered>>
driver == <<kbd_buf, kbd_head, kbd_tail, dropped>>
modifiers == <<shift, caps, ctrl>>
reader == <<pc, c, delivered>>

Init ==
    /\ kbd_buf = [i \in Slots |-> None]
    /\ kbd_head = 0 /\ kbd_tail = 0 /\ dropped = FALSE
    /\ shift = FALSE /\ caps = FALSE /\ ctrl = FALSE
    /\ pc = "frame" /\ c = None /\ delivered = None
----------------------------------------------------------------------------
\* A fault: an index that does not wrap.
NextSlotLinear(i) == i + 1

NextSlot(i) == (i + 1) % KBD_BUF_SIZE

\* A fault: the buffer overwrites itself when it is full.
PushOver(char) ==
    /\ kbd_buf' = [kbd_buf EXCEPT ![kbd_head] = char]
    /\ kbd_head' = NextSlot(kbd_head)
    /\ dropped' = FALSE
    /\ UNCHANGED kbd_tail

\* The character is dropped when the buffer is full.
kbd_push(char) ==
    IF NextSlot(kbd_head) = kbd_tail
    THEN dropped' = TRUE /\ UNCHANGED <<kbd_buf, kbd_head, kbd_tail>>
    ELSE /\ kbd_buf' = [kbd_buf EXCEPT ![kbd_head] = char]
         /\ kbd_head' = NextSlot(kbd_head)
         /\ dropped' = FALSE
         /\ UNCHANGED kbd_tail

\* The two case corrections that follow the choice of the map (lines 50 and
\* 51) never apply: the map chosen already has the letter's final case.
Translate(k) == IF shift # caps THEN k.shifted ELSE k.plain

KeyDown(k) ==
    /\ LET char == Translate(k)
       IN  IF char = None THEN UNCHANGED driver
           ELSE IF ctrl /\ k.control # None THEN kbd_push(k.control)
           ELSE kbd_push(char)
    /\ UNCHANGED modifiers

Ctrl(down) == ctrl' = down /\ UNCHANGED <<shift, caps, driver>>
Shift(down) == shift' = down /\ UNCHANGED <<caps, ctrl, driver>>
CapsLock == caps' = ~caps /\ UNCHANGED <<shift, ctrl, driver>>

\* The release of any other key returns without an effect.
keyboard_irq ==
    /\ \/ \E down \in BOOLEAN : Ctrl(down) \/ Shift(down)
       \/ CapsLock
       \/ \E k \in Keys : KeyDown(k)
    /\ UNCHANGED reader
----------------------------------------------------------------------------
\* keyboard_try_read, called from the loop in kernel_idle.
TestEmpty ==
    /\ pc = "test"
    /\ pc' = IF kbd_head = kbd_tail THEN "frame" ELSE "read"
    /\ UNCHANGED <<driver, modifiers, c, delivered>>

ReadSlot ==
    /\ pc = "read"
    /\ c' = kbd_buf[kbd_tail]
    /\ pc' = "advance"
    /\ UNCHANGED <<driver, modifiers, delivered>>

Advance ==
    /\ pc = "advance"
    /\ kbd_tail' = NextSlot(kbd_tail)
    /\ delivered' = c
    /\ pc' = "dispatch"
    /\ UNCHANGED <<kbd_buf, kbd_head, dropped, modifiers, c>>

\* kernel_idle acts on the character and tries again.  A fault: it goes on
\* with the frame after one character.
DispatchOne ==
    /\ pc = "dispatch"
    /\ pc' = "frame"
    /\ UNCHANGED <<driver, modifiers, c, delivered>>

Dispatch ==
    /\ pc = "dispatch"
    /\ pc' = "test"
    /\ UNCHANGED <<driver, modifiers, c, delivered>>
----------------------------------------------------------------------------
KeyLoop == {"test", "read", "advance", "dispatch"}

KeyboardTypeOK ==
    /\ kbd_buf \in [Slots -> Chars \cup {None}]
    /\ kbd_head \in Slots /\ kbd_tail \in Slots
    /\ dropped \in BOOLEAN
    /\ shift \in BOOLEAN /\ caps \in BOOLEAN /\ ctrl \in BOOLEAN
    /\ c \in Chars \cup {None} /\ delivered \in Chars \cup {None}

\* The characters waiting between tail and head.
Pending ==
    [i \in 1 .. (kbd_head - kbd_tail) % KBD_BUF_SIZE |->
        kbd_buf[(kbd_tail + i - 1) % KBD_BUF_SIZE]]

Queue == INSTANCE BoundedQueue
             WITH Items <- Accepted, Capacity <- KBD_BUF_SIZE - 1,
                  queue <- Pending, refused <- dropped

(***************************************************************************)
(* The ring buffer, shared without a lock by kbd_push (keyboard.c:28) and  *)
(* keyboard_try_read (keyboard.c:80), is a first-in first-out queue of     *)
(* KBD_BUF_SIZE - 1 characters: wherever the interrupt falls, a press is   *)
(* dropped only when the buffer is full, no accepted character is lost,    *)
(* repeated, reordered or overwritten while it is read, and every one of   *)
(* them reaches the main loop in the end.                                  *)
(***************************************************************************)
ImplementsQueue == Queue!Spec

=============================================================================
