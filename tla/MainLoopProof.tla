--------------------------- MODULE MainLoopProof ---------------------------
(***************************************************************************)
(* The main loop's keys, for a ring buffer of any size, any keys and any   *)
(* frame rate: the state has its types, no key lags, and the buffer takes  *)
(* only the steps of a bounded queue.                                      *)
(*                                                                         *)
(* KeysInTime is not inductive.  It holds because the loop leaves the keys *)
(* only when head and tail meet, and then nothing is waiting, in           *)
(* particular none of the older characters: these are always among the     *)
(* waiting ones (Behind), which needs that a character is there when the   *)
(* reader, interrupted at will, moves the tail (HasNext).  That it hands   *)
(* over the first character needs that a press between its read and its    *)
(* move of the tail does not touch the slot it has read (HasRead).         *)
(***************************************************************************)
EXTENDS MainLoop, TLAPS

\* The number of characters between tail and head.
Waiting(head, tail) == (head - tail) % KBD_BUF_SIZE

Behind == older <= Waiting(kbd_head, kbd_tail)
HasNext == pc \in {"read", "advance"} => kbd_head # kbd_tail
HasRead == pc = "advance" => c = kbd_buf[kbd_tail]

\* The parts of the type invariant.
Flags == dropped \in BOOLEAN /\ shift \in BOOLEAN /\ caps \in BOOLEAN /\ ctrl \in BOOLEAN
Buffer == /\ kbd_buf \in [Slots -> Chars \cup {None}]
          /\ kbd_head \in Slots /\ kbd_tail \in Slots
Reader == /\ c \in Chars \cup {None} /\ delivered \in Chars \cup {None}
          /\ pc \in KeyLoop \cup {"frame", "wait"}
Clock == elapsed \in 0 .. ELAPSED_MAX
Counted == older \in Nat

IInv == /\ Flags /\ Buffer /\ Reader /\ Clock /\ Counted
        /\ Behind /\ HasNext /\ HasRead /\ KeysInTime
----------------------------------------------------------------------------
\* The distance of two slots on the ring, without the remainder.
LEMMA RingDistance ==
    ASSUME NEW i \in Slots, NEW j \in Slots
    PROVE  /\ i >= j => Waiting(i, j) = i - j
           /\ i < j => Waiting(i, j) = i - j + KBD_BUF_SIZE
<1>1. \A S \in Nat : S > 1 =>
        \A a, b \in 0 .. S - 1 : /\ a >= b => (a - b) % S = a - b
                                 /\ a < b => (a - b) % S = a - b + S
  OBVIOUS
<1> QED
  BY <1>1, SizeAssumption DEF Slots, Waiting

\* The next slot, without the remainder.
LEMMA RingNext ==
    ASSUME NEW i \in Slots
    PROVE  NextSlot(i) = IF i = KBD_BUF_SIZE - 1 THEN 0 ELSE i + 1
<1>1. \A S \in Nat : S > 1 =>
        \A a \in 0 .. S - 1 : (a + 1) % S = IF a = S - 1 THEN 0 ELSE a + 1
  OBVIOUS
<1> QED
  BY <1>1, SizeAssumption DEF Slots, NextSlot

\* What waiting, putting and taking do to the distance.
LEMMA RingMoves ==
    ASSUME NEW head \in Slots, NEW tail \in Slots
    PROVE  /\ NextSlot(head) \in Slots
           /\ Waiting(head, tail) \in 0 .. KBD_BUF_SIZE - 1
           /\ head = tail => Waiting(head, tail) = 0
           /\ NextSlot(head) # tail => Waiting(NextSlot(head), tail) = Waiting(head, tail) + 1
           /\ head # tail => Waiting(head, NextSlot(tail)) = Waiting(head, tail) - 1
<1>1. NextSlot(head) \in Slots /\ NextSlot(tail) \in Slots
  BY RingNext, SizeAssumption DEF Slots
<1>2. Waiting(head, tail) \in 0 .. KBD_BUF_SIZE - 1 /\ (head = tail => Waiting(head, tail) = 0)
  BY RingDistance, SizeAssumption DEF Slots
<1>3. ASSUME NextSlot(head) # tail
      PROVE  Waiting(NextSlot(head), tail) = Waiting(head, tail) + 1
  <2> DEFINE next == NextSlot(head)
  <2>1. next = IF head = KBD_BUF_SIZE - 1 THEN 0 ELSE head + 1
    BY RingNext
  <2>2. /\ next >= tail => Waiting(next, tail) = next - tail
        /\ next < tail => Waiting(next, tail) = next - tail + KBD_BUF_SIZE
    BY <1>1, RingDistance
  <2>3. /\ head >= tail => Waiting(head, tail) = head - tail
        /\ head < tail => Waiting(head, tail) = head - tail + KBD_BUF_SIZE
    BY RingDistance
  <2> HIDE DEF next
  <2>4. Waiting(next, tail) = Waiting(head, tail) + 1
    BY <1>3, <2>1, <2>2, <2>3, SizeAssumption DEF Slots, next
  <2> QED
    BY <2>4 DEF next
<1>4. ASSUME head # tail
      PROVE  Waiting(head, NextSlot(tail)) = Waiting(head, tail) - 1
  <2>1. NextSlot(tail) = IF tail = KBD_BUF_SIZE - 1 THEN 0 ELSE tail + 1
    BY RingNext
  <2>2. /\ head >= NextSlot(tail) => Waiting(head, NextSlot(tail)) = head - NextSlot(tail)
        /\ head < NextSlot(tail) =>
              Waiting(head, NextSlot(tail)) = head - NextSlot(tail) + KBD_BUF_SIZE
    BY <1>1, RingDistance
  <2>3. /\ head >= tail => Waiting(head, tail) = head - tail
        /\ head < tail => Waiting(head, tail) = head - tail + KBD_BUF_SIZE
    BY RingDistance
  <2> QED
    BY <1>4, <2>1, <2>2, <2>3, SizeAssumption DEF Slots
<1> QED
  BY <1>1, <1>2, <1>3, <1>4

\* The characters waiting, as a sequence, are as many.
LEMMA PendingLength ==
    ASSUME kbd_head \in Slots, kbd_tail \in Slots
    PROVE  Len(Pending) = Waiting(kbd_head, kbd_tail)
<1>1. Waiting(kbd_head, kbd_tail) \in Nat
  BY RingMoves, SizeAssumption
<1> QED
  BY <1>1 DEF Pending, Waiting

\* The invariant is stronger than the properties.
LEMMA InvTypes == IInv => TypeOK
<1> SUFFICES ASSUME IInv PROVE TypeOK
  OBVIOUS
<1>1. older \in 0 .. KBD_BUF_SIZE - 1
  BY RingMoves, SizeAssumption DEF IInv, Buffer, Counted, Behind
<1> QED
  BY <1>1, Zenon DEF IInv, Flags, Buffer, Reader, Clock, TypeOK, KeyboardTypeOK

\* Boot starts with an empty buffer.
LEMMA LoopInitInv == LoopInit => IInv
<1> SUFFICES ASSUME LoopInit PROVE IInv
  OBVIOUS
<1>1. 0 \in Slots /\ Waiting(0, 0) = 0
  BY RingMoves, SizeAssumption DEF Slots
<1>2. Flags
  BY Zenon DEF LoopInit, Init, Flags
<1>3. Buffer /\ Reader /\ Clock /\ Counted
  BY <1>1, ClockAssumption DEF LoopInit, Init, Buffer, Reader, Clock, Counted, KeyLoop
<1>4. Behind /\ HasNext /\ HasRead /\ KeysInTime
  BY <1>1 DEF LoopInit, Init, Behind, HasNext, HasRead, KeysInTime
<1> QED
  BY <1>2, <1>3, <1>4, Zenon DEF IInv

\* A press is taken into the buffer or dropped; nothing that waits goes.
LEMMA PushKeeps ==
    ASSUME Buffer, NEW char \in Chars, kbd_push(char)
    PROVE  /\ Buffer' /\ dropped' \in BOOLEAN
           /\ kbd_tail' = kbd_tail
           /\ Waiting(kbd_head, kbd_tail) <= Waiting(kbd_head', kbd_tail)
           /\ kbd_head # kbd_tail =>
                 kbd_head' # kbd_tail /\ kbd_buf'[kbd_tail] = kbd_buf[kbd_tail]
<1>1. dropped' \in BOOLEAN
  BY Zenon DEF kbd_push
<1>2. CASE NextSlot(kbd_head) = kbd_tail
  <2>1. UNCHANGED <<kbd_buf, kbd_head, kbd_tail>>
    BY <1>2, Zenon DEF kbd_push
  <2> QED
    BY <1>1, <2>1, RingMoves, SizeAssumption DEF Buffer
<1>3. CASE NextSlot(kbd_head) # kbd_tail
  <2>1. /\ kbd_buf' = [kbd_buf EXCEPT ![kbd_head] = char]
        /\ kbd_head' = NextSlot(kbd_head) /\ kbd_tail' = kbd_tail
    BY <1>3, Zenon DEF kbd_push
  <2>2. Buffer'
    BY <2>1, RingMoves DEF Buffer
  <2>3. Waiting(kbd_head', kbd_tail) = Waiting(kbd_head, kbd_tail) + 1
    BY <1>3, <2>1, RingMoves DEF Buffer
  <2>4. Waiting(kbd_head, kbd_tail) \in Nat
    BY RingMoves, SizeAssumption DEF Buffer
  <2>5. kbd_head # kbd_tail => kbd_buf'[kbd_tail] = kbd_buf[kbd_tail]
    BY <2>1 DEF Buffer
  <2> QED
    BY <1>1, <1>3, <2>1, <2>2, <2>3, <2>4, <2>5
<1> QED
  BY <1>2, <1>3
----------------------------------------------------------------------------
\* A keyboard interrupt, wherever it falls.
LEMMA KeyboardKeeps ==
    ASSUME IInv, keyboard_irq, UNCHANGED <<elapsed, older>>
    PROVE  IInv'
<1>1. UNCHANGED <<pc, c, delivered, elapsed, older>>
  BY DEF keyboard_irq, reader
<1>2. /\ Buffer' /\ dropped' \in BOOLEAN /\ kbd_tail' = kbd_tail
      /\ Waiting(kbd_head, kbd_tail) <= Waiting(kbd_head', kbd_tail)
      /\ kbd_head # kbd_tail =>
            kbd_head' # kbd_tail /\ kbd_buf'[kbd_tail] = kbd_buf[kbd_tail]
  <2>1. CASE UNCHANGED driver
    <3>1. dropped' \in BOOLEAN
      BY <2>1, Zenon DEF driver, IInv, Flags
    <3>2. UNCHANGED <<kbd_buf, kbd_head, kbd_tail>>
      BY <2>1 DEF driver
    <3>3. Waiting(kbd_head, kbd_tail) \in Nat
      BY RingMoves, SizeAssumption DEF IInv, Buffer
    <3>4. Waiting(kbd_head, kbd_tail) <= Waiting(kbd_head', kbd_tail)
      BY <3>2, <3>3
    <3> QED
      BY <3>1, <3>2, <3>4 DEF IInv, Buffer
  <2>2. ASSUME NEW char \in Chars, kbd_push(char)
        PROVE  <1>2!1 /\ <1>2!2 /\ <1>2!3
    BY <2>2, PushKeeps DEF IInv
  <2>3. UNCHANGED driver \/ \E char \in Chars : kbd_push(char)
    BY DEF keyboard_irq, Ctrl, Shift, CapsLock, KeyDown, Translate, Chars, driver
  <2> QED
    BY <2>1, <2>2, <2>3
<1>3. Flags'
  <2>1. shift' \in BOOLEAN /\ caps' \in BOOLEAN /\ ctrl' \in BOOLEAN
    BY Zenon DEF IInv, Flags, keyboard_irq, Ctrl, Shift, CapsLock, KeyDown, modifiers
  <2> QED
    BY <1>2, <2>1, Zenon DEF Flags
<1>4. Reader' /\ Clock' /\ Counted' /\ HasNext' /\ HasRead' /\ KeysInTime'
  BY <1>1, <1>2 DEF IInv, Reader, Clock, Counted, HasNext, HasRead, KeysInTime
<1>5. Behind'
  <2>1. kbd_head \in Slots /\ kbd_tail \in Slots /\ kbd_head' \in Slots
    BY <1>2 DEF IInv, Buffer
  <2>2. Waiting(kbd_head, kbd_tail) \in Nat /\ Waiting(kbd_head', kbd_tail) \in Nat
    BY <2>1, RingMoves, SizeAssumption
  <2> QED
    BY <1>1, <1>2, <2>2 DEF IInv, Behind, Counted
<1> QED
  BY <1>2, <1>3, <1>4, <1>5, Zenon DEF IInv

\* The loop over the keys, step by step.
LEMMA ReadKeeps == ASSUME IInv, ReadKeys PROVE IInv'
<1>1. Flags'
  BY Zenon DEF IInv, Flags, ReadKeys, TestEmpty, ReadSlot, Advance, Dispatch, driver, modifiers
<1>2. UNCHANGED <<kbd_buf, kbd_head, elapsed>>
  BY DEF ReadKeys, TestEmpty, ReadSlot, Advance, Dispatch, driver
<1>3. Clock'
  BY <1>2 DEF IInv, Clock
<1>4. CASE TestEmpty
  <2>1. UNCHANGED <<kbd_tail, c, delivered, older>>
    BY <1>4 DEF TestEmpty, ReadKeys, driver
  <2>2. pc' = IF kbd_head = kbd_tail THEN "frame" ELSE "read"
    BY <1>4 DEF TestEmpty
  <2>3. kbd_head = kbd_tail => older = 0
    BY RingMoves DEF IInv, Buffer, Behind, Counted
  <2> QED
    BY <1>1, <1>2, <1>3, <2>1, <2>2, <2>3
    DEF IInv, Buffer, Reader, KeyLoop, Counted, Behind, HasNext, HasRead, KeysInTime
<1>5. CASE ReadSlot
  <2>1. /\ UNCHANGED <<kbd_tail, delivered, older>>
        /\ pc = "read" /\ pc' = "advance" /\ c' = kbd_buf[kbd_tail]
    BY <1>5 DEF ReadSlot, ReadKeys, driver
  <2> QED
    BY <1>1, <1>2, <1>3, <2>1
    DEF IInv, Buffer, Reader, KeyLoop, Counted, Behind, HasNext, HasRead, KeysInTime
<1>6. CASE Advance
  <2>1. /\ pc = "advance" /\ pc' = "dispatch" /\ kbd_tail' = NextSlot(kbd_tail)
        /\ delivered' = c /\ c' = c
    BY <1>6 DEF Advance
  <2>2. kbd_head # kbd_tail
    BY <2>1 DEF IInv, HasNext
  <2>3. kbd_tail' # kbd_tail /\ kbd_tail' \in Slots
    <3>1. kbd_tail \in Slots
      BY DEF IInv, Buffer
    <3>2. kbd_tail' = IF kbd_tail = KBD_BUF_SIZE - 1 THEN 0 ELSE kbd_tail + 1
      BY <2>1, <3>1, RingNext
    <3> QED
      BY <3>1, <3>2, SizeAssumption DEF Slots
  <2>4. older' = IF older > 0 THEN older - 1 ELSE older
    BY <2>3 DEF ReadKeys
  <2>5. Waiting(kbd_head, kbd_tail') = Waiting(kbd_head, kbd_tail) - 1
    BY <2>1, <2>2, RingMoves DEF IInv, Buffer
  <2>6. /\ Waiting(kbd_head, kbd_tail) \in Nat /\ Waiting(kbd_head, kbd_tail') \in Nat
    BY <2>3, RingMoves, SizeAssumption DEF IInv, Buffer
  <2>7. Counted' /\ Behind'
    BY <1>2, <2>4, <2>5, <2>6 DEF IInv, Behind, Counted
  <2> QED
    BY <1>1, <1>2, <1>3, <2>1, <2>3, <2>7
    DEF IInv, Buffer, Reader, KeyLoop, HasNext, HasRead, KeysInTime
<1>7. CASE Dispatch
  <2>1. /\ UNCHANGED <<kbd_tail, c, delivered, older>>
        /\ pc' = "test"
    BY <1>7 DEF Dispatch, ReadKeys, driver
  <2> QED
    BY <1>1, <1>2, <1>3, <2>1
    DEF IInv, Buffer, Reader, KeyLoop, Counted, Behind, HasNext, HasRead, KeysInTime
<1> QED
  BY <1>4, <1>5, <1>6, <1>7 DEF ReadKeys

\* The timer, the rest of the frame and the end of the wait.
LEMMA PaceKeeps == ASSUME IInv, timer_irq \/ Frame \/ WaitOver PROVE IInv'
<1>1. Flags'
  BY Zenon DEF IInv, Flags, timer_irq, Frame, WaitOver, driver, modifiers, vars
<1>2. UNCHANGED <<kbd_buf, kbd_head, kbd_tail, c, delivered>>
  BY DEF timer_irq, Frame, WaitOver, driver, vars
<1>3. CASE timer_irq
  <2>1. /\ pc' = pc /\ older' = older
        /\ elapsed' = IF pc = "wait" /\ elapsed < ELAPSED_MAX THEN elapsed + 1 ELSE elapsed
    BY <1>3 DEF timer_irq, vars
  <2>2. Clock'
    BY <2>1, ClockAssumption DEF IInv, Clock
  <2> QED
    BY <1>1, <1>2, <2>1, <2>2
    DEF IInv, Buffer, Reader, Counted, Behind, HasNext, HasRead, KeysInTime
<1>4. CASE Frame
  <2>1. pc' = "wait" /\ older' = Len(Pending) /\ elapsed' = 0
    BY <1>4 DEF Frame
  <2>2. older' = Waiting(kbd_head, kbd_tail) /\ older' \in Nat
    BY <2>1, PendingLength, RingMoves, SizeAssumption DEF IInv, Buffer
  <2> QED
    BY <1>1, <1>2, <2>1, <2>2, ClockAssumption
    DEF IInv, Buffer, Reader, KeyLoop, Clock, Counted, Behind, HasNext, HasRead, KeysInTime
<1>5. CASE WaitOver
  <2>1. pc' = "test" /\ older' = older /\ elapsed' = 0
    BY <1>5 DEF WaitOver
  <2> QED
    BY <1>1, <1>2, <2>1, ClockAssumption
    DEF IInv, Buffer, Reader, KeyLoop, Clock, Counted, Behind, HasNext, HasRead, KeysInTime
<1> QED
  BY <1>3, <1>4, <1>5

\* Every step keeps the invariant.
LEMMA StepKeeps == IInv /\ [LoopNext]_loopVars => IInv'
<1> SUFFICES ASSUME IInv, [LoopNext]_loopVars PROVE IInv'
  OBVIOUS
<1>1. CASE UNCHANGED loopVars
  <2>1. Flags'
    BY <1>1, Zenon DEF loopVars, vars, IInv, Flags
  <2> QED
    BY <1>1, <2>1
    DEF loopVars, vars, IInv, Buffer, Reader, Clock, Counted, Behind, HasNext, HasRead, KeysInTime
<1> QED
  BY <1>1, KeyboardKeeps, ReadKeeps, PaceKeeps DEF LoopNext, kernel_idle
----------------------------------------------------------------------------
\* The invariant holds throughout.
THEOREM LoopInvariance == LoopSpec => []IInv
BY LoopInitInv, StepKeeps, PTL DEF LoopSpec

(***************************************************************************)
(* The indices of the ring buffer stay in it (keyboard.c:28), the modifier *)
(* flags, the reader and the clock keep their types.                       *)
(***************************************************************************)
THEOREM TypeCorrect == LoopSpec => []TypeOK
BY LoopInvariance, InvTypes, PTL

(***************************************************************************)
(* No key lags (main.c:53), whatever the size of the buffer, the keys, the *)
(* frame rate and the moments at which interrupts fall.                    *)
(***************************************************************************)
THEOREM NoKeyLags == LoopSpec => []KeysInTime
<1>1. IInv => KeysInTime
  BY DEF IInv
<1> QED
  BY <1>1, LoopInvariance, PTL
----------------------------------------------------------------------------
(***************************************************************************)
(* The ring buffer as a queue.  On(tail, i) is the slot of the i-th        *)
(* character that waits.                                                   *)
(***************************************************************************)
On(tail, i) == (tail + i - 1) % KBD_BUF_SIZE

\* The slots on the way from tail to head: head follows the last of them,
\* and none of them is head.
LEMMA RingSlots ==
    ASSUME NEW head \in Slots, NEW tail \in Slots
    PROVE  /\ \A i \in 1 .. Waiting(head, tail) : On(tail, i) \in Slots \ {head}
           /\ On(tail, Waiting(head, tail) + 1) = head
           /\ On(tail, 1) = tail
           /\ \A i \in 1 .. Waiting(head, tail) : On(NextSlot(tail), i) = On(tail, i + 1)
<1>1. \A S \in Nat : S > 1 => \A a \in 0 .. S - 1 : \A i \in 1 .. S + 1 :
        (a + i - 1) % S = IF a + i - 1 < S THEN a + i - 1
                          ELSE IF a + i - 1 < 2 * S THEN a + i - 1 - S ELSE 0
  OBVIOUS
<1>2. \A a \in Slots : \A i \in 1 .. KBD_BUF_SIZE + 1 :
        On(a, i) = IF a + i - 1 < KBD_BUF_SIZE THEN a + i - 1
                   ELSE IF a + i - 1 < 2 * KBD_BUF_SIZE THEN a + i - 1 - KBD_BUF_SIZE ELSE 0
  BY <1>1, SizeAssumption DEF On, Slots
<1>3. /\ head >= tail => Waiting(head, tail) = head - tail
      /\ head < tail => Waiting(head, tail) = head - tail + KBD_BUF_SIZE
  BY RingDistance
<1>4. NextSlot(tail) = IF tail = KBD_BUF_SIZE - 1 THEN 0 ELSE tail + 1
  BY RingNext
<1>5. NextSlot(tail) \in Slots /\ Waiting(head, tail) \in 0 .. KBD_BUF_SIZE - 1
  BY RingMoves
<1>6. \A i \in 1 .. Waiting(head, tail) : On(tail, i) \in Slots \ {head}
  BY <1>2, <1>3, SizeAssumption DEF Slots
<1>7. On(tail, Waiting(head, tail) + 1) = head /\ On(tail, 1) = tail
  BY <1>2, <1>3, SizeAssumption DEF Slots
<1>8. \A i \in 1 .. Waiting(head, tail) : On(NextSlot(tail), i) = On(tail, i + 1)
  <2> TAKE i \in 1 .. Waiting(head, tail)
  <2>1. i \in 1 .. KBD_BUF_SIZE + 1 /\ i + 1 \in 1 .. KBD_BUF_SIZE + 1
    BY <1>5, SizeAssumption
  <2>2. On(NextSlot(tail), i) = IF NextSlot(tail) + i - 1 < KBD_BUF_SIZE THEN NextSlot(tail) + i - 1
                   ELSE IF NextSlot(tail) + i - 1 < 2 * KBD_BUF_SIZE
                        THEN NextSlot(tail) + i - 1 - KBD_BUF_SIZE ELSE 0
    BY <1>2, <1>5, <2>1
  <2>3. On(tail, i + 1) = IF tail + (i + 1) - 1 < KBD_BUF_SIZE THEN tail + (i + 1) - 1
                   ELSE IF tail + (i + 1) - 1 < 2 * KBD_BUF_SIZE
                        THEN tail + (i + 1) - 1 - KBD_BUF_SIZE ELSE 0
    BY <1>2, <2>1
  <2> QED
    BY <1>4, <1>5, <2>1, <2>2, <2>3, SizeAssumption DEF Slots
<1> QED
  BY <1>6, <1>7, <1>8

\* The characters that wait, by their slots.
LEMMA PendingSlots ==
    Pending = [i \in 1 .. Waiting(kbd_head, kbd_tail) |-> kbd_buf[On(kbd_tail, i)]]
BY DEF Pending, Waiting, On

\* kbd_push appends its character, or drops it when the buffer is full.
LEMMA PushPuts ==
    ASSUME Buffer, NEW char \in Accepted, kbd_push(char), delivered' = delivered
    PROVE  Queue!Refuse \/ Queue!Put(char)
<1> DEFINE n == Waiting(kbd_head, kbd_tail)
<1>1. n \in Nat /\ n < KBD_BUF_SIZE /\ Len(Pending) = n
  <2>1. Len(Pending) = n
    BY PendingLength DEF Buffer
  <2>2. n \in 0 .. KBD_BUF_SIZE - 1
    BY RingMoves DEF Buffer
  <2> QED
    BY <2>1, <2>2, SizeAssumption
<1>2. CASE NextSlot(kbd_head) = kbd_tail
  <2>1. UNCHANGED <<kbd_buf, kbd_head, kbd_tail>> /\ dropped' = TRUE
    BY <1>2, Zenon DEF kbd_push
  <2>2. Pending' = Pending
    BY <2>1 DEF Pending
  <2>3. n = KBD_BUF_SIZE - 1
    <3>1. kbd_tail = IF kbd_head = KBD_BUF_SIZE - 1 THEN 0 ELSE kbd_head + 1
      BY <1>2, RingNext DEF Buffer
    <3>2. /\ kbd_head >= kbd_tail => n = kbd_head - kbd_tail
          /\ kbd_head < kbd_tail => n = kbd_head - kbd_tail + KBD_BUF_SIZE
      BY RingDistance DEF Buffer
    <3> QED
      BY <3>1, <3>2, SizeAssumption DEF Buffer, Slots
  <2>4. Queue!Refuse
    BY <1>1, <2>1, <2>2, <2>3 DEF Queue!Refuse
  <2> QED
    BY <2>4
<1>3. CASE NextSlot(kbd_head) # kbd_tail
  <2>1. /\ kbd_buf' = [kbd_buf EXCEPT ![kbd_head] = char]
        /\ kbd_head' = NextSlot(kbd_head) /\ kbd_tail' = kbd_tail /\ dropped' = FALSE
    BY <1>3, Zenon DEF kbd_push
  <2>2. Waiting(kbd_head', kbd_tail') = n + 1 /\ kbd_head' \in Slots
    BY <1>3, <2>1, RingMoves DEF Buffer
  <2>3. n + 1 < KBD_BUF_SIZE
    BY <2>1, <2>2, RingMoves, SizeAssumption DEF Buffer
  <2>4. Pending' = [i \in 1 .. n + 1 |-> kbd_buf'[On(kbd_tail, i)]]
    <3>1. Pending' = [i \in 1 .. Waiting(kbd_head', kbd_tail') |-> kbd_buf'[On(kbd_tail', i)]]
      BY DEF Pending, Waiting, On
    <3>2. kbd_tail' = kbd_tail
      BY <2>1
    <3> HIDE DEF n
    <3> QED
      BY <2>2, <3>1, <3>2, Zenon
  <2>5. \A i \in 1 .. n : kbd_buf'[On(kbd_tail, i)] = kbd_buf[On(kbd_tail, i)]
    BY <2>1, RingSlots DEF Buffer
  <2>6. kbd_buf'[On(kbd_tail, n + 1)] = char
    BY <2>1, RingSlots DEF Buffer
  <2>7. Pending = [i \in 1 .. n |-> kbd_buf[On(kbd_tail, i)]]
    BY PendingSlots
  <2> HIDE DEF n
  <2>8. Pending' = Append(Pending, char)
    BY <1>1, <2>4, <2>5, <2>6, <2>7
  <2>9. Queue!Put(char)
    <3>1. Len(Pending) < KBD_BUF_SIZE - 1
      BY <1>1, <2>3, SizeAssumption
    <3> QED
      BY <2>1, <2>8, <3>1, Zenon DEF Queue!Put
  <2> QED
    BY <2>9
<1> QED
  BY <1>2, <1>3

\* keyboard_try_read takes the first character, the one it has read.
LEMMA AdvanceGets == ASSUME IInv, Advance PROVE Queue!Get
<1> DEFINE n == Waiting(kbd_head, kbd_tail)
<1>1. /\ kbd_tail' = NextSlot(kbd_tail) /\ delivered' = kbd_buf[kbd_tail]
      /\ UNCHANGED <<kbd_buf, kbd_head, dropped>>
      /\ kbd_head # kbd_tail /\ Buffer
  BY DEF Advance, IInv, HasNext, HasRead
<1>2. n \in Nat /\ Waiting(kbd_head, NextSlot(kbd_tail)) = n - 1
  BY <1>1, RingMoves, SizeAssumption DEF Buffer
<1>3. n > 0
  BY <1>1, <1>2, RingMoves, SizeAssumption DEF Buffer
<1>4. Pending = [i \in 1 .. n |-> kbd_buf[On(kbd_tail, i)]]
  BY PendingSlots
<1>5. Pending' = [i \in 1 .. n - 1 |-> kbd_buf[On(NextSlot(kbd_tail), i)]]
  <2>1. Pending' = [i \in 1 .. Waiting(kbd_head', kbd_tail') |-> kbd_buf'[On(kbd_tail', i)]]
    BY DEF Pending, Waiting, On
  <2> QED
    BY <1>1, <1>2, <2>1, Zenon
<1>6. /\ \A i \in 1 .. n : On(NextSlot(kbd_tail), i) = On(kbd_tail, i + 1)
      /\ On(kbd_tail, 1) = kbd_tail
  BY <1>1, RingSlots DEF Buffer
<1> HIDE DEF n
<1>7. Head(Pending) = kbd_buf[kbd_tail] /\ Pending # <<>>
  <2>1. Len(Pending) = n /\ 1 \in 1 .. n
    BY <1>2, <1>3, <1>4
  <2>2. Pending[1] = kbd_buf[kbd_tail]
    BY <1>4, <1>6, <2>1
  <2>3. Pending # <<>>
    BY <1>3, <2>1
  <2> QED
    BY <2>2, <2>3
<1>8. Tail(Pending) = [i \in 1 .. n - 1 |-> kbd_buf[On(kbd_tail, i + 1)]]
  BY <1>2, <1>3, <1>4
<1>9. Pending' = Tail(Pending)
  BY <1>2, <1>3, <1>5, <1>6, <1>8
<1> QED
  BY <1>1, <1>7, <1>9 DEF Queue!Get

\* Every step of the loop and of the interrupts is one of the queue, or none.
LEMMA StepQueues == IInv /\ [LoopNext]_loopVars => [Queue!Next]_(Queue!vars)
<1> SUFFICES ASSUME IInv, [LoopNext]_loopVars PROVE [Queue!Next]_(Queue!vars)
  OBVIOUS
<1>1. ASSUME UNCHANGED <<driver, delivered>> PROVE UNCHANGED Queue!vars
  BY <1>1 DEF driver, Pending, Queue!vars
<1>2. CASE UNCHANGED loopVars
  BY <1>1, <1>2 DEF loopVars, vars, driver
<1>3. CASE keyboard_irq
  <2>1. delivered' = delivered
    BY <1>3 DEF keyboard_irq, reader
  <2>2. UNCHANGED driver \/ \E char \in Accepted : kbd_push(char)
    BY <1>3 DEF keyboard_irq, Ctrl, Shift, CapsLock, KeyDown, Translate, Chars, Accepted, driver
  <2>3. ASSUME NEW char \in Accepted, kbd_push(char) PROVE Queue!Next
    BY <2>1, <2>3, PushPuts DEF IInv, Queue!Next
  <2> QED
    BY <1>1, <2>1, <2>2, <2>3
<1>4. CASE timer_irq \/ Frame \/ WaitOver \/ TestEmpty \/ ReadSlot \/ Dispatch
  <2>1. UNCHANGED <<driver, delivered>>
    BY <1>4 DEF timer_irq, Frame, WaitOver, TestEmpty, ReadSlot, Dispatch, vars, driver
  <2> QED
    BY <1>1, <2>1
<1>5. CASE Advance
  BY <1>5, AdvanceGets DEF Queue!Next
<1> QED
  BY <1>2, <1>3, <1>4, <1>5 DEF LoopNext, kernel_idle, ReadKeys

\* The buffer starts as an empty queue.
LEMMA InitQueues == LoopInit => Queue!Init
<1> SUFFICES ASSUME LoopInit PROVE Queue!Init
  OBVIOUS
<1>1. 0 \in Slots /\ Waiting(0, 0) = 0
  BY RingMoves, SizeAssumption DEF Slots
<1>2. kbd_head = 0 /\ kbd_tail = 0 /\ dropped = FALSE /\ delivered = None
  BY DEF LoopInit, Init
<1>3. Pending = [i \in 1 .. 0 |-> kbd_buf[On(kbd_tail, i)]]
  BY <1>1, <1>2, PendingSlots
<1>4. Pending = <<>>
  BY <1>3
<1> QED
  BY <1>2, <1>4 DEF Queue!Init, Accepted

\* The safety part of ImplementsQueue: all of it but the fairness of Get.
QueueSafety == Queue!Init /\ [][Queue!Next]_(Queue!vars)

(***************************************************************************)
(* The ring buffer that kbd_push (keyboard.c:28) and keyboard_try_read     *)
(* (keyboard.c:80) share without a lock is a first-in first-out queue of   *)
(* KBD_BUF_SIZE - 1 characters, whatever its size, the keys and the        *)
(* moments at which interrupts fall.                                       *)
(***************************************************************************)
THEOREM ImplementsQueueSafely == LoopSpec => QueueSafety
BY LoopInvariance, InitQueues, StepQueues, PTL DEF LoopSpec, QueueSafety
=============================================================================
