-------------------------------- MODULE Boot --------------------------------
(***************************************************************************)
(* kernel_main of kernel/core/main.c as far as it deals in physical        *)
(* memory, and the frames that follow: the memory manager and its other    *)
(* clients, the framebuffer, the performance profile, and the processor's  *)
(* view of it all, in which only the first GiB is mapped (boot.asm:65).    *)
(*                                                                         *)
(* Of desktop_render (desktop.c:308) this is kept: it paints the wallpaper *)
(* and, below that, the taskbar, draws under or over the taskbar, and      *)
(* presents the result.                                                    *)
(***************************************************************************)
EXTENDS Framebuffer, Adaptive

CONSTANTS
    MAPPED,     \* 1 GiB: the end of the identity mapping
    Nothing,    \* no operation
    TASKBAR_H,  \* the height of the taskbar
    COL_DESK,   \* the colours of the wallpaper and of the taskbar
    COL_TASKBAR

VARIABLES
    pc,         \* where kernel_main is; "panic" in kpanic, and "wild" after
                \* the kernel's own data were overwritten
    asked       \* history: the operation of the frame that is not presented

bootVars == <<vars, fbVars, adaptiveVars, pc, asked>>
Dead == {"panic", "wild"}

BootInit ==
    /\ Init
    /\ fb = NoFb /\ pixels = <<>> /\ back = <<>>
    /\ profile = "unset" /\ cpu \in Cpus
    /\ pc = "pmm" /\ asked = Nothing

\* Whether memory can be touched: elsewhere the processor faults, and
\* isr_dispatch (idt.c:105) calls kpanic.
Mapped(addr, len) == addr + len <= MAPPED

InitMemory ==
    /\ pc = "pmm"
    /\ \E m \in Maps \cup {NoMap} : pmm_init(m)
    /\ pc' = "fb"
    /\ UNCHANGED <<fbVars, adaptiveVars, asked>>

\* A framebuffer is not RAM.
Disjoint(tag) ==
    (tag # NoTag /\ mmap # NoMap) =>
        \A e \in mmap : e.available =>
            e.addr + e.len <= tag.addr \/ tag.addr + tag.pitch * tag.height <= e.addr

InitFront ==
    /\ pc = "fb"
    /\ \E tag \in Tags \cup {NoTag} : Disjoint(tag) /\ FbFront(tag)
    /\ pc' = "back"
    /\ UNCHANGED <<adaptiveVars, asked>>

InitBack ==
    /\ pc = "back"
    /\ FbBack
    /\ pc' = IF fb'.double_buffered /\ ~Mapped(fb'.back, Bytes(fb')) THEN "panic"
             ELSE "adaptive"
    /\ UNCHANGED <<adaptiveVars, asked>>

InitProfile ==
    /\ pc = "adaptive"
    /\ adaptive_init
    /\ pc' = "frame"
    /\ UNCHANGED <<fbVars, asked>>
----------------------------------------------------------------------------
\* The allocations of the framebuffer, which it keeps.
FbOwned ==
    {a \in owned : \/ fb.from = "ram" /\ a.page * PAGE = fb.addr
                   \/ fb.double_buffered /\ a.page * PAGE = fb.back}

\* The other clients, from vfs_init on: the heap and the programs.  They use
\* what they get (heap_add_region, pe_run), and thereby fault if it is not
\* mapped.
Clients ==
    /\ pc = "frame"
    /\ \/ \E c \in Counts : pmm_alloc_pages(c)
       \/ \E a \in owned \ FbOwned : Release(a)
       \/ \E p \in Pages, c \in Counts : ReleaseAgain(p, c)
    /\ pc' = IF \A a \in owned' \ owned : Mapped(a.page * PAGE, a.count * PAGE) THEN pc
             ELSE "panic"
    /\ UNCHANGED <<fbVars, adaptiveVars, asked>>

\* What becomes of a call that touches the memory of a surface.
Touch(addr, room, then) ==
    pc' = IF ~Mapped(addr, Bytes(fb)) THEN "panic"
          ELSE IF room < Bytes(fb) THEN "wild"
          ELSE then

DrawStep(op, then) ==
    /\ IF fb.double_buffered THEN Touch(fb.back, PageUp(Bytes(fb)) * PAGE, then)
       ELSE Touch(fb.addr, Room(fb), then)
    /\ IF pc' \in Dead THEN UNCHANGED fbVars ELSE DrawOp(op)
    /\ UNCHANGED <<vars, adaptiveVars>>

\* Rows of the screen in one colour.
Band(y, h, colour) == [kind |-> "fill", x |-> 0, y |-> y, w |-> fb.width, h |-> h,
                       colour |-> colour]

draw_wallpaper ==
    /\ pc = "frame"
    /\ DrawStep(Band(0, Unsigned(fb.height - TASKBAR_H), COL_DESK), "under")
    /\ UNCHANGED asked

draw_taskbar ==
    /\ \E step \in {<<"under", "over">>, <<"bar", "present">>} :
          /\ pc = step[1]
          /\ DrawStep(Band(fb.height - TASKBAR_H, TASKBAR_H, COL_TASKBAR), step[2])
    /\ UNCHANGED asked

\* What else is on the screen, under the taskbar or over it.
Decorate ==
    \E step \in {<<"under", "bar">>, <<"over", "present">>}, op \in Ops :
        pc = step[1] /\ DrawStep(op, step[2]) /\ asked' = op

Present ==
    /\ pc = "present"
    /\ IF fb.double_buffered THEN Touch(fb.addr, Room(fb), "frame") ELSE pc' = "frame"
    /\ IF pc' \in Dead THEN UNCHANGED fbVars ELSE fb_swap
    /\ asked' = IF pc' \in Dead THEN asked ELSE Nothing
    /\ UNCHANGED <<vars, adaptiveVars>>

\* kpanic halts for good.
Halt == pc \in Dead /\ UNCHANGED bootVars

desktop_render == draw_wallpaper \/ draw_taskbar \/ Decorate \/ Present

BootNext ==
    \/ InitMemory \/ InitFront \/ InitBack \/ InitProfile
    \/ Clients \/ desktop_render \/ Halt

BootSpec == BootInit /\ [][BootNext]_bootVars
----------------------------------------------------------------------------
Up == pc \notin {"pmm", "fb", "back"}
Target == IF fb.double_buffered THEN back ELSE pixels

Promised == INSTANCE Canvas
    WITH Sizes <- {<<SoftWidth, SoftHeight>>} \cup {<<t.width, t.height>> : t \in Tags},
         Bar <- TASKBAR_H, Sky <- COL_DESK, Ground <- COL_TASKBAR,
         canvas <- IF Up THEN Picture(Target) ELSE <<>>,
         shown <- IF Up THEN Picture(pixels) ELSE <<>>,
         direct <- Up /\ ~fb.double_buffered

(***************************************************************************)
(* Drawing on linear memory with a pitch, one unsigned comparison per      *)
(* coordinate and a step-by-step line is painting on a picture that cuts   *)
(* off at its edges (framebuffer.c:175): no primitive reaches a point, a   *)
(* row or a surface it was not asked to, wherever it starts, and fb_swap   *)
(* (framebuffer.c:282) shows the whole of the last frame and nothing of    *)
(* the next one, whatever the memory manager had left for the surfaces.    *)
(***************************************************************************)
ImplementsCanvas == Promised!Spec

(***************************************************************************)
(* "Linear framebuffer + double buffering + software compositor"           *)
(* (README.md:68), under "What works": whatever tag the boot loader hands  *)
(* over and whatever memory there is, frames are drawn and presented       *)
(* without a fault and without touching memory that is not the surface's.  *)
(***************************************************************************)
FramesPresented == pc \notin Dead
=============================================================================
