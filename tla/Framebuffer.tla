---------------------------- MODULE Framebuffer ----------------------------
(***************************************************************************)
(* The framebuffer, drivers/framebuffer/framebuffer.c, on top of the       *)
(* physical memory manager: where fb_init puts the two surfaces, what the  *)
(* drawing primitives do to the one they draw on, and fb_swap.             *)
(*                                                                         *)
(* Lengths, pitch and addresses count in pixels of four bytes; a surface   *)
(* is its memory, a function from offsets to colours, so that a point that *)
(* is not cut off where it should be lands in another row.  Of a glyph     *)
(* only its points are kept.                                               *)
(***************************************************************************)
EXTENDS PMM, Shapes, SequencesExt

CONSTANTS
    Tags,        \* the framebuffer tags of the boot loader: [type, bpp,
                 \* addr, width, height, pitch]
    NoTag,       \* there is none
    SoftWidth, SoftHeight,   \* 1280, 720
    FallbackWords,           \* 80 * 25, the size of g_fallback
    Unknown,     \* the colour of memory nobody wrote
    Black,       \* colour 0
    U32          \* 2^32

ASSUME SurfaceAssumption ==
    /\ SoftWidth \in Nat \ {0} /\ SoftHeight \in Nat \ {0}
    /\ \A t \in Tags : t.width <= t.pitch /\ t.height # 0 /\ t.width # 0
    /\ NoTag \notin Tags

\* The sizes of surfaces are among those the clients of the PMM ask for.
ASSUME SurfaceCounts ==
    /\ PageUp(SoftWidth * SoftHeight) \in Counts
    /\ \A t \in Tags : PageUp(t.pitch * t.height) \in Counts

VARIABLES
    fb,      \* g_fb: [from, addr, back, width, height, pitch, double_buffered],
             \* where `from' tells the three origins of g_fb.pixels
    pixels,  \* the memory at g_fb.pixels
    back     \* the memory at g_fb.back

fbVars == <<fb, pixels, back>>

Origins == {"none", "tag", "ram", "fallback"}
NoFb == [from |-> "none", addr |-> 0, back |-> 0, width |-> 0, height |-> 0, pitch |-> 0,
         double_buffered |-> FALSE]

Bytes(f) == f.pitch * f.height
Offsets(f) == 0 .. Bytes(f) - 1
Surface(f, colour) == [o \in Offsets(f) |-> colour]
----------------------------------------------------------------------------
\* fb_init up to the double buffer.  A tag counts when it is a linear one of
\* 32 bits; without it the surface is memory of the PMM, or g_fallback.
Usable(tag) == tag # NoTag /\ tag.type = 1 /\ tag.bpp = 32

Soft(from, addr) ==
    [NoFb EXCEPT !.from = from, !.addr = addr, !.width = SoftWidth, !.height = SoftHeight,
                 !.pitch = SoftWidth]

SoftPages == PageUp(Bytes(Soft("ram", 0)))
NoRoom(count) == \A p \in Pages : ~Fits(p, count)

FbFront(tag) ==
    /\ \/ /\ Usable(tag)
          /\ fb' = [NoFb EXCEPT !.from = "tag", !.addr = tag.addr, !.width = tag.width,
                                !.height = tag.height, !.pitch = tag.pitch]
          /\ UNCHANGED vars
       \/ /\ ~Usable(tag)
          /\ pmm_alloc_pages(SoftPages)
          /\ \E a \in owned' \ owned : fb' = Soft("ram", a.page * PAGE)
       \/ /\ ~Usable(tag)
          /\ NoRoom(SoftPages)
          /\ fb' = Soft("fallback", 0)
          /\ UNCHANGED vars
    /\ pixels' = Surface(fb', Unknown)
    /\ UNCHANGED back

\* The double buffer, cleared, or the surface itself.
BackPages(f) == PageUp(Bytes(f))

FbBack ==
    /\ \/ /\ pmm_alloc_pages(BackPages(fb))
          /\ \E a \in owned' \ owned :
                fb' = [fb EXCEPT !.back = a.page * PAGE, !.double_buffered = TRUE]
          /\ back' = Surface(fb, Black)
       \/ /\ NoRoom(BackPages(fb))
          /\ fb' = [fb EXCEPT !.back = fb.addr]
          /\ UNCHANGED <<vars, back>>
    /\ UNCHANGED pixels
----------------------------------------------------------------------------
\* fb_row and fb_put_pixel.  One unsigned comparison cuts off both sides.
Unsigned(i) == i % U32

\* A fault: only the right and the lower edge are looked at.
ClippedFar(x, y) == x >= fb.width \/ y >= fb.height

Clipped(x, y) == Unsigned(x) >= fb.width \/ Unsigned(y) >= fb.height
Offset(p) == p[2] * fb.pitch + p[1]

\* The surface after fb_put_pixel for every point of `dots', a function from
\* points to colours.
fb_put_pixels(surface, dots) ==
    [o \in DOMAIN surface |->
        LET hit == {p \in DOMAIN dots : ~Clipped(p[1], p[2]) /\ Offset(p) = o}
        IN  IF hit = {} THEN surface[o] ELSE dots[CHOOSE p \in hit : TRUE]]

fb_clear(colour) == One((0 .. fb.width - 1) \X (0 .. fb.height - 1), colour)

Area(x, y, w, h) == {<<x + i, y + j>> : i \in 0 .. w - 1, j \in 0 .. h - 1}

fb_fill_rect(x, y, w, h, colour) == One(Area(x, y, w, h), colour)

fb_draw_rect(x, y, w, h, colour) ==
    One(UNION {{<<x + i, y>>, <<x + i, y + h - 1>>} : i \in 0 .. w - 1}
        \cup UNION {{<<x, y + j>>, <<x + w - 1, y + j>>} : j \in 0 .. h - 1}, colour)

\* One turn of the loop of fb_draw_line.
LineStep(s, dx, dy, sx, sy) ==
    LET e2 == 2 * s.err
    IN  [x |-> IF e2 >= dy THEN s.x + sx ELSE s.x,
         y |-> IF e2 <= dx THEN s.y + sy ELSE s.y,
         err |-> s.err + (IF e2 >= dy THEN dy ELSE 0) + (IF e2 <= dx THEN dx ELSE 0)]

\* The turns of the loop, up to the one that reaches the end of the line.
fb_draw_line(x0, y0, x1, y1, colour) ==
    LET dx == IF x1 > x0 THEN x1 - x0 ELSE x0 - x1
        sx == IF x0 < x1 THEN 1 ELSE -1
        dy == IF y1 > y0 THEN y0 - y1 ELSE y1 - y0
        sy == IF y0 < y1 THEN 1 ELSE -1
        turn[n \in Nat] == IF n = 0 THEN [x |-> x0, y |-> y0, err |-> dx + dy]
                           ELSE LineStep(turn[n - 1], dx, dy, sx, sy)
        last == Min({n \in 0 .. dx - dy : turn[n].x = x1 /\ turn[n].y = y1})
    IN  One({<<turn[n].x, turn[n].y>> : n \in 0 .. last}, colour)

in_rounded_corner(px, py, x, y, w, h, r) ==
    LET cx == IF px < x + r THEN x + r ELSE x + w - r - 1
        cy == IF py < y + r THEN y + r ELSE y + h - r - 1
    IN  \/ ~(px < x + r \/ px >= x + w - r)
        \/ ~(py < y + r \/ py >= y + h - r)
        \/ (px - cx) * (px - cx) + (py - cy) * (py - cy) <= r * r

fb_fill_rounded_rect(x, y, w, h, r, colour) ==
    IF r <= 0 THEN fb_fill_rect(x, y, w, h, colour)
    ELSE One({p \in Area(x, y, w, h) : in_rounded_corner(p[1], p[2], x, y, w, h, r)}, colour)

fb_blit(x, y, w, h, src) ==
    [p \in Area(x, y, w, h) |-> src[<<p[1] - x, p[2] - y>>]]

fb_draw_char(x, y, char, fg, bg) ==
    LET ink   == {<<x + g[1], y + g[2]>> : g \in Glyph(char)}
        cells == Area(x, y, CELL, CELL)
    IN  [p \in IF bg = Transparent THEN ink ELSE cells |-> IF p \in ink THEN fg ELSE bg]

fb_draw_string(x, y, text, fg, bg, surface) ==
    FoldLeft(LAMBDA s, char :
                 IF char = NewLine THEN [s EXCEPT !.cx = x, !.y = @ + LINE]
                 ELSE [cx |-> s.cx + CELL, y |-> s.y,
                       to |-> fb_put_pixels(s.to, fb_draw_char(s.cx, s.y, char, fg, bg))],
             [cx |-> x, y |-> y, to |-> surface], text).to
----------------------------------------------------------------------------
\* The surface after one call of a primitive.
Drawn(surface, op) ==
    CASE op.kind = "clear" -> fb_put_pixels(surface, fb_clear(op.colour))
      [] op.kind = "fill"  ->
            fb_put_pixels(surface, fb_fill_rect(op.x, op.y, op.w, op.h, op.colour))
      [] op.kind = "frame" ->
            fb_put_pixels(surface, fb_draw_rect(op.x, op.y, op.w, op.h, op.colour))
      [] op.kind = "round" ->
            fb_put_pixels(surface,
                          fb_fill_rounded_rect(op.x, op.y, op.w, op.h, op.r, op.colour))
      [] op.kind = "line"  ->
            fb_put_pixels(surface, fb_draw_line(op.x0, op.y0, op.x1, op.y1, op.colour))
      [] op.kind = "image" ->
            fb_put_pixels(surface, fb_blit(op.x, op.y, op.w, op.h, op.image))
      [] op.kind = "text"  -> fb_draw_string(op.x, op.y, op.text, op.colour, op.bg, surface)

\* Drawing goes to the double buffer if there is one.
DrawOp(op) ==
    /\ IF fb.double_buffered
       THEN back' = Drawn(back, op) /\ UNCHANGED pixels
       ELSE pixels' = Drawn(pixels, op) /\ UNCHANGED back
    /\ UNCHANGED fb

fb_swap ==
    /\ pixels' = IF fb.double_buffered THEN back ELSE pixels
    /\ UNCHANGED <<fb, back>>
----------------------------------------------------------------------------
\* The points of a surface.
Picture(surface) ==
    [p \in (0 .. fb.width - 1) \X (0 .. fb.height - 1) |-> surface[Offset(p)]]

\* The memory that belongs to the surface at g_fb.pixels.
Room(f) == CASE f.from = "tag"      -> Bytes(f)
             [] f.from = "ram"      -> PageUp(Bytes(f)) * PAGE
             [] f.from = "fallback" -> FallbackWords
             [] OTHER               -> 0
=============================================================================
