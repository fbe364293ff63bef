------------------------------- MODULE MCBoot -------------------------------
(***************************************************************************)
(* Boot on a bitmap of 16 pages of four units: a low page, a kernel that   *)
(* ends in the middle of page 2, an identity mapping that ends at page 15, *)
(* and maps whose entries start and end in the middle of pages, are        *)
(* separated by holes, lie beyond the bitmap or are reserved.  The         *)
(* surfaces are four by three; the tags are a framebuffer above the        *)
(* mapping, one below it, both with padded rows, and the text mode.        *)
(***************************************************************************)
EXTENDS Boot

Available(from, to) == [addr |-> from, len |-> to - from, available |-> TRUE]
Mmio(from, to) == [addr |-> from, len |-> to - from, available |-> FALSE]

MCMaps == {
    {},
    {Available(0, 60)},                                        \* RAM only
    {Available(0, 3), Available(4, 18), Available(21, 58)},    \* holes, ends inside pages
    {Available(2, 23), Mmio(23, 26), Available(26, 76)},       \* RAM beyond the bitmap
    {Available(4, 33), Mmio(90, 92)},                          \* MMIO far above the RAM
    {Available(0, 9)} }                                        \* RAM that ends in the kernel

\* A machine with enough RAM, all of it mapped.
PresentMaps == {{Available(0, 60)}}

MCCpus == {[logical_cpus |-> 4, has_sse2 |-> TRUE]}

Linear(addr) == [type |-> 1, bpp |-> 32, addr |-> addr, width |-> 4, height |-> 3, pitch |-> 5]

MCTags == {Linear(1000), Linear(33), [Linear(33) EXCEPT !.type = 2]}

Fill(x, y, w, h) == [kind |-> "fill", x |-> x, y |-> y, w |-> w, h |-> h, colour |-> "a"]
\* fb_clear is to fill a box that no picture exceeds.
Clear == [Fill(0, 0, 9, 9) EXCEPT !.kind = "clear"]
Frame(x, y, w, h) == [Fill(x, y, w, h) EXCEPT !.kind = "frame"]
Round(x, y, w, h, r) ==
    [kind |-> "round", x |-> x, y |-> y, w |-> w, h |-> h, r |-> r, colour |-> "a"]
Line(x0, y0, x1, y1) ==
    [kind |-> "line", x0 |-> x0, y0 |-> y0, x1 |-> x1, y1 |-> y1, colour |-> "a"]
Image(x, y) ==
    [kind |-> "image", x |-> x, y |-> y, w |-> 2, h |-> 2,
     image |-> [p \in {0, 1} \X {0, 1} |-> IF p[1] = p[2] THEN "a" ELSE "b"]]
Text(x, y, text, bg) ==
    [kind |-> "text", x |-> x, y |-> y, text |-> text, colour |-> "a", bg |-> bg]

MCGlyph(char) == IF char = "i" THEN {<<0, 0>>, <<0, 1>>} ELSE {<<1, 0>>, <<0, 1>>}

MCOps == {
    Clear, Fill(-1, -1, 3, 2), Fill(2, 1, 5, 5), Fill(1, 1, 0, 2),
    Frame(-1, 0, 4, 3), Frame(1, 0, 3, 3), Frame(3, 2, 1, 1),
    Round(0, 0, 4, 3, 1), Round(-1, -1, 5, 4, 2), Round(1, 0, 2, 2, 0),
    Line(0, 0, 3, 2), Line(3, 0, 0, 1), Line(-2, 1, 5, 2), Line(1, 4, 2, -1), Line(2, 2, 2, 2),
    Line(0, 2, 3, 0),
    Image(3, 2), Image(-1, 0),
    Text(0, 0, <<"i", "x", "nl", "x">>, "b"), Text(-1, -2, <<"x", "nl", "i", "i">>, Transparent)}
=============================================================================
