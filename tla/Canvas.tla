------------------------------- MODULE Canvas -------------------------------
(***************************************************************************)
(* What the framebuffer promises its callers: a picture, which is a        *)
(* function from points to colours, on which shapes are painted and cut    *)
(* off at its edges, and a screen that shows the picture.  Unless the      *)
(* picture is painted on the screen itself (`direct'), the screen changes  *)
(* only when the picture is presented, and then to the whole picture.      *)
(***************************************************************************)
EXTENDS Integers

CONSTANTS
    Sizes,     \* the sizes of pictures: <<width, height>>
    Bar,       \* the height of the strip at the foot of a picture
    Sky,       \* the colour of what is above the strip, and of the strip
    Ground,
    Nothing,
    Painting   \* what may be painted for each request: a function from requests
               \* to sets of functions from points to colours

VARIABLES
    canvas, shown, direct,
    asked      \* the request painted last, if it is not yet presented

vars == <<canvas, shown, direct, asked>>

Plane(size) == (0 .. size[1] - 1) \X (0 .. size[2] - 1)

Init == canvas = <<>> /\ shown = <<>> /\ direct = FALSE /\ asked = Nothing

\* The framebuffer comes up, with something on the screen.
Start ==
    /\ canvas = <<>>
    /\ DOMAIN canvas' \in {Plane(size) : size \in Sizes}
    /\ DOMAIN shown' = DOMAIN canvas'
    /\ direct' \in BOOLEAN
    /\ direct' => shown' = canvas'
    /\ UNCHANGED asked

\* What is painted shows at once or when it is presented.
Shows == shown' = (IF direct THEN canvas' ELSE shown) /\ UNCHANGED direct

Wipe(rows, colour) ==
    /\ canvas' = [p \in DOMAIN canvas |-> IF p[2] \in rows THEN colour ELSE canvas[p]]
    /\ Shows
    /\ UNCHANGED asked

Ready ==
    /\ canvas # <<>>
    /\ \E size \in Sizes :
          /\ DOMAIN canvas = Plane(size)
          /\ \/ Wipe(0 .. size[2] - Bar - 1, Sky)
             \/ Wipe(size[2] - Bar .. size[2] - 1, Ground)

Draw(request) ==
    /\ canvas # <<>>
    /\ asked' = request
    /\ \E painting \in Painting[request] :
          canvas' = [p \in DOMAIN canvas |->
                        IF p \in DOMAIN painting THEN painting[p] ELSE canvas[p]]
    /\ Shows

Present ==
    /\ canvas # <<>>
    /\ shown' = canvas
    /\ asked' = Nothing
    /\ UNCHANGED <<canvas, direct>>

Next ==
    \/ Start \/ Ready \/ Present
    \/ \E request \in DOMAIN Painting : Draw(request)

Spec == Init /\ [][Next]_vars
=============================================================================
