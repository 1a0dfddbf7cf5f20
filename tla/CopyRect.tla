------------------------------- MODULE CopyRect -------------------------------
(***************************************************************************)
(* copyRect:to: of the frame buffer: the loop that moves a rectangle within  *)
(* one memory, pixel by pixel, in an order that depends on the direction of  *)
(* the move, since the two places may overlap.  A step is one assignment     *)
(* *dst = *src, with the pointer arithmetic up to the next one.             *)
(***************************************************************************)
EXTENDS FrameBuffer

CONSTANT Pixel          \* the colours of the memory

VARIABLES
    pixels,             \* the memory
    from, to,           \* the rectangle, and the corner it is moved to
    before,             \* the memory when the loop began
    lines, i,           \* rows, and pixels of the row, still to be copied
    src, dst            \* pointers

copyVars == <<pixels, from, to, before, lines, i, src, dst>>

Target == [from EXCEPT !.x = to.x, !.y = to.y]

\* Mutant: begins at the end that is overwritten last.
ForwardsMutant(old, new) == new > old

\* Whether the loop begins with the first row, or the first pixel of a row.
Forwards(old, new) == new < old

LineStep == IF Forwards(from.x, to.x) THEN 1 ELSE -1

Stride == IF Forwards(from.y, to.y)
          THEN IF LineStep > 0 THEN Width - from.w ELSE Width + from.w
          ELSE IF LineStep > 0 THEN -Width - from.w ELSE -Width + from.w

\* Where the loop begins, in a rectangle of the size of r at (x, y).
Start(x, y, r, p) ==
    (y + IF Forwards(r.y, p.y) THEN 0 ELSE r.h - 1) * Width
    + x + IF Forwards(r.x, p.x) THEN 0 ELSE r.w - 1

CopyRect(r, p) ==
    /\ lines = 0
    /\ from' = r /\ to' = p /\ before' = pixels
    /\ src' = Start(r.x, r.y, r, p) /\ dst' = Start(p.x, p.y, r, p)
    /\ lines' = IF Outside(r) \/ Outside([r EXCEPT !.x = p.x, !.y = p.y])
                   \/ r.w = 0
                THEN 0 ELSE r.h
    /\ i' = r.w
    /\ UNCHANGED pixels

\* *dst = *src, both advance, and at the end of a row they go to the next.
CopyPixel ==
    /\ lines > 0
    /\ pixels' = [pixels EXCEPT ![dst] = pixels[src]]
    /\ IF i > 1
       THEN /\ src' = src + LineStep /\ dst' = dst + LineStep
            /\ i' = i - 1 /\ UNCHANGED lines
       ELSE /\ src' = src + LineStep + Stride /\ dst' = dst + LineStep + Stride
            /\ i' = from.w /\ lines' = lines - 1
    /\ UNCHANGED <<from, to, before>>

\* The rectangle as it was, at its new place.
Moved == [a \in Cells |-> IF Inside(a, Target)
                          THEN before[a + (from.y - to.y) * Width + from.x - to.x]
                          ELSE before[a]]

-----------------------------------------------------------------------------
(* On its own: any copies, of a memory that changes in between. *)

CopyInit ==
    /\ pixels \in [Cells -> Pixel] /\ before = pixels
    /\ from = [x |-> 0, y |-> 0, w |-> 0, h |-> 0] /\ to = [x |-> 0, y |-> 0]
    /\ lines = 0 /\ i = 0 /\ src = 0 /\ dst = 0

Draw ==
    /\ lines = 0 /\ pixels' \in [Cells -> Pixel]
    /\ UNCHANGED <<from, to, before, lines, i, src, dst>>

CopyNext ==
    \/ CopyPixel \/ Draw
    \/ \E r \in [x: Nat, y: Nat, w: Nat, h: Nat], p \in [x: Nat, y: Nat] :
        CopyRect(r, p)

CopySpec == CopyInit /\ [][CopyNext]_copyVars

\* However the two places overlap, the loop ends with the rectangle at its new
\* place as it was at the old one, and everything else unchanged: no pixel is
\* read after it was written, which is what the four orders of copyRect:to:
\* are for.
CopyIsExact == [][lines > 0 /\ lines' = 0 => pixels' = Moved]_copyVars
=============================================================================
