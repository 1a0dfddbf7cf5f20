------------------------------ MODULE FrameBuffer ------------------------------
(***************************************************************************)
(* The frame buffer: a row-major memory of colours, the pixel formats in     *)
(* which the server describes colours, and the drawing methods the readers   *)
(* of the encodings call (FrameBuffer, FrameBufferDrawing).                 *)
(*                                                                         *)
(* A colour is its red, green and blue value.  The tables that turn it into  *)
(* a pixel of the screen (gamma correction, depth) are left out.  A byte has *)
(* ByteBits bits, so that few bytes make all the cases.                     *)
(***************************************************************************)
EXTENDS Integers, Sequences

CONSTANTS Width, Height,    \* size
          ByteBits          \* 8

ASSUME SizeAssumption == Width \in Nat /\ Height \in Nat /\ ByteBits \in Nat

Cells == 0..Width * Height - 1
Blank == [a \in Cells |-> <<0, 0, 0>>]

\* Rectangles are records of x, y, w and h.
Outside(r) == r.x + r.w > Width \/ r.y + r.h > Height
Column(a) == a % Width
Row(a) == a \div Width
Inside(a, r) == /\ Column(a) \in r.x..(r.x + r.w - 1)
                /\ Row(a) \in r.y..(r.y + r.h - 1)
Index(a, r) == (Row(a) - r.y) * r.w + Column(a) - r.x + 1

-----------------------------------------------------------------------------
(* Pixel formats.  A format has the bytes of a pixel, those of a pixel in    *)
(* the compact form of Tight and ZRLE, the byte order, the shift and maximum *)
(* of each colour, and whether setServerMajorVersion:minorVersion: takes     *)
(* Tight rectangles in this format for big-endian (forceServerBigEndian).    *)

\* PIX16BIG, PIX24LITTLE...
Number(v, big) ==
    LET n == Len(v)
        sum[k \in 0..n] ==
            IF k = 0 THEN 0
            ELSE sum[k - 1] + v[IF big THEN n + 1 - k ELSE k] * 2^(ByteBits * (k - 1))
    IN sum[n]

BytesOf(pix, n, big) ==
    [k \in 1..n |-> (pix \div 2^(ByteBits * (IF big THEN n - k ELSE k - 1))) % 2^ByteBits]

ToRGB(f, pix) == [c \in 1..3 |-> (pix \div 2^f.shift[c]) % (f.max[c] + 1)]
ToPix(f, rgb) == (rgb[1] % (f.max[1] + 1)) * 2^f.shift[1]
               + (rgb[2] % (f.max[2] + 1)) * 2^f.shift[2]
               + (rgb[3] % (f.max[3] + 1)) * 2^f.shift[3]

\* cvt_pixel, cvt_pixel24
Cvt(f, v, big) == ToRGB(f, Number(v, big))

\* The pixels of n bytes that data consists of; splitRGB:pixels:into:
Colours(f, data, n, big) ==
    [i \in 1..Len(data) \div n |-> Cvt(f, SubSeq(data, (i - 1) * n + 1, i * n), big)]

\* combineRGB:pixels:into:, for one pixel.  Pixels of three bytes are written
\* big-endian whatever the byte order.
CombineRGB(f, rgb, n, big) == BytesOf(ToPix(f, rgb), n, big \/ n = 3)

\* putRect:fromRGBBytes:, for one pixel: a byte says more than the format.
FromFull(f, rgb) == [c \in 1..3 |-> rgb[c] \div (2^ByteBits \div (f.max[c] + 1))]

-----------------------------------------------------------------------------
(* Drawing. *)

\* What is below or to the right of the frame buffer is clipped.
FillRect(p, r, colour) == [a \in Cells |-> IF Inside(a, r) THEN colour ELSE p[a]]

\* The putRect: methods, once they have the colours of the rectangle.
PutRect(p, r, colours) ==
    IF Outside(r) THEN p
    ELSE [a \in Cells |-> IF Inside(a, r) THEN colours[Index(a, r)] ELSE p[a]]

\* The addresses putRun:ofLength:at:pixelOffset: writes: the rest of the row
\* it starts in, then rows of the rectangle, which are a stride apart.
Run(r, length, offset) ==
    LET n == IF length > r.w * r.h - offset THEN r.w * r.h - offset ELSE length
        start == ((offset \div r.w) + r.y) * Width + (offset % r.w) + r.x
        first == r.w - (offset % r.w)
        stride == Width - r.w
    IN {IF k < first THEN start + k
        ELSE start + first + stride + ((k - first) \div r.w) * (r.w + stride)
             + ((k - first) % r.w) : k \in 0..n - 1}

PutRun(p, colour, length, r, offset) ==
    IF Outside(r) THEN p
    ELSE LET run == Run(r, length, offset)
         IN [a \in Cells |-> IF a \in run THEN colour ELSE p[a]]
=============================================================================
