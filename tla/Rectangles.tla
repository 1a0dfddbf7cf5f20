------------------------------ MODULE Rectangles ------------------------------
(***************************************************************************)
(* The rectangles of an update: FrameBufferUpdateReader gives each to the    *)
(* reader of its encoding, which sets one byte reader after the other and    *)
(* draws into the frame buffer.  This module has what the encodings share,   *)
(* and the simple ones: Raw, CopyRect, RRE, CoRRE and Zlib.                 *)
(*                                                                         *)
(* A step of the client is one call of a reader's target.  What it reads is  *)
(* an item of the stream: what it is, its size in bytes and its value, whose *)
(* pixels are bytes.  How items come in is the business of ByteReaders.      *)
(*                                                                         *)
(* The server is external: it encodes a new picture as rfbproto.h says.      *)
(***************************************************************************)
EXTENDS CopyRect, SequencesExt

CONSTANTS Formats,      \* the pixel formats
          Frames,       \* the rectangles the server updates
          Pictures,     \* what the server shows
          Encodings,    \* the encodings it uses
          TileSize,     \* of Hextile, 16, and of ZRLE, 64
          MaxRects      \* bound on the rectangles

VARIABLES
    format,             \* pixelFormat, never changed
    serverIsBigEndian,
    tightBytesPerPixel,
    reader,             \* what the current reader waits for, and its size
    frame,              \* the rectangle
    part,               \* what the encoding's reader keeps of it
    background,         \* of HextileEncodingReader
    foreground,
    zStream,            \* of TightEncodingReader: what each has inflated
    wire,               \* items the server has sent
    picture,            \* what the server shows
    serving,            \* what it has still to send of the rectangle
    deflated,           \* what its streams have compressed
    rects               \* how many rectangles it has sent

buffer == <<serverIsBigEndian, tightBytesPerPixel>>
colours == <<background, foreground>>
copying == <<from, to, before, lines, i, src, dst>>
server == <<picture, serving, deflated, rects>>
client == <<buffer, reader, frame, part, colours, zStream>>
vars == <<copyVars, format, client, wire, server>>

Item(what, size, value) == [of |-> what, size |-> size, value |-> value]

-----------------------------------------------------------------------------
(* Readers. *)

Expect(what, size) == reader' = [of |-> what, size |-> size]

\* The reader is given what it waits for, of the size it was told.
Reads(what) ==
    /\ wire # <<>> /\ lines = 0
    /\ reader = [of |-> what, size |-> Head(wire).size] /\ Head(wire).of = what
    /\ wire' = Tail(wire)
    /\ UNCHANGED <<format, server>>

value == Head(wire).value

Terminate == reader' = [of |-> "nil", size |-> 0] /\ UNCHANGED part

\* What a reader keeps of a rectangle is set before it is used: it is
\* forgotten with the rectangle.
Nothing == [encoding |-> "none"]

DidRect == Expect("rect", 12) /\ part' = Nothing

Area(r) == r.w * r.h

\* The color of a pixel of the stream: fillColor:fromPixel:, withPixel:
Colour(bytes) == Cvt(format, bytes, serverIsBigEndian)

\* putRect:fromData:
PutData(p, r, data) ==
    PutRect(p, r, Colours(format, data, format.bytes, serverIsBigEndian))

\* putRect:fromTightData:, and fillRect:tightPixel:, fillColor:fromTightPixel:;
\* n is tightBytesPerPixel.
TightSize(n) == IF n = 3 THEN 3 ELSE format.bytes
PutTightData(p, r, data, n) ==
    PutRect(p, r, Colours(format, data, TightSize(n), serverIsBigEndian))
TightColour(bytes, n) == Cvt(format, SubSeq(bytes, 1, TightSize(n)), serverIsBigEndian)

At(r) == [x |-> r.x, y |-> r.y]

-----------------------------------------------------------------------------
(* The header of a rectangle. *)

FirstTile(r) == [r EXCEPT !.w = Min({r.w, TileSize}), !.h = Min({r.h, TileSize})]

\* readEncoding of TightEncodingReader, which takes the byte order of its server.
ReadTight ==
    /\ serverIsBigEndian' = (format.force \/ serverIsBigEndian)
    /\ UNCHANGED tightBytesPerPixel

SetRect ==
    /\ Reads("rect")
    /\ LET r == value.rect
           e == value.encoding
       IN /\ frame' = r
          /\ part' = [encoding |-> e, tile |-> FirstTile(r)]
          /\ CASE e = "raw" -> Expect("pixels", format.bytes * Area(r))
               [] e = "copyRect" -> Expect("position", 4)
               [] e \in {"rre", "coRre"} -> Expect("numOfRects", 4)
               [] e \in {"hextile", "zlibHex"} -> Expect("subEncoding", 1)
               [] e \in {"zlib", "zrle"} -> Expect("numBytes", 4)
               [] e = "tight" -> Expect("control", 1)
          /\ IF e = "tight" THEN ReadTight ELSE UNCHANGED buffer
    /\ UNCHANGED <<copyVars, colours, zStream>>

-----------------------------------------------------------------------------
(* Raw, CopyRect, RRE and CoRRE. *)

SetPixels ==
    /\ Reads("pixels")
    /\ pixels' = PutData(pixels, frame, value)
    /\ DidRect
    /\ UNCHANGED <<copying, buffer, frame, colours, zStream>>

\* The loop of copyRect:to: runs before anything else is read.
SetPosition ==
    /\ Reads("position")
    /\ CopyRect([frame EXCEPT !.x = value.x, !.y = value.y], At(frame))
    /\ DidRect
    /\ UNCHANGED <<buffer, frame, colours, zStream>>

SetNumOfRects ==
    /\ Reads("numOfRects")
    /\ part' = [encoding |-> part.encoding, numOfSubRects |-> value]
    /\ Expect("background", format.bytes)
    /\ UNCHANGED <<copyVars, buffer, frame, colours, zStream>>

SubRectSize == IF part.encoding = "rre" THEN 8 ELSE 4

SetBackground ==
    /\ Reads("background")
    /\ pixels' = FillRect(pixels, frame, Colour(value))
    /\ IF part.numOfSubRects > 0
       THEN /\ Expect("subRects", (format.bytes + SubRectSize) * part.numOfSubRects)
            /\ UNCHANGED part
       ELSE DidRect
    /\ UNCHANGED <<copying, buffer, frame, colours, zStream>>

\* Subrectangles, at their places in r and in their colours, one over the other.
FillSubRects(p, r, subRects, colour) ==
    FoldLeftDomain(LAMBDA q, n :
                       FillRect(q, [x |-> r.x + subRects[n].x, y |-> r.y + subRects[n].y,
                                    w |-> subRects[n].w, h |-> subRects[n].h], colour[n]),
                   p, subRects)

DrawRectangles ==
    /\ Reads("subRects")
    /\ pixels' = FillSubRects(pixels, frame, value,
                              [n \in DOMAIN value |-> Colour(value[n].pixel)])
    /\ DidRect
    /\ UNCHANGED <<copying, buffer, frame, colours, zStream>>

-----------------------------------------------------------------------------
(* Zlib.  The stream is inflated by ZlibStreamReader, which hands over all    *)
(* of it; ZRLE rectangles are read alike.                                    *)

SetNumBytes ==
    /\ Reads("numBytes")
    /\ Expect(IF part.encoding = "zlib" THEN "zlib" ELSE "zrle", value)
    /\ UNCHANGED <<copyVars, buffer, frame, part, colours, zStream>>

SetUncompressedData ==
    /\ Reads("zlib")
    /\ pixels' = IF Len(value) = Area(frame) * format.bytes
                 THEN PutData(pixels, frame, value) ELSE pixels
    /\ DidRect
    /\ UNCHANGED <<copying, buffer, frame, colours, zStream>>

-----------------------------------------------------------------------------
(* The server. *)

\* A colour in the format agreed upon.
PixelOf(c) == BytesOf(ToPix(format, c), format.bytes, format.bigEndian)

PixelsOf(cs) == FlattenSeq([k \in 1..Len(cs) |-> PixelOf(cs[k])])

\* The pixels of rectangle r, in the order they are sent.
CellAt(r, k) == (r.y + ((k - 1) \div r.w)) * Width + r.x + ((k - 1) % r.w)
Content(shown, r) == [k \in 1..Area(r) |-> shown[CellAt(r, k)]]

\* Subrectangles of r for the pixels that are not of colour b: one if that is
\* what they make, else one for each.
SubRects(shown, r, b) ==
    LET cs == Content(shown, r)
        other == {k \in 1..Area(r) : cs[k] # b}
        X(k) == (k - 1) % r.w
        Y(k) == (k - 1) \div r.w
        x1 == Min({X(k) : k \in other})
        x2 == Max({X(k) : k \in other})
        y1 == Min({Y(k) : k \in other})
        y2 == Max({Y(k) : k \in other})
        one(k) == [x |-> X(k), y |-> Y(k), w |-> 1, h |-> 1, pixel |-> PixelOf(cs[k])]
    IN IF /\ other # {} /\ Cardinality({cs[k] : k \in other}) = 1
          /\ Cardinality(other) = (x2 - x1 + 1) * (y2 - y1 + 1)
       THEN <<[one(Min(other)) EXCEPT !.w = x2 - x1 + 1, !.h = y2 - y1 + 1]>>
       ELSE LET ks == SetToSortSeq(other, <) IN [n \in 1..Len(ks) |-> one(ks[n])]

\* Rectangles of pixels, after their headers.
SimpleItems(encoding, r, shown) ==
    LET cs == Content(shown, r) IN
    CASE encoding = "raw" ->
           {<<Item("pixels", format.bytes * Area(r), PixelsOf(cs))>>}
      [] encoding = "zlib" ->
           {<<Item("numBytes", 4, 5), Item("zlib", 5, PixelsOf(cs))>>}
      [] encoding \in {"rre", "coRre"} ->
           {LET subs == SubRects(shown, r, b)
                size == IF encoding = "rre" THEN 8 ELSE 4
            IN <<Item("numOfRects", 4, Len(subs)),
                 Item("background", format.bytes, PixelOf(b))>>
               \o (IF subs = <<>> THEN <<>>
                   ELSE <<Item("subRects", (format.bytes + size) * Len(subs), subs)>>)
            : b \in ToSet(cs)}

Header(r, encoding) == Item("rect", 12, [rect |-> r, encoding |-> encoding])

\* The server is done with what it has sent.
Idle == /\ wire = <<>> /\ lines = 0 /\ serving = <<>>
        /\ reader.of = "rect" /\ rects < MaxRects

Over(r, new) == [a \in Cells |-> IF Inside(a, r) THEN new[a] ELSE picture[a]]

ServeSimple(encoding, r, new) ==
    /\ Idle
    /\ picture' = Over(r, new)
    /\ \E items \in SimpleItems(encoding, r, picture') :
        wire' = <<Header(r, encoding)>> \o items
    /\ rects' = rects + 1
    /\ UNCHANGED <<copyVars, format, client, serving, deflated>>

\* What is copied was sent before.
ServeCopy(r, x, y) ==
    /\ Idle /\ rects > 0
    /\ picture' = [a \in Cells |->
                     IF Inside(a, r) THEN picture[a + (y - r.y) * Width + x - r.x]
                     ELSE picture[a]]
    /\ wire' = <<Header(r, "copyRect"), Item("position", 4, [x |-> x, y |-> y])>>
    /\ rects' = rects + 1
    /\ UNCHANGED <<copyVars, format, client, serving, deflated>>
=============================================================================
