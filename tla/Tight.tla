--------------------------------- MODULE Tight ---------------------------------
(***************************************************************************)
(* Tight rectangles: TightEncodingReader and its filters.  A rectangle is one  *)
(* colour, a JPEG image, or rows of data that a filter turns into pixels: the  *)
(* rows as they are, indices into a palette, or differences to a prediction.   *)
(* All but short data are deflated, in one of several streams that go on from  *)
(* rectangle to rectangle until the server resets them; the client reads them  *)
(* in pieces, and draws the rows as they are inflated.                       *)
(*                                                                         *)
(* zlib is external: a piece inflates to some of the bytes still missing, the  *)
(* last one to all of them, if the client's stream has inflated what the       *)
(* server's had deflated.                                                    *)
(***************************************************************************)
EXTENDS Zrle

CONSTANTS Streams,          \* 0..3
          ZBufSize,         \* Z_BUFSIZE
          MinToCompress     \* TIGHT_MIN_TO_COMPRESS

\* bytesPerPixel of the filters and the buffer size of backPixReader: set
\* with the frame buffer, and not changed by ZRLE.
FilterBytes == format.tight

Keep(fields) == part' = fields @@ part

-----------------------------------------------------------------------------
(* Up to the data. *)

Reset(resets) == zStream' = [s \in Streams |-> IF s \in resets THEN 0 ELSE zStream[s]]

\* Bits of a pixel in the filter's rows.
PixelBits(p) ==
    CASE p.filter = "palette" -> IF Len(p.palette) = 2 THEN 1 ELSE ByteBits
      [] p.filter \in {"copy", "gradient"} -> FilterBytes * ByteBits

\* Mutant: rows do not end on a byte.
RowSizeMutant(p) == (frame.w * PixelBits(p)) \div ByteBits

RowSize(p) == (frame.w * PixelBits(p) + ByteBits - 1) \div ByteBits

\* filterInitDone, with what is known of the rectangle
FilterInitDone(p) ==
    LET size == RowSize(p) * frame.h
    IN /\ part' = p
       /\ IF size < MinToCompress THEN Expect("unzipped", size) ELSE Expect("zipLength", 0)

\* resetFilterForRect: the gradient starts from a row of zeros.
ResetFilter(filter, stream) ==
    LET p == [filter |-> filter, stream |-> stream, palette |-> <<>>,
              prevRow |-> [x \in 1..frame.w |-> <<0, 0, 0>>]] @@ part
    IN IF filter = "palette" THEN part' = p /\ Expect("numColors", 1)
                             ELSE FilterInitDone(p)

SetControl ==
    /\ Reads("control")
    /\ Reset(value.resets)
    /\ CASE value.sub = "fill" -> Expect("tightFill", FilterBytes) /\ UNCHANGED part
         [] value.sub = "jpeg" -> Expect("zipLength", 0) /\ Keep([filter |-> "jpeg"])
         [] value.sub = "explicit" -> Expect("filterId", 1) /\ Keep([stream |-> value.stream])
         [] value.sub = "basic" -> ResetFilter("copy", value.stream)
    /\ UNCHANGED <<copyVars, buffer, frame, colours>>

SetFilterId ==
    /\ Reads("filterId")
    /\ ResetFilter(value, part.stream)
    /\ UNCHANGED <<copyVars, buffer, frame, colours, zStream>>

SetColors ==
    /\ Reads("numColors")
    /\ Expect("palette", value * FilterBytes)
    /\ UNCHANGED <<copyVars, buffer, frame, part, colours, zStream>>

SetPalette ==
    /\ Reads("palette")
    /\ FilterInitDone([part EXCEPT !.palette =
           Colours(format, value, tightBytesPerPixel, serverIsBigEndian)])
    /\ UNCHANGED <<copyVars, buffer, frame, colours, zStream>>

-----------------------------------------------------------------------------
(* The end of a rectangle. *)

DidTight ==
    /\ DidRect
    /\ serverIsBigEndian' = format.bigEndian
    /\ UNCHANGED tightBytesPerPixel

SetFill ==
    /\ Reads("tightFill")
    /\ pixels' = FillRect(pixels, frame, TightColour(value, tightBytesPerPixel))
    /\ DidTight
    /\ UNCHANGED <<copying, frame, colours, zStream>>

-----------------------------------------------------------------------------
(* Filters: filter:rows: of n rows of data, as pixels of tightBytesPerPixel   *)
(* bytes, and the row the gradient goes on from.                             *)

Combined(cs) == FlattenSeq([k \in DOMAIN cs |->
                  CombineRGB(format, cs[k], tightBytesPerPixel, serverIsBigEndian)])

\* The bit of pixel x in row y of a bitmap.
Bit(data, y, x) ==
    LET w == (frame.w + ByteBits - 1) \div ByteBits
    IN (data[y * w + (x \div ByteBits) + 1] \div 2^(ByteBits - 1 - (x % ByteBits))) % 2

PaletteFilter(p, data, n) ==
    Combined([k \in 1..n * frame.w |->
        LET x == (k - 1) % frame.w
            y == (k - 1) \div frame.w
        IN p.palette[1 + IF Len(p.palette) = 2 THEN Bit(data, y, x) ELSE data[k]]])

\* What the colours above, to the left and above to the left predict.
Predicted(above, left, aboveLeft) ==
    [c \in 1..3 |-> Max({0, Min({format.max[c], above[c] + left[c] - aboveLeft[c]})})]

Black == <<0, 0, 0>>

\* Mutant: the sums are not masked.
GradientRowMutant(prev, rgb) ==
    LET row[x \in 0..frame.w] ==
            IF x = 0 THEN <<>>
            ELSE LET est == IF x = 1 THEN prev[1]
                            ELSE Predicted(prev[x], row[x - 1][x - 1], prev[x - 1])
                 IN Append(row[x - 1], [c \in 1..3 |-> rgb[x][c] + est[c]])
    IN row[frame.w]

\* A row from the differences in rgb and the row above.
GradientRow(prev, rgb) ==
    LET row[x \in 0..frame.w] ==
            IF x = 0 THEN <<>>
            ELSE LET est == IF x = 1 THEN prev[1]
                            ELSE Predicted(prev[x], row[x - 1][x - 1], prev[x - 1])
                 IN Append(row[x - 1],
                           [c \in 1..3 |-> (rgb[x][c] + est[c]) % (format.max[c] + 1)])
    IN row[frame.w]

\* The rows, after the one that precedes them.
GradientRows(p, data, n) ==
    LET rgb == Colours(format, data, tightBytesPerPixel, serverIsBigEndian)
        rows[y \in 0..n] ==
            IF y = 0 THEN <<p.prevRow>>
            ELSE Append(rows[y - 1],
                        GradientRow(Last(rows[y - 1]),
                                    SubSeq(rgb, (y - 1) * frame.w + 1, y * frame.w)))
    IN rows[n]

Filtered(p, data, n) ==
    CASE p.filter = "copy" -> data
      [] p.filter = "palette" -> PaletteFilter(p, data, n)
      [] p.filter = "gradient" -> Combined(FlattenSeq(Tail(GradientRows(p, data, n))))

PrevRow(p, data, n) ==
    IF p.filter = "gradient" THEN Last(GradientRows(p, data, n)) ELSE p.prevRow

SetUnzippedData ==
    /\ Reads("unzipped")
    /\ pixels' = PutTightData(pixels, frame, Filtered(part, value, frame.h),
                              tightBytesPerPixel)
    /\ DidTight
    /\ UNCHANGED <<copying, frame, colours, zStream>>

-----------------------------------------------------------------------------
(* Data that were deflated. *)

SetZipLength ==
    /\ Reads("zipLength")
    /\ IF part.filter = "jpeg"
       THEN Expect("zipped", value) /\ UNCHANGED part
       ELSE /\ Expect("zipped", Min({value, ZBufSize}))
            /\ Keep([compressedLength |-> value, zBuf |-> <<>>, rowsDone |-> 0,
                     inflated |-> 0])
    /\ UNCHANGED <<copyVars, buffer, frame, colours, zStream>>

\* Each row is drawn when libjpeg has it.
SetJpeg ==
    /\ Reads("zipped") /\ part.filter = "jpeg"
    /\ pixels' = FoldLeft(LAMBDA p, y :
                     PutRect(p, [frame EXCEPT !.y = frame.y + y - 1, !.h = 1],
                             [x \in 1..frame.w |->
                                FromFull(format, value[(y - 1) * frame.w + x])]),
                     pixels, [y \in 1..frame.h |-> y])
    /\ DidTight
    /\ UNCHANGED <<copying, frame, colours, zStream>>

\* Mutant: what is left of a row is not moved to the front.
DrawRowsMutant(s, new) ==
    LET data == s.part.zBuf \o new
        size == RowSize(s.part)
        n == Len(data) \div size
        r == [frame EXCEPT !.y = frame.y + s.part.rowsDone, !.h = n]
    IN [pixels |-> PutTightData(s.pixels, r, Filtered(s.part, data, n), tightBytesPerPixel),
        part |-> [s.part EXCEPT !.rowsDone = s.part.rowsDone + n,
                                !.prevRow = PrevRow(s.part, data, n),
                                !.zBuf = SubSeq(data, 1, Len(data) - n * size)]]

\* One round of the loop: new bytes are inflated behind the zBufPos bytes that
\* were left, all complete rows are drawn, and the rest is moved to the front.
DrawRows(s, new) ==
    LET data == s.part.zBuf \o new
        size == RowSize(s.part)
        n == Len(data) \div size
        r == [frame EXCEPT !.y = frame.y + s.part.rowsDone, !.h = n]
    IN [pixels |-> PutTightData(s.pixels, r, Filtered(s.part, data, n), tightBytesPerPixel),
        part |-> [s.part EXCEPT !.rowsDone = s.part.rowsDone + n,
                                !.prevRow = PrevRow(s.part, data, n),
                                !.zBuf = SubSeq(data, n * size + 1, Len(data))]]

\* The loop, over the bytes a piece inflates to: the buffer is filled, its
\* rows are drawn, and so on while it was full.
Inflated(s, bytes) ==
    FoldLeft(LAMBDA t, round :
        LET space == ZBufSize - Len(t.part.zBuf)
            new == SubSeq(t.left, 1, Min({space, Len(t.left)}))
        IN IF new = <<>> THEN t
           ELSE DrawRows(t, new) @@ [left |-> SubSeq(t.left, Len(new) + 1, Len(t.left))],
        s @@ [left |-> bytes], [round \in 1..Len(bytes) |-> round])

\* The value of the item: the stream's position before the rectangle, and the
\* rectangle's data.  A piece is taken from it.
SetZippedData ==
    /\ wire # <<>> /\ lines = 0 /\ reader.of = "zipped" /\ part.filter # "jpeg"
    /\ Head(wire).of = "zipped" /\ reader.size <= Head(wire).size
    /\ UNCHANGED <<format, server>>
    /\ LET left == part.compressedLength - reader.size
           data == value.data
       IN /\ wire' = IF left > 0 THEN <<[Head(wire) EXCEPT !.size = left]>> \o Tail(wire)
                     ELSE Tail(wire)
          /\ IF zStream[part.stream] # value.at
             THEN Terminate /\ UNCHANGED <<pixels, buffer, zStream>>
             ELSE \E n \in part.inflated..Len(data) :
                  LET s == Inflated([pixels |-> pixels, part |-> part],
                                    SubSeq(data, part.inflated + 1, n))
                  IN /\ left = 0 => n = Len(data)
                     /\ pixels' = s.pixels
                     /\ IF left > 0
                        THEN /\ part' = [s.part EXCEPT !.compressedLength = left,
                                                       !.inflated = n]
                             /\ Expect("zipped", Min({left, ZBufSize}))
                             /\ UNCHANGED <<buffer, zStream>>
                        ELSE /\ DidTight
                             /\ zStream' = [zStream EXCEPT ![part.stream] = @ + 1]
    /\ UNCHANGED <<copying, frame, colours>>

-----------------------------------------------------------------------------
(* The server. *)

\* A pixel of a Tight rectangle: its colours in this order if each is a byte.
TPixelOf(c) == IF format.tight = 3 THEN c ELSE PixelOf(c)
TPixelsOf(cs) == FlattenSeq([k \in DOMAIN cs |-> TPixelOf(cs[k])])

\* Bits, or indices, of the pixels; rows of bits end on a byte.
Bitmap(r, indices) ==
    LET w == (r.w + ByteBits - 1) \div ByteBits
        bit(y, x) == IF x < r.w THEN indices[y * r.w + x + 1] ELSE 0
    IN [k \in 1..w * r.h |->
          FoldLeft(LAMBDA b, j : 2 * b + bit((k - 1) \div w, ((k - 1) % w) * ByteBits + j),
                   0, [j \in 1..ByteBits |-> j - 1])]

Differences(r, cs) ==
    [k \in 1..Area(r) |->
        LET x == (k - 1) % r.w
            above(j) == IF j > r.w THEN cs[j - r.w] ELSE Black
            est == IF x = 0 THEN above(k) ELSE Predicted(above(k), cs[k - 1], above(k - 1))
        IN [c \in 1..3 |-> (cs[k][c] - est[c]) % (format.max[c] + 1)]]

\* What follows the control byte: the header of the filter, and its data.
Ways(r, cs) ==
    LET used == SetToSeq(ToSet(cs))
        index(k) == (CHOOSE j \in DOMAIN used : used[j] = cs[k]) - 1
        indices == [k \in DOMAIN cs |-> index(k)]
    IN {[sub |-> "basic", header |-> <<>>, data |-> TPixelsOf(cs)],
        [sub |-> "explicit", header |-> <<Item("filterId", 1, "gradient")>>,
         data |-> TPixelsOf(Differences(r, cs))]}
       \cup IF Len(used) = 1 THEN {}
            ELSE {[sub |-> "explicit",
                   header |-> <<Item("filterId", 1, "palette"),
                                Item("numColors", 1, Len(used)),
                                Item("palette", Len(used) * format.tight, TPixelsOf(used))>>,
                   data |-> IF Len(used) = 2 THEN Bitmap(r, indices) ELSE indices]}

\* Deflated data are of some length, in a stream, which may be reset first.
ServeTight(r, new) ==
    /\ Idle /\ tightBytesPerPixel = format.tight
    /\ picture' = Over(r, new)
    /\ \E stream \in Streams : \E resets \in {{}, {stream}} :
       LET cs == Content(picture', r)
           control(sub) == Item("control", 1, [sub |-> sub, stream |-> stream, resets |-> resets])
           was == [s \in Streams |-> IF s \in resets THEN 0 ELSE deflated[s]]
       IN \/ \* one colour, or a JPEG image, which is taken to be exact here
             /\ stream = 0
             /\ \/ /\ Cardinality(ToSet(cs)) = 1
                   /\ wire' = <<Header(r, "tight"), control("fill"),
                                Item("tightFill", format.tight, TPixelOf(cs[1]))>>
                \/ /\ format.max = [c \in 1..3 |-> 2^ByteBits - 1]
                   /\ wire' = <<Header(r, "tight"), control("jpeg"),
                                Item("zipLength", 0, 4), Item("zipped", 4, cs)>>
             /\ deflated' = was
          \/ \E way \in Ways(r, cs) :
             IF Len(way.data) < MinToCompress
             THEN /\ wire' = <<Header(r, "tight"), control(way.sub)>> \o way.header
                             \o <<Item("unzipped", Len(way.data), way.data)>>
                  /\ deflated' = was
             ELSE \E length \in {3, ZBufSize + 3} :
                  /\ wire' = <<Header(r, "tight"), control(way.sub)>> \o way.header
                             \o <<Item("zipLength", 0, length),
                                  Item("zipped", length, [at |-> was[stream],
                                                          data |-> way.data])>>
                  /\ deflated' = [was EXCEPT ![stream] = @ + 1]
    /\ rects' = rects + 1
    /\ UNCHANGED <<copyVars, format, client, serving>>
=============================================================================
