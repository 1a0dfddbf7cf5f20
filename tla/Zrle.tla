--------------------------------- MODULE Zrle ---------------------------------
(***************************************************************************)
(* ZRLE rectangles: ZRLEEncodingReader is given all of the rectangle at once,  *)
(* inflated, and draws it tile by tile.  A tile is plain pixels, one colour,   *)
(* indices into a palette packed into bytes, or runs, of colours or indices.  *)
(* It keeps count of the bytes left, and gives up when there are too few.     *)
(***************************************************************************)
EXTENDS Hextile

\* The tiles of the two loops, in order.
TileCount(n) == (n + TileSize - 1) \div TileSize
Tiles(r) ==
    [k \in 1..TileCount(r.w) * TileCount(r.h) |->
        LET x == r.x + ((k - 1) % TileCount(r.w)) * TileSize
            y == r.y + ((k - 1) \div TileCount(r.w)) * TileSize
        IN [x |-> x, y |-> y, w |-> Min({TileSize, MaxX(r) - x}),
            h |-> Min({TileSize, MaxY(r) - y})]]

\* Bits of an index into a palette of n colours.
IndexBits(n) == IF n = 2 THEN 1 ELSE IF n \in {3, 4} THEN 2 ELSE 4
SamplesPerByte(n) == ByteBits \div IndexBits(n)
BytesPerRow(t, n) == (t.w + SamplesPerByte(n) - 1) \div SamplesPerByte(n)

\* The index of pixel k of a tile: the first of a byte is in its high bits,
\* and each row begins with a new byte.
Sample(t, n, rows, k) ==
    LET x == (k - 1) % t.w
        b == rows[((k - 1) \div t.w) * BytesPerRow(t, n) + (x \div SamplesPerByte(n)) + 1]
        after == SamplesPerByte(n) - 1 - (x % SamplesPerByte(n))
    IN (b \div 2^(IndexBits(n) * after)) % 2^IndexBits(n)

RunLength(bytes) == 1 + FoldLeft(+, 0, bytes)

\* Draws runs, of [index, bytes], and tells how many pixels they were.
PutRuns(p, t, palette, runs) ==
    FoldLeft(LAMBDA s, run :
                 LET n == RunLength(run.bytes)
                 IN [pixels |-> PutRun(s.pixels, palette[run.index + 1], n, t, s.y),
                     y |-> s.y + n],
             [pixels |-> p, y |-> 0], runs).pixels

\* Bytes of a tile after the first one: as the code counts them.  It does not
\* count the indices of runs.
Counted(t, tile, size) ==
    CASE tile.sub = "raw" -> size * Area(t)
      [] tile.sub = "solid" -> size
      [] tile.sub = "packed" -> Len(tile.palette) * size
                                + t.h * BytesPerRow(t, Len(tile.palette))
      [] tile.sub = "plainRle" ->
           FoldLeft(LAMBDA n, run : n + size + Len(run.bytes), 0, tile.runs)
      [] tile.sub = "paletteRle" ->
           FoldLeft(LAMBDA n, run : n + Len(run.bytes), Len(tile.palette) * size, tile.runs)

\* One tile, drawn on memory p.
DrawnTile(p, t, tile, size) ==
    LET palette == [k \in DOMAIN tile.palette |-> TightColour(tile.palette[k], size)] IN
    CASE tile.sub = "raw" -> PutTightData(p, t, tile.data, size)
      [] tile.sub = "solid" -> FillRect(p, t, palette[1])
      [] tile.sub = "packed" ->
           PutRect(p, t, [k \in 1..Area(t) |->
                            palette[Sample(t, Len(palette), tile.data, k) + 1]])
      [] tile.sub \in {"plainRle", "paletteRle"} -> PutRuns(p, t, palette, tile.runs)

\* setUncompressedData: pixels of four bytes come in three ("hack around
\* UltraVNC"), and from then on Tight rectangles are taken to be like that.
SetUncompressedTiles ==
    /\ Reads("zrle")
    /\ tightBytesPerPixel' = IF tightBytesPerPixel = 4 THEN 3 ELSE tightBytesPerPixel
    /\ LET tiles == Tiles(frame)
           last == FoldLeft(
             LAMBDA s, k :
                 LET t == tiles[k]
                     tile == value.tiles[k]
                     n == Counted(t, tile, tightBytesPerPixel')
                 IN IF ~s.ok \/ s.length - 1 <= 0 \/ s.length - 1 < n
                    THEN [s EXCEPT !.ok = FALSE]
                    ELSE [ok |-> TRUE, length |-> s.length - 1 - n,
                          pixels |-> DrawnTile(s.pixels, t, tile, tightBytesPerPixel')],
             [ok |-> TRUE, length |-> value.length, pixels |-> pixels],
             [k \in DOMAIN tiles |-> k])
       IN /\ pixels' = last.pixels
          /\ IF last.ok THEN DidRect ELSE Terminate
    /\ UNCHANGED <<copying, serverIsBigEndian, frame, colours, zStream>>

-----------------------------------------------------------------------------
(* The server. *)

\* A compact pixel: three bytes for those of four.
CPixelOf(c) ==
    LET bytes == PixelOf(c)
    IN IF Len(bytes) = 4
       THEN IF format.bigEndian THEN Tail(bytes) ELSE Front(bytes)
       ELSE bytes
CPixelSize == IF format.bytes = 4 THEN 3 ELSE format.bytes

\* Runs of equal colours in cs: where they begin.
Begins(cs) == SetToSortSeq({k \in DOMAIN cs : k = 1 \/ cs[k] # cs[k - 1]}, <)
LengthBytes(n) == [k \in 1..(n - 1) \div (2^ByteBits - 1) + 1 |->
                     IF k <= (n - 1) \div (2^ByteBits - 1) THEN 2^ByteBits - 1
                     ELSE (n - 1) % (2^ByteBits - 1)]

\* Packs the indices of the pixels of t.
Packed(t, indices, n) ==
    LET row == BytesPerRow(t, n)
        spb == SamplesPerByte(n)
        bits(k) == LET y == (k - 1) \div row
                       x == ((k - 1) % row) * spb
                   IN [j \in 1..spb |-> IF x + j <= t.w THEN indices[y * t.w + x + j] ELSE 0]
    IN [k \in 1..row * t.h |->
          FoldLeft(LAMBDA b, index : b * 2^IndexBits(n) + index, 0, bits(k))]

\* Tile t encoded in this way if it can be, else as plain pixels or one colour.
TileOf(shown, t, how) ==
    LET cs == Content(shown, t)
        used == SetToSeq(ToSet(cs))
        n == Len(used)
        indices == [k \in DOMAIN cs |-> (CHOOSE j \in 1..n : used[j] = cs[k]) - 1]
        begins == Begins(cs)
        length(k) == IF k < Len(begins) THEN begins[k + 1] - begins[k]
                     ELSE Len(cs) + 1 - begins[k]
        bytes(k) == IF how = "paletteRle" /\ length(k) = 1 THEN <<>>
                    ELSE LengthBytes(length(k))
    IN CASE how = "raw" ->
              [sub |-> "raw", palette |-> <<>>,
               data |-> FlattenSeq([k \in DOMAIN cs |-> CPixelOf(cs[k])])]
         [] how # "raw" /\ n = 1 -> [sub |-> "solid", palette |-> <<CPixelOf(cs[1])>>]
         [] how = "packed" /\ n > 1 ->
              [sub |-> "packed", palette |-> [j \in 1..n |-> CPixelOf(used[j])],
               data |-> Packed(t, indices, n)]
         [] how = "plainRle" /\ n > 1 ->
              [sub |-> how, palette |-> [k \in DOMAIN begins |-> CPixelOf(cs[begins[k]])],
               runs |-> [k \in DOMAIN begins |-> [index |-> k - 1, bytes |-> bytes(k)]]]
         [] how = "paletteRle" /\ n > 1 ->
              [sub |-> how, palette |-> [j \in 1..n |-> CPixelOf(used[j])],
               runs |-> [k \in DOMAIN begins |->
                           [index |-> indices[begins[k]], bytes |-> bytes(k)]]]

\* All bytes of a tile.
BytesOfTile(tile) ==
    1 + CASE tile.sub = "plainRle" ->
               FoldLeft(LAMBDA n, run : n + CPixelSize + Len(run.bytes), 0, tile.runs)
          [] tile.sub = "paletteRle" ->
               FoldLeft(LAMBDA n, run : n + 1 + Len(run.bytes),
                        Len(tile.palette) * CPixelSize, tile.runs)
          [] tile.sub = "solid" -> CPixelSize
          [] tile.sub \in {"raw", "packed"} ->
               Len(tile.palette) * CPixelSize + Len(tile.data)

ServeZrle(r, new, how) ==
    /\ Idle
    /\ picture' = Over(r, new)
    /\ LET tiles == [k \in DOMAIN Tiles(r) |-> TileOf(picture', Tiles(r)[k], how)]
           length == FoldLeft(LAMBDA n, tile : n + BytesOfTile(tile), 0, tiles)
       IN wire' = <<Header(r, "zrle"), Item("numBytes", 4, 6),
                    Item("zrle", 6, [tiles |-> tiles, length |-> length])>>
    /\ rects' = rects + 1
    /\ UNCHANGED <<copyVars, format, client, serving, deflated>>
=============================================================================
