-------------------------------- MODULE Hextile --------------------------------
(***************************************************************************)
(* Hextile and ZlibHex rectangles: HextileEncodingReader and its subclass    *)
(* ZlibHexEncodingReader.  A rectangle is a sequence of tiles; the first      *)
(* byte of a tile, a set of bits, says what follows, and a tile may be drawn  *)
(* with the background and foreground of the one before.                    *)
(***************************************************************************)
EXTENDS Rectangles

MaxX(r) == r.x + r.w
MaxY(r) == r.y + r.h

\* currentTile in nextTile; below the rectangle after the last
TileAfter(t, r) ==
    LET wraps == t.x + TileSize >= MaxX(r)
        x == IF wraps THEN r.x ELSE t.x + TileSize
        y == IF wraps THEN t.y + TileSize ELSE t.y
    IN [x |-> x, y |-> y, w |-> Min({TileSize, MaxX(r) - x}),
        h |-> Min({TileSize, MaxY(r) - y})]

NextTile ==
    LET next == TileAfter(part.tile, frame)
    IN IF next.y >= MaxY(frame)
       THEN DidRect
       ELSE /\ Expect("subEncoding", 1)
            /\ part' = [encoding |-> part.encoding, tile |-> next]

Await(what, size, mask) ==
    /\ Expect(what, size)
    /\ part' = [encoding |-> part.encoding, tile |-> part.tile, mask |-> mask]

-----------------------------------------------------------------------------

\* The bits a foreground makes meaningless are cleared.
Meant(mask) == IF "foreground" \in mask THEN mask \ {"coloured"} ELSE mask

\* setSubEncoding: of HextileEncodingReader
HextileSubEncoding(mask) ==
    IF "raw" \in mask
    THEN Await("rawTile", format.bytes * Area(part.tile), {}) /\ UNCHANGED pixels
    ELSE LET size == format.bytes * Cardinality(mask \cap {"background", "foreground"})
                     + Cardinality(mask \cap {"subrects"})
         IN /\ pixels' = IF "background" \in mask THEN pixels
                         ELSE FillRect(pixels, part.tile, background)
            /\ IF size > 0 THEN Await("tileHeader", size, Meant(mask)) ELSE NextTile

SetSubEncoding ==
    /\ Reads("subEncoding")
    /\ IF part.encoding = "zlibHex" /\ value \cap {"zlibRaw", "zlibHex"} # {}
       THEN Await("zLength", 2, value) /\ UNCHANGED pixels
       ELSE HextileSubEncoding(value)
    /\ UNCHANGED <<copying, buffer, frame, colours, zStream>>

\* The pixels of the header, as far as the mask says there are any.
SetColours(mask) ==
    /\ background' = IF "background" \in mask THEN Colour(value.background) ELSE background
    /\ foreground' = IF "foreground" \in mask THEN Colour(value.foreground) ELSE foreground

\* Bytes of a subrectangle: its place and size are two.
TileRectSize(mask) == IF "coloured" \in mask THEN format.bytes + 2 ELSE 2

SetTileHeader ==
    /\ Reads("tileHeader")
    /\ SetColours(part.mask)
    /\ pixels' = IF "background" \in part.mask
                 THEN FillRect(pixels, part.tile, background') ELSE pixels
    /\ IF "subrects" \in part.mask
       THEN Await("tileRects", TileRectSize(part.mask) * value.numOfSubRects, part.mask)
       ELSE NextTile
    /\ UNCHANGED <<copying, buffer, frame, zStream>>

\* drawSubColorRects:, drawSubRects:
DrawnRects(p, mask, subRects) ==
    FillSubRects(p, part.tile, subRects,
                 [n \in DOMAIN subRects |->
                      IF "coloured" \in mask THEN Colour(subRects[n].pixel) ELSE foreground'])

DrawSubRects ==
    /\ Reads("tileRects")
    /\ UNCHANGED colours
    /\ pixels' = DrawnRects(pixels, part.mask, value)
    /\ NextTile
    /\ UNCHANGED <<copying, buffer, frame, zStream>>

-----------------------------------------------------------------------------
(* ZlibHex.  rawReader reads a raw tile, or a deflated one: the mask tells.   *)

SetZLength ==
    /\ Reads("zLength")
    /\ Await(IF "zlibRaw" \in part.mask THEN "zlibRawTile" ELSE "rawTile", value, part.mask)
    /\ UNCHANGED <<copyVars, buffer, frame, colours, zStream>>

SetZlibRawTile ==
    /\ Reads("zlibRawTile")
    /\ pixels' = PutData(pixels, part.tile, value)
    /\ NextTile
    /\ UNCHANGED <<copying, buffer, frame, colours, zStream>>

\* drawRawTile: when the tile was deflated: its header and subrectangles.  The
\* buffer they are inflated into grows if it has to.
DrawZlibHexTile ==
    /\ "zlibHex" \in part.mask
    /\ LET mask == Meant(part.mask)
       IN /\ SetColours(mask)
          /\ LET filled == FillRect(pixels, part.tile, background')
             IN pixels' = IF "subrects" \in mask
                          THEN DrawnRects(filled, mask, value.subRects) ELSE filled
    /\ NextTile

DrawRawTile ==
    /\ Reads("rawTile")
    /\ \/ DrawZlibHexTile
       \/ /\ "zlibHex" \notin part.mask
          /\ pixels' = PutData(pixels, part.tile, value)
          /\ NextTile
          /\ UNCHANGED colours
    /\ UNCHANGED <<copying, buffer, frame, zStream>>

-----------------------------------------------------------------------------
(* The server.  It sends the next tile when the last was read; serving is     *)
(* the tile, and the colours the client will keep.                          *)

ServeHextile(encoding, r, new) ==
    /\ Idle
    /\ picture' = Over(r, new)
    /\ wire' = <<Header(r, encoding)>>
    /\ serving' = <<[tile |-> FirstTile(r), encoding |-> encoding,
                     background |-> <<>>, foreground |-> <<>>]>>
    /\ rects' = rects + 1
    /\ UNCHANGED <<copyVars, format, client, deflated>>

\* The server goes on to the next tile.
Served(r, bg, fg) ==
    LET s == Head(serving)
        next == TileAfter(s.tile, r)
    IN serving' = IF next.y >= MaxY(r) THEN <<>>
                  ELSE <<[s EXCEPT !.tile = next, !.background = bg, !.foreground = fg]>>

\* A tile of plain pixels; of the next, both colours are specified.
ServeRawTile ==
    LET s == Head(serving)
        data == PixelsOf(Content(picture, s.tile))
    IN /\ \/ wire' = <<Item("subEncoding", 1, {"raw"}), Item("rawTile", Len(data), data)>>
          \/ /\ s.encoding = "zlibHex"
             /\ wire' = <<Item("subEncoding", 1, {"zlibRaw"}), Item("zLength", 2, 3),
                          Item("zlibRawTile", 3, data)>>
       /\ Served(frame, <<>>, <<>>)

\* The ways to send subrectangles subs on background b.
Masks(s, b, subs) ==
    LET said == IF b = s.background THEN {{}, {"background"}} ELSE {{"background"}}
        one == Cardinality({sub.pixel : sub \in ToSet(subs)}) = 1
        how == IF subs = <<>> THEN {{}}
               ELSE {{"subrects", "coloured"}}
                    \cup (IF one THEN {{"subrects", "foreground"}} ELSE {})
                    \cup (IF one /\ s.foreground = subs[1].pixel THEN {{"subrects"}} ELSE {})
    IN {m \cup n : m \in said, n \in how}

ServeTileRects ==
    LET s == Head(serving) IN
    \E b \in ToSet(Content(picture, s.tile)) :
        LET subs == SubRects(picture, s.tile, b)
            header == [background |-> PixelOf(b), numOfSubRects |-> Len(subs),
                       foreground |-> IF subs = <<>> THEN PixelOf(b) ELSE subs[1].pixel]
        IN \E mask \in Masks(s, PixelOf(b), subs) :
            LET headerSize == format.bytes * Cardinality(mask \cap {"background", "foreground"})
                              + Cardinality(mask \cap {"subrects"})
                rectSize == IF "coloured" \in mask THEN format.bytes + 2 ELSE 2
            IN /\ \/ wire' = <<Item("subEncoding", 1, mask)>>
                        \o (IF headerSize = 0 THEN <<>>
                            ELSE <<Item("tileHeader", headerSize, header)>>)
                        \o (IF subs = <<>> THEN <<>>
                            ELSE <<Item("tileRects", rectSize * Len(subs), subs)>>)
                  \/ /\ s.encoding = "zlibHex"
                     /\ wire' = <<Item("subEncoding", 1, mask \cup {"zlibHex"}),
                                  Item("zLength", 2, 3),
                                  Item("rawTile", 3, header @@ [subRects |-> subs])>>
               /\ Served(frame, PixelOf(b),
                         IF "foreground" \in mask THEN header.foreground ELSE s.foreground)

ServeTile ==
    /\ serving # <<>> /\ wire = <<>> /\ reader.of = "subEncoding"
    /\ ServeRawTile \/ ServeTileRects
    /\ UNCHANGED <<copyVars, format, client, picture, deflated, rects>>
=============================================================================
