------------------------------- MODULE Encodings -------------------------------
(***************************************************************************)
(* The rectangles of a connection, one after the other in any encoding, and  *)
(* what the client shows.                                                   *)
(***************************************************************************)
EXTENDS Tight

TypeOK ==
    /\ pixels \in [Cells -> Pixel] /\ picture \in [Cells -> Pixel]
    /\ format \in Formats
    /\ serverIsBigEndian \in BOOLEAN /\ tightBytesPerPixel \in 1..4
    /\ reader.of \in STRING /\ reader.size \in Nat
    /\ frame \in [x: 0..Width, y: 0..Height, w: 0..Width, h: 0..Height]
    /\ part.encoding \in Encodings \cup {"none"}
    /\ "prevRow" \in DOMAIN part => part.prevRow \in [1..frame.w -> Pixel]
    /\ background \in Pixel /\ foreground \in Pixel
    /\ zStream \in [Streams -> 0..MaxRects] /\ deflated \in [Streams -> 0..MaxRects]
    /\ lines \in 0..Height /\ i \in 0..Width
    /\ rects \in 0..MaxRects

\* The frame buffer is new, and so is the connection.
Init ==
    /\ pixels = Blank /\ before = pixels
    /\ from = [x |-> 0, y |-> 0, w |-> 0, h |-> 0] /\ to = [x |-> 0, y |-> 0]
    /\ lines = 0 /\ i = 0 /\ src = 0 /\ dst = 0
    /\ format \in Formats
    /\ serverIsBigEndian = format.bigEndian /\ tightBytesPerPixel = format.tight
    /\ reader = [of |-> "rect", size |-> 12] /\ frame = from /\ part = Nothing
    /\ background = Black /\ foreground = Black
    /\ zStream = [s \in Streams |-> 0] /\ deflated = zStream
    /\ wire = <<>> /\ picture = pixels /\ serving = <<>> /\ rects = 0

Copies == CopyPixel /\ UNCHANGED <<format, client, wire, server>>

Serve ==
    \E r \in Frames :
        \/ \E new \in Pictures, e \in Encodings :
            \/ e \in {"raw", "rre", "coRre", "zlib"} /\ ServeSimple(e, r, new)
            \/ e \in {"hextile", "zlibHex"} /\ ServeHextile(e, r, new)
            \/ e = "zrle" /\ \E how \in {"raw", "packed", "plainRle", "paletteRle"} :
                                 ServeZrle(r, new, how)
            \/ e = "tight" /\ ServeTight(r, new)
        \/ /\ "copyRect" \in Encodings
           /\ \E p, q \in [x: 0..Width - r.w, y: 0..Height - r.h] :
                  ServeCopy([r EXCEPT !.x = p.x, !.y = p.y], q.x, q.y)

Next ==
    \/ Serve \/ ServeTile
    \/ SetRect \/ SetPixels \/ SetPosition \/ Copies \/ SetNumOfRects \/ SetBackground
    \/ DrawRectangles \/ SetNumBytes \/ SetUncompressedData
    \/ SetSubEncoding \/ SetTileHeader \/ DrawSubRects
    \/ SetZLength \/ SetZlibRawTile \/ DrawRawTile
    \/ SetUncompressedTiles
    \/ SetControl \/ SetFilterId \/ SetColors \/ SetPalette \/ SetFill
    \/ SetUnzippedData \/ SetZipLength \/ SetJpeg \/ SetZippedData

Spec == Init /\ [][Next]_vars

-----------------------------------------------------------------------------
(* Properties. *)

\* The client knows where it is in the stream: what comes is always what its
\* reader waits for, and of its size, whatever encodings, formats, tiles, masks,
\* palettes and compressed pieces came before; and when a rectangle is over for
\* the client it is for the server.
InStep ==
    /\ wire # <<>> => /\ Head(wire).of = reader.of
                      /\ \/ Head(wire).size = reader.size
                         \/ reader.of = "zipped" /\ reader.size <= Head(wire).size
    /\ wire = <<>> => reader.of = IF serving = <<>> THEN "rect" ELSE "subEncoding"

\* When the client has read what the server sent, it shows what the server
\* shows, in every encoding and format.
DrawsThePicture ==
    wire = <<>> /\ serving = <<>> /\ lines = 0 => pixels = picture

\* Tight pixels of three bytes are red, green and blue in this order, whatever
\* the byte order of the format (FrameBuffer.m:322), and are drawn so.
TightIsRgb ==
    format.tight = 3 /\ wire = <<>> /\ serving = <<>> /\ lines = 0 => pixels = picture
=============================================================================
