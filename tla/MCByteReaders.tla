---------------------------- MODULE MCByteReaders ----------------------------
(* Streams of up to three items, of each kind and of sizes that matter. *)
EXTENDS ByteReaders

Of(kind, sizes) == [kind: {kind}, size: sizes]

MCItems == Of("card8", {1}) \cup Of("card16", {2}) \cup Of("card32", {4}) \cup
           Of("string", {0, 2}) \cup Of("block", {0, 2, 3}) \cup Of("zlib", {2})

MCStreams == UNION {[1..n -> MCItems] : n \in 1..3}
=============================================================================
