------------------------------ MODULE MCEncodings ------------------------------
(* A screen of 3 x 3 pixels and bytes of two bits. *)
EXTENDS Encodings

MCPixel == [1..3 -> 0..3]

Format(bytes, tight, big, shift, max, force) ==
    [bytes |-> bytes, tight |-> tight, bigEndian |-> big, shift |-> shift,
     max |-> max, force |-> force]

\* One byte, two, four of which three are used, in both orders, and four of
\* which Tight uses all.
MCFormats ==
    {Format(1, 1, FALSE, <<0, 0, 1>>, <<1, 0, 1>>, FALSE),
     Format(2, 2, TRUE, <<2, 1, 0>>, <<1, 1, 1>>, FALSE),
     Format(4, 3, FALSE, <<4, 2, 0>>, <<3, 3, 3>>, TRUE),
     Format(4, 3, TRUE, <<4, 2, 0>>, <<3, 3, 3>>, FALSE),
     Format(4, 4, FALSE, <<4, 2, 0>>, <<3, 3, 3>>, FALSE)}

\* Red in the low byte, which setServerMajorVersion:minorVersion: leaves alone.
MCLittleEndian == {Format(4, 3, FALSE, <<0, 2, 4>>, <<3, 3, 3>>, FALSE)}

MCFrames == {[x |-> 0, y |-> 0, w |-> 3, h |-> 3], [x |-> 1, y |-> 1, w |-> 2, h |-> 2],
             [x |-> 1, y |-> 0, w |-> 2, h |-> 3]}

Red == <<1, 0, 0>>
Blue == <<0, 0, 1>>

Show(cs) == [a \in Cells |-> cs[a + 1]]

MCPictures ==
    {Show(<<Blue, Blue, Blue, Blue, Blue, Red, Black, Black, Red>>),
     Show(<<Red, Black, Black, Black, Red, Red, Black, Red, Red>>)}
=============================================================================
