---------------------------- MODULE MCOutputBuffer ----------------------------
(***************************************************************************)
(* Message sizes for OutputBuffer: those of rfbproto.h, and a buffer that a  *)
(* movement and two key events do not fit in.                               *)
(***************************************************************************)
EXTENDS OutputBuffer

MCPositions == {"here", "there"}
MCMasks == {"up", "left"}
MCSize(kind) ==
    IF kind \in {"move", "click"} THEN 6 ELSE IF kind = "key" THEN 8 ELSE 24
=============================================================================
