SPECIFICATION Spec
CONSTANTS
    Width = 3
    Height = 3
    ByteBits = 2
    Pixel <- MCPixel
    Formats <- MCFormats
    Frames <- MCFrames
    Pictures <- MCPictures
    Encodings = {"raw", "copyRect", "rre", "coRre", "zlib", "hextile", "zlibHex", "zrle", "tight", "none"}
    TileSize = 2
    MaxRects = 2
    Streams = {0, 1}
    ZBufSize = 13
    MinToCompress = 4
INVARIANTS
    TypeOK
    InStep
    DrawsThePicture
PROPERTIES
    CopyIsExact
CHECK_DEADLOCK FALSE
