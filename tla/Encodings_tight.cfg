SPECIFICATION Spec
CONSTANTS
    Width = 3
    Height = 3
    ByteBits = 2
    Pixel <- MCPixel
    Formats <- MCLittleEndian
    Frames <- MCFrames
    Pictures <- MCPictures
    Encodings = {"tight", "none"}
    TileSize = 2
    MaxRects = 1
    Streams = {0, 1}
    ZBufSize = 13
    MinToCompress = 4
INVARIANTS
    TightIsRgb
CHECK_DEADLOCK FALSE
