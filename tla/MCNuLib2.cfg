SPECIFICATION Spec
CONSTANTS
    Chars <- MCChars
    HexDigits <- MCHex
    Decimals <- MCDecimals
    ShortType = 2
    LongType = 3
    NoType <- NON
    TextType <- TXT
    TypeName <- MCTypeName
    ExtType <- MCExtType
    MaxExtLen = 3
    BlockSize = 4
    SqBufferSize = 8
    MinFill = 2
    MinSqueezed = 3
    Sessions <- MCSessions
    RenameTo <- MCRenameTo
INVARIANTS Lib2TypeOK HeadersAligned IntactReads NamedForIt NamesComeBack 
PROPERTIES ReadsInOrder NothingOverwritten CommandEnds
