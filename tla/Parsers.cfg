SPECIFICATION ParserSpec
CONSTANTS
    BGCodeFiles <- MCBGCodeFiles
    Encodings <- MCEncodings
    Images <- MCImages
    GCodeFiles <- MCGCodeFiles
    Archives <- MCArchives
    Keys = {k1}
    MaxHeaderLines = 2
INVARIANTS BlocksAreRead OrderDecides OutputIsExpansion  DecodedIsImage 
CHECK_DEADLOCK FALSE
