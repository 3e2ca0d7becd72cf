------------------------------ MODULE BGCodeFile ------------------------------
(***************************************************************************)
(* BGCodeParser: the blocks of a binary G-code file are found one after    *)
(* another by their sizes, up to the first of G-code, then the data of the *)
(* metadata and of the thumbnails is read.  Offsets and sizes are bytes;   *)
(* of a block's contents the file has its header, and which block it is.   *)
(***************************************************************************)
EXTENDS Integers, Sequences

\* A file, and a block: what its header says of it.
BGCodeBlock == [type : Nat, compression : Nat, uncompressed : Nat, compressed : Nat]

BGCode == [version : Nat, checksum : Nat, blocks : Seq(BGCodeBlock)]

VARIABLES
    bgcode,        \* the file: [version, checksum, blocks]
    bgPhase,       \* how far the parser is
    offset,        \* where the next block begins
    expected,      \* currentExpectedHeaderIndex
    headers,       \* blockHeaders
    reads          \* the data read: header, first byte, number of bytes

bgcodeVars == <<bgcode, bgPhase, offset, expected, headers, reads>>

HeaderSize         == 10   \* BGCODE_HEADER_SIZE
MinBlockHeaderSize == 8
MaxBlockHeaderSize == 12

\* BgCodeBlockTypes
FileMetadata == 0
GCode == 1
SlicerMetadata == 2
PrinterMetadata == 3
PrintMetadata == 4
Thumbnail == 5

\* BGCODE_EXPECTED_HEADERS
ExpectedHeaders == <<FileMetadata, PrinterMetadata, Thumbnail,
                     PrintMetadata, SlicerMetadata, GCode>>

ParametersSize(type) == IF type = Thumbnail THEN 6 ELSE 2

ChecksumSize(checksum) == IF checksum = 1 THEN 4 ELSE 0

BlockHeaderSize(b) == IF b.compression > 0 THEN MaxBlockHeaderSize ELSE MinBlockHeaderSize

\* Fault: a compressed block is taken to be as long as its contents.
UncompressedBlockSize(b, checksum) ==
    BlockHeaderSize(b) + ParametersSize(b.type) + b.uncompressed + ChecksumSize(checksum)

\* calculateBlockSize
BlockSize(b, checksum) ==
    BlockHeaderSize(b) + ParametersSize(b.type) + ChecksumSize(checksum)
    + (IF b.compression = 0 THEN b.uncompressed ELSE b.compressed)

-----------------------------------------------------------------------------
(* The file, as its writer laid it out.                                    *)

Stored(b) == IF b.compression = 0 THEN b.uncompressed ELSE b.compressed

\* The bytes of a block, part by part
Laid(f, b) == <<IF b.compression = 0 THEN 8 ELSE 12, IF b.type = 5 THEN 6 ELSE 2,
                Stored(b), IF f.checksum = 1 THEN 4 ELSE 0>>

BlockLength(f, b) == LET part == Laid(f, b) IN part[1] + part[2] + part[3] + part[4]

\* Where each block begins, and where the last one ends
Offsets(f) ==
    LET start[i \in 1..(Len(f.blocks) + 1)] ==
            IF i = 1 THEN 10 ELSE start[i - 1] + BlockLength(f, f.blocks[i - 1])
    IN  start

Starts(f, i) == Offsets(f)[i]

DataStarts(f, i) == Starts(f, i) + Laid(f, f.blocks[i])[1] + Laid(f, f.blocks[i])[2]

FileSize(f) == Starts(f, Len(f.blocks) + 1)

\* The header read at an offset; anywhere else than at a block it is none.
NoBlock == [type |-> 6, compression |-> 0, uncompressed |-> 0, compressed |-> 0]

BlockAt(o) ==
    LET at == {i \in DOMAIN bgcode.blocks : Starts(bgcode, i) = o}
    IN  IF at = {} THEN NoBlock ELSE bgcode.blocks[CHOOSE i \in at : TRUE]

-----------------------------------------------------------------------------

BGCodeInit(files) ==
    /\ bgcode \in files
    /\ bgPhase = "start"
    /\ offset = HeaderSize
    /\ expected = 1
    /\ headers = << >>
    /\ reads = << >>

\* parseFileHeader, and the check of the version
ParseFileHeader ==
    /\ bgPhase = "start"
    /\ bgPhase' = IF bgcode.version = 1 THEN "blocks" ELSE "failed"
    /\ UNCHANGED <<bgcode, offset, expected, headers, reads>>

\* parseBlockHeader throws
Refused(b) ==
    \/ offset + MaxBlockHeaderSize > FileSize(bgcode)
    \/ b.type > 5
    \/ b.uncompressed = 0
    \/ b.compression > 3
    \/ b.compression > 0 /\ b.compressed = 0
    \/ bgcode.checksum > 1

\* Fault: the blocks may come in any order.
AnyExpected(type) ==
    {n \in DOMAIN ExpectedHeaders : ExpectedHeaders[n] = type}

\* A block is of the type expected, or of the next: one type at most, and the
\* first never, is left out.
NextExpected(type) ==
    {n \in {expected, expected + 1} \cap DOMAIN ExpectedHeaders : ExpectedHeaders[n] = type}

ParsedHeader(b) ==
    LET size   == BlockSize(b, bgcode.checksum)
        params == ParametersSize(b.type)
    IN  [type       |-> b.type,
         start      |-> offset,
         blockSize  |-> size,
         dataOffset |-> offset + BlockHeaderSize(b) + params,
         dataSize   |-> size - params - ChecksumSize(bgcode.checksum)]

\* One pass of the loop of parseBlockHeaders, with skipGcode
ParseBlock ==
    /\ bgPhase = "blocks"
    /\ offset < FileSize(bgcode)
    /\ LET b == BlockAt(offset)
       IN  \/ /\ ~Refused(b) /\ b.type # GCode /\ NextExpected(b.type) # {}
              /\ expected' = CHOOSE n \in NextExpected(b.type) : TRUE
              /\ headers' = Append(headers, ParsedHeader(b))
              /\ offset' = offset + BlockSize(b, bgcode.checksum)
              /\ UNCHANGED bgPhase
           \/ /\ ~Refused(b) /\ b.type = GCode
              /\ bgPhase' = "metadata"
              /\ UNCHANGED <<offset, expected, headers>>
           \/ /\ Refused(b) \/ (b.type # GCode /\ NextExpected(b.type) = {})
              /\ bgPhase' = "failed"
              /\ UNCHANGED <<offset, expected, headers>>
    /\ UNCHANGED <<bgcode, reads>>

BlocksEnd ==
    /\ bgPhase = "blocks"
    /\ offset >= FileSize(bgcode)
    /\ bgPhase' = "metadata"
    /\ UNCHANGED <<bgcode, offset, expected, headers, reads>>

\* The headers whose data extractMetadataFromBlocks reads, then those of
\* extractThumbnailsFromBlocks
Wanted(phase) ==
    {k \in DOMAIN headers : IF phase = "metadata" THEN headers[k].type # Thumbnail
                            ELSE headers[k].type = Thumbnail}

Unread == {k \in Wanted(bgPhase) : \A r \in DOMAIN reads : reads[r].of # headers[k]}

\* They are read in their order.  getBlockData refuses a size of 1000 (its
\* message says "> 1000").
ReadBlock ==
    /\ bgPhase \in {"metadata", "thumbnails"}
    /\ \E k \in Unread :
          /\ \A j \in Unread : k <= j
          /\ LET h == headers[k]
             IN  IF h.blockSize = 1000 THEN bgPhase' = "failed" /\ UNCHANGED reads
                 ELSE /\ reads' = Append(reads, [of |-> h, first |-> h.dataOffset, bytes |-> h.dataSize])
                      /\ UNCHANGED bgPhase
    /\ UNCHANGED <<bgcode, offset, expected, headers>>

AllRead ==
    /\ bgPhase \in {"metadata", "thumbnails"}
    /\ Unread = {}
    /\ bgPhase' = IF bgPhase = "metadata" THEN "thumbnails" ELSE "done"
    /\ UNCHANGED <<bgcode, offset, expected, headers, reads>>

BGCodeNext == ParseFileHeader \/ ParseBlock \/ BlocksEnd \/ ReadBlock \/ AllRead

-----------------------------------------------------------------------------
(* Properties.                                                             *)

BlocksBefore(f) ==
    LET gs == {i \in DOMAIN f.blocks : f.blocks[i].type = GCode}
    IN  IF gs = {} THEN DOMAIN f.blocks ELSE {i \in DOMAIN f.blocks : \A g \in gs : i < g}

\* The parser never loses its way among the blocks: each header it has found
\* is that of the file's next block, what it reads of a block begins at the
\* block's data and holds it whole, it reads none twice and none behind the
\* beginning of the G-code, and when it is done it has read all before that.
BlocksAreRead ==
    /\ offset = Starts(bgcode, Len(headers) + 1)
    /\ \A k \in DOMAIN headers :
          /\ headers[k].start = Starts(bgcode, k)
          /\ headers[k].type = bgcode.blocks[k].type
    /\ \A r \in DOMAIN reads :
          \E i \in BlocksBefore(bgcode) :
             /\ reads[r].first = DataStarts(bgcode, i)
             /\ reads[r].bytes >= Stored(bgcode.blocks[i])
    /\ \A r, t \in DOMAIN reads : reads[r].first = reads[t].first => r = t
    /\ bgPhase = "done" =>
          \A i \in BlocksBefore(bgcode) : \E r \in DOMAIN reads : reads[r].first = DataStarts(bgcode, i)

Rank(type) == CHOOSE n \in DOMAIN ExpectedHeaders : ExpectedHeaders[n] = type

\* The blocks in I come in the documented order.
InOrder(f, I) ==
    \A i, k \in I : i < k => Rank(f.blocks[i].type) <= Rank(f.blocks[k].type)

Types(f) == {f.blocks[i].type : i \in DOMAIN f.blocks}

\* A file nothing is wrong with, but for the blocks it may lack
Sound(f) ==
    /\ f.version = 1 /\ f.checksum <= 1
    /\ InOrder(f, DOMAIN f.blocks)
    /\ \A i \in DOMAIN f.blocks :
          /\ f.blocks[i].compression <= 3
          /\ Stored(f.blocks[i]) # 0 /\ f.blocks[i].uncompressed # 0
          /\ BlockLength(f, f.blocks[i]) >= MaxBlockHeaderSize
    /\ \A i \in BlocksBefore(f) : BlockLength(f, f.blocks[i]) # 1000

\* A file is accepted only if the blocks before its G-code come in the
\* documented order, and refused only if something is wrong with it or it
\* lacks blocks of some type.
OrderDecides ==
    /\ bgPhase = "done" => InOrder(bgcode, BlocksBefore(bgcode))
    /\ bgPhase = "failed" => ~Sound(bgcode) \/ Types(bgcode) # 0..5

-----------------------------------------------------------------------------
(* What the repository says, and the code does not do.                     *)

\* bgcode.constants.ts:24, "Thumbnails Blocks (optional)": a file that lacks
\* only those is not refused.
ThumbnailsAreOptional ==
    bgPhase = "failed" => ~Sound(bgcode) \/ Types(bgcode) # (0..5) \ {Thumbnail}

\* bgcode.utils.ts:140, "checksumOffset = dataOffset + dataSize": the checksum
\* is what follows the data that is read, and the next block follows it.
ChecksumFollowsData ==
    \A k \in DOMAIN headers :
        headers[k].dataOffset + headers[k].dataSize + ChecksumSize(bgcode.checksum)
            = headers[k].start + headers[k].blockSize

=============================================================================
