------------------------------- MODULE GCodeFile -------------------------------
(***************************************************************************)
(* GCodeParser: a text file is read three times, its first lines and its   *)
(* last bytes for metadata, and its first lines for thumbnails.  A line is *)
(* a comment that gives a key a value, one that begins or ends a thumbnail *)
(* or holds a piece of its image, or no comment.                           *)
(***************************************************************************)
EXTENDS Integers, Sequences

CONSTANTS
    Keys,              \* the keys of metadata a file may have
    MaxHeaderLines     \* maxHeaderLinesToRead (500 in the code)

VARIABLES
    lines,         \* the file: [kind, key, format]
    footerFrom,    \* the first whole line of the last 25000 bytes
    gPhase,
    cursor,        \* the line to be read next
    metadata,      \* of each key found, the line its value is of
    thumbnails,    \* the pieces of each image, and its format
    current        \* inThumbnail, currentFormat and thumbnailData

gcodeVars == <<lines, footerFrom, gPhase, cursor, metadata, thumbnails, current>>

LineKinds == {"code", "data", "key", "begin", "end"}

Line == [kind : LineKinds, key : Keys \cup {""}, format : {"PNG", "JPG", "QOI", ""}]

NoThumbnail == [inside |-> FALSE, format |-> "PNG", data |-> << >>]

GCodeInit(files) ==
    /\ lines \in files
    /\ footerFrom \in 1..(Len(lines) + 1)
    /\ gPhase = "header"
    /\ cursor = 1
    /\ metadata = [k \in Keys |-> 0]
    /\ thumbnails = << >>
    /\ current = NoThumbnail

\* parseMetadataLine: "Don't overwrite if already set"
ParsedLine(n) ==
    [k \in Keys |-> IF lines[n].kind = "key" /\ lines[n].key = k /\ metadata[k] = 0
                    THEN n ELSE metadata[k]]

\* extractMetadataFromStart
HeaderLine ==
    /\ gPhase = "header"
    /\ IF cursor <= Len(lines) /\ cursor <= MaxHeaderLines
       THEN metadata' = ParsedLine(cursor) /\ cursor' = cursor + 1 /\ UNCHANGED gPhase
       ELSE gPhase' = "footer" /\ cursor' = footerFrom /\ UNCHANGED metadata
    /\ UNCHANGED <<lines, footerFrom, thumbnails, current>>

\* extractMetadataFromEnd
FooterLine ==
    /\ gPhase = "footer"
    /\ IF cursor <= Len(lines)
       THEN metadata' = ParsedLine(cursor) /\ cursor' = cursor + 1 /\ UNCHANGED gPhase
       ELSE gPhase' = "thumbnails" /\ cursor' = 1 /\ UNCHANGED metadata
    /\ UNCHANGED <<lines, footerFrom, thumbnails, current>>

\* An image of format QOI is converted to PNG, or kept if that fails.
Formats(format) == IF format = "QOI" THEN {"PNG", "QOI"} ELSE {format}

ThumbnailBegins ==
    /\ lines[cursor].kind = "begin"
    /\ current' = [inside |-> TRUE, format |-> lines[cursor].format, data |-> << >>]
    /\ UNCHANGED thumbnails

ThumbnailEnds ==
    /\ current.inside
    /\ lines[cursor].kind = "end"
    /\ \E format \in Formats(current.format) :
          thumbnails' = Append(thumbnails, [format |-> format, data |-> current.data])
    /\ current' = [current EXCEPT !.inside = FALSE, !.data = << >>]

\* Any other comment is a piece of the image.
ThumbnailData ==
    /\ current.inside
    /\ lines[cursor].kind \in {"data", "key"}
    /\ current' = [current EXCEPT !.data = Append(@, cursor)]
    /\ UNCHANGED thumbnails

OtherLine ==
    /\ IF current.inside THEN lines[cursor].kind = "code" ELSE lines[cursor].kind # "begin"
    /\ UNCHANGED <<current, thumbnails>>

\* extractThumbnails: the limit counts only outside of a thumbnail.
\* Fault: it counts inside of one too.
StrictLimit == cursor <= Len(lines) /\ cursor <= MaxHeaderLines

MoreForThumbnails ==
    cursor <= Len(lines) /\ (cursor <= MaxHeaderLines \/ current.inside)

ThumbnailLine ==
    /\ gPhase = "thumbnails"
    /\ MoreForThumbnails
    /\ ThumbnailBegins \/ ThumbnailEnds \/ ThumbnailData \/ OtherLine
    /\ cursor' = cursor + 1
    /\ UNCHANGED <<lines, footerFrom, gPhase, metadata>>

ThumbnailsEnd ==
    /\ gPhase = "thumbnails"
    /\ ~MoreForThumbnails
    /\ gPhase' = "done"
    /\ UNCHANGED <<lines, footerFrom, cursor, metadata, thumbnails, current>>

GCodeNext == HeaderLine \/ FooterLine \/ ThumbnailLine \/ ThumbnailsEnd

-----------------------------------------------------------------------------
(* Properties.                                                             *)

Between(kind, a, b) == {n \in (a + 1)..(b - 1) : lines[n].kind = kind}

\* Line a begins a thumbnail that line b ends: none begins or ends between
\* them, and at most an unfinished one keeps the parser reading until a.
Whole(a, b) ==
    /\ lines[a].kind = "begin" /\ lines[b].kind = "end"
    /\ a < b /\ Between("begin", a, b) = {} /\ Between("end", a, b) = {}
    /\ \/ a <= MaxHeaderLines
       \/ \E c \in 1..MaxHeaderLines :
             lines[c].kind = "begin" /\ Between("end", c, a) = {}

\* The numbers s are those of the comments between lines a and b, in order.
AreCommentsBetween(s, a, b) ==
    /\ \A i \in DOMAIN s : s[i] \in (a + 1)..(b - 1) /\ lines[s[i]].kind # "code"
    /\ \A i, k \in DOMAIN s : i < k => s[i] < s[k]
    /\ \A n \in (a + 1)..(b - 1) : lines[n].kind # "code" => \E i \in DOMAIN s : s[i] = n

KeyLines(k, N) == {n \in N : lines[n].kind = "key" /\ lines[n].key = k}

\* n is the first of the lines N that gives key k a value, 0 if none does.
IsFirst(n, k, N) ==
    IF KeyLines(k, N) = {} THEN n = 0
    ELSE n \in KeyLines(k, N) /\ \A m \in KeyLines(k, N) : n <= m

HeaderLines == {n \in DOMAIN lines : n <= MaxHeaderLines}

\* When a file has been parsed, its thumbnails are those that are begun near
\* its start and ended, however far behind, each with the comments between
\* the two lines in their order and none of an unfinished one before it; and
\* a key has the first value its header gives it, "header takes precedence",
\* or else the first its footer does.
FileIsUnderstood ==
    gPhase = "done" =>
        /\ \A t \in DOMAIN thumbnails :
              \E a, b \in DOMAIN lines : Whole(a, b) /\ AreCommentsBetween(thumbnails[t].data, a, b)
        /\ \A a, b \in DOMAIN lines :
              Whole(a, b) => \E t \in DOMAIN thumbnails : AreCommentsBetween(thumbnails[t].data, a, b)
        /\ \A k \in Keys :
              IsFirst(metadata[k], k,
                      IF KeyLines(k, HeaderLines) # {} THEN HeaderLines ELSE footerFrom..Len(lines))

=============================================================================
