------------------------------- MODULE QoiDecoder -------------------------------
(***************************************************************************)
(* decodeQOI, which expands the thumbnails that slicers store as QOI: the  *)
(* chunks of an image are read byte by byte, and each gives the next pixel *)
(* or a run of them from the last pixel and an array of earlier ones.      *)
(*                                                                         *)
(* The file is an encoding of an image; at each pixel its writer may have  *)
(* chosen any chunk that stands for it.  Header and size are right, and    *)
(* the eight bytes of the end marker, for which the decoder looks before   *)
(* each chunk, are behind the last one only.                               *)
(***************************************************************************)
EXTENDS Integers, Sequences

VARIABLES
    image,         \* the pixels the file encodes
    pixel,         \* r, g, b, a of the decoder
    colors,        \* colorArray, as far as it is written
    pixels         \* output, pixel by pixel

qoiVars == <<image, pixel, colors, pixels>>

\* A pixel's red, green, blue and alpha
Pixel == [1..4 -> 0..255]

HashColor(p) == (p[1] * 3 + p[2] * 5 + p[3] * 7 + p[4] * 11) % 64

Byte(n) == n % 256

-----------------------------------------------------------------------------
(* The writer's side: the chunks, as bytes, that stand for what comes next *)
(* after n pixels of the image.                                            *)

Before(n) == IF n = 0 THEN <<0, 0, 0, 255>> ELSE image[n]

\* The latest pixel before of each hash
Seen(n, hash) ==
    LET of == {i \in 1..n : HashColor(image[i]) = hash}
    IN  IF of = {} THEN <<0, 0, 0, 0>> ELSE image[CHOOSE i \in of : \A k \in of : k <= i]

\* How much channel c changes, as a signed byte
Change(n, c) == ((image[n + 1][c] - Before(n)[c] + 128) % 256) - 128

Runs(n) ==
    {<<192 + k - 1>> : k \in {j \in 1..(Len(image) - n) :
                                j <= 62 /\ \A i \in 1..j : image[n + i] = Before(n)}}

Indices(n) == {<<h>> : h \in {g \in {HashColor(image[n + 1])} : Seen(n, g) = image[n + 1]}}

SameAlpha(n) == image[n + 1][4] = Before(n)[4]

Differences(n) ==
    IF SameAlpha(n) /\ \A c \in 1..3 : Change(n, c) \in -2..1
    THEN {<<64 + 16 * (Change(n, 1) + 2) + 4 * (Change(n, 2) + 2) + Change(n, 3) + 2>>} ELSE {}

Lumas(n) ==
    LET dg == Change(n, 2)
        dr == Change(n, 1) - dg
        db == Change(n, 3) - dg
    IN  IF SameAlpha(n) /\ dg \in -32..31 /\ dr \in -8..7 /\ db \in -8..7
        THEN {<<128 + dg + 32, 16 * (dr + 8) + db + 8>>} ELSE {}

Plains(n) ==
    LET p == image[n + 1]
    IN  {<<255, p[1], p[2], p[3], p[4]>>}
        \cup (IF SameAlpha(n) THEN {<<254, p[1], p[2], p[3]>>} ELSE {})

Chunks(n) == Runs(n) \cup Indices(n) \cup Differences(n) \cup Lumas(n) \cup Plains(n)

-----------------------------------------------------------------------------

QoiInit(images) ==
    /\ image \in images
    /\ pixel = <<0, 0, 0, 255>>
    /\ colors = << >>
    /\ pixels = << >>

Tag(chunk) == IF chunk[1] >= 254 THEN chunk[1] ELSE (chunk[1] \div 64) * 64

\* Bits of a byte: those of value "unit" on, as a number below "size"
Field(byte, unit, size) == (byte \div unit) % size

\* Fault: a difference that leaves the byte does not wrap.
Unwrapped(p, dr, dg, db) == <<p[1] + dr, p[2] + dg, p[3] + db, p[4]>>

Moved(p, dr, dg, db) == <<Byte(p[1] + dr), Byte(p[2] + dg), Byte(p[3] + db), p[4]>>

ColorAt(index) == IF index \in DOMAIN colors THEN colors[index] ELSE <<0, 0, 0, 0>>

DecodedPixel(chunk) ==
    LET b  == chunk[1]
        dg == Field(b, 1, 64) - 32
    IN  CASE Tag(chunk) = 254 -> <<chunk[2], chunk[3], chunk[4], pixel[4]>>
          [] Tag(chunk) = 255 -> <<chunk[2], chunk[3], chunk[4], chunk[5]>>
          [] Tag(chunk) = 0   -> ColorAt(Field(b, 1, 64))
          [] Tag(chunk) = 64  -> Moved(pixel, Field(b, 16, 4) - 2, Field(b, 4, 4) - 2, Field(b, 1, 4) - 2)
          [] Tag(chunk) = 128 -> Moved(pixel, dg + Field(chunk[2], 16, 16) - 8, dg,
                                              dg + Field(chunk[2], 1, 16) - 8)
          [] Tag(chunk) = 192 -> pixel

\* One pass of the loop, over a chunk of the file
DecodeChunk ==
    /\ Len(pixels) < Len(image)
    /\ \E chunk \in Chunks(Len(pixels)) :
          LET p == DecodedPixel(chunk)
              n == IF Tag(chunk) = 192 THEN Field(chunk[1], 1, 64) + 1 ELSE 1
          IN  /\ pixel' = p
              /\ pixels' = pixels \o [i \in 1..n |-> p]
              /\ colors' = [h \in DOMAIN colors \cup {HashColor(p)} |->
                               IF h = HashColor(p) THEN p ELSE colors[h]]
    /\ UNCHANGED image

-----------------------------------------------------------------------------
(* Properties.                                                             *)

\* Whatever chunks the writer chose, what has been decoded is the beginning
\* of the image: differences wrap at a byte's ends, and the array of earlier
\* pixels is the one the writer had.
DecodedIsImage ==
    /\ Len(pixels) <= Len(image)
    /\ \A i \in DOMAIN pixels : pixels[i] = image[i]

=============================================================================
