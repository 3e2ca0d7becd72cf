--------------------------- MODULE HeatshrinkDecoder ---------------------------
(***************************************************************************)
(* HeatshrinkDecoder, which expands the data of a compressed BGCode block: *)
(* bits are read from the front of the data, a tag of one bit says whether *)
(* a literal byte or a back-reference into the window follows.             *)
(*                                                                         *)
(* The data is an encoding of tokens, padded to a whole byte, and what was *)
(* read beyond it.  readBits fills its accumulator by bytes: its number of *)
(* bits is the distance from position to the end of a byte.                *)
(***************************************************************************)
EXTENDS Integers, Sequences

VARIABLES
    encoding,      \* what the data stands for: [window, lookahead, tokens, after]
    position,      \* bits read
    hsState,       \* the decoder's state, "stopped" when the loop has ended
    index,         \* outputIndex
    count,         \* outputCount
    window,        \* the bytes of the window written so far
    head,
    output

hsVars == <<encoding, position, hsState, index, count, window, head, output>>

\* 1 << k; the number of bits of the window or of a length is at most 30.
Power[k \in 0..30] == IF k = 0 THEN 1 ELSE 2 * Power[k - 1]

\* The encoder's side of a number, most significant bit first, and the
\* decoder's
Bits(n, width) == [i \in 1..width |-> (n \div Power[width - i]) % 2]

Number(bits) ==
    LET value[i \in 0..Len(bits)] == IF i = 0 THEN 0 ELSE 2 * value[i - 1] + bits[i]
    IN  value[Len(bits)]

Literal(b) == [back |-> FALSE, byte |-> b, index |-> 0, count |-> 0]

BackRef(i, n) == [back |-> TRUE, byte |-> 0, index |-> i, count |-> n]

Token == [back : BOOLEAN, byte : 0..255, index : Nat, count : Nat]

\* What an encoder makes: its references fit in their bits.
IsEncoding(e) ==
    /\ e \in [window : 1..30, lookahead : 1..30, tokens : Seq(Token), after : Seq({0, 1})]
    /\ \A i \in DOMAIN e.tokens :
          e.tokens[i].back => /\ e.tokens[i].index \in 1..Power[e.window]
                              /\ e.tokens[i].count \in 1..Power[e.lookahead]

Encoded(e, t) ==
    IF t.back THEN <<0>> \o Bits(t.index - 1, e.window) \o Bits(t.count - 1, e.lookahead)
    ELSE <<1>> \o Bits(t.byte, 8)

\* The codes of the first k tokens
Codes(e, k) ==
    LET codes[i \in 0..Len(e.tokens)] ==
            IF i = 0 THEN << >> ELSE codes[i - 1] \o Encoded(e, e.tokens[i])
    IN  codes[k]

EncodedTokens(e) == Codes(e, Len(e.tokens))

Padding(e) == [i \in 1..((-Len(EncodedTokens(e))) % 8) |-> 0]

Data(e) == EncodedTokens(e) \o Padding(e) \o e.after

HeatshrinkInit(encodings) ==
    /\ encoding \in encodings
    /\ position = 0
    /\ hsState = "tag"
    /\ index = 0
    /\ count = 0
    /\ window = << >>
    /\ head = 0
    /\ output = << >>

\* The loop of decompress goes on while there are bits.
More == position < Len(Data(encoding))

\* readBits: n bits, and the next state, if there are as many; the decoder
\* stops if there are not.
Reading(n) == SubSeq(Data(encoding), position + 1, position + n)

Reads(state, n, next) ==
    /\ hsState = state
    /\ More
    /\ IF position + n <= Len(Data(encoding))
       THEN position' = position + n /\ hsState' = next
       ELSE position' = position /\ hsState' = "stopped"

\* v, once the bits were there, and else what it was
Read(v, old) == IF hsState' = "stopped" THEN old ELSE v

\* pushByte, and the byte is output
Pushes(byte) ==
    /\ window' = [p \in DOMAIN window \cup {head} |-> IF p = head THEN byte ELSE window[p]]
    /\ head' = (head + 1) % Power[encoding.window]
    /\ output' = Append(output, byte)

HandleTagBit ==
    /\ Reads("tag", 1, IF Reading(1) = <<1>> THEN "literal"
                       ELSE IF encoding.window > 8 THEN "indexMSB" ELSE "indexLSB")
    /\ index' = IF hsState' = "indexLSB" THEN 0 ELSE index
    /\ UNCHANGED <<encoding, count, window, head, output>>

HandleYieldLiteral ==
    /\ Reads("literal", 8, "tag")
    /\ IF hsState' = "tag" THEN Pushes(Number(Reading(8))) ELSE UNCHANGED <<window, head, output>>
    /\ UNCHANGED <<encoding, index, count>>

HandleBackrefIndexMSB ==
    /\ Reads("indexMSB", encoding.window - 8, "indexLSB")
    /\ index' = Read(Number(Reading(encoding.window - 8)) * 256, index)
    /\ UNCHANGED <<encoding, count, window, head, output>>

LowBits(n) == IF n > 8 THEN 8 ELSE n

HandleBackrefIndexLSB ==
    LET n == LowBits(encoding.window)
    IN  /\ Reads("indexLSB", n, IF encoding.lookahead > 8 THEN "countMSB" ELSE "countLSB")
        /\ index' = Read(index + Number(Reading(n)), index)
        /\ count' = Read(0, count)
        /\ UNCHANGED <<encoding, window, head, output>>

HandleBackrefCountMSB ==
    /\ Reads("countMSB", encoding.lookahead - 8, "countLSB")
    /\ count' = Read(Number(Reading(encoding.lookahead - 8)) * 256, count)
    /\ UNCHANGED <<encoding, index, window, head, output>>

\* The length and the index are stored as one less.
HandleBackrefCountLSB ==
    LET n == LowBits(encoding.lookahead)
    IN  /\ Reads("countLSB", n, "yield")
        /\ count' = Read(count + Number(Reading(n)) + 1, count)
        /\ index' = Read(index + 1, index)
        /\ UNCHANGED <<encoding, window, head, output>>

\* Fault: the window ends where the output does.
WindowUnwrapped(pos) == IF pos < Len(output) THEN output[pos + 1] ELSE 0

\* The window begins as zeros.
WindowAt(pos) == IF pos \in DOMAIN window THEN window[pos] ELSE 0

HandleYieldBackref ==
    /\ hsState = "yield"
    /\ More
    /\ Pushes(WindowAt((head - index + Power[encoding.window]) % Power[encoding.window]))
    /\ count' = count - 1
    /\ hsState' = IF count = 1 THEN "tag" ELSE "yield"
    /\ UNCHANGED <<encoding, position, index>>

\* The loop of decompress ends
InputEnds ==
    /\ hsState # "stopped"
    /\ ~More
    /\ hsState' = "stopped"
    /\ UNCHANGED <<encoding, position, index, count, window, head, output>>

HeatshrinkNext ==
    \/ HandleTagBit \/ HandleYieldLiteral
    \/ HandleBackrefIndexMSB \/ HandleBackrefIndexLSB
    \/ HandleBackrefCountMSB \/ HandleBackrefCountLSB
    \/ HandleYieldBackref \/ InputEnds

-----------------------------------------------------------------------------
(* Properties.                                                             *)

\* The byte so far back, zero before the first
Back(out, distance) == IF distance > Len(out) THEN 0 ELSE out[Len(out) + 1 - distance]

Again(out, distance) == Append(out, Back(out, distance))

\* What tokens stand for, whatever the window's size: a byte, or as many as
\* the reference counts, each a copy of the one so far back, of which here n
Copied(out, t, n) ==
    LET copied[k \in 0..t.count] ==
            IF k = 0 THEN out ELSE Again(copied[k - 1], t.index)
    IN  copied[n]

With(out, t) == IF t.back THEN Copied(out, t, t.count) ELSE Append(out, t.byte)

\* Of the first k tokens
Expansion(tokens, k) ==
    LET expansion[i \in 0..Len(tokens)] ==
            IF i = 0 THEN << >> ELSE With(expansion[i - 1], tokens[i])
    IN  expansion[k]

Expanded(e) == Expansion(e.tokens, Len(e.tokens))

\* The data ends with the last bit of a reference.
EndsInReference(e) ==
    /\ e.tokens # << >> /\ e.tokens[Len(e.tokens)].back
    /\ Padding(e) = << >> /\ e.after = << >>

\* The decoder never puts out a byte that is not the next of the expansion,
\* and when it stops nothing of it is missing, over any window and however
\* the references lie in the bytes; except that it drops a reference with
\* which the data ends (and that it puts out more if there is more).
OutputIsExpansion ==
    LET n     == Len(encoding.tokens)
        whole == Expanded(encoding)
    IN  /\ \A i \in DOMAIN output \cap DOMAIN whole : output[i] = whole[i]
        /\ hsState = "stopped" =>
              Len(output) >= Len(Expansion(encoding.tokens, IF EndsInReference(encoding) THEN n - 1 ELSE n))

-----------------------------------------------------------------------------
(* What the repository says, and the code does not do.                     *)

\* heatshrink-decoder.ts:56, "No more data" is why the decoder stops: with
\* nothing after the data, its output is the whole expansion.
StopsWithAll ==
    hsState = "stopped" /\ encoding.after = << >> => Len(output) >= Len(Expanded(encoding))

=============================================================================
