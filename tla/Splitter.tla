------------------------------ MODULE Splitter -------------------------------
(***************************************************************************)
(* splitForTelegram (telegram/outbound.ts): a text too long for one message *)
(* becomes chunks that end in a marker " (i/N)".  The width of a marker     *)
(* depends on how many chunks there will be, which depends on the width of  *)
(* a marker; the code estimates it.                                        *)
(*                                                                         *)
(* A text is its length in UTF-16 units, and a chunk is the interval of the *)
(* text it carries with the length of its marker.                          *)
(***************************************************************************)
EXTENDS Integers, Sequences

AtLeastOne(n) == IF n < 1 THEN 1 ELSE n
CeilDiv(n, d) == (n + d - 1) \div d

(* What the first estimate reserves for a marker.                          *)
Reserved == 12

(* Bound: numbers of chunks are below this.                                *)
ManyChunks == 10000

(* Decimal digits of a number of chunks.                                   *)
Digits(n) == IF n < 10 THEN 1 ELSE IF n < 100 THEN 2 ELSE IF n < 1000 THEN 3 ELSE 4

(* A bug: one digit is taken for granted.                                  *)
OneDigit(n) == 4 + 2

SuffixLength(n) == 4 + 2 * Digits(n)

Rough(len, size) == CeilDiv(len, AtLeastOne(size - Reserved))
Adjusted(len, size) == AtLeastOne(size - SuffixLength(Rough(len, size)))

ChunkAt(i, n, width, len) ==
  [from |-> (i - 1) * width,
   upto |-> IF i * width < len THEN i * width ELSE len,
   marker |-> 4 + Digits(i) + Digits(n)]

Split(len, size) ==
  IF len <= size THEN <<[from |-> 0, upto |-> len, marker |-> 0]>>
  ELSE LET width == Adjusted(len, size)
           n     == CeilDiv(len, width)
       IN  [i \in 1 .. n |-> ChunkAt(i, n, width, len)]

(* The chunks carry the text, in order and once, and each fits.            *)
CarriesText(chunks, len) ==
  /\ chunks # <<>> /\ chunks[1].from = 0 /\ chunks[Len(chunks)].upto = len
  /\ \A i \in 1 .. Len(chunks) - 1 : chunks[i].upto = chunks[i + 1].from
  /\ \A i \in 1 .. Len(chunks) : chunks[i].from <= chunks[i].upto

EachFits(chunks, size) ==
  \A i \in 1 .. Len(chunks) : chunks[i].upto - chunks[i].from + chunks[i].marker <= size
=============================================================================
