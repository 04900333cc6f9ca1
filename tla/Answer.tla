------------------------------- MODULE Answer -------------------------------
(***************************************************************************)
(* From the bytes a CLI wrote to the chunks a user is sent: the readers of  *)
(* the two pipes and the parser (providers/stream_json.ts), which share one *)
(* assembler (providers/claude.ts), the text of the notification            *)
(* (queue/worker.ts) and its chunks (module Splitter).                     *)
(*                                                                         *)
(* What the CLI wrote is fixed at first; when its bytes arrive, and in what *)
(* pieces, is not.  A line is two characters, the first of two bytes.  The  *)
(* last line may be cut where the CLI was killed, or lack its newline.  The *)
(* length of a text is in UTF-16 units and free of its characters.         *)
(***************************************************************************)
EXTENDS Splitter, SequencesExt

CONSTANTS
  Lines,     \* lines a CLI may write
  MaxLines,  \* bound: lines for each stream
  Sizes,     \* notifications.chunk_size
  Footer,    \* length of the footer of an answer
  EmptyNote  \* length of the texts that stand for an empty one

Streams == {"stdout", "stderr"}
Kinds == {"text", "end", "meta", "list", "plain", "blank"}

ASSUME AnswerAssumption ==
  /\ \A l \in Lines : l.kind \in Kinds /\ l.len \in Nat
  /\ MaxLines \in [Streams -> Nat] /\ {Footer, EmptyNote} \subseteq Nat
  /\ \A size \in Sizes : size \in Nat /\ size > Reserved

VARIABLES
  cli,      \* its lines, the bytes missing at each stream's end, its exit code
  read,     \* bytes read from each pipe
  buffer,   \* characters that are in no line yet
  ended,    \* streams that were read to the end
  events,   \* the assembler's lines: stream and characters
  texts,    \* indices of the events that are part of the answer
  length,   \* of the texts
  result    \* of finish, with the notification's length and chunks

reader == <<read, buffer, ended>>
assembler == <<events, texts, length>>
answerVars == <<cli, reader, assembler, result>>

Parts == <<"a1", "a2", "b", "newline">>
Written(s) == 4 * Len(cli.lines[s]) - cli.cut[s]
Byte(p) == [line |-> 1 + (p - 1) \div 4, part |-> Parts[1 + ((p - 1) % 4)]]

AnswerInit ==
  /\ cli \in [lines : {f \in [Streams -> BoundedSeq(Lines, MaxLines["stdout"])] :
                          Len(f["stderr"]) <= MaxLines["stderr"]},
              cut : [Streams -> 0 .. 3], code : {"zero", "nonzero"}]
  /\ \A s \in Streams : cli.lines[s] = <<>> => cli.cut[s] = 0
  /\ read = [s \in Streams |-> 0] /\ buffer = [s \in Streams |-> <<>>] /\ ended = {}
  /\ events = <<>> /\ texts = <<>> /\ length = 0
  /\ result = [status |-> "none", session |-> 0, size |-> 0, len |-> 0, chunks |-> <<>>]

-----------------------------------------------------------------------------
(* readLines.                                                              *)

(* A bug: a character whose bytes came apart is lost.                      *)
DecodedApart(from, upto) ==
  LET got == [k \in 1 .. upto - from |-> Byte(from + k)]
  IN  SelectSeq(got, LAMBDA c : c.part \in {"b", "newline"} \/
                                (c.part = "a2" /\ \E k \in DOMAIN got : got[k] = [c EXCEPT !.part = "a1"]))

(* TextDecoder, with stream: true: a character comes with its last byte.    *)
(* There are three to a line; Decodable counts those whole in p bytes.      *)
Decodable(p) == 3 * (p \div 4) + IF p % 4 = 0 THEN 0 ELSE (p % 4) - 1
Character(k) == Byte(4 * ((k - 1) \div 3) + 2 + ((k - 1) % 3))

Decoded(from, upto) ==
  [k \in 1 .. Decodable(upto) - Decodable(from) |-> Character(Decodable(from) + k)]

Newlines(chars) == {k \in DOMAIN chars : chars[k].part = "newline"}

Read(s) ==
  /\ s \notin ended /\ Newlines(buffer[s]) = {}
  /\ \E upto \in read[s] + 1 .. Written(s) :
       /\ read' = [read EXCEPT ![s] = upto]
       /\ buffer' = [buffer EXCEPT ![s] = @ \o Decoded(read[s], upto)]
  /\ UNCHANGED <<cli, ended, assembler, result>>

-----------------------------------------------------------------------------
(* parseLine and push.                                                     *)

Whole(chars) == Len(chars) = 2

(* What is left of a line that was cut is no JSON.                         *)
Kind(e) ==
  LET kind == cli.lines[e.stream][e.chars[1].line].kind
  IN  IF Whole(e.chars) \/ kind = "blank" THEN kind ELSE "plain"

(* The length that a line adds to the answer; an empty text adds nothing.   *)
Delta(e) ==
  IF Kind(e) = "text" \/ (Kind(e) = "plain" /\ e.stream = "stdout")
  THEN IF Whole(e.chars) THEN cli.lines[e.stream][e.chars[1].line].len ELSE 1
  ELSE 0

Push(s, chars) ==
  LET e == [stream |-> s, chars |-> chars]
  IN  /\ events' = Append(events, e)
      /\ length' = length + Delta(e)
      /\ texts' = IF Delta(e) > 0 THEN Append(texts, Len(events) + 1) ELSE texts

(* Between two lines of a stream the other may have its turn.              *)
Yield(s) ==
  /\ Newlines(buffer[s]) # {}
  /\ LET k == CHOOSE k \in Newlines(buffer[s]) : \A j \in Newlines(buffer[s]) : k <= j
     IN  /\ Push(s, SubSeq(buffer[s], 1, k - 1))
         /\ buffer' = [buffer EXCEPT ![s] = SubSeq(@, k + 1, Len(@))]
  /\ UNCHANGED <<cli, read, ended, result>>

(* A bug: a line without a newline is forgotten.                           *)
NothingLeft(s) == UNCHANGED assembler

LastLine(s) == IF buffer[s] # <<>> THEN Push(s, buffer[s]) ELSE UNCHANGED assembler

StreamEnds(s) ==
  /\ s \notin ended /\ Newlines(buffer[s]) = {} /\ read[s] = Written(s)
  /\ LastLine(s)
  /\ ended' = ended \union {s}
  /\ buffer' = [buffer EXCEPT ![s] = <<>>]
  /\ UNCHANGED <<cli, read, result>>

-----------------------------------------------------------------------------
(* finish, and the notification.                                           *)

SawEnd == \E k \in DOMAIN events : Kind(events[k]) = "end"

(* A bug: an answer without an end is taken as it is.                      *)
StatusByLines ==
  IF \E k \in DOMAIN events : Kind(events[k]) \in {"plain", "list"} THEN "fallback_used"
  ELSE "parsed"

ParserStatus ==
  IF \/ \E k \in DOMAIN events : Kind(events[k]) \in {"plain", "list"}
     \/ /\ cli.code = "zero" /\ ~ SawEnd
        /\ \E k \in DOMAIN events : Kind(events[k]) # "blank"
  THEN "fallback_used" ELSE "parsed"

(* The last session id wins.                                               *)
SessionFrom ==
  LET named == {k \in DOMAIN events : Kind(events[k]) \in {"meta", "end"}}
  IN  IF named = {} THEN 0 ELSE CHOOSE k \in named : \A j \in named : j <= k

NotificationLength ==
  IF cli.code = "zero" THEN (IF length > 0 THEN length ELSE EmptyNote) + Footer
  ELSE IF length > 0 THEN length ELSE EmptyNote

Finish ==
  /\ ended = Streams /\ result.status = "none"
  /\ \E size \in Sizes :
       result' = [status |-> ParserStatus, session |-> SessionFrom, size |-> size,
                  len |-> NotificationLength, chunks |-> Split(NotificationLength, size)]
  /\ UNCHANGED <<cli, reader, assembler>>

AnswerNext == Finish \/ \E s \in Streams : Read(s) \/ Yield(s) \/ StreamEnds(s)

AnswerSpec == AnswerInit /\ [][AnswerNext]_answerVars

-----------------------------------------------------------------------------
(* Properties.                                                             *)

(* The lines of a stream as far as they were written: two characters, or    *)
(* the first of a line that was cut behind it; a character cut in two is    *)
(* nothing.                                                                *)
LineChars(i) == <<[line |-> i, part |-> "a2"], [line |-> i, part |-> "b"]>>

LastWritten(s) ==
  LET n == Len(cli.lines[s])
  IN  IF cli.cut[s] <= 1 THEN <<LineChars(n)>>
      ELSE IF cli.cut[s] = 2 THEN <<<<LineChars(n)[1]>>>> ELSE <<>>

LinesWritten(s) ==
  LET n == Len(cli.lines[s])
  IN  IF n = 0 THEN <<>> ELSE [i \in 1 .. n - 1 |-> LineChars(i)] \o LastWritten(s)

(* The lines of stream s among the first k that the parser was handed.      *)
LinesRead(s, k) == {j \in 1 .. k : events[j].stream = s}

(* However the bytes are cut and the streams interleaved, the lines handed  *)
(* to the parser are those written, whole, in order and once, and all of    *)
(* them when the stream has ended.                                         *)
LinesAsWritten ==
  /\ \A k \in DOMAIN events :
       LET s == events[k].stream
           n == Cardinality(LinesRead(s, k))
       IN  n <= Len(LinesWritten(s)) /\ events[k].chars = LinesWritten(s)[n]
  /\ \A s \in ended : Cardinality(LinesRead(s, Len(events))) = Len(LinesWritten(s))

(* The user's chunks are the whole notification, and each fits, for every   *)
(* length of an answer (splitForTelegram).                                 *)
ChunksAreSound ==
  result.status # "none" /\ Rough(result.len, result.size) < ManyChunks =>
    /\ CarriesText(result.chunks, result.len)
    /\ EachFits(result.chunks, result.size)

(* A run that ended with code 0 and is not marked as a fallback said that   *)
(* it was at its end, or said nothing; its answer has no raw output in it   *)
(* and no half of a line (PRD 16.3).                                       *)
UnmarkedIsClean ==
  result.status = "parsed" =>
    /\ \A k \in DOMAIN texts :
         LET e == events[texts[k]]
         IN  Whole(e.chars) /\ cli.lines[e.stream][e.chars[1].line].kind = "text"
    /\ cli.code = "zero" /\ length > 0 =>
         \E s \in Streams : \E i \in DOMAIN cli.lines[s] :
           cli.lines[s][i].kind = "end" /\ <<s, i>> \in
             {<<events[k].stream, events[k].chars[1].line>> : k \in DOMAIN events}
=============================================================================
