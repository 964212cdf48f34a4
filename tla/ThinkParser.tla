----------------------------- MODULE ThinkParser -----------------------------
(***************************************************************************)
(* The parser of inline think tags in ollama's stream                      *)
(* (pkg/providers/protocols/ollama/ollama.go): chunks of content come with *)
(* tags split anywhere between them, and the parser passes each byte on as *)
(* text or as thinking as early as it can.  A byte is known by its place   *)
(* in the whole content.                                                   *)
(***************************************************************************)
EXTENDS Integers, Sequences

CONSTANTS
  MaxBytes,  \* bound: bytes of content
  MaxChunk   \* bound: bytes of one chunk

ASSUME ParserAssumption == MaxBytes \in Nat /\ MaxChunk \in Nat

VARIABLES
  whole,     \* history: the content so far
  text,      \* Feed's text: places still to parse
  buf,       \* thinkBlockParser.buf
  inThink,
  out,       \* the events, byte by byte
  flushed    \* the stream has ended

parserVars == <<whole, text, buf, inThink, out, flushed>>

OpenTag  == <<"<", "t", ">">>
CloseTag == <<"<", "/", "t", ">">>
Alphabet == {"<", "/", "t", ">"}

BytesAt(places) == [i \in DOMAIN places |-> whole[places[i]]]
As(k, places)   == [i \in DOMAIN places |-> [k |-> k, i |-> places[i]]]

ParserInit ==
  /\ whole = <<>> /\ text = <<>> /\ buf = <<>> /\ inThink = FALSE
  /\ out = <<>> /\ flushed = FALSE
-----------------------------------------------------------------------------
Awaited == IF inThink THEN CloseTag ELSE OpenTag
Mode    == IF inThink THEN "thinking" ELSE "text"

(* The tag is there from the i-th byte on.                                 *)
Reads(bytes, i, tag) ==
  i + Len(tag) - 1 <= Len(bytes) /\ \A n \in 1 .. Len(tag) : bytes[i + n - 1] = tag[n]

(* strings.Index, 0 for none.                                              *)
IndexOf(bytes, tag) ==
  LET hits == {i \in 1 .. Len(bytes) : Reads(bytes, i, tag)}
  IN  IF hits = {} THEN 0 ELSE CHOOSE i \in hits : \A j \in hits : i <= j

(* matchTagPrefix: how much of the end may be the beginning of the tag.    *)
TagPrefix(bytes, tag) ==
  LET fits == {n \in 1 .. Len(tag) - 1 :
                 n <= Len(bytes) /\ \A m \in 1 .. n : bytes[Len(bytes) - n + m] = tag[m]}
  IN  IF fits = {} THEN 0 ELSE CHOOSE n \in fits : \A m \in fits : n <= m

Feed(chunk) ==
  /\ ~flushed /\ text = <<>> /\ Len(whole) + Len(chunk) <= MaxBytes
  /\ whole' = whole \o chunk
  /\ text' = buf \o [i \in DOMAIN chunk |-> Len(whole) + i] /\ buf' = <<>>
  /\ UNCHANGED <<inThink, out, flushed>>

(* The awaited tag is there: what precedes it goes out.                    *)
CutAtTag ==
  LET i == IndexOf(BytesAt(text), Awaited)
  IN  /\ i > 0
      /\ out' = out \o As(Mode, SubSeq(text, 1, i - 1))
      /\ text' = SubSeq(text, i + Len(Awaited), Len(text))
      /\ inThink' = ~inThink
      /\ UNCHANGED <<whole, buf, flushed>>

(* Mutant: nothing is held back.                                           *)
PassOnAll ==
  /\ text # <<>> /\ IndexOf(BytesAt(text), Awaited) = 0
  /\ out' = out \o As(Mode, text) /\ text' = <<>>
  /\ UNCHANGED <<whole, buf, inThink, flushed>>

(* It is not: all goes out but an end that may be its beginning.           *)
PassOn ==
  LET n == TagPrefix(BytesAt(text), Awaited)
      k == Len(text) - n
  IN  /\ text # <<>> /\ IndexOf(BytesAt(text), Awaited) = 0
      /\ out' = out \o As(Mode, SubSeq(text, 1, k))
      /\ buf' = SubSeq(text, k + 1, Len(text))
      /\ text' = <<>>
      /\ UNCHANGED <<whole, inThink, flushed>>

Flush ==
  /\ ~flushed /\ text = <<>>
  /\ out' = out \o As(Mode, buf) /\ buf' = <<>> /\ flushed' = TRUE
  /\ UNCHANGED <<whole, text, inThink>>

Chunks == UNION {[1 .. n -> Alphabet] : n \in 1 .. MaxChunk}

ParserNext == (\E chunk \in Chunks : Feed(chunk)) \/ CutAtTag \/ PassOn \/ Flush

ParserSpec == ParserInit /\ [][ParserNext]_parserVars
-----------------------------------------------------------------------------
(* splitThinkBlocks, over the complete content: the shortest blocks go to  *)
(* the thinking, an opening tag that is never closed is text, and of what  *)
(* is left the part before the last closing tag is thinking as well.       *)
Occurs(tag, j) == Reads(whole, j, tag)
Openers == {j \in 1 .. Len(whole) : Occurs(OpenTag, j)}
ClosedAfter(j) == \E m \in j + Len(OpenTag) .. Len(whole) : Occurs(CloseTag, m)
Closed  == {j \in Openers : ClosedAfter(j)}

ScanByte(s, j, opens) ==
  IF s.skip > 0 THEN [s EXCEPT !.skip = @ - 1]
  ELSE IF s.mode = "text" /\ j \in opens
       THEN [mode |-> "thinking", skip |-> Len(OpenTag) - 1, out |-> s.out]
  ELSE IF s.mode = "thinking" /\ Occurs(CloseTag, j)
       THEN [mode |-> "text", skip |-> Len(CloseTag) - 1, out |-> s.out]
  ELSE [s EXCEPT !.out = Append(@, [k |-> s.mode, i |-> j])]

Unscanned == [mode |-> "text", skip |-> 0, out |-> <<>>]

Scan(opens) ==
  LET upTo[j \in 0 .. Len(whole)] == IF j = 0 THEN Unscanned ELSE ScanByte(upTo[j - 1], j, opens)
  IN  upTo

PlacesOf(k, events) == LET mine == SelectSeq(events, LAMBDA e : e.k = k)
                       IN [n \in DOMAIN mine |-> mine[n].i]

Remaining == PlacesOf("text", Scan(Closed)[Len(whole)].out)
BareCloser == IndexOf(BytesAt(Remaining), CloseTag) > 0

LastIndexOf(bytes, tag) ==
  CHOOSE i \in 1 .. Len(bytes) :
    Reads(bytes, i, tag) /\ \A j \in i + 1 .. Len(bytes) : ~Reads(bytes, j, tag)

SplitText ==
  IF BareCloser
  THEN SubSeq(Remaining, LastIndexOf(BytesAt(Remaining), CloseTag) + Len(CloseTag), Len(Remaining))
  ELSE Remaining
-----------------------------------------------------------------------------
ParserTypeOK ==
  /\ whole \in Seq(Alphabet) /\ Len(whole) <= MaxBytes
  /\ \A p \in DOMAIN text : text[p] \in DOMAIN whole
  /\ \A p \in DOMAIN buf : buf[p] \in DOMAIN whole
  /\ inThink \in BOOLEAN /\ flushed \in BOOLEAN
  /\ \A p \in DOMAIN out : out[p].k \in {"text", "thinking"} /\ out[p].i \in DOMAIN whole
  /\ text # <<>> => buf = <<>>

(* How the content was cut into chunks makes no difference: every byte     *)
(* outside a tag goes out once, in order, as what it is when the content   *)
(* is read as a whole, and only the beginning of a tag is waited for.      *)
ChunksMakeNoDifference ==
  text = <<>> =>
    /\ out \o As(Mode, buf) = Scan(Openers)[Len(whole)].out
    /\ Len(buf) < Len(Awaited) /\ \A p \in DOMAIN buf : whole[buf[p]] = Awaited[p]

(* What a user watched as the answer is the answer of the response, which  *)
(* is split again as a whole, unless a tag has lost its partner.           *)
ShownIsAnswer ==
  flushed /\ ~inThink /\ ~BareCloser => PlacesOf("text", out) = SplitText

(* However the network cuts the answer, the same text is told from the     *)
(* same thoughts, and what was shown is what is returned.                  *)
ParserIsExact == ParserTypeOK /\ ChunksMakeNoDifference /\ ShownIsAnswer
=============================================================================
