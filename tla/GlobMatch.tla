----------------------------- MODULE GlobMatch -----------------------------
(***************************************************************************)
(* The loop of matchGlob (internal/features/permissions/bash.go), one case *)
(* of its switch a step, against what its comment promises: '*' matches    *)
(* any run of bytes, '?' exactly one, every other byte itself.             *)
(***************************************************************************)
EXTENDS Integers, Sequences

CONSTANTS
  Bytes,      \* the bytes patterns and commands are written with
  MaxGlob,    \* bound: length of a pattern
  MaxText     \* bound: length of a command

Star == "*"
AnyByte  == "?"

ASSUME GlobAssumption ==
  /\ {Star, AnyByte} \subseteq Bytes /\ MaxGlob \in Nat /\ MaxText \in Nat

VARIABLES
  glob,     \* pattern
  text,     \* s
  pi, si,   \* what has been matched of each
  star,     \* where the last '*' stands, -1 without one
  mark,     \* how much of the text it has been given back to
  matched   \* "begin", "loop", or the result

globVars == <<glob, text, pi, si, star, mark, matched>>

Strings(max) == UNION {[1 .. n -> Bytes] : n \in 0 .. max}

GlobInit ==
  /\ glob = <<>> /\ text = <<>>
  /\ pi = 0 /\ si = 0 /\ star = -1 /\ mark = 0
  /\ matched = "begin"

GlobCalled ==
  /\ matched = "begin" /\ matched' = "loop"
  /\ glob' \in Strings(MaxGlob) /\ text' \in Strings(MaxText)
  /\ UNCHANGED <<pi, si, star, mark>>

InLoop == matched = "loop" /\ si < Len(text)

(* The first case: indices are the code's, from 0.                         *)
SameByte == pi < Len(glob) /\ glob[pi + 1] \in {AnyByte, text[si + 1]}

AtStar == pi < Len(glob) /\ glob[pi + 1] = Star

TakeByte ==
  /\ InLoop /\ SameByte
  /\ pi' = pi + 1 /\ si' = si + 1
  /\ UNCHANGED <<glob, text, star, mark, matched>>

TakeStar ==
  /\ InLoop /\ ~SameByte /\ AtStar
  /\ star' = pi /\ mark' = si /\ pi' = pi + 1
  /\ UNCHANGED <<glob, text, si, matched>>

(* Mutant: the text is taken up again where it failed.                     *)
BacktrackFromHere ==
  /\ InLoop /\ ~SameByte /\ ~AtStar /\ star >= 0
  /\ mark' = mark + 1 /\ pi' = star + 1 /\ si' = si + 1
  /\ UNCHANGED <<glob, text, star, matched>>

(* The last star takes one byte more.                                      *)
Backtrack ==
  /\ InLoop /\ ~SameByte /\ ~AtStar /\ star >= 0
  /\ mark' = mark + 1 /\ pi' = star + 1 /\ si' = mark + 1
  /\ UNCHANGED <<glob, text, star, matched>>

NoMatch ==
  /\ InLoop /\ ~SameByte /\ ~AtStar /\ star < 0
  /\ matched' = "no"
  /\ UNCHANGED <<glob, text, pi, si, star, mark>>

(* The text is used up: only stars may be left of the pattern.             *)
TextEnds ==
  /\ matched = "loop" /\ si = Len(text)
  /\ matched' = IF \A i \in pi + 1 .. Len(glob) : glob[i] = Star THEN "yes" ELSE "no"
  /\ UNCHANGED <<glob, text, pi, si, star, mark>>

GlobStep == TakeByte \/ TakeStar \/ Backtrack \/ NoMatch \/ TextEnds
GlobNext == GlobCalled \/ GlobStep

GlobSpec == GlobInit /\ [][GlobNext]_globVars /\ WF_globVars(GlobStep)
-----------------------------------------------------------------------------
GlobTypeOK ==
  /\ glob \in Seq(Bytes) /\ text \in Seq(Bytes)
  /\ pi \in 0 .. Len(glob) /\ si \in 0 .. Len(text)
  /\ star \in -1 .. Len(glob) - 1 /\ mark \in 0 .. Len(text)
  /\ matched \in {"begin", "loop", "yes", "no"}

(* The definition.  A cut says where in the text the run of bytes ends     *)
(* that each byte of the pattern stands for.                               *)
Piece(i, from, to) ==
  IF glob[i] = Star THEN from <= to
  ELSE to = from + 1 /\ glob[i] \in {AnyByte, text[to]}

Cuts(i, j) ==
  {c \in [0 .. i -> 0 .. Len(text)] :
     c[0] = 0 /\ c[i] = j /\ \A k \in 1 .. i : Piece(k, c[k - 1], c[k])}

(* The first i bytes of the pattern describe the first j of the text.      *)
Describes(i, j) == Cuts(i, j) # {}

Fits == Describes(Len(glob), Len(text))

(* A pattern never matches a command it does not describe, and where the   *)
(* command has no asterisk of its own it matches what it describes: giving *)
(* bytes to the last star alone loses nothing.                             *)
MatchesWhatItSays ==
  /\ matched = "yes" => Fits
  /\ matched = "no" /\ Fits => \E i \in DOMAIN text : text[i] = Star

(* "'*' matches any run of bytes": also a run with an asterisk in it.      *)
StarMatchesAnyRun == matched = "no" => ~Fits

(* The loop comes to an end: each time it goes back it goes back less.     *)
GlobAnswers == matched = "loop" ~> matched \in {"yes", "no"}

(* The matcher stays within its strings and says what the pattern says.    *)
GlobIsRight == GlobTypeOK /\ MatchesWhatItSays
=============================================================================
