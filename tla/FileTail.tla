------------------------------ MODULE FileTail ------------------------------
(***************************************************************************)
(* The file-tail source (internal/app/nexus/source_filetail.go) beside the *)
(* program that writes the file and the one that rotates it.  A line is    *)
(* three bytes, <<l, 1>>, <<l, 2>> and its newline <<l, 3>>; inodes are    *)
(* numbered as they are made, 0 is none.                                   *)
(***************************************************************************)
EXTENDS Integers, Sequences

CONSTANTS
  MaxLines,      \* bound: lines written
  MaxRotations,  \* bound: renames that leave a new file in the place
  MaxTruncates,  \* bound: truncations in place
  HeadLen        \* headFingerprintLen, in bytes of the model

ASSUME TailAssumption == MaxLines \in Nat /\ MaxRotations \in Nat /\ MaxTruncates \in Nat /\ HeadLen \in Nat \ {0}

VARIABLES
  disk,       \* the content of each inode
  path,       \* the inode at the path
  writer,     \* the inode the writer has open
  line,       \* the line and byte it writes next
  truncated,  \* truncations so far
  tail,       \* where the tail's goroutine is
  file,       \* f
  offset,     \* how far it has read
  rest,       \* pending: the beginning of a line
  head,       \* the fingerprint
  seekEnd,
  got,        \* history: the lines ingested
  unseen      \* history: a truncation the fingerprint could not show

diskVars == <<disk, path, writer, line, truncated>>
tailVars == <<diskVars, tail, file, offset, rest, head, seekEnd, got, unseen>>

Content == disk[path]
AtNewLine == line[2] = 1

(* A file that is there when the tail starts may end within a line.        *)
TailInit ==
  /\ \/ disk = <<>> /\ path = 0 /\ line = <<1, 1>> /\ seekEnd = FALSE
     \/ disk = << << <<1, 1>> >> >> /\ path = 1 /\ line = <<1, 2>> /\ seekEnd = TRUE
  /\ writer = path /\ truncated = 0
  /\ tail = "open" /\ file = 0 /\ offset = 0 /\ rest = <<>> /\ head = <<>>
  /\ got = <<>> /\ unseen = FALSE
-----------------------------------------------------------------------------
(* The writer, which notices a new file between two lines.                 *)
Write ==
  /\ writer # 0 /\ line[1] <= MaxLines
  /\ disk' = [disk EXCEPT ![writer] = Append(@, line)]
  /\ line' = IF line[2] = 3 THEN <<line[1] + 1, 1>> ELSE <<line[1], line[2] + 1>>
  /\ UNCHANGED <<path, writer, truncated, tail, file, offset, rest, head, seekEnd, got, unseen>>

Reopen ==
  /\ path # 0 /\ writer # path /\ AtNewLine
  /\ writer' = path
  /\ UNCHANGED <<disk, path, line, truncated, tail, file, offset, rest, head, seekEnd, got, unseen>>

(* The rotation: the file is renamed, and later there is a new one.        *)
Rename ==
  /\ path # 0 /\ path' = 0
  /\ UNCHANGED <<disk, writer, line, truncated, tail, file, offset, rest, head, seekEnd, got, unseen>>

Create ==
  /\ path = 0 /\ Len(disk) <= MaxRotations
  /\ disk' = Append(disk, <<>>) /\ path' = Len(disk) + 1
  /\ UNCHANGED <<writer, line, truncated, tail, file, offset, rest, head, seekEnd, got, unseen>>

(* copytruncate.  Between the check and the read, or while the fingerprint *)
(* is shorter than what was read, the tail cannot see it.                  *)
Truncate ==
  /\ path # 0 /\ writer = path /\ AtNewLine /\ truncated < MaxTruncates
  /\ truncated' = truncated + 1
  /\ disk' = [disk EXCEPT ![path] = <<>>]
  /\ unseen' = (unseen \/ (file = path /\ (tail = "read" \/ (Len(head) < HeadLen /\ Len(head) < offset))))
  /\ UNCHANGED <<path, writer, line, tail, file, offset, rest, head, seekEnd, got>>
-----------------------------------------------------------------------------
HeadOf(content) == SubSeq(content, 1, IF Len(content) < HeadLen THEN Len(content) ELSE HeadLen)
Begins(h, content) == Len(h) <= Len(content) /\ \A n \in DOMAIN h : h[n] = content[n]

OpenFile ==
  /\ tail = "open" /\ tail' = "check"
  /\ IF file = 0 /\ path # 0
     THEN /\ file' = path /\ head' = HeadOf(Content)
          /\ offset' = IF seekEnd THEN Len(Content) ELSE 0
          /\ seekEnd' = FALSE
     ELSE UNCHANGED <<file, head, offset, seekEnd>>
  /\ UNCHANGED <<diskVars, rest, got, unseen>>

(* Mutant: the beginning of a line is kept.                                *)
CloseKeepingRest ==
  /\ tail' = "open" /\ file' = 0 /\ offset' = 0 /\ head' = <<>> /\ UNCHANGED rest

CloseFile ==
  /\ tail' = "open" /\ file' = 0 /\ offset' = 0 /\ rest' = <<>> /\ head' = <<>>

(* headMatches, after the comparison of sizes.                             *)
SameContent == Len(Content) >= offset /\ Begins(head, HeadOf(Content))

(* Rotation, truncation or a rewritten head reopen from the start.         *)
Check ==
  /\ tail = "check"
  /\ IF file = 0 THEN tail' = "wait" /\ UNCHANGED <<file, offset, rest, head>>
     ELSE IF path = file /\ SameContent
          THEN tail' = "read" /\ head' = HeadOf(Content) /\ UNCHANGED <<file, offset, rest>>
          ELSE CloseFile
  /\ UNCHANGED <<diskVars, seekEnd, got, unseen>>

IsNewline(b) == b[2] = 3

(* Byte by byte up to the end of what is there; empty lines are not passed *)
(* on.                                                                     *)
TakeByte(b, s) ==
  IF IsNewline(b)
  THEN [got |-> IF s.rest = <<>> THEN s.got ELSE Append(s.got, s.rest), rest |-> <<>>]
  ELSE [got |-> s.got, rest |-> Append(s.rest, b)]

Unread == IF offset < Len(disk[file]) THEN Len(disk[file]) - offset ELSE 0

Taken ==
  LET after[n \in 0 .. Unread] ==
        IF n = 0 THEN [got |-> got, rest |-> rest] ELSE TakeByte(disk[file][offset + n], after[n - 1])
  IN  after

Read ==
  /\ tail = "read" /\ tail' = "wait"
  /\ offset' = offset + Unread
  /\ got' = Taken[Unread].got /\ rest' = Taken[Unread].rest
  /\ UNCHANGED <<diskVars, file, head, seekEnd, unseen>>

(* The next tick of the poll, or the source is stopped.                    *)
Poll ==
  /\ tail = "wait" /\ tail' = "open"
  /\ UNCHANGED <<diskVars, file, offset, rest, head, seekEnd, got, unseen>>

StopTail ==
  /\ tail = "wait" /\ tail' = "stopped"
  /\ UNCHANGED <<diskVars, file, offset, rest, head, seekEnd, got, unseen>>

TailStep == OpenFile \/ Check \/ Read \/ Poll

TailNext == Write \/ Reopen \/ Rename \/ Create \/ Truncate \/ TailStep \/ StopTail

TailSpec == TailInit /\ [][TailNext]_tailVars /\ WF_tailVars(TailStep)
-----------------------------------------------------------------------------
LineNumber(t) == t[1][1]

TailTypeOK ==
  /\ path \in 0 .. Len(disk) /\ writer \in 0 .. Len(disk) /\ file \in 0 .. Len(disk)
  /\ tail \in {"open", "check", "read", "wait", "stopped"}
  /\ file = 0 => offset = 0 /\ rest = <<>> /\ head = <<>>
  /\ Len(head) <= HeadLen
  /\ \A n \in DOMAIN rest : ~IsNewline(rest[n])

(* Nothing is stitched together across a rotation or a truncation, and no  *)
(* line is ingested twice or before an older one: every line that comes    *)
(* out was written as it is, but the first, whose beginning the seek to    *)
(* the end may have passed over.                                           *)
LinesAreGenuine ==
  unseen \/
    /\ \A n \in DOMAIN got : LET l == LineNumber(got[n])
                             IN  \/ got[n] = << <<l, 1>>, <<l, 2>> >>
                                 \/ n = 1 /\ got[n] = << <<l, 2>> >>
    /\ \A m, n \in DOMAIN got : m < n => LineNumber(got[m]) < LineNumber(got[n])

Ingested(l) == \E n \in DOMAIN got : LineNumber(got[n]) = l
Within(b, bytes, from) == \E n \in from .. Len(bytes) : bytes[n] = b
InPlace(l)  == path # 0 /\ Within(<<l, 3>>, Content, 1)
Missed(l)   == /\ InPlace(l) /\ ~seekEnd
               /\ file = path =>
                    Within(<<l, 2>>, rest, 1) \/ Within(<<l, 2>>, Content, offset + 1)

(* A complete line of the file at the path is ingested, unless the file is *)
(* rotated or truncated away before the next poll.                         *)
LineArrives ==
  \A l \in 1 .. MaxLines :
    Missed(l) ~> Ingested(l) \/ ~InPlace(l) \/ unseen \/ tail = "stopped"

(* What a tail reports are lines that were written, each at most once, in  *)
(* the order of the file.                                                  *)
TailIsFaithful == TailTypeOK /\ LinesAreGenuine
=============================================================================
