----------------------------- MODULE SessionLog -----------------------------
(***************************************************************************)
(* One conversation's JSONL file (internal/harness/session): the store     *)
(* that appends to it, the process that dies under the store and comes     *)
(* back, the rename that writes beside the store, and the reader a resume  *)
(* depends on.  A line is what the reader can tell of it; a write the      *)
(* process or the disk cuts short leaves the last line without its end.    *)
(***************************************************************************)
EXTENDS Naturals, Sequences

CONSTANTS
  NoId,        \* Store.lastID and ParentID before there is an entry
  MaxEntries,  \* bound: entries and labels written
  MaxTears     \* bound: writes cut short

ASSUME SessionLogAssumption ==
  /\ MaxEntries \in Nat /\ MaxTears \in Nat
  /\ NoId \notin Nat

VARIABLES
  exists,  \* the file is there
  file,    \* its lines
  ragged,  \* the last line has no newline yet
  store,   \* the live Store: "down", "lazy", "created", "open" or "broken"
  lastID,  \* Store.lastID
  acked,   \* history: the entries whose write returned without an error
  ids,     \* history: ids drawn so far
  tears    \* history: writes cut short so far

logVars == <<exists, file, ragged, store, lastID, acked, ids, tears>>

Ids == 1 .. MaxEntries

LogLine == [kind : {"header", "scrap"}] \cup
        [kind : {"entry", "label"}, id : Ids, parent : Ids \cup {NoId}]

Header == [kind |-> "header"]
Scrap  == [kind |-> "scrap"]     \* what json.Unmarshal refuses

Entry == [kind |-> "entry", id |-> ids + 1, parent |-> lastID]
Label == [kind |-> "label", id |-> ids + 1, parent |-> NoId]

LogInit ==
  /\ exists = FALSE /\ file = <<>> /\ ragged = FALSE
  /\ store = "down" /\ lastID = NoId
  /\ acked = <<>> /\ ids = 0 /\ tears = 0
-----------------------------------------------------------------------------
(* O_APPEND puts a line after whatever is there, an unended line included. *)
Behind(line) ==
  IF ragged THEN [file EXCEPT ![Len(file)] = Scrap] ELSE Append(file, line)

Carries(line) == line.kind \in {"entry", "label"}

(* readFile: the first line must be the header, and no other line but the  *)
(* last may fail to parse.                                                 *)
ReadFails(lines) ==
  \/ lines # <<>> /\ lines[1].kind # "header"
  \/ \E i \in 2 .. Len(lines) - 1 : lines[i].kind = "scrap"

-----------------------------------------------------------------------------
(* NewStore, at start-up or when rotateSession comes to the conversation.  *)
Launch ==
  /\ store = "down"
  /\ store' = "lazy" /\ lastID' = NoId
  /\ UNCHANGED <<exists, file, ragged, acked, ids, tears>>

(* Close, or the process dies between two writes.                          *)
Stop ==
  /\ store # "down"
  /\ store' = "down"
  /\ UNCHANGED <<exists, file, ragged, lastID, acked, ids, tears>>

(* The first Append opens the file: a new one is created and then given    *)
(* its header, an existing one is read for the last entry's id.            *)
OpenNew ==
  /\ store = "lazy" /\ ~exists
  /\ exists' = TRUE /\ store' = "created"
  /\ UNCHANGED <<file, ragged, lastID, acked, ids, tears>>

WriteHeader ==
  /\ store = "created"
  /\ file' = Behind(Header) /\ ragged' = FALSE
  /\ store' = "open"
  /\ UNCHANGED <<exists, lastID, acked, ids, tears>>

(* Mutant: linkage starts over.                                            *)
OpenResumedUnlinked ==
  /\ store = "lazy" /\ exists /\ ~ReadFails(file)
  /\ store' = "open"
  /\ UNCHANGED <<exists, file, ragged, lastID, acked, ids, tears>>

OpenResumed ==
  /\ store = "lazy" /\ exists /\ ~ReadFails(file)
  /\ store' = "open"
  /\ \/ /\ \A k \in 1 .. Len(file) : ~Carries(file[k])
        /\ UNCHANGED lastID
     \/ \E k \in 1 .. Len(file) :
          /\ Carries(file[k]) /\ \A m \in k + 1 .. Len(file) : ~Carries(file[m])
          /\ lastID' = file[k].id
  /\ UNCHANGED <<exists, file, ragged, acked, ids, tears>>

OpenRefused ==
  /\ store = "lazy" /\ exists /\ ReadFails(file)
  /\ store' = "broken"
  /\ UNCHANGED <<exists, file, ragged, lastID, acked, ids, tears>>

(* fail: the directory, the file or a whole write is refused, and the      *)
(* store goes inert.                                                       *)
Fail ==
  /\ store \in {"lazy", "created", "open"}
  /\ store' = "broken"
  /\ UNCHANGED <<exists, file, ragged, lastID, acked, ids, tears>>

AppendEntry ==
  /\ store = "open" /\ ids < MaxEntries
  /\ file' = Behind(Entry) /\ ragged' = FALSE
  /\ lastID' = ids + 1 /\ ids' = ids + 1
  /\ acked' = Append(acked, ids + 1)
  /\ UNCHANGED <<exists, store, tears>>

(* A header or an entry is cut short: all but its newline is written, or   *)
(* less.  The write returns an error and the store goes inert, or the      *)
(* process is gone.                                                        *)
Tear(line) ==
  /\ tears < MaxTears /\ tears' = tears + 1
  /\ file' \in {Behind(line), Behind(Scrap)} /\ ragged' = TRUE
  /\ store' \in {"broken", "down"}
  /\ UNCHANGED <<exists, lastID, acked>>

TearHeader == store = "created" /\ Tear(Header) /\ UNCHANGED ids
TearEntry  == store = "open" /\ ids < MaxEntries /\ Tear(Entry) /\ ids' = ids + 1

(* Rename finds the file by its name and writes through its own handle.    *)
Rename ==
  /\ exists /\ ids < MaxEntries
  /\ file' = Behind(Label) /\ ragged' = FALSE
  /\ ids' = ids + 1 /\ acked' = Append(acked, ids + 1)
  /\ UNCHANGED <<exists, store, lastID, tears>>

StoreNext ==
  \/ Launch \/ Stop
  \/ OpenNew \/ WriteHeader \/ OpenResumed \/ OpenRefused \/ Fail
  \/ AppendEntry \/ TearHeader \/ TearEntry

LogNext == StoreNext \/ Rename

LogSpec == LogInit /\ [][LogNext]_logVars

(* A conversation nobody renames: its stores alone write to the file.      *)
AloneSpec == LogInit /\ [][StoreNext]_logVars
-----------------------------------------------------------------------------
LogTypeOK ==
  /\ exists \in BOOLEAN /\ ragged \in BOOLEAN
  /\ file \in Seq(LogLine)
  /\ store \in {"down", "lazy", "created", "open", "broken"}
  /\ lastID \in Ids \cup {NoId}
  /\ acked \in Seq(Ids)
  /\ ids \in 0 .. MaxEntries /\ tears \in 0 .. MaxTears
  /\ ragged => file # <<>>
  /\ file # <<>> \/ store \in {"created", "open"} => exists

Headed == file # <<>> /\ file[1].kind = "header"

LoadedIds == {file[i].id : i \in {k \in 1 .. Len(file) : Carries(file[k])}}

(* What a write cut short may cost is that one line.  As long as nothing   *)
(* was written behind it, and the file got its header first, every entry   *)
(* whose write returned is loaded again, however the store and renames     *)
(* took turns and however often the process went down.                     *)
AckedSurvive ==
  Headed /\ (tears = 0 \/ (tears = 1 /\ ragged)) =>
    /\ ~ReadFails(file)
    /\ \A i \in 1 .. Len(acked) : acked[i] \in LoadedIds

(* The line before line k, labels apart, is the one with id parent.        *)
Follows(lines, k, parent) ==
  \/ /\ parent = NoId
     /\ \A j \in 2 .. k - 1 : lines[j].kind = "label"
  \/ \E j \in 2 .. k - 1 :
       /\ Carries(lines[j]) /\ lines[j].id = parent
       /\ \A m \in j + 1 .. k - 1 : lines[m].kind = "label"

(* In a file that loads, entries form one chain over restarts: each names  *)
(* as its parent the line before it, labels apart, or is the first.        *)
OneChain ==
  ~ReadFails(file) =>
    \A k \in 2 .. Len(file) :
      file[k].kind = "entry" => Follows(file, k, file[k].parent)

(* "Unparseable lines fail the whole read except a torn final line (crash  *)
(* mid-write), which is skipped -- the file stays loadable."  Not so once  *)
(* a store was resumed on such a file: it writes on behind the torn line.  *)
StaysLoadable == Headed => ~ReadFails(file)

(* What was acknowledged loads again, as one chain.                        *)
LogIsSound == LogTypeOK /\ AckedSurvive /\ OneChain
=============================================================================
