----------------------------- MODULE FileTools -----------------------------
(***************************************************************************)
(* Read, Edit and Write (internal/features/builtins) of two sessions - an  *)
(* agent and a subagent, with a tracker each - on one path, beside a       *)
(* program outside that writes it too.  Content is the set of the changes  *)
(* in it.                                                                  *)
(***************************************************************************)
EXTENDS Integers, FiniteSets

CONSTANTS
  Sessions,
  MaxChanges,   \* bound: edits and writes, the outsider's included
  MaxCrashes    \* bound

ASSUME FilesAssumption ==
  MaxChanges \in Nat /\ MaxCrashes \in Nat /\ "nobody" \notin Sessions

NoFile == {-1}
Torn   == {-2}
Unread == {-3}

VARIABLES
  content,   \* of the file, NoFile when there is none
  temp,      \* what each session's temporary file holds
  owner,     \* who holds the path's lock
  seen,      \* FileTracker.seen, of the path
  op, step,  \* the tool a session runs, and where it is
  data,      \* what it has read
  updated,   \* what it is writing
  changes, crashes,
  shown,     \* history: the contents each session has been shown
  outside,   \* history: the file was last written from outside
  lost, blind          \* history: see the properties

fileVars == <<content, temp, owner, seen, op, step, data, updated, changes, crashes,
              shown, outside, lost, blind>>
fileHistory  == <<shown, outside, lost, blind>>
onDisk   == <<content, changes, crashes>>

FilesInit ==
  /\ content \in {NoFile, {0}}
  /\ temp = [s \in Sessions |-> NoFile] /\ owner = "nobody"
  /\ seen = [s \in Sessions |-> Unread]
  /\ op = [s \in Sessions |-> "none"] /\ step = [s \in Sessions |-> "idle"]
  /\ data = [s \in Sessions |-> NoFile] /\ updated = [s \in Sessions |-> NoFile]
  /\ changes = 0 /\ crashes = 0
  /\ shown = [s \in Sessions |-> {}]
  /\ outside = FALSE /\ lost = FALSE /\ blind = FALSE

Forgets(s) ==
  /\ op' = [op EXCEPT ![s] = "none"]
  /\ data' = [data EXCEPT ![s] = NoFile] /\ updated' = [updated EXCEPT ![s] = NoFile]

At(s, here, there) == step[s] = here /\ step' = [step EXCEPT ![s] = there]

Learns(s, c) ==
  /\ seen' = [seen EXCEPT ![s] = c]
  /\ shown' = [shown EXCEPT ![s] = @ \cup {c}]
-----------------------------------------------------------------------------
(* Read takes no lock, and stamps after it has read.                       *)
ReadFile(s) ==
  /\ At(s, "idle", "read") /\ content # NoFile
  /\ op' = [op EXCEPT ![s] = "Read"] /\ data' = [data EXCEPT ![s] = content]
  /\ UNCHANGED <<onDisk, temp, owner, seen, updated, fileHistory>>

ReadRecord(s) ==
  /\ At(s, "read", "idle") /\ Forgets(s)
  /\ Learns(s, data[s])
  /\ UNCHANGED <<onDisk, temp, owner, outside, lost, blind>>

(* Edit and Write hold the lock of the path from before they read to after *)
(* they have recorded.                                                     *)
(* Mutant: the lock is not taken.                                          *)
LockUnlocked(s, tool) ==
  /\ At(s, "idle", "locked") /\ changes < MaxChanges
  /\ owner' = s /\ op' = [op EXCEPT ![s] = tool]
  /\ changes' = changes + 1 /\ updated' = [updated EXCEPT ![s] = {changes + 1}]
  /\ UNCHANGED <<content, temp, seen, data, crashes, fileHistory>>

Lock(s, tool) ==
  /\ At(s, "idle", "locked") /\ changes < MaxChanges
  /\ owner = "nobody" /\ owner' = s
  /\ op' = [op EXCEPT ![s] = tool]
  /\ changes' = changes + 1 /\ updated' = [updated EXCEPT ![s] = {changes + 1}]
  /\ UNCHANGED <<content, temp, seen, data, crashes, fileHistory>>

Unlock(s) == owner' = "nobody"

(* Verify; there is nothing to verify where Write finds no file.           *)
Verified(s) == content = seen[s] \/ (op[s] = "Write" /\ content = NoFile)

Refused(s) ==
  /\ At(s, "locked", "idle") /\ Unlock(s) /\ Forgets(s)
  /\ \/ ~Verified(s)
     \/ op[s] = "Edit"     \* old_string missing or not unique
  /\ UNCHANGED <<onDisk, temp, seen, fileHistory>>

Load(s) ==
  /\ At(s, "locked", "stat") /\ Verified(s)
  /\ data' = [data EXCEPT ![s] = content]
  /\ updated' = [updated EXCEPT ![s] = IF op[s] = "Edit" THEN content \cup @ ELSE @]
  /\ UNCHANGED <<onDisk, temp, owner, seen, op, fileHistory>>

(* writeFileAtomic: a temporary file beside the target, half written first *)
(* of all.                                                                 *)
WriteTemp(s) ==
  /\ At(s, "stat", "writing") /\ temp' = [temp EXCEPT ![s] = Torn]
  /\ UNCHANGED <<onDisk, owner, seen, op, data, updated, fileHistory>>

SyncTemp(s) ==
  /\ At(s, "writing", "synced") /\ temp' = [temp EXCEPT ![s] = updated[s]]
  /\ UNCHANGED <<onDisk, owner, seen, op, data, updated, fileHistory>>

WriteFails(s) ==
  /\ step[s] \in {"stat", "writing", "synced"} /\ step' = [step EXCEPT ![s] = "idle"]
  /\ temp' = [temp EXCEPT ![s] = NoFile] /\ Unlock(s) /\ Forgets(s)
  /\ UNCHANGED <<onDisk, seen, fileHistory>>

(* The target has the new content all at once, under its old permissions.  *)
RenameTemp(s) ==
  /\ At(s, "synced", "renamed")
  /\ content' = temp[s] /\ temp' = [temp EXCEPT ![s] = NoFile]
  /\ outside' = FALSE
  /\ lost' = (lost \/ (content # data[s] /\ ~outside))
  /\ blind' = (blind \/ (data[s] # NoFile /\ data[s] \notin shown[s]))
  /\ UNCHANGED <<changes, crashes, owner, seen, op, data, updated, shown>>

WriteRecord(s) ==
  /\ At(s, "renamed", "idle") /\ Unlock(s) /\ Forgets(s)
  /\ Learns(s, updated[s])
  /\ UNCHANGED <<onDisk, temp, outside, lost, blind>>

(* Another program adds to the file, or removes it.                        *)
Outsider ==
  /\ changes < MaxChanges /\ changes' = changes + 1
  /\ content # NoFile /\ content' \in {NoFile, content \cup {changes + 1}}
  /\ outside' = TRUE
  /\ UNCHANGED <<crashes, temp, owner, seen, op, step, data, updated, shown, lost, blind>>

(* Everything in memory goes; a temporary file may be left behind.         *)
CrashTools ==
  /\ crashes < MaxCrashes /\ crashes' = crashes + 1
  /\ owner' = "nobody" /\ seen' = [s \in Sessions |-> Unread]
  /\ step' = [s \in Sessions |-> "idle"]
  /\ shown' = [s \in Sessions |-> {}]
  /\ op' = [s \in Sessions |-> "none"]
  /\ data' = [s \in Sessions |-> NoFile] /\ updated' = [s \in Sessions |-> NoFile]
  /\ UNCHANGED <<content, changes, temp, outside, lost, blind>>

FilesNext ==
  \/ \E s \in Sessions :
       \/ ReadFile(s) \/ ReadRecord(s)
       \/ Lock(s, "Edit") \/ Lock(s, "Write") \/ Refused(s) \/ Load(s)
       \/ WriteTemp(s) \/ SyncTemp(s) \/ WriteFails(s) \/ RenameTemp(s) \/ WriteRecord(s)
  \/ Outsider \/ CrashTools

FilesSpec == FilesInit /\ [][FilesNext]_fileVars
-----------------------------------------------------------------------------
FilesTypeOK ==
  /\ owner \in Sessions \cup {"nobody"}
  /\ \A s \in Sessions : step[s] \in {"locked", "stat", "writing", "synced", "renamed"} <=> owner = s

(* A reader of the file never finds half of a write in it, whatever step a *)
(* write fails or the process ends at.                                     *)
NeverTorn == content # Torn

(* The two sessions never overwrite each other's changes: what is replaced *)
(* is what was read, unless a program outside wrote it in between.         *)
NoUpdateLost == ~lost

(* No content is replaced that the session has not been shown.             *)
NothingReplacedUnseen == ~blind

(* Beside other sessions, an outsider and crashes, a file is whole, holds  *)
(* every update, and is only replaced by who has seen what it held.        *)
FilesAreSafe == FilesTypeOK /\ NoUpdateLost /\ NeverTorn /\ NothingReplacedUnseen
=============================================================================
