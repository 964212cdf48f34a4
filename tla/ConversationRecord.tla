------------------------ MODULE ConversationRecord ------------------------
(***************************************************************************)
(* Who writes which conversation's file: the turn's events go over the     *)
(* event bus (internal/adapters/eventbus) to the persister                 *)
(* (internal/harness/session/persister.go), and Clear, Resume, Shutdown    *)
(* (internal/harness/harness.go) and the session endpoints                 *)
(* (api/sessions.go) change the file under it.  SessionLog has the lines   *)
(* of one file; here a file is the sequence of the events recorded in it.  *)
(***************************************************************************)
EXTENDS Integers, Sequences, FiniteSets

CONSTANTS
  Conversations,   \* ids: natural numbers, 1 is the one at start
  Clients,         \* who may have a control request under way
  BusBuffer,       \* StartHooks' 64
  MaxEvents        \* bound

ASSUME RecordAssumption ==
  /\ Conversations \subseteq Nat \ {0} /\ 1 \in Conversations
  /\ BusBuffer \in Nat \ {0} /\ MaxEvents \in Nat /\ 0 \notin Clients

NoRecord == <<-1>>

VARIABLES
  conversation,  \* conversationID
  events,        \* emitted so far
  record,        \* the record of each conversation, NoRecord when there is none
  written,       \* history: the events the persister took in for each, less what was deleted
  storeOf,       \* whose store is live
  handle,        \* of the live store: "none" before the first append, "open",
                 \*   "orphaned" when its file was deleted, or "closed"
  channel,       \* the persister's, while it is subscribed
  persister,     \* "running", "draining" or "stopped"
  request, step, want,  \* the clients' requests
  sessionMu,     \* who holds it
  ended          \* Shutdown has been called

recordVars == <<conversation, events, record, written, storeOf, handle, channel,
                persister, request, step, want, sessionMu, ended>>
busVars    == <<events, channel, written>>
clientVars == <<request, step, want>>

RecordInit ==
  /\ conversation = 1 /\ events = 0
  /\ record = [c \in Conversations |-> NoRecord] /\ written = [c \in Conversations |-> {}]
  /\ storeOf = 1 /\ handle = "none" /\ channel = <<>> /\ persister = "running"
  /\ request = [c \in Clients |-> "none"] /\ step = [c \in Clients |-> "idle"]
  /\ want = [c \in Clients |-> 0]
  /\ sessionMu = 0 /\ ended = FALSE
-----------------------------------------------------------------------------
(* Emit never blocks.  The agent's events become entries, a subagent's and *)
(* an answer without text do not; all take a place in the channel.         *)
RecordedKinds == {"entry", "other"}
Event(n, kind) == [n |-> n, kind |-> kind]

(* Which events dispatch hands to a hook that writes an entry.             *)
Kept(e) == e.kind = "entry"

Takes(e) ==
  IF persister = "running" /\ Len(channel) < BusBuffer
    THEN /\ channel' = Append(channel, e)
         /\ written' = IF Kept(e) THEN [written EXCEPT ![storeOf] = @ \cup {e.n}] ELSE written
    ELSE UNCHANGED <<channel, written>>

Emit(kind) ==
  /\ events < MaxEvents /\ events' = events + 1
  /\ Takes(Event(events + 1, kind))
  /\ UNCHANGED <<conversation, record, storeOf, handle, persister, clientVars, sessionMu, ended>>

Queued == {channel[i].n : i \in {j \in DOMAIN channel : Kept(channel[j])}}
Entries(c) == IF record[c] = NoRecord THEN <<>> ELSE record[c]

(* Store.Append opens the file at the first entry.  An entry written to a  *)
(* file that was deleted is in no file.                                    *)
Recorded(n) ==
  \/ /\ handle \in {"none", "open"} /\ handle' = "open" /\ UNCHANGED written
     /\ record' = [record EXCEPT ![storeOf] = Append(Entries(storeOf), n)]
  \/ /\ handle = "orphaned" /\ UNCHANGED <<record, handle>>
     /\ written' = [written EXCEPT ![storeOf] = @ \ {n}]

(* Mutant: the hooks ask for the conversation's id.                        *)
DispatchLocked ==
  /\ channel # <<>> /\ channel' = Tail(channel) /\ sessionMu = 0
  /\ IF Kept(Head(channel)) THEN Recorded(Head(channel).n) ELSE UNCHANGED <<record, handle, written>>
  /\ UNCHANGED <<conversation, events, storeOf, persister, clientVars,
                 sessionMu, ended>>

(* The dispatching goroutine, until its channel is closed and empty.       *)
Dispatch ==
  /\ channel # <<>> /\ channel' = Tail(channel)
  /\ IF Kept(Head(channel)) THEN Recorded(Head(channel).n) ELSE UNCHANGED <<record, handle, written>>
  /\ UNCHANGED <<conversation, events, storeOf, persister, clientVars,
                 sessionMu, ended>>

(* Mutant: stop does not wait for the goroutine.                           *)
DrainedAtOnce ==
  /\ persister = "draining" /\ persister' = "stopped" /\ channel' = <<>>

(* stop's Unsubscribe closed the channel; it waits for what is queued.     *)
Drained ==
  /\ persister = "draining" /\ channel = <<>> /\ persister' = "stopped" /\ UNCHANGED channel
-----------------------------------------------------------------------------
(* A control request, from the idle check to the end of rotateSession.     *)
Goes(c, from, to) == step[c] = from /\ step' = [step EXCEPT ![c] = to]

Begins(c, r, id) ==
  /\ Goes(c, "idle", "checked")
  /\ request' = [request EXCEPT ![c] = r] /\ want' = [want EXCEPT ![c] = id]

Fresh(id) == record[id] = NoRecord /\ id # conversation /\ \A c \in Clients : want[c] # id

(* Clear goes on under an id of its own, Resume under one with a record;   *)
(* the record is read before anything else happens.                        *)
ClearFinds(c, id) ==
  /\ Fresh(id) /\ Begins(c, "clear", id)
  /\ UNCHANGED <<conversation, busVars, record, storeOf, handle, persister,
                 sessionMu, ended>>

ResumeFinds(c, id) ==
  /\ record[id] # NoRecord /\ Begins(c, "resume", id)
  /\ UNCHANGED <<conversation, busVars, record, storeOf, handle, persister,
                 sessionMu, ended>>

(* rotateSession, under sessionMu.  Shutdown closes the store under the    *)
(* same lock, and opens no other.                                          *)
StopsPersister(c) ==
  /\ Goes(c, "checked", "stopping") /\ sessionMu = 0 /\ sessionMu' = c
  /\ \/ request[c] \in {"clear", "resume"} /\ conversation' = want[c]
     \/ request[c] = "shutdown" /\ UNCHANGED conversation
  /\ persister' = IF persister = "running" THEN "draining" ELSE persister
  /\ UNCHANGED <<busVars, record, storeOf, handle, request, want, ended>>

PersisterStops ==
  /\ Drained
  /\ UNCHANGED <<conversation, events, written, record, storeOf, handle, clientVars,
                 sessionMu, ended>>

Settles(c) ==
  /\ request' = [request EXCEPT ![c] = "none"] /\ want' = [want EXCEPT ![c] = 0]

OpensStore(c) ==
  /\ Goes(c, "stopping", "idle") /\ persister = "stopped" /\ sessionMu' = 0 /\ Settles(c)
  /\ IF request[c] = "shutdown"
       THEN handle' = "closed" /\ UNCHANGED <<storeOf, persister>>
       ELSE storeOf' = want[c] /\ handle' = "none" /\ persister' = "running"
  /\ UNCHANGED <<conversation, busVars, record, ended>>

(* Once, as shutdownOnce has it.                                           *)
Shutdown(c) ==
  /\ ~ended /\ ended' = TRUE /\ Begins(c, "shutdown", 0)
  /\ UNCHANGED <<conversation, busVars, record, storeOf, handle, persister, sessionMu>>

(* DELETE refuses the conversation that is active when it looks, under     *)
(* sessionMu, and removes the file a step later.                           *)
DeleteFinds(c, id) ==
  /\ sessionMu = 0 /\ record[id] # NoRecord /\ id # conversation /\ Begins(c, "delete", id)
  /\ UNCHANGED <<conversation, busVars, record, storeOf, handle, persister,
                 sessionMu, ended>>

DeleteRemoves(c) ==
  /\ request[c] = "delete" /\ Goes(c, "checked", "idle") /\ Settles(c)
  /\ record' = [record EXCEPT ![want[c]] = NoRecord]
  /\ written' = [written EXCEPT ![want[c]] = IF want[c] = storeOf THEN Queued ELSE {}]
  /\ handle' = IF want[c] = storeOf /\ handle = "open" THEN "orphaned" ELSE handle
  /\ UNCHANGED <<conversation, events, channel, storeOf, persister, sessionMu, ended>>
-----------------------------------------------------------------------------
RecordNext ==
  \/ \E k \in RecordedKinds : Emit(k)
  \/ Dispatch \/ PersisterStops
  \/ \E c \in Clients :
       \/ \E id \in Conversations : ClearFinds(c, id) \/ ResumeFinds(c, id) \/ DeleteFinds(c, id)
       \/ StopsPersister(c) \/ OpensStore(c)
       \/ Shutdown(c) \/ DeleteRemoves(c)

(* The dispatching goroutine runs, and a request that holds the lock goes  *)
(* on; nobody is bound to emit or to ask.                                  *)
RecordSpec ==
  /\ RecordInit /\ [][RecordNext]_recordVars
  /\ WF_recordVars(Dispatch) /\ WF_recordVars(PersisterStops)
  /\ \A c \in Clients :
       /\ SF_recordVars(StopsPersister(c))
       /\ WF_recordVars(OpensStore(c))
-----------------------------------------------------------------------------
RecordTypeOK ==
  /\ conversation \in Conversations /\ storeOf \in Conversations
  /\ Len(channel) <= BusBuffer /\ (persister = "stopped" => channel = <<>>)
  /\ sessionMu # 0 <=> \E c \in Clients : step[c] = "stopping"

(* What the persister took in while a conversation's store was live is in  *)
(* that conversation's file, or is waiting for the store that is still     *)
(* live: no rotation and no shutdown loses an entry, or lets one slip into *)
(* the file that follows.                                                  *)
Waiting(c) == IF c = storeOf THEN Queued ELSE {}

RecordIsComplete ==
  \A c \in Conversations : written[c] = {Entries(c)[i] : i \in DOMAIN Entries(c)} \cup Waiting(c)

(* The entries of a file are in the order they were emitted, each of them  *)
(* once, and what waits is later than all of them.                         *)
RecordInOrder ==
  \A c \in Conversations : \A i \in DOMAIN Entries(c) :
    /\ \A j \in DOMAIN Entries(c) : i < j => Entries(c)[i] < Entries(c)[j]
    /\ \A n \in Waiting(c) : Entries(c)[i] < n

(* Every request that rotates the record ends, and with it the lock that   *)
(* ConversationID takes too.                                               *)
RotationEnds == sessionMu # 0 ~> sessionMu = 0

(* "deleting it would orphan every subsequent write" (api/sessions.go:57): *)
(* the store that is live never writes to a file that is gone.             *)
NeverOrphaned == handle # "orphaned"

(* A conversation's record has every entry that its persister received,    *)
(* in order, and no other.                                                 *)
RecordIsKept == RecordTypeOK /\ RecordIsComplete /\ RecordInOrder
=============================================================================
