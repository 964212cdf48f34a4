--------------------------- MODULE Server_proofs ---------------------------
(***************************************************************************)
(* What the clients of one server share, for any number of them, of        *)
(* conversations, events, calls and prompts: the file of a conversation    *)
(* under its persister, the event streams and the blackboard's process.    *)
(***************************************************************************)
EXTENDS ConversationRecord, EventStream, Blackboard, FiniteSetTheorems, TLAPS

(* Taking the head of a queue, index by index.                             *)
LEMMA QueueFacts ==
  ASSUME NEW S, NEW s \in Seq(S), s # <<>>
  PROVE  /\ Len(s) \in Nat \ {0} /\ Head(s) = s[1] /\ s[1] \in S /\ DOMAIN s = 1 .. Len(s)
         /\ Tail(s) \in Seq(S) /\ Len(Tail(s)) = Len(s) - 1 /\ DOMAIN Tail(s) = 1 .. Len(s) - 1
         /\ \A i \in 1 .. Len(s) - 1 : Tail(s)[i] = s[i + 1]
OBVIOUS

(* Appending to a queue, index by index.                                   *)
LEMMA AppendFacts ==
  ASSUME NEW S, NEW s \in Seq(S), NEW e \in S
  PROVE  /\ Len(s) \in Nat /\ DOMAIN s = 1 .. Len(s) /\ Append(s, e) \in Seq(S)
         /\ Len(Append(s, e)) = Len(s) + 1 /\ DOMAIN Append(s, e) = 1 .. Len(s) + 1
         /\ \A i \in 1 .. Len(s) : Append(s, e)[i] = s[i]
         /\ Append(s, e)[Len(s) + 1] = e
OBVIOUS

-----------------------------------------------------------------------------
(* The record (ConversationRecord).                                        *)

(* An event on its way to the persister.                                   *)
QueuedEvents == [n : Nat \ {0}, kind : RecordedKinds]

(* Every variable of the record, of its type.                              *)
RecordTypes ==
  /\ conversation \in Conversations /\ storeOf \in Conversations /\ events \in Nat
  /\ record \in [Conversations -> Seq(Nat \ {0}) \cup {NoRecord}]
  /\ written \in [Conversations -> SUBSET (Nat \ {0})]
  /\ channel \in Seq(QueuedEvents) /\ persister \in {"running", "draining", "stopped"}
  /\ request \in [Clients -> {"none", "clear", "resume", "delete", "shutdown"}]
  /\ step \in [Clients -> {"idle", "checked", "stopping"}]
  /\ want \in [Clients -> Conversations \cup {0}]
  /\ sessionMu \in Clients \cup {0}

(* Who rotates holds the lock, and knows where to.                         *)
RequestsHold ==
  \A c \in Clients :
    /\ step[c] = "stopping" <=> sessionMu = c
    /\ step[c] # "idle" /\ request[c] # "shutdown" => want[c] \in Conversations
    /\ step[c] = "stopping" => request[c] \in {"clear", "resume", "shutdown"}

(* The channel holds the latest events, later than those in any file.      *)
ChannelIsLatest ==
  /\ Len(channel) <= BusBuffer /\ (persister = "stopped" => channel = <<>>)
  /\ \A i \in DOMAIN channel : /\ channel[i].n <= events
                               /\ \A j \in DOMAIN channel : i < j => channel[i].n < channel[j].n
  /\ \A c \in Conversations : \A i \in DOMAIN Entries(c) :
       /\ Entries(c)[i] <= events
       /\ c = storeOf => \A j \in DOMAIN channel : Entries(c)[i] < channel[j].n

RecordInv ==
  RecordTypes /\ RequestsHold /\ ChannelIsLatest /\ RecordIsComplete /\ RecordInOrder
-----------------------------------------------------------------------------
(* What a place of the channel holds.                                      *)
LEMMA PlaceTypes ==
  ASSUME RecordTypes, NEW i \in DOMAIN channel
  PROVE  channel[i] \in QueuedEvents /\ channel[i].n \in Nat \ {0}
<1>1. channel[i] \in QueuedEvents
  BY DEF RecordTypes
<1>2. QED
  BY <1>1 DEF QueuedEvents

(* A conversation's entries are a sequence, whether or not it has a file.  *)
LEMMA EntryTypes ==
  ASSUME RecordTypes, NEW c \in Conversations
  PROVE  Entries(c) \in Seq(Nat \ {0}) /\ NoRecord \notin Seq(Nat \ {0})
<1>1. NoRecord \notin Seq(Nat \ {0})
  <2> SUFFICES ASSUME NoRecord \in Seq(Nat \ {0}) PROVE FALSE
    OBVIOUS
  <2>1. NoRecord[1] = -1 /\ 1 \in DOMAIN NoRecord
    BY DEF NoRecord
  <2>2. NoRecord[1] \in Nat
    BY <2>1
  <2>3. QED
    BY <2>1, <2>2
<1>2. QED
  BY <1>1 DEF RecordTypes, Entries

(* The channel and the files are empty at the start.                       *)
LEMMA RecordBegins == RecordInit => RecordInv
<1> SUFFICES ASSUME RecordInit PROVE RecordInv
  OBVIOUS
<1> USE RecordAssumption DEF RecordInit
<1>1. RecordTypes
  BY DEF RecordTypes
<1>2. RequestsHold
  BY DEF RequestsHold
<1>3. \A c \in Conversations : Entries(c) = <<>> /\ Waiting(c) = {}
  BY DEF Entries, Waiting, Queued
<1>4. ChannelIsLatest /\ RecordIsComplete /\ RecordInOrder
  BY <1>3 DEF ChannelIsLatest, RecordIsComplete, RecordInOrder
<1>5. QED
  BY <1>1, <1>2, <1>4 DEF RecordInv

(* The steps of a request that leave the files and the channel alone.      *)
LEMMA RequestStep ==
  ASSUME RecordInv, NEW c \in Clients,
         \/ \E id \in Conversations : ClearFinds(c, id) \/ ResumeFinds(c, id) \/ DeleteFinds(c, id)
         \/ StopsPersister(c) \/ Shutdown(c)
  PROVE  RecordInv'
<1> USE DEF busVars, clientVars, Begins, Goes
<1>i. RecordTypes /\ RequestsHold /\ ChannelIsLatest /\ RecordIsComplete /\ RecordInOrder
  BY DEF RecordInv
<1>u. UNCHANGED <<events, record, written, storeOf, channel, handle>>
  BY DEF ClearFinds, ResumeFinds, DeleteFinds, StopsPersister, Shutdown
<1>e. /\ \A d \in Conversations : Entries(d)' = Entries(d) /\ Waiting(d)' = Waiting(d)
      /\ Queued' = Queued
  BY <1>u DEF Entries, Waiting, Queued
<1>1. RecordIsComplete' /\ RecordInOrder'
  BY <1>i, <1>u, <1>e DEF RecordIsComplete, RecordInOrder
<1>2. CASE \E id \in Conversations : ClearFinds(c, id) \/ ResumeFinds(c, id) \/ DeleteFinds(c, id)
  <2>1. PICK id \in Conversations : ClearFinds(c, id) \/ ResumeFinds(c, id) \/ DeleteFinds(c, id)
    BY <1>2
  <2>2. /\ step[c] = "idle" /\ step' = [step EXCEPT ![c] = "checked"]
        /\ want' = [want EXCEPT ![c] = id] /\ UNCHANGED <<conversation, persister, sessionMu>>
        /\ \E r \in {"clear", "resume", "delete"} : request' = [request EXCEPT ![c] = r]
    BY <2>1 DEF ClearFinds, ResumeFinds, DeleteFinds
  <2>3. RecordTypes' /\ RequestsHold'
    BY <1>i, <1>u, <2>2 DEF RecordTypes, RequestsHold
  <2>4. ChannelIsLatest'
    BY <1>i, <1>u, <1>e, <2>2 DEF ChannelIsLatest
  <2>5. QED
    BY <1>1, <2>3, <2>4 DEF RecordInv
<1>3. CASE Shutdown(c)
  <2>1. /\ step[c] = "idle" /\ step' = [step EXCEPT ![c] = "checked"]
        /\ want' = [want EXCEPT ![c] = 0] /\ UNCHANGED <<conversation, persister, sessionMu>>
        /\ request' = [request EXCEPT ![c] = "shutdown"]
    BY <1>3 DEF Shutdown
  <2>2. RecordTypes' /\ RequestsHold'
    BY <1>i, <1>u, <2>1 DEF RecordTypes, RequestsHold
  <2>3. ChannelIsLatest'
    BY <1>i, <1>u, <1>e, <2>1 DEF ChannelIsLatest
  <2>4. QED
    BY <1>1, <2>2, <2>3 DEF RecordInv
<1>4. CASE StopsPersister(c)
  <2>1. /\ step[c] = "checked" /\ step' = [step EXCEPT ![c] = "stopping"]
        /\ sessionMu = 0 /\ sessionMu' = c /\ UNCHANGED <<request, want>>
        /\ persister' = IF persister = "running" THEN "draining" ELSE persister
    BY <1>4 DEF StopsPersister
  <2>1e. \/ request[c] \in {"clear", "resume"} /\ conversation' = want[c]
         \/ request[c] = "shutdown" /\ conversation' = conversation
    BY <1>4 DEF StopsPersister
  <2>1a. conversation' \in Conversations
    BY <1>i, <2>1, <2>1e DEF RecordTypes, RequestsHold
  <2>1b. /\ sessionMu' \in Clients /\ step' \in [Clients -> {"idle", "checked", "stopping"}]
         /\ persister' \in {"running", "draining", "stopped"}
    BY <1>i, <2>1 DEF RecordTypes
  <2>1c. RecordTypes'
    BY <1>i, <1>u, <2>1, <2>1a, <2>1b DEF RecordTypes
  <2>1d. RequestsHold'
    BY <1>i, <2>1, <2>1e, RecordAssumption DEF RecordTypes, RequestsHold
  <2>2. RecordTypes' /\ RequestsHold'
    BY <2>1c, <2>1d
  <2>3. ChannelIsLatest'
    BY <1>i, <1>u, <1>e, <2>1 DEF ChannelIsLatest, RecordTypes
  <2>4. QED
    BY <1>1, <2>2, <2>3 DEF RecordInv
<1>5. QED
  BY <1>2, <1>3, <1>4

(* An event is published: it goes to the end of the channel with the next  *)
(* number, or is lost when nobody reads.                                   *)
LEMMA EmitStep ==
  ASSUME RecordInv, NEW sort \in RecordedKinds, Emit(sort)
  PROVE  RecordInv'
<1> USE DEF clientVars
<1>i. RecordTypes /\ RequestsHold /\ ChannelIsLatest /\ RecordIsComplete /\ RecordInOrder
  BY DEF RecordInv
<1>u. /\ UNCHANGED <<conversation, record, storeOf, persister, request, step, want, sessionMu>>
      /\ events \in Nat /\ events' = events + 1 /\ Takes(Event(events + 1, sort))
  BY <1>i DEF Emit, RecordTypes
<1>h. RequestsHold'
  BY <1>i, <1>u DEF RequestsHold
<1>e. \A d \in Conversations : Entries(d)' = Entries(d) /\ Entries(d) \in Seq(Nat \ {0})
  BY <1>i, <1>u, EntryTypes DEF Entries
<1>1. CASE UNCHANGED <<channel, written>>
  <2>1. RecordTypes'
    BY <1>i, <1>u, <1>1 DEF RecordTypes
  <2>2. \A d \in Conversations : Waiting(d)' = Waiting(d)
    BY <1>u, <1>1 DEF Waiting, Queued
  <2>3. RecordIsComplete' /\ RecordInOrder'
    BY <1>i, <1>1, <1>e, <2>2 DEF RecordIsComplete, RecordInOrder
  <2>4. ChannelIsLatest'
    <3>1. \A i \in DOMAIN channel : channel[i].n \in Nat
      BY <1>i, PlaceTypes
    <3>2. \A d \in Conversations : \A i \in DOMAIN Entries(d) : Entries(d)[i] \in Nat
      BY <1>e
    <3>3. QED
      BY <1>i, <1>u, <1>1, <1>e, <3>1, <3>2 DEF ChannelIsLatest
  <2>5. QED
    BY <1>h, <2>1, <2>3, <2>4 DEF RecordInv
<1>2. CASE ~UNCHANGED <<channel, written>>
  <2> DEFINE e == Event(events + 1, sort)
  <2>1. /\ persister = "running" /\ Len(channel) < BusBuffer /\ channel' = Append(channel, e)
        /\ written' = IF Kept(e) THEN [written EXCEPT ![storeOf] = @ \cup {e.n}] ELSE written
        /\ e \in QueuedEvents /\ e.n = events + 1 /\ e.kind = sort
    BY <1>u, <1>2 DEF Takes, Event, QueuedEvents
  <2> HIDE DEF e
  <2>2. /\ Len(channel) \in Nat /\ DOMAIN channel = 1 .. Len(channel)
        /\ channel' \in Seq(QueuedEvents) /\ Len(channel') = Len(channel) + 1
        /\ DOMAIN channel' = 1 .. Len(channel) + 1
        /\ \A i \in 1 .. Len(channel) : channel'[i] = channel[i]
        /\ channel'[Len(channel) + 1] = e
    BY <1>i, <2>1, AppendFacts DEF RecordTypes
  <2>3. \A i \in DOMAIN channel : channel[i] \in QueuedEvents /\ channel[i].n \in Nat
    BY <1>i, PlaceTypes
  <2>4. Queued' = IF Kept(e) THEN Queued \cup {e.n} ELSE Queued
    BY <2>2 DEF Queued
  <2>5. RecordTypes'
    BY <1>i, <1>u, <2>1, <2>2 DEF RecordTypes
  <2>6. RecordIsComplete'
    BY <1>i, <1>u, <1>e, <2>1, <2>4 DEF RecordIsComplete, Waiting, RecordTypes
  <2>7. RecordInOrder'
    <3>1. \A d \in Conversations : \A i \in DOMAIN Entries(d) : Entries(d)[i] < e.n
      BY <1>i, <1>u, <1>e, <2>1 DEF ChannelIsLatest
    <3>2. QED
      BY <1>i, <1>u, <1>e, <2>4, <3>1 DEF RecordInOrder, Waiting
  <2>8. ChannelIsLatest'
    <3>1. Len(channel') <= BusBuffer
      BY <2>1, <2>2, RecordAssumption
    <3>2. \A i \in DOMAIN channel' : channel'[i].n <= events'
      BY <1>i, <1>u, <2>1, <2>2, <2>3 DEF ChannelIsLatest
    <3>3. \A i, j \in DOMAIN channel' : i < j => channel'[i].n < channel'[j].n
      BY <1>i, <1>u, <2>1, <2>2, <2>3 DEF ChannelIsLatest
    <3>4. \A d \in Conversations : \A i \in DOMAIN Entries(d) :
             /\ Entries(d)[i] <= events'
             /\ d = storeOf => \A j \in DOMAIN channel' : Entries(d)[i] < channel'[j].n
      BY <1>i, <1>u, <1>e, <2>1, <2>2 DEF ChannelIsLatest
    <3>5. QED
      BY <1>u, <1>e, <2>1, <3>1, <3>2, <3>3, <3>4 DEF ChannelIsLatest
  <2>9. QED
    BY <1>h, <2>5, <2>6, <2>7, <2>8 DEF RecordInv
<1>3. QED
  BY <1>1, <1>2

(* What is dispatched was the first of the channel, and later than all the *)
(* file has.                                                               *)
LEMMA DispatchStep ==
  ASSUME RecordInv, Dispatch
  PROVE  RecordInv'
<1> USE DEF clientVars
<1>i. RecordTypes /\ RequestsHold /\ ChannelIsLatest /\ RecordIsComplete /\ RecordInOrder
  BY DEF RecordInv
<1> DEFINE e == Head(channel)
<1>u. /\ channel # <<>> /\ channel' = Tail(channel)
      /\ UNCHANGED <<conversation, events, storeOf, persister, request, step, want, sessionMu>>
      /\ IF Kept(e) THEN Recorded(e.n) ELSE UNCHANGED <<record, handle, written>>
  BY DEF Dispatch
<1>q. /\ Len(channel) \in Nat \ {0} /\ e = channel[1] /\ e \in QueuedEvents
      /\ DOMAIN channel = 1 .. Len(channel)
      /\ channel' \in Seq(QueuedEvents) /\ Len(channel') = Len(channel) - 1
      /\ DOMAIN channel' = 1 .. Len(channel) - 1
      /\ \A i \in 1 .. Len(channel) - 1 : channel'[i] = channel[i + 1]
  BY <1>i, <1>u, QueueFacts DEF RecordTypes
<1> HIDE DEF e
<1>p. \A i \in DOMAIN channel : channel[i].n \in Nat \ {0}
  BY <1>i, PlaceTypes
<1>1a. 1 \in DOMAIN channel
  BY <1>q
<1>n. e.n \in Nat \ {0} /\ e.n <= events /\ events \in Nat
  BY <1>i, <1>q, <1>p, <1>1a DEF ChannelIsLatest, RecordTypes
<1>l. ASSUME NEW j \in DOMAIN channel' PROVE e.n < channel'[j].n
  <2>1. j + 1 \in DOMAIN channel /\ 1 < j + 1 /\ channel'[j] = channel[j + 1]
    BY <1>q
  <2>2. QED
    BY <1>i, <1>q, <1>1a, <2>1 DEF ChannelIsLatest
<1>d. Queued = IF Kept(e) THEN Queued' \cup {e.n} ELSE Queued'
  <2>1. Queued \subseteq IF Kept(e) THEN Queued' \cup {e.n} ELSE Queued'
    <3> SUFFICES ASSUME NEW i \in DOMAIN channel, Kept(channel[i])
                 PROVE  channel[i].n \in Queued' \/ (Kept(e) /\ channel[i].n = e.n)
      BY DEF Queued
    <3>1. CASE i = 1
      BY <3>1, <1>q
    <3>2. CASE i # 1
      <4>1. PICK j \in DOMAIN channel' : channel'[j] = channel[i]
        <5>1. i - 1 \in DOMAIN channel' /\ i - 1 \in 1 .. Len(channel) - 1 /\ (i - 1) + 1 = i
          BY <3>2, <1>q
        <5>2. channel'[i - 1] = channel[i]
          BY <5>1, <1>q
        <5>3. QED
          BY <5>1, <5>2
      <4>2. Kept(channel'[j])
        BY <4>1
      <4>3. QED
        BY <4>1, <4>2 DEF Queued
    <3>3. QED
      BY <3>1, <3>2
  <2>2. Queued' \subseteq Queued
    <3> SUFFICES ASSUME NEW i \in DOMAIN channel', Kept(channel'[i])
                 PROVE  channel'[i].n \in Queued
      BY DEF Queued
    <3>1. i + 1 \in DOMAIN channel /\ channel'[i] = channel[i + 1]
      BY <1>q
    <3>2. QED
      BY <3>1 DEF Queued
  <2>3. Kept(e) => e.n \in Queued
    BY <1>q DEF Queued
  <2>4. QED
    BY <2>1, <2>2, <2>3
<1>f. e.n \notin Queued'
  <2>1. \A j \in DOMAIN channel' : channel'[j].n \in Nat
    BY <1>p, <1>q
  <2>2. QED
    BY <1>l, <1>n, <2>1 DEF Queued
<1>h. RequestsHold'
  BY <1>i, <1>u DEF RequestsHold
<1>c. /\ Len(channel') <= BusBuffer /\ (persister' = "stopped" => channel' = <<>>)
      /\ \A i \in DOMAIN channel' :
           /\ channel'[i].n <= events'
           /\ \A j \in DOMAIN channel' : i < j => channel'[i].n < channel'[j].n
  <2>1. Len(channel') <= BusBuffer /\ (persister' = "stopped" => channel' = <<>>)
    BY <1>i, <1>q, <1>u, RecordAssumption DEF ChannelIsLatest
  <2>2. \A i \in DOMAIN channel' :
           /\ channel'[i].n <= events'
           /\ \A j \in DOMAIN channel' : i < j => channel'[i].n < channel'[j].n
    BY <1>i, <1>q, <1>u DEF ChannelIsLatest
  <2>3. QED
    BY <2>1, <2>2
<1>s. \A d \in Conversations : Entries(d) \in Seq(Nat \ {0})
  BY <1>i, EntryTypes
<1>o. storeOf \in Conversations
  BY <1>i DEF RecordTypes
<1>4. e.n \notin {Entries(storeOf)[i] : i \in DOMAIN Entries(storeOf)}
  <2>1. \A i \in DOMAIN Entries(storeOf) : Entries(storeOf)[i] \in Nat /\ Entries(storeOf)[i] < e.n
    BY <1>i, <1>q, <1>1a, <1>o, <1>s DEF ChannelIsLatest
  <2>2. QED
    BY <2>1, <1>n
<1>1. CASE /\ UNCHANGED record
           /\ written' = IF Kept(e) THEN [written EXCEPT ![storeOf] = @ \ {e.n}] ELSE written
  <2>1. \A d \in Conversations : Entries(d)' = Entries(d)
    BY <1>1 DEF Entries
  <2>2. RecordTypes'
    BY <1>i, <1>u, <1>q, <1>1 DEF RecordTypes
  <2>3. RecordIsComplete'
    <3>1. ASSUME NEW d \in Conversations, d # storeOf
          PROVE  written'[d] = written[d] /\ Waiting(d)' = Waiting(d)
      BY <3>1, <1>i, <1>u, <1>1 DEF RecordTypes, Waiting
    <3>2. Waiting(storeOf) = Queued /\ Waiting(storeOf)' = Queued'
      BY <1>u DEF Waiting
    <3>3. written'[storeOf] = {Entries(storeOf)[i] : i \in DOMAIN Entries(storeOf)} \cup Queued'
      <4>1. CASE Kept(e)
        BY <4>1, <1>i, <1>o, <1>1, <1>4, <1>d, <1>f, <3>2 DEF RecordIsComplete, RecordTypes
      <4>2. CASE ~Kept(e)
        BY <4>2, <1>i, <1>o, <1>1, <1>d, <3>2 DEF RecordIsComplete
      <4>3. QED
        BY <4>1, <4>2
    <3>4. QED
      BY <1>i, <1>u, <2>1, <3>1, <3>2, <3>3 DEF RecordIsComplete
  <2>4. RecordInOrder'
    BY <1>i, <1>u, <1>d, <2>1 DEF RecordInOrder, Waiting
  <2>5. \A c \in Conversations : \A i \in DOMAIN Entries(c) :
          /\ Entries(c)[i] <= events
          /\ c = storeOf => \A j \in DOMAIN channel' : Entries(c)[i] < channel'[j].n
    BY <1>i, <1>q DEF ChannelIsLatest
  <2>6. ChannelIsLatest'
    BY <1>c, <1>u, <2>1, <2>5 DEF ChannelIsLatest
  <2>7. QED
    BY <1>h, <2>2, <2>3, <2>4, <2>6 DEF RecordInv
<1>2. CASE Kept(e) /\ record' = [record EXCEPT ![storeOf] = Append(Entries(storeOf), e.n)] /\ UNCHANGED written
  <2> DEFINE old == Entries(storeOf)
  <2>1. /\ Len(old) \in Nat /\ DOMAIN old = 1 .. Len(old) /\ Append(old, e.n) \in Seq(Nat \ {0})
        /\ Len(Append(old, e.n)) = Len(old) + 1 /\ DOMAIN Append(old, e.n) = 1 .. Len(old) + 1
        /\ \A i \in 1 .. Len(old) : Append(old, e.n)[i] = old[i]
        /\ Append(old, e.n)[Len(old) + 1] = e.n
    BY <1>s, <1>n, <1>o, AppendFacts
  <2>2. Append(old, e.n) # NoRecord
    BY <2>1, <1>o, <1>i, EntryTypes
  <2>3. Entries(storeOf)' = Append(old, e.n)
    BY <1>2, <1>i, <1>u, <1>o, <2>2 DEF Entries, RecordTypes
  <2>4. \A d \in Conversations : d # storeOf => Entries(d)' = Entries(d)
    BY <1>2, <1>i DEF Entries, RecordTypes
  <2>5. RecordTypes'
    BY <1>2, <1>i, <1>u, <1>q, <2>1 DEF RecordTypes
  <2> HIDE DEF old
  <2>6. \A i \in DOMAIN old : old[i] < e.n /\ old[i] \in Nat
    BY <1>i, <1>q, <1>o, <1>s DEF ChannelIsLatest, old
  <2>7. RecordIsComplete'
    <3>1. {Entries(storeOf)'[i] : i \in DOMAIN Entries(storeOf)'} = {old[i] : i \in DOMAIN old} \cup {e.n}
      BY <2>1, <2>3
    <3>2. \A d \in Conversations : d # storeOf => Waiting(d)' = Waiting(d)
      BY <1>u DEF Waiting
    <3>3. Waiting(storeOf)' \cup {e.n} = Waiting(storeOf)
      BY <1>2, <1>u, <1>d DEF Waiting
    <3>4. written[storeOf] = {old[i] : i \in DOMAIN old} \cup Waiting(storeOf)
      BY <1>i, <1>o DEF RecordIsComplete, old
    <3>5. ASSUME NEW d \in Conversations
          PROVE  written[d] = {Entries(d)'[i] : i \in DOMAIN Entries(d)'} \cup Waiting(d)'
      <4>1. CASE d = storeOf
        <5>1. Entries(d)' = Append(old, e.n) /\ written[d] = {old[i] : i \in DOMAIN old} \cup Waiting(d)
          BY <4>1, <1>u, <2>3, <3>4
        <5>2. {Entries(d)'[i] : i \in DOMAIN Entries(d)'} = {old[i] : i \in DOMAIN old} \cup {e.n}
          BY <5>1, <2>1
        <5>3. Waiting(d)' \cup {e.n} = Waiting(d)
          BY <4>1, <1>u, <3>3
        <5>4. QED
          BY <5>1, <5>2, <5>3
      <4>2. CASE d # storeOf
        BY <4>2, <1>i, <2>4, <3>2 DEF RecordIsComplete
      <4>3. QED
        BY <4>1, <4>2
    <3>6. QED
      BY <1>2, <3>5 DEF RecordIsComplete
  <2>8. RecordInOrder'
    <3> SUFFICES ASSUME NEW d \in Conversations, NEW i \in DOMAIN Entries(d)'
                 PROVE  /\ \A j \in DOMAIN Entries(d)' : i < j => Entries(d)'[i] < Entries(d)'[j]
                        /\ \A n \in Waiting(d)' : Entries(d)'[i] < n
      BY <1>u DEF RecordInOrder
    <3>1. CASE d # storeOf
      BY <3>1, <1>i, <1>u, <2>4 DEF RecordInOrder, Waiting
    <3>2. CASE d = storeOf
      <4>1. \A n \in Queued' : e.n < n /\ n \in Nat
        BY <1>l, <1>p, <1>q DEF Queued
      <4>2. \A j, k \in DOMAIN old : j < k => old[j] < old[k]
        BY <1>i, <1>o DEF RecordInOrder, old
      <4>3. QED
        BY <3>2, <1>u, <1>n, <2>1, <2>3, <2>6, <4>1, <4>2 DEF Waiting
    <3>3. QED
      BY <3>1, <3>2
  <2>9. \A c \in Conversations : \A i \in DOMAIN Entries(c)' :
          /\ Entries(c)'[i] <= events
          /\ c = storeOf => \A j \in DOMAIN channel' : Entries(c)'[i] < channel'[j].n
    <3> SUFFICES ASSUME NEW c \in Conversations, NEW i \in DOMAIN Entries(c)'
                 PROVE  /\ Entries(c)'[i] <= events
                        /\ c = storeOf => \A j \in DOMAIN channel' : Entries(c)'[i] < channel'[j].n
      OBVIOUS
    <3>1. CASE c # storeOf
      BY <3>1, <1>i, <2>4 DEF ChannelIsLatest
    <3>2. CASE c = storeOf
      <4>1. \A j \in DOMAIN channel' : channel'[j].n \in Nat
        BY <1>p, <1>q
      <4>2. Entries(c)' = Append(old, e.n)
        BY <3>2, <1>u, <2>3
      <4>3. CASE i = Len(old) + 1
        BY <4>3, <4>2, <1>n, <1>l, <2>1
      <4>4. CASE i # Len(old) + 1
        <5>1. i \in DOMAIN old /\ Entries(c)'[i] = old[i]
          BY <4>2, <4>4, <2>1
        <5>2. old[i] < e.n /\ old[i] \in Nat
          BY <5>1, <2>6
        <5>3. QED
          BY <1>n, <1>l, <4>1, <5>1, <5>2
      <4>5. QED
        BY <4>3, <4>4
    <3>3. QED
      BY <3>1, <3>2
  <2>10. ChannelIsLatest'
    BY <1>c, <1>u, <2>9 DEF ChannelIsLatest
  <2>11. QED
    BY <1>h, <2>5, <2>7, <2>8, <2>10 DEF RecordInv
<1>3. \/ /\ UNCHANGED record
         /\ written' = IF Kept(e) THEN [written EXCEPT ![storeOf] = @ \ {e.n}] ELSE written
      \/ /\ Kept(e) /\ UNCHANGED written
         /\ record' = [record EXCEPT ![storeOf] = Append(Entries(storeOf), e.n)]
  BY <1>u DEF Recorded
<1>5. QED
  BY <1>1, <1>2, <1>3

(* The steps that end a request, with the store and the file changing.     *)
LEMMA SettleStep ==
  ASSUME RecordInv, PersisterStops \/ \E c \in Clients : OpensStore(c) \/ DeleteRemoves(c)
  PROVE  RecordInv'
<1> USE DEF busVars, clientVars, Goes, Settles
<1>i. RecordTypes /\ RequestsHold /\ ChannelIsLatest /\ RecordIsComplete /\ RecordInOrder
  BY DEF RecordInv
<1>1. CASE PersisterStops
  <2>1. /\ channel = <<>> /\ persister' = "stopped"
        /\ UNCHANGED <<conversation, events, written, record, storeOf, channel, request, step,
                       want,
                       sessionMu>>
    BY <1>1 DEF PersisterStops, Drained
  <2>2. /\ \A d \in Conversations : Entries(d)' = Entries(d) /\ Waiting(d)' = Waiting(d)
    BY <2>1 DEF Entries, Waiting, Queued
  <2>3. RecordTypes' /\ RequestsHold'
    BY <1>i, <2>1 DEF RecordTypes, RequestsHold
  <2>4. ChannelIsLatest' /\ RecordIsComplete' /\ RecordInOrder'
    BY <1>i, <2>1, <2>2 DEF ChannelIsLatest, RecordIsComplete, RecordInOrder
  <2>5. QED
    BY <2>3, <2>4 DEF RecordInv
<1>2. ASSUME NEW c \in Clients, OpensStore(c) PROVE RecordInv'
  <2>1. /\ step[c] = "stopping" /\ step' = [step EXCEPT ![c] = "idle"]
        /\ persister = "stopped" /\ sessionMu' = 0
        /\ request' = [request EXCEPT ![c] = "none"] /\ want' = [want EXCEPT ![c] = 0]
        /\ UNCHANGED <<conversation, events, channel, written, record>>
        /\ \/ request[c] = "shutdown" /\ UNCHANGED <<storeOf, persister>>
           \/ request[c] # "shutdown" /\ storeOf' = want[c] /\ persister' = "running"
    BY <1>2 DEF OpensStore
  <2>2. channel = <<>> /\ Queued = {} /\ Queued' = {}
    BY <1>i, <2>1 DEF ChannelIsLatest, Queued
  <2>3. /\ \A d \in Conversations : Entries(d)' = Entries(d) /\ Waiting(d) = {} /\ Waiting(d)' = {}
    BY <2>1, <2>2 DEF Entries, Waiting
  <2>4. storeOf' \in Conversations
    BY <1>i, <2>1 DEF RecordTypes, RequestsHold
  <2>5. sessionMu = c /\ sessionMu' \notin Clients
    BY <1>i, <2>1, RecordAssumption DEF RequestsHold
  <2>6. RecordTypes'
    BY <1>i, <2>1, <2>4 DEF RecordTypes
  <2>7. RequestsHold'
    BY <1>i, <2>1, <2>5 DEF RecordTypes, RequestsHold
  <2>8. ChannelIsLatest' /\ RecordIsComplete' /\ RecordInOrder'
    BY <1>i, <2>1, <2>2, <2>3 DEF ChannelIsLatest, RecordIsComplete, RecordInOrder
  <2>9. QED
    BY <2>6, <2>7, <2>8 DEF RecordInv
<1>3. ASSUME NEW c \in Clients, DeleteRemoves(c) PROVE RecordInv'
  <2>1. /\ step[c] = "checked" /\ step' = [step EXCEPT ![c] = "idle"] /\ request[c] = "delete"
        /\ request' = [request EXCEPT ![c] = "none"] /\ want' = [want EXCEPT ![c] = 0]
        /\ UNCHANGED <<conversation, events, channel, storeOf, persister, sessionMu>>
    BY <1>3 DEF DeleteRemoves
  <2>2. PICK id \in Conversations : want[c] = id
    BY <1>i, <2>1 DEF RequestsHold
  <2>3. /\ record' = [record EXCEPT ![id] = NoRecord]
        /\ written' = [written EXCEPT ![id] = Waiting(id)]
    BY <1>3, <2>2 DEF DeleteRemoves, Waiting
  <2>4. /\ \A d \in Conversations : Waiting(d)' = Waiting(d)
        /\ Waiting(id) \subseteq Nat \ {0}
    BY <1>i, <2>1, PlaceTypes DEF Waiting, Queued
  <2>5. ASSUME NEW d \in Conversations
        PROVE  IF d = id THEN Entries(d)' = <<>> /\ written'[d] = Waiting(d)
                         ELSE Entries(d)' = Entries(d) /\ written'[d] = written[d]
    BY <1>i, <2>3 DEF Entries, RecordTypes
  <2>6. RecordTypes'
    BY <1>i, <2>1, <2>2, <2>3, <2>4 DEF RecordTypes
  <2>7. RequestsHold'
    BY <1>i, <2>1 DEF RecordTypes, RequestsHold
  <2>8. \A d \in Conversations : Entries(d)' = <<>> \/ Entries(d)' = Entries(d)
    BY <2>5
  <2>9. RecordIsComplete'
    <3> SUFFICES ASSUME NEW d \in Conversations
                 PROVE  written'[d] = {Entries(d)'[i] : i \in DOMAIN Entries(d)'} \cup Waiting(d)'
      BY DEF RecordIsComplete
    <3>1. CASE d = id
      BY <3>1, <2>4, <2>5
    <3>2. CASE d # id
      BY <3>2, <1>i, <2>4, <2>5 DEF RecordIsComplete
    <3>3. QED
      BY <3>1, <3>2
  <2>10. RecordInOrder'
    BY <1>i, <2>4, <2>8 DEF RecordInOrder
  <2>11. ChannelIsLatest'
    BY <1>i, <2>1, <2>8 DEF ChannelIsLatest
  <2>12. QED
    BY <2>6, <2>7, <2>9, <2>10, <2>11 DEF RecordInv
<1>4. QED
  BY <1>1, <1>2, <1>3

(* Every entry the persister receives is in its conversation's file, in    *)
(* order and once, through clears, resumes, deletions and a shutdown.      *)
THEOREM RecordStaysKept == RecordSpec => []RecordIsKept
<1>1. RecordInv /\ [RecordNext]_recordVars => RecordInv'
  <2> SUFFICES ASSUME RecordInv, [RecordNext]_recordVars PROVE RecordInv'
    OBVIOUS
  <2>1. CASE \E k \in RecordedKinds : Emit(k)
    BY <2>1, EmitStep
  <2>2. CASE Dispatch
    BY <2>2, DispatchStep
  <2>3. CASE PersisterStops
    BY <2>3, SettleStep
  <2>4. ASSUME NEW c \in Clients,
               \/ \E id \in Conversations : ClearFinds(c, id) \/ ResumeFinds(c, id) \/ DeleteFinds(c, id)
               \/ StopsPersister(c) \/ OpensStore(c)
               \/ Shutdown(c) \/ DeleteRemoves(c)
        PROVE  RecordInv'
    BY <2>4, RequestStep, SettleStep
  <2>5. CASE UNCHANGED recordVars
    <3>1. /\ \A d \in Conversations : Entries(d)' = Entries(d) /\ Waiting(d)' = Waiting(d)
      BY <2>5 DEF recordVars, Entries, Waiting, Queued
    <3>2. QED
      BY <2>5, <3>1 DEF recordVars, RecordInv, RecordTypes, RequestsHold, ChannelIsLatest,
                        RecordIsComplete, RecordInOrder
  <2>6. QED
    BY <2>1, <2>2, <2>3, <2>4, <2>5 DEF RecordNext
<1>2. RecordInv => RecordIsKept
  <2> SUFFICES ASSUME RecordInv PROVE RecordIsKept
    OBVIOUS
  <2>1. sessionMu # 0 <=> \E c \in Clients : step[c] = "stopping"
    BY RecordAssumption DEF RecordInv, RecordTypes, RequestsHold
  <2>2. QED
    BY <2>1 DEF RecordInv, RecordIsKept, RecordTypeOK, RecordTypes, ChannelIsLatest
<1>3. QED
  BY RecordBegins, <1>1, <1>2, PTL DEF RecordSpec
-----------------------------------------------------------------------------
(* The streams (EventStream).                                              *)

BusEvents == [n : Nat \ {0}, kind : EventKinds]
Frames    == [n : Nat, what : EventKinds \cup {"delta", "log", "cost"}, agent : BOOLEAN]

StreamTypes ==
  /\ published \in Nat /\ published <= MaxBusEvents
  /\ subagent \in {"idle", "running"} /\ missed \in BOOLEAN
  /\ busChannel \in Seq(BusEvents)
  /\ progress \in {"idle", "taken", "observed", "totals"}
  /\ job \in IF progress = "idle" THEN {NoEvent} ELSE BusEvents
  /\ label \in BOOLEAN
  /\ follows \in [Followers -> {"events", "debug"}]
  /\ buffer \in [Followers -> Seq(Frames)] /\ newest \in [Followers -> Nat]
  /\ \A c \in Followers : Len(buffer[c]) <= ClientBuffer /\ (c \notin open => buffer[c] = <<>>)

(* The events of the channel are in their order, after the one at hand.    *)
BusInv ==
  /\ Len(busChannel) <= ServerBuffer
  /\ \A i \in DOMAIN busChannel :
       /\ busChannel[i].n <= published
       /\ \A j \in DOMAIN busChannel : i < j => busChannel[i].n < busChannel[j].n
  /\ progress # "idle" => /\ job.n <= published
                          /\ \A i \in DOMAIN busChannel : job.n < busChannel[i].n

(* The number of what was sent is behind what is still to be sent.         *)
Behind(n) ==
  /\ n <= published
  /\ \A i \in DOMAIN busChannel : n < busChannel[i].n
  /\ progress \in {"taken", "observed"} => n < job.n
  /\ progress = "totals" => n <= job.n

SentIsBehind ==
  \A c \in Viewers : Behind(newest[c]) /\ \A i \in DOMAIN buffer[c] : Behind(buffer[c][i].n)

AddedInv ==
  /\ added \subseteq 1 .. MaxBusEvents
  /\ progress \in {"observed", "totals"} /\ job.kind = "approval" => job.n \in added
  /\ SeenIsAnswerable

(* While no start was dropped, the label is on whenever a tool call of the *)
(* subagent comes up: it was set before, and no stop is in between.        *)
LabelAfterJob ==
  IF progress = "taken" THEN job.kind = "started" \/ (job.kind # "stopped" /\ label) ELSE label

LabelledAt(i) ==
  \/ LabelAfterJob /\ \A k \in 1 .. i - 1 : busChannel[k].kind # "stopped"
  \/ \E k \in 1 .. i - 1 : /\ busChannel[k].kind = "started"
                           /\ \A l \in k + 1 .. i - 1 : busChannel[l].kind # "stopped"

LabelInv ==
  /\ ~missed =>
       /\ \A i \in DOMAIN busChannel : busChannel[i].kind = "tool" => LabelledAt(i)
       /\ subagent = "running" => LabelledAt(Len(busChannel) + 1)
       /\ progress \in {"taken", "observed"} /\ job.kind = "tool" => LabelAfterJob
  /\ CallsAreLabelled

StreamInv == StreamTypes /\ BusInv /\ SentIsBehind /\ FramesInOrder /\ AddedInv /\ LabelInv
-----------------------------------------------------------------------------
(* What the invariant says of the streams.                                 *)
LEMMA StreamInvIsTrue == StreamInv => StreamsAreTrue
<1> SUFFICES ASSUME StreamInv PROVE StreamsAreTrue
  OBVIOUS
<1>1. progress = "idle" <=> job = NoEvent
  <2>1. NoEvent \notin BusEvents
    BY DEF NoEvent, BusEvents
  <2>2. QED
    BY <2>1 DEF StreamInv, StreamTypes
<1>2. QED
  BY <1>1 DEF StreamInv, StreamTypes, BusInv, AddedInv, LabelInv, StreamsAreTrue, StreamsTypeOK

(* No client, no event and no job at the start.                            *)
LEMMA StreamBegins == StreamInit => StreamInv
<1> SUFFICES ASSUME StreamInit PROVE StreamInv
  OBVIOUS
<1> USE StreamAssumption DEF StreamInit
<1>1. StreamTypes
  <2>1. /\ job \in IF progress = "idle" THEN {NoEvent} ELSE BusEvents
        /\ busChannel \in Seq(BusEvents) /\ published \in Nat /\ published <= MaxBusEvents
    OBVIOUS
  <2>2. /\ buffer \in [Followers -> Seq(Frames)] /\ newest \in [Followers -> Nat]
        /\ \A c \in Followers : Len(buffer[c]) <= ClientBuffer /\ buffer[c] = <<>>
    OBVIOUS
  <2>3. QED
    BY <2>1, <2>2 DEF StreamTypes
<1>2. BusInv
  BY DEF BusInv
<1>3. SentIsBehind
  BY DEF SentIsBehind, Behind, Viewers
<1>4. FramesInOrder
  BY DEF FramesInOrder, Viewers
<1>5. AddedInv
  BY DEF AddedInv, SeenIsAnswerable, Viewers
<1>6. LabelInv
  BY DEF LabelInv, CallsAreLabelled, Viewers
<1>7. QED
  BY <1>1, <1>2, <1>3, <1>4, <1>5, <1>6 DEF StreamInv

(* What a publish does to the buffer of one client.                        *)
LEMMA Sent ==
  ASSUME StreamTypes, NEW clients, NEW frame \in Frames, To(clients, frame), UNCHANGED open
  PROVE  /\ buffer' \in [Followers -> Seq(Frames)]
         /\ \A c \in Followers : Len(buffer'[c]) <= ClientBuffer /\ (c \notin open => buffer'[c] = <<>>)
         /\ \A c \in Followers :
              \/ buffer'[c] = buffer[c]
              \/ /\ c \in clients
                 /\ Len(buffer[c]) \in Nat /\ DOMAIN buffer[c] = 1 .. Len(buffer[c])
                 /\ DOMAIN buffer'[c] = 1 .. Len(buffer[c]) + 1
                 /\ \A i \in 1 .. Len(buffer[c]) : buffer'[c][i] = buffer[c][i]
                 /\ buffer'[c][Len(buffer[c]) + 1] = frame
<1>1. ASSUME NEW c \in Followers
      PROVE  /\ buffer'[c] = IF c \in clients \cap open /\ Len(buffer[c]) < ClientBuffer
                             THEN Append(buffer[c], frame) ELSE buffer[c]
             /\ buffer[c] \in Seq(Frames) /\ Len(buffer[c]) <= ClientBuffer
             /\ c \notin open => buffer[c] = <<>>
  BY DEF To, StreamTypes
<1>2. ASSUME NEW c \in Followers, buffer'[c] # buffer[c]
      PROVE  /\ c \in clients \cap open /\ Len(buffer[c]) < ClientBuffer
             /\ buffer'[c] = Append(buffer[c], frame)
             /\ Len(buffer[c]) \in Nat /\ DOMAIN buffer[c] = 1 .. Len(buffer[c])
             /\ buffer'[c] \in Seq(Frames) /\ Len(buffer'[c]) = Len(buffer[c]) + 1
             /\ DOMAIN buffer'[c] = 1 .. Len(buffer[c]) + 1
             /\ \A i \in 1 .. Len(buffer[c]) : buffer'[c][i] = buffer[c][i]
             /\ buffer'[c][Len(buffer[c]) + 1] = frame
  <2>1. c \in clients \cap open /\ Len(buffer[c]) < ClientBuffer /\ buffer'[c] = Append(buffer[c], frame)
    BY <1>1, <1>2
  <2>2. QED
    BY <2>1, <1>1, AppendFacts
<1>3. buffer' \in [Followers -> Seq(Frames)]
  <2>1. buffer' = [c \in Followers |-> buffer'[c]]
    BY DEF To
  <2>2. \A c \in Followers : buffer'[c] \in Seq(Frames)
    BY <1>1, <1>2
  <2>3. QED
    BY <2>1, <2>2
<1>4. \A c \in Followers : Len(buffer'[c]) <= ClientBuffer /\ (c \notin open => buffer'[c] = <<>>)
  <2> SUFFICES ASSUME NEW c \in Followers
               PROVE  Len(buffer'[c]) <= ClientBuffer /\ (c \notin open => buffer'[c] = <<>>)
    OBVIOUS
  <2>1. CASE buffer'[c] = buffer[c]
    BY <2>1, <1>1
  <2>2. CASE buffer'[c] # buffer[c]
    BY <2>2, <1>2, StreamAssumption
  <2>3. QED
    BY <2>1, <2>2
<1>5. QED
  BY <1>2, <1>3, <1>4

(* The channel, the job and the label are as they were.                    *)
LEMMA LabelsKeep ==
  ASSUME StreamInv, UNCHANGED <<busSide, job, progress, label>>, CallsAreLabelled'
  PROVE  BusInv' /\ LabelInv'
BY DEF StreamInv, BusInv, LabelInv, LabelledAt, LabelAfterJob, busSide

(* What the event under way and the places of the bus channel hold.        *)
LEMMA JobTypes ==
  ASSUME StreamTypes
  PROVE  /\ progress # "idle" => job.n \in Nat \ {0} /\ job.kind \in EventKinds
         /\ \A i \in DOMAIN busChannel : busChannel[i] \in BusEvents /\ busChannel[i].n \in Nat \ {0}
<1>1. progress # "idle" => job \in BusEvents
  BY DEF StreamTypes
<1>2. \A i \in DOMAIN busChannel : busChannel[i] \in BusEvents
  BY DEF StreamTypes
<1>3. QED
  BY <1>1, <1>2 DEF BusEvents

(* The number of a frame that is not of the forwarder is behind every      *)
(* event to come.                                                          *)
LEMMA ZeroIsBehind ==
  ASSUME StreamTypes
  PROVE  Behind(0)
BY JobTypes DEF Behind, StreamTypes

(* A frame of a buffer after a publish is an old one or, in the last       *)
(* place, the new one.                                                     *)
LEMMA OldOrSent ==
  ASSUME StreamTypes, NEW clients, NEW frame \in Frames, To(clients, frame), UNCHANGED open,
         NEW c \in Followers, NEW i \in DOMAIN buffer'[c]
  PROVE  /\ \/ i \in DOMAIN buffer[c] /\ buffer'[c][i] = buffer[c][i]
            \/ buffer'[c][i] = frame
         /\ \A j \in DOMAIN buffer'[c] : i < j =>
              i \in DOMAIN buffer[c] /\ buffer'[c][i] = buffer[c][i]
         /\ buffer'[c][i] \in Frames
<1>1. \/ buffer'[c] = buffer[c]
      \/ /\ Len(buffer[c]) \in Nat /\ DOMAIN buffer[c] = 1 .. Len(buffer[c])
         /\ DOMAIN buffer'[c] = 1 .. Len(buffer[c]) + 1
         /\ \A k \in 1 .. Len(buffer[c]) : buffer'[c][k] = buffer[c][k]
         /\ buffer'[c][Len(buffer[c]) + 1] = frame
  BY Sent
<1>2. buffer[c] \in Seq(Frames) /\ DOMAIN buffer[c] = 1 .. Len(buffer[c]) /\ Len(buffer[c]) \in Nat
  BY DEF StreamTypes
<1>3. CASE buffer'[c] = buffer[c]
  <2>1. i \in DOMAIN buffer[c] /\ buffer'[c][i] = buffer[c][i]
    BY <1>3
  <2>2. buffer[c][i] \in Frames
    BY <2>1, <1>2
  <2>3. QED
    BY <2>1, <2>2
<1>4. CASE buffer'[c] # buffer[c]
  <2>0. /\ DOMAIN buffer'[c] = 1 .. Len(buffer[c]) + 1
        /\ \A k \in 1 .. Len(buffer[c]) : buffer'[c][k] = buffer[c][k]
        /\ buffer'[c][Len(buffer[c]) + 1] = frame
    BY <1>1, <1>4
  <2>1. CASE i = Len(buffer[c]) + 1
    BY <2>0, <2>1, <1>2
  <2>2. CASE i \in 1 .. Len(buffer[c])
    <3>1. i \in DOMAIN buffer[c] /\ buffer'[c][i] = buffer[c][i]
      BY <2>0, <2>2, <1>2
    <3>2. buffer[c][i] \in Frames
      BY <3>1, <1>2
    <3>3. QED
      BY <3>1, <3>2
  <2>3. i \in 1 .. Len(buffer[c]) + 1
    BY <2>0
  <2>4. QED
    BY <2>1, <2>2, <2>3, <1>2
<1>5. QED
  BY <1>3, <1>4

(* What a publish keeps, provided that a frame of the forwarder's is ahead *)
(* of what was sent before it.                                             *)
LEMMA PublishKeeps ==
  ASSUME StreamInv, NEW clients, NEW frame \in Frames, To(clients, frame),
         UNCHANGED <<follows, open, newest, published, missed, added>>,
         FromBus(frame) => \A n \in Nat : Behind(n) => n < frame.n,
         \A n \in Nat : Behind(n) => Behind(n)',
         Behind(frame.n)',
         frame.what = "approval" => frame.n \in added,
         frame.what = "tool" /\ ~missed => frame.agent
  PROVE  /\ buffer' \in [Followers -> Seq(Frames)]
         /\ \A c \in Followers : Len(buffer'[c]) <= ClientBuffer /\ (c \notin open => buffer'[c] = <<>>)
         /\ SentIsBehind' /\ FramesInOrder' /\ SeenIsAnswerable' /\ CallsAreLabelled'
<1>i. StreamTypes /\ SentIsBehind /\ FramesInOrder /\ SeenIsAnswerable /\ CallsAreLabelled
  BY DEF StreamInv, AddedInv, LabelInv
<1>v. Viewers' = Viewers /\ Viewers \subseteq Followers
  BY DEF Viewers
<1>1. ASSUME NEW c \in Viewers, NEW i \in DOMAIN buffer'[c]
      PROVE  /\ \/ i \in DOMAIN buffer[c] /\ buffer'[c][i] = buffer[c][i]
                \/ buffer'[c][i] = frame
             /\ \A j \in DOMAIN buffer'[c] : i < j =>
                  i \in DOMAIN buffer[c] /\ buffer'[c][i] = buffer[c][i]
             /\ buffer'[c][i] \in Frames
  BY <1>i, <1>v, OldOrSent
<1>2. ASSUME NEW c \in Viewers
      PROVE  /\ newest[c] \in Nat /\ Behind(newest[c])
             /\ \A i \in DOMAIN buffer[c] : buffer[c][i].n \in Nat /\ Behind(buffer[c][i].n)
  <2>1. \A i \in DOMAIN buffer[c] : buffer[c][i] \in Frames
    BY <1>i, <1>v DEF StreamTypes
  <2>2. QED
    BY <2>1, <1>i, <1>v DEF SentIsBehind, StreamTypes, Frames
<1>3. SentIsBehind'
  <2> SUFFICES ASSUME NEW c \in Viewers
               PROVE  Behind(newest[c])' /\ \A i \in DOMAIN buffer'[c] : Behind(buffer[c][i].n)'
    BY <1>v DEF SentIsBehind
  <2>1. Behind(newest[c])'
    <3>1. PICK n \in Nat : n = newest[c] /\ Behind(n)
      BY <1>2
    <3>2. newest'[c] = n /\ Behind(n)'
      BY <3>1
    <3>3. QED
      BY <3>2 DEF Behind
  <2>2. ASSUME NEW i \in DOMAIN buffer'[c] PROVE Behind(buffer[c][i].n)'
    <3>1. PICK n \in Nat : n = buffer'[c][i].n /\ Behind(n)'
      <4>1. CASE i \in DOMAIN buffer[c] /\ buffer'[c][i] = buffer[c][i]
        BY <4>1, <1>2
      <4>2. CASE buffer'[c][i] = frame
        BY <4>2 DEF Frames
      <4>3. QED
        BY <4>1, <4>2, <1>1
    <3>2. QED
      BY <3>1 DEF Behind
  <2>3. QED
    BY <2>1, <2>2
<1>4. FramesInOrder'
  <2> SUFFICES ASSUME NEW c \in Viewers, NEW j \in DOMAIN buffer'[c], FromBus(buffer'[c][j])
               PROVE  /\ newest[c] < buffer'[c][j].n
                      /\ \A i \in DOMAIN buffer'[c] : i < j => buffer'[c][i].n < buffer'[c][j].n
    BY <1>v DEF FramesInOrder, FromBus
  <2>1. CASE j \in DOMAIN buffer[c] /\ buffer'[c][j] = buffer[c][j]
    BY <2>1, <1>1, <1>i DEF FramesInOrder
  <2>2. CASE buffer'[c][j] = frame
    <3>1. \A n \in Nat : Behind(n) => n < frame.n
      BY <2>2
    <3>2. QED
      BY <2>2, <3>1, <1>1, <1>2
  <2>3. QED
    BY <2>1, <2>2, <1>1
<1>5. SeenIsAnswerable'
  BY <1>i, <1>v, <1>1 DEF SeenIsAnswerable
<1>6. CallsAreLabelled'
  BY <1>i, <1>v, <1>1 DEF CallsAreLabelled
<1>7. QED
  BY <1>i, <1>3, <1>4, <1>5, <1>6, Sent

(* Frames that are not of the forwarder are numbered 0.                    *)
LEMMA RawStep ==
  ASSUME StreamInv, PublishRaw \/ WriteLog
  PROVE  StreamInv'
<1> USE DEF busSide, serverSide, costSide
<1>i. StreamTypes /\ BusInv /\ SentIsBehind /\ FramesInOrder /\ AddedInv /\ LabelInv
  BY DEF StreamInv
<1>u. UNCHANGED <<published, subagent, busChannel, missed, job, progress, label, added, follows,
                  open, newest>>
  BY DEF PublishRaw, WriteLog
<1>1. PICK clients \in {Viewers, LogViewers}, frame \in Frames :
        To(clients, frame) /\ frame.n = 0 /\ frame.what \in {"delta", "log"}
  <2>1. Frame(0, "delta", FALSE) \in Frames /\ Frame(0, "log", FALSE) \in Frames
    BY DEF Frame, Frames
  <2>2. QED
    BY <2>1 DEF PublishRaw, WriteLog, Publish, Frame
<1>2. \A n \in Nat : Behind(n) => Behind(n)'
  BY <1>u DEF Behind
<1>3. Behind(frame.n)'
  <2>1. Behind(0)
    BY <1>i, ZeroIsBehind
  <2>2. QED
    BY <2>1, <1>1, <1>u DEF Behind
<1>4. ~FromBus(frame) /\ frame.what # "approval" /\ frame.what # "tool"
  BY <1>1 DEF FromBus
<1>5. /\ buffer' \in [Followers -> Seq(Frames)]
      /\ \A c \in Followers : Len(buffer'[c]) <= ClientBuffer /\ (c \notin open => buffer'[c] = <<>>)
      /\ SentIsBehind' /\ FramesInOrder' /\ SeenIsAnswerable' /\ CallsAreLabelled'
  BY <1>u, <1>1, <1>2, <1>3, <1>4, PublishKeeps
<1>6. StreamTypes'
  BY <1>i, <1>u, <1>5 DEF StreamTypes
<1>7. AddedInv'
  BY <1>i, <1>u, <1>5 DEF AddedInv
<1>8. QED
  BY <1>u, <1>5, <1>6, <1>7, LabelsKeep DEF StreamInv

(* What was sent stays behind what stays behind.                           *)
LEMMA SentKeeps ==
  ASSUME StreamTypes, SentIsBehind, UNCHANGED <<follows, buffer, newest>>,
         \A n \in Nat : Behind(n) => Behind(n)'
  PROVE  SentIsBehind'
<1>v. Viewers' = Viewers /\ Viewers \subseteq Followers
  BY DEF Viewers
<1>1. \A c \in Viewers : newest[c] \in Nat /\ \A i \in DOMAIN buffer[c] : buffer[c][i].n \in Nat
  <2>1. \A c \in Viewers : \A i \in DOMAIN buffer[c] : buffer[c][i] \in Frames
    BY <1>v DEF StreamTypes
  <2>2. QED
    BY <2>1, <1>v DEF StreamTypes, Frames
<1>2. ASSUME NEW c \in Viewers PROVE Behind(newest[c])'
  <2>1. PICK n \in Nat : n = newest[c] /\ Behind(n)
    BY <1>1 DEF SentIsBehind
  <2>2. Behind(n)' /\ n = newest'[c]
    BY <2>1
  <2>3. QED
    BY <2>2 DEF Behind
<1>3. ASSUME NEW c \in Viewers, NEW i \in DOMAIN buffer[c] PROVE Behind(buffer[c][i].n)'
  <2>1. PICK n \in Nat : n = buffer[c][i].n /\ Behind(n)
    BY <1>1 DEF SentIsBehind
  <2>2. Behind(n)' /\ n = buffer'[c][i].n
    BY <2>1
  <2>3. QED
    BY <2>2 DEF Behind
<1>4. QED
  BY <1>2, <1>3, <1>v DEF SentIsBehind

(* The emitter knows more events than the channel, the job and the frames. *)
LEMMA BusStep ==
  ASSUME StreamInv, NEW sort \in EventKinds, BusEmit(sort)
  PROVE  StreamInv'
<1> USE DEF serverSide, clientSide, costSide
<1>i. StreamTypes /\ BusInv /\ SentIsBehind /\ FramesInOrder /\ AddedInv /\ LabelInv
  BY DEF StreamInv
<1>u. UNCHANGED <<job, progress, label, added, follows, open, buffer, newest>>
  BY DEF BusEmit
<1>v. Viewers' = Viewers /\ Viewers \subseteq Followers
  BY <1>u DEF Viewers
<1> DEFINE event == BusEvent(published + 1, sort)
<1>p. /\ published \in Nat /\ published' = published + 1 /\ published' \in Nat /\ published' <= MaxBusEvents
      /\ event \in BusEvents /\ event.n = published + 1 /\ event.kind = sort
  BY <1>i, StreamAssumption DEF BusEmit, StreamTypes, BusEvent, BusEvents
<1>q. /\ busChannel \in Seq(BusEvents) /\ Len(busChannel) \in Nat
      /\ DOMAIN busChannel = 1 .. Len(busChannel)
  BY <1>i DEF StreamTypes
<1>s. /\ subagent' \in {"idle", "running"}
      /\ sort = "started" => subagent' = "running"
      /\ sort = "stopped" => subagent' = "idle"
      /\ sort = "tool" => subagent = "running"
      /\ sort # "started" /\ subagent' = "running" => subagent = "running"
  BY <1>i DEF BusEmit, StreamTypes, EventKinds
<1> HIDE DEF event
<1>1. CASE Len(busChannel) < ServerBuffer
  <2>1. /\ busChannel' = Append(busChannel, event) /\ missed' = missed
    BY <1>1, <1>i DEF BusEmit, StreamTypes, event
  <2>2. /\ busChannel' \in Seq(BusEvents) /\ Len(busChannel') = Len(busChannel) + 1
        /\ DOMAIN busChannel' = 1 .. Len(busChannel) + 1
        /\ \A i \in 1 .. Len(busChannel) : busChannel'[i] = busChannel[i]
        /\ busChannel'[Len(busChannel) + 1] = event
    BY <2>1, <1>p, <1>q, AppendFacts
  <2>3. StreamTypes'
    BY <1>i, <1>u, <1>p, <1>s, <2>1, <2>2 DEF StreamTypes
  <2>4. \A i \in DOMAIN busChannel : busChannel[i].n \in Nat
    BY <1>i, JobTypes
  <2>5. BusInv'
    <3>1. Len(busChannel') <= ServerBuffer
      BY <1>1, <2>2, <1>q, StreamAssumption
    <3>2. \A i \in DOMAIN busChannel' :
            /\ busChannel'[i].n <= published'
            /\ \A j \in DOMAIN busChannel' : i < j => busChannel'[i].n < busChannel'[j].n
      BY <1>i, <1>p, <1>q, <2>2, <2>4 DEF BusInv
    <3>3. progress # "idle" => job.n \in Nat
      BY <1>i, JobTypes
    <3>u. progress' = progress /\ job' = job
      BY <1>u
    <3>4. ASSUME progress # "idle"
          PROVE  /\ job.n <= published'
                 /\ \A i \in DOMAIN busChannel' : job.n < busChannel'[i].n
      <4>1. /\ job.n \in Nat /\ job.n <= published
            /\ \A i \in 1 .. Len(busChannel) : job.n < busChannel[i].n
        BY <3>3, <3>4, <1>i, <1>q DEF BusInv
      <4>2. job.n <= published' /\ job.n < event.n
        BY <4>1, <1>p
      <4>3. QED
        BY <4>1, <4>2, <1>q, <2>2
    <3>5. QED
      BY <3>1, <3>2, <3>u, <3>4 DEF BusInv
  <2>6. \A n \in Nat : Behind(n) => Behind(n)'
    BY <1>u, <1>p, <1>q, <2>2 DEF Behind
  <2>7. SentIsBehind'
    BY <1>i, <1>u, <2>6, SentKeeps
  <2>8. FramesInOrder' /\ AddedInv'
    BY <1>i, <1>u, <1>v DEF FramesInOrder, AddedInv, SeenIsAnswerable
  <2>9. LabelInv'
    <3>m. PICK m \in Nat : m = Len(busChannel) + 1
      BY <1>q
    <3>1. \A i \in 1 .. m : LabelledAt(i) => LabelledAt(i)'
      BY <1>u, <1>q, <2>2, <3>m DEF LabelledAt, LabelAfterJob
    <3>n. subagent = "running" /\ ~missed => LabelledAt(m)
      BY <3>m, <1>i DEF LabelInv
    <3>2. ASSUME ~missed, subagent' = "running"
          PROVE  LabelledAt(m + 1)'
      <4>1. CASE sort = "started"
        <5>1. busChannel'[m].kind = "started"
          BY <4>1, <2>2, <1>p, <3>m
        <5>3. m \in 1 .. (m + 1) - 1 /\ m + 1 .. (m + 1) - 1 = {}
          BY <3>m, <1>q
        <5>4. QED
          BY <5>1, <5>3 DEF LabelledAt
      <4>2. CASE sort # "started"
        <5>1. LabelledAt(m)'
          BY <4>2, <3>2, <1>s, <3>n, <3>1, <3>m, <1>q
        <5>2. busChannel'[m].kind # "stopped"
          BY <3>2, <1>s, <2>2, <1>p, <3>m
        <5>3. /\ 1 .. (m + 1) - 1 = (1 .. m - 1) \cup {m}
              /\ \A k \in 1 .. m - 1 : k + 1 .. (m + 1) - 1 = (k + 1 .. m - 1) \cup {m}
          BY <3>m, <1>q
        <5>4. QED
          BY <5>1, <5>2, <5>3 DEF LabelledAt
      <4>3. QED
        BY <4>1, <4>2
    <3>3. ASSUME ~missed, NEW i \in DOMAIN busChannel', busChannel'[i].kind = "tool"
          PROVE  LabelledAt(i)'
      <4>1. CASE i \in DOMAIN busChannel
        BY <4>1, <3>1, <3>3, <3>m, <1>i, <1>q, <2>2 DEF LabelInv
      <4>2. CASE i = Len(busChannel) + 1
        <5>1. sort = "tool" /\ subagent = "running"
          BY <4>2, <3>3, <2>2, <1>p, <1>s
        <5>2. LabelledAt(m)'
          BY <5>1, <3>3, <3>n, <3>1, <3>m, <1>q
        <5>3. QED
          BY <5>2, <4>2, <3>m
      <4>3. QED
        BY <4>1, <4>2, <2>2, <1>q
    <3>4. CallsAreLabelled'
      BY <1>i, <1>u, <1>v, <2>1 DEF LabelInv, CallsAreLabelled
    <3>5. ~missed' => (progress' \in {"taken", "observed"} /\ job'.kind = "tool" => LabelAfterJob')
      BY <1>i, <1>u, <2>1 DEF LabelInv, LabelAfterJob
    <3>6. ~missed' /\ subagent' = "running" => LabelledAt(m + 1)'
      BY <3>2, <2>1
    <3>7. m + 1 = Len(busChannel') + 1
      BY <2>2, <3>m, <1>q
    <3>8. QED
      BY <3>3, <3>4, <3>5, <3>6, <3>7, <2>1 DEF LabelInv
  <2>10. QED
    BY <2>3, <2>5, <2>7, <2>8, <2>9 DEF StreamInv
<1>2. CASE ~(Len(busChannel) < ServerBuffer)
  <2>1. busChannel' = busChannel
    BY <1>2 DEF BusEmit
  <2>2. missed' \in BOOLEAN /\ (~missed' => ~missed /\ sort # "started")
    BY <1>2, <1>i DEF BusEmit, StreamTypes
  <2>3. StreamTypes'
    BY <1>i, <1>u, <1>p, <1>s, <2>1, <2>2 DEF StreamTypes
  <2>4. BusInv' /\ SentIsBehind'
    <3>1. \A i \in DOMAIN busChannel : busChannel[i].n \in Nat
      BY <1>i, JobTypes
    <3>2. progress # "idle" => job.n \in Nat
      BY <1>i, JobTypes
    <3>3. BusInv'
      BY <1>i, <1>u, <1>p, <2>1, <3>1, <3>2 DEF BusInv
    <3>4. \A n \in Nat : Behind(n) => Behind(n)'
      BY <1>u, <1>p, <2>1 DEF Behind
    <3>5. SentIsBehind'
      BY <1>i, <1>u, <3>4, SentKeeps
    <3>6. QED
      BY <3>3, <3>5
  <2>5. FramesInOrder' /\ AddedInv'
    BY <1>i, <1>u, <1>v DEF FramesInOrder, AddedInv, SeenIsAnswerable
  <2>6. LabelInv'
    <3>1. CallsAreLabelled'
      BY <1>i, <1>u, <1>v, <2>2 DEF LabelInv, CallsAreLabelled
    <3>2. QED
      BY <1>i, <1>u, <1>s, <2>1, <2>2, <3>1 DEF LabelInv, LabelledAt, LabelAfterJob
  <2>7. QED
    BY <2>3, <2>4, <2>5, <2>6 DEF StreamInv
<1>3. QED
  BY <1>1, <1>2

(* The next event is ahead of what was sent; a label set by an event that  *)
(* still waited is set by the one at hand or still waits.                  *)
LEMMA TakeStep ==
  ASSUME StreamInv, Take
  PROVE  StreamInv'
<1> USE DEF costSide, clientSide
<1>i. StreamTypes /\ BusInv /\ SentIsBehind /\ FramesInOrder /\ AddedInv /\ LabelInv
  BY DEF StreamInv
<1>u. /\ UNCHANGED <<published, subagent, missed, label, added, follows, open, buffer, newest>>
      /\ progress = "idle" /\ progress' = "taken" /\ job' = Head(busChannel)
      /\ busChannel' = Tail(busChannel)
  BY DEF Take
<1>v. Viewers' = Viewers /\ Viewers \subseteq Followers
  BY <1>u DEF Viewers
<1>q. /\ Len(busChannel) \in Nat \ {0} /\ DOMAIN busChannel = 1 .. Len(busChannel)
      /\ job' = busChannel[1] /\ busChannel[1] \in BusEvents
      /\ busChannel' \in Seq(BusEvents) /\ Len(busChannel') = Len(busChannel) - 1
      /\ DOMAIN busChannel' = 1 .. Len(busChannel) - 1
      /\ \A i \in 1 .. Len(busChannel) - 1 : busChannel'[i] = busChannel[i + 1]
  BY <1>i, QueueFacts DEF Take, StreamTypes
<1>n. \A i \in DOMAIN busChannel : busChannel[i].n \in Nat
  BY <1>i, JobTypes
<1>1. StreamTypes'
  BY <1>i, <1>u, <1>q DEF StreamTypes
<1>2. BusInv'
  <2>1. Len(busChannel') <= ServerBuffer
    BY <1>i, <1>q, StreamAssumption DEF BusInv
  <2>2. \A i \in DOMAIN busChannel' :
          /\ busChannel'[i].n <= published'
          /\ \A j \in DOMAIN busChannel' : i < j => busChannel'[i].n < busChannel'[j].n
    BY <1>i, <1>u, <1>q, <1>n DEF BusInv
  <2>3. job'.n <= published' /\ \A i \in DOMAIN busChannel' : job'.n < busChannel'[i].n
    BY <1>i, <1>u, <1>q, <1>n DEF BusInv
  <2>4. QED
    BY <2>1, <2>2, <2>3 DEF BusInv
<1>3. SentIsBehind'
  <2>1. \A n \in Nat : Behind(n) => Behind(n)'
    BY <1>u, <1>q DEF Behind
  <2>2. QED
    BY <2>1, <1>i, <1>u, SentKeeps
<1>4. FramesInOrder' /\ AddedInv'
  BY <1>i, <1>u, <1>v DEF FramesInOrder, AddedInv, SeenIsAnswerable
<1>5. ASSUME NEW i \in 1 .. Len(busChannel), LabelledAt(i + 1)
      PROVE  LabelledAt(i)'
  <2>0. LabelAfterJob' = (job'.kind = "started" \/ (job'.kind # "stopped" /\ label))
    BY <1>u DEF LabelAfterJob
  <2>1. CASE LabelAfterJob /\ \A k \in 1 .. (i + 1) - 1 : busChannel[k].kind # "stopped"
    <3>1. label /\ job'.kind # "stopped"
      BY <2>1, <1>u, <1>q DEF LabelAfterJob
    <3>2. \A k \in 1 .. i - 1 : busChannel'[k].kind # "stopped"
      BY <2>1, <1>q
    <3>3. QED
      BY <3>1, <3>2, <2>0 DEF LabelledAt
  <2>2. CASE \E k \in 1 .. (i + 1) - 1 : /\ busChannel[k].kind = "started"
                                         /\ \A l \in k + 1 .. (i + 1) - 1 : busChannel[l].kind # "stopped"
    <3>1. PICK k \in 1 .. i : /\ busChannel[k].kind = "started"
                              /\ \A l \in k + 1 .. i : busChannel[l].kind # "stopped"
      BY <2>2, <1>q
    <3>2. CASE k = 1
      <4>1. job'.kind = "started"
        BY <3>1, <3>2, <1>q
      <4>2. \A l \in 1 .. i - 1 : busChannel'[l].kind # "stopped"
        BY <3>1, <3>2, <1>q
      <4>3. QED
        BY <4>1, <4>2, <2>0 DEF LabelledAt
    <3>3. CASE k # 1
      <4>1. PICK m \in 1 .. i - 1 : k = m + 1
        BY <3>3, <3>1, <1>q
      <4>2. busChannel'[m].kind = "started" /\ \A l \in m + 1 .. i - 1 : busChannel'[l].kind # "stopped"
        BY <4>1, <3>1, <1>q
      <4>3. QED
        BY <4>1, <4>2 DEF LabelledAt
    <3>4. QED
      BY <3>2, <3>3
  <2>3. QED
    BY <1>5, <2>1, <2>2 DEF LabelledAt
<1>6. LabelInv'
  <2>1. CallsAreLabelled'
    BY <1>i, <1>u, <1>v DEF LabelInv, CallsAreLabelled
  <2>2. ASSUME ~missed, NEW i \in DOMAIN busChannel', busChannel'[i].kind = "tool"
        PROVE  LabelledAt(i)'
    <3>1. i + 1 \in DOMAIN busChannel /\ busChannel[i + 1].kind = "tool" /\ i \in 1 .. Len(busChannel)
      BY <2>2, <1>q
    <3>2. LabelledAt(i + 1)
      BY <3>1, <2>2, <1>i DEF LabelInv
    <3>3. QED
      BY <3>1, <3>2, <1>5
  <2>3. PICK m \in 1 .. Len(busChannel) : m = Len(busChannel) /\ m = Len(busChannel') + 1
    <3>1. Len(busChannel) \in 1 .. Len(busChannel) /\ Len(busChannel) = (Len(busChannel) - 1) + 1
      BY <1>q
    <3>2. QED
      BY <3>1, <1>q
  <2>6. ASSUME ~missed, subagent = "running"
        PROVE  LabelledAt(m)'
    <3>1. LabelledAt(m + 1)
      BY <2>3, <2>6, <1>i DEF LabelInv
    <3>2. QED
      BY <3>1, <1>5
  <2>4. ASSUME ~missed, job'.kind = "tool"
        PROVE  LabelAfterJob'
    <3>1. LabelledAt(1)
      BY <2>4, <1>i, <1>q DEF LabelInv
    <3>2. label
      BY <3>1, <1>u DEF LabelledAt, LabelAfterJob
    <3>3. QED
      BY <3>2, <2>4, <1>u DEF LabelAfterJob
  <2>5. QED
    BY <2>1, <2>2, <2>3, <2>4, <2>6, <1>u DEF LabelInv
<1>7. QED
  BY <1>1, <1>2, <1>3, <1>4, <1>6 DEF StreamInv

(* What the event does to the server's books.                              *)
LEMMA ObserveStep ==
  ASSUME StreamInv, ObserveJob
  PROVE  StreamInv'
<1> USE DEF busSide, costSide, clientSide
<1>i. StreamTypes /\ BusInv /\ SentIsBehind /\ FramesInOrder /\ AddedInv /\ LabelInv
  BY DEF StreamInv
<1>u. /\ UNCHANGED <<published, subagent, busChannel, missed, job, follows, open, buffer, newest>>
      /\ progress = "taken" /\ progress' = "observed"
      /\ label' = CASE job.kind = "started" -> TRUE [] job.kind = "stopped" -> FALSE [] OTHER -> label
      /\ added' = IF job.kind = "approval" THEN added \cup {job.n} ELSE added
  BY DEF ObserveJob, Observed
<1>v. Viewers' = Viewers /\ Viewers \subseteq Followers
  BY <1>u DEF Viewers
<1>j. job \in BusEvents /\ job.n \in Nat \ {0} /\ job.n <= published /\ published <= MaxBusEvents
  BY <1>i, <1>u, JobTypes DEF StreamTypes, BusInv
<1>l. /\ job.kind = "started" => label' = TRUE
      /\ job.kind = "stopped" => label' = FALSE
      /\ job.kind \notin {"started", "stopped"} => label' = label
  BY <1>u
<1>1. StreamTypes'
  BY <1>i, <1>u, <1>j, <1>l DEF StreamTypes
<1>2. BusInv'
  BY <1>i, <1>u DEF BusInv
<1>3. SentIsBehind'
  <2>1. \A n \in Nat : Behind(n) => Behind(n)'
    BY <1>u DEF Behind
  <2>2. QED
    BY <2>1, <1>i, <1>u, SentKeeps
<1>4. FramesInOrder'
  BY <1>i, <1>u, <1>v DEF FramesInOrder
<1>5. AddedInv'
  <2>1. added' \subseteq 1 .. MaxBusEvents
    BY <1>i, <1>u, <1>j, StreamAssumption DEF AddedInv, StreamTypes
  <2>2. QED
    BY <2>1, <1>i, <1>u, <1>v DEF AddedInv, SeenIsAnswerable
<1>6. LabelInv'
  <2>1. LabelAfterJob' <=> LabelAfterJob
    BY <1>i, <1>u, <1>l DEF LabelAfterJob, StreamTypes
  <2>2. \A i \in Nat : LabelledAt(i)' <=> LabelledAt(i)
    BY <2>1, <1>u DEF LabelledAt
  <2>3. CallsAreLabelled'
    BY <1>i, <1>u, <1>v DEF LabelInv, CallsAreLabelled
  <2>4. PICK m \in Nat : m = Len(busChannel) + 1 /\ DOMAIN busChannel = 1 .. m - 1
    BY <1>i DEF StreamTypes
  <2>5. ~missed' /\ subagent' = "running" => LabelledAt(Len(busChannel) + 1)'
    <3>1. ~missed /\ subagent = "running" => LabelledAt(m)'
      BY <2>2, <2>4, <1>i DEF LabelInv
    <3>2. QED
      BY <3>1, <2>4, <1>u DEF LabelledAt
  <2>6. ~missed' => \A i \in DOMAIN busChannel' : busChannel'[i].kind = "tool" => LabelledAt(i)'
    BY <2>2, <2>4, <1>i, <1>u DEF LabelInv
  <2>7. QED
    BY <2>1, <2>3, <2>5, <2>6, <1>i, <1>u DEF LabelInv
<1>7. QED
  BY <1>1, <1>2, <1>3, <1>4, <1>5, <1>6 DEF StreamInv

(* The frame of the event at hand is ahead of all that was sent, and what  *)
(* is still to be sent is ahead of it.                                     *)
LEMMA ForwardStep ==
  ASSUME StreamInv, ForwardJob
  PROVE  StreamInv'
<1> USE DEF busSide, costSide
<1>i. StreamTypes /\ BusInv /\ SentIsBehind /\ FramesInOrder /\ AddedInv /\ LabelInv
  BY DEF StreamInv
<1>u. /\ UNCHANGED <<published, subagent, busChannel, missed, label, added, follows, open,
                     newest>>
      /\ progress = "observed"
      /\ \/ job.kind = "response" /\ progress' = "totals" /\ job' = job
         \/ job.kind # "response" /\ progress' = "idle" /\ job' = NoEvent
  BY DEF ForwardJob, Forgets
<1>j. job \in BusEvents /\ job.n \in Nat \ {0} /\ job.n <= published /\ job.kind \in EventKinds
  BY <1>i, <1>u, JobTypes DEF StreamTypes, BusInv
<1>b. \A n \in Nat : Behind(n) => n < job.n /\ Behind(n)'
  BY <1>i, <1>u, <1>j, JobTypes DEF Behind
<1>1. /\ buffer' \in [Followers -> Seq(Frames)]
      /\ \A c \in Followers : Len(buffer'[c]) <= ClientBuffer /\ (c \notin open => buffer'[c] = <<>>)
      /\ SentIsBehind' /\ FramesInOrder' /\ SeenIsAnswerable' /\ CallsAreLabelled'
  <2>1. CASE job.kind \notin Forwarded
    <3>1. buffer' = buffer
      BY <2>1 DEF ForwardJob
    <3>2. Viewers' = Viewers
      BY <1>u DEF Viewers
    <3>3. SentIsBehind'
      BY <3>1, <1>b, <1>i, <1>u, SentKeeps
    <3>4. FramesInOrder' /\ SeenIsAnswerable' /\ CallsAreLabelled'
      BY <3>1, <3>2, <1>i, <1>u
      DEF FramesInOrder, AddedInv, SeenIsAnswerable, LabelInv, CallsAreLabelled
    <3>5. QED
      BY <3>1, <3>3, <3>4, <1>i DEF StreamTypes
  <2>2. CASE job.kind \in Forwarded
    <3>1. PICK frame \in Frames : /\ To(Viewers, frame) /\ frame.n = job.n /\ frame.what = job.kind
                                  /\ job.kind = "tool" /\ label => frame.agent
      <4>1. Frame(job.n, job.kind, Labelled) = [n |-> job.n, what |-> job.kind, agent |-> Labelled]
        BY DEF Frame
      <4>2. Labelled \in BOOLEAN /\ (job.kind = "tool" /\ label => Labelled)
        BY DEF Labelled
      <4>3. Frame(job.n, job.kind, Labelled) \in Frames
        BY <4>1, <4>2, <1>j DEF Frames
      <4>4. /\ Frame(job.n, job.kind, Labelled).n = job.n
            /\ Frame(job.n, job.kind, Labelled).what = job.kind
            /\ job.kind = "tool" /\ label => Frame(job.n, job.kind, Labelled).agent
        BY <4>1, <4>2
      <4>5. To(Viewers, Frame(job.n, job.kind, Labelled))
        BY <2>2 DEF ForwardJob, Publish
      <4>6. QED
        BY <4>3, <4>4, <4>5
    <3>2. FromBus(frame) => \A n \in Nat : Behind(n) => n < frame.n
      BY <3>1, <1>b
    <3>3. Behind(frame.n)'
      <4>1. PICK n \in Nat : n = job.n /\ Behind(n)'
        BY <1>j, <1>i, <1>u DEF Behind, BusInv
      <4>2. QED
        BY <4>1, <3>1 DEF Behind
    <3>4. frame.what = "approval" => frame.n \in added
      BY <3>1, <1>i, <1>u DEF AddedInv
    <3>5. frame.what = "tool" /\ ~missed => frame.agent
      BY <3>1, <1>i, <1>u DEF LabelInv, LabelAfterJob
    <3>6. QED
      BY <3>1, <3>2, <3>3, <3>4, <3>5, <1>b, <1>u, PublishKeeps
  <2>3. QED
    BY <2>1, <2>2
<1>2. StreamTypes'
  BY <1>1, <1>i, <1>u, <1>j DEF StreamTypes
<1>3. BusInv'
  BY <1>i, <1>u DEF BusInv
<1>4. AddedInv'
  BY <1>1, <1>i, <1>u DEF AddedInv
<1>5. LabelInv'
  BY <1>1, <1>i, <1>u DEF LabelInv, LabelledAt, LabelAfterJob
<1>6. QED
  BY <1>1, <1>2, <1>3, <1>4, <1>5 DEF StreamInv

(* The totals have the number of their response, and come after it.        *)
LEMMA TotalsStep ==
  ASSUME StreamInv, Totals
  PROVE  StreamInv'
<1> USE DEF busSide, costSide
<1>i. StreamTypes /\ BusInv /\ SentIsBehind /\ FramesInOrder /\ AddedInv /\ LabelInv
  BY DEF StreamInv
<1>u. /\ UNCHANGED <<published, subagent, busChannel, missed, label, added, follows, open,
                     newest>>
      /\ progress = "totals" /\ progress' = "idle" /\ job' = NoEvent
  BY DEF Totals, Forgets
<1>j. job \in BusEvents /\ job.n \in Nat \ {0} /\ job.n <= published
  BY <1>i, <1>u, JobTypes DEF StreamTypes, BusInv
<1>f. PICK frame \in Frames : To(Viewers, frame) /\ frame.n = job.n /\ frame.what = "cost"
  <2>1. Frame(job.n, "cost", FALSE) \in Frames
    BY <1>j DEF Frame, Frames
  <2>2. QED
    BY <2>1 DEF Totals, Publish, Frame
<1>b. \A n \in Nat : Behind(n) => Behind(n)'
  BY <1>u DEF Behind
<1>c. Behind(frame.n)'
  <2>1. PICK n \in Nat : n = frame.n /\ n = job.n
    BY <1>f, <1>j
  <2>2. QED
    BY <2>1, <1>i, <1>u DEF Behind, BusInv
<1>1. /\ buffer' \in [Followers -> Seq(Frames)]
      /\ \A c \in Followers : Len(buffer'[c]) <= ClientBuffer /\ (c \notin open => buffer'[c] = <<>>)
      /\ SentIsBehind' /\ FramesInOrder' /\ SeenIsAnswerable' /\ CallsAreLabelled'
  <2>1. ~FromBus(frame) /\ frame.what # "approval" /\ frame.what # "tool"
    BY <1>f DEF FromBus
  <2>2. QED
    BY <2>1, <1>f, <1>b, <1>c, <1>u, PublishKeeps
<1>2. StreamTypes'
  BY <1>1, <1>i, <1>u DEF StreamTypes
<1>3. BusInv'
  BY <1>i, <1>u DEF BusInv
<1>4. AddedInv'
  BY <1>1, <1>i, <1>u DEF AddedInv
<1>5. LabelInv'
  BY <1>1, <1>i, <1>u DEF LabelInv, LabelledAt, LabelAfterJob
<1>6. QED
  BY <1>1, <1>2, <1>3, <1>4, <1>5 DEF StreamInv

(* The clients: a frame shown is the new newest one, one that is gone      *)
(* starts afresh.                                                          *)
LEMMA ClientStep ==
  ASSUME StreamInv, NEW c \in Followers, Connect(c) \/ Show(c) \/ Unsubscribed(c)
  PROVE  StreamInv'
<1> USE DEF busSide, serverSide, costSide
<1>i. StreamTypes /\ BusInv /\ SentIsBehind /\ FramesInOrder /\ AddedInv /\ LabelInv
  BY DEF StreamInv
<1>u. UNCHANGED <<published, subagent, busChannel, missed, job, progress, label, added, follows>>
  BY DEF Connect, Show, Unsubscribed
<1>v. Viewers' = Viewers /\ Viewers \subseteq Followers
  BY <1>u DEF Viewers
<1>b. Behind(0) /\ \A n \in Nat : Behind(n)' <=> Behind(n)
  BY <1>i, <1>u, ZeroIsBehind DEF Behind
<1>c. PICK rest \in Seq(Frames), last \in Nat :
        /\ buffer' = [buffer EXCEPT ![c] = rest] /\ newest' = [newest EXCEPT ![c] = last]
        /\ Len(rest) <= ClientBuffer /\ (c \notin open' => rest = <<>>)
        /\ open' \ {c} = open \ {c}
        /\ c \in Viewers => Behind(last)
        /\ \/ rest = <<>>
           \/ /\ Len(rest) \in Nat /\ Len(buffer[c]) = Len(rest) + 1
              /\ DOMAIN rest = 1 .. Len(rest) /\ DOMAIN buffer[c] = 1 .. Len(rest) + 1
              /\ \A i \in DOMAIN rest : rest[i] = buffer[c][i + 1]
              /\ last = newest[c] \/ last = buffer[c][1].n
  <2>t. buffer[c] \in Seq(Frames) /\ newest[c] \in Nat /\ Len(buffer[c]) <= ClientBuffer
    BY <1>i DEF StreamTypes
  <2>1. CASE Connect(c)
    <3>1. buffer[c] = <<>> /\ buffer' = [buffer EXCEPT ![c] = <<>>]
      BY <2>1, <1>i DEF Connect, StreamTypes
    <3>2. newest' = [newest EXCEPT ![c] = 0] /\ open' \ {c} = open \ {c}
      BY <2>1 DEF Connect
    <3>3. <<>> \in Seq(Frames) /\ Len(<<>>) <= ClientBuffer
      BY StreamAssumption
    <3>4. QED
      BY <3>1, <3>2, <3>3, <1>b
  <2>2. CASE Unsubscribed(c)
    <3>1. buffer' = [buffer EXCEPT ![c] = <<>>] /\ newest' = [newest EXCEPT ![c] = 0]
          /\ open' \ {c} = open \ {c}
      BY <2>2 DEF Unsubscribed
    <3>2. <<>> \in Seq(Frames) /\ Len(<<>>) <= ClientBuffer
      BY StreamAssumption
    <3>3. QED
      BY <3>1, <3>2, <1>b
  <2>3. CASE Show(c)
    <3>1. /\ buffer[c] # <<>> /\ buffer' = [buffer EXCEPT ![c] = Tail(buffer[c])]
          /\ newest' = [newest EXCEPT ![c] = IF Head(buffer[c]).n > newest[c]
                                             THEN Head(buffer[c]).n ELSE newest[c]]
          /\ open' = open /\ c \in open
      BY <2>3 DEF Show
    <3>2. /\ Len(buffer[c]) \in Nat \ {0} /\ Head(buffer[c]) = buffer[c][1] /\ buffer[c][1] \in Frames
          /\ Tail(buffer[c]) \in Seq(Frames) /\ Len(Tail(buffer[c])) = Len(buffer[c]) - 1
          /\ DOMAIN Tail(buffer[c]) = 1 .. Len(buffer[c]) - 1 /\ DOMAIN buffer[c] = 1 .. Len(buffer[c])
          /\ \A i \in 1 .. Len(buffer[c]) - 1 : Tail(buffer[c])[i] = buffer[c][i + 1]
      BY <2>t, <3>1, QueueFacts
    <3>3. PICK last \in Nat : /\ newest' = [newest EXCEPT ![c] = last]
                              /\ last = newest[c] \/ last = buffer[c][1].n
      <4>1. buffer[c][1].n \in Nat
        BY <3>2 DEF Frames
      <4>2. QED
        BY <3>1, <3>2, <4>1, <2>t
    <3>4. c \in Viewers => Behind(last)
      BY <3>2, <3>3, <1>i DEF SentIsBehind
    <3>5. PICK rest \in Seq(Frames) : rest = Tail(buffer[c])
      BY <3>2
    <3>6. Len(rest) \in Nat /\ Len(buffer[c]) = Len(rest) + 1 /\ Len(rest) <= ClientBuffer
      BY <3>2, <3>5, <2>t, StreamAssumption
    <3>7. QED
      BY <3>1, <3>2, <3>3, <3>4, <3>5, <3>6
  <2>4. QED
    BY <2>1, <2>2, <2>3
<1>d. /\ buffer' \in [Followers -> Seq(Frames)] /\ newest' \in [Followers -> Nat]
      /\ buffer'[c] = rest /\ newest'[c] = last
      /\ \A d \in Followers \ {c} : buffer'[d] = buffer[d] /\ newest'[d] = newest[d]
  BY <1>c, <1>i DEF StreamTypes
<1>1. StreamTypes'
  <2>1. \A d \in Followers : Len(buffer'[d]) <= ClientBuffer /\ (d \notin open' => buffer'[d] = <<>>)
    BY <1>c, <1>d, <1>i DEF StreamTypes
  <2>2. QED
    BY <2>1, <1>d, <1>i, <1>u DEF StreamTypes
(* A frame that stays was there, a place further on.                       *)
<1>2. ASSUME NEW i \in DOMAIN rest
      PROVE  i \in Nat \ {0} /\ i + 1 \in DOMAIN buffer[c] /\ rest[i] = buffer[c][i + 1]
  BY <1>c
<1>a. ASSUME NEW d \in Viewers, NEW j \in DOMAIN buffer'[d]
      PROVE  \E i \in DOMAIN buffer[d] : buffer'[d][j] = buffer[d][i]
  <2>1. CASE d = c
    BY <2>1, <1>2, <1>d
  <2>2. CASE d # c
    BY <2>2, <1>d, <1>v
  <2>3. QED
    BY <2>1, <2>2
<1>3. SentIsBehind'
  <2> SUFFICES ASSUME NEW d \in Viewers
               PROVE  /\ \E n \in Nat : n = newest'[d] /\ Behind(n)
                      /\ \A i \in DOMAIN buffer'[d] : \E n \in Nat : n = buffer'[d][i].n /\ Behind(n)
    BY <1>b, <1>v DEF SentIsBehind, Behind
  <2>1. \A i \in DOMAIN buffer[d] : buffer[d][i].n \in Nat /\ Behind(buffer[d][i].n)
    <3>1. \A i \in DOMAIN buffer[d] : buffer[d][i] \in Frames
      BY <1>i, <1>v DEF StreamTypes
    <3>2. QED
      BY <3>1, <1>i DEF SentIsBehind, Frames
  <2>2. newest[d] \in Nat /\ Behind(newest[d])
    BY <1>i, <1>v DEF SentIsBehind, StreamTypes
  <2>3. CASE d = c
    BY <2>1, <2>3, <1>2, <1>c, <1>d
  <2>4. CASE d # c
    BY <2>1, <2>2, <2>4, <1>d, <1>v
  <2>5. QED
    BY <2>3, <2>4
<1>4. FramesInOrder'
  <2> SUFFICES ASSUME NEW d \in Viewers, NEW j \in DOMAIN buffer'[d], FromBus(buffer'[d][j])
               PROVE  /\ newest'[d] < buffer'[d][j].n
                      /\ \A i \in DOMAIN buffer'[d] : i < j => buffer'[d][i].n < buffer'[d][j].n
    BY <1>v DEF FramesInOrder, FromBus
  <2>1. CASE d # c
    BY <2>1, <1>d, <1>v, <1>i DEF FramesInOrder
  <2>2. CASE d = c
    <3>1. /\ j \in Nat \ {0} /\ j + 1 \in DOMAIN buffer[c] /\ rest[j] = buffer[c][j + 1]
          /\ rest # <<>>
      BY <2>2, <1>2, <1>d
    <3>2. /\ newest[c] < buffer[c][j + 1].n
          /\ \A i \in DOMAIN buffer[c] : i < j + 1 => buffer[c][i].n < buffer[c][j + 1].n
      BY <2>2, <3>1, <1>i, <1>d DEF FramesInOrder
    <3>3. 1 \in DOMAIN buffer[c] /\ 1 < j + 1
      BY <3>1, <1>c
    <3>4. last < rest[j].n
      BY <3>1, <3>2, <3>3, <1>c
    <3>5. ASSUME NEW i \in DOMAIN rest, i < j
          PROVE  rest[i].n < rest[j].n
      <4>1. i \in Nat \ {0} /\ i + 1 \in DOMAIN buffer[c] /\ rest[i] = buffer[c][i + 1]
        BY <1>2
      <4>2. j \in Nat /\ rest[j] = buffer[c][j + 1]
        BY <3>1
      <4>3. i + 1 < j + 1
        BY <4>1, <4>2, <3>5
      <4>4. QED
        BY <4>1, <4>2, <4>3, <3>2
    <3>6. QED
      BY <2>2, <3>4, <3>5, <1>d
  <2>3. QED
    BY <2>1, <2>2
<1>5. AddedInv'
  <2>1. SeenIsAnswerable'
    BY <1>a, <1>v, <1>u, <1>i DEF AddedInv, SeenIsAnswerable
  <2>2. QED
    BY <2>1, <1>u, <1>i DEF AddedInv
<1>6. CallsAreLabelled'
  BY <1>a, <1>v, <1>u, <1>i DEF LabelInv, CallsAreLabelled
<1>7. QED
  BY <1>1, <1>3, <1>4, <1>5, <1>6, <1>u, LabelsKeep DEF StreamInv

(* Every step of the streams.                                              *)
LEMMA StreamStep == StreamInv /\ [StreamNext]_streamVars => StreamInv'
<1> SUFFICES ASSUME StreamInv, [StreamNext]_streamVars PROVE StreamInv'
  OBVIOUS
<1>i. StreamTypes /\ BusInv /\ SentIsBehind /\ FramesInOrder /\ AddedInv /\ LabelInv
  BY DEF StreamInv
<1>1. ASSUME UNCHANGED <<busSide, job, progress, label, added, follows, open, buffer, newest>>
      PROVE  StreamInv'
  <2>1. UNCHANGED <<published, subagent, busChannel, missed, job, progress, label, added,
                    follows, open, buffer, newest>>
    BY <1>1 DEF busSide
  <2>2. Viewers' = Viewers
    BY <2>1 DEF Viewers
  <2>3. StreamTypes' /\ BusInv'
    BY <1>i, <2>1 DEF StreamTypes, BusInv
  <2>4. SentIsBehind'
    BY <1>i, <2>1, SentKeeps DEF Behind
  <2>5. FramesInOrder' /\ AddedInv' /\ LabelInv'
    BY <1>i, <2>1, <2>2
    DEF FramesInOrder, AddedInv, SeenIsAnswerable, LabelInv, CallsAreLabelled, LabelledAt,
       LabelAfterJob
  <2>6. QED
    BY <2>3, <2>4, <2>5 DEF StreamInv
<1>2. CASE \E k \in EventKinds : BusEmit(k)
  BY <1>2, BusStep
<1>3. CASE PublishRaw \/ WriteLog
  BY <1>3, RawStep
<1>4. CASE Take
  BY <1>4, TakeStep
<1>5. CASE ObserveJob
  BY <1>5, ObserveStep
<1>6. CASE ForwardJob
  BY <1>6, ForwardStep
<1>7. CASE Totals
  BY <1>7, TotalsStep
<1>8. CASE Clear \/ Reset \/ CloseAll
  BY <1>1, <1>8 DEF Clear, Reset, CloseAll, serverSide, clientSide
<1>9. CASE \E c \in Followers : Connect(c) \/ Show(c) \/ Leave(c) \/ EndStream(c)
  BY <1>9, ClientStep DEF Leave, EndStream
<1>9w. CASE \E c \in Followers : Written(c)
  BY <1>1, <1>9w DEF Written, serverSide
<1>10. CASE UNCHANGED streamVars
  BY <1>1, <1>10 DEF streamVars, busSide
<1>11. QED
  BY <1>2, <1>3, <1>4, <1>5, <1>6, <1>7, <1>8, <1>9, <1>9w, <1>10 DEF StreamNext

(* A client of the event stream that is not cut off sees the events the    *)
(* forwarder sends in the order they were emitted, an approval only when   *)
(* it can be answered, and tool calls under the agent that made them, for  *)
(* any number of clients, buffers and events.                              *)
THEOREM StreamsStayTrue == StreamSpec => []StreamsAreTrue
<1>1. StreamInit => StreamInv
  BY StreamBegins
<1>2. StreamInv /\ [StreamNext]_streamVars => StreamInv'
  BY StreamStep
<1>3. StreamInv => StreamsAreTrue
  BY StreamInvIsTrue
<1>4. QED
  BY <1>1, <1>2, <1>3, PTL DEF StreamSpec
-----------------------------------------------------------------------------
(* The board (Blackboard).                                                 *)

Phases    == {"setup", "set_var", "exec"}
Callbacks == {"read_file", "sub_lm_batch"}
ToLines   == [type : Phases \cup {"callback_result", "shutdown"}, of : Nat]
FromLines == [type : Callbacks \cup {"debug", "result", "raw"}, of : Nat]
Coding    == {"exec", "calling", "wait", "stuck"}

(* Every variable of the board, of its type.                               *)
BoardTypes ==
  /\ holder \in Agents \cup {"nobody", "closer"}
  /\ kind \in {"none", "execute", "deposit", "close"}
  /\ goAt \in {"idle", "start", "send", "check", "scan", "answer", "return", "reset", "closing"}
  /\ message \in Phases \cup {"none"}
  /\ dying \in BOOLEAN /\ started \in BOOLEAN /\ closed \in BOOLEAN /\ alarm \in BOOLEAN
  /\ stray \in BOOLEAN
  /\ boardCalls \in Nat /\ running \in Nat /\ asked \in Nat
  /\ py \in Coding \cup {"none", "recv", "dead"}
  /\ writer \in Agents \cup {"None"}
  /\ bb \in [Agents -> {"none", "dict", "data", "result"}]
  /\ toPy \in Seq(ToLines) /\ fromPy \in Seq(FromLines)
  /\ jobs \in [Prompts -> {"none", "waiting", "asking"}]

Quiet       == goAt \in {"idle", "start", "send", "return"}
Outstanding == goAt \in {"check", "scan", "answer"}
Ending      == goAt \in {"reset", "closing"}

(* Who holds the mutex, for which call, and how far it is.                 *)
HolderInv ==
  /\ goAt = "idle" <=> holder = "nobody"
  /\ goAt = "idle" <=> kind = "none"
  /\ kind = "close" <=> holder = "closer"
  /\ kind = "close" => Ending
  /\ Outstanding \/ goAt = "send" => message \in Phases
  /\ goAt = "return" => message = "exec"
  /\ goAt \in {"idle", "start"} => message = "none"

(* The process the board counts on.                                        *)
ProcessInv ==
  /\ goAt \in {"idle", "start"} => (started <=> py # "none")
  /\ goAt \notin {"idle", "start"} => py # "none"
  /\ Outstanding \/ goAt \in {"send", "return"} => (started <=> message # "setup")
  /\ closed => kind = "close" \/ (goAt = "idle" /\ py = "none")
  /\ alarm => py \in {"exec", "calling", "dead"}

OnlyAnswers == \A i \in DOMAIN toPy : toPy[i].type = "callback_result"
IsCallback(i) == fromPy[i].type \in Callbacks

(* The pipes between two messages, and at the end of the process.          *)
RestInv ==
  /\ Quiet => fromPy = <<>> /\ py \in {"none", "recv", "dead"} /\ OnlyAnswers
  /\ Ending /\ py # "dead" =>
       \A i \in DOMAIN toPy : toPy[i].type \in {"callback_result", "shutdown"}

(* The message under way: in the pipe as its last line, or read by the     *)
(* process; and its result, the last line that comes back.                 *)
MessageInv ==
  /\ ResultIsOwn
  /\ Outstanding =>
       /\ \A i \in DOMAIN fromPy : fromPy[i].type = "result" => i = Len(fromPy) /\ OnlyAnswers
       /\ \A i \in DOMAIN toPy : toPy[i].type # "callback_result" =>
            /\ i = Len(toPy) /\ toPy[i].type = message /\ toPy[i].of = boardCalls
            /\ py \in {"recv", "dead"} /\ fromPy = <<>> /\ goAt \in {"check", "scan"}

(* Where the callback of the running code is: on its way to the board, at  *)
(* the board, or its answer on the way back.                               *)
CallbackComes ==
  /\ goAt \in {"check", "scan"} /\ Len(fromPy) > 0 /\ IsCallback(Len(fromPy)) /\ Len(toPy) = 0
  /\ \A i \in DOMAIN fromPy : IsCallback(i) => i = Len(fromPy)
CallbackIsHere == goAt = "answer" /\ Len(fromPy) = 0 /\ Len(toPy) = 0
AnswerComes ==
  /\ goAt \in {"check", "scan"} /\ Len(fromPy) = 0
  /\ Len(toPy) = 1 /\ toPy[1] = Msg("callback_result", asked)

(* Code runs for the call under way, under its agent's name, and for a     *)
(* call that has ended on a line that is no message.                       *)
CodeInv ==
  /\ py \in Coding => (Outstanding \/ Ending) /\ running = boardCalls /\ message = "exec"
  /\ py \in Coding /\ kind = "execute" => writer = holder
  /\ py = "stuck" => Ending
  /\ Outstanding /\ py \in Coding => OnlyAnswers /\ \A i \in DOMAIN fromPy : fromPy[i].type # "result"
  /\ Outstanding /\ py = "exec" =>
       goAt \in {"check", "scan"} /\ Len(toPy) = 0 /\ \A i \in DOMAIN fromPy : ~IsCallback(i)
  /\ Outstanding /\ py \in {"calling", "wait"} => CallbackComes \/ CallbackIsHere \/ AnswerComes

(* A line that is no message ends the call that finds it: it is there      *)
(* until then, and only after it may code outlive its call.                *)
StrayInv ==
  /\ Quiet => ~stray
  /\ \A i \in DOMAIN fromPy : fromPy[i].type = "raw" => stray
  /\ stray => kind = "execute"
  /\ stray /\ Outstanding => OnlyAnswers /\ \E i \in DOMAIN fromPy : fromPy[i].type = "raw"
  /\ Ending /\ py \in Coding => stray /\ \A i \in DOMAIN toPy : toPy[i].type = "shutdown"
  /\ goAt = "reset" /\ py \in Coding => Len(toPy) = 0

Asking == {p \in Prompts : jobs[p] = "asking"}

(* Prompts are under way only while their callback is answered, and never  *)
(* more of them than allowed.                                              *)
JobsInv ==
  /\ goAt # "answer" => jobs = NoJobs
  /\ Cardinality(Asking) <= MaxConcurrent

BoardInv == BoardTypes /\ HolderInv /\ ProcessInv /\ RestInv /\ MessageInv /\ CodeInv /\ StrayInv /\ JobsInv
-----------------------------------------------------------------------------
(* A call gets the mutex.                                                  *)
LEMMA CallStep ==
  ASSUME BoardInv, NEW a \in Agents, NEW k \in {"execute", "deposit"}, BoardCall(a, k)
  PROVE  BoardInv'
<1>i. BoardTypes /\ HolderInv /\ ProcessInv /\ RestInv /\ MessageInv /\ CodeInv /\ StrayInv /\ JobsInv
  BY DEF BoardInv
<1>u. /\ goAt = "idle" /\ boardCalls' = boardCalls + 1
      /\ \/ UNCHANGED <<holder, kind, goAt>>
         \/ ~closed /\ holder' = a /\ kind' = k /\ goAt' = "start" /\ a \notin {"nobody", "closer"}
      /\ UNCHANGED <<message, dying, started, closed, py, running, alarm, asked, stray, writer, bb,
                     toPy, fromPy, jobs>>
  BY <1>i, BoardAssumption DEF BoardCall, pyVars, HolderInv
<1>1. BoardTypes'
  BY <1>i, <1>u DEF BoardTypes, Phases, Coding
<1>2. HolderInv'
  BY <1>i, <1>u DEF HolderInv, Quiet, Outstanding, Ending, Phases
<1>3. ProcessInv'
  BY <1>i, <1>u DEF ProcessInv, Coding, Quiet, Outstanding, Phases, HolderInv
<1>4. RestInv'
  BY <1>i, <1>u DEF RestInv, Coding, CodeInv, Quiet, Outstanding, Ending, OnlyAnswers, ProcessInv, HolderInv
<1>5. MessageInv'
  BY <1>i, <1>u DEF MessageInv, Coding, StrayInv, Quiet, ResultIsOwn, Outstanding, OnlyAnswers, RestInv,
     ProcessInv, CodeInv, Callbacks
<1>6. CodeInv'
  BY <1>i, <1>u DEF CodeInv, Coding, StrayInv, Quiet, Outstanding, Ending, OnlyAnswers, IsCallback, CallbackComes,
     CallbackIsHere, AnswerComes, RestInv, Callbacks
<1>7. JobsInv'
  BY <1>i, <1>u DEF JobsInv, Asking
<1>8. StrayInv'
  BY <1>i, <1>u
  DEF StrayInv, Quiet, Outstanding, Ending, OnlyAnswers, Callbacks, Coding, RestInv, CodeInv
<1>9. QED
  BY <1>1, <1>2, <1>3, <1>4, <1>5, <1>6, <1>7, <1>8 DEF BoardInv

(* The context of the call is cancelled.                                   *)
LEMMA CancelStep ==
  ASSUME BoardInv, Cancels
  PROVE  BoardInv'
<1>i. BoardTypes /\ HolderInv /\ ProcessInv /\ RestInv /\ MessageInv /\ CodeInv /\ StrayInv /\ JobsInv
  BY DEF BoardInv
<1>1. BoardTypes'
  BY <1>i DEF BoardTypes, Phases, Coding, Cancels, goVars, pyVars
<1>2. HolderInv'
  BY <1>i DEF HolderInv, Quiet, Outstanding, Ending, Phases, Cancels, goVars, pyVars
<1>3. ProcessInv'
  BY <1>i DEF ProcessInv, Coding, Quiet, Outstanding, Phases, HolderInv, Cancels, goVars, pyVars
<1>4. RestInv'
  BY <1>i DEF RestInv, Coding, CodeInv, Quiet, Outstanding, Ending, OnlyAnswers, ProcessInv, HolderInv, Cancels,
     goVars, pyVars
<1>5. MessageInv'
  BY <1>i DEF MessageInv, Coding, StrayInv, Quiet, ResultIsOwn, Outstanding, OnlyAnswers, RestInv, ProcessInv,
     CodeInv, Callbacks, Cancels, goVars, pyVars
<1>6. CodeInv'
  BY <1>i DEF CodeInv, Coding, StrayInv, Quiet, Outstanding, Ending, OnlyAnswers, IsCallback, CallbackComes,
     CallbackIsHere, AnswerComes, RestInv, Callbacks, Cancels, goVars, pyVars
<1>7. JobsInv'
  BY <1>i DEF JobsInv, Asking, Cancels, goVars, pyVars
<1>8. StrayInv'
  BY <1>i
  DEF StrayInv, Quiet, Outstanding, Ending, OnlyAnswers, Callbacks, Coding, RestInv, CodeInv, Cancels, goVars, pyVars
<1>9. QED
  BY <1>1, <1>2, <1>3, <1>4, <1>5, <1>6, <1>7, <1>8 DEF BoardInv

(* The process is there, is started, or cannot be.                         *)
LEMMA StartStep ==
  ASSUME BoardInv, Starts
  PROVE  BoardInv'
<1>i. BoardTypes /\ HolderInv /\ ProcessInv /\ RestInv /\ MessageInv /\ CodeInv /\ StrayInv /\ JobsInv
  BY DEF BoardInv
<1>u. /\ goAt = "start"
      /\ \/ /\ started /\ goAt' = "send" /\ message' \in {"set_var", "exec"}
            /\ UNCHANGED <<holder, kind, dying, py, running, alarm, asked, stray, writer, bb>>
         \/ /\ ~started /\ goAt' = "send" /\ message' = "setup"
            /\ py' = "recv" /\ running' = 0 /\ ~alarm' /\ alarm' \in BOOLEAN /\ asked' = 0
            /\ writer' = "None" /\ ~stray' /\ stray' \in BOOLEAN
            /\ bb' \in [Agents -> {"none", "dict", "data", "result"}]
            /\ UNCHANGED <<holder, kind, dying>>
         \/ /\ ~started /\ holder' = "nobody" /\ kind' = "none" /\ goAt' = "idle" /\ message' = "none"
            /\ dying' \in BOOLEAN /\ UNCHANGED <<py, running, alarm, asked, stray, writer, bb>>
      /\ UNCHANGED <<started, closed, boardCalls, toPy, fromPy, jobs>>
  BY <1>i, BoardAssumption DEF Starts, Unlocked, NoSlots, FirstPhase, pyVars
<1>1. BoardTypes'
  BY <1>i, <1>u DEF BoardTypes, Phases, Coding
<1>2. HolderInv'
  BY <1>i, <1>u DEF HolderInv, Quiet, Outstanding, Ending, Phases
<1>3. ProcessInv'
  BY <1>i, <1>u DEF ProcessInv, Coding, Quiet, Outstanding, Phases, HolderInv
<1>4. RestInv'
  BY <1>i, <1>u DEF RestInv, Coding, CodeInv, Quiet, Outstanding, Ending, OnlyAnswers, ProcessInv, HolderInv
<1>5. MessageInv'
  BY <1>i, <1>u DEF MessageInv, Coding, StrayInv, Quiet, ResultIsOwn, Outstanding, OnlyAnswers, RestInv,
     ProcessInv, CodeInv, Callbacks
<1>6. CodeInv'
  BY <1>i, <1>u DEF CodeInv, Coding, StrayInv, Quiet, Outstanding, Ending, OnlyAnswers, IsCallback, CallbackComes,
     CallbackIsHere, AnswerComes, RestInv, Callbacks
<1>7. JobsInv'
  BY <1>i, <1>u DEF JobsInv, Asking
<1>8. StrayInv'
  BY <1>i, <1>u
  DEF StrayInv, Quiet, Outstanding, Ending, OnlyAnswers, Callbacks, Coding, RestInv, CodeInv
<1>9. QED
  BY <1>1, <1>2, <1>3, <1>4, <1>5, <1>6, <1>7, <1>8 DEF BoardInv

(* The board looks at the context and goes on to read, or gives up.        *)
LEMMA CheckStep ==
  ASSUME BoardInv, Checks
  PROVE  BoardInv'
<1>i. BoardTypes /\ HolderInv /\ ProcessInv /\ RestInv /\ MessageInv /\ CodeInv /\ StrayInv /\ JobsInv
  BY DEF BoardInv
<1>1. BoardTypes'
  BY <1>i DEF BoardTypes, Phases, Coding, Checks, goVars, pyVars
<1>2. HolderInv'
  BY <1>i DEF HolderInv, Quiet, Outstanding, Ending, Phases, Checks, goVars, pyVars
<1>3. ProcessInv'
  BY <1>i DEF ProcessInv, Coding, Quiet, Outstanding, Phases, HolderInv, Checks, goVars, pyVars
<1>4. RestInv'
  BY <1>i DEF RestInv, Coding, CodeInv, Quiet, Outstanding, Ending, OnlyAnswers, ProcessInv, HolderInv, Checks,
     goVars, pyVars
<1>5. MessageInv'
  BY <1>i DEF MessageInv, Coding, StrayInv, Quiet, ResultIsOwn, Outstanding, OnlyAnswers, RestInv, ProcessInv,
     CodeInv, Callbacks, Checks, goVars, pyVars
<1>6. CodeInv'
  BY <1>i DEF CodeInv, Coding, StrayInv, Quiet, Outstanding, Ending, OnlyAnswers, IsCallback, CallbackComes,
     CallbackIsHere, AnswerComes, RestInv, Callbacks, Checks, goVars, pyVars
<1>7. JobsInv'
  BY <1>i DEF JobsInv, Asking, Checks, goVars, pyVars
<1>8. StrayInv'
  BY <1>i
  DEF StrayInv, Quiet, Outstanding, Ending, OnlyAnswers, Callbacks, Coding, RestInv, CodeInv, Checks, goVars, pyVars
<1>9. QED
  BY <1>1, <1>2, <1>3, <1>4, <1>5, <1>6, <1>7, <1>8 DEF BoardInv

(* The scanner finds the end of the output of a process that is gone.      *)
LEMMA EndStep ==
  ASSUME BoardInv, FindsEnd
  PROVE  BoardInv'
<1>i. BoardTypes /\ HolderInv /\ ProcessInv /\ RestInv /\ MessageInv /\ CodeInv /\ StrayInv /\ JobsInv
  BY DEF BoardInv
<1>1. BoardTypes'
  BY <1>i DEF BoardTypes, Phases, Coding, FindsEnd, goVars, pyVars
<1>2. HolderInv'
  BY <1>i DEF HolderInv, Quiet, Outstanding, Ending, Phases, FindsEnd, goVars, pyVars
<1>3. ProcessInv'
  BY <1>i DEF ProcessInv, Coding, Quiet, Outstanding, Phases, HolderInv, FindsEnd, goVars, pyVars
<1>4. RestInv'
  BY <1>i DEF RestInv, Coding, CodeInv, Quiet, Outstanding, Ending, OnlyAnswers, ProcessInv, HolderInv, FindsEnd,
     goVars, pyVars
<1>5. MessageInv'
  BY <1>i DEF MessageInv, Coding, StrayInv, Quiet, ResultIsOwn, Outstanding, OnlyAnswers, RestInv, ProcessInv,
     CodeInv, Callbacks, FindsEnd, goVars, pyVars
<1>6. CodeInv'
  BY <1>i DEF CodeInv, Coding, StrayInv, Quiet, Outstanding, Ending, OnlyAnswers, IsCallback, CallbackComes,
     CallbackIsHere, AnswerComes, RestInv, Callbacks, FindsEnd, goVars, pyVars
<1>7. JobsInv'
  BY <1>i DEF JobsInv, Asking, FindsEnd, goVars, pyVars
<1>8. StrayInv'
  BY <1>i
  DEF StrayInv, Quiet, Outstanding, Ending, OnlyAnswers, Callbacks, Coding, RestInv, CodeInv, FindsEnd, goVars, pyVars
<1>9. QED
  BY <1>1, <1>2, <1>3, <1>4, <1>5, <1>6, <1>7, <1>8 DEF BoardInv

(* The call returns and the mutex is free.                                 *)
LEMMA ReturnStep ==
  ASSUME BoardInv, BoardReturns
  PROVE  BoardInv'
<1>i. BoardTypes /\ HolderInv /\ ProcessInv /\ RestInv /\ MessageInv /\ CodeInv /\ StrayInv /\ JobsInv
  BY DEF BoardInv
<1>u. /\ goAt = "return" /\ holder' = "nobody" /\ kind' = "none" /\ goAt' = "idle"
      /\ message' = "none" /\ dying' \in BOOLEAN /\ message = "exec" /\ kind # "close"
      /\ UNCHANGED <<started, closed, boardCalls, py, running, alarm, asked, stray, writer, bb, toPy,
                     fromPy, jobs>>
  BY <1>i, BoardAssumption DEF BoardReturns, Unlocked, pyVars, HolderInv, Ending
<1>1. BoardTypes'
  BY <1>i, <1>u DEF BoardTypes, Phases, Coding
<1>2. HolderInv'
  BY <1>i, <1>u DEF HolderInv, Quiet, Outstanding, Ending, Phases
<1>3. ProcessInv'
  BY <1>i, <1>u DEF ProcessInv, Coding, Quiet, Outstanding, Phases, HolderInv
<1>4. RestInv'
  BY <1>i, <1>u DEF RestInv, Coding, CodeInv, Quiet, Outstanding, Ending, OnlyAnswers, ProcessInv, HolderInv
<1>5. MessageInv'
  BY <1>i, <1>u DEF MessageInv, Coding, StrayInv, Quiet, ResultIsOwn, Outstanding, OnlyAnswers, RestInv,
     ProcessInv, CodeInv, Callbacks
<1>6. CodeInv'
  BY <1>i, <1>u DEF CodeInv, Coding, StrayInv, Quiet, Outstanding, Ending, OnlyAnswers, IsCallback, CallbackComes,
     CallbackIsHere, AnswerComes, RestInv, Callbacks
<1>7. JobsInv'
  BY <1>i, <1>u DEF JobsInv, Asking
<1>8. StrayInv'
  BY <1>i, <1>u
  DEF StrayInv, Quiet, Outstanding, Ending, OnlyAnswers, Callbacks, Coding, RestInv, CodeInv
<1>9. QED
  BY <1>1, <1>2, <1>3, <1>4, <1>5, <1>6, <1>7, <1>8 DEF BoardInv

(* Close takes the mutex.                                                  *)
LEMMA CloseStep ==
  ASSUME BoardInv, Closes
  PROVE  BoardInv'
<1>i. BoardTypes /\ HolderInv /\ ProcessInv /\ RestInv /\ MessageInv /\ CodeInv /\ StrayInv /\ JobsInv
  BY DEF BoardInv
<1>u. /\ goAt = "idle" /\ holder = "nobody" /\ ~closed /\ closed' = TRUE
      /\ \/ started /\ holder' = "closer" /\ kind' = "close" /\ goAt' = "reset"
         \/ ~started /\ UNCHANGED <<holder, kind, goAt>>
      /\ UNCHANGED <<message, dying, started, boardCalls, py, running, alarm, asked, stray, writer, bb,
                     toPy, fromPy, jobs>>
  BY <1>i, BoardAssumption DEF Closes, pyVars, HolderInv
<1>1. BoardTypes'
  BY <1>i, <1>u DEF BoardTypes, Phases, Coding
<1>2. HolderInv'
  BY <1>i, <1>u DEF HolderInv, Quiet, Outstanding, Ending, Phases
<1>3. ProcessInv'
  BY <1>i, <1>u DEF ProcessInv, Coding, Quiet, Outstanding, Phases, HolderInv
<1>4. RestInv'
  BY <1>i, <1>u DEF RestInv, Coding, CodeInv, Quiet, Outstanding, Ending, OnlyAnswers, ProcessInv, HolderInv
<1>5. MessageInv'
  BY <1>i, <1>u DEF MessageInv, Coding, StrayInv, Quiet, ResultIsOwn, Outstanding, OnlyAnswers, RestInv,
     ProcessInv, CodeInv, Callbacks
<1>6. CodeInv'
  BY <1>i, <1>u DEF CodeInv, Coding, StrayInv, Quiet, Outstanding, Ending, OnlyAnswers, IsCallback, CallbackComes,
     CallbackIsHere, AnswerComes, RestInv, Callbacks
<1>7. JobsInv'
  BY <1>i, <1>u DEF JobsInv, Asking
<1>8. StrayInv'
  BY <1>i, <1>u
  DEF StrayInv, Quiet, Outstanding, Ending, OnlyAnswers, Callbacks, Coding, RestInv, CodeInv
<1>9. QED
  BY <1>1, <1>2, <1>3, <1>4, <1>5, <1>6, <1>7, <1>8 DEF BoardInv

(* The running code sets, replaces or deletes a slot.                      *)
LEMMA PutStep ==
  ASSUME BoardInv, NEW a \in Agents, NEW what \in {"dict", "data", "none"},
         NEW method \in Methods, Puts(a, what, method)
  PROVE  BoardInv'
<1>i. BoardTypes /\ HolderInv /\ ProcessInv /\ RestInv /\ MessageInv /\ CodeInv /\ StrayInv /\ JobsInv
  BY DEF BoardInv
<1>1. BoardTypes'
  BY <1>i DEF BoardTypes, Phases, Coding, Puts, goVars, pyVars
<1>2. HolderInv'
  BY <1>i DEF HolderInv, Quiet, Outstanding, Ending, Phases, Puts, goVars, pyVars
<1>3. ProcessInv'
  BY <1>i DEF ProcessInv, Coding, Quiet, Outstanding, Phases, HolderInv, Puts, goVars, pyVars
<1>4. RestInv'
  BY <1>i DEF RestInv, Coding, CodeInv, Quiet, Outstanding, Ending, OnlyAnswers, ProcessInv, HolderInv, Puts,
     goVars, pyVars
<1>5. MessageInv'
  BY <1>i DEF MessageInv, Coding, StrayInv, Quiet, ResultIsOwn, Outstanding, OnlyAnswers, RestInv, ProcessInv,
     CodeInv, Callbacks, Puts, goVars, pyVars
<1>6. CodeInv'
  BY <1>i DEF CodeInv, Coding, StrayInv, Quiet, Outstanding, Ending, OnlyAnswers, IsCallback, CallbackComes,
     CallbackIsHere, AnswerComes, RestInv, Callbacks, Puts, goVars, pyVars
<1>7. JobsInv'
  BY <1>i DEF JobsInv, Asking, Puts, goVars, pyVars
<1>8. StrayInv'
  BY <1>i
  DEF StrayInv, Quiet, Outstanding, Ending, OnlyAnswers, Callbacks, Coding, RestInv, CodeInv, Puts, goVars, pyVars
<1>9. QED
  BY <1>1, <1>2, <1>3, <1>4, <1>5, <1>6, <1>7, <1>8 DEF BoardInv

(* The process, its callback sent, waits for the answer.                   *)
LEMMA WaitStep ==
  ASSUME BoardInv, Waits
  PROVE  BoardInv'
<1>i. BoardTypes /\ HolderInv /\ ProcessInv /\ RestInv /\ MessageInv /\ CodeInv /\ StrayInv /\ JobsInv
  BY DEF BoardInv
<1>u. /\ py = "calling" /\ py' = "wait" /\ ~alarm' /\ alarm' \in BOOLEAN
      /\ UNCHANGED <<holder, kind, goAt, message, dying, started, closed, boardCalls, running,
                     asked, stray, writer, bb, toPy, fromPy, jobs>>
  BY <1>i, BoardAssumption DEF Waits, goVars
<1>1. BoardTypes'
  BY <1>i, <1>u DEF BoardTypes, Phases, Coding
<1>2. HolderInv'
  BY <1>i, <1>u DEF HolderInv, Quiet, Outstanding, Ending, Phases
<1>3. ProcessInv'
  BY <1>i, <1>u DEF ProcessInv, Coding, Quiet, Outstanding, Phases, HolderInv
<1>4. RestInv'
  BY <1>i, <1>u DEF RestInv, Coding, CodeInv, Quiet, Outstanding, Ending, OnlyAnswers, ProcessInv, HolderInv
<1>5. MessageInv'
  BY <1>i, <1>u DEF MessageInv, Coding, StrayInv, Quiet, ResultIsOwn, Outstanding, OnlyAnswers, RestInv,
     ProcessInv, CodeInv, Callbacks
<1>6. CodeInv'
  BY <1>i, <1>u DEF CodeInv, Coding, StrayInv, Quiet, Outstanding, Ending, OnlyAnswers, IsCallback, CallbackComes,
     CallbackIsHere, AnswerComes, RestInv, Callbacks
<1>7. JobsInv'
  BY <1>i, <1>u DEF JobsInv, Asking
<1>8. StrayInv'
  BY <1>i, <1>u
  DEF StrayInv, Quiet, Outstanding, Ending, OnlyAnswers, Callbacks, Coding, RestInv, CodeInv
<1>9. QED
  BY <1>1, <1>2, <1>3, <1>4, <1>5, <1>6, <1>7, <1>8 DEF BoardInv

(* The process is killed or exits on its own.                              *)
LEMMA DieStep ==
  ASSUME BoardInv, Dies
  PROVE  BoardInv'
<1>i. BoardTypes /\ HolderInv /\ ProcessInv /\ RestInv /\ MessageInv /\ CodeInv /\ StrayInv /\ JobsInv
  BY DEF BoardInv
<1>1. BoardTypes'
  BY <1>i DEF BoardTypes, Phases, Coding, Dies, goVars, pyVars
<1>2. HolderInv'
  BY <1>i DEF HolderInv, Quiet, Outstanding, Ending, Phases, Dies, goVars, pyVars
<1>3. ProcessInv'
  BY <1>i DEF ProcessInv, Coding, Quiet, Outstanding, Phases, HolderInv, Dies, goVars, pyVars
<1>4. RestInv'
  BY <1>i DEF RestInv, Coding, CodeInv, Quiet, Outstanding, Ending, OnlyAnswers, ProcessInv, HolderInv, Dies,
     goVars, pyVars
<1>5. MessageInv'
  BY <1>i DEF MessageInv, Coding, StrayInv, Quiet, ResultIsOwn, Outstanding, OnlyAnswers, RestInv, ProcessInv,
     CodeInv, Callbacks, Dies, goVars, pyVars
<1>6. CodeInv'
  BY <1>i DEF CodeInv, Coding, StrayInv, Quiet, Outstanding, Ending, OnlyAnswers, IsCallback, CallbackComes,
     CallbackIsHere, AnswerComes, RestInv, Callbacks, Dies, goVars, pyVars
<1>7. JobsInv'
  BY <1>i DEF JobsInv, Asking, Dies, goVars, pyVars
<1>8. StrayInv'
  BY <1>i
  DEF StrayInv, Quiet, Outstanding, Ending, OnlyAnswers, Callbacks, Coding, RestInv, CodeInv, Dies, goVars, pyVars
<1>9. QED
  BY <1>1, <1>2, <1>3, <1>4, <1>5, <1>6, <1>7, <1>8 DEF BoardInv

(* The process is gone or is killed; the board forgets it.                 *)
LEMMA StopStep ==
  ASSUME BoardInv, Stopped
  PROVE  BoardInv'
<1>i. BoardTypes /\ HolderInv /\ ProcessInv /\ RestInv /\ MessageInv /\ CodeInv /\ StrayInv /\ JobsInv
  BY DEF BoardInv
<1>u. /\ goAt = "closing" /\ holder' = "nobody" /\ kind' = "none" /\ goAt' = "idle"
      /\ message' = "none" /\ dying' \in BOOLEAN /\ started' \in BOOLEAN /\ ~started'
      /\ py' = "none" /\ running' = 0 /\ ~alarm' /\ alarm' \in BOOLEAN /\ asked' = 0
      /\ writer' = "None" /\ ~stray' /\ stray' \in BOOLEAN
      /\ bb' \in [Agents -> {"none", "dict", "data", "result"}]
      /\ toPy' = <<>> /\ fromPy' = <<>> /\ UNCHANGED <<closed, boardCalls, jobs>>
      /\ toPy' \in Seq(ToLines) /\ fromPy' \in Seq(FromLines)
  <2>1. bb' = [a \in Agents |-> "none"] /\ toPy' = <<>> /\ fromPy' = <<>> /\ dying' = FALSE /\ started' = FALSE
        /\ alarm' = FALSE /\ stray' = FALSE
    BY DEF Stopped, Unlocked, NoSlots
  <2>2. <<>> \in Seq(ToLines) /\ <<>> \in Seq(FromLines)
    OBVIOUS
  <2>3. bb' \in [Agents -> {"none", "dict", "data", "result"}]
    BY <2>1
  <2>4. QED
    BY <2>1, <2>2, <2>3 DEF Stopped, Unlocked
<1>1. BoardTypes'
  BY <1>i, <1>u DEF BoardTypes, Phases, Coding
<1>2. HolderInv'
  BY <1>i, <1>u DEF HolderInv, Quiet, Outstanding, Ending, Phases
<1>3. ProcessInv'
  BY <1>i, <1>u DEF ProcessInv, Coding, Quiet, Outstanding, Phases, HolderInv
<1>4. RestInv'
  BY <1>i, <1>u DEF RestInv, Coding, CodeInv, Quiet, Outstanding, Ending, OnlyAnswers, ProcessInv, HolderInv
<1>5. MessageInv'
  BY <1>i, <1>u DEF MessageInv, Coding, StrayInv, Quiet, ResultIsOwn, Outstanding, OnlyAnswers, RestInv,
     ProcessInv, CodeInv, Callbacks
<1>6. CodeInv'
  BY <1>i, <1>u DEF CodeInv, Coding, StrayInv, Quiet, Outstanding, Ending, OnlyAnswers, IsCallback, CallbackComes,
     CallbackIsHere, AnswerComes, RestInv, Callbacks
<1>7. JobsInv'
  BY <1>i, <1>u DEF JobsInv, Asking
<1>8. StrayInv'
  BY <1>i, <1>u
  DEF StrayInv, Quiet, Outstanding, Ending, OnlyAnswers, Callbacks, Coding, RestInv, CodeInv
<1>9. QED
  BY <1>1, <1>2, <1>3, <1>4, <1>5, <1>6, <1>7, <1>8 DEF BoardInv

(* The lines the two sides write.                                          *)
LEMMA LineTypes ==
  ASSUME NEW t, NEW n \in Nat
  PROVE  /\ Msg(t, n).type = t /\ Msg(t, n).of = n
         /\ t \in Phases \/ t = "callback_result" \/ t = "shutdown" => Msg(t, n) \in ToLines
         /\ t \in Callbacks \/ t = "debug" \/ t = "result" => Msg(t, n) \in FromLines
BY DEF Msg, ToLines, FromLines

(* What is known of the pipes' lengths.                                    *)
LEMMA PipeFacts ==
  ASSUME BoardTypes
  PROVE  /\ Len(toPy) \in Nat /\ DOMAIN toPy = 1 .. Len(toPy) /\ (Len(toPy) = 0 <=> toPy = <<>>)
         /\ Len(fromPy) \in Nat /\ DOMAIN fromPy = 1 .. Len(fromPy)
         /\ (Len(fromPy) = 0 <=> fromPy = <<>>)
BY QueueFacts DEF BoardTypes

(* The board writes a message that the process can read.                   *)
LEMMA SendStep ==
  ASSUME BoardInv, Sends, py # "dead"
  PROVE  BoardInv'
<1>i. BoardTypes /\ HolderInv /\ ProcessInv /\ RestInv /\ MessageInv /\ CodeInv /\ StrayInv /\ JobsInv
  BY DEF BoardInv
<1>l. /\ Len(toPy) \in Nat /\ DOMAIN toPy = 1 .. Len(toPy) /\ (Len(toPy) = 0 <=> toPy = <<>>)
      /\ Len(fromPy) \in Nat /\ DOMAIN fromPy = 1 .. Len(fromPy)
      /\ (Len(fromPy) = 0 <=> fromPy = <<>>)
  BY <1>i, PipeFacts
<1>u. /\ goAt = "send" /\ goAt' = "check" /\ message \in Phases
      /\ toPy' \in Seq(ToLines) /\ Len(toPy') = Len(toPy) + 1 /\ DOMAIN toPy' = 1 .. Len(toPy) + 1
      /\ \A i \in 1 .. Len(toPy) : toPy'[i] = toPy[i]
      /\ toPy'[Len(toPy) + 1].type = message /\ toPy'[Len(toPy) + 1].of = boardCalls
      /\ UNCHANGED <<holder, kind, message, dying, started, closed, boardCalls, py, running,
                     alarm, asked, stray, writer, bb, fromPy, jobs>>
  <2>1. toPy' = Append(toPy, Msg(message, boardCalls))
    BY DEF Sends
  <2>a. boardCalls \in Nat /\ message \in Phases
    BY <1>i DEF BoardTypes, HolderInv, Outstanding, Sends
  <2>2. Msg(message, boardCalls) \in ToLines /\ Msg(message, boardCalls).type = message /\ Msg(message, boardCalls).of = boardCalls
    BY <2>a, LineTypes
  <2>3. /\ toPy' \in Seq(ToLines) /\ Len(toPy') = Len(toPy) + 1 /\ DOMAIN toPy' = 1 .. Len(toPy) + 1
        /\ \A i \in 1 .. Len(toPy) : toPy'[i] = toPy[i]
        /\ toPy'[Len(toPy) + 1].type = message /\ toPy'[Len(toPy) + 1].of = boardCalls
        /\ toPy'[Len(toPy) + 1] = Msg(message, boardCalls)
    BY <1>i, <2>1, <2>2, AppendFacts DEF BoardTypes
  <2>4. QED
    BY <1>i, <2>1, <2>3 DEF Sends, pyVars, HolderInv, BoardTypes
<1>1. BoardTypes'
  BY <1>i, <1>l, <1>u DEF BoardTypes, Phases, Coding
<1>2. HolderInv'
  BY <1>i, <1>l, <1>u DEF HolderInv, Quiet, Outstanding, Ending, Phases
<1>3. ProcessInv'
  BY <1>i, <1>l, <1>u DEF ProcessInv, Coding, Quiet, Outstanding, Phases, HolderInv
<1>4. RestInv'
  BY <1>i, <1>l, <1>u DEF RestInv, Coding, CodeInv, Quiet, Outstanding, Ending, OnlyAnswers, ProcessInv, HolderInv
<1>5. MessageInv'
  BY <1>i, <1>l, <1>u DEF MessageInv, Coding, StrayInv, Quiet, ResultIsOwn, Outstanding, OnlyAnswers, RestInv,
     ProcessInv, CodeInv, Callbacks
<1>6. CodeInv'
  BY <1>i, <1>l, <1>u DEF CodeInv, Coding, StrayInv, Quiet, Outstanding, Ending, OnlyAnswers, IsCallback, CallbackComes,
     CallbackIsHere, AnswerComes, RestInv, Callbacks
<1>7. JobsInv'
  BY <1>i, <1>l, <1>u DEF JobsInv, Asking
<1>8. StrayInv'
  BY <1>i, <1>l, <1>u
  DEF StrayInv, Quiet, Outstanding, Ending, OnlyAnswers, Callbacks, Coding, RestInv, CodeInv
<1>9. QED
  BY <1>1, <1>2, <1>3, <1>4, <1>5, <1>6, <1>7, <1>8 DEF BoardInv

(* The write fails, the process is dead.                                   *)
LEMMA SendFails ==
  ASSUME BoardInv, Sends, py = "dead"
  PROVE  BoardInv'
<1>i. BoardTypes /\ HolderInv /\ ProcessInv /\ RestInv /\ MessageInv /\ CodeInv /\ StrayInv /\ JobsInv
  BY DEF BoardInv
<1>l. /\ Len(toPy) \in Nat /\ DOMAIN toPy = 1 .. Len(toPy) /\ (Len(toPy) = 0 <=> toPy = <<>>)
      /\ Len(fromPy) \in Nat /\ DOMAIN fromPy = 1 .. Len(fromPy)
      /\ (Len(fromPy) = 0 <=> fromPy = <<>>)
  BY <1>i, PipeFacts
<1>u. /\ goAt = "send" /\ goAt' = "reset"
      /\ UNCHANGED <<holder, kind, message, dying, started, closed, boardCalls, py, running,
                     alarm, asked, stray, writer, bb, toPy, fromPy, jobs>>
  BY <1>i, <1>l, PipeFacts DEF Sends, pyVars
<1>1. BoardTypes'
  BY <1>i, <1>l, <1>u DEF BoardTypes, Phases, Coding
<1>2. HolderInv'
  BY <1>i, <1>l, <1>u DEF HolderInv, Quiet, Outstanding, Ending, Phases
<1>3. ProcessInv'
  BY <1>i, <1>l, <1>u DEF ProcessInv, Coding, Quiet, Outstanding, Phases, HolderInv
<1>4. RestInv'
  BY <1>i, <1>l, <1>u DEF RestInv, Coding, CodeInv, Quiet, Outstanding, Ending, OnlyAnswers, ProcessInv, HolderInv
<1>5. MessageInv'
  BY <1>i, <1>l, <1>u DEF MessageInv, Coding, StrayInv, Quiet, ResultIsOwn, Outstanding, OnlyAnswers, RestInv,
     ProcessInv, CodeInv, Callbacks
<1>6. CodeInv'
  BY <1>i, <1>l, <1>u DEF CodeInv, Coding, StrayInv, Quiet, Outstanding, Ending, OnlyAnswers, IsCallback, CallbackComes,
     CallbackIsHere, AnswerComes, RestInv, Callbacks
<1>7. JobsInv'
  BY <1>i, <1>l, <1>u DEF JobsInv, Asking
<1>8. StrayInv'
  BY <1>i, <1>l, <1>u
  DEF StrayInv, Quiet, Outstanding, Ending, OnlyAnswers, Callbacks, Coding, RestInv, CodeInv
<1>9. QED
  BY <1>1, <1>2, <1>3, <1>4, <1>5, <1>6, <1>7, <1>8 DEF BoardInv

(* The answer of a callback is written to the process.                     *)
LEMMA AnswerStep ==
  ASSUME BoardInv, CallbackDone, py # "dead"
  PROVE  BoardInv'
<1>i. BoardTypes /\ HolderInv /\ ProcessInv /\ RestInv /\ MessageInv /\ CodeInv /\ StrayInv /\ JobsInv
  BY DEF BoardInv
<1>l. /\ Len(toPy) \in Nat /\ DOMAIN toPy = 1 .. Len(toPy) /\ (Len(toPy) = 0 <=> toPy = <<>>)
      /\ Len(fromPy) \in Nat /\ DOMAIN fromPy = 1 .. Len(fromPy)
      /\ (Len(fromPy) = 0 <=> fromPy = <<>>)
  BY <1>i, PipeFacts
<1>u. /\ goAt = "answer" /\ goAt' = "check" /\ jobs = NoJobs
      /\ toPy' \in Seq(ToLines) /\ Len(toPy') = Len(toPy) + 1 /\ DOMAIN toPy' = 1 .. Len(toPy) + 1
      /\ \A i \in 1 .. Len(toPy) : toPy'[i] = toPy[i]
      /\ toPy'[Len(toPy) + 1].type = "callback_result" /\ toPy'[Len(toPy) + 1].of = asked
      /\ toPy'[Len(toPy) + 1] = Msg("callback_result", asked)
      /\ UNCHANGED <<holder, kind, message, dying, started, closed, boardCalls, py, running,
                     alarm, asked, stray, writer, bb, fromPy, jobs>>
  <2>1. toPy' = Append(toPy, Msg("callback_result", asked))
    BY DEF CallbackDone
  <2>a. asked \in Nat
    BY <1>i DEF BoardTypes
  <2>2. Msg("callback_result", asked) \in ToLines /\ Msg("callback_result", asked).type = "callback_result" /\ Msg("callback_result", asked).of = asked
    BY <2>a, LineTypes
  <2>3. /\ toPy' \in Seq(ToLines) /\ Len(toPy') = Len(toPy) + 1 /\ DOMAIN toPy' = 1 .. Len(toPy) + 1
        /\ \A i \in 1 .. Len(toPy) : toPy'[i] = toPy[i]
        /\ toPy'[Len(toPy) + 1].type = "callback_result" /\ toPy'[Len(toPy) + 1].of = asked
        /\ toPy'[Len(toPy) + 1] = Msg("callback_result", asked)
    BY <1>i, <2>1, <2>2, AppendFacts DEF BoardTypes
  <2>4. QED
    BY <1>i, <2>1, <2>3 DEF CallbackDone, pyVars, BoardTypes
<1>1. BoardTypes'
  BY <1>i, <1>l, <1>u DEF BoardTypes, Phases, Coding
<1>2. HolderInv'
  BY <1>i, <1>l, <1>u DEF HolderInv, Quiet, Outstanding, Ending, Phases
<1>3. ProcessInv'
  BY <1>i, <1>l, <1>u DEF ProcessInv, Coding, Quiet, Outstanding, Phases, HolderInv
<1>4. RestInv'
  BY <1>i, <1>l, <1>u DEF RestInv, Coding, CodeInv, Quiet, Outstanding, Ending, OnlyAnswers, ProcessInv, HolderInv
<1>5. MessageInv'
  BY <1>i, <1>l, <1>u DEF MessageInv, Coding, StrayInv, Quiet, ResultIsOwn, Outstanding, OnlyAnswers, RestInv,
     ProcessInv, CodeInv, Callbacks
<1>6. CodeInv'
  BY <1>i, <1>l, <1>u DEF CodeInv, Coding, StrayInv, Quiet, Outstanding, Ending, OnlyAnswers, IsCallback, CallbackComes,
     CallbackIsHere, AnswerComes, RestInv, Callbacks
<1>7. JobsInv'
  BY <1>i, <1>l, <1>u DEF JobsInv, Asking
<1>8. StrayInv'
  BY <1>i, <1>l, <1>u
  DEF StrayInv, Quiet, Outstanding, Ending, OnlyAnswers, Callbacks, Coding, RestInv, CodeInv
<1>9. QED
  BY <1>1, <1>2, <1>3, <1>4, <1>5, <1>6, <1>7, <1>8 DEF BoardInv

(* The answer finds the process dead.                                      *)
LEMMA AnswerFails ==
  ASSUME BoardInv, CallbackDone, py = "dead"
  PROVE  BoardInv'
<1>i. BoardTypes /\ HolderInv /\ ProcessInv /\ RestInv /\ MessageInv /\ CodeInv /\ StrayInv /\ JobsInv
  BY DEF BoardInv
<1>l. /\ Len(toPy) \in Nat /\ DOMAIN toPy = 1 .. Len(toPy) /\ (Len(toPy) = 0 <=> toPy = <<>>)
      /\ Len(fromPy) \in Nat /\ DOMAIN fromPy = 1 .. Len(fromPy)
      /\ (Len(fromPy) = 0 <=> fromPy = <<>>)
  BY <1>i, PipeFacts
<1>u. /\ goAt = "answer" /\ goAt' = "reset" /\ jobs = NoJobs
      /\ UNCHANGED <<holder, kind, message, dying, started, closed, boardCalls, py, running,
                     alarm, asked, stray, writer, bb, toPy, fromPy, jobs>>
  BY <1>i, <1>l, PipeFacts DEF CallbackDone, pyVars
<1>1. BoardTypes'
  BY <1>i, <1>l, <1>u DEF BoardTypes, Phases, Coding
<1>2. HolderInv'
  BY <1>i, <1>l, <1>u DEF HolderInv, Quiet, Outstanding, Ending, Phases
<1>3. ProcessInv'
  BY <1>i, <1>l, <1>u DEF ProcessInv, Coding, Quiet, Outstanding, Phases, HolderInv
<1>4. RestInv'
  BY <1>i, <1>l, <1>u DEF RestInv, Coding, CodeInv, Quiet, Outstanding, Ending, OnlyAnswers, ProcessInv, HolderInv
<1>5. MessageInv'
  BY <1>i, <1>l, <1>u DEF MessageInv, Coding, StrayInv, Quiet, ResultIsOwn, Outstanding, OnlyAnswers, RestInv,
     ProcessInv, CodeInv, Callbacks
<1>6. CodeInv'
  BY <1>i, <1>l, <1>u DEF CodeInv, Coding, StrayInv, Quiet, Outstanding, Ending, OnlyAnswers, IsCallback, CallbackComes,
     CallbackIsHere, AnswerComes, RestInv, Callbacks
<1>7. JobsInv'
  BY <1>i, <1>l, <1>u DEF JobsInv, Asking
<1>8. StrayInv'
  BY <1>i, <1>l, <1>u
  DEF StrayInv, Quiet, Outstanding, Ending, OnlyAnswers, Callbacks, Coding, RestInv, CodeInv
<1>9. QED
  BY <1>1, <1>2, <1>3, <1>4, <1>5, <1>6, <1>7, <1>8 DEF BoardInv

(* The board asks the process to stop.                                     *)
LEMMA ShutdownStep ==
  ASSUME BoardInv, AsksToStop, py # "dead"
  PROVE  BoardInv'
<1>i. BoardTypes /\ HolderInv /\ ProcessInv /\ RestInv /\ MessageInv /\ CodeInv /\ StrayInv /\ JobsInv
  BY DEF BoardInv
<1>l. /\ Len(toPy) \in Nat /\ DOMAIN toPy = 1 .. Len(toPy) /\ (Len(toPy) = 0 <=> toPy = <<>>)
      /\ Len(fromPy) \in Nat /\ DOMAIN fromPy = 1 .. Len(fromPy)
      /\ (Len(fromPy) = 0 <=> fromPy = <<>>)
  BY <1>i, PipeFacts
<1>u. /\ goAt = "reset" /\ goAt' = "closing"
      /\ toPy' \in Seq(ToLines) /\ Len(toPy') = Len(toPy) + 1 /\ DOMAIN toPy' = 1 .. Len(toPy) + 1
      /\ \A i \in 1 .. Len(toPy) : toPy'[i] = toPy[i]
      /\ toPy'[Len(toPy) + 1].type = "shutdown" /\ toPy'[Len(toPy) + 1].of = 0
      /\ UNCHANGED <<holder, kind, message, dying, started, closed, boardCalls, py, running,
                     alarm, asked, stray, writer, bb, fromPy, jobs>>
  <2>1. toPy' = Append(toPy, Msg("shutdown", 0))
    BY DEF AsksToStop
  <2>a. 0 \in Nat
    BY <1>i DEF BoardTypes
  <2>2. Msg("shutdown", 0) \in ToLines /\ Msg("shutdown", 0).type = "shutdown" /\ Msg("shutdown", 0).of = 0
    BY <2>a, LineTypes
  <2>3. /\ toPy' \in Seq(ToLines) /\ Len(toPy') = Len(toPy) + 1 /\ DOMAIN toPy' = 1 .. Len(toPy) + 1
        /\ \A i \in 1 .. Len(toPy) : toPy'[i] = toPy[i]
        /\ toPy'[Len(toPy) + 1].type = "shutdown" /\ toPy'[Len(toPy) + 1].of = 0
        /\ toPy'[Len(toPy) + 1] = Msg("shutdown", 0)
    BY <1>i, <2>1, <2>2, AppendFacts DEF BoardTypes
  <2>4. QED
    BY <1>i, <2>1, <2>3 DEF AsksToStop, pyVars, BoardTypes
<1>1. BoardTypes'
  BY <1>i, <1>l, <1>u DEF BoardTypes, Phases, Coding
<1>2. HolderInv'
  BY <1>i, <1>l, <1>u DEF HolderInv, Quiet, Outstanding, Ending, Phases
<1>3. ProcessInv'
  BY <1>i, <1>l, <1>u DEF ProcessInv, Coding, Quiet, Outstanding, Phases, HolderInv
<1>4. RestInv'
  BY <1>i, <1>l, <1>u DEF RestInv, Coding, CodeInv, Quiet, Outstanding, Ending, OnlyAnswers, ProcessInv, HolderInv
<1>5. MessageInv'
  BY <1>i, <1>l, <1>u DEF MessageInv, Coding, StrayInv, Quiet, ResultIsOwn, Outstanding, OnlyAnswers, RestInv,
     ProcessInv, CodeInv, Callbacks
<1>6. CodeInv'
  BY <1>i, <1>l, <1>u DEF CodeInv, Coding, StrayInv, Quiet, Outstanding, Ending, OnlyAnswers, IsCallback, CallbackComes,
     CallbackIsHere, AnswerComes, RestInv, Callbacks
<1>7. JobsInv'
  BY <1>i, <1>l, <1>u DEF JobsInv, Asking
<1>8. StrayInv'
  BY <1>i, <1>l, <1>u
  DEF StrayInv, Quiet, Outstanding, Ending, OnlyAnswers, Callbacks, Coding, RestInv, CodeInv
<1>9. QED
  BY <1>1, <1>2, <1>3, <1>4, <1>5, <1>6, <1>7, <1>8 DEF BoardInv

(* The request to stop finds the process dead.                             *)
LEMMA ShutdownFails ==
  ASSUME BoardInv, AsksToStop, py = "dead"
  PROVE  BoardInv'
<1>i. BoardTypes /\ HolderInv /\ ProcessInv /\ RestInv /\ MessageInv /\ CodeInv /\ StrayInv /\ JobsInv
  BY DEF BoardInv
<1>l. /\ Len(toPy) \in Nat /\ DOMAIN toPy = 1 .. Len(toPy) /\ (Len(toPy) = 0 <=> toPy = <<>>)
      /\ Len(fromPy) \in Nat /\ DOMAIN fromPy = 1 .. Len(fromPy)
      /\ (Len(fromPy) = 0 <=> fromPy = <<>>)
  BY <1>i, PipeFacts
<1>u. /\ goAt = "reset" /\ goAt' = "closing"
      /\ UNCHANGED <<holder, kind, message, dying, started, closed, boardCalls, py, running,
                     alarm, asked, stray, writer, bb, toPy, fromPy, jobs>>
  BY <1>i, <1>l, PipeFacts DEF AsksToStop, pyVars
<1>1. BoardTypes'
  BY <1>i, <1>l, <1>u DEF BoardTypes, Phases, Coding
<1>2. HolderInv'
  BY <1>i, <1>l, <1>u DEF HolderInv, Quiet, Outstanding, Ending, Phases
<1>3. ProcessInv'
  BY <1>i, <1>l, <1>u DEF ProcessInv, Coding, Quiet, Outstanding, Phases, HolderInv
<1>4. RestInv'
  BY <1>i, <1>l, <1>u DEF RestInv, Coding, CodeInv, Quiet, Outstanding, Ending, OnlyAnswers, ProcessInv, HolderInv
<1>5. MessageInv'
  BY <1>i, <1>l, <1>u DEF MessageInv, Coding, StrayInv, Quiet, ResultIsOwn, Outstanding, OnlyAnswers, RestInv,
     ProcessInv, CodeInv, Callbacks
<1>6. CodeInv'
  BY <1>i, <1>l, <1>u DEF CodeInv, Coding, StrayInv, Quiet, Outstanding, Ending, OnlyAnswers, IsCallback, CallbackComes,
     CallbackIsHere, AnswerComes, RestInv, Callbacks
<1>7. JobsInv'
  BY <1>i, <1>l, <1>u DEF JobsInv, Asking
<1>8. StrayInv'
  BY <1>i, <1>l, <1>u
  DEF StrayInv, Quiet, Outstanding, Ending, OnlyAnswers, Callbacks, Coding, RestInv, CodeInv
<1>9. QED
  BY <1>1, <1>2, <1>3, <1>4, <1>5, <1>6, <1>7, <1>8 DEF BoardInv

(* The code is over, and its result is written.                            *)
LEMMA CodeEndStep ==
  ASSUME BoardInv, EndsWith, py \in {"exec", "calling"}, UNCHANGED writer,
         bb' \in [Agents -> {"none", "dict", "data", "result"}]
  PROVE  BoardInv'
<1>i. BoardTypes /\ HolderInv /\ ProcessInv /\ RestInv /\ MessageInv /\ CodeInv /\ StrayInv /\ JobsInv
  BY DEF BoardInv
<1>l. /\ Len(toPy) \in Nat /\ DOMAIN toPy = 1 .. Len(toPy) /\ (Len(toPy) = 0 <=> toPy = <<>>)
      /\ Len(fromPy) \in Nat /\ DOMAIN fromPy = 1 .. Len(fromPy)
      /\ (Len(fromPy) = 0 <=> fromPy = <<>>)
  BY <1>i, PipeFacts
<1>u. /\ py' = "recv" /\ ~alarm' /\ alarm' \in BOOLEAN /\ asked' = 0
      /\ fromPy' \in Seq(FromLines) /\ Len(fromPy') = Len(fromPy) + 1 /\ DOMAIN fromPy' = 1 .. Len(fromPy) + 1
      /\ \A i \in 1 .. Len(fromPy) : fromPy'[i] = fromPy[i]
      /\ fromPy'[Len(fromPy) + 1].type = "result" /\ fromPy'[Len(fromPy) + 1].of = running
      /\ UNCHANGED <<holder, kind, goAt, message, dying, started, closed, boardCalls, running,
                     stray, writer, toPy, jobs>>
  <2>1. fromPy' = Append(fromPy, Msg("result", running))
    BY DEF EndsWith, Prints
  <2>a. running \in Nat
    BY <1>i DEF BoardTypes
  <2>2. Msg("result", running) \in FromLines /\ Msg("result", running).type = "result" /\ Msg("result", running).of = running
    BY <2>a, LineTypes
  <2>3. /\ fromPy' \in Seq(FromLines) /\ Len(fromPy') = Len(fromPy) + 1 /\ DOMAIN fromPy' = 1 .. Len(fromPy) + 1
        /\ \A i \in 1 .. Len(fromPy) : fromPy'[i] = fromPy[i]
        /\ fromPy'[Len(fromPy) + 1].type = "result" /\ fromPy'[Len(fromPy) + 1].of = running
        /\ fromPy'[Len(fromPy) + 1] = Msg("result", running)
    BY <1>i, <2>1, <2>2, AppendFacts DEF BoardTypes
  <2>4. QED
    BY <1>i, <2>1, <2>3 DEF EndsWith, Prints, goVars, BoardTypes
<1>1. BoardTypes'
  BY <1>i, <1>l, <1>u DEF BoardTypes, Phases, Coding
<1>2. HolderInv'
  BY <1>i, <1>l, <1>u DEF HolderInv, Quiet, Outstanding, Ending, Phases
<1>3. ProcessInv'
  BY <1>i, <1>l, <1>u DEF ProcessInv, Coding, Quiet, Outstanding, Phases, HolderInv
<1>4. RestInv'
  BY <1>i, <1>l, <1>u DEF RestInv, Coding, CodeInv, Quiet, Outstanding, Ending, OnlyAnswers, ProcessInv, HolderInv
<1>5. MessageInv'
  BY <1>i, <1>l, <1>u DEF MessageInv, Coding, StrayInv, Quiet, ResultIsOwn, Outstanding, OnlyAnswers, RestInv,
     ProcessInv, CodeInv, Callbacks
<1>6. CodeInv'
  BY <1>i, <1>l, <1>u DEF CodeInv, Coding, StrayInv, Quiet, Outstanding, Ending, OnlyAnswers, IsCallback, CallbackComes,
     CallbackIsHere, AnswerComes, RestInv, Callbacks
<1>7. JobsInv'
  BY <1>i, <1>l, <1>u DEF JobsInv, Asking
<1>8. StrayInv'
  BY <1>i, <1>l, <1>u
  DEF StrayInv, Quiet, Outstanding, Ending, OnlyAnswers, Callbacks, Coding, RestInv, CodeInv
<1>9. QED
  BY <1>1, <1>2, <1>3, <1>4, <1>5, <1>6, <1>7, <1>8 DEF BoardInv

(* The code calls back.                                                    *)
LEMMA CallbackStep ==
  ASSUME BoardInv, NEW t \in Callbacks, CallsBack(t)
  PROVE  BoardInv'
<1>i. BoardTypes /\ HolderInv /\ ProcessInv /\ RestInv /\ MessageInv /\ CodeInv /\ StrayInv /\ JobsInv
  BY DEF BoardInv
<1>l. /\ Len(toPy) \in Nat /\ DOMAIN toPy = 1 .. Len(toPy) /\ (Len(toPy) = 0 <=> toPy = <<>>)
      /\ Len(fromPy) \in Nat /\ DOMAIN fromPy = 1 .. Len(fromPy)
      /\ (Len(fromPy) = 0 <=> fromPy = <<>>)
  BY <1>i, PipeFacts
<1>u. /\ py = "exec" /\ py' = "calling" /\ asked' = asked + 1
      /\ fromPy' \in Seq(FromLines) /\ Len(fromPy') = Len(fromPy) + 1 /\ DOMAIN fromPy' = 1 .. Len(fromPy) + 1
      /\ \A i \in 1 .. Len(fromPy) : fromPy'[i] = fromPy[i]
      /\ fromPy'[Len(fromPy) + 1].type = t /\ fromPy'[Len(fromPy) + 1].of = asked + 1
      /\ UNCHANGED <<holder, kind, goAt, message, dying, started, closed, boardCalls, running,
                     alarm, stray, writer, bb, toPy, jobs>>
  <2>1. fromPy' = Append(fromPy, Msg(t, asked + 1))
    BY DEF CallsBack, Prints
  <2>a. asked + 1 \in Nat
    BY <1>i DEF BoardTypes
  <2>2. Msg(t, asked + 1) \in FromLines /\ Msg(t, asked + 1).type = t /\ Msg(t, asked + 1).of = asked + 1
    BY <2>a, LineTypes DEF Callbacks
  <2>3. /\ fromPy' \in Seq(FromLines) /\ Len(fromPy') = Len(fromPy) + 1 /\ DOMAIN fromPy' = 1 .. Len(fromPy) + 1
        /\ \A i \in 1 .. Len(fromPy) : fromPy'[i] = fromPy[i]
        /\ fromPy'[Len(fromPy) + 1].type = t /\ fromPy'[Len(fromPy) + 1].of = asked + 1
        /\ fromPy'[Len(fromPy) + 1] = Msg(t, asked + 1)
    BY <1>i, <2>1, <2>2, AppendFacts DEF BoardTypes
  <2>4. QED
    BY <1>i, <2>1, <2>3 DEF CallsBack, Prints, goVars, BoardTypes
<1>1. BoardTypes'
  BY <1>i, <1>l, <1>u DEF BoardTypes, Phases, Coding
<1>2. HolderInv'
  BY <1>i, <1>l, <1>u DEF HolderInv, Quiet, Outstanding, Ending, Phases
<1>3. ProcessInv'
  BY <1>i, <1>l, <1>u DEF ProcessInv, Coding, Quiet, Outstanding, Phases, HolderInv
<1>4. RestInv'
  BY <1>i, <1>l, <1>u DEF RestInv, Coding, CodeInv, Quiet, Outstanding, Ending, OnlyAnswers, ProcessInv, HolderInv
<1>5. MessageInv'
  BY <1>i, <1>l, <1>u DEF MessageInv, Coding, StrayInv, Quiet, ResultIsOwn, Outstanding, OnlyAnswers, RestInv,
     ProcessInv, CodeInv, Callbacks
<1>6. CodeInv'
  BY <1>i, <1>l, <1>u DEF CodeInv, Coding, StrayInv, Quiet, Outstanding, Ending, OnlyAnswers, IsCallback, CallbackComes,
     CallbackIsHere, AnswerComes, RestInv, Callbacks
<1>7. JobsInv'
  BY <1>i, <1>l, <1>u DEF JobsInv, Asking
<1>8. StrayInv'
  BY <1>i, <1>l, <1>u
  DEF StrayInv, Quiet, Outstanding, Ending, OnlyAnswers, Callbacks, Coding, RestInv, CodeInv
<1>9. QED
  BY <1>1, <1>2, <1>3, <1>4, <1>5, <1>6, <1>7, <1>8 DEF BoardInv

(* The board reads a debug line, which it skips.                           *)
LEMMA ScanDebug ==
  ASSUME BoardInv, Scans, Head(fromPy).type = "debug"
  PROVE  BoardInv'
<1>i. BoardTypes /\ HolderInv /\ ProcessInv /\ RestInv /\ MessageInv /\ CodeInv /\ StrayInv /\ JobsInv
  BY DEF BoardInv
<1>l. /\ Len(toPy) \in Nat /\ DOMAIN toPy = 1 .. Len(toPy) /\ (Len(toPy) = 0 <=> toPy = <<>>)
      /\ Len(fromPy) \in Nat /\ DOMAIN fromPy = 1 .. Len(fromPy)
      /\ (Len(fromPy) = 0 <=> fromPy = <<>>)
  BY <1>i, PipeFacts
<1>u. /\ goAt = "scan" /\ goAt' = "check" /\ fromPy[1].type = "debug"
      /\ Len(fromPy) > 0 /\ fromPy' \in Seq(FromLines) /\ Len(fromPy') = Len(fromPy) - 1 /\ DOMAIN fromPy' = 1 .. Len(fromPy) - 1
      /\ \A i \in 1 .. Len(fromPy) - 1 : fromPy'[i] = fromPy[i + 1]
      /\ UNCHANGED <<holder, kind, message, dying, started, closed, boardCalls, py, running,
                     alarm, asked, stray, writer, bb, toPy, jobs>>
  <2>1. fromPy # <<>> /\ fromPy' = Tail(fromPy)
    BY DEF Scans
  <2>2. /\ Head(fromPy) = fromPy[1]
        /\ Len(fromPy) > 0 /\ fromPy' \in Seq(FromLines) /\ Len(fromPy') = Len(fromPy) - 1 /\ DOMAIN fromPy' = 1 .. Len(fromPy) - 1
        /\ \A i \in 1 .. Len(fromPy) - 1 : fromPy'[i] = fromPy[i + 1]
    BY <1>i, <1>l, <2>1, QueueFacts DEF BoardTypes
  <2>3. QED
    BY <2>1, <2>2 DEF Scans, pyVars
<1>s. /\ \A i \in DOMAIN fromPy' : /\ i \in Nat /\ i + 1 \in DOMAIN fromPy /\ fromPy'[i] = fromPy[i + 1]
                               /\ (i + 1 = Len(fromPy) => i = Len(fromPy'))
  BY <1>l, <1>u
<1>1. BoardTypes'
  BY <1>i, <1>l, <1>u DEF BoardTypes, Phases, Coding
<1>2. HolderInv'
  BY <1>i, <1>l, <1>u DEF HolderInv, Quiet, Outstanding, Ending, Phases
<1>3. ProcessInv'
  BY <1>i, <1>l, <1>u DEF ProcessInv, Coding, Quiet, Outstanding, Phases, HolderInv
<1>4. RestInv'
  BY <1>i, <1>l, <1>u DEF RestInv, Coding, CodeInv, Quiet, Outstanding, Ending, OnlyAnswers, ProcessInv, HolderInv
<1>5. MessageInv'
  <2>1. ResultIsOwn'
    BY <1>i, <1>u, <1>s DEF MessageInv, ResultIsOwn
  <2>2. OnlyAnswers /\ OnlyAnswers'
    BY <1>i, <1>l, <1>u DEF MessageInv, Outstanding, OnlyAnswers
  <2>3. \A i \in DOMAIN fromPy' : fromPy'[i].type = "result" => i = Len(fromPy')
    BY <1>i, <1>u, <1>s DEF MessageInv, Outstanding
  <2>4. QED
    BY <2>1, <2>2, <2>3 DEF MessageInv, OnlyAnswers
<1>6. CodeInv'
  <2>1. CASE py = "exec"
    <3>1. \A i \in DOMAIN fromPy' : fromPy'[i].type # "result" /\ ~IsCallback(i)'
      BY <1>i, <1>u, <1>s, <2>1 DEF CodeInv, Coding, Outstanding, IsCallback
    <3>2. QED
      BY <3>1, <2>1, <1>i, <1>u DEF CodeInv, Coding, Outstanding, OnlyAnswers
  <2>2. CASE py \in {"calling", "wait"}
    <3>1. CallbackComes /\ Len(fromPy) # 1
      BY <1>i, <1>l, <1>u, <2>2 DEF CodeInv, Coding, Outstanding, CallbackComes, CallbackIsHere, AnswerComes,
         IsCallback, Callbacks
    <3>2. fromPy'[Len(fromPy')] = fromPy[Len(fromPy)] /\ Len(fromPy') > 0
      BY <1>l, <1>u, <3>1
    <3>3. \A i \in DOMAIN fromPy' : fromPy'[i].type \in Callbacks => i = Len(fromPy')
      BY <1>s, <3>1 DEF CallbackComes, IsCallback
    <3>4. CallbackComes'
      BY <1>u, <3>1, <3>2, <3>3 DEF CallbackComes, IsCallback
    <3>5. \A i \in DOMAIN fromPy' : fromPy'[i].type # "result"
      BY <1>i, <1>u, <1>s, <2>2 DEF CodeInv, Coding, Outstanding
    <3>6. QED
      BY <3>4, <3>5, <2>2, <1>i, <1>u DEF CodeInv, Coding, Outstanding, OnlyAnswers
  <2>3. CASE py \notin {"exec", "calling", "wait"}
    BY <2>3, <1>i, <1>u DEF CodeInv, Coding, Outstanding, Ending
  <2>4. QED
    BY <2>1, <2>2, <2>3
<1>7. JobsInv'
  BY <1>i, <1>l, <1>u DEF JobsInv, Asking
<1>8. StrayInv'
  <2>1. stray => \E i \in DOMAIN fromPy' : fromPy'[i].type = "raw"
    <3> SUFFICES ASSUME stray PROVE \E i \in DOMAIN fromPy' : fromPy'[i].type = "raw"
      OBVIOUS
    <3>1. PICK i \in DOMAIN fromPy : fromPy[i].type = "raw"
      BY <1>i, <1>u DEF StrayInv, Outstanding
    <3>2. i - 1 \in 1 .. Len(fromPy) - 1 /\ (i - 1) + 1 = i
      BY <1>l, <1>u, <3>1 DEF Callbacks
    <3>3. i - 1 \in DOMAIN fromPy' /\ fromPy'[i - 1] = fromPy[i]
      BY <1>u, <3>2
    <3>4. QED
      BY <3>1, <3>3
  <2>2. \A i \in DOMAIN fromPy' : fromPy'[i].type = "raw" => stray
    BY <1>i, <1>s DEF StrayInv
  <2>3. QED
    BY <2>1, <2>2, <1>i, <1>u DEF StrayInv, Quiet, Outstanding, Ending, OnlyAnswers
<1>9. QED
  BY <1>1, <1>2, <1>3, <1>4, <1>5, <1>6, <1>7, <1>8 DEF BoardInv

(* The board reads a result: the next message follows, or the call         *)
(* returns.                                                                *)
LEMMA ScanResult ==
  ASSUME BoardInv, Scans, Head(fromPy).type = "result"
  PROVE  BoardInv'
<1>i. BoardTypes /\ HolderInv /\ ProcessInv /\ RestInv /\ MessageInv /\ CodeInv /\ StrayInv /\ JobsInv
  BY DEF BoardInv
<1>l. /\ Len(toPy) \in Nat /\ DOMAIN toPy = 1 .. Len(toPy) /\ (Len(toPy) = 0 <=> toPy = <<>>)
      /\ Len(fromPy) \in Nat /\ DOMAIN fromPy = 1 .. Len(fromPy)
      /\ (Len(fromPy) = 0 <=> fromPy = <<>>)
  BY <1>i, PipeFacts
<1>u. /\ goAt = "scan" /\ fromPy[1].type = "result" /\ Len(fromPy) = 1 /\ fromPy' = <<>>
      /\ \/ message = "setup" /\ goAt' = "send" /\ message' \in {"set_var", "exec"} /\ started' /\ started' \in BOOLEAN
         \/ message = "set_var" /\ goAt' = "send" /\ message' = "exec" /\ started' = started
         \/ message = "exec" /\ goAt' = "return" /\ message' = message /\ started' = started
      /\ fromPy' \in Seq(FromLines)
      /\ UNCHANGED <<holder, kind, dying, closed, boardCalls, py, running, alarm, asked, stray, writer,
                     bb, toPy, jobs>>
  <2>1. fromPy # <<>> /\ fromPy' = Tail(fromPy)
    BY DEF Scans
  <2>2. /\ Head(fromPy) = fromPy[1]
        /\ Len(fromPy) > 0 /\ fromPy' \in Seq(FromLines) /\ Len(fromPy') = Len(fromPy) - 1 /\ DOMAIN fromPy' = 1 .. Len(fromPy) - 1
        /\ \A i \in 1 .. Len(fromPy) - 1 : fromPy'[i] = fromPy[i + 1]
    BY <1>i, <1>l, <2>1, QueueFacts DEF BoardTypes
  <2>3. Len(fromPy) = 1
    BY <1>i, <1>l, <2>1, <2>2 DEF MessageInv, Outstanding, Scans
  <2>4. fromPy' = <<>>
    BY <2>2, <2>3, QueueFacts
  <2>5. goAt = "scan" /\ Advances /\ UNCHANGED <<holder, kind, dying, closed, boardCalls,
                                                 pyVars, toPy, jobs>>
    BY DEF Scans
  <2>6. QED
    BY <2>2, <2>3, <2>4, <2>5 DEF Advances, FirstPhase, pyVars
<1>1. BoardTypes'
  BY <1>i, <1>l, <1>u DEF BoardTypes, Phases, Coding
<1>2. HolderInv'
  BY <1>i, <1>l, <1>u DEF HolderInv, Quiet, Outstanding, Ending, Phases
<1>3. ProcessInv'
  BY <1>i, <1>l, <1>u DEF ProcessInv, Coding, Quiet, Outstanding, Phases, HolderInv
<1>4. RestInv'
  <2>1. OnlyAnswers /\ py \notin Coding
    BY <1>i, <1>l, <1>u DEF MessageInv, CodeInv, Outstanding, Ending, Coding
  <2>2. py # "none"
    BY <1>i, <1>u DEF ProcessInv
  <2>3. QED
    BY <2>1, <2>2, <1>i, <1>u DEF RestInv, BoardTypes, Coding, Quiet, Ending, OnlyAnswers
<1>5. MessageInv'
  BY <1>i, <1>l, <1>u DEF MessageInv, Coding, StrayInv, Quiet, ResultIsOwn, Outstanding, OnlyAnswers, RestInv,
     ProcessInv, CodeInv, Callbacks
<1>6. CodeInv'
  <2>1. py \notin Coding
    BY <1>i, <1>l, <1>u DEF CodeInv, Coding, Outstanding, Ending
  <2>2. QED
    BY <2>1, <1>u DEF CodeInv, Coding
<1>7. JobsInv'
  BY <1>i, <1>l, <1>u DEF JobsInv, Asking
<1>8. StrayInv'
  <2>1. ~stray
    <3>1. 1 = Len(fromPy)
      BY <1>i, <1>l, <1>u DEF MessageInv, Outstanding
    <3>2. QED
      BY <1>i, <1>l, <1>u, <3>1 DEF StrayInv, Outstanding
  <2>2. DOMAIN fromPy' = {}
    BY <1>i, <1>l, <1>u DEF MessageInv, Outstanding
  <2>3. QED
    BY <2>1, <2>2, <1>i, <1>l, <1>u DEF StrayInv, Quiet, Outstanding, Ending
<1>9. QED
  BY <1>1, <1>2, <1>3, <1>4, <1>5, <1>6, <1>7, <1>8 DEF BoardInv

(* The board reads a callback, and its prompts are ready to be asked.      *)
LEMMA ScanCallback ==
  ASSUME BoardInv, Scans, Head(fromPy).type \in Callbacks
  PROVE  BoardInv'
<1>i. BoardTypes /\ HolderInv /\ ProcessInv /\ RestInv /\ MessageInv /\ CodeInv /\ StrayInv /\ JobsInv
  BY DEF BoardInv
<1>l. /\ Len(toPy) \in Nat /\ DOMAIN toPy = 1 .. Len(toPy) /\ (Len(toPy) = 0 <=> toPy = <<>>)
      /\ Len(fromPy) \in Nat /\ DOMAIN fromPy = 1 .. Len(fromPy)
      /\ (Len(fromPy) = 0 <=> fromPy = <<>>)
  BY <1>i, PipeFacts
<1>u. /\ goAt = "scan" /\ goAt' = "answer" /\ fromPy[1].type \in Callbacks /\ jobs = NoJobs
      /\ jobs' = jobs \/ jobs' = [p \in Prompts |-> "waiting"]
      /\ Len(fromPy) > 0 /\ fromPy' \in Seq(FromLines) /\ Len(fromPy') = Len(fromPy) - 1 /\ DOMAIN fromPy' = 1 .. Len(fromPy) - 1
      /\ \A i \in 1 .. Len(fromPy) - 1 : fromPy'[i] = fromPy[i + 1]
      /\ jobs' \in [Prompts -> {"none", "waiting", "asking"}]
      /\ UNCHANGED <<holder, kind, message, dying, started, closed, boardCalls, py, running,
                     alarm, asked, stray, writer, bb, toPy>>
  <2>1. fromPy # <<>> /\ fromPy' = Tail(fromPy)
    BY DEF Scans
  <2>2. /\ Head(fromPy) = fromPy[1]
        /\ Len(fromPy) > 0 /\ fromPy' \in Seq(FromLines) /\ Len(fromPy') = Len(fromPy) - 1 /\ DOMAIN fromPy' = 1 .. Len(fromPy) - 1
        /\ \A i \in 1 .. Len(fromPy) - 1 : fromPy'[i] = fromPy[i + 1]
    BY <1>i, <1>l, <2>1, QueueFacts DEF BoardTypes
  <2>3. /\ goAt = "scan" /\ goAt' = "answer" /\ UNCHANGED <<message, started>>
        /\ jobs' = jobs \/ jobs' = [p \in Prompts |-> "waiting"]
        /\ UNCHANGED <<holder, kind, dying, closed, boardCalls, pyVars, toPy>>
    BY DEF Scans, Callbacks
  <2>4. jobs' \in [Prompts -> {"none", "waiting", "asking"}]
    BY <1>i, <2>3 DEF BoardTypes
  <2>5. jobs = NoJobs
    BY <1>i, <2>3 DEF JobsInv
  <2>6. QED
    BY <2>2, <2>3, <2>4, <2>5 DEF pyVars
<1>s. /\ \A i \in DOMAIN fromPy' : /\ i \in Nat /\ i + 1 \in DOMAIN fromPy /\ fromPy'[i] = fromPy[i + 1]
                               /\ (i + 1 = Len(fromPy) => i = Len(fromPy'))
  BY <1>l, <1>u
<1>1. BoardTypes'
  BY <1>i, <1>l, <1>u DEF BoardTypes, Phases, Coding
<1>2. HolderInv'
  BY <1>i, <1>l, <1>u DEF HolderInv, Quiet, Outstanding, Ending, Phases
<1>3. ProcessInv'
  BY <1>i, <1>l, <1>u DEF ProcessInv, Coding, Quiet, Outstanding, Phases, HolderInv
<1>4. RestInv'
  BY <1>i, <1>l, <1>u DEF RestInv, Coding, CodeInv, Quiet, Outstanding, Ending, OnlyAnswers, ProcessInv, HolderInv
<1>5. MessageInv'
  <2>1. ResultIsOwn'
    BY <1>i, <1>u, <1>s DEF MessageInv, ResultIsOwn
  <2>2. OnlyAnswers /\ OnlyAnswers'
    BY <1>i, <1>l, <1>u DEF MessageInv, Outstanding, OnlyAnswers
  <2>3. \A i \in DOMAIN fromPy' : fromPy'[i].type = "result" => i = Len(fromPy')
    BY <1>i, <1>u, <1>s DEF MessageInv, Outstanding
  <2>4. QED
    BY <2>1, <2>2, <2>3 DEF MessageInv, OnlyAnswers
<1>6. CodeInv'
  <2>1. py # "exec"
    BY <1>i, <1>l, <1>u DEF CodeInv, Coding, Outstanding, IsCallback
  <2>2. CASE py \in {"calling", "wait"}
    <3>1. CallbackComes /\ Len(fromPy) = 1
      BY <1>i, <1>l, <1>u, <2>2 DEF CodeInv, Coding, Outstanding, CallbackComes, CallbackIsHere, AnswerComes,
         IsCallback
    <3>2. CallbackIsHere'
      BY <1>u, <3>1 DEF CallbackComes, CallbackIsHere
    <3>3. DOMAIN fromPy' = {}
      BY <1>u, <3>1
    <3>4. QED
      BY <3>2, <3>3, <2>2, <1>i, <1>u DEF CodeInv, Coding, Outstanding, OnlyAnswers
  <2>3. CASE py \notin {"exec", "calling", "wait"}
    BY <2>3, <1>i, <1>u DEF CodeInv, Coding, Outstanding, Ending
  <2>4. QED
    BY <2>1, <2>2, <2>3
<1>7. JobsInv'
  <2>1. jobs' = [p \in Prompts |-> "waiting"] => Asking' = {}
    BY DEF Asking
  <2>2. jobs' = jobs => Asking' = Asking
    BY DEF Asking
  <2>3. QED
    <3>1. Cardinality({}) = 0
      BY FS_EmptySet
    <3>2. 0 <= MaxConcurrent
      BY BoardAssumption
    <3>3. Cardinality(Asking') <= MaxConcurrent
      BY <2>1, <2>2, <3>1, <3>2, <1>i, <1>u DEF JobsInv
    <3>4. QED
      BY <3>3, <1>u DEF JobsInv
<1>8. StrayInv'
  <2>1. stray => \E i \in DOMAIN fromPy' : fromPy'[i].type = "raw"
    <3> SUFFICES ASSUME stray PROVE \E i \in DOMAIN fromPy' : fromPy'[i].type = "raw"
      OBVIOUS
    <3>1. PICK i \in DOMAIN fromPy : fromPy[i].type = "raw"
      BY <1>i, <1>u DEF StrayInv, Outstanding
    <3>2. i - 1 \in 1 .. Len(fromPy) - 1 /\ (i - 1) + 1 = i
      BY <1>l, <1>u, <3>1 DEF Callbacks
    <3>3. i - 1 \in DOMAIN fromPy' /\ fromPy'[i - 1] = fromPy[i]
      BY <1>u, <3>2
    <3>4. QED
      BY <3>1, <3>3
  <2>2. \A i \in DOMAIN fromPy' : fromPy'[i].type = "raw" => stray
    BY <1>i, <1>s DEF StrayInv
  <2>3. QED
    BY <2>1, <2>2, <1>i, <1>u DEF StrayInv, Quiet, Outstanding, Ending, OnlyAnswers
<1>9. QED
  BY <1>1, <1>2, <1>3, <1>4, <1>5, <1>6, <1>7, <1>8 DEF BoardInv

(* The code prints a line that is no message.                              *)
LEMMA StrayStep ==
  ASSUME BoardInv, Strays
  PROVE  BoardInv'
<1>i. BoardTypes /\ HolderInv /\ ProcessInv /\ RestInv /\ MessageInv /\ CodeInv /\ StrayInv /\ JobsInv
  BY DEF BoardInv
<1>l. /\ Len(toPy) \in Nat /\ DOMAIN toPy = 1 .. Len(toPy) /\ (Len(toPy) = 0 <=> toPy = <<>>)
      /\ Len(fromPy) \in Nat /\ DOMAIN fromPy = 1 .. Len(fromPy)
      /\ (Len(fromPy) = 0 <=> fromPy = <<>>)
  BY <1>i, PipeFacts
<1>o. Outstanding /\ Len(toPy) = 0 /\ kind = "execute" /\ py = "exec" /\ ~stray
  BY <1>i DEF Strays, CodeInv, StrayInv, Coding
<1>u. /\ stray' = TRUE
      /\ fromPy' \in Seq(FromLines) /\ Len(fromPy') = Len(fromPy) + 1 /\ DOMAIN fromPy' = 1 .. Len(fromPy) + 1
      /\ \A i \in 1 .. Len(fromPy) : fromPy'[i] = fromPy[i]
      /\ fromPy'[Len(fromPy) + 1].type = "raw"
      /\ UNCHANGED <<holder, kind, goAt, message, dying, started, closed, boardCalls, py, running,
                     alarm, asked, writer, bb, toPy, jobs>>
  <2>1. fromPy' = Append(fromPy, Msg("raw", 0))
    BY DEF Strays, Prints
  <2>2. Msg("raw", 0) \in FromLines /\ Msg("raw", 0).type = "raw"
    BY DEF Msg, FromLines
  <2>3. /\ fromPy' \in Seq(FromLines) /\ Len(fromPy') = Len(fromPy) + 1 /\ DOMAIN fromPy' = 1 .. Len(fromPy) + 1
        /\ \A i \in 1 .. Len(fromPy) : fromPy'[i] = fromPy[i]
        /\ fromPy'[Len(fromPy) + 1].type = "raw"
    BY <1>i, <2>1, <2>2, AppendFacts DEF BoardTypes
  <2>4. QED
    BY <2>3 DEF Strays, goVars
<1>1. BoardTypes'
  BY <1>i, <1>l, <1>o, <1>u DEF BoardTypes, Phases, Coding
<1>2. HolderInv'
  BY <1>i, <1>l, <1>o, <1>u DEF HolderInv, Quiet, Outstanding, Ending, Phases
<1>3. ProcessInv'
  BY <1>i, <1>l, <1>o, <1>u DEF ProcessInv, Coding, Quiet, Outstanding, Phases, HolderInv
<1>4. RestInv'
  BY <1>i, <1>l, <1>o, <1>u DEF RestInv, Coding, CodeInv, StrayInv, Quiet, Outstanding, Ending,
     OnlyAnswers, ProcessInv, HolderInv
<1>5. MessageInv'
  BY <1>i, <1>l, <1>o, <1>u DEF MessageInv, Coding, StrayInv, Quiet, ResultIsOwn, Outstanding, OnlyAnswers,
     RestInv, ProcessInv, CodeInv, Callbacks
<1>6. CodeInv'
  BY <1>i, <1>l, <1>o, <1>u DEF CodeInv, Coding, StrayInv, Quiet, Outstanding, Ending, OnlyAnswers,
     IsCallback, CallbackComes, CallbackIsHere, AnswerComes, RestInv, Callbacks
<1>7. JobsInv'
  BY <1>i, <1>l, <1>o, <1>u DEF JobsInv, Asking
<1>8. StrayInv'
  BY <1>i, <1>l, <1>o, <1>u
  DEF StrayInv, Quiet, Outstanding, Ending, OnlyAnswers, Callbacks, Coding, RestInv, CodeInv
<1>9. QED
  BY <1>1, <1>2, <1>3, <1>4, <1>5, <1>6, <1>7, <1>8 DEF BoardInv

(* The code of a call that is being ended fills its output.                *)
LEMMA ChokeStep ==
  ASSUME BoardInv, Chokes
  PROVE  BoardInv'
<1>i. BoardTypes /\ HolderInv /\ ProcessInv /\ RestInv /\ MessageInv /\ CodeInv /\ StrayInv /\ JobsInv
  BY DEF BoardInv
<1>l. /\ Len(toPy) \in Nat /\ DOMAIN toPy = 1 .. Len(toPy) /\ (Len(toPy) = 0 <=> toPy = <<>>)
      /\ Len(fromPy) \in Nat /\ DOMAIN fromPy = 1 .. Len(fromPy)
      /\ (Len(fromPy) = 0 <=> fromPy = <<>>)
  BY <1>i, PipeFacts
<1>u. /\ py \in {"exec", "calling"} /\ py' = "stuck" /\ Ending /\ ~alarm' /\ alarm' \in BOOLEAN
      /\ UNCHANGED <<holder, kind, goAt, message, dying, started, closed, boardCalls, running,
                     asked, stray, writer, bb, toPy, fromPy, jobs>>
  BY DEF Chokes, goVars, Ending
<1>1. BoardTypes'
  BY <1>i, <1>l, <1>u DEF BoardTypes, Phases, Coding
<1>2. HolderInv'
  BY <1>i, <1>l, <1>u DEF HolderInv, Quiet, Outstanding, Ending, Phases
<1>3. ProcessInv'
  BY <1>i, <1>l, <1>u DEF ProcessInv, Coding, Quiet, Outstanding, Phases, HolderInv
<1>4. RestInv'
  BY <1>i, <1>l, <1>u DEF RestInv, Coding, CodeInv, StrayInv, Quiet, Outstanding, Ending,
     OnlyAnswers, ProcessInv, HolderInv
<1>5. MessageInv'
  BY <1>i, <1>l, <1>u DEF MessageInv, Coding, StrayInv, Quiet, ResultIsOwn, Outstanding, OnlyAnswers,
     RestInv, ProcessInv, CodeInv, Callbacks
<1>6. CodeInv'
  BY <1>i, <1>l, <1>u DEF CodeInv, Coding, StrayInv, Quiet, Outstanding, Ending, OnlyAnswers,
     IsCallback, CallbackComes, CallbackIsHere, AnswerComes, RestInv, Callbacks
<1>7. JobsInv'
  BY <1>i, <1>l, <1>u DEF JobsInv, Asking
<1>8. StrayInv'
  BY <1>i, <1>l, <1>u
  DEF StrayInv, Quiet, Outstanding, Ending, OnlyAnswers, Callbacks, Coding, RestInv, CodeInv
<1>9. QED
  BY <1>1, <1>2, <1>3, <1>4, <1>5, <1>6, <1>7, <1>8 DEF BoardInv

(* The board reads a line that ends the call, with its process or not.     *)
LEMMA BadStep ==
  ASSUME BoardInv, ScansBad
  PROVE  BoardInv'
<1>i. BoardTypes /\ HolderInv /\ ProcessInv /\ RestInv /\ MessageInv /\ CodeInv /\ StrayInv /\ JobsInv
  BY DEF BoardInv
<1>l. /\ Len(toPy) \in Nat /\ DOMAIN toPy = 1 .. Len(toPy) /\ (Len(toPy) = 0 <=> toPy = <<>>)
      /\ Len(fromPy) \in Nat /\ DOMAIN fromPy = 1 .. Len(fromPy)
      /\ (Len(fromPy) = 0 <=> fromPy = <<>>)
  BY <1>i, PipeFacts
<1>u. /\ goAt = "scan" /\ goAt' = "reset"
      /\ fromPy' \in Seq(FromLines) /\ Len(fromPy') = Len(fromPy) - 1 /\ DOMAIN fromPy' = 1 .. Len(fromPy) - 1
      /\ \A i \in 1 .. Len(fromPy) - 1 : fromPy'[i] = fromPy[i + 1]
      /\ Len(fromPy) > 0 /\ (py' = "dead" \/ (py' = py /\ stray))
      /\ UNCHANGED <<holder, kind, message, dying, started, closed, boardCalls, running,
                     alarm, asked, stray, writer, bb, toPy, jobs>>
  <2>1. fromPy # <<>> /\ fromPy' = Tail(fromPy)
    BY DEF ScansBad
  <2>2. /\ Head(fromPy) = fromPy[1] /\ 1 \in DOMAIN fromPy
        /\ Len(fromPy) > 0 /\ fromPy' \in Seq(FromLines) /\ Len(fromPy') = Len(fromPy) - 1 /\ DOMAIN fromPy' = 1 .. Len(fromPy) - 1
        /\ \A i \in 1 .. Len(fromPy) - 1 : fromPy'[i] = fromPy[i + 1]
    BY <1>i, <1>l, <2>1, QueueFacts DEF BoardTypes
  <2>3. py' = "dead" \/ (py' = py /\ stray)
    BY <1>i, <2>2 DEF ScansBad, StrayInv
  <2>4. QED
    BY <2>2, <2>3 DEF ScansBad
<1>s. /\ \A i \in DOMAIN fromPy' : i \in Nat /\ i + 1 \in DOMAIN fromPy /\ fromPy'[i] = fromPy[i + 1]
  BY <1>l, <1>u
(* A process that goes on has read all there was for it, but stale answers.*)
<1>c. (stray => OnlyAnswers) /\ (py \in Coding => Len(toPy) = 0 /\ py # "stuck")
  <2>1. stray => OnlyAnswers
    BY <1>i, <1>u DEF StrayInv, Outstanding
  <2>2. py \in Coding => Len(toPy) = 0 /\ py # "stuck"
    <3>1. py = "stuck" => FALSE
      BY <1>i, <1>u DEF CodeInv, Ending
    <3>2. py = "exec" => Len(toPy) = 0
      BY <1>i, <1>u DEF CodeInv, Outstanding
    <3>3. py \in {"calling", "wait"} => Len(toPy) = 0
      BY <1>i, <1>u DEF CodeInv, Outstanding, CallbackComes, CallbackIsHere, AnswerComes
    <3>4. QED
      BY <3>1, <3>2, <3>3 DEF Coding
  <2>3. QED
    BY <2>1, <2>2
<1>1. BoardTypes'
  BY <1>i, <1>l, <1>u, <1>s, <1>c DEF BoardTypes, Phases, Coding
<1>2. HolderInv'
  BY <1>i, <1>l, <1>u, <1>s, <1>c DEF HolderInv, Quiet, Outstanding, Ending, Phases
<1>3. ProcessInv'
  BY <1>i, <1>l, <1>u, <1>s, <1>c DEF ProcessInv, Coding, Quiet, Outstanding, Phases, HolderInv
<1>4. RestInv'
  BY <1>i, <1>l, <1>u, <1>s, <1>c DEF RestInv, Coding, CodeInv, StrayInv, Quiet, Outstanding, Ending,
     OnlyAnswers, ProcessInv, HolderInv
<1>5. MessageInv'
  BY <1>i, <1>l, <1>u, <1>s, <1>c DEF MessageInv, Coding, StrayInv, Quiet, ResultIsOwn, Outstanding, OnlyAnswers,
     RestInv, ProcessInv, CodeInv, Callbacks
<1>6. CodeInv'
  BY <1>i, <1>l, <1>u, <1>s, <1>c DEF CodeInv, Coding, StrayInv, Quiet, Outstanding, Ending, OnlyAnswers,
     IsCallback, CallbackComes, CallbackIsHere, AnswerComes, RestInv, Callbacks
<1>7. JobsInv'
  BY <1>i, <1>l, <1>u, <1>s, <1>c DEF JobsInv, Asking
<1>8. StrayInv'
  BY <1>i, <1>l, <1>u, <1>s, <1>c
  DEF StrayInv, Quiet, Outstanding, Ending, OnlyAnswers, Callbacks, Coding, RestInv, CodeInv
<1>9. QED
  BY <1>1, <1>2, <1>3, <1>4, <1>5, <1>6, <1>7, <1>8 DEF BoardInv

(* The process reads a message that it carries out at once.                *)
LEMMA ReceiveSetup ==
  ASSUME BoardInv, Receives, Head(toPy).type \in {"setup", "set_var"}
  PROVE  BoardInv'
<1>i. BoardTypes /\ HolderInv /\ ProcessInv /\ RestInv /\ MessageInv /\ CodeInv /\ StrayInv /\ JobsInv
  BY DEF BoardInv
<1>l. /\ Len(toPy) \in Nat /\ DOMAIN toPy = 1 .. Len(toPy) /\ (Len(toPy) = 0 <=> toPy = <<>>)
      /\ Len(fromPy) \in Nat /\ DOMAIN fromPy = 1 .. Len(fromPy)
      /\ (Len(fromPy) = 0 <=> fromPy = <<>>)
  BY <1>i, PipeFacts
<1>u. /\ py = "recv" /\ Outstanding /\ Len(toPy) = 1 /\ Len(toPy') = 0 /\ Len(fromPy) = 0 /\ toPy' \in Seq(ToLines)
      /\ fromPy' \in Seq(FromLines) /\ Len(fromPy') = Len(fromPy) + 1 /\ DOMAIN fromPy' = 1 .. Len(fromPy) + 1
      /\ \A i \in 1 .. Len(fromPy) : fromPy'[i] = fromPy[i]
      /\ fromPy'[Len(fromPy) + 1].type = "result" /\ fromPy'[Len(fromPy) + 1].of = boardCalls
      /\ bb' \in [Agents -> {"none", "dict", "data", "result"}]
      /\ UNCHANGED <<holder, kind, goAt, message, dying, started, closed, boardCalls, py,
                     running, alarm, asked, stray, writer, jobs>>
  <2>1. toPy # <<>> /\ toPy' = Tail(toPy)
    BY DEF Receives
  <2>2. /\ Head(toPy) = toPy[1]
        /\ Len(toPy) > 0 /\ toPy' \in Seq(ToLines) /\ Len(toPy') = Len(toPy) - 1 /\ DOMAIN toPy' = 1 .. Len(toPy) - 1
        /\ \A i \in 1 .. Len(toPy) - 1 : toPy'[i] = toPy[i + 1]
    BY <1>i, <1>l, <2>1, QueueFacts DEF BoardTypes
  <2>3. Outstanding /\ Len(toPy) = 1 /\ toPy[1].type = message /\ toPy[1].of = boardCalls /\ fromPy = <<>>
    <3>1. py = "recv" /\ toPy[1].type \in Phases
      BY <2>2 DEF Receives, Phases
    <3>2. Outstanding
      <4>1. 1 \in DOMAIN toPy /\ toPy[1].type \notin {"callback_result", "shutdown"}
        BY <1>l, <2>2, <3>1 DEF Phases
      <4>2. ~Quiet /\ ~Ending
        BY <1>i, <3>1, <4>1 DEF RestInv, OnlyAnswers
      <4>3. QED
        BY <1>i, <4>2 DEF BoardTypes, Quiet, Outstanding, Ending
    <3>3. QED
      BY <1>i, <1>l, <2>2, <3>1, <3>2 DEF MessageInv, Phases
  <2>4. /\ fromPy' = Append(fromPy, Msg("result", boardCalls))
        /\ UNCHANGED <<py, running, alarm, asked, stray, writer, goVars, jobs>>
        /\ bb' = bb \/ bb' = [a \in Agents |-> IF a = "main" THEN "dict" ELSE "none"]
    BY <2>2, <2>3 DEF Receives, Prints, pyVars
  <2>5. bb' \in [Agents -> {"none", "dict", "data", "result"}]
    BY <1>i, <2>4 DEF BoardTypes
  <2>6. /\ Msg("result", boardCalls) \in FromLines /\ Msg("result", boardCalls).type = "result"
        /\ Msg("result", boardCalls).of = boardCalls
    BY <1>i, LineTypes DEF BoardTypes
  <2>7. /\ fromPy' \in Seq(FromLines) /\ Len(fromPy') = Len(fromPy) + 1 /\ DOMAIN fromPy' = 1 .. Len(fromPy) + 1
        /\ \A i \in 1 .. Len(fromPy) : fromPy'[i] = fromPy[i]
        /\ fromPy'[Len(fromPy) + 1].type = "result" /\ fromPy'[Len(fromPy) + 1].of = boardCalls
    BY <1>i, <2>4, <2>6, AppendFacts DEF BoardTypes
  <2>8. QED
    BY <1>l, <2>2, <2>3, <2>4, <2>5, <2>7 DEF goVars, Receives
<1>1. BoardTypes'
  BY <1>i, <1>l, <1>u DEF BoardTypes, Phases, Coding
<1>2. HolderInv'
  BY <1>i, <1>l, <1>u DEF HolderInv, Quiet, Outstanding, Ending, Phases
<1>3. ProcessInv'
  BY <1>i, <1>l, <1>u DEF ProcessInv, Coding, Quiet, Outstanding, Phases, HolderInv
<1>4. RestInv'
  BY <1>i, <1>l, <1>u DEF RestInv, Coding, CodeInv, Quiet, Outstanding, Ending, OnlyAnswers, ProcessInv, HolderInv
<1>5. MessageInv'
  BY <1>i, <1>l, <1>u DEF MessageInv, Coding, StrayInv, Quiet, ResultIsOwn, Outstanding, OnlyAnswers, RestInv,
     ProcessInv, CodeInv, Callbacks
<1>6. CodeInv'
  BY <1>i, <1>l, <1>u DEF CodeInv, Coding, StrayInv, Quiet, Outstanding, Ending, OnlyAnswers, IsCallback, CallbackComes,
     CallbackIsHere, AnswerComes, RestInv, Callbacks
<1>7. JobsInv'
  BY <1>i, <1>l, <1>u DEF JobsInv, Asking
<1>8. StrayInv'
  BY <1>i, <1>l, <1>u
  DEF StrayInv, Quiet, Outstanding, Ending, OnlyAnswers, Callbacks, Coding, RestInv, CodeInv
<1>9. QED
  BY <1>1, <1>2, <1>3, <1>4, <1>5, <1>6, <1>7, <1>8 DEF BoardInv

(* The process reads the code of a call.                                   *)
LEMMA ReceiveCode ==
  ASSUME BoardInv, Receives, Head(toPy).type = "exec"
  PROVE  BoardInv'
<1>i. BoardTypes /\ HolderInv /\ ProcessInv /\ RestInv /\ MessageInv /\ CodeInv /\ StrayInv /\ JobsInv
  BY DEF BoardInv
<1>l. /\ Len(toPy) \in Nat /\ DOMAIN toPy = 1 .. Len(toPy) /\ (Len(toPy) = 0 <=> toPy = <<>>)
      /\ Len(fromPy) \in Nat /\ DOMAIN fromPy = 1 .. Len(fromPy)
      /\ (Len(fromPy) = 0 <=> fromPy = <<>>)
  BY <1>i, PipeFacts
<1>u. /\ py = "recv" /\ Outstanding /\ Len(toPy) = 1 /\ Len(toPy') = 0 /\ Len(fromPy) = 0 /\ toPy' \in Seq(ToLines)
      /\ goAt \in {"check", "scan"} /\ message = "exec" /\ py' = "exec" /\ running' = boardCalls /\ alarm' \in BOOLEAN /\ asked' = 0
      /\ writer' \in Agents \cup {"None"} /\ (kind = "execute" => writer' = holder)
      /\ fromPy' \in Seq(FromLines) /\ Len(fromPy') = Len(fromPy) + 1 /\ DOMAIN fromPy' = 1 .. Len(fromPy) + 1
      /\ \A i \in 1 .. Len(fromPy) : fromPy'[i] = fromPy[i]
      /\ fromPy'[Len(fromPy) + 1].type = "debug" /\ fromPy'[Len(fromPy) + 1].of = boardCalls
      /\ UNCHANGED <<holder, kind, goAt, message, dying, started, closed, boardCalls, stray, bb,
                     jobs>>
      /\ ~stray
  <2>1. toPy # <<>> /\ toPy' = Tail(toPy)
    BY DEF Receives
  <2>2. /\ Head(toPy) = toPy[1]
        /\ Len(toPy) > 0 /\ toPy' \in Seq(ToLines) /\ Len(toPy') = Len(toPy) - 1 /\ DOMAIN toPy' = 1 .. Len(toPy) - 1
        /\ \A i \in 1 .. Len(toPy) - 1 : toPy'[i] = toPy[i + 1]
    BY <1>i, <1>l, <2>1, QueueFacts DEF BoardTypes
  <2>3. Outstanding /\ Len(toPy) = 1 /\ toPy[1].type = message /\ toPy[1].of = boardCalls /\ fromPy = <<>>
    <3>1. py = "recv" /\ toPy[1].type \in Phases
      BY <2>2 DEF Receives, Phases
    <3>2. Outstanding
      <4>1. 1 \in DOMAIN toPy /\ toPy[1].type \notin {"callback_result", "shutdown"}
        BY <1>l, <2>2, <3>1 DEF Phases
      <4>2. ~Quiet /\ ~Ending
        BY <1>i, <3>1, <4>1 DEF RestInv, OnlyAnswers
      <4>3. QED
        BY <1>i, <4>2 DEF BoardTypes, Quiet, Outstanding, Ending
    <3>3. QED
      BY <1>i, <1>l, <2>2, <3>1, <3>2 DEF MessageInv, Phases
  <2>4. /\ fromPy' = Append(fromPy, Msg("debug", boardCalls)) /\ py = "recv" /\ py' = "exec"
        /\ running' = boardCalls /\ alarm' = TRUE /\ asked' = 0 /\ writer' = Armed
        /\ UNCHANGED <<stray, bb, goVars, jobs>>
    BY <2>2, <2>3 DEF Receives, Prints
  <2>5. writer' \in Agents \cup {"None"} /\ (kind = "execute" => writer' = holder)
    BY <1>i, <2>3, <2>4 DEF BoardTypes, Armed, HolderInv, Outstanding, Ending
  <2>6. /\ Msg("debug", boardCalls) \in FromLines /\ Msg("debug", boardCalls).type = "debug"
        /\ Msg("debug", boardCalls).of = boardCalls
    BY <1>i, LineTypes DEF BoardTypes
  <2>7. /\ fromPy' \in Seq(FromLines) /\ Len(fromPy') = Len(fromPy) + 1 /\ DOMAIN fromPy' = 1 .. Len(fromPy) + 1
        /\ \A i \in 1 .. Len(fromPy) : fromPy'[i] = fromPy[i]
        /\ fromPy'[Len(fromPy) + 1].type = "debug" /\ fromPy'[Len(fromPy) + 1].of = boardCalls
    BY <1>i, <2>4, <2>6, AppendFacts DEF BoardTypes
  <2>8. goAt \in {"check", "scan"}
    BY <1>i, <1>l, <2>2, <2>3 DEF MessageInv
  <2>9. ~stray
    BY <1>i, <1>l, <2>3 DEF StrayInv
  <2>10. QED
    BY <1>l, <2>2, <2>3, <2>4, <2>5, <2>7, <2>8, <2>9 DEF goVars
<1>1. BoardTypes'
  BY <1>i, <1>l, <1>u DEF BoardTypes, Phases, Coding
<1>2. HolderInv'
  BY <1>i, <1>l, <1>u DEF HolderInv, Quiet, Outstanding, Ending, Phases
<1>3. ProcessInv'
  BY <1>i, <1>l, <1>u DEF ProcessInv, Coding, Quiet, Outstanding, Phases, HolderInv
<1>4. RestInv'
  BY <1>i, <1>l, <1>u DEF RestInv, Coding, CodeInv, Quiet, Outstanding, Ending, OnlyAnswers, ProcessInv, HolderInv
<1>5. MessageInv'
  BY <1>i, <1>l, <1>u DEF MessageInv, Coding, StrayInv, Quiet, ResultIsOwn, Outstanding, OnlyAnswers, RestInv,
     ProcessInv, CodeInv, Callbacks
<1>6. CodeInv'
  BY <1>i, <1>l, <1>u DEF CodeInv, Coding, StrayInv, Quiet, Outstanding, Ending, OnlyAnswers, IsCallback, CallbackComes,
     CallbackIsHere, AnswerComes, RestInv, Callbacks
<1>7. JobsInv'
  BY <1>i, <1>l, <1>u DEF JobsInv, Asking
<1>8. StrayInv'
  BY <1>i, <1>l, <1>u
  DEF StrayInv, Quiet, Outstanding, Ending, OnlyAnswers, Callbacks, Coding, RestInv, CodeInv
<1>9. QED
  BY <1>1, <1>2, <1>3, <1>4, <1>5, <1>6, <1>7, <1>8 DEF BoardInv

(* The process reads an answer nobody waits for.                           *)
LEMMA ReceiveStale ==
  ASSUME BoardInv, Receives, Head(toPy).type = "callback_result"
  PROVE  BoardInv'
<1>i. BoardTypes /\ HolderInv /\ ProcessInv /\ RestInv /\ MessageInv /\ CodeInv /\ StrayInv /\ JobsInv
  BY DEF BoardInv
<1>l. /\ Len(toPy) \in Nat /\ DOMAIN toPy = 1 .. Len(toPy) /\ (Len(toPy) = 0 <=> toPy = <<>>)
      /\ Len(fromPy) \in Nat /\ DOMAIN fromPy = 1 .. Len(fromPy)
      /\ (Len(fromPy) = 0 <=> fromPy = <<>>)
  BY <1>i, PipeFacts
<1>u. /\ py = "recv" /\ toPy[1].type = "callback_result"
      /\ Len(toPy) > 0 /\ toPy' \in Seq(ToLines) /\ Len(toPy') = Len(toPy) - 1 /\ DOMAIN toPy' = 1 .. Len(toPy) - 1
      /\ \A i \in 1 .. Len(toPy) - 1 : toPy'[i] = toPy[i + 1]
      /\ UNCHANGED <<holder, kind, goAt, message, dying, started, closed, boardCalls, py,
                     running, alarm, asked, stray, writer, bb, fromPy, jobs>>
  <2>1. toPy # <<>> /\ toPy' = Tail(toPy)
    BY DEF Receives
  <2>2. /\ Head(toPy) = toPy[1]
        /\ Len(toPy) > 0 /\ toPy' \in Seq(ToLines) /\ Len(toPy') = Len(toPy) - 1 /\ DOMAIN toPy' = 1 .. Len(toPy) - 1
        /\ \A i \in 1 .. Len(toPy) - 1 : toPy'[i] = toPy[i + 1]
    BY <1>i, <1>l, <2>1, QueueFacts DEF BoardTypes
  <2>3. QED
    BY <2>1, <2>2 DEF Receives, goVars, pyVars
<1>s. /\ \A i \in DOMAIN toPy' : /\ i \in Nat /\ i + 1 \in DOMAIN toPy /\ toPy'[i] = toPy[i + 1]
                               /\ (i + 1 = Len(toPy) => i = Len(toPy'))
  BY <1>l, <1>u
<1>1. BoardTypes'
  BY <1>i, <1>l, <1>u DEF BoardTypes, Phases, Coding
<1>2. HolderInv'
  BY <1>i, <1>l, <1>u DEF HolderInv, Quiet, Outstanding, Ending, Phases
<1>3. ProcessInv'
  BY <1>i, <1>l, <1>u DEF ProcessInv, Coding, Quiet, Outstanding, Phases, HolderInv
<1>4. RestInv'
  <2>1. OnlyAnswers => OnlyAnswers'
    BY <1>s DEF OnlyAnswers
  <2>2. Ending => \A i \in DOMAIN toPy' : toPy'[i].type \in {"callback_result", "shutdown"}
    BY <1>i, <1>u, <1>s DEF RestInv
  <2>3. QED
    BY <2>1, <2>2, <1>i, <1>u DEF RestInv, Coding, CodeInv, Quiet, Ending
<1>5. MessageInv'
  <2>1. ResultIsOwn'
    BY <1>i, <1>u DEF MessageInv, ResultIsOwn
  <2>2. OnlyAnswers => OnlyAnswers'
    BY <1>s DEF OnlyAnswers
  <2>3. ASSUME Outstanding, NEW i \in DOMAIN toPy', toPy'[i].type # "callback_result"
        PROVE  /\ i = Len(toPy') /\ toPy'[i].type = message /\ toPy'[i].of = boardCalls
               /\ py' \in {"recv", "dead"} /\ fromPy = <<>> /\ goAt \in {"check", "scan"}
    BY <2>3, <1>i, <1>u, <1>s DEF MessageInv
  <2>4. QED
    BY <2>1, <2>2, <2>3, <1>i, <1>u DEF MessageInv, Outstanding
<1>6. CodeInv'
  BY <1>i, <1>l, <1>u DEF CodeInv, Coding, StrayInv, Quiet, Outstanding, Ending, OnlyAnswers, IsCallback, CallbackComes,
     CallbackIsHere, AnswerComes, RestInv, Callbacks
<1>7. JobsInv'
  BY <1>i, <1>l, <1>u DEF JobsInv, Asking
<1>8. StrayInv'
  <2>1. OnlyAnswers => OnlyAnswers'
    BY <1>s DEF OnlyAnswers
  <2>2. QED
    BY <2>1, <1>i, <1>u DEF StrayInv, Quiet, Outstanding, Ending, Coding
<1>9. QED
  BY <1>1, <1>2, <1>3, <1>4, <1>5, <1>6, <1>7, <1>8 DEF BoardInv

(* The process reads the request to stop.                                  *)
LEMMA ReceiveShutdown ==
  ASSUME BoardInv, Receives, Head(toPy).type = "shutdown"
  PROVE  BoardInv'
<1>i. BoardTypes /\ HolderInv /\ ProcessInv /\ RestInv /\ MessageInv /\ CodeInv /\ StrayInv /\ JobsInv
  BY DEF BoardInv
<1>l. /\ Len(toPy) \in Nat /\ DOMAIN toPy = 1 .. Len(toPy) /\ (Len(toPy) = 0 <=> toPy = <<>>)
      /\ Len(fromPy) \in Nat /\ DOMAIN fromPy = 1 .. Len(fromPy)
      /\ (Len(fromPy) = 0 <=> fromPy = <<>>)
  BY <1>i, PipeFacts
<1>u. /\ py = "recv" /\ py' = "dead" /\ Ending /\ toPy[1].type = "shutdown"
      /\ Len(toPy) > 0 /\ toPy' \in Seq(ToLines) /\ Len(toPy') = Len(toPy) - 1 /\ DOMAIN toPy' = 1 .. Len(toPy) - 1
      /\ \A i \in 1 .. Len(toPy) - 1 : toPy'[i] = toPy[i + 1]
      /\ UNCHANGED <<holder, kind, goAt, message, dying, started, closed, boardCalls, running,
                     alarm, asked, stray, writer, bb, fromPy, jobs>>
  <2>1. toPy # <<>> /\ toPy' = Tail(toPy)
    BY DEF Receives
  <2>2. /\ Head(toPy) = toPy[1]
        /\ Len(toPy) > 0 /\ toPy' \in Seq(ToLines) /\ Len(toPy') = Len(toPy) - 1 /\ DOMAIN toPy' = 1 .. Len(toPy) - 1
        /\ \A i \in 1 .. Len(toPy) - 1 : toPy'[i] = toPy[i + 1]
    BY <1>i, <1>l, <2>1, QueueFacts DEF BoardTypes
  <2>3. py = "recv" /\ py' = "dead" /\ UNCHANGED <<running, alarm, asked, stray, writer, bb, fromPy,
                                                   goVars, jobs>>
    BY <2>2 DEF Receives
  <2>4. Ending
    <3>1. toPy[1].type \notin Phases \cup {"callback_result"} /\ 1 \in DOMAIN toPy
      BY <1>l, <2>2 DEF Phases
    <3>2. ~Quiet
      BY <1>i, <3>1 DEF RestInv, OnlyAnswers
    <3>3. ~Outstanding
      BY <1>i, <3>1 DEF MessageInv, HolderInv, Outstanding, Phases
    <3>4. QED
      BY <1>i, <3>2, <3>3 DEF BoardTypes, Quiet, Outstanding, Ending
  <2>5. QED
    BY <2>2, <2>3, <2>4 DEF goVars
<1>s. /\ \A i \in DOMAIN toPy' : /\ i \in Nat /\ i + 1 \in DOMAIN toPy /\ toPy'[i] = toPy[i + 1]
                               /\ (i + 1 = Len(toPy) => i = Len(toPy'))
  BY <1>l, <1>u
<1>1. BoardTypes'
  BY <1>i, <1>l, <1>u DEF BoardTypes, Phases, Coding
<1>2. HolderInv'
  BY <1>i, <1>l, <1>u DEF HolderInv, Quiet, Outstanding, Ending, Phases
<1>3. ProcessInv'
  BY <1>i, <1>l, <1>u DEF ProcessInv, Coding, Quiet, Outstanding, Phases, HolderInv
<1>4. RestInv'
  BY <1>i, <1>l, <1>u DEF RestInv, Coding, CodeInv, Quiet, Outstanding, Ending, OnlyAnswers, ProcessInv, HolderInv
<1>5. MessageInv'
  BY <1>i, <1>l, <1>u DEF MessageInv, Coding, StrayInv, Quiet, ResultIsOwn, Outstanding, OnlyAnswers, RestInv,
     ProcessInv, CodeInv, Callbacks
<1>6. CodeInv'
  BY <1>i, <1>l, <1>u DEF CodeInv, Coding, StrayInv, Quiet, Outstanding, Ending, OnlyAnswers, IsCallback, CallbackComes,
     CallbackIsHere, AnswerComes, RestInv, Callbacks
<1>7. JobsInv'
  BY <1>i, <1>l, <1>u DEF JobsInv, Asking
<1>8. StrayInv'
  BY <1>i, <1>l, <1>u
  DEF StrayInv, Quiet, Outstanding, Ending, OnlyAnswers, Callbacks, Coding, RestInv, CodeInv
<1>9. QED
  BY <1>1, <1>2, <1>3, <1>4, <1>5, <1>6, <1>7, <1>8 DEF BoardInv

(* The answer arrives and the code goes on.                                *)
LEMMA GoOnStep ==
  ASSUME BoardInv, GoesOn
  PROVE  BoardInv'
<1>i. BoardTypes /\ HolderInv /\ ProcessInv /\ RestInv /\ MessageInv /\ CodeInv /\ StrayInv /\ JobsInv
  BY DEF BoardInv
<1>l. /\ Len(toPy) \in Nat /\ DOMAIN toPy = 1 .. Len(toPy) /\ (Len(toPy) = 0 <=> toPy = <<>>)
      /\ Len(fromPy) \in Nat /\ DOMAIN fromPy = 1 .. Len(fromPy)
      /\ (Len(fromPy) = 0 <=> fromPy = <<>>)
  BY <1>i, PipeFacts
<1>u. /\ py = "wait" /\ py' = "exec" /\ alarm' \in BOOLEAN
      /\ (Outstanding \/ Ending) /\ (Outstanding => AnswerComes)
      /\ Len(toPy) > 0 /\ toPy' \in Seq(ToLines) /\ Len(toPy') = Len(toPy) - 1 /\ DOMAIN toPy' = 1 .. Len(toPy) - 1
      /\ \A i \in 1 .. Len(toPy) - 1 : toPy'[i] = toPy[i + 1]
      /\ UNCHANGED <<holder, kind, goAt, message, dying, started, closed, boardCalls, running,
                     asked, stray, writer, bb, fromPy, jobs>>
  <2>1. toPy # <<>> /\ toPy' = Tail(toPy)
    BY DEF GoesOn
  <2>2. /\ Head(toPy) = toPy[1]
        /\ Len(toPy) > 0 /\ toPy' \in Seq(ToLines) /\ Len(toPy') = Len(toPy) - 1 /\ DOMAIN toPy' = 1 .. Len(toPy) - 1
        /\ \A i \in 1 .. Len(toPy) - 1 : toPy'[i] = toPy[i + 1]
    BY <1>i, <1>l, <2>1, QueueFacts DEF BoardTypes
  <2>3. py = "wait" /\ py' = "exec" /\ alarm' = TRUE
        /\ UNCHANGED <<goVars, running, asked, stray, writer, bb, fromPy, jobs>>
    BY DEF GoesOn
  <2>4. (Outstanding \/ Ending) /\ (Outstanding => AnswerComes)
    BY <1>i, <1>l, <2>2, <2>3 DEF CodeInv, Coding, CallbackComes, CallbackIsHere
  <2>5. QED
    BY <2>2, <2>3, <2>4 DEF goVars
<1>s. \A i \in DOMAIN toPy' : i \in Nat /\ i + 1 \in DOMAIN toPy /\ toPy'[i] = toPy[i + 1]
  BY <1>l, <1>u
<1>e. (goAt # "reset") /\ (Ending => \A i \in DOMAIN toPy' : toPy'[i].type = "shutdown")
  BY <1>i, <1>u, <1>s DEF StrayInv, Coding
<1>1. BoardTypes'
  BY <1>i, <1>l, <1>e, <1>u DEF BoardTypes, Phases, Coding
<1>2. HolderInv'
  BY <1>i, <1>l, <1>e, <1>u DEF HolderInv, Quiet, Outstanding, Ending, Phases
<1>3. ProcessInv'
  BY <1>i, <1>l, <1>e, <1>u DEF ProcessInv, Coding, Quiet, Outstanding, Phases, HolderInv
<1>4. RestInv'
  BY <1>i, <1>l, <1>e, <1>u DEF RestInv, Coding, CodeInv, Quiet, Outstanding, Ending, OnlyAnswers, ProcessInv, HolderInv
<1>5. MessageInv'
  <2>1. Outstanding => DOMAIN toPy' = {} /\ goAt \in {"check", "scan"} /\ Len(fromPy) = 0
    BY <1>l, <1>u DEF AnswerComes
  <2>2. QED
    BY <2>1, <1>i, <1>u, <1>l DEF MessageInv, ResultIsOwn, OnlyAnswers, Outstanding
<1>6. CodeInv'
  BY <1>i, <1>l, <1>e, <1>u DEF CodeInv, Coding, StrayInv, Quiet, Outstanding, Ending, OnlyAnswers, IsCallback, CallbackComes,
     CallbackIsHere, AnswerComes, RestInv, Callbacks
<1>7. JobsInv'
  BY <1>i, <1>l, <1>e, <1>u DEF JobsInv, Asking
<1>8. StrayInv'
  <2>1. Outstanding => ~stray
    BY <1>i, <1>l, <1>u DEF StrayInv, AnswerComes
  <2>2. QED
    BY <2>1, <1>i, <1>e, <1>u DEF StrayInv, Quiet, Outstanding, Ending, Coding
<1>9. QED
  BY <1>1, <1>2, <1>3, <1>4, <1>5, <1>6, <1>7, <1>8 DEF BoardInv

(* A prompt of the callback is asked or answered.                          *)
LEMMA JobStep ==
  ASSUME BoardInv, NEW p \in Prompts, Asks(p) \/ AnswerIn(p)
  PROVE  BoardInv'
<1>i. BoardTypes /\ HolderInv /\ ProcessInv /\ RestInv /\ MessageInv /\ CodeInv /\ StrayInv /\ JobsInv
  BY DEF BoardInv
<1>u. UNCHANGED <<holder, kind, goAt, message, dying, started, closed, boardCalls, py, running,
                  alarm, asked, stray, writer, bb, toPy, fromPy>>
  BY DEF Asks, AnswerIn, goVars, pyVars
<1>1. PICK what \in {"none", "asking"} : jobs' = [jobs EXCEPT ![p] = what] /\ jobs[p] # "none"
  BY DEF Asks, AnswerIn
<1>2. BoardTypes'
  BY <1>i, <1>u, <1>1 DEF BoardTypes
<1>3. HolderInv' /\ ProcessInv' /\ RestInv' /\ MessageInv' /\ CodeInv' /\ StrayInv'
  BY <1>i, <1>u DEF HolderInv, ProcessInv, RestInv, MessageInv, CodeInv, StrayInv, ResultIsOwn,
     Quiet, Outstanding, Ending, Coding, OnlyAnswers, IsCallback, CallbackComes, CallbackIsHere, AnswerComes
<1>4. JobsInv'
  <2>1. goAt = "answer"
    BY <1>i, <1>1 DEF JobsInv, NoJobs
  <2>2. Asking \subseteq Prompts /\ IsFiniteSet(Asking) /\ Cardinality(Asking) \in Nat
    BY FS_Subset, FS_CardinalityType, BoardAssumption DEF Asking
  <2>3. CASE Asks(p)
    <3>1. jobs' = [jobs EXCEPT ![p] = "asking"] /\ jobs[p] = "waiting" /\ Cardinality(Asking) < MaxConcurrent
      BY <2>3 DEF Asks, Asking
    <3>2. Asking' = Asking \cup {p} /\ p \notin Asking
      BY <1>i, <3>1 DEF Asking, BoardTypes
    <3>3. Cardinality(Asking') = Cardinality(Asking) + 1
      BY <2>2, <3>2, FS_AddElement
    <3>4. Cardinality(Asking') <= MaxConcurrent
      BY <2>2, <3>1, <3>3, BoardAssumption
    <3>5. QED
      BY <2>1, <3>4, <1>u DEF JobsInv
  <2>4. CASE AnswerIn(p)
    <3>1. Asking' \subseteq Asking
      BY <1>i, <2>4 DEF Asking, AnswerIn, BoardTypes
    <3>2. Cardinality(Asking') <= Cardinality(Asking) /\ Cardinality(Asking') \in Nat
      BY <2>2, <3>1, FS_Subset, FS_CardinalityType
    <3>3. Cardinality(Asking') <= MaxConcurrent
      BY <2>2, <3>2, <1>i, BoardAssumption DEF JobsInv
    <3>4. QED
      BY <2>1, <3>3, <1>u DEF JobsInv
  <2>5. QED
    BY <2>3, <2>4
<1>5. QED
  BY <1>2, <1>3, <1>4 DEF BoardInv

(* Nobody holds the board and no process runs at the start.                *)
LEMMA BoardBegins == BoardInit => BoardInv
<1> SUFFICES ASSUME BoardInit PROVE BoardInv
  OBVIOUS
<1> USE DEF BoardInit
<1>1. BoardTypes
  <2>1. <<>> \in Seq(ToLines) /\ <<>> \in Seq(FromLines)
    OBVIOUS
  <2>2. NoSlots \in [Agents -> {"none", "dict", "data", "result"}]
    BY DEF NoSlots
  <2>3. NoJobs \in [Prompts -> {"none", "waiting", "asking"}]
    BY DEF NoJobs
  <2>4. QED
    BY <2>1, <2>2, <2>3 DEF BoardTypes, Coding
<1>2. HolderInv /\ ProcessInv
  BY DEF HolderInv, ProcessInv, Outstanding, Ending
<1>3. RestInv /\ MessageInv /\ CodeInv /\ StrayInv
  BY DEF RestInv, MessageInv, CodeInv, StrayInv, Coding, ResultIsOwn, Quiet, Outstanding, Ending, OnlyAnswers
<1>4. JobsInv
  <2>1. Asking = {}
    BY DEF Asking, NoJobs
  <2>2. Cardinality({}) = 0 /\ 0 <= MaxConcurrent
    BY FS_EmptySet, BoardAssumption
  <2>3. QED
    BY <2>1, <2>2 DEF JobsInv
<1>5. QED
  BY <1>1, <1>2, <1>3, <1>4 DEF BoardInv

(* A stuttering step.                                                      *)
LEMMA IdleStep == BoardInv /\ UNCHANGED boardVars => BoardInv'
BY DEF BoardInv, BoardTypes, HolderInv, ProcessInv, RestInv, MessageInv, CodeInv, StrayInv,
   JobsInv, ResultIsOwn, Quiet, Outstanding, Ending, Coding, OnlyAnswers, IsCallback,
   CallbackComes, CallbackIsHere, AnswerComes, Asking, boardVars, goVars, pyVars

(* The process reads a line, by its type.                                  *)
LEMMA ReceiveStep == BoardInv /\ Receives => BoardInv'
<1> SUFFICES ASSUME BoardInv, Receives PROVE BoardInv'
  OBVIOUS
<1>1. Head(toPy).type \in {"setup", "set_var", "exec", "callback_result", "shutdown"}
  BY DEF Receives
<1>2. QED
  BY <1>1, ReceiveSetup, ReceiveCode, ReceiveStale, ReceiveShutdown

(* The board reads a line, by its type.                                    *)
LEMMA ScanStep == BoardInv /\ Scans => BoardInv'
<1> SUFFICES ASSUME BoardInv, Scans PROVE BoardInv'
  OBVIOUS
<1>1. Head(fromPy).type \in Callbacks \cup {"debug", "result"}
  BY DEF Scans, Callbacks
<1>2. QED
  BY <1>1, ScanDebug, ScanResult, ScanCallback

(* The three ends of the running code.                                     *)
LEMMA EndsStep == BoardInv /\ (CodeEnds \/ TimesOut \/ RunsDeposit) => BoardInv'
<1> SUFFICES ASSUME BoardInv, CodeEnds \/ TimesOut \/ RunsDeposit PROVE BoardInv'
  OBVIOUS
<1>1. bb \in [Agents -> {"none", "dict", "data", "result"}]
  BY DEF BoardInv, BoardTypes
<1>2. /\ EndsWith /\ py \in {"exec", "calling"} /\ UNCHANGED writer
      /\ bb' = bb \/ bb' = [bb EXCEPT ![holder] = IF @ = "data" THEN @ ELSE "result"]
  BY DEF CodeEnds, TimesOut, RunsDeposit
<1>3. bb' \in [Agents -> {"none", "dict", "data", "result"}]
  BY <1>1, <1>2
<1>4. QED
  BY <1>2, <1>3, CodeEndStep

(* Every step of the board and its process.                                *)
LEMMA BoardStep == BoardInv /\ [BoardNext]_boardVars => BoardInv'
<1> SUFFICES ASSUME BoardInv, [BoardNext]_boardVars PROVE BoardInv'
  OBVIOUS
<1>1. ASSUME NEW a \in Agents, BoardCall(a, "execute") \/ BoardCall(a, "deposit")
      PROVE  BoardInv'
  BY <1>1, CallStep
<1>2. ASSUME NEW a \in Agents, NEW what \in {"dict", "data", "none"}, NEW method \in Methods,
             Puts(a, what, method)
      PROVE  BoardInv'
  BY <1>2, PutStep
<1>3. CASE Cancels \/ Closes
  BY <1>3, CancelStep, CloseStep
<1>4. CASE GoStep
  BY <1>4, StartStep, SendStep, SendFails, CheckStep, ScanStep, BadStep, EndStep, ReturnStep, AnswerStep,
     AnswerFails, ShutdownStep, ShutdownFails, StopStep
  DEF GoStep
<1>5. ASSUME NEW p \in Prompts, Asks(p) \/ AnswerIn(p)
      PROVE  BoardInv'
  BY <1>5, JobStep
<1>6. CASE PyStep
  BY <1>6, ReceiveStep, EndsStep, WaitStep, GoOnStep DEF PyStep
<1>7. CASE CodeEnds \/ TimesOut
  BY <1>7, EndsStep
<1>8. CASE CallsBack("read_file") \/ CallsBack("sub_lm_batch")
  BY <1>8, CallbackStep DEF Callbacks
<1>9. CASE Dies \/ Strays \/ Chokes
  BY <1>9, DieStep, StrayStep, ChokeStep
<1>10. CASE UNCHANGED boardVars
  BY <1>10, IdleStep
<1>11. QED
  BY <1>1, <1>2, <1>3, <1>4, <1>5, <1>6, <1>7, <1>8, <1>9, <1>10 DEF BoardNext

(* What the invariant says of the board.                                   *)
LEMMA BoardInvIsSound == BoardInv => BoardIsSound
<1> SUFFICES ASSUME BoardInv PROVE BoardIsSound
  OBVIOUS
<1>i. BoardTypes /\ HolderInv /\ ProcessInv /\ RestInv /\ MessageInv /\ CodeInv /\ StrayInv /\ JobsInv
  BY DEF BoardInv
<1>1. BoardTypeOK
  <2>1. py \in Coding => holder \in Agents
    BY <1>i DEF BoardTypes, HolderInv, CodeInv, StrayInv, Outstanding, Ending
  <2>2. QED
    BY <2>1, <1>i DEF BoardTypeOK, BoardTypes, HolderInv, ProcessInv, Coding
<1>2. AnswerIsOwn
  <2> SUFFICES ASSUME py = "wait", toPy # <<>>
               PROVE  \/ Head(toPy) = Msg("callback_result", asked)
                      \/ stray /\ goAt = "closing" /\ Head(toPy).type = "shutdown"
    BY DEF AnswerIsOwn
  <2>1. Len(toPy) # 0 /\ Head(toPy) = toPy[1] /\ 1 \in DOMAIN toPy
    BY <1>i, QueueFacts DEF BoardTypes
  <2>2. CASE Outstanding
    <3>1. AnswerComes
      BY <2>1, <2>2, <1>i DEF CodeInv, CallbackComes, CallbackIsHere
    <3>2. QED
      BY <2>1, <3>1 DEF AnswerComes
  <2>3. CASE Ending
    BY <2>1, <2>3, <1>i DEF StrayInv, Coding, Ending
  <2>4. QED
    BY <2>2, <2>3, <1>i DEF CodeInv, Coding
<1>3. QueriesAreBounded
  BY <1>i DEF JobsInv, Asking, QueriesAreBounded
<1>4. NoOrphan
  BY <1>i DEF NoOrphan, HolderInv, ProcessInv
<1>5. GuardIsArmed
  BY <1>i DEF GuardIsArmed, CodeInv, Coding
<1>6. QED
  BY <1>i, <1>1, <1>2, <1>3, <1>4, <1>5 DEF MessageInv, BoardIsSound

(* Agents that share the blackboard (internal/features/blackboard) get     *)
(* their own results and their callbacks their own answers, prompts never  *)
(* exceed their limit, no process is left behind, and the guard of the     *)
(* slots judges code by the agent it runs for, through cancelled calls,    *)
(* lines that are no messages, dead processes and a close, for any number  *)
(* of agents, calls and callbacks.                                         *)
THEOREM BoardStaysSound == BoardSpec => []BoardIsSound
<1>1. BoardInit => BoardInv
  BY BoardBegins
<1>2. BoardInv /\ [BoardNext]_boardVars => BoardInv'
  BY BoardStep
<1>3. QED
  BY <1>1, <1>2, BoardInvIsSound, PTL DEF BoardSpec
=============================================================================
