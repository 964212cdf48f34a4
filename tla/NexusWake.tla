----------------------------- MODULE NexusWake -----------------------------
(***************************************************************************)
(* Errors on nexus channels wake the agent: the trigger                    *)
(* (internal/app/nexus/trigger.go) composed with the turn queue it wakes   *)
(* and is called back by.  tryFire runs in the goroutine of every source   *)
(* that reports an error and of every turn that leaves the queue idle,     *)
(* and drops the trigger's lock around the wake.                           *)
(***************************************************************************)
EXTENDS TurnQueue

CONSTANTS
  Channels,    \* configured input channels, one source each
  MaxErrors    \* bound: error lines per channel

Callers == Channels \cup Requests

ASSUME NexusAssumption ==
  /\ Channels \cap Requests = {} /\ NoTurn \notin Channels
  /\ MaxErrors \in Nat

VARIABLES
  errs,      \* error lines in each channel's ring so far
  cooling,   \* channels notified less than the cooldown ago
  pending,   \* Trigger.pending
  noted,     \* history: the error line that last made a channel pending
  told,      \* history: the last error line an investigation prompt quotes
  at,        \* where a goroutine is between Notify or TurnEnded and its end
  batch,     \* the channels its tryFire has copied
  quoted,    \* the error lines its prompt quotes
  woken      \* the turn its wake has started

triggerVars == <<errs, cooling, pending, noted, told, at, batch, quoted, woken>>
queueVars   == vars
allVars     == <<queueVars, triggerVars>>

NexusInit ==
  /\ Init
  /\ errs = [c \in Channels |-> 0] /\ cooling = {} /\ pending = {}
  /\ noted = [c \in Channels |-> 0] /\ told = [c \in Channels |-> 0]
  /\ at = [a \in Callers |-> "away"]
  /\ batch = [a \in Callers |-> {}]
  /\ quoted = [a \in Callers |-> [c \in Channels |-> 0]]
  /\ woken = [a \in Callers |-> NoTurn]

Proceed(a, here, there) == at[a] = here /\ at' = [at EXCEPT ![a] = there]

NoLines == [c \in Channels |-> 0]

(* tryFire returns, and its local variables are gone.                      *)
Forget(a) ==
  /\ batch' = [batch EXCEPT ![a] = {}]
  /\ quoted' = [quoted EXCEPT ![a] = NoLines]
  /\ woken' = [woken EXCEPT ![a] = NoTurn]
-----------------------------------------------------------------------------
(* Channel.Ingest: the line is in the ring before the trigger hears of it. *)
Ingest(c) ==
  /\ errs[c] < MaxErrors
  /\ Proceed(c, "away", "notify")
  /\ errs' = [errs EXCEPT ![c] = @ + 1]
  /\ UNCHANGED <<queueVars, cooling, pending, noted, told, batch, quoted, woken>>

Suppress(c) ==
  /\ c \in cooling
  /\ Proceed(c, "notify", "away")
  /\ UNCHANGED <<queueVars, errs, cooling, pending, noted, told, batch, quoted, woken>>

Notify(c) ==
  /\ c \notin cooling
  /\ Proceed(c, "notify", "fire")
  /\ cooling' = cooling \cup {c}
  /\ pending' = pending \cup {c}
  /\ noted' = [noted EXCEPT ![c] = errs[c]]
  /\ UNCHANGED <<queueVars, errs, told, batch, quoted, woken>>

CoolDown(c) ==
  /\ c \in cooling /\ cooling' = cooling \ {c}
  /\ UNCHANGED <<queueVars, errs, pending, noted, told, at, batch, quoted, woken>>
-----------------------------------------------------------------------------
(* tryFire: copy the pending channels under the lock ...                   *)
NothingPending(a) ==
  /\ pending = {}
  /\ Proceed(a, "fire", "away")
  /\ UNCHANGED <<queueVars, errs, cooling, pending, noted, told, batch, quoted, woken>>

CopyPending(a) ==
  /\ pending # {}
  /\ Proceed(a, "fire", "prompt")
  /\ batch' = [batch EXCEPT ![a] = pending]
  /\ UNCHANGED <<queueVars, errs, cooling, pending, noted, told, quoted, woken>>

(* ... StartNexusTurn without it: the prompt is built from the rings ...   *)
BuildPrompt(a) ==
  /\ Proceed(a, "prompt", "wake")
  /\ quoted' = [quoted EXCEPT ![a] = errs]
  /\ UNCHANGED <<queueVars, errs, cooling, pending, noted, told, batch, woken>>

(* ... before the queue is asked, which starts the turn or refuses ...     *)
WakeStarts(a, w) ==
  /\ Proceed(a, "wake", "woke")
  /\ Start(w)
  /\ woken' = [woken EXCEPT ![a] = w]
  /\ told' = [c \in Channels |->
                IF c \in batch[a] /\ quoted[a][c] > told[c] THEN quoted[a][c] ELSE told[c]]
  /\ UNCHANGED <<errs, cooling, pending, noted, batch, quoted>>

WakeRefused(a) ==
  /\ closing \/ slot # NoTurn
  /\ Proceed(a, "wake", "away")
  /\ Forget(a)
  /\ UNCHANGED <<queueVars, errs, cooling, pending, noted, told>>

(* ... and, once the turn's goroutine is off, the channels are crossed out *)
CrossOut(a) ==
  /\ Proceed(a, "woke", "away")
  /\ phase[woken[a]] # "claimed"
  /\ pending' = pending \ batch[a]
  /\ Forget(a)
  /\ UNCHANGED <<queueVars, errs, cooling, noted, told>>
-----------------------------------------------------------------------------
(* Mutant: the callback is not wired.                                      *)
QueueIdleUnwired(r) == OnTurnEnd(r) /\ UNCHANGED triggerVars

(* The queue's OnTurnEnd is Trigger.TurnEnded.                             *)
QueueIdle(r) ==
  /\ OnTurnEnd(r)
  /\ Proceed(r, "away", "fire")
  /\ UNCHANGED <<errs, cooling, pending, noted, told, batch, quoted, woken>>

(* Everything else the queue does on its own.  Cancel is left out: to the  *)
(* trigger a cancelled turn is one that ends, which every turn does.       *)
QueueStep ==
  /\ \/ \E r \in Queries : SubmitStarts(r) \/ SubmitQueues(r) \/ SubmitRejected(r)
     \/ \E r \in Requests : RunStep(r)
     \/ Close
  /\ UNCHANGED triggerVars

FireStep(a) ==
  \/ NothingPending(a) \/ CopyPending(a) \/ BuildPrompt(a)
  \/ (\E w \in Wakes : WakeStarts(a, w)) \/ WakeRefused(a) \/ CrossOut(a)

NexusNext ==
  \/ \E c \in Channels : Ingest(c) \/ Suppress(c) \/ Notify(c) \/ CoolDown(c)
  \/ \E a \in Callers : FireStep(a)
  \/ \E r \in Requests : QueueIdle(r)
  \/ QueueStep

(* Goroutines are scheduled and runners return; nothing has to fail.       *)
NexusSpec ==
  /\ NexusInit /\ [][NexusNext]_allVars
  /\ \A c \in Channels : WF_allVars(Suppress(c) \/ Notify(c))
  /\ \A a \in Callers : WF_allVars(FireStep(a))
  /\ \A r \in Requests : WF_allVars(QueueIdle(r))
                         /\ WF_allVars(RunStep(r) /\ UNCHANGED triggerVars)
-----------------------------------------------------------------------------
Stops == {"away", "notify", "fire", "prompt", "wake", "woke"}

NexusTypeOK ==
  /\ errs \in [Channels -> Nat] /\ noted \in [Channels -> Nat] /\ told \in [Channels -> Nat]
  /\ cooling \subseteq Channels /\ pending \subseteq Channels
  /\ at \in [Callers -> Stops]
  /\ batch \in [Callers -> SUBSET Channels]
  /\ quoted \in [Callers -> [Channels -> Nat]]
  /\ woken \in [Callers -> Requests \cup {NoTurn}]

Flushing == \E a \in Callers : at[a] \in {"fire", "prompt", "wake"}

CrossedOutSoon == UNION {batch[a] : a \in {b \in Callers : at[b] = "woke"}}

(* Channels are never left pending with nobody to flush them: but for      *)
(* those a started turn is about to cross out, a pending channel has a     *)
(* turn in the slot or on its way to OnTurnEnd, or a goroutine about to    *)
(* try the wake; so the notify that finds the agent busy and the turn end  *)
(* that races it cannot miss each other.                                   *)
PendingHasAFlusher ==
  \/ pending \subseteq CrossedOutSoon
  \/ slot # NoTurn \/ closing
  \/ \E r \in Requests : phase[r] \in {"idling", "ending"}
  \/ Flushing

(* Bound: there is a wake left to start a turn with.                       *)
WakesSpent == \A w \in Wakes : phase[w] # "new"

(* A channel that is pending is eventually taken up by a turn, or the      *)
(* queue is closed.                                                        *)
PendingIsFlushed ==
  \A c \in Channels : c \in pending ~> c \notin pending \/ closing \/ WakesSpent

(* "wake ... returns false when the agent is busy (channels stay           *)
(* pending)": an error that was noted, because its channel was not cooling *)
(* down, ends up quoted in an investigation.                               *)
NotedIsTold ==
  \A c \in Channels : \A k \in 1 .. MaxErrors :
    noted[c] = k ~> told[c] >= k \/ closing \/ WakesSpent

(* A pending channel always has somebody about to flush it.                *)
WakeIsSound == NexusTypeOK /\ PendingHasAFlusher
=============================================================================
