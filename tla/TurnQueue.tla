----------------------------- MODULE TurnQueue -----------------------------
(***************************************************************************)
(* api/turnqueue: agent turns one at a time, follow-ups in order.  Every   *)
(* critical section of Queue.mu is one step, and so is every event, since  *)
(* events are published with the lock released: between a lock section and *)
(* the events that report it, any other caller may run.                    *)
(*                                                                         *)
(* A request is known by its identity.  Its phase follows the goroutine    *)
(* that carries it: the submitter until the turn's own goroutine starts.   *)
(***************************************************************************)
EXTENDS Naturals, Sequences

CONSTANTS
  Queries,   \* requests that arrive through Submit
  Wakes,     \* requests that arrive through Start
  NoTurn     \* nobody holds the slot

Requests == Queries \cup Wakes

ASSUME TurnQueueAssumption == NoTurn \notin Requests /\ Queries \cap Wakes = {}

VARIABLES
  slot,      \* whose cancel function Queue.cancelFn holds
  queue,     \* Queue.queue
  closing,   \* Queue.closing
  phase,     \* how far each request has come
  canceled,  \* turns whose context has been cancelled by Cancel or Close
  aimed,     \* cancel functions Cancel has read and not yet called
  targeted,  \* history: turns that held the slot when Cancel or Close ran
  onAir      \* the turn a reader of the events believes to be running

vars == <<slot, queue, closing, phase, canceled, aimed, targeted, onAir>>

Phases == {"new", "waiting", "claimed", "running", "answer", "canceled", "error",
           "finishing", "idling", "ending", "ended", "dropped", "rejected"}

(* The turn's goroutine exists, or is about to, and the slot is its own.   *)
Live == {"claimed", "running", "answer", "canceled", "error", "finishing"}
Outcome == {"answer", "canceled", "error"}

Init ==
  /\ slot = NoTurn /\ queue = <<>> /\ closing = FALSE
  /\ phase = [r \in Requests |-> "new"]
  /\ canceled = {} /\ aimed = {} /\ targeted = {}
  /\ onAir = NoTurn

Move(r, from, to) == phase[r] = from /\ phase' = [phase EXCEPT ![r] = to]
-----------------------------------------------------------------------------
(* Submit, the three ways out of its critical section.  The "queued" event *)
(* that follows the second changes nothing and is left out.                *)

SubmitStarts(r) ==
  /\ ~closing /\ slot = NoTurn
  /\ Move(r, "new", "claimed")
  /\ slot' = r
  /\ UNCHANGED <<queue, closing, canceled, aimed, targeted, onAir>>

SubmitQueues(r) ==
  /\ ~closing /\ slot # NoTurn
  /\ Move(r, "new", "waiting")
  /\ queue' = Append(queue, r)
  /\ UNCHANGED <<slot, closing, canceled, aimed, targeted, onAir>>

SubmitRejected(r) ==
  /\ closing
  /\ Move(r, "new", "rejected")
  /\ UNCHANGED <<slot, queue, closing, canceled, aimed, targeted, onAir>>

(* Start never queues: a refused wake may be tried again later.            *)
Start(r) == SubmitStarts(r)

(* runTurn announces the turn and then starts its goroutine.               *)
AnnounceRunning(r) ==
  /\ Move(r, "claimed", "running")
  /\ onAir' = r
  /\ UNCHANGED <<slot, queue, closing, canceled, aimed, targeted>>

(* The runner returns, or panics.  Only a cancelled context makes the      *)
(* outcome "canceled", but a cancelled turn may still answer or fail.      *)
Returns(r) ==
  /\ \/ Move(r, "running", "answer")
     \/ Move(r, "running", "error")
     \/ r \in canceled /\ Move(r, "running", "canceled")
  /\ UNCHANGED <<slot, queue, closing, canceled, aimed, targeted, onAir>>

Report(r) ==
  /\ phase[r] \in Outcome
  /\ onAir' = NoTurn
  /\ phase' = [phase EXCEPT ![r] = "finishing"]
  /\ UNCHANGED <<slot, queue, closing, canceled, aimed, targeted>>

(* Mutants: the slot is released before the next turn claims it; the       *)
(* newest request is taken first; the queue is not looked at.              *)
FinishChainsUnclaimed(r) ==
  /\ phase[r] = "finishing"
  /\ ~closing /\ queue # <<>>
  /\ queue' = Tail(queue)
  /\ slot' = NoTurn
  /\ phase' = [phase EXCEPT ![r] = "ended", ![Head(queue)] = "claimed"]
  /\ UNCHANGED <<closing, canceled, aimed, targeted, onAir>>

FinishChainsLast(r) ==
  /\ phase[r] = "finishing"
  /\ ~closing /\ queue # <<>>
  /\ queue' = SubSeq(queue, 1, Len(queue) - 1)
  /\ slot' = queue[Len(queue)]
  /\ phase' = [phase EXCEPT ![r] = "ended", ![queue[Len(queue)]] = "claimed"]
  /\ UNCHANGED <<closing, canceled, aimed, targeted, onAir>>

(* finishTurn keeps the slot and chains into the next request, or frees it *)
FinishChains(r) ==
  /\ phase[r] = "finishing"
  /\ ~closing /\ queue # <<>>
  /\ queue' = Tail(queue)
  /\ slot' = Head(queue)
  /\ phase' = [phase EXCEPT ![r] = "ended", ![Head(queue)] = "claimed"]
  /\ UNCHANGED <<closing, canceled, aimed, targeted, onAir>>

FinishReleases(r) ==
  /\ closing \/ queue = <<>>
  /\ Move(r, "finishing", "idling")
  /\ slot' = NoTurn
  /\ UNCHANGED <<queue, closing, canceled, aimed, targeted, onAir>>

(* ... and then, unlocked, says so and calls OnTurnEnd.                    *)
AnnounceIdle(r) ==
  /\ Move(r, "idling", "ending")
  /\ UNCHANGED <<slot, queue, closing, canceled, aimed, targeted, onAir>>

OnTurnEnd(r) ==
  /\ Move(r, "ending", "ended")
  /\ UNCHANGED <<slot, queue, closing, canceled, aimed, targeted, onAir>>
-----------------------------------------------------------------------------
(* Cancel reads the cancel function and clears the queue under the lock,   *)
(* and calls the function afterwards.                                      *)

Dropped == [r \in Requests |->
              IF \E i \in DOMAIN queue : queue[i] = r THEN "dropped" ELSE phase[r]]

CancelReads ==
  /\ queue' = <<>>
  /\ phase' = Dropped
  /\ aimed' = aimed \cup ({slot} \ {NoTurn})
  /\ targeted' = targeted \cup ({slot} \ {NoTurn})
  /\ UNCHANGED <<slot, closing, canceled, onAir>>

CancelCalls(r) ==
  /\ r \in aimed
  /\ canceled' = canceled \cup {r}
  /\ aimed' = aimed \ {r}
  /\ UNCHANGED <<slot, queue, closing, phase, targeted, onAir>>

Close ==
  /\ closing' = TRUE
  /\ queue' = <<>>
  /\ phase' = Dropped
  /\ canceled' = canceled \cup ({slot} \ {NoTurn})
  /\ targeted' = targeted \cup ({slot} \ {NoTurn})
  /\ UNCHANGED <<slot, aimed, onAir>>
-----------------------------------------------------------------------------
RunStep(r) ==
  \/ AnnounceRunning(r) \/ Returns(r) \/ Report(r)
  \/ FinishChains(r) \/ FinishReleases(r) \/ AnnounceIdle(r)

TurnStep(r) == RunStep(r) \/ OnTurnEnd(r)

Next ==
  \/ \E r \in Queries : SubmitStarts(r) \/ SubmitQueues(r) \/ SubmitRejected(r)
  \/ \E r \in Wakes : Start(r)
  \/ \E r \in Requests : TurnStep(r) \/ CancelCalls(r)
  \/ CancelReads \/ Close

(* The turn's goroutine is scheduled and the runner returns.  Nobody has   *)
(* to submit, to cancel or to close.                                       *)
Spec == Init /\ [][Next]_vars /\ \A r \in Requests : WF_vars(TurnStep(r))
-----------------------------------------------------------------------------
TypeOK ==
  /\ slot \in Requests \cup {NoTurn}
  /\ queue \in Seq(Requests)
  /\ closing \in BOOLEAN
  /\ phase \in [Requests -> Phases]
  /\ canceled \subseteq Requests
  /\ aimed \subseteq Requests /\ targeted \subseteq Requests
  /\ onAir \in Requests \cup {NoTurn}

(* The onAiry slot and the goroutines agree: the one turn between its claim  *)
(* and the end of its report is the slot's, and there is no other.         *)
OneTurn == {r \in Requests : phase[r] \in Live} = {slot} \ {NoTurn}

(* Requests wait only behind a running turn, each in the queue once, so a  *)
(* free slot never hides a request nobody will start.                      *)
WaitingIsQueued ==
  /\ queue # <<>> => slot # NoTurn
  /\ \A i \in 1 .. Len(queue) : phase[queue[i]] = "waiting"
  /\ \A i, j \in 1 .. Len(queue) : queue[i] = queue[j] => i = j
  /\ \A r \in Requests : phase[r] = "waiting" => \E i \in 1 .. Len(queue) : queue[i] = r

(* Readers of the event stream can pair outcomes with turns, although      *)
(* nothing is published under the lock: a turn reports while it is the one *)
(* last announced as running, and is announced only after the outcome of   *)
(* the turn before it.                                                     *)
OutcomesNest ==
  \A r \in Requests :
    /\ phase[r] \in {"running"} \cup Outcome => onAir = r
    /\ phase[r] = "claimed" => onAir = NoTurn

(* A cancellation reaches the turn that was running when it was asked for, *)
(* never one that took the slot before the cancel function was called.     *)
CancelHitsItsTurn == canceled \subseteq targeted

(* Every request that was accepted is run to its end or dropped.           *)
AcceptedIsServed ==
  \A r \in Requests :
    phase[r] \in {"waiting", "claimed"} ~> phase[r] \in {"ended", "dropped"}

(* The queue implements the line: the slot holder is its head.             *)
InLine == (IF slot = NoTurn THEN <<>> ELSE <<slot>>) \o queue
Served == {r \in Requests : phase[r] \in {"idling", "ending", "ended"}}

Line == INSTANCE TurnLine WITH line <- InLine, served <- Served, shut <- closing

(* Turns are served in the order in which their requests were accepted,    *)
(* and only Cancel and Close take one out of it early.                     *)
ImplementsLine == Line!SafeSpec

(* Somebody stands in line only until the slot holder has finished.        *)
LineMovesOn == Line!MovesOn

(* One turn at a time, nobody forgotten behind it, its outcome told while  *)
(* it is its own, and no cancel that hits another.                         *)
QueueIsSound == TypeOK /\ OneTurn /\ WaitingIsQueued /\ OutcomesNest /\ CancelHitsItsTurn
=============================================================================
