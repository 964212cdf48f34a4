----------------------------- MODULE ToolBatch -----------------------------
(***************************************************************************)
(* One batch of tool calls (internal/core: the decision phase in loop.go,  *)
(* the hook chains of extension.go, executeSegmented and executeBatched,   *)
(* and the approvals of approval.go).  The loop's goroutine decides the    *)
(* calls in issue order and then runs them segment by segment, a goroutine *)
(* for each call of a read-only segment; beside it run the driver that     *)
(* answers approval requests, any number of times and at any time, and     *)
(* the owner of the turn's context.                                        *)
(***************************************************************************)
EXTENDS Naturals, FiniteSets

CONSTANTS
  N,                \* the calls are 1 .. N, in issue order
  Hooks,            \* how many OnToolCall hooks are registered
  MaxParallel       \* maxParallelReadOnlyTools

ASSUME BatchAssumption ==
  /\ N \in Nat \ {0} /\ Hooks \in Nat /\ MaxParallel \in Nat \ {0}

VARIABLES
  readOnly,         \* ToolPort.ReadOnly, call by call
  skipPermissions,  \* LoopConfig.SkipPermissions
  approverPresent,  \* LoopConfig.ApprovalTimeout > 0
  deciding,   \* the call being decided: 0 is the batch hook, N + 1 none
  hook,       \* how many of its hooks have run
  decision,   \* ToolCallContext.Decision
  hookErr,    \* calls whose hooks failed
  chan,       \* the approval channel of each call
  from, to,   \* the segment being run: calls from .. to - 1
  work,       \* what executeBatched is doing with each call
  ctxDone,    \* the turn's context is done
  answered    \* history: the first answer to each request

decideVars == <<deciding, hook, decision, hookErr>>
config     == <<readOnly, skipPermissions, approverPresent>>
vars == <<config, decideVars, chan, from, to, work, ctxDone, answered>>

Batch == 1 .. N

(* Allow < AskUser < Deny.                                                 *)
Allow     == 0
AskUser   == 1
Deny      == 2
Decisions == {Allow, AskUser, Deny}
Stricter(d, e) == IF d < e THEN e ELSE d

Init ==
  /\ readOnly \in SUBSET Batch
  /\ skipPermissions \in BOOLEAN /\ approverPresent \in BOOLEAN
  /\ deciding = 0 /\ hook = 0
  /\ decision = [i \in Batch |-> Allow] /\ hookErr = {}
  /\ chan = [i \in Batch |-> "nil"]
  /\ from = 1 /\ to = 1
  /\ work = [i \in Batch |-> "none"]
  /\ ctxDone = FALSE
  /\ answered = [i \in Batch |-> "none"]
-----------------------------------------------------------------------------
(* Deciding.  A hook may write any decision; the chain restores the old    *)
(* one if that was stricter.                                               *)

BatchHook ==
  /\ deciding = 0 /\ deciding' = 1
  /\ \E proposed \in [Batch -> Decisions] :
       decision' = [i \in Batch |-> Stricter(decision[i], proposed[i])]
  /\ UNCHANGED <<config, hook, hookErr, chan, from, to, work, ctxDone, answered>>

(* A failing batch hook blocks every call, and no call hook runs.          *)
BatchHookFails ==
  /\ deciding = 0 /\ deciding' = N + 1
  /\ hookErr' = Batch
  /\ UNCHANGED <<config, hook, decision, chan, from, to, work, ctxDone, answered>>

(* Mutant: the chain does not restore the stricter decision.               *)
CallHookTrusted(i) ==
  /\ deciding = i /\ hook < Hooks
  /\ hook' = hook + 1
  /\ \E proposed \in Decisions : decision' = [decision EXCEPT ![i] = proposed]
  /\ UNCHANGED <<config, deciding, hookErr, chan, from, to, work, ctxDone, answered>>

CallHook(i) ==
  /\ deciding = i /\ hook < Hooks
  /\ hook' = hook + 1
  /\ \E proposed \in Decisions :
       decision' = [decision EXCEPT ![i] = Stricter(decision[i], proposed)]
  /\ UNCHANGED <<config, deciding, hookErr, chan, from, to, work, ctxDone, answered>>

CallHookFails(i) ==
  /\ deciding = i /\ hook < Hooks
  /\ hookErr' = hookErr \cup {i}
  /\ deciding' = i + 1 /\ hook' = 0
  /\ UNCHANGED <<config, decision, chan, from, to, work, ctxDone, answered>>

(* All hooks have run: an escalated call is let through unasked, or its    *)
(* request goes out at once, or there is nobody to ask.                    *)
Decided(i) ==
  /\ deciding = i /\ hook = Hooks
  /\ deciding' = i + 1 /\ hook' = 0
  /\ LET asks == decision[i] = AskUser
     IN  /\ decision' = [decision EXCEPT ![i] = IF asks /\ skipPermissions THEN Allow ELSE @]
         /\ chan' = [chan EXCEPT ![i] =
                       IF asks /\ ~skipPermissions /\ approverPresent THEN "open" ELSE @]
  /\ UNCHANGED <<config, hookErr, from, to, work, ctxDone, answered>>
-----------------------------------------------------------------------------
(* Running.  A segment is a maximal run of read-only calls, or one other.  *)

(* Mutant: the segment takes the mutating call behind it along.            *)
SegmentOverrun(i, j) ==
  IF i \notin readOnly THEN j = i + 1
  ELSE (\A k \in i .. j - 2 : k \in readOnly) /\ j \notin readOnly

Segment(i, j) ==
  IF i \notin readOnly THEN j = i + 1
  ELSE (\A k \in i .. j - 1 : k \in readOnly) /\ j \notin readOnly

InFlight == {i \in Batch : work[i] \in {"waiting", "running"}}

OpenSegment ==
  /\ deciding = N + 1 /\ from = to /\ from <= N
  /\ to' \in from + 1 .. N + 1 /\ Segment(from, to')
  /\ work' = [i \in Batch |-> IF i \in from .. to' - 1 THEN "spawned" ELSE work[i]]
  /\ UNCHANGED <<config, decideVars, chan, from, ctxDone, answered>>

(* executeBatched, past the semaphore that bounds a segment of several.    *)
Admit(i) ==
  /\ work[i] = "spawned" /\ Cardinality(InFlight) < MaxParallel

Begin(i, what) ==
  /\ Admit(i)
  /\ work' = [work EXCEPT ![i] = what]
  /\ UNCHANGED <<config, decideVars, chan, from, to, ctxDone, answered>>

Refuse(i) == (i \in hookErr \/ decision[i] = Deny) /\ Begin(i, "refused")
Run(i)    == i \notin hookErr /\ decision[i] = Allow /\ Begin(i, "running")
Await(i)  == i \notin hookErr /\ decision[i] = AskUser /\ Begin(i, "waiting")

(* waitApproval: the answer, the context and the timer race; without an    *)
(* approver the call is denied at once.                                    *)
TakeAnswer(i) ==
  /\ work[i] = "waiting" /\ chan[i] \in {"yes", "no"}
  /\ chan' = [chan EXCEPT ![i] = "taken"]
  /\ work' = [work EXCEPT ![i] = IF chan[i] = "yes" THEN "running" ELSE "refused"]
  /\ UNCHANGED <<config, decideVars, from, to, ctxDone, answered>>

GiveUpWaiting(i) ==
  /\ work[i] = "waiting"
  /\ work' = [work EXCEPT ![i] = "refused"]
  /\ UNCHANGED <<config, decideVars, chan, from, to, ctxDone, answered>>

(* Mutant: no timer.                                                       *)
TimedOutNever(i) == ctxDone /\ GiveUpWaiting(i)

TimedOut(i)     == approverPresent /\ GiveUpWaiting(i)
CanceledWait(i) == approverPresent /\ ctxDone /\ GiveUpWaiting(i)
NobodyToAsk(i)  == chan[i] = "nil" /\ GiveUpWaiting(i)

Executed(i) ==
  /\ work[i] = "running"
  /\ work' = [work EXCEPT ![i] = "ran"]
  /\ UNCHANGED <<config, decideVars, chan, from, to, ctxDone, answered>>

CloseSegment ==
  /\ from < to
  /\ \A i \in from .. to - 1 : work[i] \in {"ran", "refused"}
  /\ from' = to
  /\ UNCHANGED <<config, decideVars, chan, to, work, ctxDone, answered>>
-----------------------------------------------------------------------------
(* The driver: sync.Once admits one answer, the channel has room for it.   *)
Respond(i, answer) ==
  /\ chan[i] = "open"
  /\ chan' = [chan EXCEPT ![i] = answer]
  /\ answered' = [answered EXCEPT ![i] = answer]
  /\ UNCHANGED <<config, decideVars, from, to, work, ctxDone>>

CancelContext ==
  /\ ~ctxDone /\ ctxDone' = TRUE
  /\ UNCHANGED <<config, decideVars, chan, from, to, work, answered>>

Ended == deciding = N + 1 /\ from = N + 1

DecisionStep ==
  \/ BatchHook \/ BatchHookFails
  \/ \E i \in Batch : CallHook(i) \/ CallHookFails(i) \/ Decided(i)

SettleWait(i) == TakeAnswer(i) \/ TimedOut(i) \/ CanceledWait(i) \/ NobodyToAsk(i)

Next ==
  \/ DecisionStep \/ OpenSegment \/ CloseSegment
  \/ \E i \in Batch :
       \/ Refuse(i) \/ Run(i) \/ Await(i) \/ SettleWait(i) \/ Executed(i)
       \/ \E answer \in {"yes", "no"} : Respond(i, answer)
  \/ CancelContext

(* The goroutines are scheduled, timers fire and tools return.  Nobody has *)
(* to answer a request or to cancel the turn.                              *)
Spec ==
  /\ Init /\ [][Next]_vars
  /\ WF_vars(DecisionStep) /\ WF_vars(OpenSegment) /\ WF_vars(CloseSegment)
  /\ \A i \in Batch : WF_vars(Refuse(i) \/ Run(i) \/ Await(i) \/ SettleWait(i) \/ Executed(i))
-----------------------------------------------------------------------------
TypeOK ==
  /\ readOnly \subseteq Batch /\ ctxDone \in BOOLEAN
  /\ skipPermissions \in BOOLEAN /\ approverPresent \in BOOLEAN
  /\ deciding \in 0 .. N + 1 /\ hook \in 0 .. Hooks
  /\ decision \in [Batch -> Decisions] /\ hookErr \subseteq Batch
  /\ chan \in [Batch -> {"nil", "open", "yes", "no", "taken"}]
  /\ answered \in [Batch -> {"none", "yes", "no"}]
  /\ from \in 1 .. N + 1 /\ to \in from .. N + 1
  /\ work \in [Batch -> {"none", "spawned", "waiting", "running", "ran", "refused"}]

(* A call only runs when its hooks allowed it, or escalated it and the     *)
(* first answer to its request was a yes; silence, a late or second yes, a *)
(* cancelled turn and a failed hook never run anything.                    *)
NothingRunsUnasked ==
  \A i \in Batch : work[i] \in {"running", "ran"} =>
    /\ i \notin hookErr
    /\ \/ decision[i] = Allow
       \/ decision[i] = AskUser /\ answered[i] = "yes"

(* No hook lowers a decision another hook has made, of the batch or of the *)
(* call; only skipping permissions does, and never a Deny.                 *)
EscalationSticks ==
  [][\A i \in Batch : decision'[i] < decision[i] =>
       skipPermissions /\ decision[i] = AskUser /\ hook = Hooks]_vars

(* With permissions skipped nobody is asked, and what runs is exactly what *)
(* was not denied.                                                         *)
SkippingAsksNobody ==
  skipPermissions =>
    \A i \in Batch :
      /\ chan[i] = "nil" /\ work[i] # "waiting"
      /\ work[i] \in {"running", "ran"} => i \notin hookErr /\ decision[i] # Deny
      /\ work[i] = "refused" => i \in hookErr \/ decision[i] = Deny

(* The semaphore holds: requests waiting for an answer count as well.      *)
BoundedParallelism == Cardinality(InFlight) <= MaxParallel

(* The batch always comes to its end, with an output for every call: a     *)
(* call nobody answers for holds up the calls behind it, but not for ever. *)
BatchEnds == <>[](Ended /\ \A i \in Batch : work[i] \in {"ran", "refused"})

(* However calls overlap, the tools see the world as if they had been run  *)
(* one after another in issue order.                                       *)
Serial == INSTANCE SerialTools WITH
  inside <- {i \in Batch : work[i] \in {"waiting", "running"}},
  over   <- {i \in Batch : work[i] \in {"ran", "refused"}}

KeepsIssueOrder == Serial!SafeSpec

(* Nothing runs without consent, nobody is asked when permissions are      *)
(* skipped, no more calls are in flight than allowed, and no hook lowers   *)
(* what another one demanded.                                              *)
BatchIsSafe == [](TypeOK /\ NothingRunsUnasked /\ SkippingAsksNobody /\ BoundedParallelism)
               /\ EscalationSticks
=============================================================================
