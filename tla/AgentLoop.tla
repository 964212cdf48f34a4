------------------------------ MODULE AgentLoop ------------------------------
(***************************************************************************)
(* One agent's turn loop (internal/core/loop.go), the state machine that   *)
(* reports its progress (fsm.go) and the conversation it feeds             *)
(* (adapters/contextstore).  The goroutine inside RunTurn is a program     *)
(* counter; beside it run the callers of Steer and whoever owns the turn's *)
(* context.                                                                *)
(*                                                                         *)
(* A message is its kind, plus the ids of the tool calls it makes or       *)
(* answers.  A model response is an answer (valid, rejected, or rejected   *)
(* and blank) or a set of tool calls.  The execution of one batch of calls *)
(* is a single step here; ToolBatch opens it up.                           *)
(***************************************************************************)
EXTENDS Naturals, Sequences

CONSTANTS
  CallIds,         \* ids a response may give its tool calls
  KeepRecent,      \* compressor.keepRecent
  SteeringBuffer,  \* steeringBufferSize
  MaxRetries,      \* maxInvalidFinalRetries
  MaxHistory,      \* bound: a history this long is always over the threshold,
                   \*   and no turn is started on it
  MaxSteer         \* bound: steering messages accepted in one behaviour

ASSUME LoopAssumption ==
  /\ KeepRecent \in Nat \ {0}
  /\ SteeringBuffer \in Nat
  /\ MaxRetries \in Nat
  /\ MaxHistory \in Nat
  /\ MaxSteer \in Nat

VARIABLES
  pc,         \* where RunTurn is; "idle" between turns
  fsm,        \* LoopFSM.Current()
  ctx,        \* the turn's context
  resp,       \* the response being processed
  retries,    \* invalidFinalRetries
  loopErr,    \* what broke the loop
  outcome,    \* how the last turn ended
  msgs,       \* Store.msgs
  pending,    \* Store.pending, as ids
  unrecorded, \* ids of calls that ran and are not yet answered in msgs
  steerCh,    \* Loop.steerCh, messages numbered in the order accepted
  drained,    \* what drainSteering has taken and run has not yet appended
  accepted,   \* number of steering messages Steer took
  injected    \* number of steering messages appended to the history

loopVars  == <<pc, fsm, ctx, resp, retries, loopErr, outcome>>
storeVars == <<msgs, pending>>
steerVars == <<steerCh, drained, accepted, injected>>
vars == <<loopVars, storeVars, unrecorded, steerVars>>
-----------------------------------------------------------------------------
(* The conversation.                                                       *)

UserKinds      == {"query", "retry", "steer", "summary"}
AssistantKinds == {"ack", "answer", "calls"}
Kinds          == UserKinds \cup AssistantKinds \cup {"results"}
Message        == [kind : Kinds, calls : SUBSET CallIds]

Says(kind)     == [kind |-> kind, calls |-> {}]
Calls(ids)     == [kind |-> "calls", calls |-> ids]
Results(ids)   == [kind |-> "results", calls |-> ids]

(* Compressor.Compress: summary and acknowledgement, then the recent tail. *)
Compress(h) ==
  IF Len(h) <= KeepRecent THEN h
  ELSE <<Says("summary"), Says("ack")>>
         \o SubSeq(h, Len(h) - KeepRecent + 1, Len(h))

(* Store.maybeCompress after an assistant message: the size estimate, and  *)
(* whether the summarizer answers, are the environment's choice until the  *)
(* history is MaxHistory long.  After any other message it does nothing.   *)
Compacted(h) ==
  IF Len(h) >= MaxHistory THEN {Compress(h)} ELSE {h, Compress(h)}

AppendUser(kind) ==
  /\ msgs' = Append(msgs, Says(kind))
  /\ UNCHANGED pending
-----------------------------------------------------------------------------
(* The state machine of fsm.go: event |-> sources, event |-> destination.  *)

LoopStates == {"started", "stopped", "reasoning_started", "reasoning_finished",
               "tool_execution_started", "tool_execution_finished"}

Source == [start_reasoning       |-> {"started", "tool_execution_finished"},
           finish_reasoning      |-> {"reasoning_started"},
           start_tool_execution  |-> {"reasoning_finished"},
           finish_tool_execution |-> {"tool_execution_started"},
           stop                  |-> {"reasoning_finished"},
           reset                 |-> LoopStates]

Target == [start_reasoning       |-> "reasoning_started",
           finish_reasoning      |-> "reasoning_finished",
           start_tool_execution  |-> "tool_execution_started",
           finish_tool_execution |-> "tool_execution_finished",
           stop                  |-> "stopped",
           reset                 |-> "started"]

Fire(event) == fsm \in Source[event] /\ fsm' = Target[event]

(* What the harness calls idle: the two resting states of the machine.     *)
IdleReport == fsm \in {"started", "stopped"}
-----------------------------------------------------------------------------
Answers   == {"answer", "rejected", "blank"}
Responses == [answer : Answers, calls : {{}}]
               \cup [answer : {"answer"}, calls : SUBSET CallIds \ {{}}]
NoResponse == [answer |-> "blank", calls |-> {}]

Contexts == {"live", "canceled", "deadline"}
Outcomes == {"none", "answered", "terminated", "canceled", "failed"}
PCs == {"idle", "appended", "head", "hooks", "asking", "final", "calls",
        "batch", "feed", "pair", "drain", "inject", "after", "unwind"}

Init ==
  /\ pc = "idle" /\ fsm = "started" /\ ctx = "live"
  /\ resp = NoResponse /\ retries = 0
  /\ loopErr = "none" /\ outcome = "none"
  /\ msgs = <<>> /\ pending = {} /\ unrecorded = {}
  /\ steerCh = <<>> /\ drained = <<>> /\ accepted = 0 /\ injected = 0

Goto(from, to) == pc = from /\ pc' = to

(* errors.Is(loopErr, context.Canceled) separates a call-off from a fault. *)
CtxErr == IF ctx = "canceled" THEN "canceled" ELSE "failed"

Interrupted == ctx # "live"

Break(from, err) == Goto(from, "unwind") /\ loopErr' = err
-----------------------------------------------------------------------------
(* RunTurn: the query is in the history before the machine moves.          *)
StartTurn ==
  /\ Len(msgs) < MaxHistory
  /\ Goto("idle", "appended")
  /\ AppendUser("query")
  /\ ctx' = "live" /\ retries' = 0 /\ loopErr' = "none" /\ resp' = NoResponse
  /\ UNCHANGED <<fsm, outcome, unrecorded, steerVars>>

(* TurnStarted and LoopStarted go out, then the machine is reset and the   *)
(* tool surface is snapshotted.                                            *)
BeginLoop ==
  /\ Goto("appended", "head")
  /\ Fire("reset")
  /\ UNCHANGED <<ctx, resp, retries, loopErr, outcome, storeVars, unrecorded, steerVars>>

StartReasoning ==
  /\ ~Interrupted
  /\ Goto("head", "hooks")
  /\ Fire("start_reasoning")
  /\ UNCHANGED <<ctx, resp, retries, loopErr, outcome, storeVars, unrecorded, steerVars>>

HeadInterrupted ==
  /\ Interrupted
  /\ Break("head", CtxErr)
  /\ UNCHANGED <<fsm, ctx, resp, retries, outcome, storeVars, unrecorded, steerVars>>

(* RunBeforeIteration: an extension may fail the turn, or end it without   *)
(* an answer; otherwise the history is read and the model is asked.        *)
HooksPass ==
  /\ Goto("hooks", "asking")
  /\ UNCHANGED <<fsm, ctx, resp, retries, loopErr, outcome, storeVars, unrecorded, steerVars>>

HooksFail ==
  /\ \E err \in {CtxErr, "failed"} : Break("hooks", err)
  /\ UNCHANGED <<fsm, ctx, resp, retries, outcome, storeVars, unrecorded, steerVars>>

HooksTerminate ==
  /\ Goto("hooks", "idle")
  /\ Fire("reset")
  /\ outcome' = "terminated"
  /\ UNCHANGED <<ctx, resp, retries, loopErr, storeVars, unrecorded, steerVars>>

Reply ==
  /\ pc = "asking"
  /\ Fire("finish_reasoning")
  /\ \E r \in Responses :
       /\ resp' = r
       /\ pc' = IF r.calls = {} THEN "final" ELSE "calls"
  /\ UNCHANGED <<ctx, retries, loopErr, outcome, storeVars, unrecorded, steerVars>>

ReasoningError ==
  /\ \E err \in {CtxErr, "failed"} : Break("asking", err)
  /\ UNCHANGED <<fsm, ctx, resp, retries, outcome, storeVars, unrecorded, steerVars>>
-----------------------------------------------------------------------------
(* A response without tool calls.  It is appended whatever it is worth;    *)
(* AppendAssistant also replaces pending by the calls of the new message.  *)

(* Mutant: the retries are not counted.                                    *)
RetryFinalUncounted ==
  /\ Goto("final", "head")
  /\ resp.answer # "answer" /\ retries < MaxRetries
  /\ fsm' = "tool_execution_finished"
  /\ \E h \in Compacted(Append(msgs, Says("answer"))) :
       msgs' = Append(h, Says("retry"))
  /\ pending' = {}
  /\ UNCHANGED <<retries, ctx, resp, loopErr, outcome, unrecorded, steerVars>>

RetryFinal ==
  /\ Goto("final", "head")
  /\ resp.answer # "answer" /\ retries < MaxRetries
  /\ retries' = retries + 1
  /\ fsm \in Source["start_tool_execution"]
  /\ Target["start_tool_execution"] \in Source["finish_tool_execution"]
  /\ fsm' = Target["finish_tool_execution"]
  /\ \E h \in Compacted(Append(msgs, Says("answer"))) :
       msgs' = Append(h, Says("retry"))
  /\ pending' = {}
  /\ UNCHANGED <<ctx, resp, loopErr, outcome, unrecorded, steerVars>>

GiveUp ==
  /\ Break("final", "failed")
  /\ resp.answer = "blank" /\ retries >= MaxRetries
  /\ msgs' \in Compacted(Append(msgs, Says("answer")))
  /\ pending' = {}
  /\ UNCHANGED <<fsm, ctx, resp, retries, outcome, unrecorded, steerVars>>

AcceptFinal ==
  /\ Goto("final", "after")
  /\ resp.answer = "answer" \/ (resp.answer = "rejected" /\ retries >= MaxRetries)
  /\ Fire("stop")
  /\ msgs' \in Compacted(Append(msgs, Says("answer")))
  /\ pending' = {}
  /\ UNCHANGED <<ctx, resp, retries, loopErr, outcome, unrecorded, steerVars>>

(* LoopStopped and TurnCompleted are out; the AfterTurn hooks run.         *)
AfterTurn ==
  /\ Goto("after", "idle")
  /\ outcome' = "answered"
  /\ UNCHANGED <<fsm, ctx, resp, retries, loopErr, storeVars, unrecorded, steerVars>>
-----------------------------------------------------------------------------
(* A response with tool calls.  The context is looked at once more before  *)
(* the batch starts and not again until its results are in the history.    *)

CallsInterrupted ==
  /\ Interrupted
  /\ Break("calls", CtxErr)
  /\ UNCHANGED <<fsm, ctx, resp, retries, outcome, storeVars, unrecorded, steerVars>>

StartBatch ==
  /\ ~Interrupted
  /\ Goto("calls", "batch")
  /\ Fire("start_tool_execution")
  /\ UNCHANGED <<ctx, resp, retries, loopErr, outcome, storeVars, unrecorded, steerVars>>

(* Mutant: a batch that was called off is thrown away.                     *)
FinishBatchInterrupted ==
  /\ Goto("batch", IF Interrupted THEN "unwind" ELSE "feed")
  /\ Fire("finish_tool_execution")
  /\ unrecorded' = unrecorded \cup resp.calls
  /\ loopErr' = IF Interrupted THEN CtxErr ELSE loopErr
  /\ UNCHANGED <<ctx, resp, retries, outcome, storeVars, steerVars>>

(* executeSegmented and the result hooks: one output for every call.       *)
FinishBatch ==
  /\ Goto("batch", "feed")
  /\ Fire("finish_tool_execution")
  /\ unrecorded' = unrecorded \cup resp.calls
  /\ UNCHANGED <<ctx, resp, retries, loopErr, outcome, storeVars, steerVars>>

FeedAssistant ==
  /\ Goto("feed", "pair")
  /\ msgs' \in Compacted(Append(msgs, Calls(resp.calls)))
  /\ pending' = resp.calls
  /\ UNCHANGED <<fsm, ctx, resp, retries, loopErr, outcome, unrecorded, steerVars>>

(* AppendToolResults: one block for every pending call, none for others.   *)
FeedResults ==
  /\ Goto("pair", "drain")
  /\ msgs' = Append(msgs, Results(pending))
  /\ unrecorded' = unrecorded \ pending
  /\ pending' = {}
  /\ UNCHANGED <<fsm, ctx, resp, retries, loopErr, outcome, steerVars>>

DrainOne ==
  /\ pc = "drain" /\ steerCh # <<>>
  /\ drained' = Append(drained, Head(steerCh))
  /\ steerCh' = Tail(steerCh)
  /\ UNCHANGED <<loopVars, storeVars, unrecorded, accepted, injected>>

DrainDone ==
  /\ Goto("drain", "inject") /\ steerCh = <<>>
  /\ UNCHANGED <<fsm, ctx, resp, retries, loopErr, outcome, storeVars, unrecorded, steerVars>>

Inject ==
  /\ pc = "inject" /\ drained # <<>>
  /\ AppendUser("steer")
  /\ injected' = Head(drained)
  /\ drained' = Tail(drained)
  /\ UNCHANGED <<loopVars, unrecorded, steerCh, accepted>>

NextIteration ==
  /\ Goto("inject", "head") /\ drained = <<>>
  /\ UNCHANGED <<fsm, ctx, resp, retries, loopErr, outcome, storeVars, unrecorded, steerVars>>

(* Mutant: an error leaves the machine where it was.                       *)
UnwindWithoutReset ==
  /\ Goto("unwind", "idle")
  /\ outcome' = loopErr
  /\ UNCHANGED <<fsm, ctx, resp, retries, loopErr, storeVars, unrecorded, steerVars>>

(* Every break lands here: the machine is reset, the error classified.     *)
Unwind ==
  /\ Goto("unwind", "idle")
  /\ Fire("reset")
  /\ outcome' = loopErr
  /\ UNCHANGED <<ctx, resp, retries, loopErr, storeVars, unrecorded, steerVars>>
-----------------------------------------------------------------------------
(* The world outside the goroutine.                                        *)

(* Steer, from any goroutine and at any time; a full buffer refuses it.    *)
Steer ==
  /\ accepted < MaxSteer
  /\ Len(steerCh) < SteeringBuffer
  /\ accepted' = accepted + 1
  /\ steerCh' = Append(steerCh, accepted')
  /\ UNCHANGED <<loopVars, storeVars, unrecorded, drained, injected>>

(* The owner of the turn's context calls it off, or its deadline passes.   *)
Interrupt ==
  /\ pc # "idle" /\ ctx = "live"
  /\ ctx' \in {"canceled", "deadline"}
  /\ UNCHANGED <<pc, fsm, resp, retries, loopErr, outcome, storeVars, unrecorded, steerVars>>

(* What the goroutine does once RunTurn has been called.                   *)
LoopStep ==
  \/ BeginLoop \/ StartReasoning \/ HeadInterrupted
  \/ HooksPass \/ HooksFail \/ HooksTerminate
  \/ Reply \/ ReasoningError
  \/ RetryFinal \/ GiveUp \/ AcceptFinal \/ AfterTurn
  \/ CallsInterrupted \/ StartBatch \/ FinishBatch
  \/ FeedAssistant \/ FeedResults
  \/ DrainOne \/ DrainDone \/ Inject \/ NextIteration
  \/ Unwind

Next == StartTurn \/ LoopStep \/ Steer \/ Interrupt

(* The goroutine is scheduled, the model and the tools return; without an  *)
(* HTTP timeout a silent server does so only when the turn is called off   *)
(* (EveryCallReturns).  Nobody is obliged to start a turn, to steer it or  *)
(* to call it off.                                                         *)
Spec == Init /\ [][Next]_vars /\ WF_vars(LoopStep)
-----------------------------------------------------------------------------
TypeOK ==
  /\ pc \in PCs /\ fsm \in LoopStates /\ ctx \in Contexts
  /\ resp \in Responses \cup {NoResponse} /\ retries \in 0..MaxRetries
  /\ loopErr \in Outcomes /\ outcome \in Outcomes
  /\ msgs \in Seq(Message)
  /\ pending \subseteq CallIds /\ unrecorded \subseteq CallIds
  /\ steerCh \in Seq(Nat) /\ drained \in Seq(Nat)
  /\ Len(steerCh) <= SteeringBuffer
  /\ accepted \in Nat /\ injected \in Nat

(* No transition the loop attempts is ever refused by the state machine,   *)
(* whatever turn came before and however it ended; a refused one would end *)
(* the turn, and a refused reset would wedge the loop for good.            *)
MachineInStep ==
  /\ pc = "head"  => fsm \in Source["start_reasoning"]
  /\ pc \in {"hooks", "asking"} => fsm \in Source["finish_reasoning"]
  /\ pc \in {"final", "calls"} =>
       fsm \in Source["start_tool_execution"] \cap Source["stop"]
  /\ pc = "batch" => fsm \in Source["finish_tool_execution"]
  /\ pc \in {"feed", "pair", "drain", "inject"} => fsm = "tool_execution_finished"
  /\ pc = "after" => fsm = "stopped"
  /\ pc = "idle"  => IdleReport

Answered(h) ==
  \A i \in 1 .. Len(h) - 1 :
    h[i].kind = "calls" => h[i + 1] = Results(h[i].calls)

(* Every tool_use message in the history is answered, call for call, by    *)
(* the very next message, across errors, cancellation, steering and        *)
(* compaction; only between the two appends may the last one be open, and  *)
(* then the store still holds its calls as pending.                        *)
ToolUseAnswered ==
  /\ Answered(msgs)
  /\ msgs # <<>> /\ msgs[Len(msgs)].kind = "calls" =>
       pc = "pair" /\ pending = msgs[Len(msgs)].calls

(* The model is only ever asked when it is its turn to speak: the history  *)
(* ends with something the user or a tool said.                            *)
AskedOnUsersTurn ==
  pc \in {"head", "hooks", "asking"} =>
    msgs # <<>> /\ msgs[Len(msgs)].kind \in UserKinds \cup {"results"}

(* What a tool did is never forgotten: when the loop goes round, and when  *)
(* the turn is over for whatever reason, every call that ran is answered   *)
(* in the history the next model call will see.                            *)
NothingForgotten ==
  pc \notin {"feed", "pair"} => unrecorded = {}

(* Steering messages reach the history exactly once and in the order Steer *)
(* took them: those still on their way are the successors of the last one  *)
(* injected, the drained ones ahead of the buffered ones.                  *)
SteeringInOrder ==
  /\ injected + Len(drained) + Len(steerCh) = accepted
  /\ \A i \in 1 .. Len(drained) : drained[i] = injected + i
  /\ \A i \in 1 .. Len(steerCh) : steerCh[i] = injected + Len(drained) + i

(* The other direction of the pairing the store keeps: a tool-result       *)
(* message stands right behind the tool_use message it answers.            *)
ResultsFollowCalls ==
  \A i \in 1 .. Len(msgs) :
    msgs[i].kind = "results" => i > 1 /\ msgs[i - 1] = Calls(msgs[i].calls)

(* A turn whose context is done comes to an end, even if the model would   *)
(* go on calling tools for ever.                                           *)
InterruptEndsTurn == ctx # "live" ~> pc = "idle"

(* A model that stops calling tools cannot keep a turn alive by giving     *)
(* answers the loop rejects: the retries run out.                          *)
RejectedAnswersEnd == <>[](pc # "batch") => []<>(pc = "idle")

(* A steering message that was accepted is injected, provided the agent    *)
(* keeps reaching tool boundaries.                                         *)
SteeringArrives ==
  \A k \in 1 .. MaxSteer : []<>(pc = "batch") => (accepted >= k ~> injected >= k)

(* What has to hold of the loop wherever it stands: its machine accepts    *)
(* whatever run fires next, and the history it asks the model with is one  *)
(* the provider accepts.                                                   *)
LoopIsSound == TypeOK /\ MachineInStep /\ ToolUseAnswered /\ AskedOnUsersTurn

(* Neither what a tool did nor what a user said in between gets lost.      *)
NothingIsLost == NothingForgotten /\ SteeringInOrder

(* A turn that was interrupted ends, one whose answers are rejected gives  *)
(* up, and accepted steering reaches the model.                            *)
LoopMovesOn == InterruptEndsTurn /\ RejectedAnswersEnd /\ SteeringArrives
=============================================================================
