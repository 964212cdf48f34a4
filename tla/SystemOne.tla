----------------------------- MODULE SystemOne -----------------------------
(***************************************************************************)
(* The decision model beside the loop (internal/features/systemone) and    *)
(* the advisor's gate behind it (internal/features/advisor).  Per          *)
(* iteration of a turn the loop's goroutine runs BeforeIteration (batch A: *)
(* is a consult due, which model should serve) and OnToolBatch (batch B:   *)
(* two questions per call, after the working-directory rule), then the     *)
(* per-call gate; while the tools run, children ask batches of their own   *)
(* through the same breaker.                                               *)
(***************************************************************************)
EXTENDS Naturals, Sequences, FiniteSets

CONSTANTS
  Cadence,        \* iterations without a consult before everything is blocked; 0 is never
  MaxConsults,    \* MaxCallsPerTurn of the advisor
  Children,       \* subagents a tool call may run
  MaxFailures,    \* maxConsecutiveFailures
  Batches,        \* what a model may issue at once: sequences of IssuedCall
  Candidates,     \* RoutingConfig.Candidates, aliases
  FirstModel,     \* the configured model
  MaxIterations,  \* bound: iterations of a turn
  MaxTurns        \* bound: turns

ASSUME SystemOneAssumption ==
  /\ Cadence \in Nat /\ MaxConsults \in Nat \ {0}
  /\ MaxFailures \in Nat \ {0} /\ FirstModel \in Candidates
  /\ IsFiniteSet(Children) /\ MaxIterations \in Nat \ {0} /\ MaxTurns \in Nat
-----------------------------------------------------------------------------
(* The write gate: what it remembers of a turn and what it says of one     *)
(* tool call.  A call is told by what the gate can tell of it: "advisor",  *)
(* "exempt", "read" (the classifier says it changes nothing), "plan" (a    *)
(* checkpoint of the todo tools), "status" (another todo call) and         *)
(* "write", which unknown tools count as.                                  *)
CallKinds == {"advisor", "exempt", "read", "plan", "status", "write"}

(* GateExt, of a turn's first iteration.                                   *)
FreshGate == [consulted |-> FALSE, calls |-> 0, writes |-> 0, iters |-> 0]

(* Mutant: a new turn inherits the last one's consult.                     *)
BeforeIterationKept(gate, iteration) ==
  IF iteration <= 1 THEN [gate EXCEPT !.calls = 0, !.iters = 0] ELSE [gate EXCEPT !.iters = @ + 1]

(* BeforeIteration                                                         *)
BeforeIteration(gate, iteration) ==
  IF iteration <= 1 THEN FreshGate ELSE [gate EXCEPT !.iters = @ + 1]

(* cadenceDue: a capped executor could never satisfy the rule.             *)
CadenceDue(gate) ==
  Cadence > 0 /\ gate.iters >= Cadence /\ gate.calls < MaxConsults

Capped(gate) == gate.calls >= MaxConsults

(* The cases of OnToolCall that deny.                                      *)
GateDenies(gate, kind) ==
  CASE kind = "advisor"                     -> Capped(gate)
    [] kind = "exempt"                      -> FALSE
    [] kind = "read"                        -> CadenceDue(gate)
    [] CadenceDue(gate)                     -> TRUE
    [] OTHER -> ~gate.consulted \/ (kind = "plan" /\ gate.writes > 0)

(* OnToolCall, its state: an advisor call counts when it is issued, and a  *)
(* capped one still clears the debt.  The todo tools never count as writes.*)
GateCounts(gate, kind) ==
  CASE kind = "advisor" ->
         [consulted |-> TRUE, writes |-> 0, iters |-> 0,
          calls |-> IF Capped(gate) THEN gate.calls ELSE gate.calls + 1]
    [] kind = "write" /\ ~GateDenies(gate, kind) -> [gate EXCEPT !.writes = @ + 1]
    [] OTHER -> gate
-----------------------------------------------------------------------------
VARIABLES
  judge,      \* Ext: advisorArmed, failures, routing.Current
  gate,       \* GateExt
  stage,      \* where the loop's goroutine is
  iteration,  \* TurnContext.Iteration
  turns,      \* turns begun
  calls,      \* the pending batch: kind, whether it leaves the directory, decision
  gated,      \* calls of it the per-call hooks have seen
  child,      \* what each child is doing
  serving,    \* the model the agent asks
  due,        \* history: a consult was judged due and none was issued since
  paid,       \* history: failed batches since one was answered
  advised     \* history: an advisor call was issued this turn, and no write let through since

judgeVars ==
  <<judge, gate, stage, iteration, turns, calls, gated, child, serving, due, paid, advised>>

Lenient == 0    \* core.Allow
Human   == 1    \* core.AskUser
Denial  == 2    \* core.Deny

JudgeInit ==
  /\ judge = [armed |-> FALSE, failures |-> 0, current |-> FirstModel]
  /\ gate = FreshGate
  /\ stage = "idle" /\ iteration = 0 /\ turns = 0
  /\ calls = <<>> /\ gated = 0
  /\ child = [c \in Children |-> "none"]
  /\ serving = FirstModel
  /\ due = FALSE /\ paid = 0 /\ advised = "no"

Tripped == judge.failures >= MaxFailures

Failed(j)    == [j EXCEPT !.failures = @ + 1]
Succeeded(j) == [j EXCEPT !.failures = 0]
-----------------------------------------------------------------------------
(* BeforeIteration of both extensions, in the first iteration of a turn.   *)
BeginTurn ==
  /\ stage = "idle" /\ turns < MaxTurns
  /\ turns' = turns + 1 /\ iteration' = 1
  /\ judge' = [judge EXCEPT !.armed = FALSE, !.failures = 0]
  /\ gate' = BeforeIteration(gate, 1)
  /\ stage' = "batchA"
  /\ due' = FALSE /\ paid' = 0 /\ advised' = "no"
  /\ UNCHANGED <<calls, gated, child, serving>>

(* ... and in the later ones, once the tools and their children are done.  *)
NextIteration ==
  /\ stage = "running" /\ \A c \in Children : child[c] # "asking"
  /\ iteration < MaxIterations
  /\ iteration' = iteration + 1
  /\ gate' = BeforeIteration(gate, iteration')
  /\ stage' = IF Tripped THEN "decided" ELSE "batchA"
  /\ child' = [c \in Children |-> "none"] /\ calls' = <<>> /\ gated' = 0
  /\ UNCHANGED <<judge, turns, serving, due, paid, advised>>

EndTurn ==
  /\ stage \in {"decided", "running"} /\ \A c \in Children : child[c] # "asking"
  /\ stage' = "idle" /\ calls' = <<>> /\ gated' = 0 /\ child' = [c \in Children |-> "none"]
  /\ UNCHANGED <<judge, gate, iteration, turns, serving, due, paid, advised>>

(* Batch A fails, or its deadline passes: the iteration goes on without.   *)
BatchAFails ==
  /\ stage = "batchA" /\ stage' = "decided"
  /\ judge' = Failed(judge) /\ paid' = paid + 1
  /\ UNCHANGED <<gate, iteration, turns, calls, gated, child, serving, due, advised>>

(* Mutant: a failed switch is remembered as done.                          *)
RoutedAnyway(choice, confident, applied) ==
  IF confident /\ choice # judge.current
  THEN [model |-> IF applied THEN choice ELSE serving, current |-> choice]
  ELSE [model |-> serving, current |-> judge.current]

(* applyRouting: a confident choice of another candidate, and applied only *)
(* if the switch succeeds.                                                 *)
Routed(choice, confident, applied) ==
  IF confident /\ choice # judge.current /\ applied
  THEN [model |-> choice, current |-> choice]
  ELSE [model |-> serving, current |-> judge.current]

(* Batch A is answered: applyAdvisor, and applyRouting of a turn's first.  *)
BatchAAnswers ==
  \E needed, confident, applied \in BOOLEAN, choice \in Candidates :
    LET route == Routed(choice, confident /\ iteration = 1, applied)
    IN  /\ stage = "batchA" /\ stage' = "decided"
        /\ judge' = [Succeeded(judge) EXCEPT !.armed = @ \/ needed, !.current = route.current]
        /\ serving' = route.model
        /\ due' = (due \/ needed) /\ paid' = 0
        /\ UNCHANGED <<gate, iteration, turns, calls, gated, child, advised>>

(* harness.SetLLM, between turns.                                          *)
UserSwitches(model) ==
  /\ stage = "idle" /\ serving' = model
  /\ UNCHANGED <<judge, gate, stage, iteration, turns, calls, gated, child, due, paid, advised>>
-----------------------------------------------------------------------------
IssuedCall(kind, outside) == [kind |-> kind, outside |-> outside, decision |-> Lenient]

ASSUME BatchesAssumption ==
  Batches \subseteq Seq([kind : CallKinds, outside : BOOLEAN, decision : {Lenient}]) \ {<<>>}

Escalate(call, decision) ==
  IF decision > call.decision THEN [call EXCEPT !.decision = decision] ELSE call

Consults(batch) == \E i \in DOMAIN batch : batch[i].kind = "advisor"

(* enforceAdvisorBlock                                                     *)
Blocked(call, armed) ==
  IF armed /\ call.kind \notin {"advisor", "read"} THEN Escalate(call, Denial) ELSE call

(* enforceWorkdir, of calls that are still open.                           *)
Placed(call) ==
  IF call.outside /\ call.decision # Denial THEN Escalate(call, Human) ELSE call

(* OnToolBatch up to its request: observe, the block, the rule.            *)
Issue ==
  \E issued \in Batches :
    LET armed == judge.armed /\ ~Consults(issued)
    IN  /\ stage = "decided"
        /\ calls' = [i \in DOMAIN issued |-> Placed(Blocked(issued[i], armed))]
        /\ judge' = [judge EXCEPT !.armed = armed]
        /\ due' = (due /\ ~Consults(issued))
        /\ gated' = 0 /\ stage' = "batchB"
        /\ UNCHANGED <<gate, iteration, turns, child, serving, paid, advised>>

Judged == {i \in DOMAIN calls : calls[i].decision # Denial}

(* Batch B: nothing to judge or the breaker is open, ...                   *)
BatchBSkipped ==
  /\ stage = "batchB" /\ (Judged = {} \/ Tripped)
  /\ stage' = "unanswered"
  /\ UNCHANGED <<judge, gate, iteration, turns, calls, gated, child, serving, due, paid, advised>>

(* ... no answer, ...                                                      *)
BatchBFails ==
  /\ stage = "batchB" /\ Judged # {} /\ ~Tripped
  /\ judge' = Failed(judge) /\ paid' = paid + 1 /\ stage' = "unanswered"
  /\ UNCHANGED <<gate, iteration, turns, calls, gated, child, serving, due, advised>>

(* ... or answers: applyGate for each call.                                *)
BatchBAnswers ==
  \E flagged \in SUBSET Judged :
    /\ stage = "batchB" /\ Judged # {} /\ ~Tripped
    /\ calls' = [i \in DOMAIN calls |->
                   IF i \in flagged THEN Escalate(calls[i], Human) ELSE calls[i]]
    /\ judge' = Succeeded(judge) /\ paid' = 0 /\ stage' = "answered"
    /\ UNCHANGED <<gate, iteration, turns, gated, child, serving, due, advised>>

(* RunToolCall of one call: the advisor's gate.                            *)
GateOne(call) == IF GateDenies(gate, call.kind) THEN Escalate(call, Denial) ELSE call

(* What the history keeps of it.                                           *)
Heard(call) ==
  CASE call.kind = "advisor" -> "fresh"
    [] call.kind = "write" /\ GateOne(call).decision # Denial ->
         IF advised = "no" THEN "unasked" ELSE "stale"
    [] call.kind = "plan" /\ GateOne(call).decision # Denial /\ advised # "fresh" -> "unasked"
    [] OTHER -> advised

(* The per-call hooks, call by call in issue order; after the last one the *)
(* tools run.                                                              *)
PerCall ==
  LET next == gated + 1
  IN  /\ stage \in {"unanswered", "answered", "gating"}
      /\ gate' = GateCounts(gate, calls[next].kind)
      /\ calls' = [calls EXCEPT ![next] = GateOne(@)]
      /\ advised' = Heard(calls[next])
      /\ gated' = next
      /\ stage' = IF next = Len(calls) THEN "running" ELSE "gating"
      /\ UNCHANGED <<judge, iteration, turns, child, serving, due, paid>>
-----------------------------------------------------------------------------
(* ChildGate: a child's batch, while its tool call runs.                   *)
ChildAsks(c) ==
  /\ stage = "running" /\ child[c] = "none" /\ ~Tripped
  /\ child' = [child EXCEPT ![c] = "asking"]
  /\ UNCHANGED <<judge, gate, stage, iteration, turns, calls, gated, serving, due, paid, advised>>

ChildFails(c) ==
  /\ child[c] = "asking"
  /\ child' = [child EXCEPT ![c] = "none"]
  /\ judge' = Failed(judge) /\ paid' = paid + 1
  /\ UNCHANGED <<gate, stage, iteration, turns, calls, gated, serving, due, advised>>

ChildAnswered(c) ==
  /\ child[c] = "asking"
  /\ child' = [child EXCEPT ![c] = "done"]
  /\ judge' = Succeeded(judge) /\ paid' = 0
  /\ UNCHANGED <<gate, stage, iteration, turns, calls, gated, serving, due, advised>>

ChildStep(c) == ChildAsks(c) \/ ChildFails(c) \/ ChildAnswered(c)

JudgeNext ==
  \/ BeginTurn \/ NextIteration \/ EndTurn \/ BatchAFails \/ BatchAAnswers
  \/ \E m \in Candidates : UserSwitches(m)
  \/ Issue \/ BatchBSkipped \/ BatchBFails \/ BatchBAnswers \/ PerCall
  \/ \E c \in Children : ChildStep(c)

JudgeSpec == JudgeInit /\ [][JudgeNext]_judgeVars
-----------------------------------------------------------------------------
JudgeTypeOK ==
  /\ judge.armed \in BOOLEAN /\ judge.failures \in Nat /\ judge.current \in Candidates
  /\ gate.calls \in 0 .. MaxConsults /\ gate.writes \in Nat /\ gate.iters \in 0 .. MaxIterations
  /\ stage \in {"idle", "batchA", "decided", "batchB", "unanswered", "answered", "gating", "running"}
  /\ child \in [Children -> {"none", "asking", "done"}]
  /\ serving \in Candidates /\ turns \in 0 .. MaxTurns /\ iteration \in 0 .. MaxIterations

(* An endpoint that does not answer costs a turn at most maxConsecutive-   *)
(* Failures timeouts in a row, and those of the children that had asked    *)
(* before the breaker opened.                                              *)
BreakerBoundsTheStall ==
  paid <= MaxFailures + (IF Children = {} THEN 0 ELSE Cardinality(Children) - 1)

(* "Never a dependency": a batch nobody answered leaves every call as the  *)
(* block and the working-directory rule had it.                            *)
SilenceChangesNothing ==
  stage = "unanswered" =>
    \A i \in DOMAIN calls :
      calls[i].decision =
        IF due /\ calls[i].kind \notin {"advisor", "read"} THEN Denial
        ELSE IF calls[i].outside THEN Human ELSE Lenient

(* A consult judged due in this turn holds up every call that changes      *)
(* something until an advisor call is issued, and no longer; a verdict of  *)
(* an earlier turn holds up nothing.                                       *)
DueConsultBlocks ==
  /\ judge.armed = due
  /\ stage = "running" /\ due =>
       \A i \in DOMAIN calls : calls[i].kind \in {"plan", "status", "write"} => calls[i].decision = Denial

(* The gate's two hard rules: the first write of a turn comes after an     *)
(* advisor call, and a plan checkpoint after one with no write since.      *)
AdviceComesFirst == advised # "unasked"

(* Nobody waits for advice that cannot be had: behind an advisor call,     *)
(* capped or not, every kind of call gets past the gate and the block, so  *)
(* the rules together never stop an executor that follows them.            *)
AdviceOpensTheWay ==
  stage = "running" /\ calls # <<>> /\ calls[Len(calls)].kind = "advisor" =>
    /\ ~judge.armed
    /\ \A kind \in CallKinds \ {"advisor"} : ~GateDenies(gate, kind)

(* What routing takes to be serving is serving, as long as the user has    *)
(* not switched models underneath.                                         *)
RoutingKnowsTheModel ==
  [][serving = judge.current /\ stage # "idle" => serving' = judge'.current]_judgeVars

(* A judge that does not answer costs no more than its breaker lets it,    *)
(* changes nothing about the calls, and the router knows which model runs. *)
JudgeStaysOut == [](JudgeTypeOK /\ BreakerBoundsTheStall /\ SilenceChangesNothing)
                 /\ RoutingKnowsTheModel

(* An advisor that is due is asked before anything is changed, and once it *)
(* was asked the way is free.                                              *)
AdviceIsHeeded == DueConsultBlocks /\ AdviceComesFirst /\ AdviceOpensTheWay
=============================================================================
