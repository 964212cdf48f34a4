-------------------------- MODULE ToolBatch_proofs --------------------------
(***************************************************************************)
(* For batches, hook chains and semaphores of any size: nothing runs that  *)
(* was not allowed or approved, and calls never overlap with one they      *)
(* conflict with.  For any servers and listings: a turn runs under the     *)
(* tools it was offered.  For any settings and trees of agents: no call    *)
(* runs that the hooks asked for did not see, and read-only mode holds.    *)
(***************************************************************************)
EXTENDS ToolBatch, ToolPort, AgentTree, FiniteSetTheorems, SequenceTheorems, WellFoundedInduction, TLAPS

(* Nothing is spawned before every call has been decided, so a decision    *)
(* is never changed once somebody acts on it; an answer in a channel is    *)
(* the first one given, and only undenied calls wait for it.               *)
ConsentInv ==
  /\ \A i \in Batch : work[i] # "none" => deciding = N + 1
  /\ \A i \in Batch : i >= deciding => chan[i] = "nil"
  /\ \A i \in Batch : chan[i] \in {"nil", "open"} => answered[i] = "none"
  /\ \A i \in Batch : chan[i] \in {"yes", "no"} => answered[i] = chan[i]
  /\ \A i \in Batch : work[i] = "waiting" => i \notin hookErr /\ decision[i] = AskUser

(* The segment being run is one mutating call or several read-only ones;   *)
(* everything before it is over, and nothing behind it has begun.          *)
SegmentInv ==
  /\ \A i \in Batch : i < from => work[i] \in {"ran", "refused"}
  /\ \A i \in Batch : i >= to => work[i] = "none"
  /\ to = from + 1 \/ \A i \in Batch : i >= from /\ i < to => i \in readOnly

Inv == TypeOK /\ ConsentInv /\ SegmentInv /\ NothingRunsUnasked
-----------------------------------------------------------------------------
LEMMA InitInv == Init => Inv
<1> SUFFICES ASSUME Init PROVE Inv
  OBVIOUS
<1> USE BatchAssumption DEF Init, Batch
<1>1. TypeOK
  <2>1. decision \in [Batch -> Decisions]
    BY DEF Decisions, Allow
  <2>2. 1 \in 1 .. N + 1 /\ 0 \in 0 .. N + 1 /\ 0 \in 0 .. Hooks
    OBVIOUS
  <2>3. QED
    BY <2>1, <2>2 DEF TypeOK
<1>2. ConsentInv /\ SegmentInv /\ NothingRunsUnasked
  BY DEF ConsentInv, SegmentInv, NothingRunsUnasked
<1>3. QED
  BY <1>1, <1>2 DEF Inv

LEMMA Between ==
  ASSUME NEW a \in Nat, NEW b \in Nat, NEW i \in Nat
  PROVE  i \in a .. b - 1 <=> i >= a /\ i < b
OBVIOUS

(* OpenSegment, index by index.                                            *)
LEMMA Opened ==
  ASSUME TypeOK, OpenSegment
  PROVE  /\ from \in Nat /\ to = from /\ from' = from /\ readOnly' = readOnly
         /\ to' \in Nat /\ from < to' /\ to' <= N + 1 /\ Segment(from, to')
         /\ \A i \in Batch : work'[i] = IF i >= from /\ i < to' THEN "spawned" ELSE work[i]
<1> USE BatchAssumption DEF TypeOK, Batch
<1>1. from \in Nat /\ N \in Nat
  OBVIOUS
<1>2. to = from /\ from' = from /\ readOnly' = readOnly /\ Segment(from, to')
  BY DEF OpenSegment, config
<1>3. to' \in Nat /\ from < to' /\ to' <= N + 1
  <2>1. to' \in from + 1 .. N + 1
    BY DEF OpenSegment
  <2>2. QED
    BY <1>1, <2>1
<1>4. ASSUME NEW i \in Batch
      PROVE  work'[i] = IF i >= from /\ i < to' THEN "spawned" ELSE work[i]
  <2>1. work'[i] = IF i \in from .. to' - 1 THEN "spawned" ELSE work[i]
    BY DEF OpenSegment
  <2>2. i \in from .. to' - 1 <=> i >= from /\ i < to'
    <3>1. i \in Nat
      OBVIOUS
    <3> QED
      BY <1>1, <1>3, <3>1, Between
  <2>3. QED
    BY <2>1, <2>2
<1>5. QED
  BY <1>1, <1>2, <1>3, <1>4

LEMMA TypeStep == TypeOK /\ [Next]_vars => TypeOK'
<1> SUFFICES ASSUME TypeOK, [Next]_vars PROVE TypeOK'
  OBVIOUS
<1> USE BatchAssumption DEF TypeOK, config, decideVars, Batch, Decisions, Allow, AskUser, Deny, Stricter
<1>1. CASE BatchHook
  BY <1>1 DEF BatchHook
<1>2. CASE BatchHookFails
  BY <1>2 DEF BatchHookFails
<1>3. ASSUME NEW i \in Batch, CallHook(i) PROVE TypeOK'
  BY <1>3 DEF CallHook
<1>4. ASSUME NEW i \in Batch, CallHookFails(i) PROVE TypeOK'
  BY <1>4 DEF CallHookFails
<1>5. ASSUME NEW i \in Batch, Decided(i) PROVE TypeOK'
  BY <1>5 DEF Decided
<1>6. CASE OpenSegment
  <2>1. to' \in from + 1 .. N + 1 /\ from' = from /\ to' \in from' .. N + 1
    BY <1>6 DEF OpenSegment
  <2>2. \A i \in Batch : work'[i] \in {work[i], "spawned"}
    BY <1>6 DEF OpenSegment
  <2>3. DOMAIN work' = Batch /\ work' = [i \in Batch |-> work'[i]]
    BY <1>6 DEF OpenSegment
  <2>4. work' \in [Batch -> {"none", "spawned", "waiting", "running", "ran", "refused"}]
    BY <2>2, <2>3
  <2>5. QED
    BY <1>6, <2>1, <2>4 DEF OpenSegment
<1>7. CASE CloseSegment
  BY <1>7 DEF CloseSegment
<1>8. ASSUME NEW i \in Batch, Refuse(i) \/ Run(i) \/ Await(i) PROVE TypeOK'
  BY <1>8 DEF Refuse, Run, Await, Begin
<1>9. ASSUME NEW i \in Batch, SettleWait(i) \/ Executed(i) PROVE TypeOK'
  BY <1>9 DEF SettleWait, TakeAnswer, TimedOut, CanceledWait, NobodyToAsk, GiveUpWaiting, Executed
<1>10. ASSUME NEW i \in Batch, NEW answer \in {"yes", "no"}, Respond(i, answer) PROVE TypeOK'
  BY <1>10 DEF Respond
<1>11. CASE CancelContext
  BY <1>11 DEF CancelContext
<1>12. CASE UNCHANGED vars
  BY <1>12 DEF vars
<1>13. QED
  BY <1>1, <1>2, <1>3, <1>4, <1>5, <1>6, <1>7, <1>8, <1>9, <1>10, <1>11, <1>12
     DEF Next, DecisionStep

LEMMA ConsentStep ==
  TypeOK /\ ConsentInv /\ NothingRunsUnasked /\ [Next]_vars => ConsentInv' /\ NothingRunsUnasked'
<1> SUFFICES ASSUME TypeOK, ConsentInv, NothingRunsUnasked, [Next]_vars
             PROVE  ConsentInv' /\ NothingRunsUnasked'
  OBVIOUS
<1> USE BatchAssumption
    DEF TypeOK, ConsentInv, NothingRunsUnasked, config, decideVars, Batch, Allow, AskUser, Deny
<1>1. CASE BatchHook
  BY <1>1 DEF BatchHook
<1>2. CASE BatchHookFails
  BY <1>2 DEF BatchHookFails
<1>3. ASSUME NEW i \in Batch, CallHook(i) PROVE ConsentInv' /\ NothingRunsUnasked'
  BY <1>3 DEF CallHook
<1>4. ASSUME NEW i \in Batch, CallHookFails(i) PROVE ConsentInv' /\ NothingRunsUnasked'
  BY <1>4 DEF CallHookFails
<1>5. ASSUME NEW i \in Batch, Decided(i) PROVE ConsentInv' /\ NothingRunsUnasked'
  <2>1. (\A j \in Batch : work[j] = "none") /\ work' = work /\ answered' = answered
    BY <1>5 DEF Decided
  <2>2. /\ chan[i] = "nil" /\ chan'[i] \in {"nil", "open"} /\ deciding = i /\ deciding' = i + 1
        /\ \A j \in Batch : j # i => chan'[j] = chan[j]
    BY <1>5 DEF Decided
  <2>3. QED
    BY <2>1, <2>2
<1>6. CASE OpenSegment
  BY <1>6 DEF OpenSegment
<1>7. CASE CloseSegment
  BY <1>7 DEF CloseSegment
<1>8. ASSUME NEW i \in Batch, Refuse(i) \/ Run(i) \/ Await(i)
      PROVE  ConsentInv' /\ NothingRunsUnasked'
  <2>1. CASE Refuse(i)
    BY <2>1 DEF Refuse, Begin, Admit
  <2>2. CASE Run(i)
    BY <2>2 DEF Run, Begin, Admit
  <2>3. CASE Await(i)
    BY <2>3 DEF Await, Begin, Admit
  <2>4. QED
    BY <1>8, <2>1, <2>2, <2>3
<1>9. ASSUME NEW i \in Batch, SettleWait(i) \/ Executed(i)
      PROVE  ConsentInv' /\ NothingRunsUnasked'
  <2>1. CASE TakeAnswer(i)
    BY <1>9, <2>1 DEF TakeAnswer
  <2>2. CASE GiveUpWaiting(i)
    BY <2>2 DEF GiveUpWaiting
  <2>3. CASE Executed(i)
    BY <2>3 DEF Executed
  <2>4. QED
    BY <1>9, <2>1, <2>2, <2>3 DEF SettleWait, TimedOut, CanceledWait, NobodyToAsk
<1>10. ASSUME NEW i \in Batch, NEW answer \in {"yes", "no"}, Respond(i, answer)
       PROVE  ConsentInv' /\ NothingRunsUnasked'
  <2>1. /\ chan[i] = "open" /\ UNCHANGED <<work, deciding, hookErr, decision>>
        /\ chan' = [chan EXCEPT ![i] = answer]
        /\ answered' = [answered EXCEPT ![i] = answer]
    BY <1>10 DEF Respond
  <2>2. \A j \in Batch : j # i => chan'[j] = chan[j] /\ answered'[j] = answered[j]
    BY <2>1
  <2>3. chan'[i] = answer /\ answered'[i] = answer
    BY <2>1
  <2>4. \A j \in Batch : /\ chan'[j] \in {"yes", "no"} => answered'[j] = chan'[j]
                         /\ chan'[j] \in {"nil", "open"} => answered'[j] = "none"
    BY <2>2, <2>3
  <2>5. ConsentInv'
    BY <2>1, <2>4
  <2>6. \A j \in Batch : answered[j] = "yes" => answered'[j] = "yes"
    BY <2>1, <2>2
  <2>7. QED
    BY <2>1, <2>5, <2>6
<1>11. CASE CancelContext
  BY <1>11 DEF CancelContext
<1>12. CASE UNCHANGED vars
  BY <1>12 DEF vars
<1>13. QED
  BY <1>1, <1>2, <1>3, <1>4, <1>5, <1>6, <1>7, <1>8, <1>9, <1>10, <1>11, <1>12
     DEF Next, DecisionStep

LEMMA SegmentStep == TypeOK /\ SegmentInv /\ [Next]_vars => SegmentInv'
<1> SUFFICES ASSUME TypeOK, SegmentInv, [Next]_vars PROVE SegmentInv'
  OBVIOUS
<1> USE BatchAssumption DEF TypeOK, SegmentInv, config, decideVars, Batch
<1>1. CASE DecisionStep
  BY <1>1 DEF DecisionStep, BatchHook, BatchHookFails, CallHook, CallHookFails, Decided
<1>2. CASE OpenSegment
  <2>1. \A i \in Batch : i >= to' => work'[i] = "none"
    BY <1>2, Opened
  <2>2. \A i \in Batch : i < from' => work'[i] \in {"ran", "refused"}
    BY <1>2, Opened
  <2>3. to' = from + 1 \/ \A i \in Batch : i >= from /\ i < to' => i \in readOnly
    <3>1. ASSUME NEW i \in Batch, i >= from, i < to', to' # from + 1 PROVE i \in readOnly
      <4>1. i \in from .. to' - 1
        BY <1>2, <3>1, Opened
      <4>2. QED
        BY <1>2, <3>1, <4>1, Opened DEF Segment
    <3>2. QED
      BY <3>1
  <2>4. QED
    BY <1>2, <2>1, <2>2, <2>3, Opened
<1>3. CASE CloseSegment
  BY <1>3 DEF CloseSegment
<1>4. ASSUME NEW i \in Batch, Refuse(i) \/ Run(i) \/ Await(i) PROVE SegmentInv'
  BY <1>4 DEF Refuse, Run, Await, Begin, Admit
<1>5. ASSUME NEW i \in Batch, SettleWait(i) \/ Executed(i) PROVE SegmentInv'
  BY <1>5 DEF SettleWait, TakeAnswer, TimedOut, CanceledWait, NobodyToAsk, GiveUpWaiting, Executed
<1>6. ASSUME NEW i \in Batch, NEW answer \in {"yes", "no"}, Respond(i, answer) PROVE SegmentInv'
  BY <1>6 DEF Respond
<1>7. CASE CancelContext \/ UNCHANGED vars
  BY <1>7 DEF CancelContext, vars
<1>8. QED
  BY <1>1, <1>2, <1>3, <1>4, <1>5, <1>6, <1>7 DEF Next

LEMMA InductiveInvariant == Spec => []Inv
<1>1. Inv /\ [Next]_vars => Inv'
  BY TypeStep, ConsentStep, SegmentStep DEF Inv
<1>2. QED
  BY InitInv, <1>1, PTL DEF Spec
-----------------------------------------------------------------------------
(* Every variable stays of its type, whatever the size of the batch.       *)
THEOREM TypeCorrect == Spec => []TypeOK
BY InductiveInvariant, PTL DEF Inv

(* No tool call runs unless its hooks allowed it, or asked and got a yes   *)
(* as the first answer.                                                    *)
THEOREM NoToolWithoutConsent == Spec => []NothingRunsUnasked
BY InductiveInvariant, PTL DEF Inv

(* Hooks of the chain can only make a decision stricter.                   *)
THEOREM DecisionsOnlyEscalate == Spec => EscalationSticks
<1>1. TypeOK /\ [Next]_vars =>
        [\A i \in Batch : decision'[i] < decision[i] =>
           skipPermissions /\ decision[i] = AskUser /\ hook = Hooks]_vars
  <2> SUFFICES ASSUME TypeOK, [Next]_vars, NEW i \in Batch, decision'[i] < decision[i]
               PROVE  skipPermissions /\ decision[i] = AskUser /\ hook = Hooks
    OBVIOUS
  <2> USE BatchAssumption DEF TypeOK, config, decideVars, Batch, Decisions, Allow, AskUser, Deny, Stricter
  <2>1. ~BatchHook /\ \A j \in Batch : ~CallHook(j)
    <3>1. ASSUME BatchHook PROVE FALSE
      <4>1. PICK p \in [Batch -> Decisions] : decision' = [j \in Batch |-> Stricter(decision[j], p[j])]
        BY <3>1 DEF BatchHook
      <4>2. decision'[i] = Stricter(decision[i], p[i]) /\ p[i] \in Decisions /\ decision[i] \in Decisions
        BY <4>1
      <4>3. QED
        BY <4>2
    <3>2. ASSUME NEW j \in Batch, CallHook(j) PROVE FALSE
      <4>1. PICK d \in Decisions : decision' = [decision EXCEPT ![j] = Stricter(decision[j], d)]
        BY <3>2 DEF CallHook
      <4>2. decision'[i] = decision[i] \/ decision'[i] = Stricter(decision[i], d)
        BY <4>1
      <4>3. decision[i] \in Decisions
        OBVIOUS
      <4>4. QED
        BY <4>2, <4>3
    <3>3. QED
      BY <3>1, <3>2
  <2>2. ASSUME NEW j \in Batch, Decided(j)
        PROVE  skipPermissions /\ decision[i] = AskUser /\ hook = Hooks
    BY <2>2 DEF Decided
  <2>3. decision' = decision \/ DecisionStep
    BY DEF Next, vars, OpenSegment, CloseSegment, Refuse, Run, Await, Begin, SettleWait, TakeAnswer,
       TimedOut, CanceledWait, NobodyToAsk, GiveUpWaiting, Executed, Respond, CancelContext
  <2>4. QED
    BY <2>1, <2>2, <2>3 DEF DecisionStep, BatchHookFails, CallHookFails
<1>2. QED
  BY <1>1, TypeCorrect, PTL DEF Spec, EscalationSticks

(* The flight: it is finite, Begin adds one call to it, nothing else any.  *)
LEMMA FlightStep ==
  ASSUME TypeOK, TypeOK', BoundedParallelism, [Next]_vars
  PROVE  BoundedParallelism'
<1> USE BatchAssumption DEF Batch
<1>1. /\ IsFiniteSet(InFlight) /\ IsFiniteSet(InFlight')
      /\ Cardinality(InFlight) \in Nat /\ Cardinality(InFlight') \in Nat
  <2>1. IsFiniteSet(1 .. N)
    BY FS_Interval
  <2>2. InFlight \subseteq 1 .. N /\ InFlight' \subseteq 1 .. N
    BY DEF InFlight
  <2>3. IsFiniteSet(InFlight) /\ IsFiniteSet(InFlight')
    BY <2>1, <2>2, FS_Subset
  <2>4. QED
    BY <2>3, FS_CardinalityType
<1>2. ASSUME InFlight' \subseteq InFlight PROVE BoundedParallelism'
  BY <1>1, <1>2, FS_Subset DEF BoundedParallelism
<1>3. ASSUME NEW i \in Batch, Refuse(i) \/ Run(i) \/ Await(i) PROVE BoundedParallelism'
  <2>1. Cardinality(InFlight) < MaxParallel
    BY <1>3 DEF Refuse, Run, Await, Begin, Admit
  <2>2. InFlight' \subseteq InFlight \cup {i}
    BY <1>3 DEF TypeOK, InFlight, Refuse, Run, Await, Begin, Admit
  <2>3. /\ IsFiniteSet(InFlight \cup {i})
        /\ Cardinality(InFlight \cup {i}) \in {Cardinality(InFlight), Cardinality(InFlight) + 1}
    BY <1>1, FS_AddElement
  <2>4. Cardinality(InFlight') <= Cardinality(InFlight \cup {i})
    BY <2>2, <2>3, FS_Subset
  <2>5. QED
    BY <1>1, <2>1, <2>3, <2>4 DEF BoundedParallelism
<1>4. CASE OpenSegment
  <2>1. InFlight' \subseteq InFlight
    BY <1>4, Opened DEF InFlight
  <2>2. QED
    BY <1>2, <2>1
<1>5. ASSUME NEW i \in Batch, SettleWait(i) \/ Executed(i) PROVE BoundedParallelism'
  <2>1. InFlight' \subseteq InFlight
    BY <1>5 DEF TypeOK, InFlight, SettleWait, TakeAnswer, TimedOut, CanceledWait, NobodyToAsk,
       GiveUpWaiting, Executed
  <2>2. QED
    BY <1>2, <2>1
<1>6. CASE UNCHANGED work
  BY <1>6, <1>2 DEF InFlight
<1>7. QED
  BY <1>3, <1>4, <1>5, <1>6 DEF Next, DecisionStep, BatchHook, BatchHookFails, CallHook,
     CallHookFails, Decided, CloseSegment, Respond, CancelContext, vars

(* The semaphore bounds what runs at once, batches and bounds of any size. *)
THEOREM ParallelismIsBounded == Spec => []BoundedParallelism
<1>1. Init => BoundedParallelism
  <2>1. ASSUME Init PROVE InFlight = {}
    BY <2>1 DEF Init, InFlight
  <2>2. QED
    BY <2>1, FS_EmptySet, BatchAssumption DEF BoundedParallelism
<1>2. TypeOK /\ TypeOK' /\ BoundedParallelism /\ [Next]_vars => BoundedParallelism'
  BY FlightStep
<1>3. QED
  BY <1>1, <1>2, TypeCorrect, PTL DEF Spec

LEMMA SerialStep == Inv /\ [Next]_vars => [Serial!Next]_(Serial!vars)
<1> SUFFICES ASSUME Inv, [Next]_vars PROVE [Serial!Next]_(Serial!vars)
  OBVIOUS
<1> DEFINE Inside == {i \in Batch : work[i] \in {"waiting", "running"}}
           Over   == {i \in Batch : work[i] \in {"ran", "refused"}}
<1> USE BatchAssumption DEF Inv, TypeOK, Batch, config, decideVars
<1>1. ASSUME UNCHANGED <<readOnly, work>> PROVE UNCHANGED Serial!vars
  BY <1>1 DEF Serial!vars
<1>2. CASE OpenSegment
  <2>1. \A i \in Batch : work'[i] = work[i] \/ (work[i] = "none" /\ work'[i] = "spawned")
    BY <1>2, Opened DEF SegmentInv
  <2>2. UNCHANGED <<readOnly, Inside, Over>>
    BY <1>2, <2>1 DEF OpenSegment
  <2>3. QED
    BY <2>2 DEF Serial!vars
<1>3. ASSUME NEW i \in Batch, Refuse(i) PROVE Serial!Refuse(i)
  BY <1>3 DEF Refuse, Begin, Admit, Serial!Refuse
<1>4. ASSUME NEW i \in Batch, Run(i) \/ Await(i) PROVE Serial!Enter(i)
  <2>1. /\ work[i] = "spawned" /\ i >= from /\ i < to
        /\ Inside' = Inside \cup {i} /\ Over' = Over /\ readOnly' = readOnly
    BY <1>4 DEF Run, Await, Begin, Admit, SegmentInv
  <2>2. ASSUME NEW j \in Batch, j # i, j < i \/ j \in Inside, j \notin Over
        PROVE  i \in readOnly /\ j \in readOnly
    <3>1. j >= from /\ j < to
      BY <2>1, <2>2 DEF SegmentInv
    <3>2. to # from + 1
      BY <2>1, <2>2, <3>1
    <3>3. QED
      BY <2>1, <3>1, <3>2 DEF SegmentInv
  <2>3. i \notin Inside \cup Over
    BY <2>1
  <2>4. \A j \in 1 .. i - 1 : Serial!Conflict(i, j) => j \in Over
    BY <2>2 DEF Serial!Conflict
  <2>5. \A j \in Inside : ~Serial!Conflict(i, j)
    BY <2>2, <2>3 DEF Serial!Conflict
  <2>6. QED
    BY <2>1, <2>3, <2>4, <2>5 DEF Serial!Enter
<1>5. ASSUME NEW i \in Batch, TakeAnswer(i) PROVE Serial!Leave(i) \/ UNCHANGED Serial!vars
  <2>1. CASE chan[i] = "yes"
    BY <1>5, <2>1 DEF TakeAnswer, Serial!vars
  <2>2. CASE chan[i] # "yes"
    BY <1>5, <2>2 DEF TakeAnswer, Serial!Leave
  <2>3. QED
    BY <2>1, <2>2
<1>6. ASSUME NEW i \in Batch, TimedOut(i) \/ CanceledWait(i) \/ NobodyToAsk(i) \/ Executed(i)
      PROVE  Serial!Leave(i)
  BY <1>6 DEF TimedOut, CanceledWait, NobodyToAsk, GiveUpWaiting, Executed, Serial!Leave
<1>7. ASSUME NEW i \in Batch, NEW answer, Respond(i, answer) PROVE UNCHANGED <<readOnly, work>>
  BY <1>7 DEF Respond
<1>8. CASE DecisionStep \/ CloseSegment \/ CancelContext \/ UNCHANGED vars
  BY <1>1, <1>8 DEF DecisionStep, BatchHook, BatchHookFails, CallHook, CallHookFails, Decided,
     CloseSegment, CancelContext, vars
<1>9. QED
  BY <1>1, <1>2, <1>3, <1>4, <1>5, <1>6, <1>7, <1>8 DEF Next, SettleWait, Serial!Next

(* Whatever overlaps in a segment, calls that could disturb each other run *)
(* in issue order, one when the other is over.                             *)
THEOREM BatchIsSerial == Spec => KeepsIssueOrder
<1>1. Init => Serial!Init
  BY DEF Init, Serial!Init, Batch
<1>2. QED
  BY <1>1, SerialStep, InductiveInvariant, PTL DEF Spec, KeepsIssueOrder, Serial!SafeSpec
(* With permissions skipped, a decided call is allowed, denied or has a    *)
(* failed hook: nobody is left to ask about it.                            *)
DecidedUnasked ==
  skipPermissions => \A i \in Batch : i < deciding => i \in hookErr \/ decision[i] # AskUser

LEMMA UnaskedStep ==
  TypeOK /\ ConsentInv /\ DecidedUnasked /\ SkippingAsksNobody /\ [Next]_vars
    => DecidedUnasked' /\ SkippingAsksNobody'
<1> SUFFICES ASSUME TypeOK, ConsentInv, DecidedUnasked, SkippingAsksNobody, [Next]_vars,
                    skipPermissions'
             PROVE  DecidedUnasked' /\ SkippingAsksNobody'
  BY DEF DecidedUnasked, SkippingAsksNobody
<1> USE BatchAssumption
    DEF TypeOK, ConsentInv, DecidedUnasked, SkippingAsksNobody, config, decideVars, Batch,
        Allow, AskUser, Deny
<1>1. CASE BatchHook
  BY <1>1 DEF BatchHook
<1>2. CASE BatchHookFails
  BY <1>2 DEF BatchHookFails
<1>3. ASSUME NEW i \in Batch, CallHook(i) PROVE DecidedUnasked' /\ SkippingAsksNobody'
  BY <1>3 DEF CallHook
<1>4. ASSUME NEW i \in Batch, CallHookFails(i) PROVE DecidedUnasked' /\ SkippingAsksNobody'
  BY <1>4 DEF CallHookFails
<1>5. ASSUME NEW i \in Batch, Decided(i) PROVE DecidedUnasked' /\ SkippingAsksNobody'
  BY <1>5 DEF Decided
<1>6. CASE OpenSegment
  BY <1>6 DEF OpenSegment
<1>7. CASE CloseSegment
  BY <1>7 DEF CloseSegment
<1>8. ASSUME NEW i \in Batch, Refuse(i) \/ Run(i) \/ Await(i)
      PROVE  DecidedUnasked' /\ SkippingAsksNobody'
  <2>1. CASE Refuse(i)
    BY <2>1 DEF Refuse, Begin, Admit
  <2>2. CASE Run(i)
    BY <2>2 DEF Run, Begin, Admit
  <2>3. CASE Await(i)
    BY <2>3 DEF Await, Begin, Admit
  <2>4. QED
    BY <1>8, <2>1, <2>2, <2>3
<1>9. ASSUME NEW i \in Batch, SettleWait(i) \/ Executed(i)
      PROVE  DecidedUnasked' /\ SkippingAsksNobody'
  <2>1. CASE work[i] = "waiting"
    BY <1>9, <2>1 DEF SettleWait, TakeAnswer, TimedOut, CanceledWait, NobodyToAsk, GiveUpWaiting, Executed
  <2>2. CASE Executed(i)
    BY <2>2 DEF Executed
  <2>3. QED
    BY <1>9, <2>1, <2>2 DEF SettleWait, TakeAnswer, TimedOut, CanceledWait, NobodyToAsk, GiveUpWaiting
<1>10. ASSUME NEW i \in Batch, NEW answer \in {"yes", "no"}, Respond(i, answer)
       PROVE  DecidedUnasked' /\ SkippingAsksNobody'
  BY <1>10 DEF Respond
<1>11. CASE CancelContext
  BY <1>11 DEF CancelContext
<1>12. CASE UNCHANGED vars
  BY <1>12 DEF vars
<1>13. QED
  BY <1>1, <1>2, <1>3, <1>4, <1>5, <1>6, <1>7, <1>8, <1>9, <1>10, <1>11, <1>12
     DEF Next, DecisionStep

(* With permissions skipped no request ever goes out, and exactly what was *)
(* denied, or whose hook failed, is refused.                               *)
THEOREM SkippedAsksNobody == Spec => []SkippingAsksNobody
<1>1. Init => DecidedUnasked /\ SkippingAsksNobody
  BY BatchAssumption DEF Init, DecidedUnasked, SkippingAsksNobody, Batch
<1>2. QED
  BY <1>1, UnaskedStep, InductiveInvariant, PTL DEF Spec, Inv

(* All of it together: consent, nobody asked when permissions are skipped, *)
(* bounded parallelism, and decisions that hooks only make stricter.       *)
THEOREM BatchSafe == Spec => BatchIsSafe
BY TypeCorrect, NoToolWithoutConsent, SkippedAsksNobody, ParallelismIsBounded,
   DecisionsOnlyEscalate, PTL DEF BatchIsSafe
-----------------------------------------------------------------------------
(* The tool ports: ToolPort.                                               *)
(* What a server lists now.                                                *)
Listing(s) == IF world[s].up THEN world[s].tools ELSE {}

(* The snapshot: a name has one tool, which is found under it, and a tool  *)
(* of a server neither takes a name that is taken nor one that is          *)
(* disabled.                                                               *)
MountInv ==
  /\ ~Collides(static) /\ Keys(Range(static)) \cap LowerAll(disabled) = {}
  /\ Keys(dynamic) \cap (Keys(Range(static)) \cup LowerAll(disabled)) = {}
  /\ \A t, u \in dynamic : Key(t) = Key(u) => t = u
  /\ DOMAIN byName = Keys(Range(static)) \cup Keys(dynamic)
  /\ \A t \in Range(static) \cup dynamic : byName[Key(t)] = t

(* What is cached of a server that has not changed since it was fetched is *)
(* what the server lists.                                                  *)
CacheInv ==
  /\ clock \in 0 .. MaxTime
  /\ fetchedAt \in [ServerSet -> Int] /\ unsettled \in [ServerSet -> Nat]
  /\ \A s \in ServerSet :
       /\ fetchedAt[s] <= clock /\ unsettled[s] <= clock
       /\ unsettled[s] < fetchedAt[s] => cached[s] = Listing(s)

(* A call is judged and run under one snapshot.                            *)
TurnInv ==
  /\ turn # "running" => judged = None
  /\ turn = "running" =>
       /\ offered = Range(static) \cup dynamic
       /\ judged # None => /\ judged.origin = Origin(byName, judged.name)
                           /\ judged.readOnly = ReadOnly(byName, judged.name)

PortInv == MountInv /\ CacheInv /\ TurnInv
-----------------------------------------------------------------------------
(* A set of numbers with a member has a least one.                         *)
LEMMA LeastNat ==
  ASSUME NEW T \in SUBSET Nat, T # {}
  PROVE  \E x \in T : \A y \in T : x <= y
<1> DEFINE R == OpToRel(<, Nat)
<1>1. IsWellFoundedOn(R, Nat)
  BY NatLessThanWellFounded
<1>2. \E x \in T : \A y \in T : ~ (<<y, x>> \in R)
  <2> HIDE DEF R
  <2>1. QED
    BY <1>1, WFMin
<1>3. \A x, y \in Nat : y < x => <<y, x>> \in R
  BY DEF OpToRel
<1> HIDE DEF R
<1>4. PICK x \in T : \A y \in T : ~ (<<y, x>> \in R)
  BY <1>2
<1>5. \A y \in T : x \in Nat /\ y \in Nat /\ ~ (y < x)
  BY <1>3, <1>4
<1>6. QED
  BY <1>5

(* A mounted tool is found under its name.                                 *)
LEMMA MountedAt ==
  ASSUME NEW st, ~Collides(st)
  PROVE  /\ DOMAIN Mounted(st) = Keys(Range(st))
         /\ \A p \in DOMAIN st : Mounted(st)[Key(st[p])] = st[p]
<1>1. DOMAIN Mounted(st) = Keys(Range(st))
  BY DEF Mounted, Keys, Range
<1>2. ASSUME NEW p \in DOMAIN st PROVE Mounted(st)[Key(st[p])] = st[p]
  <2>1. PICK q \in DOMAIN st : q = (CHOOSE i \in DOMAIN st : Key(st[i]) = Key(st[p])) /\ Key(st[q]) = Key(st[p])
    OBVIOUS
  <2>2. q = p
    BY <2>1 DEF Collides
  <2>3. QED
    BY <2>1, <2>2 DEF Mounted
<1>3. QED
  BY <1>1, <1>2

(* The tool that gets a name is one that was listed under it.              *)
LEMMA FirstIsListed ==
  ASSUME NEW listed, \A p \in DOMAIN listed : p[1] \in Nat, NEW k, \E p \in DOMAIN listed : Key(listed[p]) = k
  PROVE  \E p \in DOMAIN listed : FirstListed(listed, k) = listed[p] /\ Key(listed[p]) = k
<1> DEFINE P == {p \in DOMAIN listed : Key(listed[p]) = k}
<1> DEFINE T == {p[1] : p \in P}
<1>1. T \in SUBSET Nat /\ T # {}
  OBVIOUS
<1>2. PICK n \in T : \A m \in T : n <= m
  BY <1>1, LeastNat
<1>3. PICK p \in P : p[1] = n
  BY <1>2
<1>4. \A q \in P : p[1] <= q[1]
  BY <1>2, <1>3
<1>5. (CHOOSE r \in P : \A q \in P : r[1] <= q[1]) \in P
  <2> HIDE DEF P
  <2>1. QED
    BY <1>3, <1>4
<1>6. QED
  BY <1>5 DEF FirstListed

(* What a turn begins with is mounted as it should be.                     *)
LEMMA SnapshotIs ==
  ASSUME NEW st, ~Collides(st), NEW off, Keys(Range(st)) \cap LowerAll(off) = {},
         NEW listed, \A p \in DOMAIN listed : p[1] \in Nat
  PROVE  LET dyn == Dynamic(st, listed, off)
             named == MountedWith(st, listed, off)
         IN  /\ Keys(dyn) \cap (Keys(Range(st)) \cup LowerAll(off)) = {}
             /\ \A t, u \in dyn : Key(t) = Key(u) => t = u
             /\ DOMAIN named = Keys(Range(st)) \cup Keys(dyn)
             /\ \A t \in Range(st) \cup dyn : named[Key(t)] = t
             /\ \A t \in dyn : \E p \in DOMAIN listed : t = listed[p]
             /\ \A p \in DOMAIN listed : Key(listed[p]) \in DOMAIN named \cup LowerAll(off)
<1> DEFINE dyn == Dynamic(st, listed, off)
           named == MountedWith(st, listed, off)
           new == NewKeys(st, listed, off)
<1>1. DOMAIN Mounted(st) = Keys(Range(st)) /\ \A p \in DOMAIN st : Mounted(st)[Key(st[p])] = st[p]
  BY MountedAt
<1>2. /\ \A k \in new : k \notin Keys(Range(st)) \cup LowerAll(off) /\ \E p \in DOMAIN listed : Key(listed[p]) = k
      /\ \A p \in DOMAIN listed : Key(listed[p]) \in new \cup Keys(Range(st)) \cup LowerAll(off)
  BY <1>1 DEF NewKeys
<1>3. \A k \in new : \E p \in DOMAIN listed : FirstListed(listed, k) = listed[p] /\ Key(listed[p]) = k
  BY <1>2, FirstIsListed
<1>4. \A k \in new : Key(FirstListed(listed, k)) = k
  BY <1>3
<1>5. dyn = {FirstListed(listed, k) : k \in new}
  BY DEF Dynamic
<1>6. /\ DOMAIN named = Keys(Range(st)) \cup new
      /\ \A k \in Keys(Range(st)) : named[k] = Mounted(st)[k]
      /\ \A k \in new : named[k] = FirstListed(listed, k)
  BY <1>1, <1>2 DEF MountedWith
<1> HIDE DEF dyn, named, new
<1>7. Keys(dyn) = new
  BY <1>4, <1>5 DEF Keys
<1>8. \A t \in dyn : named[Key(t)] = t
  BY <1>4, <1>5, <1>6
<1>9. \A t \in Range(st) : named[Key(t)] = t
  <2>1. SUFFICES ASSUME NEW p \in DOMAIN st PROVE named[Key(st[p])] = st[p]
    BY DEF Range
  <2>2. Key(st[p]) \in Keys(Range(st))
    BY DEF Keys, Range
  <2>3. QED
    BY <1>1, <1>6, <2>2
<1>10. \A t, u \in dyn : Key(t) = Key(u) => t = u
  BY <1>8
<1>11. \A t \in dyn : \E p \in DOMAIN listed : t = listed[p]
  BY <1>3, <1>5
<1>12. QED
  BY <1>2, <1>6, <1>7, <1>8, <1>9, <1>10, <1>11 DEF dyn, named
-----------------------------------------------------------------------------
(* The static tools are none of the disabled ones.                         *)
LEMMA StaticIsOn ==
  ASSUME NEW natives, NEW exts, NEW off
  PROVE  Keys(Range(Static(natives, exts, off))) \cap LowerAll(off) = {}
BY DEF Static, Keys, Range

LEMMA PortBegins == PortInit => PortInv
<1> SUFFICES ASSUME PortInit PROVE PortInv
  OBVIOUS
<1>1. ~Collides(static) /\ Keys(Range(static)) \cap LowerAll(disabled) = {}
  BY StaticIsOn DEF PortInit
<1>2. dynamic = {} /\ byName = Mounted(static)
  BY DEF PortInit
<1>3. MountInv
  <2>1. DOMAIN byName = Keys(Range(static)) /\ \A p \in DOMAIN static : byName[Key(static[p])] = static[p]
    BY <1>1, <1>2, MountedAt
  <2>2. \A t \in Range(static) : byName[Key(t)] = t
    BY <2>1 DEF Range
  <2>3. Keys(dynamic) = {}
    BY <1>2 DEF Keys
  <2>4. QED
    BY <1>1, <1>2, <2>1, <2>2, <2>3 DEF MountInv
<1>4. CacheInv
  BY PortAssumption DEF PortInit, CacheInv
<1>5. TurnInv
  BY DEF PortInit, TurnInv
<1>6. QED
  BY <1>3, <1>4, <1>5 DEF PortInv

(* The listing of a turn that begins.                                      *)
LEMMA CurrentToolsAre ==
  ASSUME NEW gone \in BOOLEAN
  PROVE  /\ \A p \in DOMAIN CurrentTools(gone) :
              /\ p[1] \in Nat /\ open /\ Servers[p[1]] \in ServerSet
              /\ p[2] \in Lists(Servers[p[1]], gone)
              /\ CurrentTools(gone)[p] = McpTool(Servers[p[1]], p[2])
         /\ open => \A s \in ServerSet : \A t \in Lists(s, gone) :
              \E p \in DOMAIN CurrentTools(gone) : CurrentTools(gone)[p] = McpTool(s, t)
<1> DEFINE on == UNION {{i} \X Lists(Servers[i], gone) : i \in IF open THEN DOMAIN Servers ELSE {}}
<1>1. DOMAIN CurrentTools(gone) = on /\ \A p \in on : CurrentTools(gone)[p] = McpTool(Servers[p[1]], p[2])
  BY DEF CurrentTools
<1>2. \A p \in on : open /\ p[1] \in DOMAIN Servers /\ p[2] \in Lists(Servers[p[1]], gone)
  OBVIOUS
<1>3. \A i \in DOMAIN Servers : i \in Nat /\ Servers[i] \in ServerSet
  <2>1. DOMAIN Servers = 1 .. Len(Servers) /\ Len(Servers) \in Nat
    BY PortAssumption
  <2>2. QED
    BY <2>1 DEF ServerSet, Range
<1>4. ASSUME open, NEW s \in ServerSet, NEW t \in Lists(s, gone)
      PROVE  \E p \in on : p[1] \in DOMAIN Servers /\ Servers[p[1]] = s /\ p[2] = t
  <2>1. PICK i \in DOMAIN Servers : Servers[i] = s
    BY DEF ServerSet, Range
  <2>2. <<i, t>> \in on
    BY <1>4, <2>1
  <2>3. QED
    BY <2>1, <2>2
<1> HIDE DEF on
<1>5. QED
  BY <1>1, <1>2, <1>3, <1>4-----------------------------------------------------------------------------
LEMMA BeginTurnMounts ==
  ASSUME PortInv, NEW gone \in BOOLEAN, BeginTurn(gone)
  PROVE  /\ MountInv'
         /\ \A t \in dynamic' : \E p \in DOMAIN CurrentTools(gone) : t = CurrentTools(gone)[p]
         /\ \A p \in DOMAIN CurrentTools(gone) :
              Key(CurrentTools(gone)[p]) \in DOMAIN byName' \cup LowerAll(disabled)
<1> DEFINE listed == CurrentTools(gone)
<1>u. /\ static' = static /\ disabled' = disabled
      /\ dynamic' = Dynamic(static, listed, disabled) /\ byName' = MountedWith(static, listed, disabled)
  BY DEF BeginTurn
<1>1. \A p \in DOMAIN listed : p[1] \in Nat
  BY CurrentToolsAre
<1>2. ~Collides(static) /\ Keys(Range(static)) \cap LowerAll(disabled) = {}
  BY DEF PortInv, MountInv
<1> HIDE DEF listed
<1>3. /\ Keys(dynamic') \cap (Keys(Range(static)) \cup LowerAll(disabled)) = {}
      /\ \A t, u \in dynamic' : Key(t) = Key(u) => t = u
      /\ DOMAIN byName' = Keys(Range(static)) \cup Keys(dynamic')
      /\ \A t \in Range(static) \cup dynamic' : byName'[Key(t)] = t
      /\ \A t \in dynamic' : \E p \in DOMAIN listed : t = listed[p]
      /\ \A p \in DOMAIN listed : Key(listed[p]) \in DOMAIN byName' \cup LowerAll(disabled)
  BY <1>u, <1>1, <1>2, SnapshotIs
<1>4. MountInv'
  BY <1>u, <1>2, <1>3 DEF MountInv
<1>5. QED
  BY <1>3, <1>4 DEF listed

(* The cache after a listing.                                              *)
LEMMA BeginTurnCaches ==
  ASSUME PortInv, NEW gone \in BOOLEAN, BeginTurn(gone)
  PROVE  CacheInv'
<1>u. /\ clock' = clock /\ world' = world
      /\ unsettled' = [s \in ServerSet |-> IF gone /\ open /\ ~Fresh(s) THEN clock ELSE unsettled[s]]
      /\ Fetched(gone)
  BY DEF BeginTurn
<1>t. /\ clock \in Nat /\ clock \in 0 .. MaxTime
      /\ fetchedAt \in [ServerSet -> Int] /\ unsettled \in [ServerSet -> Nat]
      /\ \A s \in ServerSet : /\ fetchedAt[s] <= clock /\ unsettled[s] <= clock
                              /\ unsettled[s] < fetchedAt[s] => cached[s] = Listing(s)
  BY PortAssumption DEF PortInv, CacheInv
<1>1. \A s \in ServerSet : Listing(s)' = Listing(s)
  BY <1>u DEF Listing
<1>2. unsettled' \in [ServerSet -> Nat] /\ \A s \in ServerSet : unsettled'[s] <= clock
  BY <1>u, <1>t
<1>3. CASE open
  <2>1. /\ cached' = [s \in ServerSet |-> Lists(s, gone)]
        /\ fetchedAt' = [s \in ServerSet |-> IF Fresh(s) THEN fetchedAt[s] ELSE clock]
    BY <1>u, <1>3 DEF Fetched
  <2>2. fetchedAt' \in [ServerSet -> Int] /\ \A s \in ServerSet : fetchedAt'[s] <= clock
    BY <2>1, <1>t
  <2>3. ASSUME NEW s \in ServerSet, unsettled'[s] < fetchedAt'[s] PROVE cached'[s] = Listing(s)
    <3>1. CASE Fresh(s)
      <4>1. unsettled[s] < fetchedAt[s]
        BY <1>u, <2>1, <2>3, <3>1
      <4>2. cached'[s] = cached[s]
        BY <2>1, <3>1 DEF Lists
      <4>3. QED
        BY <1>t, <4>1, <4>2
    <3>2. CASE ~Fresh(s)
      <4>1. ~gone
        BY <1>u, <1>3, <1>t, <2>1, <2>3, <3>2
      <4>2. QED
        BY <2>1, <3>2, <4>1 DEF Lists, Listing
    <3>3. QED
      BY <3>1, <3>2
  <2>4. QED
    BY <1>u, <1>t, <1>1, <1>2, <2>2, <2>3 DEF CacheInv
<1>4. CASE ~open
  <2>1. cached' = cached /\ fetchedAt' = fetchedAt /\ \A s \in ServerSet : unsettled'[s] = unsettled[s]
    BY <1>u, <1>4 DEF Fetched, cacheVars
  <2>2. QED
    BY <1>u, <1>t, <1>1, <1>2, <2>1 DEF CacheInv
<1>5. QED
  BY <1>3, <1>4

LEMMA BeginTurnStep ==
  ASSUME PortInv, NEW gone \in BOOLEAN, BeginTurn(gone)
  PROVE  PortInv'
<1>1. TurnInv'
  BY DEF BeginTurn, PortInv, TurnInv
<1>2. QED
  BY <1>1, BeginTurnMounts, BeginTurnCaches DEF PortInv

LEMMA ServerStep ==
  ASSUME PortInv, NEW s \in ServerSet, ServerChanges(s)
  PROVE  PortInv'
<1>u. /\ unsettled' = [unsettled EXCEPT ![s] = clock] /\ clock' = clock
      /\ \A r \in ServerSet \ {s} : world'[r] = world[r]
      /\ fetchedAt' = fetchedAt /\ cached' = cached
      /\ UNCHANGED <<mountVars, turnVars>>
  <2>1. PICK w : world' = [world EXCEPT ![s] = w]
    BY DEF ServerChanges
  <2>2. \A r \in ServerSet \ {s} : world'[r] = world[r]
    BY <2>1
  <2>3. QED
    BY <2>2 DEF ServerChanges, cacheVars
<1>t. /\ clock \in Nat /\ clock \in 0 .. MaxTime
      /\ fetchedAt \in [ServerSet -> Int] /\ unsettled \in [ServerSet -> Nat]
      /\ \A r \in ServerSet : /\ fetchedAt[r] <= clock /\ unsettled[r] <= clock
                              /\ unsettled[r] < fetchedAt[r] => cached[r] = Listing(r)
  BY PortAssumption DEF PortInv, CacheInv
<1>1. MountInv'
  BY <1>u DEF PortInv, MountInv, mountVars
<1>2. TurnInv'
  BY <1>u DEF PortInv, TurnInv, mountVars, turnVars
<1>3. CacheInv'
  <2>1. \A r \in ServerSet \ {s} : Listing(r)' = Listing(r) /\ unsettled'[r] = unsettled[r]
    BY <1>u, <1>t DEF Listing
  <2>2. unsettled' \in [ServerSet -> Nat] /\ unsettled'[s] = clock
    BY <1>u, <1>t
  <2>3. ASSUME NEW r \in ServerSet
        PROVE  /\ fetchedAt'[r] <= clock' /\ unsettled'[r] <= clock'
               /\ unsettled'[r] < fetchedAt'[r] => cached'[r] = Listing(r)'
    <3>1. CASE r = s
      <4>1. fetchedAt[s] <= clock /\ fetchedAt[s] \in Int
        BY <1>t
      <4>2. QED
        BY <1>u, <1>t, <2>2, <3>1, <4>1
    <3>2. CASE r # s
      BY <1>u, <1>t, <2>1, <3>2
    <3>3. QED
      BY <3>1, <3>2
  <2>4. QED
    BY <1>u, <1>t, <2>2, <2>3 DEF CacheInv
<1>4. QED
  BY <1>1, <1>2, <1>3 DEF PortInv

LEMMA TimeStep == PortInv /\ TimePasses => PortInv'
<1> SUFFICES ASSUME PortInv, TimePasses PROVE PortInv'
  OBVIOUS
<1>u. /\ clock < MaxTime /\ clock' = clock + 1
      /\ UNCHANGED <<mountVars, turnVars>> /\ UNCHANGED <<world, cached, fetchedAt, unsettled>>
  BY DEF TimePasses, cacheVars
<1>1. MountInv' /\ TurnInv'
  BY <1>u DEF PortInv, MountInv, TurnInv, mountVars, turnVars
<1>2. CacheInv'
  BY <1>u, PortAssumption DEF PortInv, CacheInv, Listing
<1>3. QED
  BY <1>1, <1>2 DEF PortInv

(* The turn goes on, or the session ends: nothing is mounted or cached.    *)
LEMMA TurnStep ==
  ASSUME PortInv, SessionEnd \/ Offer \/ Execute \/ EndTurn \/ (\E n \in Names : Judge(n))
  PROVE  PortInv'
<1>1. UNCHANGED <<mountVars, clock, world, cached, fetchedAt, unsettled>>
  BY DEF SessionEnd, Offer, Execute, EndTurn, Judge, worldVars, cacheVars, mountVars
<1>2. MountInv' /\ CacheInv'
  BY <1>1 DEF PortInv, MountInv, CacheInv, Listing, mountVars
<1>3. TurnInv'
  <2>1. CASE SessionEnd
    BY <2>1 DEF SessionEnd, PortInv, TurnInv, mountVars, turnVars
  <2>2. CASE Offer
    BY <2>2 DEF Offer, PortInv, TurnInv, mountVars
  <2>3. CASE Execute
    BY <2>3 DEF Execute, PortInv, TurnInv, mountVars
  <2>4. CASE EndTurn
    BY <2>4 DEF EndTurn, PortInv, TurnInv, mountVars
  <2>5. ASSUME NEW n \in Names, Judge(n) PROVE TurnInv'
    <3>1. judged' = [name |-> n, origin |-> Origin(byName, n), readOnly |-> ReadOnly(byName, n)]
      BY <2>5 DEF Judge
    <3>2. judged'.origin = Origin(byName, judged'.name) /\ judged'.readOnly = ReadOnly(byName, judged'.name)
      BY <3>1
    <3>3. QED
      BY <2>5, <3>2 DEF Judge, PortInv, TurnInv, mountVars
  <2>6. QED
    BY <2>1, <2>2, <2>3, <2>4, <2>5
<1>4. QED
  BY <1>2, <1>3 DEF PortInv

LEMMA PortStep == PortInv /\ [PortNext]_portVars => PortInv'
<1> SUFFICES ASSUME PortInv, [PortNext]_portVars PROVE PortInv'
  OBVIOUS
<1>1. CASE UNCHANGED portVars
  BY <1>1 DEF portVars, PortInv, MountInv, CacheInv, TurnInv, Listing
<1>2. QED
  BY <1>1, ServerStep, TimeStep, BeginTurnStep, TurnStep DEF PortNext

(* A turn that begins serves what every server that is settled lists.      *)
LEMMA SettledServed ==
  ASSUME PortInv, NEW gone \in BOOLEAN, BeginTurn(gone), open' = TRUE
  PROVE  ServesSettled'
<1>u. /\ clock' = clock /\ world' = world /\ disabled' = disabled /\ open' = open
      /\ unsettled' = [s \in ServerSet |-> IF gone /\ open /\ ~Fresh(s) THEN clock ELSE unsettled[s]]
  BY DEF BeginTurn
<1>t. /\ clock \in Nat /\ TTL \in Nat \ {0}
      /\ fetchedAt \in [ServerSet -> Int] /\ unsettled \in [ServerSet -> Nat]
      /\ \A s \in ServerSet : unsettled[s] < fetchedAt[s] => cached[s] = Listing(s)
  BY PortAssumption DEF PortInv, CacheInv
<1>1. SUFFICES ASSUME NEW s \in ServerSet, clock - unsettled'[s] >= TTL
               PROVE  /\ \A t \in Listing(s) :
                           Lower[PrefixedName[<<s, t>>]] \in DOMAIN byName' \cup LowerAll(disabled)
                      /\ \A t \in dynamic' : t.origin = s => t.tool \in Listing(s)
  BY <1>u DEF ServesSettled, Listing
<1>2. Lists(s, gone) = Listing(s)
  <2>1. CASE Fresh(s)
    <3>1. unsettled'[s] = unsettled[s]
      BY <1>u, <2>1
    <3>2. clock - fetchedAt[s] < TTL
      BY <2>1 DEF Fresh
    <3>3. unsettled[s] < fetchedAt[s]
      BY <1>1, <1>t, <3>1, <3>2
    <3>4. QED
      BY <1>t, <2>1, <3>3 DEF Lists
  <2>2. CASE ~Fresh(s)
    <3>1. ~gone
      <4>1. gone => unsettled'[s] = clock
        BY <1>u, <2>2
      <4>2. QED
        BY <1>1, <1>t, <4>1
    <3>2. QED
      BY <2>2, <3>1 DEF Lists, Listing
  <2>3. QED
    BY <2>1, <2>2
<1>3. ASSUME NEW t \in Listing(s)
      PROVE  Lower[PrefixedName[<<s, t>>]] \in DOMAIN byName' \cup LowerAll(disabled)
  <2>1. PICK p \in DOMAIN CurrentTools(gone) : CurrentTools(gone)[p] = McpTool(s, t)
    BY <1>u, <1>2, <1>3, CurrentToolsAre
  <2>2. Key(McpTool(s, t)) = Lower[PrefixedName[<<s, t>>]]
    BY DEF Key, McpTool
  <2>3. QED
    BY <2>1, <2>2, BeginTurnMounts
<1>4. ASSUME NEW t \in dynamic', t.origin = s PROVE t.tool \in Listing(s)
  <2>1. PICK p \in DOMAIN CurrentTools(gone) : t = CurrentTools(gone)[p]
    BY BeginTurnMounts
  <2>2. t = McpTool(Servers[p[1]], p[2]) /\ p[2] \in Lists(Servers[p[1]], gone)
    BY <2>1, CurrentToolsAre
  <2>3. t.origin = Servers[p[1]] /\ t.tool = p[2]
    BY <2>2 DEF McpTool
  <2>4. QED
    BY <1>2, <1>4, <2>2, <2>3
<1>5. QED
  BY <1>3, <1>4

(* While a turn runs each tool offered is the tool called, a call runs as  *)
(* what it was judged, and a server that has kept its tools for longer     *)
(* than the cache does is served as it is.                                 *)
THEOREM PortStaysSteady == PortSpec => PortIsSteady
<1>1. PortInv => PortTypeOK /\ CallsStayPut
  <2> SUFFICES ASSUME PortInv PROVE PortTypeOK /\ CallsStayPut
    OBVIOUS
  <2>1. Range(byName) = Range(static) \cup dynamic
    <3>1. \A k \in DOMAIN byName : \E t \in Range(static) \cup dynamic : k = Key(t) /\ byName[k] = t
      BY DEF PortInv, MountInv, Keys
    <3>2. \A t \in Range(static) \cup dynamic : Key(t) \in DOMAIN byName /\ byName[Key(t)] = t
      BY DEF PortInv, MountInv, Keys
    <3>3. QED
      BY <3>1, <3>2 DEF Range
  <2>2. PortTypeOK
    BY <2>1 DEF PortInv, MountInv, CacheInv, PortTypeOK
  <2>3. CallsStayPut
    <3>1. \A t \in Range(static) \cup dynamic : Key(t) \in DOMAIN byName /\ byName[Key(t)] = t
      BY DEF PortInv, MountInv, Keys
    <3>2. QED
      BY <3>1 DEF PortInv, TurnInv, CallsStayPut, Mounts, Key
  <2>4. QED
    BY <2>2, <2>3
<1>2. PortInv /\ [PortNext]_portVars =>
        [turn = "idle" /\ turn' = "begun" /\ open => ServesSettled']_portVars
  <2> SUFFICES ASSUME PortInv, PortNext, turn = "idle", turn' = "begun", open PROVE ServesSettled'
    BY DEF portVars
  <2>1. \E gone \in BOOLEAN : BeginTurn(gone)
    BY DEF PortNext, ServerChanges, TimePasses, SessionEnd, Offer, Execute, EndTurn, Judge, turnVars
  <2>2. QED
    BY <2>1, SettledServed DEF BeginTurn
<1>3. QED
  BY <1>1, <1>2, PortBegins, PortStep, PTL DEF PortSpec, PortIsSteady, SettledIsServed
-----------------------------------------------------------------------------
(* The agents of a session: AgentTree.                                     *)
Phases == {"iterate", "model", "spawning", "waiting"}

(* What the agents are made of: the first is the main agent, the others    *)
(* are children, each a level below the one that spawned it.               *)
ToolsOf(o, i) == Mounted(IF i = 1 THEN MainStatic(o) ELSE ChildStatic(o, i - 1))
ExtsOf(o, i)  == ExtNames(IF i = 1 THEN MainExtensions(o) ELSE ChildExtensions(o, i - 1))

AgentIs(o, a, i) ==
  /\ a.tools = ToolsOf(o, i) /\ a.exts = ExtsOf(o, i) /\ a.phase \in Phases
  /\ a.id \in Seq(Nat) /\ Len(a.id) = i

Records(o) == [id : Seq(Nat), exts : {ExtsOf(o, i) : i \in Nat}, tools : {ToolsOf(o, i) : i \in Nat},
               cap : Int, iteration : Int, phase : Phases]

AgentsAre(o, run, told) ==
  /\ o \in Settings /\ ~Collides(MainStatic(o))
  /\ run \in Seq(Records(o))
  /\ \A i \in 1 .. Len(run) : AgentIs(o, run[i], i)
  /\ \A i \in 1 .. Len(run) : i < Len(run) <=> run[i].phase = "waiting"
  /\ \A i \in 1 .. Len(run) : run[i].phase \in {"spawning", "waiting"} => i <= o.depth
  /\ \A i \in 2 .. Len(run) : run[i].id = Append(run[i - 1].id, run[i].id[i])
  /\ told = {run[i].id : i \in 2 .. Len(run)}

TreeInv == AgentsAre(options, agents, announced) /\ GuardsSeeEveryCall /\ ReadOnlyHolds
-----------------------------------------------------------------------------
(* Lists of extensions, put together.                                      *)
OwnNames == STRING \cup {"read-only", "permissions", "tool-call-gate", "advisor-gate", "systemone",
                         "systemone-child", "reminders", "budgets", "skills", "blackboard", "subagents"}
OwnOrigins == STRING \cup {"native", "skills", "blackboard", "subagents"}
AnyTool == [name : Names, origin : OwnOrigins, readOnly : BOOLEAN]
Extension == [name : OwnNames, tools : Seq(AnyTool)]

LEMMA RangeOfCat ==
  ASSUME NEW s \in Seq(Extension), NEW t \in Seq(Extension)
  PROVE  s \o t \in Seq(Extension) /\ Range(s \o t) = Range(s) \cup Range(t)
<1>1. /\ s \o t \in Seq(Extension) /\ Len(s \o t) = Len(s) + Len(t)
      /\ DOMAIN s = 1 .. Len(s) /\ DOMAIN t = 1 .. Len(t) /\ DOMAIN (s \o t) = 1 .. Len(s \o t)
      /\ Len(s) \in Nat /\ Len(t) \in Nat
  OBVIOUS
<1>2. \A i \in 1 .. Len(s) : i \in 1 .. Len(s \o t) /\ (s \o t)[i] = s[i]
  BY <1>1
<1>3. \A i \in 1 .. Len(t) : Len(s) + i \in 1 .. Len(s \o t) /\ (s \o t)[Len(s) + i] = t[i]
  BY <1>1
<1>4. ASSUME NEW i \in 1 .. Len(s \o t)
      PROVE  (s \o t)[i] \in Range(s) \cup Range(t)
  <2>1. CASE i \in 1 .. Len(s)
    BY <2>1, <1>1, <1>2 DEF Range
  <2>2. CASE i \notin 1 .. Len(s)
    <3>1. i - Len(s) \in 1 .. Len(t) /\ i = Len(s) + (i - Len(s))
      BY <1>1, <2>2
    <3>2. QED
      BY <1>1, <1>3, <3>1 DEF Range
  <2>3. QED
    BY <2>1, <2>2
<1> DEFINE u == s \o t
<1>5. /\ DOMAIN u = 1 .. Len(u)
      /\ \A i \in 1 .. Len(s) : i \in 1 .. Len(u) /\ u[i] = s[i]
      /\ \A i \in 1 .. Len(t) : Len(s) + i \in 1 .. Len(u) /\ u[Len(s) + i] = t[i]
      /\ \A i \in 1 .. Len(u) : u[i] \in Range(s) \cup Range(t)
  BY <1>1, <1>2, <1>3, <1>4
<1> HIDE DEF u
<1>6. Range(u) \subseteq Range(s) \cup Range(t)
  BY <1>5 DEF Range
<1>7. Range(s) \subseteq Range(u)
  BY <1>1, <1>5 DEF Range
<1>8. Range(t) \subseteq Range(u)
  BY <1>1, <1>5 DEF Range
<1>9. Range(u) = Range(s) \cup Range(t)
  BY <1>6, <1>7, <1>8
<1>10. QED
  BY <1>1, <1>9 DEF u

LEMMA RangeOfIf ==
  ASSUME NEW c \in BOOLEAN, NEW e \in Extension
  PROVE  If(c, e) \in Seq(Extension) /\ Range(If(c, e)) = {x \in {e} : c}
BY DEF If, Range

LEMMA RangeOfOne ==
  ASSUME NEW e \in Extension
  PROVE  <<e>> \in Seq(Extension) /\ Range(<<e>>) = {e}
BY DEF Range

LEMMA NamesOfRange == \A exts : ExtNames(exts) = {e.name : e \in Range(exts)}
BY DEF ExtNames, Range

(* The extensions the harness adds.                                        *)
LEMMA ExtensionsAre ==
  /\ \A n \in OwnNames : Ext(n, <<>>) \in Extension
  /\ Skills \in Extension /\ Board \in Extension /\ Subagents \in Extension
<1>1. SkillTools[1] \in AnyTool /\ SkillTools[2] \in AnyTool /\ ReplTool \in AnyTool /\ SpawnTool \in AnyTool
  BY TreeAssumption DEF SkillTools, ReplTool, SpawnTool, Tool, BuiltinNames, AnyTool, OwnOrigins
<1>2. SkillTools = <<SkillTools[1], SkillTools[2]>>
  BY DEF SkillTools
<1>3. SkillTools \in Seq(AnyTool)
  <2>1. \A x, y \in AnyTool : <<x, y>> \in Seq(AnyTool)
    OBVIOUS
  <2>2. QED
    BY <1>1, <1>2, <2>1
<1>4. <<ReplTool>> \in Seq(AnyTool) /\ <<SpawnTool>> \in Seq(AnyTool) /\ <<>> \in Seq(AnyTool)
  BY <1>1
<1>5. \A n \in OwnNames, ts \in Seq(AnyTool) : Ext(n, ts) \in Extension
  BY DEF Ext, Extension
<1>6. QED
  BY <1>3, <1>4, <1>5 DEF Skills, Board, Subagents, OwnNames

LEMMA ExtrasOfChild ==
  ASSUME NEW o \in Settings
  PROVE  /\ ChildExtras(o) \in Seq(Extension)
         /\ Range(ChildExtras(o)) =
              {x \in {Ext("read-only", <<>>)} : o.readOnly} \cup {x \in {Ext("tool-call-gate", <<>>)} : o.gate}
                \cup {x \in {Ext("systemone-child", <<>>)} : o.systemOne}
<1>1. o.readOnly \in BOOLEAN /\ o.gate \in BOOLEAN /\ o.systemOne \in BOOLEAN
  BY TreeAssumption
<1> DEFINE a == If(o.readOnly, Ext("read-only", <<>>))
           b == If(o.gate, Ext("tool-call-gate", <<>>))
           c == If(o.systemOne, Ext("systemone-child", <<>>))
<1>2. a \in Seq(Extension) /\ Range(a) = {x \in {Ext("read-only", <<>>)} : o.readOnly}
  <2>1. Ext("read-only", <<>>) \in Extension
    BY ExtensionsAre DEF OwnNames
  <2>2. QED
    BY <1>1, <2>1, RangeOfIf
<1>3. b \in Seq(Extension) /\ Range(b) = {x \in {Ext("tool-call-gate", <<>>)} : o.gate}
  <2>1. Ext("tool-call-gate", <<>>) \in Extension
    BY ExtensionsAre DEF OwnNames
  <2>2. QED
    BY <1>1, <2>1, RangeOfIf
<1>4. c \in Seq(Extension) /\ Range(c) = {x \in {Ext("systemone-child", <<>>)} : o.systemOne}
  <2>1. Ext("systemone-child", <<>>) \in Extension
    BY ExtensionsAre DEF OwnNames
  <2>2. QED
    BY <1>1, <2>1, RangeOfIf
<1>5. ChildExtras(o) = (a \o b) \o c
  BY DEF ChildExtras
<1> HIDE DEF a, b, c
<1>6. a \o b \in Seq(Extension) /\ Range(a \o b) = Range(a) \cup Range(b)
  BY <1>2, <1>3, RangeOfCat
<1>7. (a \o b) \o c \in Seq(Extension) /\ Range((a \o b) \o c) = Range(a \o b) \cup Range(c)
  BY <1>4, <1>6, RangeOfCat
<1>8. QED
  BY <1>2, <1>3, <1>4, <1>5, <1>6, <1>7

LEMMA ExtensionsOfChild ==
  ASSUME NEW o \in Settings, NEW d \in Nat
  PROVE  /\ ChildExtensions(o, d) \in Seq(Extension)
         /\ Range(ChildExtensions(o, d)) =
              {Ext("reminders", <<>>), Ext("budgets", <<>>), Skills, Board} \cup Range(ChildExtras(o))
                \cup {x \in {Subagents} : d < o.depth}
<1>1. o.depth \in Int
  BY TreeAssumption
<1> DEFINE a == <<Ext("reminders", <<>>), Ext("budgets", <<>>), Skills>>
           b == ChildExtras(o)
           c == <<Board>>
           e == If(d < o.depth, Subagents)
<1>2. a \in Seq(Extension) /\ Range(a) = {Ext("reminders", <<>>), Ext("budgets", <<>>), Skills}
  <2>1. Ext("reminders", <<>>) \in Extension /\ Ext("budgets", <<>>) \in Extension /\ Skills \in Extension
    BY ExtensionsAre DEF OwnNames
  <2>2. a \in Seq(Extension) /\ DOMAIN a = {1, 2, 3}
    BY <2>1
  <2>3. QED
    BY <2>2 DEF Range
<1>3. b \in Seq(Extension)
  BY ExtrasOfChild
<1>4. c \in Seq(Extension) /\ Range(c) = {Board}
  BY ExtensionsAre, RangeOfOne
<1>5. e \in Seq(Extension) /\ Range(e) = {x \in {Subagents} : d < o.depth}
  <2>1. Subagents \in Extension /\ (d < o.depth) \in BOOLEAN
    BY ExtensionsAre
  <2>2. QED
    BY <2>1, RangeOfIf
<1>6. ChildExtensions(o, d) = ((a \o b) \o c) \o e
  BY DEF ChildExtensions
<1>7. Range(ChildExtras(o)) = Range(b)
  OBVIOUS
<1> HIDE DEF a, b, c, e
<1>8. a \o b \in Seq(Extension) /\ Range(a \o b) = Range(a) \cup Range(b)
  BY <1>2, <1>3, RangeOfCat
<1>9. (a \o b) \o c \in Seq(Extension) /\ Range((a \o b) \o c) = Range(a \o b) \cup Range(c)
  BY <1>4, <1>8, RangeOfCat
<1>10. /\ ((a \o b) \o c) \o e \in Seq(Extension)
       /\ Range(((a \o b) \o c) \o e) = Range((a \o b) \o c) \cup Range(e)
  BY <1>5, <1>9, RangeOfCat
<1>11. QED
  BY <1>2, <1>4, <1>5, <1>6, <1>7, <1>8, <1>9, <1>10
LEMMA ExtensionsOfUser ==
  ASSUME NEW o \in Settings
  PROVE  /\ o.extensions \in Seq(Extension)
         /\ \A e \in Range(o.extensions) : e.tools \in Seq(AddedTools)
<1> DEFINE U == [name : STRING, tools : Seq(AddedTools)]
<1>1. o.extensions \in Seq(U)
  BY TreeAssumption
<1>2. AddedTools \subseteq AnyTool
  BY DEF AddedTools, AnyTool, OwnOrigins
<1>3. Seq(AddedTools) \subseteq Seq(AnyTool)
  <2>1. SUFFICES ASSUME NEW s \in Seq(AddedTools) PROVE s \in Seq(AnyTool)
    OBVIOUS
  <2>2. Len(s) \in Nat /\ s \in [1 .. Len(s) -> AddedTools]
    OBVIOUS
  <2>3. s \in [1 .. Len(s) -> AnyTool]
    BY <1>2, <2>2
  <2>4. QED
    BY <2>2, <2>3
<1>4. U \subseteq Extension
  BY <1>3 DEF Extension, OwnNames
<1> HIDE DEF U
<1>5. Len(o.extensions) \in Nat /\ o.extensions \in [1 .. Len(o.extensions) -> U]
  BY <1>1
<1>6. o.extensions \in [1 .. Len(o.extensions) -> Extension]
  BY <1>4, <1>5
<1>7. o.extensions \in Seq(Extension)
  BY <1>5, <1>6
<1>8. Range(o.extensions) \subseteq U
  BY <1>5 DEF Range
<1>9. QED
  BY <1>7, <1>8 DEF U

LEMMA ExtensionsOfMain ==
  ASSUME NEW o \in Settings
  PROVE  /\ MainExtensions(o) \in Seq(Extension)
         /\ Range(MainExtensions(o)) =
              UNION {
                {x \in {Ext("read-only", <<>>)} : o.readOnly} \cup {x \in {Ext("permissions", <<>>)} : ~o.readOnly /\ o.permissions},
                {x \in {Ext("tool-call-gate", <<>>)} : o.gate},
                {x \in {Ext("advisor-gate", <<>>)} : o.advisor},
                {x \in {Ext("systemone", <<>>)} : o.systemOne},
                {Ext("reminders", <<>>)},
                {x \in {Skills} : "load_skill" \notin LowerAll(o.disabled)},
                {x \in {Ext("budgets", <<>>)} : o.budget > 0},
                {Board},
                {x \in {Subagents} : o.depth > 0},
                Range(o.extensions)}
<1>1. /\ o.readOnly \in BOOLEAN /\ o.permissions \in BOOLEAN /\ o.gate \in BOOLEAN
      /\ o.advisor \in BOOLEAN /\ o.systemOne \in BOOLEAN /\ o.budget \in Int /\ o.depth \in Int
  BY TreeAssumption
<1> DEFINE a == Guard(o)
           b == If(o.gate, Ext("tool-call-gate", <<>>))
           c == If(o.advisor, Ext("advisor-gate", <<>>))
           d == If(o.systemOne, Ext("systemone", <<>>))
           e == <<Ext("reminders", <<>>)>>
           f == If("load_skill" \notin LowerAll(o.disabled), Skills)
           g == If(o.budget > 0, Ext("budgets", <<>>))
           h == <<Board>>
           i == If(o.depth > 0, Subagents)
           j == o.extensions
<1>2. a \in Seq(Extension) /\ Range(a) = {x \in {Ext("read-only", <<>>)} : o.readOnly} \cup {x \in {Ext("permissions", <<>>)} : ~o.readOnly /\ o.permissions}
  <2>1. Ext("read-only", <<>>) \in Extension /\ Ext("permissions", <<>>) \in Extension
    BY ExtensionsAre DEF OwnNames
  <2>2. CASE o.readOnly
    BY <2>1, <2>2, RangeOfOne DEF Guard
  <2>3. CASE ~o.readOnly
    <3>1. a = If(o.permissions, Ext("permissions", <<>>))
      BY <2>3 DEF Guard
    <3>2. QED
      BY <1>1, <2>1, <2>3, <3>1, RangeOfIf
  <2>4. QED
    BY <1>1, <2>2, <2>3
<1>3. b \in Seq(Extension) /\ Range(b) = {x \in {Ext("tool-call-gate", <<>>)} : o.gate}
  <2>1. Ext("tool-call-gate", <<>>) \in Extension
    BY <1>1, ExtensionsAre DEF OwnNames
  <2>2. QED
    BY <1>1, <2>1, RangeOfIf
<1>4. c \in Seq(Extension) /\ Range(c) = {x \in {Ext("advisor-gate", <<>>)} : o.advisor}
  <2>1. Ext("advisor-gate", <<>>) \in Extension
    BY <1>1, ExtensionsAre DEF OwnNames
  <2>2. QED
    BY <1>1, <2>1, RangeOfIf
<1>5. d \in Seq(Extension) /\ Range(d) = {x \in {Ext("systemone", <<>>)} : o.systemOne}
  <2>1. Ext("systemone", <<>>) \in Extension
    BY <1>1, ExtensionsAre DEF OwnNames
  <2>2. QED
    BY <1>1, <2>1, RangeOfIf
<1>6. e \in Seq(Extension) /\ Range(e) = {Ext("reminders", <<>>)}
  <2>1. Ext("reminders", <<>>) \in Extension
    BY <1>1, ExtensionsAre DEF OwnNames
  <2>2. QED
    BY <1>1, <2>1, RangeOfOne
<1>7. f \in Seq(Extension) /\ Range(f) = {x \in {Skills} : "load_skill" \notin LowerAll(o.disabled)}
  <2>1. Skills \in Extension /\ ("load_skill" \notin LowerAll(o.disabled)) \in BOOLEAN
    BY <1>1, ExtensionsAre DEF OwnNames
  <2>2. QED
    BY <1>1, <2>1, RangeOfIf
<1>8. g \in Seq(Extension) /\ Range(g) = {x \in {Ext("budgets", <<>>)} : o.budget > 0}
  <2>1. Ext("budgets", <<>>) \in Extension /\ (o.budget > 0) \in BOOLEAN
    BY <1>1, ExtensionsAre DEF OwnNames
  <2>2. QED
    BY <1>1, <2>1, RangeOfIf
<1>9. h \in Seq(Extension) /\ Range(h) = {Board}
  <2>1. Board \in Extension
    BY <1>1, ExtensionsAre DEF OwnNames
  <2>2. QED
    BY <1>1, <2>1, RangeOfOne
<1>10. i \in Seq(Extension) /\ Range(i) = {x \in {Subagents} : o.depth > 0}
  <2>1. Subagents \in Extension /\ (o.depth > 0) \in BOOLEAN
    BY <1>1, ExtensionsAre DEF OwnNames
  <2>2. QED
    BY <1>1, <2>1, RangeOfIf
<1>11. j \in Seq(Extension) /\ Range(j) = Range(o.extensions)
  BY ExtensionsOfUser
<1>12. MainExtensions(o) = ((((((((a \o b) \o c) \o d) \o e) \o f) \o g) \o h) \o i) \o j
  BY DEF MainExtensions
<1> DEFINE s2 == a \o b
           s3 == s2 \o c
           s4 == s3 \o d
           s5 == s4 \o e
           s6 == s5 \o f
           s7 == s6 \o g
           s8 == s7 \o h
           s9 == s8 \o i
           s10 == s9 \o j
<1>13. MainExtensions(o) = s10
  BY <1>12
<1> HIDE DEF a, b, c, d, e, f, g, h, i, j
<1>14. s2 \in Seq(Extension) /\ Range(s2) = Range(a) \cup Range(b)
  <2> HIDE DEF s2, s3, s4, s5, s6, s7, s8, s9, s10
  <2>1. QED
    BY <1>2, <1>3, RangeOfCat DEF s2
<1>15. s3 \in Seq(Extension) /\ Range(s3) = Range(s2) \cup Range(c)
  <2> HIDE DEF s2, s3, s4, s5, s6, s7, s8, s9, s10
  <2>1. QED
    BY <1>14, <1>4, RangeOfCat DEF s3
<1>16. s4 \in Seq(Extension) /\ Range(s4) = Range(s3) \cup Range(d)
  <2> HIDE DEF s2, s3, s4, s5, s6, s7, s8, s9, s10
  <2>1. QED
    BY <1>15, <1>5, RangeOfCat DEF s4
<1>17. s5 \in Seq(Extension) /\ Range(s5) = Range(s4) \cup Range(e)
  <2> HIDE DEF s2, s3, s4, s5, s6, s7, s8, s9, s10
  <2>1. QED
    BY <1>16, <1>6, RangeOfCat DEF s5
<1>18. s6 \in Seq(Extension) /\ Range(s6) = Range(s5) \cup Range(f)
  <2> HIDE DEF s2, s3, s4, s5, s6, s7, s8, s9, s10
  <2>1. QED
    BY <1>17, <1>7, RangeOfCat DEF s6
<1>19. s7 \in Seq(Extension) /\ Range(s7) = Range(s6) \cup Range(g)
  <2> HIDE DEF s2, s3, s4, s5, s6, s7, s8, s9, s10
  <2>1. QED
    BY <1>18, <1>8, RangeOfCat DEF s7
<1>20. s8 \in Seq(Extension) /\ Range(s8) = Range(s7) \cup Range(h)
  <2> HIDE DEF s2, s3, s4, s5, s6, s7, s8, s9, s10
  <2>1. QED
    BY <1>19, <1>9, RangeOfCat DEF s8
<1>21. s9 \in Seq(Extension) /\ Range(s9) = Range(s8) \cup Range(i)
  <2> HIDE DEF s2, s3, s4, s5, s6, s7, s8, s9, s10
  <2>1. QED
    BY <1>20, <1>10, RangeOfCat DEF s9
<1>22. s10 \in Seq(Extension) /\ Range(s10) = Range(s9) \cup Range(j)
  <2> HIDE DEF s2, s3, s4, s5, s6, s7, s8, s9, s10
  <2>1. QED
    BY <1>21, <1>11, RangeOfCat DEF s10
<1> HIDE DEF s2, s3, s4, s5, s6, s7, s8, s9, s10
<1>23. Range(s10) = UNION {Range(a), Range(b), Range(c), Range(d), Range(e), Range(f), Range(g), Range(h), Range(i), Range(j)}
  BY <1>14, <1>15, <1>16, <1>17, <1>18, <1>19, <1>20, <1>21, <1>22
<1>24. QED
  BY <1>13, <1>23, <1>22, <1>2, <1>3, <1>4, <1>5, <1>6, <1>7, <1>8, <1>9, <1>10, <1>11
-----------------------------------------------------------------------------
(* What is registered and mounted.                                         *)
(* Whatever is mounted is a static tool of that name.                      *)
LEMMA MountedIsStatic ==
  ASSUME NEW st, NEW k \in DOMAIN Mounted(st)
  PROVE  Mounted(st)[k] \in Range(st) /\ Key(Mounted(st)[k]) = k
<1>1. \E i \in DOMAIN st : Key(st[i]) = k
  BY DEF Mounted
<1>2. PICK q \in DOMAIN st : q = (CHOOSE i \in DOMAIN st : Key(st[i]) = k) /\ Key(st[q]) = k
  BY <1>1
<1>3. Mounted(st)[k] = st[q]
  BY <1>1, <1>2 DEF Mounted
<1>4. QED
  BY <1>2, <1>3 DEF Range

(* The static tools are the native ones and the extensions', less those    *)
(* disabled.                                                               *)
LEMMA StaticAre ==
  ASSUME NEW natives, NEW exts \in Seq(Extension), NEW off
  PROVE  /\ \A t \in Range(Static(natives, exts, off)) :
              /\ Key(t) \notin LowerAll(off)
              /\ t \in natives \/ \E x \in Range(exts) : t \in Range(x.tools)
         /\ \A t \in natives : Key(t) \notin LowerAll(off) => t \in Range(Static(natives, exts, off))
         /\ \A x \in Range(exts) : \A t \in Range(x.tools) :
              Key(t) \notin LowerAll(off) => t \in Range(Static(natives, exts, off))
<1> DEFINE st == Static(natives, exts, off)
           at(p) == ToolAt(exts, p)
<1>1. /\ DOMAIN st = {q \in Places(natives, exts) : Key(at(q)) \notin LowerAll(off)}
      /\ \A p \in DOMAIN st : st[p] = at(p)
  BY DEF Static
<1>2. \A e \in DOMAIN exts : e # 0
  <2>1. DOMAIN exts = 1 .. Len(exts) /\ Len(exts) \in Nat
    OBVIOUS
  <2>2. QED
    BY <2>1
<1>3. ASSUME NEW p \in Places(natives, exts)
      PROVE  at(p) \in natives \/ \E x \in Range(exts) : at(p) \in Range(x.tools)
  <2>1. CASE p \in {0} \X natives
    BY <2>1 DEF ToolAt
  <2>2. CASE \E e \in DOMAIN exts : p \in {e} \X DOMAIN exts[e].tools
    <3>0. PICK e \in DOMAIN exts : p \in {e} \X DOMAIN exts[e].tools
      BY <2>2
    <3>1. PICK j \in DOMAIN exts[e].tools : p = <<e, j>>
      BY <3>0
    <3>2. at(p) = exts[e].tools[j]
      BY <3>1, <1>2 DEF ToolAt
    <3>3. exts[e] \in Range(exts) /\ at(p) \in Range(exts[e].tools)
      BY <3>2 DEF Range
    <3>4. QED
      BY <3>3
  <2>3. QED
    BY <2>1, <2>2 DEF Places
<1>4. ASSUME NEW t \in natives
      PROVE  <<0, t>> \in Places(natives, exts) /\ at(<<0, t>>) = t
  BY DEF Places, ToolAt
<1>5. ASSUME NEW e \in DOMAIN exts, NEW j \in DOMAIN exts[e].tools
      PROVE  <<e, j>> \in Places(natives, exts) /\ at(<<e, j>>) = exts[e].tools[j]
  BY <1>2 DEF Places, ToolAt
<1>s. st = Static(natives, exts, off)
  OBVIOUS
<1> HIDE DEF st, at
<1>6. \A t \in Range(st) :
        /\ Key(t) \notin LowerAll(off)
        /\ t \in natives \/ \E x \in Range(exts) : t \in Range(x.tools)
  <2>1. SUFFICES ASSUME NEW p \in DOMAIN st
                 PROVE  /\ Key(st[p]) \notin LowerAll(off)
                        /\ st[p] \in natives \/ \E x \in Range(exts) : st[p] \in Range(x.tools)
    BY DEF Range
  <2>2. QED
    BY <1>1, <1>3
<1>7. \A t \in natives : Key(t) \notin LowerAll(off) => t \in Range(st)
  <2>1. SUFFICES ASSUME NEW t \in natives, Key(t) \notin LowerAll(off) PROVE t \in Range(st)
    OBVIOUS
  <2>2. <<0, t>> \in DOMAIN st /\ st[<<0, t>>] = t
    BY <1>1, <1>4, <2>1
  <2>3. QED
    BY <2>2 DEF Range
<1>8. \A x \in Range(exts) : \A t \in Range(x.tools) : Key(t) \notin LowerAll(off) => t \in Range(st)
  <2>1. SUFFICES ASSUME NEW e \in DOMAIN exts, NEW j \in DOMAIN exts[e].tools,
                        Key(exts[e].tools[j]) \notin LowerAll(off)
                 PROVE  exts[e].tools[j] \in Range(st)
    BY DEF Range
  <2>2. <<e, j>> \in DOMAIN st /\ st[<<e, j>>] = exts[e].tools[j]
    BY <1>1, <1>5, <2>1
  <2>3. QED
    BY <2>2 DEF Range
<1>9. QED
  BY <1>6, <1>7, <1>8, <1>s

(* The tools every agent starts from.                                      *)
LEMMA DefaultsAre ==
  /\ RegisterEach({}, Defaults) \subseteq {Defaults[1], Defaults[2], Defaults[3]}
  /\ Defaults[1] \in RegisterEach({}, Defaults) /\ Defaults[3] \in RegisterEach({}, Defaults)
  /\ Key(Defaults[1]) = "bash" /\ Key(Defaults[2]) = "read" /\ Key(Defaults[3]) = "edit"
<1>1. DOMAIN Defaults = {1, 2, 3}
  BY DEF Defaults
<1>2. Key(Defaults[1]) = "bash" /\ Key(Defaults[2]) = "read" /\ Key(Defaults[3]) = "edit"
  BY TreeAssumption DEF Defaults, Key, Tool, BuiltinNames
<1>3. Registers({}, Defaults, 1) /\ Registers({}, Defaults, 3)
  <2>1. Keys({}) = {}
    BY DEF Keys
  <2>2. 1 .. 1 - 1 = {} /\ 1 .. 3 - 1 = {1, 2}
    OBVIOUS
  <2>3. QED
    BY <1>2, <2>1, <2>2 DEF Registers
<1>4. QED
  BY <1>1, <1>2, <1>3 DEF RegisterEach

LEMMA MainRegistryIs ==
  ASSUME NEW o \in Settings
  PROVE  /\ \A i \in {1, 3} : Key(Defaults[i]) \notin LowerAll(o.disabled) => Defaults[i] \in MainRegistry(o)
         /\ SpawnTool \notin MainRegistry(o)
<1> DEFINE asked == IF o.advisor THEN Register(NativeRegistry, Advisor) ELSE NativeRegistry
<1>1. RegisterEach({}, Defaults) \subseteq NativeRegistry
  BY DEF NativeRegistry, RegisterFromProvider
<1>2. NativeRegistry \subseteq asked
  BY DEF Register
<1>3. asked \subseteq RegisterEach(asked, o.extraTools)
  BY DEF RegisterEach
<1>4. MainRegistry(o) = {t \in RegisterEach(asked, o.extraTools) : Key(t) \notin LowerAll(o.disabled)}
  BY DEF MainRegistry, CopyWithout
<1>5. \A t \in RegisterEach({}, Defaults) : t.origin = "native"
  BY DefaultsAre DEF Defaults, Tool
<1>6. \A t \in NativeRegistry : t.origin = "native"
  <2>1. DOMAIN TodoTools = {1} /\ TodoTools[1].origin = "native"
    BY DEF TodoTools, Tool
  <2>2. QED
    BY <1>5, <2>1 DEF NativeRegistry, RegisterFromProvider
<1>7. \A t \in asked : t.origin = "native"
  BY <1>6 DEF Register, Advisor, Tool
<1>8. \A j \in DOMAIN o.extraTools : o.extraTools[j] # SpawnTool
  <2>1. o.extraTools \in Seq(AddedTools)
    BY TreeAssumption
  <2>2. \A j \in DOMAIN o.extraTools : o.extraTools[j] \in AddedTools
    BY <2>1
  <2>3. QED
    BY <2>2 DEF AddedTools
<1> HIDE DEF asked
<1>9. SpawnTool \notin RegisterEach(asked, o.extraTools)
  <2>1. SpawnTool.origin = "subagents"
    BY DEF SpawnTool, Tool
  <2>2. SpawnTool \notin asked
    BY <1>7, <2>1
  <2>3. QED
    BY <1>8, <2>2 DEF RegisterEach
<1>10. QED
  BY <1>1, <1>2, <1>3, <1>4, <1>9, DefaultsAre

(* No list of the harness's own holds other tools than these.              *)
LEMMA ToolsOfExtensions ==
  /\ \A n : Ext(n, <<>>).tools = <<>> /\ Range(Ext(n, <<>>).tools) = {}
  /\ Range(Skills.tools) = {SkillTools[1], SkillTools[2]}
  /\ Range(Board.tools) = {ReplTool} /\ Range(Subagents.tools) = {SpawnTool}
<1>1. \A n, ts : Ext(n, ts).tools = ts
  BY DEF Ext
<1>2. DOMAIN SkillTools = {1, 2}
  BY DEF SkillTools
<1>3. Range(<<>>) = {}
  BY DEF Range
<1>4. Range(SkillTools) = {SkillTools[1], SkillTools[2]}
  BY <1>2 DEF Range
<1>5. \A t : Range(<<t>>) = {t}
  BY DEF Range
<1>6. QED
  BY <1>1, <1>3, <1>4, <1>5 DEF Skills, Board, Subagents

(* What a child's tools are: all it may change something with are these,   *)
(* and the deepest has none to spawn with.                                 *)
LEMMA ChildMounts ==
  ASSUME NEW o \in Settings, NEW d \in Nat, NEW n \in DOMAIN Mounted(ChildStatic(o, d))
  PROVE  /\ \/ Mounted(ChildStatic(o, d))[n].readOnly
            \/ n \in {"bash", "edit", "list_skills", "load_skill", "spawn_agent"}
         /\ Mounted(ChildStatic(o, d))[n] = SpawnTool => d < o.depth
<1> DEFINE st == ChildStatic(o, d)
           t == Mounted(st)[n]
<1>1. t \in Range(st) /\ Key(t) = n
  BY MountedIsStatic
<1>2. ChildExtensions(o, d) \in Seq(Extension)
  BY ExtensionsOfChild
<1>3. t \in RegisterEach({}, Defaults) \/ \E x \in Range(ChildExtensions(o, d)) : t \in Range(x.tools)
  <2>1. st = Static(RegisterEach({}, Defaults), ChildExtensions(o, d), {})
    BY DEF ChildStatic
  <2> HIDE DEF st, t
  <2>2. QED
    BY <1>1, <1>2, <2>1, StaticAre
<1> HIDE DEF st, t
<1>4. \A x \in Range(ChildExtras(o)) : Range(x.tools) = {}
  <2>1. /\ Range(Ext("read-only", <<>>).tools) = {} /\ Range(Ext("tool-call-gate", <<>>).tools) = {}
        /\ Range(Ext("systemone-child", <<>>).tools) = {}
    BY ToolsOfExtensions
  <2>2. QED
    BY <2>1, ExtrasOfChild
<1>5. \/ t \in {Defaults[1], Defaults[2], Defaults[3], SkillTools[1], SkillTools[2], ReplTool}
      \/ t = SpawnTool /\ d < o.depth
  <2>1. CASE t \in RegisterEach({}, Defaults)
    BY <2>1, DefaultsAre
  <2>2. CASE \E x \in Range(ChildExtensions(o, d)) : t \in Range(x.tools)
    <3>1. PICK x \in Range(ChildExtensions(o, d)) : t \in Range(x.tools)
      BY <2>2
    <3>2. \/ x \in {Ext("reminders", <<>>), Ext("budgets", <<>>)} \cup Range(ChildExtras(o))
          \/ x = Skills \/ x = Board \/ (x = Subagents /\ d < o.depth)
      BY <3>1, ExtensionsOfChild
    <3>3. Range(Ext("reminders", <<>>).tools) = {} /\ Range(Ext("budgets", <<>>).tools) = {}
      BY ToolsOfExtensions
    <3>4. QED
      BY <3>1, <3>2, <3>3, <1>4, ToolsOfExtensions
  <2>3. QED
    BY <1>3, <2>1, <2>2
<1>6. /\ Defaults[2].readOnly /\ ReplTool.readOnly
      /\ Key(SkillTools[1]) = "list_skills" /\ Key(SkillTools[2]) = "load_skill"
      /\ Key(SpawnTool) = "spawn_agent"
  BY TreeAssumption DEF Defaults, SkillTools, ReplTool, SpawnTool, Tool, Key, BuiltinNames
<1>7. /\ Defaults[1].origin = "native" /\ Defaults[2].origin = "native" /\ Defaults[3].origin = "native"
      /\ SkillTools[1].origin = "skills" /\ SkillTools[2].origin = "skills"
      /\ ReplTool.origin = "blackboard" /\ SpawnTool.origin = "subagents"
  BY DEF Defaults, SkillTools, ReplTool, SpawnTool, Tool
<1>8. t.readOnly \/ n \in {"bash", "edit", "list_skills", "load_skill", "spawn_agent"}
  BY <1>1, <1>5, <1>6, DefaultsAre
<1>9. t = SpawnTool => d < o.depth
  BY <1>5, <1>7
<1>10. QED
  BY <1>8, <1>9 DEF st, t

(* Only the subagents' extension spawns.                                   *)
LEMMA MainSpawns ==
  ASSUME NEW o \in Settings, NEW n \in DOMAIN Mounted(MainStatic(o)),
         Mounted(MainStatic(o))[n] = SpawnTool
  PROVE  o.depth > 0
<1>1. SpawnTool \in Range(MainStatic(o))
  BY MountedIsStatic
<1>2. MainExtensions(o) \in Seq(Extension)
  BY ExtensionsOfMain
<1>3. SpawnTool \in MainRegistry(o) \/ \E x \in Range(MainExtensions(o)) : SpawnTool \in Range(x.tools)
  BY <1>1, <1>2, StaticAre DEF MainStatic
<1>4. /\ SkillTools[1].origin = "skills" /\ SkillTools[2].origin = "skills"
      /\ ReplTool.origin = "blackboard" /\ SpawnTool.origin = "subagents"
  BY DEF SkillTools, ReplTool, SpawnTool, Tool
<1>5. SpawnTool \notin MainRegistry(o)
  BY MainRegistryIs
<1>6. PICK x \in Range(MainExtensions(o)) : SpawnTool \in Range(x.tools)
  BY <1>3, <1>5
<1>7. x \notin Range(o.extensions)
  <2>1. SUFFICES ASSUME x.tools \in Seq(AddedTools) PROVE FALSE
    BY ExtensionsOfUser
  <2>2. \A j \in DOMAIN x.tools : x.tools[j] \in AddedTools
    BY <2>1
  <2>3. \A j \in DOMAIN x.tools : x.tools[j] # SpawnTool
    BY <2>2 DEF AddedTools
  <2>4. QED
    BY <1>6, <2>3 DEF Range
<1>8. x \in Range(o.extensions) \/ x = Skills \/ x = Board \/ Range(x.tools) = {} \/ (x = Subagents /\ o.depth > 0)
  <2>1. /\ Range(Ext("read-only", <<>>).tools) = {} /\ Range(Ext("permissions", <<>>).tools) = {}
        /\ Range(Ext("tool-call-gate", <<>>).tools) = {} /\ Range(Ext("advisor-gate", <<>>).tools) = {}
        /\ Range(Ext("systemone", <<>>).tools) = {} /\ Range(Ext("reminders", <<>>).tools) = {}
        /\ Range(Ext("budgets", <<>>).tools) = {}
    BY ToolsOfExtensions
  <2>2. \/ x \in {Ext("read-only", <<>>), Ext("permissions", <<>>), Ext("tool-call-gate", <<>>),
                 Ext("advisor-gate", <<>>), Ext("systemone", <<>>), Ext("reminders", <<>>),
                 Ext("budgets", <<>>), Skills, Board}
        \/ x = Subagents /\ o.depth > 0
        \/ x \in Range(o.extensions)
    BY ExtensionsOfMain
  <2>3. QED
    BY <2>1, <2>2
<1>9. QED
  BY <1>4, <1>6, <1>7, <1>8, ToolsOfExtensions

(* To the main agent's port none of these only reads.                      *)
LEMMA MainMounts ==
  ASSUME NEW o \in Settings, ~Collides(MainStatic(o)),
         NEW n \in {"bash", "edit", "load_skill", "list_skills"},
         n = "list_skills" => "load_skill" \notin LowerAll(o.disabled)
  PROVE  ~ReadOnly(Mounted(MainStatic(o)), n)
<1> DEFINE st == MainStatic(o)
<1>1. Lower[n] = n
  BY TreeAssumption DEF BuiltinNames
<1>2. st = Static(MainRegistry(o), MainExtensions(o), o.disabled) /\ ~Collides(st)
  BY DEF MainStatic
<1>3. MainExtensions(o) \in Seq(Extension)
  BY ExtensionsOfMain
<1> HIDE DEF st
<1>4. CASE n \in LowerAll(o.disabled)
  <2>1. n \notin DOMAIN Mounted(st)
    <3>1. SUFFICES ASSUME n \in DOMAIN Mounted(st) PROVE FALSE
      OBVIOUS
    <3>2. PICK t \in Range(st) : Key(t) = n
      BY <3>1, MountedIsStatic
    <3>3. QED
      BY <1>2, <1>3, <1>4, <3>2, StaticAre
  <2>2. QED
    BY <1>1, <2>1 DEF ReadOnly, st
<1>5. CASE n \notin LowerAll(o.disabled)
  <2>1. /\ Key(SkillTools[1]) = "list_skills" /\ Key(SkillTools[2]) = "load_skill"
        /\ ~SkillTools[1].readOnly /\ ~SkillTools[2].readOnly
        /\ ~Defaults[1].readOnly /\ ~Defaults[3].readOnly
    BY TreeAssumption DEF Defaults, SkillTools, Tool, Key, BuiltinNames
  <2>2. \E t \in Range(st) : Key(t) = n /\ ~t.readOnly
    <3>1. CASE n \in {"bash", "edit"}
      <4>1. PICK i \in {1, 3} : Key(Defaults[i]) = n
        BY <3>1, DefaultsAre
      <4>2. Defaults[i] \in MainRegistry(o)
        BY <1>5, <4>1, MainRegistryIs
      <4>3. Defaults[i] \in Range(st)
        BY <1>2, <1>3, <1>5, <4>1, <4>2, StaticAre
      <4>4. QED
        BY <2>1, <4>1, <4>3
    <3>2. CASE n \in {"load_skill", "list_skills"}
      <4>1. "load_skill" \notin LowerAll(o.disabled)
        BY <1>5, <3>2
      <4>2. Skills \in Range(MainExtensions(o))
        BY <4>1, ExtensionsOfMain
      <4>3. \A t \in {SkillTools[1], SkillTools[2]} : Key(t) = n => t \in Range(st)
        BY <1>2, <1>3, <1>5, <4>2, ToolsOfExtensions, StaticAre
      <4>4. QED
        BY <2>1, <3>2, <4>3
    <3>3. QED
      BY <3>1, <3>2
  <2>3. PICK p \in DOMAIN st : Key(st[p]) = n /\ ~st[p].readOnly
    BY <2>2 DEF Range
  <2>4. Mounted(st)[n] = st[p]
    BY <1>2, <2>3, MountedAt
  <2>5. QED
    BY <1>1, <2>3, <2>4 DEF ReadOnly, st
<1>6. QED
  BY <1>4, <1>5

(* The hooks asked for are in every agent's list.                          *)
LEMMA ExtsSee ==
  ASSUME NEW o \in Settings, NEW i \in Nat \ {0}
  PROVE  /\ Wanted(o) \subseteq ExtsOf(o, i)
         /\ o.systemOne => ExtsOf(o, i) \cap {"systemone", "systemone-child"} # {}
<1>1. \A n, ts : Ext(n, ts).name = n
  BY DEF Ext
<1>2. CASE i = 1
  <2>1. ExtsOf(o, i) = {e.name : e \in Range(MainExtensions(o))}
    BY <1>2, NamesOfRange DEF ExtsOf
  <2>2. /\ o.readOnly => Ext("read-only", <<>>) \in Range(MainExtensions(o))
        /\ o.gate => Ext("tool-call-gate", <<>>) \in Range(MainExtensions(o))
        /\ o.systemOne => Ext("systemone", <<>>) \in Range(MainExtensions(o))
    BY ExtensionsOfMain
  <2>3. /\ o.readOnly => "read-only" \in ExtsOf(o, i)
        /\ o.gate => "tool-call-gate" \in ExtsOf(o, i)
        /\ o.systemOne => "systemone" \in ExtsOf(o, i)
    BY <1>1, <2>1, <2>2
  <2>4. QED
    BY <2>3 DEF Wanted
<1>3. CASE i # 1
  <2>1. ExtsOf(o, i) = {e.name : e \in Range(ChildExtensions(o, i - 1))} /\ i - 1 \in Nat
    BY <1>3, NamesOfRange DEF ExtsOf
  <2>2. Range(ChildExtras(o)) \subseteq Range(ChildExtensions(o, i - 1))
    BY <2>1, ExtensionsOfChild
  <2>3. /\ o.readOnly => Ext("read-only", <<>>) \in Range(ChildExtras(o))
        /\ o.gate => Ext("tool-call-gate", <<>>) \in Range(ChildExtras(o))
        /\ o.systemOne => Ext("systemone-child", <<>>) \in Range(ChildExtras(o))
    BY ExtrasOfChild
  <2>4. /\ o.readOnly => "read-only" \in ExtsOf(o, i)
        /\ o.gate => "tool-call-gate" \in ExtsOf(o, i)
        /\ o.systemOne => "systemone-child" \in ExtsOf(o, i)
    BY <1>1, <2>1, <2>2, <2>3
  <2>5. QED
    BY <2>4 DEF Wanted
<1>4. QED
  BY <1>2, <1>3
-----------------------------------------------------------------------------
(* The running agents, as one of them moves on, ends or spawns.            *)
LEMMA SomeRun ==
  ASSUME NEW o, NEW run, NEW told, AgentsAre(o, run, told), run # <<>>
  PROVE  /\ Len(run) \in Nat \ {0} /\ run \in Seq(Records(o)) /\ DOMAIN run = 1 .. Len(run)
         /\ Len(run) \in 1 .. Len(run) /\ run[Len(run)] \in Records(o)
<1>1. run \in Seq(Records(o))
  BY DEF AgentsAre
<1>2. Len(run) # 0
  BY <1>1, EmptySeq
<1>3. Len(run) \in Nat /\ DOMAIN run = 1 .. Len(run)
  BY <1>1
<1>4. Len(run) \in 1 .. Len(run)
  BY <1>2, <1>3
<1>5. run[Len(run)] \in Records(o)
  BY <1>1, <1>3, <1>4
<1>6. QED
  BY <1>1, <1>2, <1>3, <1>4, <1>5

LEMMA TopBecomes ==
  ASSUME NEW o, NEW run, NEW told, AgentsAre(o, run, told), run # <<>>,
         NEW b \in Records(o), AgentIs(o, b, Len(run)), b.id = run[Len(run)].id, b.phase # "waiting",
         b.phase = "spawning" => Len(run) <= o.depth
  PROVE  AgentsAre(o, [run EXCEPT ![Len(run)] = b], told)
<1> DEFINE n == Len(run)
           new == [run EXCEPT ![n] = b]
<1>1. n \in Nat \ {0} /\ run \in Seq(Records(o)) /\ DOMAIN run = 1 .. n
  BY SomeRun
<1>3. n = Len(run) /\ b \in Records(o)
  OBVIOUS
<1>n. new = [run EXCEPT ![n] = b]
  OBVIOUS
<1> HIDE DEF n, new
<1>2. new \in Seq(Records(o)) /\ Len(new) = n /\ new[n] = b /\ \A i \in 1 .. n : i # n => new[i] = run[i]
  <2>1. n \in 1 .. n
    BY <1>1
  <2>2. DOMAIN new = 1 .. n /\ new[n] = b /\ \A i \in 1 .. n : i # n => new[i] = run[i]
    BY <1>1, <1>n, <2>1
  <2>3. new \in Seq(Records(o)) /\ Len(new) = n
    BY <1>1, <1>3, <1>n, <2>1
  <2>4. QED
    BY <2>2, <2>3
<1>4. \A i \in 1 .. n : AgentIs(o, new[i], i) /\ new[i].id = run[i].id
  BY <1>2, <1>3 DEF AgentsAre
<1>5. \A i \in 1 .. n : i < n <=> new[i].phase = "waiting"
  <2>1. ASSUME NEW i \in 1 .. n, i # n PROVE i < n /\ new[i].phase = "waiting"
    <3>1. i < n
      BY <1>1, <2>1
    <3>2. new[i] = run[i] /\ run[i].phase = "waiting"
      BY <1>2, <1>3, <2>1, <3>1 DEF AgentsAre
    <3>3. QED
      BY <3>1, <3>2
  <2>2. ~(n < n) /\ new[n].phase # "waiting"
    BY <1>1, <1>2
  <2>3. QED
    BY <2>1, <2>2
<1>6. \A i \in 1 .. n : new[i].phase \in {"spawning", "waiting"} => i <= o.depth
  BY <1>1, <1>2, <1>3 DEF AgentsAre
<1>7. \A i \in 2 .. n : i \in 1 .. n /\ i - 1 \in 1 .. n
  BY <1>1
<1>8. \A i \in 2 .. n : new[i].id = Append(new[i - 1].id, new[i].id[i])
  BY <1>3, <1>4, <1>7 DEF AgentsAre
<1>9. told = {new[i].id : i \in 2 .. n}
  BY <1>3, <1>4, <1>7 DEF AgentsAre
<1>10. AgentsAre(o, new, told)
  BY <1>2, <1>4, <1>5, <1>6, <1>8, <1>9 DEF AgentsAre
<1>11. QED
  BY <1>10 DEF new, n

(* Ids are as long as their agents are deep.                               *)
LEMMA TopLeaves ==
  ASSUME NEW o, NEW run, NEW told, AgentsAre(o, run, told), run # <<>>
  PROVE  AgentsAre(o, IF Len(run) - 1 = 0 THEN <<>>
                      ELSE [SubSeq(run, 1, Len(run) - 1) EXCEPT ![Len(run) - 1].phase = "iterate"],
                   told \ {run[Len(run)].id})
<1> DEFINE n == Len(run)
           m == n - 1
           new == [SubSeq(run, 1, m) EXCEPT ![m].phase = "iterate"]
<1>1. n \in Nat \ {0} /\ run \in Seq(Records(o)) /\ DOMAIN run = 1 .. n
  BY SomeRun
<1>2. \A i \in 1 .. n : Len(run[i].id) = i
  BY DEF AgentsAre, AgentIs
<1>3. told \ {run[n].id} = {run[i].id : i \in 2 .. m}
  <2>0. \A i \in 2 .. n : i \in 1 .. n /\ n \in 1 .. n
    BY <1>1
  <2>1. \A i \in 2 .. n : run[i].id = run[n].id => i = n
    BY <1>2, <2>0
  <2>2. told = {run[i].id : i \in 2 .. n}
    BY DEF AgentsAre
  <2>3. \A i : i \in 2 .. m <=> i \in 2 .. n /\ i # n
    BY <1>1
  <2> HIDE DEF n, m
  <2>4. QED
    BY <2>1, <2>2, <2>3
<1>4. CASE m = 0
  <2>1. {run[i].id : i \in 2 .. m} = {}
    <3>1. 2 .. m = {}
      BY <1>4
    <3>2. QED
      BY <3>1
  <2>2. <<>> \in Seq(Records(o)) /\ Len(<<>>) = 0 /\ 1 .. 0 = {} /\ 2 .. 0 = {}
    OBVIOUS
  <2>3. AgentsAre(o, <<>>, {})
    BY <2>2 DEF AgentsAre
  <2>4. QED
    BY <1>3, <1>4, <2>1, <2>3
<1>5. CASE m # 0
  <2>1. m \in 1 .. n /\ m \in Nat \ {0} /\ n = m + 1
    BY <1>1, <1>5
  <2>2. /\ SubSeq(run, 1, m) \in Seq(Records(o)) /\ Len(SubSeq(run, 1, m)) = m
        /\ \A i \in 1 .. m : SubSeq(run, 1, m)[i] = run[i]
    BY <1>1, <2>1
  <2>3. run[m] \in Records(o)
    BY <1>1, <2>1
  <2> DEFINE b == [run[m] EXCEPT !.phase = "iterate"]
  <2>4. /\ b \in Records(o) /\ b.phase = "iterate" /\ b.id = run[m].id /\ b.tools = run[m].tools
        /\ b.exts = run[m].exts
    BY <2>3 DEF Records, Phases
  <2>5. new = [SubSeq(run, 1, m) EXCEPT ![m] = b]
    BY <2>1, <2>2
  <2>6. /\ new \in Seq(Records(o)) /\ Len(new) = m /\ new[m] = b
        /\ \A i \in 1 .. m : i # m => new[i] = run[i]
    <3> DEFINE sub == SubSeq(run, 1, m)
    <3>1. new = [sub EXCEPT ![m] = b] /\ sub \in Seq(Records(o)) /\ Len(sub) = m
      BY <2>2, <2>5
    <3>2. \A i \in 1 .. m : sub[i] = run[i]
      BY <2>2
    <3> HIDE DEF sub, b, new, m, n
    <3>3. QED
      BY <2>1, <2>4, <3>1, <3>2
  <2>7. n = Len(run)
    OBVIOUS
  <2> HIDE DEF b, new, m, n
  <2>8. \A i \in 1 .. m : i \in 1 .. n /\ i < n /\ new[i].id = run[i].id
    BY <2>1, <2>4, <2>6
  <2>9. \A i \in 1 .. m : AgentIs(o, new[i], i)
    <3>1. AgentIs(o, b, m)
      BY <2>1, <2>4, <2>7 DEF AgentsAre, AgentIs, Phases
    <3>2. QED
      BY <2>6, <2>7, <2>8, <3>1 DEF AgentsAre
  <2>10. \A i \in 1 .. m : i < m <=> new[i].phase = "waiting"
    <3>1. \A i \in 1 .. m : run[i].phase = "waiting"
      BY <2>7, <2>8 DEF AgentsAre
    <3>2. QED
      BY <2>1, <2>4, <2>6, <3>1
  <2>11. \A i \in 1 .. m : i <= o.depth
    BY <2>7, <2>8 DEF AgentsAre
  <2>12. \A i \in 2 .. m : i \in 1 .. m /\ i - 1 \in 1 .. m /\ i \in 2 .. n
    BY <2>1
  <2>13. \A i \in 2 .. m : new[i].id = Append(new[i - 1].id, new[i].id[i])
    BY <2>7, <2>8, <2>12 DEF AgentsAre
  <2>14. told \ {run[n].id} = {new[i].id : i \in 2 .. m}
    BY <1>3, <2>8, <2>12
  <2>15. AgentsAre(o, new, told \ {run[n].id})
    BY <2>6, <2>9, <2>10, <2>11, <2>13, <2>14 DEF AgentsAre
  <2>16. QED
    BY <1>5, <2>15 DEF new, m, n
<1>6. QED
  BY <1>4, <1>5

LEMMA ChildJoins ==
  ASSUME NEW o, NEW run, NEW told, AgentsAre(o, run, told), run # <<>>, run[Len(run)].phase = "spawning",
         NEW k \in Nat, NEW id, id = Append(run[Len(run)].id, k)
  PROVE  AgentsAre(o, Append([run EXCEPT ![Len(run)].phase = "waiting"], Child(o, Len(run) - 1 + 1, id)),
                   told \cup {id})
<1> DEFINE n == Len(run)
           b == [run[n] EXCEPT !.phase = "waiting"]
           mid == [run EXCEPT ![n].phase = "waiting"]
           c == Child(o, n - 1 + 1, id)
           new == Append(mid, c)
<1>1. n \in Nat \ {0} /\ run \in Seq(Records(o)) /\ DOMAIN run = 1 .. n /\ run[n] \in Records(o)
  BY SomeRun
<1>2. /\ b \in Records(o) /\ b.phase = "waiting" /\ b.id = run[n].id /\ b.tools = run[n].tools
      /\ b.exts = run[n].exts
  BY <1>1 DEF Records, Phases
<1>3. mid = [run EXCEPT ![n] = b]
  BY <1>1
<1>4. n = Len(run) /\ n - 1 + 1 = n
  BY <1>1
<1>5. /\ id \in Seq(Nat) /\ Len(id) = n + 1 /\ id[n + 1] = k
  <2>1. run[n].id \in Seq(Nat) /\ Len(run[n].id) = n
    BY <1>1 DEF AgentsAre, AgentIs
  <2>2. QED
    BY <1>1, <2>1
<1>6. /\ c.tools = ToolsOf(o, n + 1) /\ c.exts = ExtsOf(o, n + 1) /\ c.id = id /\ c.phase = "iterate"
      /\ c \in Records(o)
  <2>1. n + 1 # 1 /\ n + 1 - 1 = n /\ n + 1 \in Nat
    BY <1>1
  <2>2. o.childCap \in Int /\ ChildCap(o) \in Int
    BY TreeAssumption DEF AgentsAre, ChildCap
  <2> DEFINE cap == IF "budgets" \in ExtNames(ChildExtensions(o, n)) THEN ChildCap(o) ELSE 0
  <2>3. c = [id |-> id, exts |-> ExtsOf(o, n + 1), tools |-> ToolsOf(o, n + 1), cap |-> cap,
             iteration |-> 0, phase |-> "iterate"]
    <3>1. c = Child(o, n, id)
      BY <1>4
    <3>2. ExtsOf(o, n + 1) = ExtNames(ChildExtensions(o, n)) /\ ToolsOf(o, n + 1) = Mounted(ChildStatic(o, n))
      BY <2>1 DEF ExtsOf, ToolsOf
    <3> HIDE DEF c, n
    <3>3. QED
      BY <3>1, <3>2 DEF Child, Agent
  <2>4. cap \in Int
    BY <2>2
  <2> HIDE DEF c, n, cap
  <2>5. QED
    BY <1>5, <2>1, <2>3, <2>4 DEF Records, Phases
<1>7. AgentIs(o, c, n + 1)
  BY <1>5, <1>6 DEF AgentIs, Phases
<1> HIDE DEF n, b, c
<1>8. mid \in Seq(Records(o)) /\ Len(mid) = n /\ mid[n] = b /\ \A i \in 1 .. n : i # n => mid[i] = run[i]
  BY <1>1, <1>2, <1>3, <1>4
<1> HIDE DEF mid
<1>9. /\ new \in Seq(Records(o)) /\ Len(new) = n + 1 /\ new[n + 1] = c
      /\ \A i \in 1 .. n : new[i] = mid[i]
  BY <1>1, <1>6, <1>8
<1> HIDE DEF new
<1>10. \A i \in 1 .. n : new[i].id = run[i].id
  BY <1>2, <1>8, <1>9
<1>11. \A i \in 1 .. n + 1 : i \in 1 .. n \/ i = n + 1
  BY <1>1
<1>12. \A i \in 1 .. n + 1 : AgentIs(o, new[i], i)
  <2>1. AgentIs(o, b, n)
    BY <1>1, <1>2, <1>4 DEF AgentsAre, AgentIs, Phases
  <2>2. QED
    BY <1>4, <1>7, <1>8, <1>9, <1>11, <2>1 DEF AgentsAre
<1>13. \A i \in 1 .. n : new[i].phase = "waiting" /\ i <= o.depth
  <2>1. ASSUME NEW i \in 1 .. n, i # n PROVE run[i].phase = "waiting"
    <3>1. i < n
      BY <1>1, <2>1
    <3>2. QED
      BY <1>4, <3>1 DEF AgentsAre
  <2>2. n <= o.depth
    <3>1. n \in 1 .. n
      BY <1>1
    <3>2. run[n].phase = "spawning"
      BY <1>4
    <3>3. QED
      BY <1>4, <3>1, <3>2 DEF AgentsAre
  <2>3. \A i \in 1 .. n : i # n => i <= o.depth
    BY <1>4, <2>1 DEF AgentsAre
  <2>4. QED
    BY <1>2, <1>8, <1>9, <2>1, <2>2, <2>3
<1>14. \A i \in 1 .. n + 1 : i < n + 1 <=> new[i].phase = "waiting"
  BY <1>1, <1>6, <1>9, <1>11, <1>13
<1>15. \A i \in 1 .. n + 1 : new[i].phase \in {"spawning", "waiting"} => i <= o.depth
  BY <1>6, <1>9, <1>11, <1>13
<1>16. \A i \in 2 .. n + 1 : new[i].id = Append(new[i - 1].id, new[i].id[i])
  <2>1. ASSUME NEW i \in 2 .. n + 1, i # n + 1
        PROVE  new[i].id = Append(new[i - 1].id, new[i].id[i])
    <3>1. i \in 1 .. n /\ i - 1 \in 1 .. n /\ i \in 2 .. n
      BY <1>1, <2>1
    <3>2. QED
      BY <1>4, <1>10, <3>1 DEF AgentsAre
  <2>2. ASSUME NEW i \in 2 .. n + 1, i = n + 1
        PROVE  new[i].id = Append(new[i - 1].id, new[i].id[i])
    <3>1. i - 1 = n /\ n \in 1 .. n
      BY <1>1, <2>2
    <3>2. new[i].id = id /\ new[i - 1].id = run[n].id /\ id[i] = k
      BY <1>5, <1>6, <1>9, <1>10, <2>2, <3>1
    <3>3. QED
      BY <1>4, <3>2
  <2>3. QED
    BY <2>1, <2>2
<1>17. told \cup {id} = {new[i].id : i \in 2 .. n + 1}
  <2>1. told = {run[i].id : i \in 2 .. n}
    BY <1>4 DEF AgentsAre
  <2>2. \A i : i \in 2 .. n + 1 <=> i \in 2 .. n \/ i = n + 1
    BY <1>1
  <2>3. \A i \in 2 .. n : i \in 1 .. n
    BY <1>1
  <2>4. new[n + 1].id = id
    BY <1>6, <1>9
  <2>5. QED
    BY <1>10, <2>1, <2>2, <2>3, <2>4
<1>18. AgentsAre(o, new, told \cup {id})
  BY <1>9, <1>12, <1>14, <1>15, <1>16, <1>17 DEF AgentsAre
<1>19. QED
  BY <1>18 DEF new, mid, c, n

LEMMA MainBegins ==
  ASSUME NEW o, NEW told, AgentsAre(o, <<>>, told)
  PROVE  AgentsAre(o, <<Main(o)>>, told)
<1> DEFINE c == Main(o)
           run == <<c>>
           cap == IF "budgets" \in ExtNames(MainExtensions(o)) THEN o.budget ELSE 0
<1>1. c = [id |-> <<0>>, exts |-> ExtsOf(o, 1), tools |-> ToolsOf(o, 1), cap |-> cap, iteration |-> 0,
           phase |-> "iterate"]
  BY DEF Main, Agent, ExtsOf, ToolsOf
<1>2. cap \in Int
  BY TreeAssumption DEF AgentsAre
<1>3. told = {}
  <2>1. told = {<<>>[i].id : i \in 2 .. 0}
    BY DEF AgentsAre
  <2>2. 2 .. 0 = {}
    OBVIOUS
  <2>3. QED
    BY <2>1, <2>2
<1> HIDE DEF c, cap
<1>4. c \in Records(o) /\ AgentIs(o, c, 1) /\ c.phase = "iterate"
  BY <1>1, <1>2 DEF Records, AgentIs, Phases
<1>5. run \in Seq(Records(o)) /\ Len(run) = 1 /\ run[1] = c /\ 1 .. 1 = {1} /\ 2 .. 1 = {}
  BY <1>4
<1> HIDE DEF run
<1>6. o \in Settings /\ ~Collides(MainStatic(o))
  BY DEF AgentsAre
<1>7. told = {run[i].id : i \in 2 .. 1}
  BY <1>3, <1>5
<1>8. AgentsAre(o, run, told)
  BY <1>3, <1>4, <1>5, <1>6, <1>7 DEF AgentsAre
<1>9. QED
  BY <1>8 DEF run, c

(* The agent on top with another phase, or one more iteration.             *)
LEMMA TopMoves ==
  ASSUME NEW o, NEW run, NEW told, AgentsAre(o, run, told), run # <<>>,
         NEW ph \in {"iterate", "model", "spawning"}, ph = "spawning" => Len(run) <= o.depth,
         NEW it \in Int
  PROVE  /\ AgentsAre(o, [run EXCEPT ![Len(run)].phase = ph], told)
         /\ AgentsAre(o, [run EXCEPT ![Len(run)].phase = ph, ![Len(run)].iteration = it], told)
<1> DEFINE n == Len(run)
           b == [run[n] EXCEPT !.phase = ph]
           c == [run[n] EXCEPT !.phase = ph, !.iteration = it]
<1>1. n \in Nat \ {0} /\ run[n] \in Records(o) /\ n \in DOMAIN run
  BY SomeRun
<1>2. AgentIs(o, run[n], n) /\ ph \in Phases /\ ph # "waiting"
  BY <1>1, SomeRun DEF AgentsAre, Phases
<1>3. /\ b \in Records(o) /\ b.phase = ph /\ b.id = run[n].id /\ b.tools = run[n].tools
      /\ b.exts = run[n].exts
  BY <1>1, <1>2 DEF Records
<1>4. /\ c \in Records(o) /\ c.phase = ph /\ c.id = run[n].id /\ c.tools = run[n].tools
      /\ c.exts = run[n].exts
  BY <1>1, <1>2 DEF Records
<1>5. /\ [run EXCEPT ![Len(run)].phase = ph] = [run EXCEPT ![Len(run)] = b]
      /\ [run EXCEPT ![Len(run)].phase = ph, ![Len(run)].iteration = it] = [run EXCEPT ![Len(run)] = c]
  BY <1>1
<1>6. n = Len(run)
  OBVIOUS
<1> HIDE DEF n, b, c
<1>7. AgentIs(o, b, n) /\ AgentIs(o, c, n)
  BY <1>2, <1>3, <1>4 DEF AgentIs
<1>8. AgentsAre(o, [run EXCEPT ![Len(run)] = b], told)
  BY <1>2, <1>3, <1>6, <1>7, TopBecomes
<1>9. AgentsAre(o, [run EXCEPT ![Len(run)] = c], told)
  BY <1>2, <1>4, <1>6, <1>7, TopBecomes
<1>10. QED
  BY <1>5, <1>8, <1>9
-----------------------------------------------------------------------------
(* What the invariant says of no call at all.                              *)
LEMMA NoCallIsFine == ran = NoCall => GuardsSeeEveryCall /\ ReadOnlyHolds
BY DEF GuardsSeeEveryCall, ReadOnlyHolds

LEMMA TreeBegins == TreeInit => TreeInv
<1> SUFFICES ASSUME TreeInit PROVE TreeInv
  OBVIOUS
<1>1. options \in Settings /\ ~Collides(MainStatic(options)) /\ agents = <<>> /\ announced = {} /\ ran = NoCall
  BY DEF TreeInit
<1>2. <<>> \in Seq(Records(options)) /\ Len(<<>>) = 0 /\ 1 .. 0 = {} /\ 2 .. 0 = {}
  OBVIOUS
<1>3. AgentsAre(options, <<>>, {})
  BY <1>1, <1>2 DEF AgentsAre
<1>4. QED
  BY <1>1, <1>3, NoCallIsFine DEF TreeInv

LEMMA TreeImplies == TreeInv => TreeIsGuarded
<1> SUFFICES ASSUME TreeInv PROVE TreeIsGuarded
  OBVIOUS
<1>1. AgentsAre(options, agents, announced)
  BY DEF TreeInv
<1>2. agents \in Seq(Records(options)) /\ Len(agents) \in Nat /\ DOMAIN agents = 1 .. Len(agents)
  BY <1>1 DEF AgentsAre
<1>3. Len(agents) - 1 > 0 => Len(agents) - 1 <= options.depth
  <2>1. SUFFICES ASSUME Len(agents) - 1 > 0 PROVE Len(agents) - 1 <= options.depth
    OBVIOUS
  <2>2. Len(agents) - 1 \in 1 .. Len(agents) /\ Len(agents) - 1 < Len(agents)
    BY <1>2, <2>1
  <2>3. agents[Len(agents) - 1].phase = "waiting"
    BY <1>1, <2>2 DEF AgentsAre
  <2>4. QED
    BY <1>1, <2>2, <2>3 DEF AgentsAre
<1>4. \A i \in DOMAIN agents : i < Len(agents) <=> agents[i].phase = "waiting"
  BY <1>1, <1>2 DEF AgentsAre
<1>5. /\ \A i \in 2 .. Len(agents) : agents[i].id = Append(agents[i - 1].id, agents[i].id[i])
      /\ announced = {agents[i].id : i \in 2 .. Len(agents)}
  BY <1>1 DEF AgentsAre
<1>6. TreeTypeOK
  BY <1>3, <1>4, <1>5 DEF TreeTypeOK, Depth
<1>7. QED
  BY <1>6 DEF TreeInv, TreeIsGuarded

(* One step of TopEnds.                                                    *)
LEMMA TopEndsWell ==
  ASSUME TreeInv, agents # <<>>, NEW how, TopEnds(how), options' = options
  PROVE  AgentsAre(options', agents', announced')
<1>1. AgentsAre(options, agents, announced)
  BY DEF TreeInv
<1>2. /\ agents' = IF Len(agents) - 1 = 0 THEN <<>>
                   ELSE [SubSeq(agents, 1, Len(agents) - 1) EXCEPT ![Len(agents) - 1].phase = "iterate"]
      /\ announced' = announced \ {agents[Len(agents)].id}
  BY DEF TopEnds, Depth, Top
<1>3. QED
  BY <1>1, <1>2, TopLeaves

LEMMA RunTurnKeeps == TreeInv /\ RunTurn => TreeInv'
<1> SUFFICES ASSUME TreeInv, RunTurn PROVE TreeInv'
  OBVIOUS
<1>1. /\ agents = <<>> /\ agents' = <<Main(options)>> /\ ran' = NoCall
      /\ options' = options /\ announced' = announced
  BY DEF RunTurn
<1>2. AgentsAre(options, <<>>, announced)
  BY <1>1 DEF TreeInv
<1>3. AgentsAre(options, <<Main(options)>>, announced)
  BY <1>2, MainBegins
<1>4. AgentsAre(options', agents', announced')
  BY <1>1, <1>3
<1>5. (GuardsSeeEveryCall /\ ReadOnlyHolds)'
  BY <1>1 DEF GuardsSeeEveryCall, ReadOnlyHolds
<1>6. QED
  BY <1>4, <1>5 DEF TreeInv

LEMMA IterateKeeps == TreeInv /\ Iterate => TreeInv'
<1> SUFFICES ASSUME TreeInv, Iterate PROVE TreeInv'
  OBVIOUS
<1>1. agents # <<>> /\ ran' = NoCall /\ options' = options
  BY DEF Iterate
<1>2. AgentsAre(options, agents, announced)
  BY DEF TreeInv
<1>3. CASE cancelled \/ Spent(Top)
  <2>1. TopEnds("error")
    BY <1>3 DEF Iterate
  <2>2. AgentsAre(options', agents', announced')
    BY <1>1, <2>1, TopEndsWell
  <2>3. (GuardsSeeEveryCall /\ ReadOnlyHolds)'
    BY <1>1 DEF GuardsSeeEveryCall, ReadOnlyHolds
  <2>4. QED
    BY <2>2, <2>3 DEF TreeInv
<1>4. CASE ~(cancelled \/ Spent(Top))
  <2> DEFINE it == IF Top.cap > 0 THEN agents[Len(agents)].iteration + 1 ELSE agents[Len(agents)].iteration
  <2>1. /\ agents' = [agents EXCEPT ![Len(agents)].phase = "model",
                         ![Len(agents)].iteration = IF Top.cap > 0 THEN @ + 1 ELSE @]
        /\ announced' = announced
    BY <1>4 DEF Iterate
  <2>2. agents[Len(agents)] \in Records(options) /\ Len(agents) \in DOMAIN agents
    BY <1>1, <1>2, SomeRun
  <2>3. agents' = [agents EXCEPT ![Len(agents)].phase = "model", ![Len(agents)].iteration = it]
    BY <2>1, <2>2 DEF Top, Records
  <2>4. it \in Int
    BY <2>2 DEF Records
  <2> HIDE DEF it
  <2>5. AgentsAre(options, [agents EXCEPT ![Len(agents)].phase = "model", ![Len(agents)].iteration = it], announced)
    BY <1>1, <1>2, <2>4, TopMoves
  <2>6. AgentsAre(options', agents', announced')
    BY <1>1, <2>1, <2>3, <2>5
  <2>7. (GuardsSeeEveryCall /\ ReadOnlyHolds)'
    BY <1>1 DEF GuardsSeeEveryCall, ReadOnlyHolds
  <2>8. QED
    BY <2>6, <2>7 DEF TreeInv
<1>5. QED
  BY <1>3, <1>4

LEMMA ModelEndsKeeps == TreeInv /\ (ModelAnswers \/ ModelFails) => TreeInv'
<1> SUFFICES ASSUME TreeInv, ModelAnswers \/ ModelFails PROVE TreeInv'
  OBVIOUS
<1>1. agents # <<>> /\ ran' = NoCall /\ options' = options /\ \E how : TopEnds(how)
  BY DEF ModelAnswers, ModelFails
<1>2. AgentsAre(options', agents', announced')
  BY <1>1, TopEndsWell
<1>3. (GuardsSeeEveryCall /\ ReadOnlyHolds)'
  BY <1>1 DEF GuardsSeeEveryCall, ReadOnlyHolds
<1>4. QED
  BY <1>2, <1>3 DEF TreeInv

LEMMA BackToIterateKeeps == TreeInv /\ (SpawnFails \/ \E n \in Range(Lower) : Vetoed(n)) => TreeInv'
<1> SUFFICES ASSUME TreeInv, SpawnFails \/ \E n \in Range(Lower) : Vetoed(n) PROVE TreeInv'
  OBVIOUS
<1>1. /\ agents # <<>> /\ ran' = NoCall /\ options' = options /\ announced' = announced
      /\ agents' = [agents EXCEPT ![Len(agents)].phase = "iterate"]
  BY DEF SpawnFails, Vetoed, With
<1>2. AgentsAre(options, agents, announced)
  BY DEF TreeInv
<1>3. 0 \in Int
  OBVIOUS
<1>4. AgentsAre(options, [agents EXCEPT ![Len(agents)].phase = "iterate"], announced)
  BY <1>1, <1>2, <1>3, TopMoves
<1>5. AgentsAre(options', agents', announced')
  BY <1>1, <1>4
<1>6. (GuardsSeeEveryCall /\ ReadOnlyHolds)'
  BY <1>1 DEF GuardsSeeEveryCall, ReadOnlyHolds
<1>7. QED
  BY <1>5, <1>6 DEF TreeInv

(* A call that runs: the hooks asked for are in the agent's list, and what *)
(* its name stands for in the main agent's port is what it is itself.      *)
LEMMA CallsToolKeeps ==
  ASSUME TreeInv, NEW n \in Range(Lower), NEW reads \in BOOLEAN, CallsTool(n, reads)
  PROVE  TreeInv'
<1> DEFINE d == Len(agents)
           t == agents[d].tools[n]
<1>1. /\ agents # <<>> /\ n \in DOMAIN agents[d].tools /\ ~ReadOnlyDenies(agents[d], n, reads)
      /\ ran' = [tool |-> n, readOnly |-> t.readOnly, reads |-> reads, seenBy |-> Watches(agents[d])]
      /\ agents' = [agents EXCEPT ![Len(agents)].phase = IF t = SpawnTool THEN "spawning" ELSE "iterate"]
      /\ options' = options /\ announced' = announced
  BY DEF CallsTool, Top, With
<1>2. AgentsAre(options, agents, announced)
  BY DEF TreeInv
<1>3. d \in Nat \ {0} /\ d \in 1 .. d /\ 1 \in 1 .. d
  <2>1. d \in Nat \ {0}
    BY <1>1, <1>2, SomeRun
  <2>2. QED
    BY <2>1
<1>4. options \in Settings /\ ~Collides(MainStatic(options)) /\ options.depth \in Int /\ options.readOnly \in BOOLEAN
  BY <1>2, TreeAssumption DEF AgentsAre
<1>5. agents[d].tools = ToolsOf(options, d) /\ agents[d].exts = ExtsOf(options, d) /\ agents[1].tools = ToolsOf(options, 1)
  BY <1>2, <1>3 DEF AgentsAre, AgentIs
<1>6. Lower[n] = n
  BY MountAssumption DEF Range
<1>7. d = Len(agents)
  OBVIOUS
<1> HIDE DEF d
<1>8. t = SpawnTool => d <= options.depth
  <2>1. CASE d = 1
    <3>1. ToolsOf(options, d) = Mounted(MainStatic(options))
      BY <2>1 DEF ToolsOf
    <3>2. t = SpawnTool => options.depth > 0
      BY <1>1, <1>4, <1>5, <3>1, MainSpawns
    <3>3. QED
      BY <1>4, <2>1, <3>2
  <2>2. CASE d # 1
    <3>1. ToolsOf(options, d) = Mounted(ChildStatic(options, d - 1)) /\ d - 1 \in Nat
      BY <1>3, <2>2 DEF ToolsOf
    <3>2. t = SpawnTool => d - 1 < options.depth
      BY <1>1, <1>4, <1>5, <3>1, ChildMounts
    <3>3. QED
      BY <1>3, <1>4, <3>2
  <2>3. QED
    BY <2>1, <2>2
<1>9. AgentsAre(options', agents', announced')
  <2> DEFINE ph == IF t = SpawnTool THEN "spawning" ELSE "iterate"
  <2>1. ph \in {"iterate", "model", "spawning"} /\ (ph = "spawning" => Len(agents) <= options.depth) /\ 0 \in Int
    BY <1>7, <1>8
  <2>2. agents' = [agents EXCEPT ![Len(agents)].phase = ph]
    BY <1>1
  <2> HIDE DEF ph, t
  <2>3. AgentsAre(options, [agents EXCEPT ![Len(agents)].phase = ph], announced)
    BY <1>1, <1>2, <2>1, TopMoves
  <2>4. QED
    BY <1>1, <2>2, <2>3
<1>10. Wanted(options) \subseteq ExtsOf(options, d) /\ (options.systemOne => ExtsOf(options, d) \cap {"systemone", "systemone-child"} # {})
  BY <1>3, <1>4, ExtsSee
<1>11. GuardsSeeEveryCall'
  <2>1. ran'.seenBy = ExtsOf(options, d) \cap {"read-only", "tool-call-gate", "systemone", "systemone-child"}
    BY <1>1, <1>5 DEF Watches
  <2>2. Wanted(options) \subseteq {"read-only", "tool-call-gate"}
    BY DEF Wanted
  <2>3. Wanted(options) \subseteq ran'.seenBy
    BY <1>10, <2>1, <2>2
  <2>4. options.systemOne => ran'.seenBy \cap {"systemone", "systemone-child"} # {}
    BY <1>10, <2>1
  <2>5. QED
    BY <1>1, <2>3, <2>4 DEF GuardsSeeEveryCall, Wanted
<1>12. ASSUME options.readOnly
       PROVE  \/ t.readOnly \/ n = "spawn_agent" \/ (n = "bash" /\ reads)
              \/ (n = "list_skills" /\ "load_skill" \in LowerAll(options.disabled))
  <2>1. "read-only" \in agents[d].exts
    BY <1>5, <1>10, <1>12 DEF Wanted
  <2>2. n = "spawn_agent" \/ ReadOnly(agents[1].tools, n) \/ (n = "bash" /\ reads)
    BY <1>1, <2>1 DEF ReadOnlyDenies
  <2>3. SUFFICES ASSUME ReadOnly(agents[1].tools, n), n # "spawn_agent"
                 PROVE  t.readOnly \/ (n = "list_skills" /\ "load_skill" \in LowerAll(options.disabled))
    BY <2>2
  <2>4. ToolsOf(options, 1) = Mounted(MainStatic(options))
    BY DEF ToolsOf
  <2>5. CASE d = 1
    <3>1. agents[d].tools[Lower[n]].readOnly
      BY <2>3, <2>5 DEF ReadOnly
    <3>2. QED
      BY <1>6, <3>1
  <2>6. CASE d # 1
    <3>1. ToolsOf(options, d) = Mounted(ChildStatic(options, d - 1)) /\ d - 1 \in Nat
      BY <1>3, <2>6 DEF ToolsOf
    <3>2. t.readOnly \/ n \in {"bash", "edit", "list_skills", "load_skill", "spawn_agent"}
      BY <1>1, <1>4, <1>5, <3>1, ChildMounts
    <3>3. ReadOnly(Mounted(MainStatic(options)), n)
      BY <1>5, <2>3, <2>4
    <3>4. n \in {"bash", "edit", "load_skill", "list_skills"} => n = "list_skills" /\ "load_skill" \in LowerAll(options.disabled)
      BY <1>4, <3>3, MainMounts
    <3>5. QED
      BY <2>3, <3>2, <3>4
  <2>7. QED
    BY <2>5, <2>6
<1>13. ReadOnlyHolds'
  <2>1. ran'.tool = n /\ ran'.readOnly = t.readOnly /\ ran'.reads = reads
    BY <1>1
  <2>2. QED
    BY <1>1, <1>12, <2>1 DEF ReadOnlyHolds
<1>14. QED
  BY <1>9, <1>11, <1>13 DEF TreeInv

LEMMA SpawnAgentKeeps ==
  ASSUME TreeInv, NEW n \in 1 .. MaxSuffix, SpawnAgent(n)
  PROVE  TreeInv'
<1> DEFINE id == Append(agents[Len(agents)].id, n)
<1>1. /\ agents # <<>> /\ agents[Len(agents)].phase = "spawning" /\ ran' = NoCall
      /\ agents' = Append([agents EXCEPT ![Len(agents)].phase = "waiting"], Child(options, Len(agents) - 1 + 1, id))
      /\ announced' = announced \cup {id} /\ options' = options
  BY DEF SpawnAgent, Top, With, Depth
<1>2. AgentsAre(options, agents, announced)
  BY DEF TreeInv
<1>3. n \in Nat
  BY TreeAssumption
<1>4. id = Append(agents[Len(agents)].id, n)
  OBVIOUS
<1> HIDE DEF id
<1>5. AgentsAre(options, Append([agents EXCEPT ![Len(agents)].phase = "waiting"], Child(options, Len(agents) - 1 + 1, id)),
                announced \cup {id})
  BY <1>1, <1>2, <1>3, <1>4, ChildJoins
<1>6. AgentsAre(options', agents', announced')
  BY <1>1, <1>5
<1>7. (GuardsSeeEveryCall /\ ReadOnlyHolds)'
  BY <1>1 DEF GuardsSeeEveryCall, ReadOnlyHolds
<1>8. QED
  BY <1>6, <1>7 DEF TreeInv

LEMMA TreeStutters == TreeInv /\ (Cancel \/ UNCHANGED treeVars) => TreeInv'
<1> SUFFICES ASSUME TreeInv, Cancel \/ UNCHANGED treeVars PROVE TreeInv'
  OBVIOUS
<1>1. options' = options /\ agents' = agents /\ announced' = announced /\ ran' = ran
  BY DEF Cancel, treeVars
<1>2. AgentsAre(options', agents', announced')
  BY <1>1 DEF TreeInv
<1>3. (GuardsSeeEveryCall /\ ReadOnlyHolds)'
  BY <1>1 DEF TreeInv, GuardsSeeEveryCall, ReadOnlyHolds
<1>4. QED
  BY <1>2, <1>3 DEF TreeInv

LEMMA TreeStep == TreeInv /\ [TreeNext]_treeVars => TreeInv'
<1> SUFFICES ASSUME TreeInv, [TreeNext]_treeVars PROVE TreeInv'
  OBVIOUS
<1>1. CASE RunTurn
  BY <1>1, RunTurnKeeps
<1>2. CASE Iterate
  BY <1>2, IterateKeeps
<1>3. CASE ModelAnswers \/ ModelFails
  BY <1>3, ModelEndsKeeps
<1>4. CASE SpawnFails \/ \E n \in Range(Lower) : Vetoed(n)
  BY <1>4, BackToIterateKeeps
<1>5. CASE \E n \in Range(Lower), reads \in BOOLEAN : CallsTool(n, reads)
  BY <1>5, CallsToolKeeps
<1>6. CASE \E n \in 1 .. MaxSuffix : SpawnAgent(n)
  BY <1>6, SpawnAgentKeeps
<1>7. CASE Cancel \/ UNCHANGED treeVars
  BY <1>7, TreeStutters
<1>8. QED
  BY <1>1, <1>2, <1>3, <1>4, <1>5, <1>6, <1>7 DEF TreeNext, Asked, Spawning

(* However options are set, tools named and agents nested: every agent has *)
(* the hooks the main one was asked to have, and a read-only one changes   *)
(* nothing.                                                                *)
THEOREM TreeStaysGuarded == TreeSpec => []TreeIsGuarded
<1>1. TreeInit => TreeInv
  BY TreeBegins
<1>2. TreeInv /\ [TreeNext]_treeVars => TreeInv'
  BY TreeStep
<1>3. TreeInv => TreeIsGuarded
  BY TreeImplies
<1>4. QED
  BY <1>1, <1>2, <1>3, PTL DEF TreeSpec
=============================================================================
