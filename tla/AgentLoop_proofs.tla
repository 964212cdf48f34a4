-------------------------- MODULE AgentLoop_proofs --------------------------
(***************************************************************************)
(* What TLC checks of AgentLoop on a small instance, proved for every set  *)
(* of call ids, every buffer size, every retry budget and every            *)
(* keepRecent.  The argument: the history is closed (its last message is   *)
(* not an open tool_use) at every point of the loop except one, and        *)
(* compaction keeps both the last message and every adjacent pair of the   *)
(* tail it keeps.  Then, of the call that one pass of the loop makes to    *)
(* its model (StreamCall), what reaches the listeners and the loop, for    *)
(* every number of tries of both retry layers and every reply.             *)
(***************************************************************************)
EXTENDS BetweenTurns, StreamCall, SequenceTheorems, FiniteSetTheorems, TLAPS

EndsOpen(h) == h # <<>> /\ h[Len(h)].kind = "calls"

UsersTurn(h) == h # <<>> /\ h[Len(h)].kind \in UserKinds \cup {"results"}

(* Where the history ends at each point of the loop, and what the store    *)
(* and the loop still owe it there.                                        *)
HistoryEnds ==
  /\ pc \in {"appended", "head", "hooks", "asking", "final", "calls", "batch",
             "feed", "drain", "inject"} => UsersTurn(msgs)
  /\ pc = "pair" => msgs # <<>> /\ msgs[Len(msgs)] = Calls(resp.calls)
                     /\ pending = resp.calls
  /\ pc \in {"idle", "after", "unwind"} => ~EndsOpen(msgs)
  /\ pc \in {"feed", "pair"} => unrecorded = resp.calls

HistoryInv == ToolUseAnswered /\ NothingForgotten /\ HistoryEnds

IInv == TypeOK /\ MachineInStep /\ SteeringInOrder /\ HistoryInv
-----------------------------------------------------------------------------
(* The messages the loop writes are messages.                              *)
LEMMA MessageTypes ==
  /\ \A kind \in Kinds : Says(kind) \in Message
  /\ \A ids \in SUBSET CallIds : Calls(ids) \in Message /\ Results(ids) \in Message
BY DEF Says, Calls, Results, Message, Kinds, UserKinds, AssistantKinds

(* Appending keeps a history answered when it was not left open, or when   *)
(* what is appended answers its last message.                              *)
LEMMA AppendAnswered ==
  ASSUME NEW h \in Seq(Message), NEW m \in Message, Answered(h),
         EndsOpen(h) => m = Results(h[Len(h)].calls)
  PROVE  /\ Append(h, m) \in Seq(Message)
         /\ Answered(Append(h, m))
         /\ Append(h, m) # <<>>
         /\ Len(Append(h, m)) = Len(h) + 1
         /\ Append(h, m)[Len(Append(h, m))] = m
<1> DEFINE g == Append(h, m)
<1>1. /\ g \in Seq(Message) /\ g # <<>> /\ Len(g) = Len(h) + 1
      /\ \A i \in 1 .. Len(h) : g[i] = h[i]
      /\ g[Len(g)] = m
  BY AppendProperties
<1>2. Answered(g)
  <2> SUFFICES ASSUME NEW i \in 1 .. Len(g) - 1, g[i].kind = "calls"
               PROVE  g[i + 1] = Results(g[i].calls)
    BY DEF Answered
  <2>0. Len(h) \in Nat
    BY LenProperties
  <2>1. CASE i = Len(h)
    <3>1. h # <<>> /\ h[Len(h)].kind = "calls"
      BY <1>1, <2>0, <2>1, EmptySeq
    <3> QED BY <1>1, <2>0, <2>1, <3>1 DEF EndsOpen
  <2>2. CASE i # Len(h)
    <3>1. i \in 1 .. Len(h) - 1
      BY <1>1, <2>0, <2>2
    <3> QED BY <1>1, <2>0, <3>1 DEF Answered
  <2> QED BY <2>1, <2>2
<1> QED BY <1>1, <1>2

(* Compaction keeps a history answered, and its last message.              *)
LEMMA CompressAnswered ==
  ASSUME NEW h \in Seq(Message), h # <<>>, Answered(h)
  PROVE  /\ Compress(h) \in Seq(Message)
         /\ Answered(Compress(h))
         /\ Compress(h) # <<>>
         /\ Compress(h)[Len(Compress(h))] = h[Len(h)]
<1> USE LoopAssumption
<1>0. Len(h) \in Nat /\ h \in [1 .. Len(h) -> Message]
  BY LenProperties
<1>1. CASE Len(h) <= KeepRecent
  BY <1>1 DEF Compress
<1>2. CASE Len(h) > KeepRecent
  <2> DEFINE cut  == Len(h) - KeepRecent
             head == <<Says("summary"), Says("ack")>>
             tail == SubSeq(h, cut + 1, Len(h))
             g    == head \o tail
  <2>1. cut \in Nat /\ KeepRecent \in Nat \ {0} /\ cut + KeepRecent = Len(h)
    BY <1>0, <1>2
  <2>2. /\ tail \in Seq(Message) /\ Len(tail) = KeepRecent
        /\ \A i \in 1 .. KeepRecent : tail[i] = h[cut + i]
    <3>1. \A i \in cut + 1 .. Len(h) : h[i] \in Message
      BY <1>0, <2>1
    <3>2. /\ tail \in Seq(Message)
          /\ Len(tail) = IF cut + 1 <= Len(h) THEN Len(h) - (cut + 1) + 1 ELSE 0
          /\ \A i \in 1 .. Len(h) - (cut + 1) + 1 : tail[i] = h[cut + 1 + i - 1]
      BY <1>0, <2>1, <3>1, SubSeqProperties
    <3>3. \A i \in 1 .. KeepRecent : cut + 1 + i - 1 = cut + i
      BY <2>1
    <3>4. Len(h) - (cut + 1) + 1 = KeepRecent /\ cut + 1 <= Len(h)
      BY <2>1
    <3> HIDE DEF cut, tail
    <3> QED BY <3>2, <3>3, <3>4
  <2>3. /\ head \in Seq(Message) /\ Len(head) = 2
        /\ head[1] = Says("summary") /\ head[2] = Says("ack")
    BY MessageTypes DEF Kinds, UserKinds, AssistantKinds
  <2> HIDE DEF cut, head, tail
  <2>4. /\ g \in Seq(Message) /\ Len(g) = 2 + KeepRecent
        /\ \A i \in 1 .. 2 : g[i] = head[i]
        /\ \A i \in 1 .. KeepRecent : g[i + 2] = h[cut + i]
    <3>1. /\ g \in Seq(Message) /\ Len(g) = Len(head) + Len(tail)
          /\ \A i \in 1 .. Len(head) + Len(tail) :
               g[i] = IF i <= Len(head) THEN head[i] ELSE tail[i - Len(head)]
      BY <2>2, <2>3, ConcatProperties
    <3> HIDE DEF g
    <3>2. Len(g) = 2 + KeepRecent /\ \A i \in 1 .. 2 : g[i] = head[i]
      BY <2>1, <2>2, <2>3, <3>1
    <3>3. ASSUME NEW i \in 1 .. KeepRecent PROVE g[i + 2] = h[cut + i]
      <4>1. i + 2 \in 1 .. 2 + KeepRecent /\ ~(i + 2 <= 2) /\ i + 2 - 2 = i
        BY <2>1
      <4> QED BY <2>2, <2>3, <3>1, <4>1
    <3> QED BY <3>1, <3>2, <3>3
  <2> HIDE DEF g
  <2>5. Answered(g)
    <3> SUFFICES ASSUME NEW i \in 1 .. Len(g) - 1, g[i].kind = "calls"
                 PROVE  g[i + 1] = Results(g[i].calls)
      BY DEF Answered
    <3>1. CASE i \in 1 .. 2
      BY <2>3, <2>4, <3>1 DEF Says
    <3>2. CASE i \in 3 .. Len(g) - 1
      <4> DEFINE j == i - 2
      <4>1. j \in 1 .. KeepRecent /\ j + 1 \in 1 .. KeepRecent
            /\ cut + j \in 1 .. Len(h) - 1 /\ i = j + 2 /\ i + 1 = (j + 1) + 2
            /\ cut + (j + 1) = (cut + j) + 1
        BY <2>1, <2>4, <3>2
      <4> HIDE DEF j
      <4>2. g[i] = h[cut + j] /\ g[i + 1] = h[(cut + j) + 1]
        BY <2>4, <4>1
      <4> QED BY <4>1, <4>2 DEF Answered
    <3> QED BY <2>1, <2>4, <3>1, <3>2
  <2>6. g[Len(g)] = h[Len(h)]
    BY <2>1, <2>4
  <2>7. Compress(h) = g
    BY <1>2, <1>0, <2>1 DEF Compress, g, head, tail, cut
  <2>8. g # <<>>
    BY <2>1, <2>4, EmptySeq
  <2> QED BY <2>4, <2>5, <2>6, <2>7, <2>8
<1> QED BY <1>0, <1>1, <1>2

(* AppendAssistant, with or without compaction.                            *)
LEMMA CompactedAnswered ==
  ASSUME NEW h \in Seq(Message), NEW m \in Message, Answered(h), ~EndsOpen(h),
         NEW g \in Compacted(Append(h, m))
  PROVE  g \in Seq(Message) /\ Answered(g) /\ g # <<>> /\ g[Len(g)] = m
<1>1. /\ Append(h, m) \in Seq(Message) /\ Answered(Append(h, m))
      /\ Append(h, m) # <<>> /\ Append(h, m)[Len(Append(h, m))] = m
  BY AppendAnswered
<1>2. g = Append(h, m) \/ g = Compress(Append(h, m))
  BY DEF Compacted
<1> QED BY <1>1, <1>2, CompressAnswered
-----------------------------------------------------------------------------
LEMMA CompressedType ==
  ASSUME NEW h \in Seq(Message), NEW m \in Message, NEW g \in Compacted(Append(h, m))
  PROVE  g \in Seq(Message)
<1>1. Append(h, m) \in Seq(Message) /\ Append(h, m) # <<>>
  BY AppendProperties
<1>2. ASSUME NEW k \in Seq(Message) PROVE Compress(k) \in Seq(Message)
  <2>0. Len(k) \in Nat /\ k \in [1 .. Len(k) -> Message] /\ KeepRecent \in Nat
    BY LenProperties, LoopAssumption
  <2>1. SubSeq(k, Len(k) - KeepRecent + 1, Len(k)) \in Seq(Message) \/ Len(k) <= KeepRecent
    <3>1. CASE Len(k) > KeepRecent
      <4>1. \A i \in Len(k) - KeepRecent + 1 .. Len(k) : k[i] \in Message
        BY <2>0, <3>1
      <4>2. Len(k) - KeepRecent + 1 \in Int /\ Len(k) \in Int
        BY <2>0
      <4> QED BY <4>1, <4>2, SubSeqProperties
    <3> QED BY <2>0, <3>1
  <2>2. <<Says("summary"), Says("ack")>> \in Seq(Message)
    BY MessageTypes DEF Kinds, UserKinds, AssistantKinds
  <2> QED BY <2>1, <2>2, ConcatProperties DEF Compress
<1> QED BY <1>1, <1>2 DEF Compacted

(* TypeOK is inductive by itself.                                          *)
LEMMA TypeStep == TypeOK /\ [Next]_vars => TypeOK'
<1> SUFFICES ASSUME TypeOK, [Next]_vars PROVE TypeOK'
  OBVIOUS
<1> USE LoopAssumption DEF TypeOK, PCs, LoopStates, Contexts, Outcomes, Goto, Break,
        Fire, Target, CtxErr, loopVars, storeVars, steerVars
<1>1. /\ \A k \in Kinds : Says(k) \in Message
      /\ \A h \in Seq(Message), m \in Message :
           /\ Append(h, m) \in Seq(Message)
           /\ \A g \in Compacted(Append(h, m)) : g \in Seq(Message)
  BY MessageTypes, CompressedType, AppendProperties
<1>2. NoResponse \in Responses \cup {NoResponse} /\ resp.calls \subseteq CallIds
      /\ Calls(resp.calls) \in Message /\ Results(pending) \in Message
  BY MessageTypes DEF Responses, NoResponse
<1>3. {"query", "retry", "steer", "answer"} \subseteq Kinds
  BY DEF Kinds, UserKinds, AssistantKinds
<1>4. CASE StartTurn
  BY <1>1, <1>2, <1>3, <1>4 DEF StartTurn, AppendUser
<1>5. CASE BeginLoop
  BY <1>5 DEF BeginLoop
<1>6. CASE StartReasoning \/ HeadInterrupted
  BY <1>6 DEF StartReasoning, HeadInterrupted
<1>7. CASE HooksPass \/ HooksFail \/ HooksTerminate
  BY <1>7 DEF HooksPass, HooksFail, HooksTerminate
<1>8. CASE Reply \/ ReasoningError
  BY <1>8 DEF Reply, ReasoningError
<1>9. CASE RetryFinal
  BY <1>1, <1>3, <1>9 DEF RetryFinal
<1>10. CASE GiveUp \/ AcceptFinal
  BY <1>1, <1>3, <1>10 DEF GiveUp, AcceptFinal
<1>11. CASE AfterTurn \/ CallsInterrupted \/ StartBatch
  BY <1>11 DEF AfterTurn, CallsInterrupted, StartBatch
<1>12. CASE FinishBatch
  BY <1>2, <1>12 DEF FinishBatch
<1>13. CASE FeedAssistant
  BY <1>1, <1>2, <1>13 DEF FeedAssistant
<1>14. CASE FeedResults
  BY <1>1, <1>2, <1>14 DEF FeedResults
<1>15. CASE DrainOne
  BY <1>15, HeadTailProperties, AppendProperties DEF DrainOne
<1>16. CASE Inject
  BY <1>1, <1>3, <1>16, HeadTailProperties DEF Inject, AppendUser
<1>17. CASE DrainDone \/ NextIteration \/ Unwind \/ Interrupt
  BY <1>17 DEF DrainDone, NextIteration, Unwind, Interrupt
<1>18. CASE Steer
  BY <1>18, AppendProperties DEF Steer
<1>19. CASE UNCHANGED vars
  BY <1>19 DEF vars
<1> QED
  BY <1>4, <1>5, <1>6, <1>7, <1>8, <1>9, <1>10, <1>11, <1>12, <1>13, <1>14,
     <1>15, <1>16, <1>17, <1>18, <1>19 DEF Next, LoopStep
-----------------------------------------------------------------------------
(* The reported state follows the program counter: both change together.   *)
LEMMA MachineStep == TypeOK /\ MachineInStep /\ [Next]_vars => MachineInStep'
<1> SUFFICES ASSUME TypeOK, MachineInStep, [Next]_vars PROVE MachineInStep'
  OBVIOUS
<1> USE DEF TypeOK, MachineInStep, IdleReport, LoopStates, Goto, Break, Fire, Source,
        Target, loopVars
<1>1. CASE StartTurn \/ BeginLoop \/ StartReasoning \/ HeadInterrupted
  BY <1>1 DEF StartTurn, BeginLoop, StartReasoning, HeadInterrupted
<1>2. CASE HooksPass \/ HooksFail \/ HooksTerminate \/ Reply \/ ReasoningError
  BY <1>2 DEF HooksPass, HooksFail, HooksTerminate, Reply, ReasoningError
<1>3. CASE RetryFinal \/ GiveUp
  BY <1>3 DEF RetryFinal, GiveUp
<1>4. CASE AcceptFinal \/ AfterTurn \/ Unwind
  BY <1>4 DEF AcceptFinal, AfterTurn, Unwind
<1>5. CASE CallsInterrupted \/ StartBatch \/ FinishBatch
  BY <1>5 DEF CallsInterrupted, StartBatch, FinishBatch
<1>6. CASE FeedAssistant \/ FeedResults
  BY <1>6 DEF FeedAssistant, FeedResults
<1>7. CASE DrainOne \/ DrainDone \/ Inject \/ NextIteration
  BY <1>7 DEF DrainOne, DrainDone, Inject, NextIteration
<1>8. CASE Steer \/ Interrupt
  BY <1>8 DEF Steer, Interrupt
<1>9. CASE UNCHANGED vars
  BY <1>9 DEF vars
<1> QED
  BY <1>1, <1>2, <1>3, <1>4, <1>5, <1>6, <1>7, <1>8, <1>9 DEF Next, LoopStep

(* Only Steer, DrainOne and Inject touch the steering queue.               *)
LEMMA SteeringStep == TypeOK /\ SteeringInOrder /\ [Next]_vars => SteeringInOrder'
<1> SUFFICES ASSUME TypeOK, SteeringInOrder, [Next]_vars PROVE SteeringInOrder'
  OBVIOUS
<1>0. /\ Len(drained) \in Nat /\ Len(steerCh) \in Nat
      /\ accepted \in Nat /\ injected \in Nat
  BY LenProperties DEF TypeOK
<1>1. CASE Steer
  <2>1. /\ Len(steerCh') = Len(steerCh) + 1
        /\ \A i \in 1 .. Len(steerCh) : steerCh'[i] = steerCh[i]
        /\ steerCh'[Len(steerCh) + 1] = accepted + 1
    BY <1>0, <1>1, AppendProperties DEF Steer, TypeOK
  <2> QED BY <1>0, <1>1, <2>1 DEF Steer, SteeringInOrder
<1>2. CASE DrainOne
  <2>1. /\ steerCh # <<>> /\ Len(steerCh) > 0
        /\ Len(steerCh') = Len(steerCh) - 1
        /\ \A i \in 1 .. Len(steerCh) - 1 : steerCh'[i] = steerCh[i + 1]
        /\ steerCh[1] = Head(steerCh)
    BY <1>0, <1>2, HeadTailProperties, EmptySeq DEF DrainOne, TypeOK
  <2>2. /\ Len(drained') = Len(drained) + 1
        /\ \A i \in 1 .. Len(drained) : drained'[i] = drained[i]
        /\ drained'[Len(drained) + 1] = steerCh[1]
    BY <1>0, <1>2, <2>1, AppendProperties, HeadTailProperties DEF DrainOne, TypeOK
  <2>3. UNCHANGED <<accepted, injected>>
    BY <1>2 DEF DrainOne
  <2>4. steerCh[1] = injected + Len(drained) + 1
    BY <1>0, <2>1 DEF SteeringInOrder
  <2>5. injected + Len(drained') + Len(steerCh') = accepted
    <3>1. Len(drained') = Len(drained) + 1 /\ Len(steerCh') = Len(steerCh) - 1
      BY <2>1, <2>2
    <3>2. injected + Len(drained) + Len(steerCh) = accepted
      BY DEF SteeringInOrder
    <3> QED BY <1>0, <3>1, <3>2
  <2>6. ASSUME NEW i \in 1 .. Len(drained') PROVE drained'[i] = injected + i
    <3>1. \A k \in 1 .. Len(drained) : drained[k] = injected + k
      BY DEF SteeringInOrder
    <3>2. CASE i = Len(drained) + 1
      BY <1>0, <2>2, <2>4, <3>2
    <3>3. CASE i \in 1 .. Len(drained)
      BY <1>0, <2>2, <3>1, <3>3
    <3>4. i = Len(drained) + 1 \/ i \in 1 .. Len(drained)
      BY <1>0, <2>2, <2>6
    <3> QED BY <3>2, <3>3, <3>4
  <2>7. ASSUME NEW i \in 1 .. Len(steerCh')
        PROVE  steerCh'[i] = injected + Len(drained') + i
    <3>1. i + 1 \in 1 .. Len(steerCh) /\ steerCh'[i] = steerCh[i + 1]
      BY <1>0, <2>1, <2>7
    <3>2. steerCh[i + 1] = injected + Len(drained) + (i + 1)
      BY <3>1 DEF SteeringInOrder
    <3> QED BY <1>0, <2>2, <3>1, <3>2
  <2> QED BY <2>3, <2>5, <2>6, <2>7 DEF SteeringInOrder
<1>3. CASE Inject
  <2>1. /\ drained # <<>> /\ Len(drained) > 0
        /\ Len(drained') = Len(drained) - 1
        /\ \A i \in 1 .. Len(drained) - 1 : drained'[i] = drained[i + 1]
        /\ injected' = drained[1]
    BY <1>0, <1>3, HeadTailProperties, EmptySeq DEF Inject, TypeOK
  <2>2. injected' = injected + 1 /\ UNCHANGED <<accepted, steerCh>>
    BY <1>0, <1>3, <2>1 DEF Inject, SteeringInOrder
  <2>3. injected' + Len(drained') + Len(steerCh) = accepted
    BY <1>0, <2>1, <2>2 DEF SteeringInOrder
  <2>4. ASSUME NEW i \in 1 .. Len(drained') PROVE drained'[i] = injected' + i
    <3>1. i + 1 \in 1 .. Len(drained) /\ drained'[i] = drained[i + 1]
      BY <1>0, <2>1, <2>4
    <3>2. drained[i + 1] = injected + (i + 1)
      BY <3>1 DEF SteeringInOrder
    <3> QED BY <1>0, <2>2, <3>1, <3>2
  <2>5. ASSUME NEW i \in 1 .. Len(steerCh)
        PROVE  steerCh[i] = injected' + Len(drained') + i
    BY <1>0, <2>1, <2>2, <2>5 DEF SteeringInOrder
  <2> QED BY <2>2, <2>3, <2>4, <2>5 DEF SteeringInOrder
<1>4. CASE UNCHANGED steerVars
  BY <1>4 DEF SteeringInOrder, steerVars
<1>5. ASSUME Next, ~Steer, ~DrainOne, ~Inject PROVE UNCHANGED steerVars
  BY <1>5 DEF Next, LoopStep, StartTurn, BeginLoop, StartReasoning, HeadInterrupted,
     HooksPass, HooksFail, HooksTerminate, Reply, ReasoningError, RetryFinal, GiveUp,
     AcceptFinal, AfterTurn, CallsInterrupted, StartBatch, FinishBatch, FeedAssistant,
     FeedResults, DrainDone, NextIteration, Unwind, Interrupt
<1>6. UNCHANGED vars => UNCHANGED steerVars
  BY DEF vars
<1> QED BY <1>1, <1>2, <1>3, <1>4, <1>5, <1>6

(* The heart of the matter: seven steps write to the history, and one runs *)
(* tools; the others only move the program counter between points where    *)
(* the history ends the same way.                                          *)
LEMMA HistoryStep == TypeOK /\ HistoryInv /\ [Next]_vars => HistoryInv'
<1> SUFFICES ASSUME TypeOK, HistoryInv, [Next]_vars PROVE HistoryInv'
  OBVIOUS
<1> USE DEF HistoryInv, ToolUseAnswered, NothingForgotten, HistoryEnds, UsersTurn,
        EndsOpen, Goto, Break
<1>1. /\ msgs \in Seq(Message) /\ Answered(msgs)
      /\ pc # "pair" => ~EndsOpen(msgs)
      /\ \A k \in Kinds : Says(k) \in Message /\ Says(k).kind = k
      /\ resp.calls \subseteq CallIds /\ pending \subseteq CallIds
  BY MessageTypes DEF TypeOK, Says, Responses, NoResponse
<1>2. /\ {"query", "retry", "steer", "answer"} \subseteq Kinds
      /\ {"query", "retry", "steer", "results"} \subseteq UserKinds \cup {"results"}
      /\ "calls" \notin UserKinds \cup {"results"}
  BY DEF Kinds, UserKinds, AssistantKinds
<1>3. ASSUME NEW k \in {"query", "steer"}, AppendUser(k), pc # "pair"
      PROVE  Answered(msgs') /\ UsersTurn(msgs')
  BY <1>1, <1>2, <1>3, AppendAnswered DEF AppendUser
<1>4. ASSUME NEW h \in Compacted(Append(msgs, Says("answer"))), pc # "pair"
      PROVE  /\ h \in Seq(Message) /\ Answered(h) /\ h # <<>>
             /\ h[Len(h)] = Says("answer")
  BY <1>1, <1>2, <1>4, CompactedAnswered
<1>5. CASE StartTurn
  BY <1>1, <1>2, <1>3, <1>5 DEF StartTurn
<1>6. CASE Inject
  BY <1>1, <1>2, <1>3, <1>6 DEF Inject, loopVars
<1>7. CASE RetryFinal
  <2>1. PICK h \in Compacted(Append(msgs, Says("answer"))) :
               msgs' = Append(h, Says("retry"))
    BY <1>7 DEF RetryFinal
  <2>2. /\ h \in Seq(Message) /\ Answered(h) /\ h # <<>>
        /\ h[Len(h)].kind = "answer" /\ Says("retry") \in Message
    BY <1>1, <1>2, <1>4, <1>7 DEF RetryFinal
  <2>3. Answered(msgs') /\ msgs' # <<>> /\ msgs'[Len(msgs')] = Says("retry")
    BY <2>1, <2>2, AppendAnswered
  <2> QED BY <1>1, <1>2, <1>7, <2>3 DEF RetryFinal
<1>8. CASE GiveUp \/ AcceptFinal
  <2>1. Answered(msgs') /\ msgs' # <<>> /\ msgs'[Len(msgs')] = Says("answer")
    BY <1>4, <1>8 DEF GiveUp, AcceptFinal
  <2> QED BY <1>1, <1>2, <1>8, <2>1 DEF GiveUp, AcceptFinal
<1>9. CASE FinishBatch
  BY <1>1, <1>9 DEF FinishBatch, storeVars
<1>10. CASE FeedAssistant
  <2>1. Calls(resp.calls) \in Message /\ ~EndsOpen(msgs)
    BY <1>1, <1>10, MessageTypes DEF FeedAssistant
  <2>2. /\ Answered(msgs') /\ msgs' # <<>>
        /\ msgs'[Len(msgs')] = Calls(resp.calls)
    BY <1>1, <1>10, <2>1, CompactedAnswered DEF FeedAssistant
  <2> QED BY <1>10, <2>2 DEF FeedAssistant, Calls
<1>11. CASE FeedResults
  <2>1. Results(pending) \in Message /\ msgs[Len(msgs)].calls = pending
    BY <1>1, <1>11, MessageTypes DEF FeedResults, Calls
  <2>2. /\ Answered(msgs') /\ msgs' # <<>>
        /\ msgs'[Len(msgs')] = Results(pending)
    BY <1>1, <1>11, <2>1, AppendAnswered DEF FeedResults
  <2> QED BY <1>2, <1>11, <2>2 DEF FeedResults, Results
<1>12. CASE \/ BeginLoop \/ StartReasoning \/ HeadInterrupted
            \/ HooksPass \/ HooksFail \/ HooksTerminate
            \/ Reply \/ ReasoningError
  <2>1. /\ UNCHANGED <<msgs, pending, unrecorded>>
        /\ pc \in {"appended", "head", "hooks", "asking"}
        /\ pc' \in {"head", "hooks", "asking", "final", "calls", "idle", "unwind"}
    BY <1>12 DEF BeginLoop, StartReasoning, HeadInterrupted, HooksPass,
       HooksFail, HooksTerminate, Reply, ReasoningError, storeVars
  <2> QED BY <1>1, <1>2, <2>1
<1>13. CASE \/ AfterTurn \/ CallsInterrupted \/ StartBatch \/ Unwind
            \/ DrainOne \/ DrainDone \/ NextIteration \/ Steer \/ Interrupt
  BY <1>1, <1>2, <1>13 DEF AfterTurn, CallsInterrupted, StartBatch, Unwind, DrainOne,
     DrainDone, NextIteration, Steer, Interrupt, loopVars, storeVars
<1>14. CASE UNCHANGED vars
  BY <1>14 DEF vars, loopVars, storeVars
<1> QED
  BY <1>5, <1>6, <1>7, <1>8, <1>9, <1>10, <1>11, <1>12, <1>13, <1>14 DEF Next, LoopStep
-----------------------------------------------------------------------------
LEMMA InitInv == Init => IInv
<1> SUFFICES ASSUME Init PROVE IInv
  OBVIOUS
<1>1. TypeOK
  BY LoopAssumption, EmptySeq DEF Init, TypeOK, PCs, LoopStates, Contexts, Outcomes, NoResponse
<1>2. MachineInStep /\ SteeringInOrder
  BY EmptySeq DEF Init, MachineInStep, IdleReport, SteeringInOrder
<1>3. HistoryInv
  BY EmptySeq DEF Init, HistoryInv, ToolUseAnswered, Answered, NothingForgotten,
     HistoryEnds, EndsOpen, UsersTurn
<1> QED BY <1>1, <1>2, <1>3 DEF IInv

LEMMA InductiveInvariant == Spec => []IInv
<1>1. IInv /\ [Next]_vars => IInv'
  BY TypeStep, MachineStep, SteeringStep, HistoryStep DEF IInv
<1> QED BY InitInv, <1>1, PTL DEF Spec

(* Every variable keeps its type; in particular the history is a sequence  *)
(* of messages whatever compaction does to it, and the buffer its bound.   *)
THEOREM TypeCorrect == Spec => []TypeOK
BY InductiveInvariant, PTL DEF IInv

(* For every set of call ids, every retry budget and every keepRecent, no  *)
(* transition of the loop is refused by its state machine.                 *)
THEOREM MachineNeverRefuses == Spec => []MachineInStep
BY InductiveInvariant, PTL DEF IInv

(* Every tool_use is answered by the next message, wherever the turn was   *)
(* stopped and whatever was compacted.                                     *)
THEOREM ToolUseIsAnswered == Spec => []ToolUseAnswered
<1>1. IInv => ToolUseAnswered
  BY DEF IInv, HistoryInv
<1> QED BY InductiveInvariant, <1>1, PTL

(* The model is asked only when the history ends with a user's or a tool's *)
(* message.                                                                *)
THEOREM ModelAskedOnUsersTurn == Spec => []AskedOnUsersTurn
<1>1. IInv => AskedOnUsersTurn
  BY DEF IInv, HistoryInv, HistoryEnds, AskedOnUsersTurn, UsersTurn
<1> QED BY InductiveInvariant, <1>1, PTL

(* No tool call that ran is missing from the history the next model call   *)
(* sees, or the next turn starts from.                                     *)
THEOREM NoEffectForgotten == Spec => []NothingForgotten
<1>1. IInv => NothingForgotten
  BY DEF IInv, HistoryInv
<1> QED BY InductiveInvariant, <1>1, PTL

(* Steering messages are injected once each, in the order accepted, for    *)
(* every buffer size.                                                      *)
THEOREM SteeringIsFifo == Spec => []SteeringInOrder
BY InductiveInvariant, PTL DEF IInv

(* The loop never leaves its state machine, answers every tool call in     *)
(* order, and asks the model only on the user's turn.                      *)
THEOREM LoopSound == Spec => []LoopIsSound
BY TypeCorrect, MachineNeverRefuses, ToolUseIsAnswered, ModelAskedOnUsersTurn, PTL DEF LoopIsSound

(* Whatever ran is in the context, and steering arrives in order.          *)
THEOREM NothingLost == Spec => []NothingIsLost
BY NoEffectForgotten, SteeringIsFifo, PTL DEF NothingIsLost
-----------------------------------------------------------------------------
(* The controls beside the loop (BetweenTurns).  HistoryEnds is lost: a    *)
(* control that slips into a turn leaves a history that ends anywhere.     *)
(* What remains inductive is the pairing itself, because FeedResults       *)
(* answers exactly what the store holds as pending, and neither Clear nor  *)
(* Resume nor Compact parts that from the last message.                    *)

ControlInv == TypeOK /\ ToolUseAnswered

(* A step of the loop keeps the pairing wherever the history ends.         *)
LEMMA PairingStep == ControlInv /\ [Next]_vars => ToolUseAnswered'
<1> SUFFICES ASSUME TypeOK, ToolUseAnswered, [Next]_vars PROVE ToolUseAnswered'
  BY DEF ControlInv
<1>1. /\ msgs \in Seq(Message) /\ Answered(msgs)
      /\ EndsOpen(msgs) => pc = "pair" /\ pending = msgs[Len(msgs)].calls
      /\ \A k \in Kinds : Says(k) \in Message /\ Says(k).kind = k
      /\ Calls(resp.calls) \in Message /\ Results(pending) \in Message
      /\ {"query", "retry", "steer", "answer"} \subseteq Kinds
  BY MessageTypes DEF TypeOK, ToolUseAnswered, EndsOpen, Says, Responses, NoResponse, Kinds,
     UserKinds, AssistantKinds
<1>2. SUFFICES Answered(msgs') /\ (EndsOpen(msgs') => pc' = "pair" /\ pending' = msgs'[Len(msgs')].calls)
  BY DEF ToolUseAnswered, EndsOpen
<1>3. ASSUME NEW h \in Compacted(Append(msgs, Says("answer"))), pc # "pair"
      PROVE  h \in Seq(Message) /\ Answered(h) /\ h # <<>> /\ h[Len(h)] = Says("answer")
  BY <1>1, <1>3, CompactedAnswered
<1>4. CASE StartTurn \/ Inject
  <2>1. PICK k \in {"query", "steer"} : msgs' = Append(msgs, Says(k))
    BY <1>4 DEF StartTurn, Inject, AppendUser
  <2>2. pc # "pair"
    BY <1>4 DEF StartTurn, Inject, Goto
  <2>3. Answered(msgs') /\ msgs' # <<>> /\ msgs'[Len(msgs')] = Says(k)
    BY <1>1, <2>1, <2>2, AppendAnswered
  <2>4. QED
    BY <1>1, <2>3 DEF EndsOpen
<1>5. CASE RetryFinal
  <2>1. PICK h \in Compacted(Append(msgs, Says("answer"))) : msgs' = Append(h, Says("retry"))
    BY <1>5 DEF RetryFinal
  <2>2. h \in Seq(Message) /\ Answered(h) /\ ~EndsOpen(h)
    BY <1>1, <1>3, <1>5 DEF RetryFinal, Goto, EndsOpen
  <2>3. Answered(msgs') /\ msgs' # <<>> /\ msgs'[Len(msgs')] = Says("retry")
    BY <1>1, <2>1, <2>2, AppendAnswered
  <2>4. QED
    BY <1>1, <2>3 DEF EndsOpen
<1>6. CASE GiveUp \/ AcceptFinal
  <2>1. Answered(msgs') /\ msgs' # <<>> /\ msgs'[Len(msgs')] = Says("answer")
    BY <1>3, <1>6 DEF GiveUp, AcceptFinal, Goto, Break
  <2>2. QED
    BY <1>1, <2>1 DEF EndsOpen
<1>7. CASE FeedAssistant
  <2>1. ~EndsOpen(msgs) /\ pc' = "pair" /\ pending' = resp.calls
    BY <1>1, <1>7 DEF FeedAssistant, Goto
  <2>2. Answered(msgs') /\ msgs'[Len(msgs')] = Calls(resp.calls)
    BY <1>1, <1>7, <2>1, CompactedAnswered DEF FeedAssistant
  <2>3. QED
    BY <2>1, <2>2 DEF Calls
<1>8. CASE FeedResults
  <2>1. EndsOpen(msgs) => Results(pending) = Results(msgs[Len(msgs)].calls)
    BY <1>1
  <2>2. Answered(msgs') /\ msgs' # <<>> /\ msgs'[Len(msgs')] = Results(pending)
    BY <1>1, <1>8, <2>1, AppendAnswered DEF FeedResults
  <2>3. QED
    BY <2>2 DEF EndsOpen, Results
<1>9. CASE UNCHANGED storeVars /\ (pc = "pair" => pc' = "pair")
  BY <1>1, <1>9 DEF storeVars
<1>10. ASSUME Next, ~(StartTurn \/ Inject), ~RetryFinal, ~(GiveUp \/ AcceptFinal), ~FeedAssistant,
              ~FeedResults
       PROVE  UNCHANGED storeVars /\ (pc = "pair" => pc' = "pair")
  BY <1>10 DEF Next, LoopStep, BeginLoop, StartReasoning, HeadInterrupted, HooksPass, HooksFail,
     HooksTerminate, Reply, ReasoningError, AfterTurn, CallsInterrupted, StartBatch, FinishBatch,
     DrainOne, DrainDone, NextIteration, Unwind, Steer, Interrupt, Goto, Break, loopVars
<1>11. UNCHANGED vars => UNCHANGED storeVars /\ pc' = pc
  BY DEF vars, loopVars
<1>12. QED
  BY <1>4, <1>5, <1>6, <1>7, <1>8, <1>9, <1>10, <1>11

(* A control keeps it, too, whether or not the loop is really idle.        *)
LEMMA ControlStep == ControlInv /\ [ControlNext]_controlledVars => ControlInv'
<1> SUFFICES ASSUME TypeOK, ToolUseAnswered, [ControlNext]_controlledVars PROVE ControlInv'
  BY DEF ControlInv
<1>1. CASE [Next]_vars
  BY <1>1, TypeStep, PairingStep DEF ControlInv
<1>2. CASE Clear
  <2>1. msgs' = <<>> /\ pending' = {} /\ UNCHANGED <<loopVars, unrecorded, steerVars>>
    BY <1>2 DEF Clear
  <2>2. Len(<<>>) = 0 /\ <<>> \in Seq(Message)
    BY EmptySeq
  <2>3. QED
    BY <2>1, <2>2 DEF ControlInv, TypeOK, ToolUseAnswered, Answered, loopVars, steerVars
<1>3. CASE Resume
  <2>1. msgs' \in Saved /\ pending' = {} /\ UNCHANGED <<loopVars, unrecorded, steerVars>>
    BY <1>3 DEF Resume
  <2>2. \A k \in {"query", "answer", "summary", "ack", "steer"} :
          Says(k) \in Message /\ Says(k).kind # "calls"
    BY MessageTypes DEF Says, Kinds, UserKinds, AssistantKinds
  <2>3. msgs' \in Seq(Message) /\ \A i \in 1 .. Len(msgs') : msgs'[i].kind # "calls"
    <3>1. CASE msgs' = <<Says("query")>>
      BY <2>2, <3>1
    <3>2. CASE msgs' = <<Says("query"), Says("answer")>>
      BY <2>2, <3>2
    <3>3. CASE msgs' = <<Says("summary"), Says("ack"), Says("steer")>>
      BY <2>2, <3>3
    <3>4. QED
      BY <2>1, <3>1, <3>2, <3>3 DEF Saved
  <2>4. Answered(msgs') /\ ~EndsOpen(msgs')
    BY <2>3, LenProperties, EmptySeq DEF Answered, EndsOpen
  <2>5. QED
    BY <2>1, <2>3, <2>4 DEF ControlInv, TypeOK, ToolUseAnswered, EndsOpen, loopVars, steerVars
<1>4. CASE Compact
  <2>1. msgs' \in {msgs, Compress(msgs)} /\ UNCHANGED <<loopVars, pending, unrecorded, steerVars>>
    BY <1>4 DEF Compact
  <2>2. CASE msgs' = msgs
    BY <2>1, <2>2 DEF ControlInv, TypeOK, ToolUseAnswered, loopVars, steerVars
  <2>3. CASE msgs' = Compress(msgs) /\ msgs # <<>>
    <3>1. /\ msgs' \in Seq(Message) /\ Answered(msgs') /\ msgs' # <<>>
          /\ msgs'[Len(msgs')] = msgs[Len(msgs)]
      BY <2>3, CompressAnswered DEF TypeOK, ToolUseAnswered
    <3>2. QED
      BY <2>1, <2>3, <3>1 DEF ControlInv, TypeOK, ToolUseAnswered, loopVars, steerVars
  <2>4. CASE msgs' = Compress(msgs) /\ msgs = <<>>
    <3>1. msgs' = msgs
      BY <2>4, LoopAssumption DEF Compress
    <3>2. QED
      BY <2>2, <3>1
  <2>5. QED
    BY <2>1, <2>2, <2>3, <2>4
<1>5. CASE UNCHANGED vars
  BY <1>1, <1>5
<1>6. QED
  BY <1>1, <1>2, <1>3, <1>4, <1>5 DEF ControlNext, FindIdle, ResumeFails, controlledVars

(* Whatever a control does between or, by the race of controls_race, in    *)
(* the middle of turns, every tool call in the history is answered by the  *)
(* next message, for any calls and any keepRecent.                         *)
THEOREM ControlsKeepPairs == ControlSpec => []ToolUseAnswered
<1>1. ControlInit => ControlInv
  BY InitInv DEF ControlInit, ControlInv, IInv, HistoryInv
<1>2. ControlInv => ToolUseAnswered
  BY DEF ControlInv
<1>3. QED
  BY <1>1, <1>2, ControlStep, PTL DEF ControlSpec

-----------------------------------------------------------------------------
(* The call to the model.  The invariant says, leg by leg, what has been   *)
(* sent and told; what a server sends comes one block after another; and   *)
(* the response to a whole reply is whole.                                 *)

Fragments == [k : {"begin", "text-block", "call-block", "text", "call", "close", "think", "done"}, i : 0 .. 2]
Events    == {"start", "delta", "thinking"} \cup Terminals
Pieces    == [round : Nat, try : Nat, place : Nat]

(* What was sent, as a server sends it.                                    *)
In(s, k, i) == \E j \in DOMAIN s : s[j] = Fragment(k, i)
Open(s, i)  == In(s, "text-block", i) \/ In(s, "call-block", i)
Ascend(s, k) == \A a, b \in DOMAIN s : s[a].k = k /\ s[b].k = k /\ a < b => s[a].i < s[b].i

BlocksOK(s) ==
  /\ \A j \in DOMAIN s : s[j].k \in {"text", "call", "close"} => s[j].i \in 1 .. 2
  /\ \A j \in DOMAIN s : /\ s[j].k = "text" => In(s, "text-block", s[j].i)
                         /\ s[j].k = "call" => In(s, "call-block", s[j].i)
                         /\ s[j].k = "close" => Open(s, s[j].i)
  /\ Open(s, 2) => Open(s, 1) /\ In(s, "close", 1)
  /\ Ascend(s, "close")

CallsOK(s) ==
  /\ \A j \in DOMAIN s : s[j].k = "call" => s[j].i \in 1 .. 2
  /\ In(s, "call", 2) => In(s, "call", 1)
  /\ Ascend(s, "call")

SentOK(p, s) ==
  /\ p = "anthropic" => BlocksOK(s)
  /\ p = "ollama" => CallsOK(s)
  /\ p # "ollama" => ~In(s, "done", 0)

Whole(r, s) ==
  /\ r.text = TextOf(s)
  /\ \A i \in 1 .. 2 : PartsOf(s, i) # {} => \E c \in r.calls : c.i = i /\ c.parts = PartsOf(s, i)
  /\ \A c, d \in r.calls : /\ c.at < d.at => c.i < d.i
                           /\ c.i = d.i => c = d

(* What appending a fragment to what was sent leaves as it was.            *)
LEMMA Longer ==
  ASSUME NEW s \in Seq(Fragments), NEW f \in Fragments
  PROVE  /\ Append(s, f) \in Seq(Fragments) /\ Len(Append(s, f)) = Len(s) + 1 /\ Len(s) \in Nat
         /\ Append(s, f) # <<>>
         /\ DOMAIN s = 1 .. Len(s) /\ DOMAIN Append(s, f) = 1 .. Len(s) + 1
         /\ Append(s, f)[Len(s) + 1] = f
         /\ \A j \in 1 .. Len(s) : Append(s, f)[j] = s[j] /\ s[j] \in Fragments
OBVIOUS

(* A fragment has been sent if it had been, or if it is the new one.       *)
LEMMA InLonger ==
  ASSUME NEW s \in Seq(Fragments), NEW f \in Fragments, NEW k, NEW i
  PROVE  In(Append(s, f), k, i) <=> In(s, k, i) \/ f = Fragment(k, i)
<1> DEFINE t == Append(s, f)
           n == Len(s)
<1>1. /\ n \in Nat /\ DOMAIN s = 1 .. n /\ DOMAIN t = 1 .. n + 1 /\ t[n + 1] = f
      /\ \A j \in 1 .. n : t[j] = s[j]
  BY Longer
<1> HIDE DEF t, n
<1>2. In(t, k, i) <=> In(s, k, i) \/ f = Fragment(k, i)
  BY <1>1 DEF In
<1>3. QED
  BY <1>2 DEF t

(* A fragment that ranks above those of its kind keeps them ascending.     *)
LEMMA AscendLonger ==
  ASSUME NEW s \in Seq(Fragments), NEW f \in Fragments, NEW k, Ascend(s, k),
         f.k = k => \A a \in DOMAIN s : s[a].k = k => s[a].i < f.i
  PROVE  Ascend(Append(s, f), k)
<1> DEFINE t == Append(s, f)
           n == Len(s)
<1>1. /\ n \in Nat /\ DOMAIN s = 1 .. n /\ DOMAIN t = 1 .. n + 1 /\ t[n + 1] = f
      /\ \A j \in 1 .. n : t[j] = s[j]
  BY Longer
<1> HIDE DEF t, n
<1>2. ASSUME NEW a \in 1 .. n + 1, NEW b \in 1 .. n + 1, t[a].k = k, t[b].k = k, a < b
      PROVE  t[a].i < t[b].i
  <2>1. a \in 1 .. n /\ t[a] = s[a]
    BY <1>1, <1>2
  <2>2. CASE b = n + 1
    BY <2>1, <2>2, <1>1, <1>2
  <2>3. CASE b # n + 1
    <3>1. b \in 1 .. n /\ t[b] = s[b]
      BY <2>3, <1>1, <1>2
    <3>2. QED
      BY <2>1, <3>1, <1>1, <1>2 DEF Ascend
  <2>4. QED
    BY <2>2, <2>3
<1>3. QED
  BY <1>1, <1>2 DEF Ascend, t

(* How many of two blocks or two calls there are, by number.               *)
LEMMA FewElements ==
  ASSUME NEW S \in SUBSET (1 .. 2), 2 \in S => 1 \in S
  PROVE  /\ Cardinality(S) + 1 = 1 => S = {}
         /\ Cardinality(S) + 1 = 2 => S = {1}
<1>1. S = {} \/ S = {1} \/ S = {1, 2}
  <2>1. \A x \in S : x = 1 \/ x = 2
    OBVIOUS
  <2>2. CASE 2 \in S
    BY <2>1, <2>2
  <2>3. CASE 2 \notin S /\ 1 \in S
    BY <2>1, <2>3
  <2>4. CASE 1 \notin S
    BY <2>1, <2>4
  <2>5. QED
    BY <2>2, <2>3, <2>4
<1>2. Cardinality({}) = 0
  BY FS_EmptySet
<1>3. Cardinality({1}) = 1
  BY FS_Singleton
<1>4. Cardinality({1, 2}) = 2
  <2>1. IsFiniteSet({1})
    BY FS_Singleton
  <2>2. 2 \notin {1} /\ {1, 2} = {1} \cup {2}
    OBVIOUS
  <2>3. QED
    BY <2>1, <2>2, <1>3, FS_AddElement
<1>5. QED
  <2>1. CASE S = {}
    BY <2>1, <1>2
  <2>2. CASE S = {1}
    BY <2>2, <1>3
  <2>3. CASE S = {1, 2}
    BY <2>3, <1>4
  <2>4. QED
    BY <1>1, <2>1, <2>2, <2>3

(* anthropic: what may be sent next keeps the blocks one after another.    *)
LEMMA BlocksLonger ==
  ASSUME sent \in Seq(Fragments), BlocksOK(sent), NEW f \in AnthropicSends
  PROVE  BlocksOK(Append(sent, f)) /\ f \in Fragments /\ f.k # "done"
<1>0. \A k, i : Has(k, i) <=> In(sent, k, i)
  BY DEF Has, In
<1>o. /\ Opened \in SUBSET (1 .. 2) /\ \A i \in 1 .. 2 : i \in Opened <=> Open(sent, i)
      /\ \A i \in Opened : i \in InProgress <=> ~In(sent, "close", i)
      /\ InProgress \subseteq Opened
  BY <1>0 DEF Opened, Open, InProgress
<1>c. /\ Cardinality(Opened) + 1 = 1 => Opened = {}
      /\ Cardinality(Opened) + 1 = 2 => Opened = {1}
  <2>1. 2 \in Opened => 1 \in Opened
    BY <1>o DEF BlocksOK
  <2>2. QED
    BY <2>1, <1>o, FewElements
<1>f. \/ f = Fragment("begin", 0)
      \/ \E i \in InProgress : f = Fragment("close", i)
      \/ \E i \in InProgress : f = Fragment("text", i) /\ In(sent, "text-block", i)
      \/ \E i \in InProgress : f = Fragment("call", i) /\ In(sent, "call-block", i)
      \/ /\ InProgress = {}
         /\ \E i \in 1 .. 2, k \in {"text-block", "call-block"} :
              i = Cardinality(Opened) + 1 /\ f = Fragment(k, i)
  BY <1>0 DEF AnthropicSends
<1>1. f \in Fragments /\ f.k # "done"
  BY <1>f, <1>o DEF Fragment, Fragments
<1> DEFINE s == sent
           t == Append(sent, f)
           n == Len(sent)
<1>t. /\ n \in Nat /\ DOMAIN s = 1 .. n /\ DOMAIN t = 1 .. n + 1 /\ t[n + 1] = f
      /\ \A j \in 1 .. n : t[j] = s[j] /\ s[j] \in Fragments
  BY <1>1, Longer
<1>i. \A k, i : In(t, k, i) <=> In(s, k, i) \/ f = Fragment(k, i)
  BY <1>1, InLonger
<1> HIDE DEF s, t, n
<1>s. BlocksOK(s)
  BY DEF s
<1>2. Ascend(t, "close")
  <2>1. ASSUME NEW i \in InProgress, f = Fragment("close", i), NEW a \in DOMAIN s, s[a].k = "close"
        PROVE  s[a].i < f.i
    <3>1. f.i = i /\ i \in 1 .. 2 /\ s[a].i \in 1 .. 2
      BY <2>1, <1>o, <1>s DEF Fragment, BlocksOK
    <3>2. s[a] = Fragment("close", s[a].i)
      BY <2>1, <1>t DEF Fragment, Fragments
    <3>3. ~In(s, "close", i) /\ In(s, "close", s[a].i)
      BY <2>1, <3>2, <1>o DEF In, s
    <3>4. s[a].i = 2 => In(s, "close", 1)
      BY <2>1, <1>s DEF BlocksOK
    <3>5. QED
      BY <3>1, <3>3, <3>4
  <2>2. f.k = "close" => \E i \in InProgress : f = Fragment("close", i)
    BY <1>f DEF Fragment
  <2>3. Ascend(sent, "close")
    BY DEF BlocksOK
  <2>4. f.k = "close" => \A a \in DOMAIN sent : sent[a].k = "close" => sent[a].i < f.i
    BY <2>1, <2>2 DEF s
  <2>5. QED
    BY <2>3, <2>4, <1>1, AscendLonger DEF t
<1>3. \A j \in DOMAIN t : t[j].k \in {"text", "call", "close"} => t[j].i \in 1 .. 2
  <2>1. f.k \in {"text", "call", "close"} => f.i \in 1 .. 2
    BY <1>f, <1>o DEF Fragment
  <2>2. QED
    BY <2>1, <1>t, <1>s DEF BlocksOK
<1>4. ASSUME NEW j \in DOMAIN t
      PROVE  /\ t[j].k = "text" => In(t, "text-block", t[j].i)
             /\ t[j].k = "call" => In(t, "call-block", t[j].i)
             /\ t[j].k = "close" => Open(t, t[j].i)
  <2>1. CASE j = n + 1
    <3>1. /\ f.k = "text" => In(s, "text-block", f.i)
          /\ f.k = "call" => In(s, "call-block", f.i)
          /\ f.k = "close" => Open(s, f.i)
      BY <1>f, <1>o DEF Fragment, s
    <3>2. QED
      BY <2>1, <3>1, <1>i, <1>t DEF Open
  <2>2. CASE j # n + 1
    <3>1. j \in DOMAIN s /\ t[j] = s[j]
      BY <2>2, <1>t
    <3>2. QED
      BY <3>1, <1>i, <1>s DEF Open, BlocksOK
  <2>3. QED
    BY <2>1, <2>2
<1>5. Open(t, 2) => Open(t, 1) /\ In(t, "close", 1)
  <2>1. CASE Open(s, 2)
    BY <2>1, <1>s, <1>i DEF BlocksOK, Open
  <2>2. CASE f = Fragment("text-block", 2) \/ f = Fragment("call-block", 2)
    <3>1. InProgress = {} /\ Cardinality(Opened) + 1 = 2
      BY <2>2, <1>f DEF Fragment
    <3>2. Open(s, 1) /\ In(s, "close", 1)
      BY <3>1, <1>c, <1>o DEF s
    <3>3. QED
      BY <3>2, <1>i DEF Open
  <2>3. QED
    BY <2>1, <2>2, <1>i DEF Open
<1>6. BlocksOK(t)
  BY <1>2, <1>3, <1>4, <1>5 DEF BlocksOK
<1>7. QED
  BY <1>1, <1>6 DEF t

(* ollama: a call is sent whole, the first before the second.              *)
LEMMA CallsLonger ==
  ASSUME sent \in Seq(Fragments), CallsOK(sent), NEW f \in OllamaSends
  PROVE  CallsOK(Append(sent, f)) /\ f \in Fragments
<1> DEFINE D == {j \in 1 .. 2 : In(sent, "call", j)}
<1>0. \A k, i : Has(k, i) <=> In(sent, k, i)
  BY DEF Has, In
<1>f. \/ f \in {Fragment("text", 0), Fragment("think", 0), Fragment("done", 0)}
      \/ \E i \in 1 .. 2 : i = Cardinality(D) + 1 /\ f = Fragment("call", i)
  BY <1>0 DEF OllamaSends
<1>c. /\ Cardinality(D) + 1 = 1 => D = {}
      /\ Cardinality(D) + 1 = 2 => D = {1}
  <2>1. D \in SUBSET (1 .. 2) /\ (2 \in D => 1 \in D)
    BY DEF CallsOK
  <2> HIDE DEF D
  <2>2. QED
    BY <2>1, FewElements
<1>1. f \in Fragments
  BY <1>f DEF Fragment, Fragments
<1> DEFINE s == sent
           t == Append(sent, f)
           n == Len(sent)
<1>t. /\ n \in Nat /\ DOMAIN s = 1 .. n /\ DOMAIN t = 1 .. n + 1 /\ t[n + 1] = f
      /\ \A j \in 1 .. n : t[j] = s[j] /\ s[j] \in Fragments
  BY <1>1, Longer
<1>i. \A k, i : In(t, k, i) <=> In(s, k, i) \/ f = Fragment(k, i)
  BY <1>1, InLonger
<1>d. \A j \in 1 .. 2 : j \in D <=> In(s, "call", j)
  OBVIOUS
<1> HIDE DEF s, t, n, D
<1>s. CallsOK(s)
  BY DEF s
<1>2. Ascend(t, "call")
  <2>1. ASSUME f.k = "call", NEW a \in DOMAIN s, s[a].k = "call"
        PROVE  s[a].i < f.i
    <3>1. f.i \in 1 .. 2 /\ f.i = Cardinality(D) + 1
      BY <2>1, <1>f DEF Fragment
    <3>2. s[a] = Fragment("call", s[a].i) /\ s[a].i \in 1 .. 2
      BY <2>1, <1>t, <1>s DEF Fragment, Fragments, CallsOK
    <3>3. s[a].i \in D
      BY <3>2, <1>d DEF In
    <3>4. QED
      BY <3>1, <3>2, <3>3, <1>c
  <2>2. Ascend(sent, "call")
    BY DEF CallsOK
  <2>3. f.k = "call" => \A a \in DOMAIN sent : sent[a].k = "call" => sent[a].i < f.i
    BY <2>1 DEF s
  <2>4. QED
    BY <2>2, <2>3, <1>1, AscendLonger DEF t
<1>3. \A j \in DOMAIN t : t[j].k = "call" => t[j].i \in 1 .. 2
  <2>1. f.k = "call" => f.i \in 1 .. 2
    BY <1>f DEF Fragment
  <2>2. QED
    BY <2>1, <1>t, <1>s DEF CallsOK
<1>4. In(t, "call", 2) => In(t, "call", 1)
  <2>1. CASE In(s, "call", 2)
    BY <2>1, <1>s, <1>i DEF CallsOK
  <2>2. CASE f = Fragment("call", 2)
    <3>1. Cardinality(D) + 1 = 2
      BY <2>2, <1>f DEF Fragment
    <3>2. In(s, "call", 1)
      BY <3>1, <1>c, <1>d
    <3>3. QED
      BY <3>2, <1>i
  <2>3. QED
    BY <2>1, <2>2, <1>i
<1>5. CallsOK(t)
  BY <1>2, <1>3, <1>4 DEF CallsOK
<1>6. QED
  BY <1>1, <1>5 DEF t

(* What a server may send next keeps what it sent well formed.             *)
LEMMA SentLonger ==
  ASSUME proto \in Protocols, sent \in Seq(Fragments), SentOK(proto, sent), NEW f \in MaySend
  PROVE  SentOK(proto, Append(sent, f)) /\ f \in Fragments
<1>1. CASE proto = "anthropic"
  <2>1. BlocksOK(Append(sent, f)) /\ f \in Fragments /\ f.k # "done"
    BY <1>1, BlocksLonger DEF MaySend, SentOK
  <2>2. ~In(Append(sent, f), "done", 0)
    BY <1>1, <2>1, InLonger DEF SentOK, Fragment
  <2>3. QED
    BY <1>1, <2>1, <2>2 DEF SentOK
<1>2. CASE proto = "ollama"
  BY <1>2, CallsLonger DEF MaySend, SentOK
<1>3. CASE proto = "openai"
  <2>1. f \in {Fragment("text", 0), Fragment("call", 1), Fragment("call", 2)}
    BY <1>3 DEF MaySend, OpenAISends
  <2>2. f \in Fragments /\ f # Fragment("done", 0)
    BY <2>1 DEF Fragment, Fragments
  <2>3. ~In(Append(sent, f), "done", 0)
    BY <1>3, <2>2, InLonger DEF SentOK
  <2>4. QED
    BY <1>3, <2>2, <2>3 DEF SentOK
<1>4. QED
  BY <1>1, <1>2, <1>3 DEF Protocols
-----------------------------------------------------------------------------
(* What was complete when the stop event was made.                         *)
DoneOK(p, s) == p = "anthropic" => \A i \in 1 .. 2 : Open(s, i) => In(s, "close", i)

(* The response accumulated over a complete reply is the whole of it.      *)
LEMMA TerminalIsWhole ==
  ASSUME NEW p \in Protocols, NEW s \in Seq(Fragments), SentOK(p, s), DoneOK(p, s)
  PROVE  Whole(Terminal(p, s), s)
<1> DEFINE n == Len(s)
<1>s. n \in Nat /\ DOMAIN s = 1 .. n /\ \A j \in 1 .. n : s[j] \in Fragments
  OBVIOUS
<1>k. \A j \in 1 .. n : s[j] = Fragment(s[j].k, s[j].i)
  BY <1>s DEF Fragments, Fragment
<1>f. \A k, i : Fragment(k, i).k = k /\ Fragment(k, i).i = i
  BY DEF Fragment
<1> HIDE DEF n
<1>1. CASE p = "anthropic"
  <2>b. BlocksOK(s) /\ \A i \in 1 .. 2 : Open(s, i) => In(s, "close", i)
    BY <1>1 DEF SentOK, DoneOK
  <2> DEFINE X == {x \in PlacesOf(s, "close") : \E j \in DOMAIN s : s[j] = Fragment("call-block", s[x].i)}
             calls == {Call(s, s[c].i, c) : c \in X}
  <2>t. /\ Terminal(p, s).calls = calls
        /\ Terminal(p, s).text =
             {j \in TextOf(s) : {c \in DOMAIN s : s[c] = Fragment("close", s[j].i)} # {}}
    BY <1>1 DEF Terminal, AnthropicTerminal
  <2>x. \A x \in X : x \in 1 .. n /\ s[x].k = "close" /\ s[x].i \in 1 .. 2
    BY <1>s, <2>b DEF PlacesOf, BlocksOK
  <2>1. Terminal(p, s).text = TextOf(s)
    <3>1. ASSUME NEW j \in TextOf(s) PROVE \E c \in DOMAIN s : s[c] = Fragment("close", s[j].i)
      <4>1. j \in DOMAIN s /\ s[j].k = "text" /\ s[j].i \in 1 .. 2 /\ Open(s, s[j].i)
        BY <2>b DEF TextOf, BlocksOK, Open
      <4>2. QED
        BY <4>1, <2>b DEF In
    <3>2. QED
      BY <2>t, <3>1
  <2>2. ASSUME NEW i \in 1 .. 2, PartsOf(s, i) # {}
        PROVE  \E c \in calls : c.i = i /\ c.parts = PartsOf(s, i)
    <3>1. PICK j \in DOMAIN s : s[j] = Fragment("call", i)
      BY <2>2 DEF PartsOf
    <3>2. In(s, "call-block", i) /\ In(s, "close", i)
      BY <3>1, <1>f, <2>b DEF BlocksOK, Open
    <3>3. PICK x \in DOMAIN s : s[x] = Fragment("close", i)
      BY <3>2 DEF In
    <3>4. x \in X
      BY <3>2, <3>3, <1>f DEF PlacesOf, In
    <3>5. Call(s, s[x].i, x).i = i /\ Call(s, s[x].i, x).parts = PartsOf(s, i)
      BY <3>3, <1>f DEF Call
    <3>6. Call(s, s[x].i, x) \in calls
      BY <3>4
    <3>7. QED
      BY <3>5, <3>6
  <2>3. ASSUME NEW c \in calls, NEW d \in calls
        PROVE  (c.at < d.at => c.i < d.i) /\ (c.i = d.i => c = d)
    <3>1. PICK x \in X : c = Call(s, s[x].i, x)
      OBVIOUS
    <3>2. PICK y \in X : d = Call(s, s[y].i, y)
      OBVIOUS
    <3>3. c.at = x /\ d.at = y /\ c.i = s[x].i /\ d.i = s[y].i
      BY <3>1, <3>2 DEF Call
    <3> HIDE DEF X
    <3>4. x \in 1 .. n /\ y \in 1 .. n /\ s[x].k = "close" /\ s[y].k = "close"
          /\ s[x].i \in 1 .. 2 /\ s[y].i \in 1 .. 2
      BY <2>x
    <3>5. (x < y => s[x].i < s[y].i) /\ (y < x => s[y].i < s[x].i)
      BY <3>4, <2>b, <1>s DEF BlocksOK, Ascend
    <3>6. s[x].i = s[y].i => x = y
      BY <3>4, <3>5, <1>s
    <3>7. QED
      BY <3>1, <3>2, <3>3, <3>5, <3>6
  <2> HIDE DEF calls
  <2>4. QED
    BY <2>t, <2>1, <2>2, <2>3 DEF Whole
<1>2. CASE p = "ollama"
  <2>b. CallsOK(s)
    BY <1>2 DEF SentOK
  <2> DEFINE X == PlacesOf(s, "call")
             calls == {Call(s, s[c].i, c) : c \in X}
  <2>t. Terminal(p, s).calls = calls /\ Terminal(p, s).text = TextOf(s)
    BY <1>2 DEF Terminal, OllamaTerminal
  <2>x. \A x \in X : x \in 1 .. n /\ s[x].k = "call" /\ s[x].i \in 1 .. 2
    BY <1>s, <2>b DEF PlacesOf, CallsOK
  <2>2. ASSUME NEW i \in 1 .. 2, PartsOf(s, i) # {}
        PROVE  \E c \in calls : c.i = i /\ c.parts = PartsOf(s, i)
    <3>1. PICK x \in DOMAIN s : s[x] = Fragment("call", i)
      BY <2>2 DEF PartsOf
    <3>2. x \in X
      BY <3>1, <1>f DEF PlacesOf
    <3>3. Call(s, s[x].i, x).i = i /\ Call(s, s[x].i, x).parts = PartsOf(s, i)
      BY <3>1, <1>f DEF Call
    <3>4. Call(s, s[x].i, x) \in calls
      BY <3>2
    <3>5. QED
      BY <3>3, <3>4
  <2>3. ASSUME NEW c \in calls, NEW d \in calls
        PROVE  (c.at < d.at => c.i < d.i) /\ (c.i = d.i => c = d)
    <3>1. PICK x \in X : c = Call(s, s[x].i, x)
      OBVIOUS
    <3>2. PICK y \in X : d = Call(s, s[y].i, y)
      OBVIOUS
    <3>3. c.at = x /\ d.at = y /\ c.i = s[x].i /\ d.i = s[y].i
      BY <3>1, <3>2 DEF Call
    <3> HIDE DEF X
    <3>4. x \in 1 .. n /\ y \in 1 .. n /\ s[x].k = "call" /\ s[y].k = "call"
          /\ s[x].i \in 1 .. 2 /\ s[y].i \in 1 .. 2
      BY <2>x
    <3>5. (x < y => s[x].i < s[y].i) /\ (y < x => s[y].i < s[x].i)
      BY <3>4, <2>b, <1>s DEF CallsOK, Ascend
    <3>6. s[x].i = s[y].i => x = y
      BY <3>4, <3>5, <1>s
    <3>7. QED
      BY <3>1, <3>2, <3>3, <3>5, <3>6
  <2> HIDE DEF calls
  <2>4. QED
    BY <2>t, <2>2, <2>3 DEF Whole
<1>3. CASE p = "openai"
  <2> DEFINE X == {x \in 1 .. 2 : PartsOf(s, x) # {}}
             calls == {Call(s, i, i) : i \in X}
  <2>t. Terminal(p, s).calls = calls /\ Terminal(p, s).text = TextOf(s)
    BY <1>3 DEF Terminal, OpenAITerminal
  <2>2. ASSUME NEW i \in 1 .. 2, PartsOf(s, i) # {}
        PROVE  \E c \in calls : c.i = i /\ c.parts = PartsOf(s, i)
    <3>1. Call(s, i, i) \in calls
      BY <2>2
    <3>2. QED
      BY <3>1 DEF Call
  <2>3. ASSUME NEW c \in calls, NEW d \in calls
        PROVE  (c.at < d.at => c.i < d.i) /\ (c.i = d.i => c = d)
    BY DEF Call
  <2> HIDE DEF calls
  <2>4. QED
    BY <2>t, <2>2, <2>3 DEF Whole
<1>4. QED
  BY <1>1, <1>2, <1>3 DEF Protocols
-----------------------------------------------------------------------------
(* The events of a round that has not been ended.                          *)
WireOpen(w) == \A j \in DOMAIN w : w[j] \notin Terminals /\ (w[j] = "start" <=> j = 1)

WireOrder(w, l) ==
  \A j \in DOMAIN w : /\ w[j] = "start" <=> j = 1 /\ w[j] # "error" /\ l # {}
                      /\ w[j] \in Terminals => j = Len(w)

(* An event behind others that ended nothing keeps their order.            *)
LEMMA WireGrows ==
  ASSUME NEW w \in Seq(Events), WireOpen(w), NEW e \in Events, NEW l, l # {}
  PROVE  /\ WireOrder(w, l)
         /\ Append(w, e) \in Seq(Events) /\ Append(w, e) # <<>>
         /\ e \in {"delta", "thinking"} /\ w # <<>> => WireOpen(Append(w, e))
         /\ e \in Terminals /\ (w # <<>> \/ e = "error") => WireOrder(Append(w, e), l)
         /\ "stop" \notin ToSet(w) /\ (e # "stop" => "stop" \notin ToSet(Append(w, e)))
<1> DEFINE t == Append(w, e)
           n == Len(w)
<1>1. /\ n \in Nat /\ DOMAIN w = 1 .. n /\ DOMAIN t = 1 .. n + 1 /\ t[n + 1] = e
      /\ \A j \in 1 .. n : t[j] = w[j]
      /\ t \in Seq(Events) /\ Len(t) = n + 1 /\ t # <<>> /\ (w # <<>> => n # 0)
  OBVIOUS
<1> HIDE DEF t, n
<1>2. WireOrder(w, l)
  BY <1>1 DEF WireOrder, WireOpen, Terminals
<1>3. e \in {"delta", "thinking"} /\ w # <<>> => WireOpen(t)
  BY <1>1 DEF WireOpen, Terminals
<1>4. e \in Terminals /\ (w # <<>> \/ e = "error") => WireOrder(t, l)
  BY <1>1 DEF WireOpen, WireOrder, Terminals
<1>5. "stop" \notin ToSet(w) /\ (e # "stop" => "stop" \notin ToSet(t))
  BY <1>1 DEF WireOpen, ToSet, Terminals
<1>6. QED
  BY <1>1, <1>2, <1>3, <1>4, <1>5 DEF t

(* The start alone, and nothing at all, can go on.                         *)
LEMMA WireBegins == WireOpen(<<"start">>) /\ WireOpen(<<>>) /\ <<"start">> \in Seq(Events) /\ <<"start">> # <<>>
BY DEF WireOpen, Terminals, Events

(* What one fragment puts on the wire.                                     *)
LEMMA WireOfFragment ==
  ASSUME wire \in Seq(Events), sent \in Seq(Fragments), wire = <<>> <=> sent = <<>>,
         NEW f \in Fragments
  PROVE  \E w \in Seq(Events) :
           /\ w = IF sent = <<>> THEN <<"start">> ELSE wire
           /\ w # <<>>
           /\ \/ wire \o EventsFor(f) = w /\ f.k # "done"
              \/ \E e \in {"delta", "thinking"} : wire \o EventsFor(f) = Append(w, e) /\ f.k # "done"
              \/ f.k = "done" /\ wire \o EventsFor(f) = Append(w, "stop")
<1> DEFINE w == IF sent = <<>> THEN <<"start">> ELSE wire
           x == CASE f.k = "text"  -> <<"delta">>
                  [] f.k = "think" -> <<"thinking">>
                  [] f.k = "done"  -> <<"stop">>
                  [] OTHER         -> <<>>
<1>1. w \in Seq(Events) /\ w # <<>>
  BY WireBegins
<1>2. \/ x = <<>> /\ f.k # "done"
      \/ x = <<"delta">> /\ f.k # "done"
      \/ x = <<"thinking">> /\ f.k # "done"
      \/ x = <<"stop">> /\ f.k = "done"
  OBVIOUS
<1>3. x \in Seq(Events)
  <2>1. /\ <<"delta">> \in Seq(Events) /\ <<"thinking">> \in Seq(Events)
        /\ <<"stop">> \in Seq(Events) /\ <<>> \in Seq(Events)
    BY DEF Events, Terminals
  <2> HIDE DEF x
  <2>2. QED
    BY <2>1, <1>2
<1>4. EventsFor(f) = (IF sent = <<>> THEN <<"start">> ELSE <<>>) \o x
  BY DEF EventsFor
<1> HIDE DEF x
<1>5. wire \o EventsFor(f) = w \o x
  <2>1. CASE sent = <<>>
    <3>1. EventsFor(f) = <<"start">> \o x /\ wire = <<>>
      BY <1>4, <2>1
    <3>2. <<"start">> \o x \in Seq(Events)
      BY <1>3, WireBegins
    <3>3. <<>> \o (<<"start">> \o x) = <<"start">> \o x
      BY <3>2
    <3>4. QED
      BY <3>1, <3>3, <2>1
  <2>2. CASE sent # <<>>
    <3>1. EventsFor(f) = <<>> \o x
      BY <1>4, <2>2
    <3>2. <<>> \o x = x
      BY <1>3
    <3>3. QED
      BY <3>1, <3>2, <2>2
  <2>3. QED
    BY <2>1, <2>2
<1> HIDE DEF w
<1>6. /\ w \o <<>> = w /\ w \o <<"delta">> = Append(w, "delta")
      /\ w \o <<"thinking">> = Append(w, "thinking") /\ w \o <<"stop">> = Append(w, "stop")
  BY <1>1
<1>7. \/ wire \o EventsFor(f) = w /\ f.k # "done"
      \/ \E e \in {"delta", "thinking"} : wire \o EventsFor(f) = Append(w, e) /\ f.k # "done"
      \/ f.k = "done" /\ wire \o EventsFor(f) = Append(w, "stop")
  BY <1>2, <1>5, <1>6
<1>8. QED
  BY <1>1, <1>7 DEF w
-----------------------------------------------------------------------------
CallTypes ==
  /\ proto \in Protocols /\ listens \in SUBSET {"text", "thinking"}
  /\ leg \in {"idle", "request", "backoff", "stream", "failed", "closed"}
  /\ try \in 0 .. MaxTries - 1 /\ round \in 0 .. RetryMax
  /\ sent \in Seq(Fragments) /\ Len(sent) <= MaxSent
  /\ wire \in Seq(Events) /\ shown \in Seq(Pieces) /\ streamed \in BOOLEAN
  /\ failure \in {"none", "params", "limited", "server", "refused", "unreachable", "canceled"}
  /\ stopped \in BOOLEAN /\ returned \in {"none", "answer", "error"}

LegInv ==
  /\ leg \in {"request", "backoff"} => sent = <<>> /\ wire = <<>> /\ shown = <<>> /\ failure = "none"
  /\ leg = "backoff" => try < MaxTries - 1
  /\ leg = "stream" => listens # {} /\ failure = "none" /\ (wire = <<>> <=> sent = <<>>)
  /\ leg = "failed" /\ listens = {} => wire = <<>>
  /\ leg = "idle" => shown = <<>>
  /\ returned # "none" => leg = "closed"
  /\ ~streamed => shown = <<>>

WireInv ==
  /\ WireOrder(wire, listens)
  /\ \/ leg = "stream" /\ ~In(sent, "done", 0)
     \/ leg \in {"request", "backoff", "failed"}
     => WireOpen(wire)

Replied ==
  IF listens = {} THEN reply = [text |-> {1}, calls |-> {}] /\ sent = <<Fragment("text", 0)>>
  ELSE reply = Terminal(proto, sent) /\ DoneOK(proto, sent)

ReplyInv ==
  /\ "stop" \in ToSet(wire) => Replied
  /\ listens # {} => SentOK(proto, sent)

CallInv == CallTypes /\ LegInv /\ WireInv /\ ReplyInv /\ ShownOnce

(* Before anything is sent everything about it holds.                      *)
LEMMA NothingSent ==
  /\ <<>> \in Seq(Fragments) /\ Len(<<>>) = 0 /\ TextOf(<<>>) = {} /\ ToSet(<<>>) = {}
  /\ \A p : SentOK(p, <<>>)
BY DEF TextOf, ToSet, SentOK, BlocksOK, CallsOK, Ascend, In, Open

(* Before any text is sent, nothing is shown.                              *)
LEMMA NothingShown ==
  ASSUME shown \in Seq(Pieces), ShownOnce, TextOf(sent) = {} PROVE shown = <<>>
<1>1. {shown[j].place : j \in DOMAIN shown} = {}
  BY DEF ShownOnce
<1>2. DOMAIN shown = {}
  BY <1>1
<1>3. QED
  BY <1>2

(* The invariant holds before the first round.                             *)
LEMMA CallBegins == StreamInit => CallInv
<1> SUFFICES ASSUME StreamInit PROVE CallInv
  OBVIOUS
<1>1. CallTypes
  <2>1. 0 \in 0 .. MaxTries - 1 /\ 0 \in 0 .. RetryMax /\ Len(<<>>) <= MaxSent
    BY StreamAssumption
  <2>2. <<>> \in Seq(Fragments) /\ <<>> \in Seq(Events) /\ <<>> \in Seq(Pieces)
    OBVIOUS
  <2>3. QED
    BY <2>1, <2>2 DEF StreamInit, CallTypes
<1>2. LegInv
  BY DEF StreamInit, LegInv
<1>3. WireInv
  BY DEF StreamInit, WireInv, WireOrder, WireOpen
<1>4. ReplyInv
  BY NothingSent DEF StreamInit, ReplyInv
<1>5. ShownOnce
  <2>1. shown = <<>> /\ sent = <<>>
    BY DEF StreamInit
  <2>2. TextOf(sent) = {}
    BY <2>1, NothingSent
  <2>3. QED
    BY <2>1, <2>2 DEF ShownOnce
<1>6. QED
  BY <1>1, <1>2, <1>3, <1>4, <1>5 DEF CallInv

(* A step that leaves what was sent, shown and told as it was.             *)
LEMMA QuietStep ==
  ASSUME CallInv, UNCHANGED <<proto, listens, sent, wire, reply>>,
         shown' = shown, shown = <<>> \/ (round' = round /\ try' = try),
         CallTypes', LegInv',
         leg' \in {"request", "backoff", "failed", "stream"} =>
           WireOpen(wire) \/ (leg' = "stream" /\ In(sent, "done", 0))
  PROVE  CallInv'
<1>i. CallTypes /\ LegInv /\ WireInv /\ ReplyInv /\ ShownOnce
  BY DEF CallInv
<1>1. WireInv'
  BY <1>i DEF WireInv, WireOrder, WireOpen, In
<1>2. ReplyInv'
  BY <1>i DEF ReplyInv, Replied
<1>3. ShownOnce'
  BY <1>i DEF ShownOnce
<1>4. QED
  BY <1>1, <1>2, <1>3 DEF CallInv

(* One lemma for each action: it keeps the invariant.                      *)
LEMMA BeginRoundStep == ASSUME CallInv, BeginRound PROVE CallInv'
<1>i. CallTypes /\ LegInv
  BY DEF CallInv
<1>u. /\ leg = "idle" /\ returned = "none" /\ try' = 0 /\ sent' = <<>> /\ wire' = <<>> /\ ~streamed'
      /\ streamed' \in BOOLEAN
      /\ \/ leg' = "request" /\ failure' = "none"
         \/ leg' = "closed" /\ failure' = "params"
      /\ UNCHANGED <<proto, listens, round, shown, reply, stopped, returned>>
  BY DEF BeginRound
<1>1. shown = <<>>
  BY <1>i, <1>u DEF LegInv
<1>2. CallTypes'
  <2>1. 0 \in 0 .. MaxTries - 1 /\ 0 <= MaxSent
    BY StreamAssumption
  <2>2. QED
    BY <2>1, <1>i, <1>u, NothingSent DEF CallTypes
<1>3. LegInv'
  BY <1>i, <1>u, <1>1 DEF LegInv
<1>4. WireInv'
  BY <1>u DEF WireInv, WireOrder, WireOpen
<1>5. ReplyInv'
  BY <1>u, NothingSent DEF ReplyInv
<1>6. ShownOnce'
  <2>1. TextOf(sent') = {} /\ shown' = <<>>
    BY <1>u, <1>1, NothingSent
  <2>2. TextOf(sent)' = {}
    BY <2>1 DEF TextOf
  <2>3. QED
    BY <2>1, <2>2 DEF ShownOnce
<1>7. QED
  BY <1>2, <1>3, <1>4, <1>5, <1>6 DEF CallInv

LEMMA RequestStep ==
  ASSUME CallInv, RequestLimited \/ Backoff \/ RequestFails \/ RequestAccepted
  PROVE  CallInv'
<1>i. CallTypes /\ LegInv /\ WireInv
  BY DEF CallInv
<1>r. /\ leg \in {"request", "backoff"} /\ UNCHANGED <<proto, listens, wire, shown, round, reply, streamed, stopped, returned>>
  BY DEF RequestLimited, Backoff, RequestFails, RequestAccepted
<1>0. sent = <<>> /\ wire = <<>> /\ shown = <<>> /\ failure = "none" /\ WireOpen(wire)
  BY <1>i, <1>r DEF LegInv, WireInv
<1>1. UNCHANGED sent
  BY <1>0 DEF RequestLimited, Backoff, RequestFails, RequestAccepted
<1>n. returned = "none"
  BY <1>i, <1>r DEF LegInv
<1>2. CallTypes' /\ LegInv'
  <2>1. CASE RequestLimited
    <3>1. /\ leg = "request" /\ UNCHANGED try
          /\ \/ leg' = "failed" /\ failure' = "limited"
             \/ leg' = "backoff" /\ failure' = failure /\ try # MaxTries - 1
      BY <2>1 DEF RequestLimited, Limited
    <3>2. try # MaxTries - 1 => try < MaxTries - 1
      BY <1>i, StreamAssumption DEF CallTypes
    <3>3. QED
      BY <3>1, <3>2, <1>i, <1>r, <1>0, <1>1, <1>n DEF CallTypes, LegInv
  <2>2. CASE Backoff
    <3>1. /\ leg = "backoff"
          /\ \/ leg' = "failed" /\ failure' = "canceled" /\ try' = try
             \/ leg' = "request" /\ failure' = failure /\ try' = try + 1
      BY <2>2 DEF Backoff
    <3>2. try + 1 \in 0 .. MaxTries - 1
      BY <3>1, <1>i, StreamAssumption DEF CallTypes, LegInv
    <3>3. QED
      BY <3>1, <3>2, <1>i, <1>r, <1>0, <1>1, <1>n DEF CallTypes, LegInv
  <2>3. CASE RequestFails
    <3>1. /\ leg' = "failed" /\ failure' \in {"canceled", "unreachable", "server", "refused"} /\ UNCHANGED try
      BY <2>3 DEF RequestFails
    <3>2. QED
      BY <3>1, <1>i, <1>r, <1>0, <1>1, <1>n DEF CallTypes, LegInv
  <2>4. CASE RequestAccepted
    <3>1. leg' = "stream" /\ listens # {} /\ UNCHANGED <<try, failure>>
      BY <2>4 DEF RequestAccepted
    <3>2. QED
      BY <3>1, <1>i, <1>r, <1>0, <1>1, <1>n DEF CallTypes, LegInv
  <2>5. QED
    BY <2>1, <2>2, <2>3, <2>4
<1>3. QED
  BY <1>0, <1>1, <1>2, <1>r, QuietStep

LEMMA PlainAnswerStep == ASSUME CallInv, PlainAnswer PROVE CallInv'
<1>i. CallTypes /\ LegInv /\ WireInv /\ ReplyInv /\ ShownOnce
  BY DEF CallInv
<1>u. /\ leg = "request" /\ listens = {} /\ leg' = "closed"
      /\ reply' = [text |-> {1}, calls |-> {}] /\ sent' = <<Fragment("text", 0)>> /\ wire' = <<"stop">>
      /\ UNCHANGED <<proto, listens, try, round, shown, streamed, failure, stopped, returned>>
  BY DEF PlainAnswer
<1>0. shown = <<>> /\ returned = "none"
  BY <1>i, <1>u DEF LegInv
<1>1. CallTypes'
  <2>1. <<Fragment("text", 0)>> \in Seq(Fragments) /\ Len(<<Fragment("text", 0)>>) = 1 /\ 1 <= MaxSent
    BY StreamAssumption DEF Fragment, Fragments
  <2>2. <<"stop">> \in Seq(Events)
    BY DEF Events, Terminals
  <2>3. QED
    BY <2>1, <2>2, <1>i, <1>u DEF CallTypes
<1>2. LegInv'
  BY <1>i, <1>u, <1>0 DEF LegInv
<1>3. WireInv'
  BY <1>u DEF WireInv, WireOrder, Terminals
<1>4. ReplyInv'
  BY <1>u DEF ReplyInv, Replied
<1>5. ShownOnce'
  BY <1>u, <1>0 DEF ShownOnce
<1>6. QED
  BY <1>1, <1>2, <1>3, <1>4, <1>5 DEF CallInv

LEMMA StreamCutStep == ASSUME CallInv, StreamCutUnnoticed \/ StreamBreaks \/ EndRound \/ StopTurn PROVE CallInv'
<1>i. CallTypes /\ LegInv /\ WireInv /\ ReplyInv /\ ShownOnce
  BY DEF CallInv
<1>1. CASE StreamCutUnnoticed
  <2>1. /\ leg = "stream" /\ leg' = "closed"
        /\ UNCHANGED <<proto, listens, try, round, sent, wire, shown, streamed, failure, reply, stopped, returned>>
    BY <1>1 DEF StreamCutUnnoticed
  <2>2. CallTypes' /\ LegInv'
    BY <2>1, <1>i DEF CallTypes, LegInv
  <2>3. QED
    BY <2>1, <2>2, QuietStep
<1>2. CASE StreamBreaks
  <2>1. /\ leg = "stream" /\ ~In(sent, "done", 0)
        /\ \/ wire = <<>> /\ leg' = "failed" /\ failure' = "limited"
           \/ wire = <<>> /\ leg' = "backoff" /\ failure' = failure /\ try # MaxTries - 1
           \/ leg' = "failed" /\ failure' \in {"canceled", "unreachable"}
        /\ UNCHANGED <<proto, listens, try, round, sent, wire, shown, streamed, reply, stopped, returned>>
    BY <1>2 DEF StreamBreaks, Limited, Has, In
  <2>2. WireOpen(wire) /\ listens # {} /\ returned = "none" /\ failure = "none"
    BY <2>1, <1>i DEF WireInv, LegInv
  <2>3. wire = <<>> => sent = <<>> /\ shown = <<>>
    <3>1. wire = <<>> => sent = <<>>
      BY <2>1, <1>i DEF LegInv
    <3>2. sent = <<>> => TextOf(sent) = {}
      BY NothingSent
    <3>3. QED
      BY <3>1, <3>2, <1>i, NothingShown DEF CallTypes
  <2>4. try # MaxTries - 1 => try < MaxTries - 1
    BY <1>i, StreamAssumption DEF CallTypes
  <2>5. CallTypes' /\ LegInv'
    BY <2>1, <2>2, <2>3, <2>4, <1>i DEF CallTypes, LegInv
  <2>6. QED
    BY <2>1, <2>2, <2>5, QuietStep
<1>3. CASE EndRound
  <2>1. /\ leg = "closed" /\ returned = "none"
        /\ UNCHANGED <<proto, listens, try, sent, wire, shown, streamed, failure, reply, stopped>>
        /\ \/ returned' \in {"answer", "error"} /\ UNCHANGED <<leg, round>>
           \/ ~streamed /\ round < RetryMax /\ leg' = "idle" /\ round' = round + 1 /\ UNCHANGED returned
    BY <1>3 DEF EndRound
  <2>2. round < RetryMax => round + 1 \in 0 .. RetryMax
    BY <1>i, StreamAssumption DEF CallTypes
  <2>3. CallTypes' /\ LegInv'
    BY <2>1, <2>2, <1>i DEF CallTypes, LegInv
  <2>4. shown = <<>> \/ (round' = round /\ try' = try)
    BY <2>1, <1>i DEF LegInv
  <2>5. leg' \notin {"request", "backoff", "failed", "stream"}
    BY <2>1
  <2>6. QED
    BY <2>1, <2>3, <2>4, <2>5, QuietStep
<1>4. CASE StopTurn
  <2>1. UNCHANGED <<proto, listens, leg, try, round, sent, wire, shown, streamed, failure, reply, returned>>
        /\ stopped' \in BOOLEAN
    BY <1>4 DEF StopTurn
  <2>2. CallTypes' /\ LegInv'
    BY <2>1, <1>i DEF CallTypes, LegInv
  <2>3. leg' \in {"request", "backoff", "failed", "stream"} =>
          WireOpen(wire) \/ (leg' = "stream" /\ In(sent, "done", 0))
    BY <2>1, <1>i DEF WireInv
  <2>4. QED
    BY <2>1, <2>2, <2>3, QuietStep
<1>5. QED
  BY <1>1, <1>2, <1>3, <1>4

LEMMA ReportFailureStep == ASSUME CallInv, ReportFailure PROVE CallInv'
<1>i. CallTypes /\ LegInv /\ WireInv /\ ReplyInv /\ ShownOnce
  BY DEF CallInv
<1>u. /\ leg = "failed" /\ leg' = "closed"
      /\ wire' = IF listens = {} THEN wire ELSE Append(wire, "error")
      /\ UNCHANGED <<proto, listens, try, round, sent, shown, streamed, failure, reply, stopped, returned>>
  BY DEF ReportFailure
<1>0. WireOpen(wire) /\ returned = "none" /\ wire \in Seq(Events)
  BY <1>i, <1>u DEF WireInv, LegInv, CallTypes
<1>w. wire' \in Seq(Events) /\ WireOrder(wire', listens) /\ (listens # {} => "stop" \notin ToSet(wire'))
  <2>1. CASE listens = {}
    BY <2>1, <1>u, <1>0, <1>i DEF WireInv
  <2>2. CASE listens # {}
    <3>1. "error" \in Events /\ "error" \in Terminals
      BY DEF Events, Terminals
    <3>2. QED
      BY <2>2, <3>1, <1>u, <1>0, WireGrows
  <2>3. QED
    BY <2>1, <2>2
<1>1. CallTypes'
  BY <1>i, <1>u, <1>w DEF CallTypes
<1>2. LegInv'
  BY <1>i, <1>u, <1>0 DEF LegInv
<1>3. WireInv'
  BY <1>u, <1>w DEF WireInv, WireOrder
<1>4. ReplyInv'
  <2>1. CASE listens = {}
    BY <2>1, <1>i, <1>u DEF ReplyInv, Replied
  <2>2. CASE listens # {}
    BY <2>2, <1>i, <1>u, <1>w DEF ReplyInv, ToSet
  <2>3. QED
    BY <2>1, <2>2
<1>5. ShownOnce'
  BY <1>i, <1>u DEF ShownOnce
<1>6. QED
  BY <1>1, <1>2, <1>3, <1>4, <1>5 DEF CallInv

LEMMA StreamEndsStep == ASSUME CallInv, StreamEnds PROVE CallInv'
<1>i. CallTypes /\ LegInv /\ WireInv /\ ReplyInv /\ ShownOnce
  BY DEF CallInv
<1>u. /\ leg = "stream" /\ Complete /\ leg' = "closed"
      /\ UNCHANGED <<proto, listens, try, round, sent, shown, streamed, failure, stopped, returned>>
  BY DEF StreamEnds
<1>0. listens # {} /\ returned = "none" /\ wire \in Seq(Events) /\ SentOK(proto, sent)
  BY <1>i, <1>u DEF LegInv, CallTypes, ReplyInv
<1>1. CASE proto = "ollama"
  <2>1. UNCHANGED <<wire, reply>>
    BY <1>1 DEF StreamEnds
  <2>2. CallTypes' /\ LegInv'
    BY <2>1, <1>i, <1>u DEF CallTypes, LegInv
  <2>3. QED
    BY <2>1, <2>2, <1>u, QuietStep
<1>2. CASE proto # "ollama"
  <2>1. wire' = Append(wire, "stop") /\ reply' = Terminal(proto, sent)
    BY <1>2 DEF StreamEnds
  <2>2. WireOpen(wire) /\ sent # <<>> /\ DoneOK(proto, sent)
    <3>1. WireOpen(wire)
      BY <1>2, <1>i, <1>u, <1>0 DEF WireInv, SentOK
    <3>2. sent # <<>>
      BY <1>2, <1>u, <1>i DEF Complete, CallTypes, Protocols
    <3>3. DoneOK(proto, sent)
      BY <1>2, <1>u DEF Complete, DoneOK, InProgress, Opened, Has, Open, In
    <3>4. QED
      BY <3>1, <3>2, <3>3
  <2>3. wire' \in Seq(Events) /\ WireOrder(wire', listens)
    <3>1. "stop" \in Events /\ "stop" \in Terminals /\ wire # <<>>
      BY <2>2, <1>i, <1>u DEF Events, Terminals, LegInv
    <3>2. QED
      BY <3>1, <2>1, <2>2, <1>0, WireGrows
  <2>4. CallTypes'
    BY <2>3, <1>i, <1>u DEF CallTypes
  <2>5. LegInv'
    BY <1>i, <1>u, <1>0 DEF LegInv
  <2>6. WireInv'
    BY <2>3, <1>u DEF WireInv, WireOrder
  <2>7. ReplyInv'
    BY <2>1, <2>2, <1>0, <1>u DEF ReplyInv, Replied
  <2>8. ShownOnce'
    BY <1>i, <1>u DEF ShownOnce
  <2>9. QED
    BY <2>4, <2>5, <2>6, <2>7, <2>8 DEF CallInv
<1>3. QED
  BY <1>1, <1>2

LEMMA ReceiveStep == ASSUME CallInv, NEW f \in MaySend, Receive(f) PROVE CallInv'
<1>i. CallTypes /\ LegInv /\ WireInv /\ ReplyInv /\ ShownOnce
  BY DEF CallInv
<1>u. /\ leg = "stream" /\ Len(sent) < MaxSent
      /\ sent' = Append(sent, f) /\ wire' = wire \o EventsFor(f)
      /\ reply' = IF f.k = "done" THEN Terminal(proto, Append(sent, f)) ELSE reply
      /\ UNCHANGED <<proto, listens, leg, try, round, failure, stopped, returned>>
  BY DEF Receive
<1>h. /\ shown' = IF f.k = "text" /\ "text" \in listens
                  THEN Append(shown, [round |-> round, try |-> try, place |-> Len(sent) + 1]) ELSE shown
      /\ streamed' = (streamed \/ (f.k = "text" /\ "text" \in listens))
  BY DEF Receive, Hears
<1>0. /\ listens # {} /\ failure = "none" /\ (wire = <<>> <=> sent = <<>>) /\ returned = "none"
      /\ SentOK(proto, sent) /\ wire \in Seq(Events) /\ sent \in Seq(Fragments) /\ proto \in Protocols
      /\ shown \in Seq(Pieces)
  BY <1>i, <1>u DEF LegInv, ReplyInv, CallTypes
<1>f. SentOK(proto, Append(sent, f)) /\ f \in Fragments
  BY <1>0, SentLonger
<1>l. /\ Append(sent, f) \in Seq(Fragments) /\ Len(Append(sent, f)) = Len(sent) + 1 /\ Len(sent) \in Nat
      /\ DOMAIN sent = 1 .. Len(sent) /\ DOMAIN Append(sent, f) = 1 .. Len(sent) + 1
      /\ Append(sent, f)[Len(sent) + 1] = f
      /\ \A j \in 1 .. Len(sent) : Append(sent, f)[j] = sent[j] /\ sent[j] \in Fragments
  BY <1>0, <1>f, Longer
<1>d. ~In(sent, "done", 0)
  <2>1. proto = "ollama" => ~Has("done", 0)
    BY DEF MaySend, OllamaSends
  <2>2. QED
    BY <2>1, <1>0 DEF SentOK, Has, In
<1>o. WireOpen(wire)
  BY <1>d, <1>i, <1>u DEF WireInv
<1>w. /\ wire' \in Seq(Events) /\ wire' # <<>> /\ WireOrder(wire', listens)
      /\ f.k # "done" => WireOpen(wire') /\ "stop" \notin ToSet(wire')
  <2>1. PICK w \in Seq(Events) :
          /\ w = IF sent = <<>> THEN <<"start">> ELSE wire
          /\ w # <<>>
          /\ \/ wire \o EventsFor(f) = w /\ f.k # "done"
             \/ \E e \in {"delta", "thinking"} : wire \o EventsFor(f) = Append(w, e) /\ f.k # "done"
             \/ f.k = "done" /\ wire \o EventsFor(f) = Append(w, "stop")
    BY <1>0, <1>f, WireOfFragment
  <2>2. WireOpen(w)
    BY <2>1, <1>o, WireBegins
  <2>3. CASE wire' = w /\ f.k # "done"
    <3>1. "stop" \in Events
      BY DEF Events, Terminals
    <3>2. WireOrder(w, listens) /\ "stop" \notin ToSet(w)
      BY <2>2, <3>1, <1>0, WireGrows
    <3>3. QED
      BY <2>1, <2>2, <2>3, <3>2
  <2>4. ASSUME NEW e \in {"delta", "thinking"}, wire' = Append(w, e), f.k # "done"
        PROVE  /\ wire' \in Seq(Events) /\ wire' # <<>> /\ WireOrder(wire', listens)
               /\ WireOpen(wire') /\ "stop" \notin ToSet(wire')
    <3>1. e \in Events /\ e # "stop" /\ "stop" \in Events
      BY DEF Events, Terminals
    <3>2. Append(w, e) \in Seq(Events) /\ Append(w, e) # <<>> /\ WireOpen(Append(w, e))
          /\ "stop" \notin ToSet(Append(w, e))
      BY <2>1, <2>2, <3>1, <1>0, WireGrows
    <3>3. WireOrder(Append(w, e), listens)
      BY <3>1, <3>2, <1>0, WireGrows
    <3>4. QED
      BY <2>4, <3>2, <3>3
  <2>5. CASE f.k = "done" /\ wire' = Append(w, "stop")
    <3>1. "stop" \in Events /\ "stop" \in Terminals
      BY DEF Events, Terminals
    <3>2. Append(w, "stop") \in Seq(Events) /\ Append(w, "stop") # <<>> /\ WireOrder(Append(w, "stop"), listens)
      BY <2>1, <2>2, <3>1, <1>0, WireGrows
    <3>3. QED
      BY <2>5, <3>2
  <2>6. QED
    BY <2>1, <2>3, <2>4, <2>5, <1>u
<1>1. CallTypes'
  <2>1. shown' \in Seq(Pieces)
    <3>1. [round |-> round, try |-> try, place |-> Len(sent) + 1] \in Pieces
      BY <1>i, <1>l, StreamAssumption DEF CallTypes, Pieces
    <3>2. QED
      BY <3>1, <1>h, <1>0
  <2>2. Len(sent') <= MaxSent /\ sent' \in Seq(Fragments)
    BY <1>u, <1>l, StreamAssumption
  <2>3. streamed' \in BOOLEAN
    BY <1>h
  <2>4. QED
    BY <2>1, <2>2, <2>3, <1>i, <1>u, <1>w DEF CallTypes
<1>2. LegInv'
  <2>1. sent' # <<>>
    <3>1. Append(sent, f) # <<>>
      BY <1>0, <1>f, Longer
    <3>2. QED
      BY <3>1, <1>u
  <2>2. ~streamed' => shown' = <<>>
    BY <1>h, <1>i DEF LegInv
  <2>3. QED
    BY <2>1, <2>2, <1>0, <1>u, <1>w DEF LegInv
<1>3. WireInv'
  <2>1. f.k = "done" => In(sent', "done", 0)
    <3>1. f.k = "done" => f = Fragment("done", 0)
      <4>1. CASE proto = "ollama"
        BY <4>1 DEF MaySend, OllamaSends, Fragment
      <4>2. CASE proto = "anthropic"
        <5>1. f.k # "done"
          BY <4>2, <1>0, BlocksLonger DEF MaySend, SentOK
        <5>2. QED
          BY <5>1
      <4>3. CASE proto = "openai"
        BY <4>3 DEF MaySend, OpenAISends, Fragment
      <4>4. QED
        BY <4>1, <4>2, <4>3, <1>0 DEF Protocols
    <3>2. QED
      BY <3>1, <1>0, <1>f, <1>u, InLonger
  <2>2. leg' = "stream"
    BY <1>u
  <2>3. WireOrder(wire', listens')
    BY <1>w, <1>u
  <2>4. ~In(sent', "done", 0) => WireOpen(wire')
    BY <2>1, <1>w
  <2>5. QED
    BY <2>2, <2>3, <2>4 DEF WireInv, WireOrder, WireOpen, In
<1>4. ReplyInv'
  <2>1. SentOK(proto', sent')
    BY <1>f, <1>u
  <2>2. CASE f.k = "done"
    <3>1. proto = "ollama"
      <4>1. CASE proto = "anthropic"
        BY <4>1, <2>2, <1>0, BlocksLonger DEF MaySend, SentOK
      <4>2. CASE proto = "openai"
        BY <4>2, <2>2 DEF MaySend, OpenAISends, Fragment
      <4>3. QED
        BY <4>1, <4>2, <1>0 DEF Protocols
    <3>2. reply' = Terminal(proto', sent') /\ DoneOK(proto', sent') /\ listens' # {}
      BY <2>2, <3>1, <1>u, <1>0 DEF DoneOK
    <3>3. QED
      BY <2>1, <3>2 DEF ReplyInv, Replied
  <2>3. CASE f.k # "done"
    <3>1. "stop" \notin ToSet(wire')
      BY <2>3, <1>w
    <3>2. QED
      BY <2>1, <3>1 DEF ReplyInv, ToSet
  <2>4. QED
    BY <2>2, <2>3
<1>5. ShownOnce'
  <2> DEFINE n == Len(sent)
             m == Len(shown)
             e == [round |-> round, try |-> try, place |-> n + 1]
  <2>t. TextOf(sent') = IF f.k = "text" THEN TextOf(sent) \cup {n + 1} ELSE TextOf(sent)
    BY <1>u, <1>l DEF TextOf
  <2>p. TextOf(sent) \subseteq 1 .. n
    BY <1>l DEF TextOf
  <2>s. /\ \A j \in DOMAIN shown : shown[j].round = round /\ shown[j].try = try
        /\ \A j, k \in DOMAIN shown : j < k => shown[j].place < shown[k].place
        /\ {shown[j].place : j \in DOMAIN shown} = IF "text" \in listens THEN TextOf(sent) ELSE {}
    BY <1>i DEF ShownOnce
  <2>q. TextOf(sent') = TextOf(sent)'
    BY DEF TextOf
  <2>1. CASE f.k = "text" /\ "text" \in listens
    <3>1. shown' = Append(shown, e)
      BY <2>1, <1>h
    <3>2. /\ m \in Nat /\ DOMAIN shown = 1 .. m /\ DOMAIN shown' = 1 .. m + 1 /\ shown'[m + 1] = e
          /\ \A j \in 1 .. m : shown'[j] = shown[j]
      BY <3>1, <1>0
    <3>3. e.round = round /\ e.try = try /\ e.place = n + 1
      OBVIOUS
    <3> HIDE DEF e, m, n
    <3>4. \A j \in DOMAIN shown' : shown'[j].round = round /\ shown'[j].try = try
      BY <3>2, <3>3, <2>s
    <3>5. \A j \in 1 .. m : shown[j].place \in 1 .. n
      BY <3>2, <2>s, <2>p, <2>1
    <3>6. \A j, k \in DOMAIN shown' : j < k => shown'[j].place < shown'[k].place
      <4> SUFFICES ASSUME NEW j \in 1 .. m + 1, NEW k \in 1 .. m + 1, j < k
                   PROVE  shown'[j].place < shown'[k].place
        BY <3>2
      <4>1. j \in 1 .. m /\ n \in Nat
        BY <3>2, <1>l DEF n
      <4>2. CASE k = m + 1
        BY <4>1, <4>2, <3>2, <3>3, <3>5
      <4>3. CASE k # m + 1
        <5>1. k \in 1 .. m
          BY <4>3, <3>2
        <5>2. QED
          BY <4>1, <5>1, <3>2, <2>s
      <4>4. QED
        BY <4>2, <4>3
    <3>7. {shown'[j].place : j \in DOMAIN shown'} = {shown[j].place : j \in DOMAIN shown} \cup {n + 1}
      BY <3>2, <3>3
    <3>8. {shown'[j].place : j \in DOMAIN shown'} = TextOf(sent')
      BY <3>7, <2>s, <2>t, <2>1
    <3>9. QED
      BY <3>4, <3>6, <3>8, <2>1, <2>q, <1>u DEF ShownOnce
  <2>2. CASE ~(f.k = "text" /\ "text" \in listens)
    <3>1. shown' = shown
      BY <2>2, <1>h
    <3>2. "text" \in listens => TextOf(sent') = TextOf(sent)
      BY <2>2, <2>t
    <3>3. QED
      BY <3>1, <3>2, <2>s, <2>q, <1>u DEF ShownOnce
  <2>3. QED
    BY <2>1, <2>2
<1>6. QED
  BY <1>1, <1>2, <1>3, <1>4, <1>5 DEF CallInv

(* Every step keeps the invariant.                                         *)
LEMMA CallInvStep == ASSUME CallInv, [StreamNext]_streamVars PROVE CallInv'
<1>1. CASE BeginRound
  BY <1>1, BeginRoundStep
<1>2. CASE RequestLimited \/ Backoff \/ RequestFails \/ RequestAccepted
  BY <1>2, RequestStep
<1>3. CASE PlainAnswer
  BY <1>3, PlainAnswerStep
<1>4. ASSUME NEW f \in MaySend, Receive(f) PROVE CallInv'
  BY <1>4, ReceiveStep
<1>5. CASE StreamEnds
  BY <1>5, StreamEndsStep
<1>6. CASE StreamCutUnnoticed \/ StreamBreaks \/ EndRound \/ StopTurn
  BY <1>6, StreamCutStep
<1>7. CASE ReportFailure
  BY <1>7, ReportFailureStep
<1>8. CASE UNCHANGED streamVars
  <2>1. UNCHANGED <<proto, listens, leg, try, round, sent, wire, shown, streamed,
                    failure, reply, stopped, returned>>
    BY <1>8 DEF streamVars
  <2>2. CallTypes' /\ LegInv'
    BY <2>1 DEF CallInv, CallTypes, LegInv
  <2>3. leg' \in {"request", "backoff", "failed", "stream"} =>
          WireOpen(wire) \/ (leg' = "stream" /\ In(sent, "done", 0))
    BY <2>1 DEF CallInv, WireInv
  <2>4. QED
    BY <2>1, <2>2, <2>3, QuietStep
<1>9. QED
  BY <1>1, <1>2, <1>3, <1>4, <1>5, <1>6, <1>7, <1>8 DEF StreamNext, CallStep

(* The invariant implies what the run checks.                              *)
LEMMA CallInvIsFaithful == CallInv => CallIsFaithful
<1> SUFFICES ASSUME CallInv PROVE CallIsFaithful
  OBVIOUS
<1>i. CallTypes /\ LegInv /\ WireInv /\ ReplyInv /\ ShownOnce
  BY DEF CallInv
<1>1. StreamTypeOK
  <2>1. ToSet(wire) \subseteq Events
    BY <1>i DEF CallTypes, ToSet
  <2>2. QED
    BY <2>1, <1>i DEF StreamTypeOK, CallTypes, Events
<1>2. EventsInOrder
  BY <1>i DEF WireInv, WireOrder, EventsInOrder
<1>3. AnswerIsWhole
  <2> SUFFICES ASSUME "stop" \in ToSet(wire)
               PROVE  Whole(reply, sent) /\
                      ("text" \in listens => {shown[j].place : j \in DOMAIN shown} = reply.text)
    BY DEF AnswerIsWhole, Whole
  <2>1. Whole(reply, sent)
    <3>1. CASE listens = {}
      <4>1. reply.text = {1} /\ reply.calls = {} /\ sent = <<Fragment("text", 0)>>
        BY <3>1, <1>i DEF ReplyInv, Replied
      <4>2. TextOf(sent) = {1} /\ \A i : PartsOf(sent, i) = {}
        BY <4>1 DEF TextOf, PartsOf, Fragment
      <4>3. QED
        BY <4>1, <4>2 DEF Whole
    <3>2. CASE listens # {}
      BY <3>2, <1>i, TerminalIsWhole DEF ReplyInv, Replied, CallTypes
    <3>3. QED
      BY <3>1, <3>2
  <2>2. reply.text = TextOf(sent)
    BY <2>1 DEF Whole
  <2>3. QED
    BY <2>1, <2>2, <1>i DEF ShownOnce
<1>4. QED
  BY <1>1, <1>2, <1>3, <1>i DEF CallIsFaithful

(* Whoever listens to a call hears each piece of one attempt once and in   *)
(* order, through every retry of either layer, and the answer it returns   *)
(* has all the text and every tool call of that attempt, for any number of *)
(* tries and whatever the server sends.                                    *)
THEOREM CallStaysFaithful == StreamSpec => []CallIsFaithful
<1>1. StreamInit /\ [][StreamNext]_streamVars => []CallInv
  BY CallBegins, CallInvStep, PTL
<1>2. QED
  BY <1>1, CallInvIsFaithful, PTL DEF StreamSpec

=============================================================================
