-------------------------- MODULE NexusWake_proofs --------------------------
(***************************************************************************)
(* The turn queue serves one turn at a time, loses no accepted request and *)
(* implements the line of TurnLine, for every set of queries and wakes.    *)
(* The trigger composed with it, for any channels and any requests: the    *)
(* queue keeps its invariants under its new callers, and no pending        *)
(* channel is left without somebody to flush it.  Then the command source, *)
(* the channels with their rings, and the tail of a file.                  *)
(***************************************************************************)
EXTENDS NexusWake, CommandSource, NexusChannels, FileTail, FiniteSetTheorems, SequenceTheorems,
        WellFoundedInduction, TLAPS

USE TurnQueueAssumption

(* What the reader of the events sees, told from the slot alone.           *)
AirFollowsSlot ==
  /\ slot = NoTurn => onAir = NoTurn
  /\ slot # NoTurn /\ phase[slot] \in {"running"} \cup Outcome => onAir = slot
  /\ slot # NoTurn /\ phase[slot] \in {"claimed", "finishing"} => onAir = NoTurn

(* A cancel function that has been read belongs to a turn that was aimed   *)
(* at, and a closed queue is empty for good.                               *)
AimsAreTargets    == canceled \cup aimed \subseteq targeted
ClosedMeansEmpty  == closing => queue = <<>>

Inv ==
  /\ TypeOK /\ OneTurn /\ WaitingIsQueued
  /\ AirFollowsSlot /\ AimsAreTargets /\ ClosedMeansEmpty
-----------------------------------------------------------------------------
(* Appending and taking the head, index by index.                          *)
LEMMA AppendAt ==
  ASSUME NEW S, NEW q \in Seq(S), NEW r \in S
  PROVE  /\ Append(q, r) \in Seq(S) /\ Append(q, r) # <<>>
         /\ Len(Append(q, r)) = Len(q) + 1
         /\ \A i \in 1 .. Len(q) : Append(q, r)[i] = q[i]
         /\ Append(q, r)[Len(q) + 1] = r
  BY AppendProperties

LEMMA TailAt ==
  ASSUME NEW S, NEW q \in Seq(S), q # <<>>
  PROVE  /\ Tail(q) \in Seq(S) /\ Head(q) \in S /\ Head(q) = q[1]
         /\ Len(Tail(q)) = Len(q) - 1 /\ Len(q) \in Nat /\ Len(q) >= 1
         /\ \A i \in 1 .. Len(Tail(q)) : Tail(q)[i] = q[i + 1]
  BY HeadTailProperties, LenProperties, EmptySeq
-----------------------------------------------------------------------------
(* What Cancel and Close do to the phases: only waiting requests move.     *)
LEMMA DroppedWaits ==
  ASSUME TypeOK, WaitingIsQueued
  PROVE  /\ Dropped \in [Requests -> Phases]
         /\ \A s \in Requests : Dropped[s] = IF phase[s] = "waiting" THEN "dropped" ELSE phase[s]
<1>1. DOMAIN queue = 1 .. Len(queue)
  BY LenProperties DEF TypeOK
<1>2. \A s \in Requests : Dropped[s] = IF phase[s] = "waiting" THEN "dropped" ELSE phase[s]
  BY <1>1 DEF Dropped, WaitingIsQueued
<1>3. QED
  BY <1>2 DEF Dropped, TypeOK, Phases

LEMMA InitInv == Init => Inv
<1> SUFFICES ASSUME Init PROVE Inv
  OBVIOUS
<1>1. queue \in Seq(Requests) /\ Len(queue) = 0
  BY EmptySeq DEF Init
<1>2. TypeOK
  BY <1>1 DEF Init, TypeOK, Phases
<1>3. WaitingIsQueued
  BY <1>1 DEF Init, WaitingIsQueued
<1>4. OneTurn /\ AirFollowsSlot /\ AimsAreTargets /\ ClosedMeansEmpty
  BY DEF Init, OneTurn, AirFollowsSlot, AimsAreTargets, ClosedMeansEmpty, Live, Outcome
<1>5. QED
  BY <1>2, <1>3, <1>4 DEF Inv

LEMMA TypeStep == TypeOK /\ WaitingIsQueued /\ [Next]_vars => TypeOK'
<1> SUFFICES ASSUME TypeOK, WaitingIsQueued, [Next]_vars PROVE TypeOK'
  OBVIOUS
<1> USE DEF TypeOK, Move, Requests, Phases, Outcome
<1>1. ASSUME NEW r \in Queries, SubmitStarts(r) \/ SubmitQueues(r) \/ SubmitRejected(r)
      PROVE  TypeOK'
  <2>1. CASE SubmitQueues(r)
    BY <2>1, AppendAt DEF SubmitQueues
  <2>2. QED
    BY <1>1, <2>1 DEF SubmitStarts, SubmitRejected
<1>2. ASSUME NEW r \in Wakes, Start(r) PROVE TypeOK'
  BY <1>2 DEF Start, SubmitStarts
<1>3. ASSUME NEW r \in Requests, TurnStep(r) \/ CancelCalls(r) PROVE TypeOK'
  <2>1. CASE FinishChains(r)
    BY <2>1, TailAt DEF FinishChains
  <2>2. CASE AnnounceRunning(r) \/ Returns(r) \/ Report(r) \/ CancelCalls(r)
    BY <2>2 DEF AnnounceRunning, Returns, Report, CancelCalls
  <2>3. CASE FinishReleases(r) \/ AnnounceIdle(r) \/ OnTurnEnd(r)
    BY <2>3 DEF FinishReleases, AnnounceIdle, OnTurnEnd
  <2>4. QED
    BY <1>3, <2>1, <2>2, <2>3 DEF TurnStep, RunStep
<1>4. CASE CancelReads \/ Close
  BY <1>4, DroppedWaits, EmptySeq DEF CancelReads, Close
<1>5. CASE UNCHANGED vars
  BY <1>5 DEF vars
<1>6. QED
  BY <1>1, <1>2, <1>3, <1>4, <1>5 DEF Next

LEMMA SlotStep == Inv /\ [Next]_vars => OneTurn' /\ AirFollowsSlot'
<1> SUFFICES ASSUME Inv, [Next]_vars PROVE OneTurn' /\ AirFollowsSlot'
  OBVIOUS
<1> USE DEF Inv, TypeOK, OneTurn, AirFollowsSlot, Move, Requests, Live, Outcome
<1>1. ASSUME NEW r \in Requests, SubmitStarts(r) PROVE OneTurn' /\ AirFollowsSlot'
  BY <1>1 DEF SubmitStarts
<1>2. ASSUME NEW r \in Requests, SubmitQueues(r) \/ SubmitRejected(r)
      PROVE  OneTurn' /\ AirFollowsSlot'
  BY <1>2 DEF SubmitQueues, SubmitRejected
<1>3. ASSUME NEW r \in Requests, FinishChains(r) PROVE OneTurn' /\ AirFollowsSlot'
  <2>1. Head(queue) \in Requests /\ phase[Head(queue)] = "waiting"
    BY <1>3, TailAt DEF FinishChains, WaitingIsQueued
  <2>2. slot = r /\ slot # Head(queue)
    BY <1>3, <2>1 DEF FinishChains
  <2>3. QED
    BY <1>3, <2>1, <2>2 DEF FinishChains
<1>4. ASSUME NEW r \in Requests, AnnounceRunning(r) \/ Returns(r) \/ Report(r)
      PROVE  OneTurn' /\ AirFollowsSlot'
  <2>1. slot = r
    BY <1>4 DEF AnnounceRunning, Returns, Report
  <2>2. QED
    BY <1>4, <2>1 DEF AnnounceRunning, Returns, Report
<1>5. ASSUME NEW r \in Requests, FinishReleases(r) \/ AnnounceIdle(r) \/ OnTurnEnd(r)
      PROVE  OneTurn' /\ AirFollowsSlot'
  BY <1>5 DEF FinishReleases, AnnounceIdle, OnTurnEnd
<1>6. ASSUME NEW r \in Requests, CancelCalls(r) PROVE OneTurn' /\ AirFollowsSlot'
  BY <1>6 DEF CancelCalls
<1>7. CASE CancelReads \/ Close
  <2>1. \A r \in Requests : phase'[r] # phase[r] => phase[r] = "waiting" /\ phase'[r] = "dropped"
    BY <1>7, DroppedWaits DEF CancelReads, Close
  <2>2. slot' = slot /\ onAir' = onAir
    BY <1>7 DEF CancelReads, Close
  <2>3. QED
    BY <2>1, <2>2
<1>8. CASE UNCHANGED vars
  BY <1>8 DEF vars
<1>9. QED
  BY <1>1, <1>2, <1>3, <1>4, <1>5, <1>6, <1>7, <1>8 DEF Next, TurnStep, RunStep, Start

LEMMA WaitingStep == Inv /\ [Next]_vars => WaitingIsQueued' /\ ClosedMeansEmpty'
<1> SUFFICES ASSUME Inv, [Next]_vars PROVE WaitingIsQueued' /\ ClosedMeansEmpty'
  OBVIOUS
<1>t. TypeOK /\ WaitingIsQueued /\ ClosedMeansEmpty /\ queue \in Seq(Requests)
  BY DEF Inv, TypeOK
<1> USE DEF Move, Requests
<1>1. ASSUME NEW r \in Requests, SubmitQueues(r) PROVE WaitingIsQueued' /\ ClosedMeansEmpty'
  <2> DEFINE n == Len(queue)
  <2>1. /\ queue' # <<>> /\ Len(queue') = n + 1 /\ n \in Nat
        /\ \A i \in 1 .. n : queue'[i] = queue[i]
        /\ queue'[n + 1] = r
    BY <1>1, <1>t, AppendAt, LenProperties DEF SubmitQueues
  <2>2. \A i \in 1 .. n : queue[i] # r
    BY <1>1, <1>t DEF SubmitQueues, WaitingIsQueued
  <2>3. \A i \in 1 .. n + 1 : phase'[queue'[i]] = "waiting"
    BY <1>1, <1>t, <2>1 DEF SubmitQueues, WaitingIsQueued, TypeOK
  <2>4. \A i, j \in 1 .. n + 1 : queue'[i] = queue'[j] => i = j
    BY <1>t, <2>1, <2>2 DEF WaitingIsQueued
  <2>5. \A s \in Requests : phase'[s] = "waiting" => \E i \in 1 .. n + 1 : queue'[i] = s
    BY <1>1, <1>t, <2>1 DEF SubmitQueues, WaitingIsQueued, TypeOK
  <2>6. QED
    BY <1>1, <2>1, <2>3, <2>4, <2>5 DEF SubmitQueues, WaitingIsQueued, ClosedMeansEmpty
<1>2. ASSUME NEW r \in Requests, FinishChains(r) PROVE WaitingIsQueued' /\ ClosedMeansEmpty'
  <2> DEFINE n == Len(queue)
  <2>1. /\ Head(queue) \in Requests /\ Head(queue) = queue[1] /\ n \in Nat /\ n >= 1
        /\ Len(queue') = n - 1 /\ \A i \in 1 .. n - 1 : queue'[i] = queue[i + 1]
    BY <1>2, <1>t, TailAt DEF FinishChains
  <2>2. /\ \A s \in Requests : phase'[s] = "waiting" <=> phase[s] = "waiting" /\ s # Head(queue)
        /\ slot' # NoTurn
    BY <1>2, <1>t, <2>1 DEF FinishChains, TypeOK
  <2>3. \A i \in 1 .. n - 1 : /\ i + 1 \in 1 .. n
                              /\ queue'[i] \in Requests /\ queue'[i] # Head(queue)
                              /\ phase[queue'[i]] = "waiting"
    <3>1. SUFFICES ASSUME NEW i \in 1 .. n - 1
                   PROVE  /\ i + 1 \in 1 .. n /\ queue[i + 1] \in Requests
                          /\ queue[i + 1] # queue[1] /\ phase[queue[i + 1]] = "waiting"
      BY <2>1
    <3>2. i + 1 \in 1 .. n /\ 1 \in 1 .. n /\ i + 1 # 1
      BY <2>1
    <3>3. QED
      BY <1>t, <3>2, ElementOfSeq DEF WaitingIsQueued
  <2>4. \A i, j \in 1 .. n - 1 : queue'[i] = queue'[j] => i = j
    <3>1. SUFFICES ASSUME NEW i \in 1 .. n - 1, NEW j \in 1 .. n - 1,
                          queue[i + 1] = queue[j + 1]
                   PROVE  i = j
      BY <2>1
    <3>2. i + 1 = j + 1
      BY <1>t, <2>3, <3>1 DEF WaitingIsQueued
    <3>3. QED
      BY <3>2
  <2>5. \A s \in Requests : phase'[s] = "waiting" => \E i \in 1 .. n - 1 : queue'[i] = s
    <3>1. SUFFICES ASSUME NEW s \in Requests, phase[s] = "waiting", s # queue[1]
                   PROVE  \E i \in 1 .. n - 1 : queue'[i] = s
      BY <2>1, <2>2
    <3>2. PICK k \in 1 .. n : queue[k] = s
      BY <1>t, <3>1 DEF WaitingIsQueued
    <3>3. k - 1 \in 1 .. n - 1 /\ (k - 1) + 1 = k
      BY <2>1, <3>1, <3>2
    <3>4. queue'[k - 1] = s
      BY <2>1, <3>2, <3>3
    <3>5. QED
      BY <3>3, <3>4
  <2>6. QED
    BY <1>2, <2>1, <2>2, <2>3, <2>4, <2>5 DEF FinishChains, WaitingIsQueued, ClosedMeansEmpty
<1>3. CASE CancelReads \/ Close
  <2>1. queue' = <<>> /\ Len(queue') = 0
    BY <1>3, EmptySeq DEF CancelReads, Close
  <2>2. \A s \in Requests : phase'[s] # "waiting"
    BY <1>3, <1>t, DroppedWaits DEF CancelReads, Close
  <2>3. QED
    BY <2>1, <2>2 DEF WaitingIsQueued, ClosedMeansEmpty
<1>4. ASSUME queue' = queue, closing' = closing, slot' = NoTurn => queue = <<>>,
             \A s \in Requests : phase'[s] = "waiting" <=> phase[s] = "waiting"
      PROVE  WaitingIsQueued' /\ ClosedMeansEmpty'
  <2>1. \A i \in 1 .. Len(queue) : queue[i] \in Requests
    BY <1>t, ElementOfSeq
  <2>2. QED
    BY <1>t, <1>4, <2>1 DEF WaitingIsQueued, ClosedMeansEmpty
<1>5. ASSUME NEW r \in Requests, SubmitStarts(r) \/ SubmitRejected(r) \/ TurnStep(r) \/ CancelCalls(r),
             ~FinishChains(r)
      PROVE  WaitingIsQueued' /\ ClosedMeansEmpty'
  <2>1. queue' = queue /\ closing' = closing
    BY <1>5 DEF SubmitStarts, SubmitRejected, TurnStep, RunStep, CancelCalls, AnnounceRunning, Returns,
       Report, FinishReleases, AnnounceIdle, OnTurnEnd
  <2>2. slot' = NoTurn => queue = <<>>
    BY <1>5, <1>t DEF SubmitStarts, SubmitRejected, TurnStep, RunStep, CancelCalls, AnnounceRunning, Returns,
       Report, FinishReleases, AnnounceIdle, OnTurnEnd, WaitingIsQueued, ClosedMeansEmpty
  <2>3. \A s \in Requests : phase'[s] = "waiting" <=> phase[s] = "waiting"
    BY <1>5, <1>t DEF TypeOK, Outcome, SubmitStarts, SubmitRejected, TurnStep, RunStep, CancelCalls,
       AnnounceRunning, Returns, Report, FinishReleases, AnnounceIdle, OnTurnEnd
  <2>4. QED
    BY <1>4, <2>1, <2>2, <2>3
<1>6. CASE UNCHANGED vars
  <2>1. slot' = NoTurn => queue = <<>>
    BY <1>6, <1>t DEF vars, WaitingIsQueued
  <2>2. QED
    BY <1>4, <1>6, <2>1 DEF vars
<1>7. QED
  BY <1>1, <1>2, <1>3, <1>5, <1>6 DEF Next, Start

LEMMA AimStep == AimsAreTargets /\ [Next]_vars => AimsAreTargets'
  BY DEF AimsAreTargets, Next, vars, TurnStep, RunStep, Start, Move, SubmitStarts, SubmitQueues,
     SubmitRejected, AnnounceRunning, Returns, Report, FinishChains, FinishReleases,
     AnnounceIdle, OnTurnEnd, CancelReads, CancelCalls, Close

LEMMA InvStep == Inv /\ [Next]_vars => Inv'
BY TypeStep, SlotStep, WaitingStep, AimStep DEF Inv

LEMMA InductiveInvariant == Spec => []Inv
BY InitInv, InvStep, PTL DEF Spec
-----------------------------------------------------------------------------
(* Every variable stays of its type.                                       *)
THEOREM TypeCorrect == Spec => []TypeOK
BY InductiveInvariant, PTL DEF Inv

(* At most one turn is between its claim of the slot and its report, and   *)
(* the slot is then its own.                                               *)
THEOREM OneTurnAtATime == Spec => []OneTurn
BY InductiveInvariant, PTL DEF Inv

(* Requests wait in the queue, each once, and only behind a running turn.  *)
THEOREM NoRequestStranded == Spec => []WaitingIsQueued
BY InductiveInvariant, PTL DEF Inv

(* A cancel function never fires on a turn that did not hold the slot when *)
(* Cancel or Close ran.                                                    *)
THEOREM CancelIsAimed == Spec => []CancelHitsItsTurn
<1>1. Inv => CancelHitsItsTurn
  BY DEF Inv, AimsAreTargets, CancelHitsItsTurn
<1>2. QED
  BY <1>1, InductiveInvariant, PTL

(* The event stream announces turns and their outcomes in matching pairs.  *)
THEOREM OutcomesAreNested == Spec => []OutcomesNest
<1>1. Inv => OutcomesNest
  BY DEF Inv, OneTurn, AirFollowsSlot, OutcomesNest, Live, Outcome
<1>2. QED
  BY <1>1, InductiveInvariant, PTL
-----------------------------------------------------------------------------
(* The line, taken apart: its head is the slot's turn, its rest the queue. *)
LEMMA LineShape ==
  ASSUME NEW S, NEW q \in Seq(S), NEW s \in S
  PROVE  /\ <<>> \o q = q
         /\ <<s>> \o q \in Seq(S) /\ <<s>> \o q # <<>>
         /\ Head(<<s>> \o q) = s /\ Tail(<<s>> \o q) = q
         /\ <<s>> \o <<>> = <<s>>
         /\ \A r \in S : Append(<<s>> \o q, r) = <<s>> \o Append(q, r)
         /\ \A i \in DOMAIN (<<s>> \o q) :
               (<<s>> \o q)[i] = s \/ \E j \in 1 .. Len(q) : (<<s>> \o q)[i] = q[j]
<1> DEFINE l == <<s>> \o q
<1>1. /\ <<s>> \in Seq(S) /\ Len(<<s>>) = 1 /\ <<s>>[1] = s
      /\ <<>> \in Seq(S) /\ Len(<<>>) = 0 /\ Len(q) \in Nat
  BY LenProperties
<1>2. /\ l \in Seq(S) /\ Len(l) = 1 + Len(q)
      /\ \A i \in 1 .. Len(l) : l[i] = IF i <= 1 THEN s ELSE q[i - 1]
  BY <1>1, ConcatProperties
<1>3. l # <<>> /\ l[1] = s
  BY <1>1, <1>2, EmptySeq
<1>4. Head(l) = s /\ Len(Tail(l)) = Len(q) /\ Tail(l) \in Seq(S)
      /\ \A i \in 1 .. Len(q) : Tail(l)[i] = q[i]
  BY <1>1, <1>2, <1>3, HeadTailProperties
<1>5. Tail(l) = q
  BY <1>4, SeqEqual
<1>6. \A r \in S : Append(l, r) = <<s>> \o Append(q, r)
  BY <1>1, AppendIsConcat, ConcatAssociative
<1>7. \A i \in DOMAIN l : l[i] = s \/ \E j \in 1 .. Len(q) : l[i] = q[j]
  <2>1. SUFFICES ASSUME NEW i \in 1 .. Len(l), i # 1 PROVE \E j \in 1 .. Len(q) : l[i] = q[j]
    BY <1>2, <1>3, LenProperties
  <2>2. i - 1 \in 1 .. Len(q) /\ l[i] = q[i - 1]
    BY <1>1, <1>2, <2>1
  <2>3. QED
    BY <2>2
<1>8. <<>> \o q = q /\ <<s>> \o <<>> = <<s>>
  BY <1>1, ConcatEmptySeq
<1>9. QED
  BY <1>2, <1>3, <1>4, <1>5, <1>6, <1>7, <1>8

LEMMA HeadThenTail ==
  ASSUME NEW S, NEW q \in Seq(S), q # <<>>
  PROVE  q = <<Head(q)>> \o Tail(q)
<1> DEFINE h == Head(q)  t == Tail(q)
<1>1. /\ h \in S /\ t \in Seq(S) /\ h = q[1] /\ Len(t) = Len(q) - 1 /\ Len(q) \in Nat
      /\ \A i \in 1 .. Len(t) : t[i] = q[i + 1]
  BY TailAt
<1> HIDE DEF h, t
<1>2. /\ <<h>> \in Seq(S) /\ Len(<<h>>) = 1 /\ <<h>>[1] = h
  BY <1>1
<1>3. /\ <<h>> \o t \in Seq(S) /\ Len(<<h>> \o t) = 1 + Len(t)
      /\ \A i \in 1 .. Len(<<h>> \o t) : (<<h>> \o t)[i] = IF i <= 1 THEN <<h>>[i] ELSE t[i - 1]
  BY <1>1, <1>2, ConcatProperties
<1>4. \A i \in 1 .. Len(q) : q[i] = (<<h>> \o t)[i]
  BY <1>1, <1>2, <1>3
<1>5. q = <<h>> \o t
  <2>1. Len(q) = Len(<<h>> \o t)
    BY <1>1, <1>3
  <2>2. QED
    BY <1>3, <1>4, <2>1, SeqEqual
<1>6. QED
  BY <1>5 DEF h, t

LEMMA LineStep == Inv /\ Inv' /\ [Next]_vars => [Line!Next]_(Line!vars)
<1> SUFFICES ASSUME Inv, Inv', [Next]_vars PROVE [Line!Next]_(Line!vars)
  OBVIOUS
<1> USE TurnQueueAssumption DEF Move
<1>i. TypeOK /\ OneTurn /\ WaitingIsQueued /\ ClosedMeansEmpty /\ TypeOK' /\ queue \in Seq(Requests)
  BY DEF Inv, TypeOK
<1>s. /\ slot = NoTurn => InLine = queue /\ InLine = <<>> /\ queue = <<>>
      /\ slot # NoTurn => InLine = <<slot>> \o queue /\ slot \in Requests
  BY <1>i, ConcatEmptySeq DEF InLine, TypeOK, WaitingIsQueued
<1>l. ASSUME slot # NoTurn
      PROVE  /\ InLine # <<>> /\ Head(InLine) = slot /\ Tail(InLine) = queue
             /\ <<slot>> \o <<>> = <<slot>>
             /\ \A r \in Requests : Append(InLine, r) = <<slot>> \o Append(queue, r)
             /\ \A i \in DOMAIN InLine :
                   InLine[i] = slot \/ \E j \in 1 .. Len(queue) : InLine[i] = queue[j]
  <2>1. InLine = <<slot>> \o queue /\ slot \in Requests /\ queue \in Seq(Requests)
    BY <1>i, <1>s, <1>l
  <2> DEFINE l == <<slot>> \o queue
  <2>2. /\ l # <<>> /\ Head(l) = slot /\ Tail(l) = queue
        /\ <<slot>> \o <<>> = <<slot>>
        /\ \A r \in Requests : Append(l, r) = <<slot>> \o Append(queue, r)
        /\ \A i \in DOMAIN l : l[i] = slot \/ \E j \in 1 .. Len(queue) : l[i] = queue[j]
    <3>1. l # <<>>
      BY <2>1, LineShape
    <3>2. Head(l) = slot
      BY <2>1, LineShape
    <3>3. Tail(l) = queue
      BY <2>1, LineShape
    <3>4. <<slot>> \o <<>> = <<slot>>
      BY <2>1, LineShape
    <3>5. \A r \in Requests : Append(l, r) = <<slot>> \o Append(queue, r)
      BY <2>1, LineShape, SMTT(20)
    <3>6. \A i \in DOMAIN l : l[i] = slot \/ \E j \in 1 .. Len(queue) : l[i] = queue[j]
      BY <2>1, LineShape
    <3>7. QED
      BY <3>1, <3>2, <3>3, <3>4, <3>5, <3>6
  <2> HIDE DEF l
  <2>3. InLine = l
    BY <2>1 DEF l
  <2>4. QED
    BY ONLY <2>2, <2>3
<1>1. ASSUME NEW r \in Requests, SubmitStarts(r) PROVE Line!Join(r)
  <2>1. InLine = <<>> /\ queue = <<>> /\ queue' = <<>> /\ slot' = r /\ r # NoTurn
    BY <1>1, <1>s DEF SubmitStarts
  <2>2. InLine' = Append(InLine, r) /\ Line!Standing = {}
    BY <2>1, <1>i, LineShape DEF InLine, Line!Standing
  <2>3. r \notin Served /\ Served' = Served /\ ~closing /\ closing' = closing
    BY <1>1, <1>i DEF SubmitStarts, Served, TypeOK
  <2>4. QED
    BY <2>2, <2>3 DEF Line!Join
<1>2. ASSUME NEW r \in Requests, SubmitQueues(r) PROVE Line!Join(r)
  <2>1. InLine' = Append(InLine, r)
    BY <1>2, <1>l DEF SubmitQueues, InLine
  <2>2. r \notin Line!Standing
    <3>1. \A i \in 1 .. Len(queue) : queue[i] # r
      BY <1>2, <1>i DEF SubmitQueues, WaitingIsQueued
    <3>2. slot # r
      BY <1>2, <1>i DEF SubmitQueues, OneTurn, Live
    <3>3. QED
      BY <1>2, <1>l, <3>1, <3>2 DEF SubmitQueues, Line!Standing
  <2>3. r \notin Served /\ Served' = Served /\ ~closing /\ closing' = closing
    BY <1>2, <1>i DEF SubmitQueues, Served, TypeOK
  <2>4. QED
    BY <2>1, <2>2, <2>3 DEF Line!Join
<1>3. ASSUME NEW r \in Requests, FinishChains(r) PROVE Line!Serve
  <2>1. slot = r /\ slot # NoTurn /\ Head(queue) \in Requests /\ phase[Head(queue)] = "waiting"
    BY <1>3, <1>i, TailAt DEF FinishChains, OneTurn, Live, WaitingIsQueued
  <2>2. InLine' = Tail(InLine) /\ InLine # <<>> /\ Head(InLine) = r
    <3>1. queue = <<Head(queue)>> \o Tail(queue)
      BY <1>3, <1>i, HeadThenTail DEF FinishChains
    <3>2. InLine' = <<Head(queue)>> \o Tail(queue)
      BY <1>3, <2>1 DEF FinishChains, InLine
    <3>3. QED
      BY <1>l, <2>1, <3>1, <3>2
  <2>3. Served' = Served \cup {r} /\ closing' = closing
    BY <1>3, <1>i, <2>1 DEF FinishChains, Served, TypeOK
  <2>4. QED
    BY <2>2, <2>3 DEF Line!Serve
<1>4. ASSUME NEW r \in Requests, FinishReleases(r) PROVE Line!Serve
  <2>1. slot = r /\ slot # NoTurn /\ queue = <<>>
    BY <1>4, <1>i DEF FinishReleases, OneTurn, Live, ClosedMeansEmpty
  <2>2. InLine = <<r>> /\ InLine' = <<>>
    BY <1>4, <1>i, <1>s, <2>1, LineShape DEF FinishReleases, InLine
  <2>3. Served' = Served \cup {r} /\ closing' = closing
    BY <1>4, <1>i DEF FinishReleases, Served, TypeOK
  <2>4. Head(<<r>>) = r /\ Tail(<<r>>) = <<>> /\ <<r>> # <<>>
    OBVIOUS
  <2>5. QED
    BY <2>2, <2>3, <2>4 DEF Line!Serve
<1>5. CASE CancelReads \/ Close
  <2>1. InLine' = IF InLine = <<>> THEN <<>> ELSE <<Head(InLine)>>
    BY <1>5, <1>s, <1>l DEF CancelReads, Close, InLine
  <2>2. closing' \in {closing, TRUE}
    BY <1>5 DEF CancelReads, Close
  <2>3. Served' = Served
    BY <1>5, <1>i, DroppedWaits DEF CancelReads, Close, Served, TypeOK
  <2>4. QED
    BY <2>1, <2>2, <2>3 DEF Line!Next, Line!Drop
<1>6. ASSUME NEW r \in Requests,
             SubmitRejected(r) \/ CancelCalls(r) \/ AnnounceRunning(r) \/ Returns(r)
               \/ Report(r) \/ AnnounceIdle(r) \/ OnTurnEnd(r)
      PROVE  UNCHANGED Line!vars
  <2>1. slot' = slot /\ queue' = queue /\ closing' = closing
    BY <1>6 DEF SubmitRejected, CancelCalls, AnnounceRunning, Returns, Report, AnnounceIdle, OnTurnEnd
  <2>2. Served' = Served
    BY <1>6, <1>i DEF SubmitRejected, CancelCalls, AnnounceRunning, Returns, Report, AnnounceIdle,
       OnTurnEnd, Served, TypeOK, Outcome
  <2>3. QED
    BY <2>1, <2>2 DEF Line!vars, InLine
<1>7. CASE UNCHANGED vars
  BY <1>7 DEF vars, Line!vars, InLine, Served
<1>8. QED
  BY <1>1, <1>2, <1>3, <1>4, <1>5, <1>6, <1>7 DEF Next, TurnStep, RunStep, Start, Requests, Line!Next

(* Forgetting goroutines, locks and events, the queue is a line: turns are *)
(* served in the order their requests were accepted, and only Cancel and   *)
(* Close take a request out of it early.                                   *)
THEOREM QueueIsALine == Spec => ImplementsLine
<1>1. Init => Line!Init
  BY DEF Init, Line!Init, InLine, Served
<1>2. Inv /\ Inv' /\ [Next]_vars => [Line!Next]_(Line!vars)
  BY LineStep
<1>3. QED
  BY <1>1, <1>2, InductiveInvariant, PTL DEF Spec, ImplementsLine, Line!SafeSpec

(* One turn at a time, nobody stranded, and a cancel hits the turn it was  *)
(* meant for, for any number of requests.                                  *)
THEOREM QueueSound == Spec => []QueueIsSound
BY TypeCorrect, OneTurnAtATime, NoRequestStranded, OutcomesAreNested, CancelIsAimed, PTL
   DEF QueueIsSound

HIDE TurnQueueAssumption
-----------------------------------------------------------------------------
(* Seen from the queue, the trigger is one more caller.                    *)
LEMMA NexusIsQueueStep == [NexusNext]_allVars => [Next]_vars
<1> SUFFICES ASSUME [NexusNext]_allVars PROVE [Next]_vars
  OBVIOUS
<1>1. CASE QueueStep
  BY <1>1 DEF QueueStep, Next, TurnStep
<1>2. ASSUME NEW r \in Requests, QueueIdle(r) PROVE [Next]_vars
  BY <1>2 DEF QueueIdle, Next, TurnStep
<1>3. ASSUME NEW a \in Callers, FireStep(a) PROVE [Next]_vars
  BY <1>3 DEF FireStep, NothingPending, CopyPending, BuildPrompt, WakeStarts, WakeRefused, CrossOut,
     Next, queueVars
<1>4. ASSUME NEW c \in Channels, Ingest(c) \/ Suppress(c) \/ Notify(c) \/ CoolDown(c)
      PROVE  [Next]_vars
  BY <1>4 DEF Ingest, Suppress, Notify, CoolDown, queueVars
<1>5. CASE UNCHANGED allVars
  BY <1>5 DEF allVars, queueVars
<1>6. QED
  BY <1>1, <1>2, <1>3, <1>4, <1>5 DEF NexusNext

LEMMA QueueInvUnderNexus == NexusSpec => []Inv
<1>1. NexusInit => Inv
  BY InitInv DEF NexusInit
<1>2. Inv /\ [NexusNext]_allVars => Inv'
  BY InvStep, NexusIsQueueStep
<1>3. QED
  BY <1>1, <1>2, PTL DEF NexusSpec

(* The wakes that come from error channels never make two turns run.       *)
THEOREM OneTurnUnderNexus == NexusSpec => []OneTurn
BY QueueInvUnderNexus, PTL DEF Inv
-----------------------------------------------------------------------------
Ending(r) == phase[r] \in {"idling", "ending"}

LEMMA FlusherStep ==
  ASSUME Inv, NexusTypeOK, PendingHasAFlusher, [NexusNext]_allVars
  PROVE  PendingHasAFlusher'
<1> USE TurnQueueAssumption, NexusAssumption DEF Proceed
<1>t. /\ TypeOK /\ at \in [Callers -> Stops] /\ batch \in [Callers -> SUBSET Channels]
      /\ queue \in Seq(Requests) /\ phase \in [Requests -> Phases]
  BY DEF Inv, NexusTypeOK, TypeOK
<1>1. CASE QueueStep
  <2>1. UNCHANGED <<at, batch, pending, CrossedOutSoon>>
    BY <1>1 DEF QueueStep, triggerVars, CrossedOutSoon
  <2>2. slot' # NoTurn \/ closing' \/ (slot' = NoTurn /\ slot = NoTurn /\ closing' = closing
          /\ \A r \in Requests : Ending(r) => Ending(r)')
          \/ \E r \in Requests : Ending(r)'
    <3>1. ASSUME NEW r \in Queries, SubmitStarts(r) PROVE slot' # NoTurn
      BY <3>1 DEF SubmitStarts, Requests
    <3>2. ASSUME NEW r \in Queries, SubmitQueues(r) PROVE slot' # NoTurn
      BY <3>2 DEF SubmitQueues
    <3>3. ASSUME NEW r \in Queries, SubmitRejected(r) PROVE closing'
      BY <3>3 DEF SubmitRejected
    <3>4. ASSUME NEW r \in Requests, AnnounceRunning(r) \/ Returns(r) \/ Report(r)
          PROVE  slot' # NoTurn
      BY <3>4, <1>t DEF AnnounceRunning, Returns, Report, Move, Inv, OneTurn, Live, Outcome
    <3>5. ASSUME NEW r \in Requests, FinishChains(r) PROVE slot' # NoTurn
      BY <3>5, <1>t, TailAt DEF FinishChains
    <3>6. ASSUME NEW r \in Requests, FinishReleases(r) \/ AnnounceIdle(r) PROVE Ending(r)'
      BY <3>6, <1>t DEF FinishReleases, AnnounceIdle, Move, Ending
    <3>7. Close => closing'
      BY DEF Close
    <3>8. QED
      BY <1>1, <3>1, <3>2, <3>3, <3>4, <3>5, <3>6, <3>7 DEF QueueStep, RunStep
  <2>3. QED
    BY <2>1, <2>2 DEF PendingHasAFlusher, Flushing, Ending
<1>2. ASSUME NEW r \in Requests, QueueIdle(r) PROVE PendingHasAFlusher'
  <2>1. at'[r] = "fire" /\ r \in Callers
    BY <1>2, <1>t DEF QueueIdle, Callers
  <2>2. Flushing'
    BY <2>1 DEF Flushing
  <2>3. QED
    BY <2>2 DEF PendingHasAFlusher
<1>3. ASSUME NEW c \in Channels, Notify(c) PROVE PendingHasAFlusher'
  <2>1. c \in Callers
    BY DEF Callers
  <2>2. at'[c] \in {"fire", "prompt", "wake"}
    BY <1>3, <1>t, <2>1 DEF Notify
  <2>3. Flushing'
    BY <2>1, <2>2 DEF Flushing
  <2>4. QED
    BY <2>3 DEF PendingHasAFlusher
<1>4. ASSUME NEW c \in Channels, Ingest(c) \/ Suppress(c) \/ CoolDown(c) PROVE PendingHasAFlusher'
  <2>1. UNCHANGED <<slot, closing, phase, pending, batch>>
    BY <1>4 DEF Ingest, Suppress, CoolDown, queueVars, vars
  <2>2. \A a \in Callers : at[a] # "notify" /\ at[a] # "away" => at'[a] = at[a]
    BY <1>4, <1>t DEF Ingest, Suppress, CoolDown, Callers
  <2>3. CrossedOutSoon \subseteq CrossedOutSoon'
    BY <2>1, <2>2 DEF CrossedOutSoon
  <2>4. QED
    BY <2>1, <2>2, <2>3 DEF PendingHasAFlusher, Flushing
<1>5. ASSUME NEW a \in Callers, NothingPending(a) PROVE PendingHasAFlusher'
  BY <1>5 DEF NothingPending, PendingHasAFlusher
<1>6. ASSUME NEW a \in Callers, CopyPending(a) \/ BuildPrompt(a) PROVE PendingHasAFlusher'
  <2>1. at'[a] \in {"fire", "prompt", "wake"}
    BY <1>6, <1>t DEF CopyPending, BuildPrompt
  <2>2. Flushing'
    BY <2>1 DEF Flushing
  <2>3. QED
    BY <2>2 DEF PendingHasAFlusher
<1>7. ASSUME NEW a \in Callers, NEW w \in Wakes, WakeStarts(a, w) PROVE PendingHasAFlusher'
  <2>1. slot' # NoTurn
    BY <1>7 DEF WakeStarts, Start, SubmitStarts, Requests
  <2>2. QED
    BY <2>1 DEF PendingHasAFlusher
<1>8. ASSUME NEW a \in Callers, WakeRefused(a) PROVE PendingHasAFlusher'
  BY <1>8 DEF WakeRefused, queueVars, vars, PendingHasAFlusher
<1>9. ASSUME NEW a \in Callers, CrossOut(a) PROVE PendingHasAFlusher'
  <2>1. /\ UNCHANGED <<slot, closing, phase>> /\ pending' = pending \ batch[a]
        /\ at[a] = "woke" /\ at'[a] = "away"
        /\ \A b \in Callers : b # a => at'[b] = at[b] /\ batch'[b] = batch[b]
    BY <1>9, <1>t DEF CrossOut, Forget, queueVars, vars
  <2>2. ASSUME NEW x \in pending', x \in CrossedOutSoon PROVE x \in CrossedOutSoon'
    <3>1. PICK b \in Callers : at[b] = "woke" /\ x \in batch[b]
      BY <2>2 DEF CrossedOutSoon
    <3>2. b # a
      BY <2>1, <2>2, <3>1
    <3>3. at'[b] = "woke" /\ x \in batch'[b]
      BY <2>1, <3>1, <3>2
    <3>4. QED
      BY <3>3 DEF CrossedOutSoon
  <2>3. CASE pending \subseteq CrossedOutSoon
    BY <2>1, <2>2, <2>3 DEF PendingHasAFlusher
  <2>4. CASE Flushing
    <3>1. PICK b \in Callers : at[b] \in {"fire", "prompt", "wake"}
      BY <2>4 DEF Flushing
    <3>2. at'[b] \in {"fire", "prompt", "wake"}
      <4>1. b # a
        BY <2>1, <3>1
      <4>2. at'[b] = at[b]
        BY <2>1, <4>1
      <4>3. QED
        BY <3>1, <4>2
    <3>3. Flushing'
      BY <3>2 DEF Flushing
    <3>4. QED
      BY <3>3 DEF PendingHasAFlusher
  <2>5. CASE slot # NoTurn \/ closing \/ \E r \in Requests : phase[r] \in {"idling", "ending"}
    BY <2>1, <2>5 DEF PendingHasAFlusher
  <2>6. QED
    BY <2>3, <2>4, <2>5 DEF PendingHasAFlusher
<1>10. CASE UNCHANGED allVars
  BY <1>10 DEF allVars, queueVars, vars, triggerVars, PendingHasAFlusher, Flushing, CrossedOutSoon
<1>11. QED
  BY <1>1, <1>2, <1>3, <1>4, <1>5, <1>6, <1>7, <1>8, <1>9, <1>10 DEF NexusNext, FireStep

LEMMA NexusTypeStep == NexusTypeOK /\ [NexusNext]_allVars => NexusTypeOK'
<1> SUFFICES ASSUME NexusTypeOK, [NexusNext]_allVars PROVE NexusTypeOK'
  OBVIOUS
<1> USE DEF NexusTypeOK, Proceed, Stops, triggerVars
<1>1. ASSUME NEW c \in Channels, Ingest(c) \/ Suppress(c) \/ Notify(c) \/ CoolDown(c)
      PROVE  NexusTypeOK'
  <2>1. c \in Callers
    BY DEF Callers
  <2>2. at' \in [Callers -> Stops]
    BY <1>1, <2>1 DEF Ingest, Suppress, Notify, CoolDown
  <2>3. errs' \in [Channels -> Nat]
    BY <1>1 DEF Ingest, Suppress, Notify, CoolDown
  <2>7. noted' \in [Channels -> Nat]
    BY <1>1 DEF Ingest, Suppress, Notify, CoolDown
  <2>4. cooling' \subseteq Channels /\ pending' \subseteq Channels
    BY <1>1 DEF Ingest, Suppress, Notify, CoolDown
  <2>5. UNCHANGED <<told, batch, quoted, woken>>
    BY <1>1 DEF Ingest, Suppress, Notify, CoolDown
  <2>6. QED
    BY <2>2, <2>3, <2>4, <2>5, <2>7
<1>2. ASSUME NEW a \in Callers, NothingPending(a) \/ CopyPending(a) \/ BuildPrompt(a)
      PROVE  NexusTypeOK'
  BY <1>2 DEF NothingPending, CopyPending, BuildPrompt
<1>3. ASSUME NEW a \in Callers, NEW w \in Wakes, WakeStarts(a, w) PROVE NexusTypeOK'
  BY <1>3 DEF WakeStarts, Requests
<1>4. ASSUME NEW a \in Callers, WakeRefused(a) \/ CrossOut(a) PROVE NexusTypeOK'
  <2>1. at' \in [Callers -> Stops] /\ pending' \subseteq Channels
    BY <1>4 DEF WakeRefused, CrossOut
  <2>2. batch' \in [Callers -> SUBSET Channels]
    BY <1>4 DEF WakeRefused, CrossOut, Forget
  <2>3. quoted' \in [Callers -> [Channels -> Nat]]
    <3>1. NoLines \in [Channels -> Nat]
      BY DEF NoLines
    <3>2. QED
      BY <1>4, <3>1 DEF WakeRefused, CrossOut, Forget
  <2>4. woken' \in [Callers -> Requests \cup {NoTurn}]
    BY <1>4 DEF WakeRefused, CrossOut, Forget
  <2>5. UNCHANGED <<errs, cooling, noted, told>>
    BY <1>4 DEF WakeRefused, CrossOut
  <2>6. QED
    BY <2>1, <2>2, <2>3, <2>4, <2>5
<1>5. ASSUME NEW r \in Requests, QueueIdle(r) PROVE NexusTypeOK'
  BY <1>5 DEF QueueIdle, Callers
<1>6. CASE QueueStep \/ UNCHANGED allVars
  BY <1>6 DEF QueueStep, allVars
<1>7. QED
  BY <1>1, <1>2, <1>3, <1>4, <1>5, <1>6 DEF NexusNext, FireStep

(* The trigger's variables stay of their types.                            *)
THEOREM NexusTypeCorrect == NexusSpec => []NexusTypeOK
<1>1. NexusInit => NexusTypeOK
  BY DEF NexusInit, NexusTypeOK, Stops
<1>2. QED
  BY <1>1, NexusTypeStep, PTL DEF NexusSpec

(* A notify that finds the agent busy and a turn end that finds nothing    *)
(* pending cannot miss each other, however many channels and turns.        *)
THEOREM NoPendingChannelStranded == NexusSpec => []PendingHasAFlusher
<1>1. NexusInit => PendingHasAFlusher
  BY DEF NexusInit, PendingHasAFlusher
<1>2. QED
  BY <1>1, FlusherStep, QueueInvUnderNexus, NexusTypeCorrect, PTL DEF NexusSpec

(* A channel with a pending message always has somebody to flush it.       *)
THEOREM WakeSound == NexusSpec => []WakeIsSound
BY NexusTypeCorrect, NoPendingChannelStranded, PTL DEF WakeIsSound
-----------------------------------------------------------------------------
(***************************************************************************)
(* A command source, for any sizes of pipe and any waits.                  *)
(***************************************************************************)

(* Every variable of the command source, of its type.                      *)
CommandTypes ==
  /\ runner \in {"spawn", "reading", "closing", "waiting", "ended", "restarting", "stopped"}
  /\ process \in [Processes -> {"none", "running", "gone"}]
  /\ blocked \in [Processes -> Streams \cup {"no"}]
  /\ pipe \in [Streams -> Seq(Outputs)]
  /\ scanner \in [Streams -> {"off", "scanning"}]
  /\ cancelled \in BOOLEAN /\ overlong \in BOOLEAN
  /\ backoff \in Nat /\ uncapped \in Nat

(* A process that writes is alive, and the pipe it writes to is not over   *)
(* its size.                                                               *)
WritersInv ==
  /\ \A p \in Processes : blocked[p] # "no" => Running(p)
  /\ \A s \in Streams : Len(pipe[s]) <= PipeSize

(* What a scanner that is done with its stream leaves behind: nothing,     *)
(* neither a line nor somebody to write one, unless a line was too long.   *)
ScannedInv ==
  /\ ~overlong => \A s \in Streams : \A i \in 1 .. Len(pipe[s]) : pipe[s][i] # "long"
  /\ runner \in {"reading", "waiting"} /\ ~overlong =>
       \A s \in Streams : scanner[s] = "off" => Writers = {} /\ pipe[s] = <<>>
  /\ runner = "closing" => Writers = {} /\ \A s \in Streams : pipe[s] = <<>>
  /\ runner \in {"closing", "waiting"} => \A s \in Streams : scanner[s] = "off"
  /\ ~lost /\ ~strays

Lesser(a, b) == IF a <= b THEN a ELSE b

(* The wait, before the next restart and during it.                        *)
WaitInv ==
  /\ backoff >= Base /\ backoff <= Cap
  /\ uncapped # 0 => uncapped >= Base
  /\ runner = "restarting" => uncapped # 0 /\ backoff = Lesser(Cap, uncapped)
  /\ runner \notin {"restarting", "stopped"} =>
       backoff = IF uncapped = 0 THEN Base ELSE Lesser(Cap, 2 * uncapped)

CommandInv == CommandTypes /\ WritersInv /\ ScannedInv /\ WaitInv
-----------------------------------------------------------------------------
(* The least of two numbers, as the source's Min takes it.                 *)
LEMMA MinOfTwo ==
  ASSUME NEW a \in Nat, NEW b \in Nat
  PROVE  Min({a, b}) = Lesser(a, b)
<1>1. Lesser(a, b) \in {a, b} /\ \A y \in {a, b} : Lesser(a, b) <= y
  BY DEF Lesser
<1>2. \A x \in {a, b} : (\A y \in {a, b} : x <= y) => x = Lesser(a, b)
  BY DEF Lesser
<1>3. QED
  BY <1>1, <1>2 DEF Min

(* What the invariant says of the source.                                  *)
LEMMA CommandInvIsKept == CommandInv => CommandIsKept
<1> SUFFICES ASSUME CommandInv PROVE CommandIsKept
  OBVIOUS
<1>1. CommandTypeOK /\ OutputIsRead /\ NoStrays
  BY CommandAssumption DEF CommandInv, CommandTypes, WritersInv, ScannedInv, WaitInv, CommandTypeOK,
     OutputIsRead, NoStrays
<1>2. Cap \in Nat /\ uncapped \in Nat
  BY CommandAssumption DEF CommandInv, CommandTypes
<1>3. WaitsGrow
  BY <1>2, MinOfTwo DEF CommandInv, WaitInv, WaitsGrow
<1>4. QED
  BY <1>1, <1>3 DEF CommandIsKept

(* Nothing runs and nothing was waited for at the start.                   *)
LEMMA CommandBegins == CommandInit => CommandInv
<1> SUFFICES ASSUME CommandInit PROVE CommandInv
  OBVIOUS
<1>1. <<>> \in Seq(Outputs) /\ Len(<<>>) = 0
  BY EmptySeq
<1>2. CommandTypes
  BY <1>1, CommandAssumption DEF CommandInit, CommandTypes, Still, Empty
<1>3. WritersInv /\ ScannedInv /\ WaitInv
  BY <1>1, CommandAssumption DEF CommandInit, WritersInv, ScannedInv, WaitInv, Still, Empty, Running
<1>4. QED
  BY <1>2, <1>3 DEF CommandInv

(* A process forks, begins a write or exits.                               *)
LEMMA ProcessMoves ==
  ASSUME CommandInv, NEW p \in Processes, NEW s \in Streams, Fork \/ BeginWrite(p, s) \/ Exit(p)
  PROVE  CommandInv'
<1>i. CommandTypes /\ WritersInv /\ ScannedInv /\ WaitInv
  BY DEF CommandInv
<1>u. UNCHANGED <<runner, pipe, overlong, scanner, cancelled, backoff, uncapped, lost, strays>>
  BY DEF Fork, BeginWrite, Exit
<1>1. CommandTypes'
  BY <1>i, <1>u DEF CommandTypes, Fork, BeginWrite, Exit, Processes
<1>2. WritersInv'
  BY <1>i, <1>u DEF CommandTypes, WritersInv, Fork, BeginWrite, Exit, Running, Processes
<1>3. Writers = {} => Writers' = {}
  BY <1>i DEF CommandTypes, Writers, Running, Fork, BeginWrite, Exit, Processes
<1>4. ScannedInv'
  BY <1>i, <1>u, <1>3 DEF ScannedInv
<1>5. WaitInv'
  BY <1>i, <1>u DEF WaitInv
<1>6. QED
  BY <1>1, <1>2, <1>4, <1>5 DEF CommandInv

(* A line gets into the pipe.                                              *)
LEMMA EndWriteStep ==
  ASSUME CommandInv, NEW p \in Processes, NEW s \in Streams, NEW sort \in Outputs,
         EndWrite(p, s, sort)
  PROVE  CommandInv'
<1>i. CommandTypes /\ WritersInv /\ ScannedInv /\ WaitInv
  BY DEF CommandInv
<1>u. /\ Running(p) /\ Len(pipe[s]) < PipeSize
      /\ blocked' = [blocked EXCEPT ![p] = "no"]
      /\ pipe' = [pipe EXCEPT ![s] = Append(@, sort)]
      /\ overlong' = (overlong \/ sort = "long")
      /\ UNCHANGED <<runner, process, scanner, cancelled, backoff, uncapped, lost, strays>>
  BY DEF EndWrite
<1>1. /\ pipe[s] \in Seq(Outputs) /\ Append(pipe[s], sort) \in Seq(Outputs)
      /\ Len(pipe[s]) \in Nat /\ Len(Append(pipe[s], sort)) = Len(pipe[s]) + 1
      /\ \A i \in 1 .. Len(pipe[s]) : Append(pipe[s], sort)[i] = pipe[s][i]
      /\ Append(pipe[s], sort)[Len(pipe[s]) + 1] = sort
  BY <1>i, AppendProperties, LenProperties DEF CommandTypes
<1>2. /\ pipe'[s] = Append(pipe[s], sort)
      /\ \A z \in Streams : z # s => pipe'[z] = pipe[z]
      /\ pipe' \in [Streams -> Seq(Outputs)]
  BY <1>i, <1>u, <1>1 DEF CommandTypes
<1>3. CommandTypes'
  BY <1>i, <1>u, <1>2 DEF CommandTypes
<1>4. WritersInv'
  <2>1. \A z \in Streams : Len(pipe'[z]) <= PipeSize
    BY <1>i, <1>u, <1>1, <1>2, CommandAssumption DEF WritersInv
  <2>2. \A z \in Processes : blocked'[z] # "no" => Running(z)'
    BY <1>i, <1>u DEF CommandTypes, WritersInv, Running
  <2>3. QED
    BY <2>1, <2>2 DEF WritersInv
<1>5. p \in Writers /\ Writers # {}
  BY <1>u DEF Writers
<1>6. ScannedInv'
  <2>1. ASSUME ~overlong', NEW z \in Streams, NEW i \in 1 .. Len(pipe'[z]) PROVE pipe'[z][i] # "long"
    <3>1. CASE z # s
      BY <1>i, <1>u, <1>2, <2>1, <3>1 DEF ScannedInv
    <3>2. CASE z = s
      <4>1. i = Len(pipe[s]) + 1 \/ i \in 1 .. Len(pipe[s])
        BY <1>1, <1>2, <2>1, <3>2
      <4>2. ~overlong /\ sort # "long"
        BY <1>u, <2>1
      <4>3. CASE i = Len(pipe[s]) + 1
        BY <1>1, <1>2, <3>2, <4>2, <4>3
      <4>4. CASE i \in 1 .. Len(pipe[s])
        BY <1>i, <1>1, <1>2, <3>2, <4>2, <4>4 DEF ScannedInv
      <4>5. QED
        BY <4>1, <4>3, <4>4
    <3>3. QED
      BY <3>1, <3>2
  <2>2. runner # "closing" /\ (runner \in {"reading", "waiting"} /\ ~overlong => \A z \in Streams : scanner[z] # "off")
    BY <1>i, <1>5 DEF ScannedInv
  <2>3. ~overlong' => ~overlong
    BY <1>i, <1>u DEF CommandTypes
  <2>4. QED
    BY <1>i, <1>u, <2>1, <2>2, <2>3 DEF ScannedInv
<1>7. WaitInv'
  BY <1>i, <1>u DEF WaitInv
<1>8. QED
  BY <1>3, <1>4, <1>6, <1>7 DEF CommandInv

(* The command is started, or cannot be.                                   *)
LEMMA SpawnStep ==
  ASSUME CommandInv, Spawn
  PROVE  CommandInv'
<1>i. CommandTypes /\ WritersInv /\ ScannedInv /\ WaitInv
  BY DEF CommandInv
<1>u. /\ runner = "spawn" /\ runner' \in {"reading", "ended"}
      /\ \/ /\ runner' = "reading"
            /\ process' = [process EXCEPT !["leader"] = "running", !["child"] = "none"]
            /\ scanner' = [s \in Streams |-> "scanning"]
         \/ runner' = "ended" /\ UNCHANGED <<process, scanner>>
      /\ blocked' = Still /\ pipe' = Empty /\ overlong' = FALSE
      /\ UNCHANGED <<cancelled, backoff, uncapped, lost, strays>>
  BY DEF Spawn
<1>1. <<>> \in Seq(Outputs) /\ Len(<<>>) = 0 /\ PipeSize >= 0 /\ \A s \in Streams : pipe'[s] = <<>>
  BY <1>u, EmptySeq, CommandAssumption DEF Empty
<1>2. pipe' \in [Streams -> Seq(Outputs)] /\ blocked' \in [Processes -> Streams \cup {"no"}]
      /\ \A p \in Processes : blocked'[p] = "no"
  BY <1>u, <1>1 DEF Empty, Still
<1>3. CommandTypes'
  BY <1>i, <1>u, <1>2 DEF CommandTypes
<1>4. WritersInv'
  BY <1>1, <1>2 DEF WritersInv
<1>5. ScannedInv'
  BY <1>i, <1>u, <1>1 DEF ScannedInv
<1>6. WaitInv'
  BY <1>i, <1>u DEF WaitInv
<1>7. QED
  BY <1>3, <1>4, <1>5, <1>6 DEF CommandInv

(* A scanner takes a line, gives up on one, or is at the end.              *)
LEMMA ScanStep ==
  ASSUME CommandInv, NEW s \in Streams, Scan(s) \/ EndOfStream(s)
  PROVE  CommandInv'
<1>i. CommandTypes /\ WritersInv /\ ScannedInv /\ WaitInv
  BY DEF CommandInv
<1>u. /\ scanner[s] = "scanning"
      /\ UNCHANGED <<runner, process, blocked, overlong, cancelled, backoff, uncapped, lost, strays>>
  BY DEF Scan, EndOfStream, world
<1>0. pipe[s] \in Seq(Outputs) /\ Len(pipe[s]) \in Nat
  BY <1>i, LenProperties DEF CommandTypes
<1>w. WaitInv' /\ Writers' = Writers
  BY <1>i, <1>u DEF WaitInv, Writers, Running
<1>c. runner \notin {"closing", "waiting"}
  BY <1>i, <1>u DEF ScannedInv
<1>1. CASE UNCHANGED pipe /\ scanner' = [scanner EXCEPT ![s] = "off"]
           /\ (overlong \/ (Writers = {} /\ pipe[s] = <<>>))
  <2>1. CommandTypes' /\ WritersInv'
    BY <1>i, <1>u, <1>1 DEF CommandTypes, WritersInv, Running
  <2>2. ScannedInv'
    BY <1>i, <1>u, <1>w, <1>c, <1>1 DEF ScannedInv, CommandTypes
  <2>3. QED
    BY <1>w, <2>1, <2>2 DEF CommandInv
<1>2. CASE UNCHANGED scanner /\ pipe' = [pipe EXCEPT ![s] = Tail(@)] /\ pipe[s] # <<>>
  <2>1. /\ Tail(pipe[s]) \in Seq(Outputs) /\ Len(Tail(pipe[s])) = Len(pipe[s]) - 1
        /\ \A i \in 1 .. Len(Tail(pipe[s])) : Tail(pipe[s])[i] = pipe[s][i + 1]
    BY <1>0, <1>2, HeadTailProperties
  <2>2. /\ pipe'[s] = Tail(pipe[s]) /\ \A z \in Streams : z # s => pipe'[z] = pipe[z]
        /\ pipe' \in [Streams -> Seq(Outputs)]
    BY <1>i, <1>2, <2>1 DEF CommandTypes
  <2>3. CommandTypes'
    BY <1>i, <1>u, <1>2, <2>2 DEF CommandTypes
  <2>4. WritersInv'
    <3>1. Len(pipe'[s]) <= PipeSize
      BY <1>i, <1>0, <2>1, <2>2, CommandAssumption DEF WritersInv
    <3>2. QED
      BY <1>i, <1>u, <2>2, <3>1 DEF WritersInv, Running
  <2>5. ASSUME ~overlong, NEW i \in 1 .. Len(pipe'[s]) PROVE pipe'[s][i] # "long"
    <3>1. i + 1 \in 1 .. Len(pipe[s]) /\ pipe'[s][i] = pipe[s][i + 1]
      BY <1>0, <2>1, <2>2, <2>5
    <3>2. QED
      BY <1>i, <2>5, <3>1 DEF ScannedInv
  <2>6. ScannedInv'
    BY <1>i, <1>u, <1>w, <1>c, <1>2, <2>2, <2>5 DEF ScannedInv
  <2>7. QED
    BY <1>w, <2>3, <2>4, <2>6 DEF CommandInv
<1>3. QED
  <2>1. CASE EndOfStream(s)
    BY <1>1, <2>1 DEF EndOfStream, world
  <2>2. CASE Scan(s) /\ Head(pipe[s]) # "long"
    BY <1>2, <2>2 DEF Scan
  <2>3. CASE Scan(s) /\ Head(pipe[s]) = "long"
    <3>1. 1 \in 1 .. Len(pipe[s]) /\ pipe[s][1] = "long"
      BY <1>0, <2>3, EmptySeq, HeadTailProperties DEF Scan
    <3>2. overlong
      BY <1>i, <3>1 DEF ScannedInv
    <3>3. UNCHANGED pipe /\ scanner' = [scanner EXCEPT ![s] = "off"]
      BY <2>3 DEF Scan
    <3>4. QED
      BY <1>1, <3>2, <3>3
  <2>4. QED
    BY <2>1, <2>2, <2>3

(* A cancel kills the command, and the group while its output is read.     *)
LEMMA KillStep ==
  ASSUME CommandInv, ContextKill \/ KillGroup
  PROVE  CommandInv'
<1>i. CommandTypes /\ WritersInv /\ ScannedInv /\ WaitInv
  BY DEF CommandInv
<1>k. PICK who \in {{"leader"}, Processes} : Killed(who) /\ (KillGroup => who = Processes)
  BY DEF ContextKill, KillGroup
<1>1. /\ process' \in [Processes -> {"none", "running", "gone"}]
      /\ blocked' \in [Processes -> Streams \cup {"no"}]
      /\ \A p \in Processes : blocked'[p] # "no" => Running(p)'
      /\ Writers = {} => Writers' = {}
      /\ who = Processes => Writers' = {}
  BY <1>i, <1>k DEF CommandTypes, WritersInv, Killed, Running, Writers
<1>2. CASE ContextKill
  <2>u. UNCHANGED <<runner, pipe, overlong, scanner, cancelled, backoff, uncapped, lost, strays>>
    BY <1>2 DEF ContextKill
  <2>1. CommandTypes' /\ WritersInv'
    BY <1>i, <1>1, <2>u DEF CommandTypes, WritersInv
  <2>2. ScannedInv' /\ WaitInv'
    BY <1>i, <1>1, <2>u DEF ScannedInv, WaitInv
  <2>3. QED
    BY <2>1, <2>2 DEF CommandInv
<1>3. CASE KillGroup
  <2>u. /\ runner = "reading" /\ runner' = "closing" /\ pipe' = Empty
        /\ scanner' = [s \in Streams |-> "off"]
        /\ UNCHANGED <<overlong, cancelled, backoff, uncapped, lost, strays>>
    BY <1>3 DEF KillGroup
  <2>0. <<>> \in Seq(Outputs) /\ Len(<<>>) = 0 /\ PipeSize >= 0 /\ \A s \in Streams : pipe'[s] = <<>>
    BY <2>u, EmptySeq, CommandAssumption DEF Empty
  <2>1. CommandTypes' /\ WritersInv'
    BY <1>i, <1>1, <2>u, <2>0 DEF CommandTypes, WritersInv, Empty
  <2>2. ScannedInv'
    BY <1>i, <1>k, <1>1, <1>3, <2>u, <2>0 DEF ScannedInv
  <2>3. WaitInv'
    BY <1>i, <2>u DEF WaitInv
  <2>4. QED
    BY <2>1, <2>2, <2>3 DEF CommandInv
<1>4. QED
  BY <1>2, <1>3

(* The command is reaped, with whatever it has left.                       *)
LEMMA ReapStep ==
  ASSUME CommandInv, Reap
  PROVE  CommandInv'
<1>i. CommandTypes /\ WritersInv /\ ScannedInv /\ WaitInv
  BY DEF CommandInv
<1>u. /\ runner = "waiting" /\ runner' = "ended" /\ Killed(Processes) /\ pipe' = Empty
      /\ lost' = (lost \/ (~cancelled /\ ~overlong /\ \E s \in Streams : pipe[s] # <<>>))
      /\ strays' = (strays \/ (~overlong /\ Running("child")))
      /\ scanner' = [s \in Streams |-> "off"]
      /\ UNCHANGED <<overlong, cancelled, backoff, uncapped>>
  BY DEF Reap
<1>0. <<>> \in Seq(Outputs) /\ Len(<<>>) = 0 /\ PipeSize >= 0 /\ \A s \in Streams : pipe'[s] = <<>>
  BY <1>u, EmptySeq, CommandAssumption DEF Empty
<1>1. /\ process' \in [Processes -> {"none", "running", "gone"}]
      /\ blocked' \in [Processes -> Streams \cup {"no"}]
      /\ \A p \in Processes : blocked'[p] # "no" => Running(p)'
  BY <1>i, <1>u DEF CommandTypes, WritersInv, Killed, Running
<1>2. CommandTypes' /\ WritersInv'
  BY <1>i, <1>u, <1>0, <1>1 DEF CommandTypes, WritersInv, Empty
<1>3. ~overlong => Writers = {} /\ \A s \in Streams : pipe[s] = <<>>
  BY <1>i, <1>u DEF ScannedInv, Streams
<1>4. ~lost' /\ ~strays'
  BY <1>i, <1>u, <1>3 DEF ScannedInv, Writers, Processes
<1>5. ScannedInv'
  BY <1>u, <1>0, <1>4 DEF ScannedInv
<1>6. WaitInv'
  BY <1>i, <1>u DEF WaitInv
<1>7. QED
  BY <1>2, <1>5, <1>6 DEF CommandInv

(* The output is read, the pipes are closed, the wait is chosen, over or   *)
(* given up.                                                               *)
LEMMA CommandWaits ==
  ASSUME CommandInv, \/ OutputRead \/ Closed \/ Restart \/ Stopped \/ Cancel
                     \/ \E healthy \in BOOLEAN : Again(healthy)
  PROVE  CommandInv'
<1>i. CommandTypes /\ WritersInv /\ ScannedInv /\ WaitInv
  BY DEF CommandInv
<1>n. Base \in Nat /\ Base >= 1 /\ Cap \in Nat /\ Base <= Cap /\ backoff \in Nat /\ uncapped \in Nat
  BY <1>i, CommandAssumption DEF CommandTypes
<1>u. UNCHANGED <<process, blocked, pipe, overlong, scanner, lost, strays>>
  BY DEF OutputRead, Closed, Restart, Stopped, Cancel, Again, world
<1>w. WritersInv' /\ Writers' = Writers
  BY <1>i, <1>u DEF WritersInv, Writers, Running
<1>1. CASE OutputRead \/ Closed
  <2>u. /\ runner \in {"reading", "closing"} /\ runner' = "waiting"
        /\ \A s \in Streams : scanner[s] = "off"
        /\ UNCHANGED <<cancelled, backoff, uncapped>>
    BY <1>1 DEF OutputRead, Closed, ScannersDone
  <2>1. CommandTypes' /\ WaitInv'
    BY <1>i, <1>u, <2>u DEF CommandTypes, WaitInv
  <2>2. ScannedInv'
    BY <1>i, <1>u, <1>w, <2>u DEF ScannedInv
  <2>3. QED
    BY <1>w, <2>1, <2>2 DEF CommandInv
<1>2. ASSUME NEW healthy \in BOOLEAN, Again(healthy) PROVE CommandInv'
  <2>u. /\ runner = "ended" /\ runner' = "restarting"
        /\ backoff' = IF healthy THEN Base ELSE backoff
        /\ uncapped' = IF healthy \/ uncapped = 0 THEN Base ELSE 2 * uncapped
        /\ UNCHANGED cancelled
    BY <1>2 DEF Again
  <2>1. CommandTypes'
    BY <1>i, <1>n, <1>u, <2>u DEF CommandTypes
  <2>2. ScannedInv'
    BY <1>i, <1>u, <1>w, <2>u DEF ScannedInv
  <2>3. WaitInv'
    BY <1>i, <1>n, <2>u DEF WaitInv, Lesser
  <2>4. QED
    BY <1>w, <2>1, <2>2, <2>3 DEF CommandInv
<1>3. CASE Restart
  <2>u. /\ runner = "restarting" /\ runner' = "spawn" /\ backoff' = Doubled
        /\ UNCHANGED <<cancelled, uncapped>>
    BY <1>3 DEF Restart
  <2>0. 2 * backoff \in Nat
    BY <1>n
  <2>d. backoff' = Lesser(2 * backoff, Cap)
    BY <1>n, <2>u, <2>0, MinOfTwo DEF Doubled
  <2>1. CommandTypes'
    BY <1>i, <1>n, <1>u, <2>u, <2>d DEF CommandTypes, Lesser
  <2>2. ScannedInv'
    BY <1>i, <1>u, <1>w, <2>u DEF ScannedInv
  <2>3. WaitInv'
    BY <1>i, <1>n, <2>u, <2>d DEF WaitInv, Lesser
  <2>4. QED
    BY <1>w, <2>1, <2>2, <2>3 DEF CommandInv
<1>4. CASE Stopped \/ Cancel
  <2>u. /\ runner' \in {runner, "stopped"} /\ cancelled' \in BOOLEAN
        /\ UNCHANGED <<backoff, uncapped>>
    BY <1>i, <1>4 DEF Stopped, Cancel, CommandTypes
  <2>1. CommandTypes'
    BY <1>i, <1>u, <2>u DEF CommandTypes
  <2>2. ScannedInv' /\ WaitInv'
    BY <1>i, <1>u, <1>w, <2>u DEF ScannedInv, WaitInv
  <2>3. QED
    BY <1>w, <2>1, <2>2 DEF CommandInv
<1>5. QED
  BY <1>1, <1>2, <1>3, <1>4

(* Every step of the source and its processes.                             *)
LEMMA CommandStep == CommandInv /\ [CommandNext]_commandVars => CommandInv'
<1> SUFFICES ASSUME CommandInv, [CommandNext]_commandVars PROVE CommandInv'
  OBVIOUS
<1>1. CASE UNCHANGED commandVars
  BY <1>1 DEF CommandInv, commandVars, world, CommandTypes, WritersInv, ScannedInv, WaitInv, Writers,
     Running
<1>2. "leader" \in Processes /\ "stdout" \in Streams
  BY DEF Processes, Streams
<1>3. QED
  BY <1>1, <1>2, ProcessMoves, EndWriteStep, SpawnStep, ScanStep, KillStep, ReapStep, CommandWaits
     DEF CommandNext, RunnerStep, ScannerStep, ProcessStep

(* Unless a line was too long, all that a command source                   *)
(* (source_command.go) prints before its end is read and no process that   *)
(* holds its pipes outlives its incarnation; and its restarts wait as long *)
(* as the doubling says, for any pipe, base and cap, and whatever its      *)
(* processes do.                                                           *)
THEOREM CommandStaysKept == CommandSpec => []CommandIsKept
BY CommandBegins, CommandStep, CommandInvIsKept, PTL DEF CommandSpec
-----------------------------------------------------------------------------
(* The rings and the sources of the channels.                              *)
(* The message with number j of a channel's history, as a ring holds it.   *)
Item(L, j) == [seq |-> j - 1, text |-> L[j], isError |-> L[j] = "failed"]

FailedOf(L, n, count) == {j \in n - count + 1 .. n : L[j] = "failed"}

(* A ring of this size after the messages L.                               *)
RingShape(r, size) ==
  /\ r = [entries |-> r.entries, size |-> size, start |-> r.start, count |-> r.count,
          nextSeq |-> r.nextSeq, errCount |-> r.errCount]
  /\ r.start \in 0 .. size - 1 /\ r.count \in 0 .. size
  /\ r.nextSeq \in Nat /\ r.errCount \in Int
  /\ r.entries = [p \in 0 .. size - 1 |-> r.entries[p]]

RingOf(r, L, size) ==
  /\ RingShape(r, size)
  /\ r.nextSeq = Len(L)
  /\ r.count = IF Len(L) <= size THEN Len(L) ELSE size
  /\ \A k \in 1 .. r.count :
       r.entries[(r.start + k - 1) % size] = Item(L, Len(L) - r.count + k)
  /\ r.errCount = Cardinality(FailedOf(L, Len(L), r.count))

LEMMA NewRingIsOne ==
  ASSUME NEW size \in Nat \ {0} PROVE RingOf(NewRing(size), <<>>, size)
<1>1. FailedOf(<<>>, 0, 0) = {} /\ Cardinality({}) = 0
  BY FS_EmptySet DEF FailedOf
<1>2. QED
  BY <1>1 DEF RingOf, RingShape, NewRing

LEMMA Wraps ==
  ASSUME NEW size \in Nat \ {0}, NEW x \in 0 .. 2 * size - 1
  PROVE  x % size = IF x < size THEN x ELSE x - size
OBVIOUS

LEMMA FailedFinite ==
  ASSUME NEW L, NEW n \in Nat, NEW c \in 0 .. n
  PROVE  /\ IsFiniteSet(FailedOf(L, n, c)) /\ Cardinality(FailedOf(L, n, c)) \in 0 .. c
<1>1. IsFiniteSet(n - c + 1 .. n) /\ Cardinality(n - c + 1 .. n) = c
  <2>1. n - c + 1 \in Int /\ n \in Int
    OBVIOUS
  <2>2. QED
    BY <2>1, FS_Interval
<1>2. FailedOf(L, n, c) \subseteq n - c + 1 .. n
  BY DEF FailedOf
<1>3. IsFiniteSet(FailedOf(L, n, c)) /\ Cardinality(FailedOf(L, n, c)) <= c
  BY <1>1, <1>2, FS_Subset
<1>4. QED
  BY <1>3, FS_CardinalityType

LEMMA ItemKept ==
  ASSUME NEW L \in Seq(Texts), NEW text \in Texts, NEW j \in 1 .. Len(L)
  PROVE  Item(Append(L, text), j) = Item(L, j)
<1>1. Append(L, text)[j] = L[j]
  OBVIOUS
<1>2. QED
  BY <1>1 DEF Item

LEMMA ItemNew ==
  ASSUME NEW L \in Seq(Texts), NEW text \in Texts
  PROVE  Item(Append(L, text), Len(L) + 1) = [seq |-> Len(L), text |-> text, isError |-> text = "failed"]
<1>1. Append(L, text)[Len(L) + 1] = text /\ (Len(L) + 1) - 1 = Len(L)
  OBVIOUS
<1>2. QED
  BY <1>1 DEF Item

(* How many of the held messages are errors, after one more.               *)
LEMMA FailedMoves ==
  ASSUME NEW L \in Seq(Texts), NEW text \in Texts, NEW c \in 0 .. Len(L),
         NEW d \in {0, 1}, d <= c
  PROVE  LET n == Len(L)  M == Append(L, text)
         IN  Cardinality(FailedOf(M, n + 1, c + 1 - d)) =
               Cardinality(FailedOf(L, n, c))
               - (IF d = 1 /\ L[n - c + 1] = "failed" THEN 1 ELSE 0)
               + (IF text = "failed" THEN 1 ELSE 0)
<1> DEFINE n   == Len(L)
           M   == Append(L, text)
           Old == FailedOf(L, n, c)
           Mid == IF d = 1 THEN Old \ {n - c + 1} ELSE Old
           New1 == FailedOf(M, n + 1, c + 1 - d)
<1>0. n \in Nat /\ c \in 0 .. n /\ Len(M) = n + 1 /\ M[n + 1] = text /\ \A j \in 1 .. n : M[j] = L[j]
  OBVIOUS
<1>1. IsFiniteSet(Old) /\ Cardinality(Old) \in Nat
  <2>1. IsFiniteSet(FailedOf(L, n, c)) /\ Cardinality(FailedOf(L, n, c)) \in 0 .. c
    BY <1>0, FailedFinite
  <2>2. QED
    BY <2>1
<1>2. n + 1 \notin Mid
  BY <1>0 DEF FailedOf
<1>3. New1 = IF text = "failed" THEN Mid \cup {n + 1} ELSE Mid
  BY <1>0 DEF FailedOf
<1>4. n - c + 1 \in Old <=> (c > 0 /\ L[n - c + 1] = "failed")
  BY <1>0 DEF FailedOf
<1>5. IsFiniteSet(Mid) /\ Cardinality(Mid) \in Nat
      /\ Cardinality(Mid) = Cardinality(Old) - (IF d = 1 /\ L[n - c + 1] = "failed" THEN 1 ELSE 0)
  <2> HIDE DEF Old
  <2>1. CASE d = 0
    BY <2>1, <1>1
  <2>2. CASE d = 1
    <3>1. IsFiniteSet(Old \ {n - c + 1})
          /\ Cardinality(Old \ {n - c + 1}) = IF n - c + 1 \in Old THEN Cardinality(Old) - 1 ELSE Cardinality(Old)
      BY <1>1, FS_RemoveElement
    <3>2. Cardinality(Old \ {n - c + 1}) \in Nat
      BY <3>1, FS_CardinalityType
    <3>3. c > 0
      BY <2>2, <1>0
    <3>4. QED
      BY <2>2, <3>1, <3>2, <3>3, <1>4
  <2>3. QED
    BY <2>1, <2>2
<1>6. Cardinality(New1) = Cardinality(Mid) + (IF text = "failed" THEN 1 ELSE 0)
  <2> HIDE DEF Mid, New1, M, Old
  <2>1. CASE text = "failed"
    <3>1. Cardinality(Mid \cup {n + 1}) = Cardinality(Mid) + 1
      BY <1>2, <1>5, FS_AddElement
    <3>2. QED
      BY <2>1, <3>1, <1>3
  <2>2. CASE text # "failed"
    BY <2>2, <1>3, <1>5
  <2>3. QED
    BY <2>1, <2>2
<1>7. Cardinality(New1) = Cardinality(Old)
        - (IF d = 1 /\ L[n - c + 1] = "failed" THEN 1 ELSE 0) + (IF text = "failed" THEN 1 ELSE 0)
  <2> HIDE DEF Mid, New1, M, Old
  <2>1. QED
    BY <1>1, <1>5, <1>6
<1>8. QED
  BY <1>7

LEMMA AppendedFields ==
  ASSUME NEW size \in Nat \ {0}, NEW r, RingShape(r, size), NEW text, NEW isError
  PROVE  LET e   == [seq |-> r.nextSeq, text |-> text, isError |-> isError]
             pos == (r.start + IF r.count = size THEN 0 ELSE r.count) % size
             q   == Appended(r, text, isError)
         IN  /\ q = [entries |-> q.entries, size |-> size, start |-> q.start, count |-> q.count,
                     nextSeq |-> q.nextSeq, errCount |-> q.errCount]
             /\ q.entries = [r.entries EXCEPT ![pos] = e]
             /\ q.start = IF r.count = size THEN (r.start + 1) % size ELSE r.start
             /\ q.count = IF r.count = size THEN r.count ELSE r.count + 1
             /\ q.nextSeq = r.nextSeq + 1
             /\ q.errCount = r.errCount - EvictedError(r) + (IF isError THEN 1 ELSE 0)
<1> DEFINE e   == [seq |-> r.nextSeq, text |-> text, isError |-> isError]
           pos == (r.start + IF r.count = size THEN 0 ELSE r.count) % size
           v   == EvictedError(r)
           b   == IF isError THEN 1 ELSE 0
<1>1. PICK en, st, co, ns, ec : r = [entries |-> en, size |-> size, start |-> st, count |-> co,
                                     nextSeq |-> ns, errCount |-> ec]
  BY DEF RingShape
<1>2. Appended(r, text, isError) =
        [r EXCEPT !.entries[pos] = e,
                  !.start = IF r.count = r.size THEN (@ + 1) % r.size ELSE @,
                  !.count = IF @ = r.size THEN @ ELSE @ + 1,
                  !.nextSeq = @ + 1,
                  !.errCount = @ - v + b]
  BY <1>1 DEF Appended
<1> HIDE DEF e, pos, v, b
<1>3. QED
  BY <1>1, <1>2, ZenonT(20) DEF e, pos, v, b

Turn(x, size) == IF x < size THEN x ELSE x - size

(* The k-th of the held entries after one more: from where it came, or     *)
(* that it is the new one.                                                 *)
Advance(size, start, count, n, newStart, newCount, pos) ==
  /\ size \in Nat \ {0} /\ start \in 0 .. size - 1 /\ count \in 0 .. size
  /\ n \in Nat /\ count <= n
  /\ newStart = IF count = size THEN Turn(start + 1, size) ELSE start
  /\ newCount = IF count = size THEN count ELSE count + 1
  /\ pos = IF count = size THEN start ELSE Turn(start + count, size)

CameFrom(size, start, count, n, newStart, newCount, pos, k) ==
  /\ newStart \in 0 .. size - 1 /\ newCount \in 1 .. size /\ pos \in 0 .. size - 1
  /\ newStart + k - 1 \in 0 .. 2 * size - 1
  /\ k = newCount => /\ Turn(newStart + k - 1, size) = pos
                     /\ (n + 1) - newCount + k = n + 1
  /\ k < newCount =>
       \E j \in 1 .. count : /\ Turn(newStart + k - 1, size) = Turn(start + j - 1, size)
                             /\ Turn(start + j - 1, size) # pos
                             /\ Turn(start + j - 1, size) \in 0 .. size - 1
                             /\ n - count + j \in 1 .. n
                             /\ (n + 1) - newCount + k = n - count + j

LEMMA Places ==
  ASSUME NEW size, NEW start, NEW count, NEW n, NEW newStart, NEW newCount, NEW pos,
         Advance(size, start, count, n, newStart, newCount, pos), NEW k \in 1 .. newCount
  PROVE  CameFrom(size, start, count, n, newStart, newCount, pos, k)
<1> USE DEF Advance, CameFrom
<1>1. CASE count = size
  <2>1. /\ newStart = (IF start + 1 < size THEN start + 1 ELSE start + 1 - size)
        /\ newCount = size /\ pos = start /\ k \in 1 .. size
    BY <1>1 DEF Turn
  <2>2. k < newCount =>
          LET j == k + 1
          IN  /\ j \in 1 .. count
              /\ Turn(newStart + k - 1, size) = Turn(start + j - 1, size)
              /\ Turn(start + j - 1, size) # pos
              /\ Turn(start + j - 1, size) \in 0 .. size - 1
              /\ n - count + j \in 1 .. n
              /\ (n + 1) - newCount + k = n - count + j
    BY <1>1, <2>1 DEF Turn
  <2>3. QED
    BY <1>1, <2>1, <2>2 DEF Turn
<1>2. CASE count # size
  <2>1. /\ newStart = start /\ newCount = count + 1 /\ k \in 1 .. count + 1 /\ count < size
        /\ pos = (IF start + count < size THEN start + count ELSE start + count - size)
    BY <1>2 DEF Turn
  <2>2. k < newCount =>
          /\ k \in 1 .. count
          /\ Turn(newStart + k - 1, size) = Turn(start + k - 1, size)
          /\ Turn(start + k - 1, size) # pos
          /\ Turn(start + k - 1, size) \in 0 .. size - 1
          /\ n - count + k \in 1 .. n
          /\ (n + 1) - newCount + k = n - count + k
    BY <1>2, <2>1 DEF Turn
  <2>3. QED
    BY <1>2, <2>1, <2>2 DEF Turn
<1>3. QED
  BY <1>1, <1>2

(* One more message: the ring is a ring of the longer history.             *)
LEMMA AppendKeepsRing ==
  ASSUME NEW size \in Nat \ {0}, NEW L \in Seq(Texts), NEW text \in Texts, NEW r, RingOf(r, L, size)
  PROVE  RingOf(Appended(r, text, text = "failed"), Append(L, text), size)
<1> DEFINE bad  == text = "failed"
           n    == Len(L)
           M    == Append(L, text)
           e    == [seq |-> r.nextSeq, text |-> text, isError |-> bad]
           full == r.count = size
           pos  == (r.start + IF full THEN 0 ELSE r.count) % size
           q    == Appended(r, text, bad)
<1>v. \A x \in 0 .. 2 * size - 1 : x % size = Turn(x, size)
  BY Wraps DEF Turn
<1>a. /\ q = [entries |-> q.entries, size |-> size, start |-> q.start, count |-> q.count,
              nextSeq |-> q.nextSeq, errCount |-> q.errCount]
      /\ q.entries = [r.entries EXCEPT ![pos] = e]
      /\ q.start = IF full THEN (r.start + 1) % size ELSE r.start
      /\ q.count = IF full THEN r.count ELSE r.count + 1
      /\ q.nextSeq = r.nextSeq + 1
      /\ q.errCount = r.errCount - EvictedError(r) + (IF bad THEN 1 ELSE 0)
  <2>1. RingShape(r, size)
    BY DEF RingOf
  <2> HIDE DEF bad
  <2>2. QED
    BY <2>1, AppendedFields
<1>r. /\ r.start \in 0 .. size - 1 /\ r.count \in 0 .. size /\ r.size = size
      /\ r.nextSeq = n /\ n \in Nat /\ r.count \in 0 .. n /\ r.errCount \in Int
      /\ r.count = IF n <= size THEN n ELSE size
  <2>1. r = [entries |-> r.entries, size |-> size, start |-> r.start, count |-> r.count,
             nextSeq |-> r.nextSeq, errCount |-> r.errCount]
    BY DEF RingOf, RingShape
  <2>2. r.size = size
    BY <2>1
  <2>3. QED
    BY <2>2 DEF RingOf, RingShape
<1>g. r.entries = [p \in 0 .. size - 1 |-> r.entries[p]]
  BY DEF RingOf, RingShape
<1>m. M \in Seq(Texts) /\ Len(M) = n + 1
  OBVIOUS
<1>e. e = Item(M, n + 1)
  <2>1. Item(M, n + 1) = [seq |-> n, text |-> text, isError |-> text = "failed"]
    BY ItemNew
  <2>2. QED
    BY <2>1, <1>r
<1>k. r.errCount = Cardinality(FailedOf(L, n, r.count))
  BY DEF RingOf
<1>o. \A k \in 1 .. r.count : r.entries[(r.start + k - 1) % size] = Item(L, n - r.count + k)
  BY DEF RingOf
<1> HIDE DEF e, q, M
<1>t. \A k \in 1 .. r.count : (r.start + k - 1) % size = Turn(r.start + k - 1, size)
  <2> SUFFICES ASSUME NEW k \in 1 .. r.count PROVE (r.start + k - 1) % size = Turn(r.start + k - 1, size)
    OBVIOUS
  <2>1. r.start + k - 1 \in 0 .. 2 * size - 1
    BY <1>r
  <2>2. QED
    BY <2>1, <1>v
<1>p. pos \in 0 .. size - 1 /\ pos = IF full THEN r.start ELSE Turn(r.start + r.count, size)
  <2>1. (r.start + IF full THEN 0 ELSE r.count) \in 0 .. 2 * size - 1
    BY <1>r
  <2>2. pos = Turn(r.start + IF full THEN 0 ELSE r.count, size)
    BY <2>1, <1>v
  <2>3. QED
    BY <2>2, <1>r, SMTT(20)
<1>s. (r.start + 1) % size = Turn(r.start + 1, size)
  <2>1. r.start + 1 \in 0 .. 2 * size - 1
    BY <1>r
  <2>2. QED
    BY <2>1, <1>v
<1> HIDE DEF pos
<1>w. EvictedError(r) = IF full /\ L[n - r.count + 1] = "failed" THEN 1 ELSE 0
  <2>1. CASE full
    <3>1. 1 \in 1 .. r.count /\ (r.start + 1 - 1) % size = r.start
      BY <2>1, <1>r, <1>t DEF Turn
    <3>2. r.entries[r.start] = Item(L, n - r.count + 1)
      BY <3>1, <1>o
    <3>3. r.entries[r.start].isError = (L[n - r.count + 1] = "failed")
      BY <3>2 DEF Item
    <3>4. QED
      BY <2>1, <3>3, <1>r DEF EvictedError
  <2>2. CASE ~full
    BY <2>2, <1>r DEF EvictedError
  <2>3. QED
    BY <2>1, <2>2
<1>i. EvictedError(r) \in {0, 1}
  BY <1>w
<1>1. RingShape(q, size)
  <2>1. q.start \in 0 .. size - 1 /\ q.count \in 0 .. size /\ q.nextSeq \in Nat
    BY <1>a, <1>r, <1>s
  <2>2. q.errCount \in Int
    BY <1>a, <1>r, <1>i
  <2>3. q.entries = [p \in 0 .. size - 1 |-> q.entries[p]]
    BY <1>a, <1>g, <1>p
  <2>4. QED
    BY <2>1, <2>2, <2>3, <1>a DEF RingShape
<1>2. q.nextSeq = Len(M) /\ q.count = IF Len(M) <= size THEN Len(M) ELSE size
  BY <1>a, <1>r, <1>m
<1>3. ASSUME NEW k \in 1 .. q.count
      PROVE  q.entries[(q.start + k - 1) % size] = Item(M, Len(M) - q.count + k)
  <2>a. Advance(size, r.start, r.count, n, q.start, q.count, pos)
    BY <1>a, <1>s, <1>p, <1>r DEF Advance
  <2>p. CameFrom(size, r.start, r.count, n, q.start, q.count, pos, k)
    BY <2>a, Places
  <2>t. (q.start + k - 1) % size = Turn(q.start + k - 1, size)
    BY <2>p, <1>v DEF CameFrom
  <2>1. CASE k = q.count
    <3>1. (q.start + k - 1) % size = pos /\ (n + 1) - q.count + k = n + 1
      BY <2>1, <2>p, <2>t DEF CameFrom
    <3>2. q.entries[pos] = e
      BY <1>a, <1>p, <1>g
    <3>3. QED
      BY <3>1, <3>2, <1>e, <1>m
  <2>2. CASE k # q.count
    <3>1. k < q.count
      BY <2>2, <2>p DEF CameFrom
    <3>2. PICK j \in 1 .. r.count : /\ Turn(q.start + k - 1, size) = Turn(r.start + j - 1, size)
                                    /\ Turn(r.start + j - 1, size) # pos
                                    /\ Turn(r.start + j - 1, size) \in 0 .. size - 1
                                    /\ n - r.count + j \in 1 .. n
                                    /\ (n + 1) - q.count + k = n - r.count + j
      BY <2>p, <3>1 DEF CameFrom
    <3>3. q.entries[Turn(r.start + j - 1, size)] = r.entries[Turn(r.start + j - 1, size)]
      BY <3>2, <1>a, <1>g
    <3>4. r.entries[Turn(r.start + j - 1, size)] = Item(L, n - r.count + j)
      BY <1>o, <1>t
    <3>5. Item(M, n - r.count + j) = Item(L, n - r.count + j)
      BY <3>2, ItemKept DEF M
    <3>6. QED
      BY <3>2, <3>3, <3>4, <3>5, <2>t, <1>m
  <2>3. QED
    BY <2>1, <2>2
<1>4. q.errCount = Cardinality(FailedOf(M, Len(M), q.count))
  <2> DEFINE d == IF full THEN 1 ELSE 0
  <2>1. d \in {0, 1} /\ d <= r.count /\ q.count = r.count + 1 - d
    BY <1>a, <1>r
  <2>2. r.errCount = Cardinality(FailedOf(L, n, r.count))
    BY <1>k
  <2>3. q.errCount = r.errCount - EvictedError(r) + (IF text = "failed" THEN 1 ELSE 0)
    BY <1>a
  <2> HIDE DEF d
  <2>4. Cardinality(FailedOf(M, n + 1, r.count + 1 - d)) =
          Cardinality(FailedOf(L, n, r.count))
          - (IF d = 1 /\ L[n - r.count + 1] = "failed" THEN 1 ELSE 0)
          + (IF text = "failed" THEN 1 ELSE 0)
    BY <2>1, <1>r, FailedMoves DEF M
  <2>5. full <=> d = 1
    BY DEF d
  <2>6. QED
    BY <2>1, <2>2, <2>3, <2>4, <2>5, <1>w, <1>m
<1>5. QED
  BY <1>1, <1>2, <1>3, <1>4 DEF RingOf, q, M
-----------------------------------------------------------------------------
(* What a ring of L shows is the end of L.                                 *)
LEMMA RingShows ==
  ASSUME NEW size \in Nat \ {0}, NEW L \in Seq(Texts), NEW r, RingOf(r, L, size)
  PROVE  LET held == Snapshot(r)
             end  == Newest(L, Min({size, Len(L)}))
         IN  /\ TextsOf(held) = end
             /\ r.errCount = Cardinality(Failed(end))
             /\ \A k \in DOMAIN held : held[k].seq = Len(L) - Len(held) + k - 1
             /\ r.start \in 0 .. r.size - 1 /\ r.count \in 0 .. r.size
             /\ r.errCount \in 0 .. r.count
<1> DEFINE n    == Len(L)
           c    == r.count
           held == Snapshot(r)
           end  == Newest(L, Min({size, Len(L)}))
<1>1. /\ r.start \in 0 .. size - 1 /\ c \in 0 .. size /\ r.size = size
      /\ n \in Nat /\ c \in 0 .. n /\ c = IF n <= size THEN n ELSE size
  <2>1. r = [entries |-> r.entries, size |-> size, start |-> r.start, count |-> r.count,
             nextSeq |-> r.nextSeq, errCount |-> r.errCount]
    BY DEF RingOf, RingShape
  <2>2. r.size = size
    BY <2>1
  <2>3. QED
    BY <2>2 DEF RingOf, RingShape
<1>2. Min({size, n}) = c
  BY <1>1, MinOfTwo DEF Lesser
<1>3. end = [k \in 1 .. c |-> L[n - c + k]]
  <2>1. end = SubSeq(L, n - c + 1, n)
    BY <1>2 DEF Newest
  <2>a. n \in Nat /\ c \in 0 .. n
    BY <1>1
  <2>b. \A j \in 1 .. n : L[j] \in Texts
    OBVIOUS
  <2> HIDE DEF n, c, end
  <2>2. /\ n - c + 1 \in 1 .. n + 1 /\ n - (n - c + 1) + 1 = c
        /\ (IF n - c + 1 <= n THEN n - (n - c + 1) + 1 ELSE 0) = c
    BY <2>a
  <2>c. \A k \in 1 .. c : (n - c + 1) + k - 1 = n - c + k
    BY <2>a
  <2>d. \A j \in n - c + 1 .. n : L[j] \in Texts
    BY <2>a, <2>b
  <2>3. /\ SubSeq(L, n - c + 1, n) \in Seq(Texts) /\ Len(SubSeq(L, n - c + 1, n)) = c
        /\ \A k \in 1 .. c : SubSeq(L, n - c + 1, n)[k] = L[(n - c + 1) + k - 1]
    BY <2>2, <2>a, <2>d, SubSeqProperties
  <2>4. \A t \in Seq(Texts) : Len(t) = c => t = [k \in 1 .. c |-> t[k]]
    OBVIOUS
  <2>5. QED
    BY <2>1, <2>3, <2>c, <2>4
<1>4. held = [k \in 1 .. c |-> Item(L, n - c + k)]
  <2>1. \A k \in 1 .. c : r.entries[(r.start + k - 1) % size] = Item(L, n - c + k)
    BY DEF RingOf
  <2>2. QED
    BY <2>1, <1>1 DEF Snapshot
<1>5. DOMAIN held = 1 .. c /\ Len(held) = c
  <2>1. DOMAIN held = 1 .. c
    BY <1>4
  <2>2. \A k \in 1 .. c : held[k] \in {Item(L, n - c + x) : x \in 1 .. c}
    BY <1>4
  <2>3. QED
    BY <2>1, <1>1, <1>4
<1>6. TextsOf(held) = end
  <2>1. \A k \in 1 .. c : held[k].text = L[n - c + k]
    BY <1>4 DEF Item
  <2>2. TextsOf(held) = [k \in 1 .. c |-> held[k].text]
    BY <1>5 DEF TextsOf
  <2> HIDE DEF held, end
  <2>3. QED
    BY <2>1, <2>2, <1>3
<1>7. \A k \in DOMAIN held : held[k].seq = n - Len(held) + k - 1
  <2>1. \A k \in 1 .. c : held[k].seq = (n - c + k) - 1
    BY <1>4 DEF Item
  <2>2. \A k \in 1 .. c : (n - c + k) - 1 = n - c + k - 1
    BY <1>1
  <2> HIDE DEF held, end, n, c
  <2>3. QED
    BY <2>1, <2>2, <1>5
<1>8. IsFiniteSet(FailedOf(L, n, c)) /\ Cardinality(FailedOf(L, n, c)) \in 0 .. c
  BY <1>1, FailedFinite
<1>9. Cardinality(Failed(end)) = Cardinality(FailedOf(L, n, c))
  <2> DEFINE F == FailedOf(L, n, c)
             G == Failed(end)
             f == [j \in F |-> j - (n - c)]
  <2>1. G = {k \in 1 .. c : L[n - c + k] = "failed"}
    BY <1>3 DEF Failed
  <2>5. n - c \in Int /\ n \in Nat /\ c \in 0 .. n
    BY <1>1
  <2>f. F = {j \in n - c + 1 .. n : L[j] = "failed"}
    BY DEF FailedOf
  <2> HIDE DEF F, G, n, c
  <2>4. F \subseteq Int
    BY <2>5, <2>f
  <2>2. ASSUME NEW j \in F PROVE j - (n - c) \in G
    <3>1. j - (n - c) \in 1 .. c /\ n - c + (j - (n - c)) = j /\ L[j] = "failed"
      BY <2>5, <2>f
    <3>2. QED
      BY <3>1, <2>1
  <2>3. ASSUME NEW k \in G PROVE (n - c) + k \in F /\ ((n - c) + k) - (n - c) = k
    BY <2>1, <2>5, <2>f
  <2>6. f \in [F -> G]
    BY <2>2
  <2>7. \A i, j \in F : f[i] = f[j] => i = j
    BY <2>4, <2>5
  <2>8. \A k \in G : \E j \in F : f[j] = k
    BY <2>3
  <2>9. f \in Bijection(F, G)
    BY <2>6, <2>7, <2>8 DEF Bijection, Injection, Surjection, IsInjective
  <2>10. ExistsBijection(F, G)
    BY <2>9 DEF ExistsBijection
  <2>11. QED
    BY <2>10, <1>8, FS_Bijection DEF F, G
<1>10. r.errCount = Cardinality(FailedOf(L, n, c))
  BY DEF RingOf
<1>11. QED
  BY <1>1, <1>6, <1>7, <1>8, <1>9, <1>10
-----------------------------------------------------------------------------
Stages == {"none", "refused", "loaded", "built", "running", "stopping", "stopped"}
Early  == {"none", "refused", "loaded"}

(* What LoadConfig leaves of a channel.                                    *)
Accepted(ch) ==
  /\ ch.size \in Nat \ {0} /\ ch.type \in Types

ConfigInv ==
  /\ yaml \in Seq(Entry) /\ nexus \in Stages
  /\ nexus \in {"none", "refused"} => channels = <<>>
  /\ \A i \in DOMAIN channels : Accepted(channels[i])
  /\ \A i, j \in DOMAIN channels : channels[i].name = channels[j].name => i = j

RingsInv ==
  /\ DOMAIN ring \subseteq DOMAIN channels
  /\ nexus \notin Early => DOMAIN ring = DOMAIN channels
  /\ nexus \in Early => ring = <<>> /\ log = <<>>
  /\ ring = [i \in DOMAIN ring |-> ring[i]]
  /\ log = [i \in DOMAIN ring |-> log[i]]
  /\ \A i \in DOMAIN ring : log[i] \in Seq(Texts) /\ RingOf(ring[i], log[i], channels[i].size)

SourcesInv ==
  /\ nexus \in Early => source = <<>> /\ status = <<>>
  /\ nexus \notin Early =>
       /\ source \in [DOMAIN channels -> {"off", "starting", "working", "waiting", "ended"}]
       /\ status \in [DOMAIN channels -> {"stopped", "running", "restarting"}]
       /\ \A i \in DOMAIN channels :
            /\ HasSource(i) /\ nexus # "built" => source[i] # "off"
            /\ nexus = "built" \/ ~HasSource(i) => source[i] = "off"
            /\ source[i] = "ended" => status[i] = "stopped"
  /\ nexus = "stopped" =>
       \A i \in DOMAIN channels : status[i] = "stopped" /\ source[i] \in {"off", "ended"}

ChannelsInv == ConfigInv /\ RingsInv /\ SourcesInv

LEMMA ChannelsInitInv == ChannelsInit => ChannelsInv
<1> SUFFICES ASSUME ChannelsInit PROVE ChannelsInv
  OBVIOUS
<1>1. /\ yaml \in Files /\ nexus = "none" /\ channels = <<>> /\ ring = <<>>
      /\ source = <<>> /\ status = <<>> /\ log = <<>> /\ DOMAIN <<>> = {}
  BY DEF ChannelsInit
<1>2. ConfigInv
  BY <1>1, ChannelsAssumption DEF ConfigInv, Stages
<1>3. RingsInv
  BY <1>1 DEF RingsInv, Early
<1>4. SourcesInv
  BY <1>1 DEF SourcesInv, Early
<1>5. QED
  BY <1>2, <1>3, <1>4 DEF ChannelsInv

LEMMA LoadConfigStep == ASSUME ChannelsInv, LoadConfig PROVE ChannelsInv'
<1>i. ConfigInv /\ RingsInv /\ SourcesInv
  BY DEF ChannelsInv
<1>u. nexus = "none" /\ UNCHANGED <<yaml, ring, source, status, log>> /\ nexus' \in {"loaded", "refused"}
  BY DEF LoadConfig
<1>0. channels = <<>> /\ ring = <<>> /\ log = <<>> /\ source = <<>> /\ status = <<>> /\ DOMAIN <<>> = {}
  BY <1>i, <1>u DEF ConfigInv, RingsInv, SourcesInv, Early
<1>1. ConfigInv'
  <2>1. CASE nexus' = "loaded"
    <3>1. /\ \A i \in DOMAIN yaml : Acceptable(yaml[i])
          /\ \A i, j \in DOMAIN yaml : yaml[i].name = yaml[j].name => i = j
          /\ channels' = [i \in DOMAIN yaml |-> WithDefaults(yaml[i])]
      BY <2>1 DEF LoadConfig
    <3>2. ASSUME NEW i \in DOMAIN yaml
          PROVE  Accepted(WithDefaults(yaml[i])) /\ WithDefaults(yaml[i]).name = yaml[i].name
      <4>1. yaml[i] \in Entry
        BY <1>i DEF ConfigInv
      <4>2. /\ WithDefaults(yaml[i]).name = yaml[i].name /\ WithDefaults(yaml[i]).type = yaml[i].type
            /\ WithDefaults(yaml[i]).size = IF yaml[i].size = 0 THEN DefaultSize ELSE yaml[i].size
        BY <4>1 DEF WithDefaults, Entry
      <4>3. yaml[i].size \in Int /\ yaml[i].size >= 0 /\ yaml[i].type \in Types
        BY <4>1, <3>1 DEF Entry, Acceptable, Types
      <4>4. QED
        BY <4>2, <4>3, ChannelsAssumption DEF Accepted
    <3>3. QED
      BY <2>1, <3>1, <3>2, <1>i, <1>u DEF ConfigInv, Stages
  <2>2. CASE nexus' = "refused"
    <3>1. channels' = channels
      BY <2>2 DEF LoadConfig
    <3>2. QED
      BY <2>2, <3>1, <1>i, <1>u, <1>0 DEF ConfigInv, Stages
  <2>3. QED
    BY <2>1, <2>2, <1>u
<1>2. RingsInv'
  BY <1>0, <1>u DEF RingsInv, Early
<1>3. SourcesInv'
  BY <1>0, <1>u DEF SourcesInv, Early
<1>4. QED
  BY <1>1, <1>2, <1>3 DEF ChannelsInv

LEMMA NewStep == ASSUME ChannelsInv, New PROVE ChannelsInv'
<1>i. ConfigInv /\ RingsInv /\ SourcesInv
  BY DEF ChannelsInv
<1>u. nexus = "loaded" /\ nexus' = "built" /\ UNCHANGED <<yaml, channels>>
  BY DEF New
<1>1. ConfigInv'
  BY <1>i, <1>u DEF ConfigInv, Stages
<1>2. RingsInv'
  <2>1. /\ ring' = [i \in DOMAIN channels |-> NewRing(channels[i].size)]
        /\ log' = [i \in DOMAIN channels |-> <<>>]
    BY DEF New
  <2>2. \A i \in DOMAIN channels : RingOf(NewRing(channels[i].size), <<>>, channels[i].size)
    BY <1>i, NewRingIsOne DEF ConfigInv, Accepted
  <2>3. <<>> \in Seq(Texts)
    OBVIOUS
  <2>4. \A i \in DOMAIN ring' : ring'[i] = NewRing(channels[i].size) /\ log'[i] = <<>>
    BY <2>1
  <2>5. QED
    BY <2>1, <2>2, <2>3, <2>4, <1>u DEF RingsInv, Early
<1>3. SourcesInv'
  BY <1>u DEF New, SourcesInv, Early, HasSource
<1>4. QED
  BY <1>1, <1>2, <1>3 DEF ChannelsInv

(* Nothing but the sources moves.                                          *)
LEMMA ConfigAndRingsKept ==
  ASSUME ChannelsInv, UNCHANGED <<yaml, channels, ring, log>>,
         nexus \notin Early, nexus' \in Stages \ Early
  PROVE  ConfigInv' /\ RingsInv'
<1>i. ConfigInv /\ RingsInv
  BY DEF ChannelsInv
<1>1. ConfigInv'
  BY <1>i DEF ConfigInv, Stages, Early
<1>2. RingsInv'
  BY <1>i DEF RingsInv, Early
<1>3. QED
  BY <1>1, <1>2

LEMMA SourceSteps ==
  ASSUME ChannelsInv,
         \/ StartSources \/ StopSources \/ StopReturns
         \/ \E i \in DOMAIN ring : SourceRuns(i) \/ SourceRestarts(i) \/ SourceEnds(i)
  PROVE  ChannelsInv'
<1>i. ConfigInv /\ RingsInv /\ SourcesInv
  BY DEF ChannelsInv
<1>1. CASE StartSources
  <2>1. nexus = "built" /\ nexus' = "running" /\ UNCHANGED <<yaml, channels, ring, log>>
    BY <1>1 DEF StartSources
  <2>2. ConfigInv' /\ RingsInv'
    BY <2>1, ConfigAndRingsKept DEF Stages, Early
  <2>3. SourcesInv'
    BY <1>1, <1>i, <2>1 DEF StartSources, SourcesInv, Early, HasSource
  <2>4. QED
    BY <2>2, <2>3 DEF ChannelsInv
<1>2. CASE StopSources
  <2>1. nexus = "running" /\ nexus' = "stopping" /\ UNCHANGED <<yaml, channels, ring, source, status, log>>
    BY <1>2 DEF StopSources
  <2>2. ConfigInv' /\ RingsInv'
    BY <2>1, ConfigAndRingsKept DEF Stages, Early
  <2>3. SourcesInv'
    BY <1>i, <2>1 DEF SourcesInv, Early, HasSource
  <2>4. QED
    BY <2>2, <2>3 DEF ChannelsInv
<1>3. CASE StopReturns
  <2>1. nexus = "stopping" /\ nexus' = "stopped" /\ UNCHANGED <<yaml, channels, ring, source, log>>
    BY <1>3 DEF StopReturns
  <2>2. ConfigInv' /\ RingsInv'
    BY <2>1, ConfigAndRingsKept DEF Stages, Early
  <2>3. SourcesInv'
    BY <1>3, <1>i, <2>1 DEF StopReturns, SourcesInv, Early, HasSource
  <2>4. QED
    BY <2>2, <2>3 DEF ChannelsInv
<1>4. ASSUME NEW i \in DOMAIN ring, SourceRuns(i) \/ SourceRestarts(i) \/ SourceEnds(i)
      PROVE  ChannelsInv'
  <2>1. UNCHANGED <<yaml, nexus, channels, ring, log>>
    BY <1>4 DEF SourceRuns, SourceRestarts, SourceEnds
  <2>2. nexus \notin Early /\ nexus \in Stages /\ i \in DOMAIN channels
    <3>1. nexus \notin Early
      BY <1>4, <1>i DEF RingsInv
    <3>2. QED
      BY <3>1, <1>i DEF RingsInv, ConfigInv
  <2>3. ConfigInv' /\ RingsInv'
    BY <2>1, <2>2, ConfigAndRingsKept
  <2>4. SourcesInv'
    <3>1. CASE SourceRuns(i)
      BY <3>1, <1>i, <2>1, <2>2 DEF SourceRuns, SourcesInv, Early, HasSource
    <3>2. CASE SourceRestarts(i)
      BY <3>2, <1>i, <2>1, <2>2 DEF SourceRestarts, SourcesInv, Early, HasSource
    <3>3. CASE SourceEnds(i)
      BY <3>3, <1>i, <2>1, <2>2 DEF SourceEnds, SourcesInv, Early, HasSource
    <3>4. QED
      BY <3>1, <3>2, <3>3, <1>4
  <2>5. QED
    BY <2>3, <2>4 DEF ChannelsInv
<1>5. QED
  BY <1>1, <1>2, <1>3, <1>4

LEMMA IngestStep ==
  ASSUME ChannelsInv, NEW i \in DOMAIN ring, NEW text \in Texts, IngestText(i, text)
  PROVE  ChannelsInv'
<1>i. ConfigInv /\ RingsInv /\ SourcesInv
  BY DEF ChannelsInv
<1>u. /\ ring' = [ring EXCEPT ![i] = Appended(ring[i], text, text = "failed")]
      /\ log' = [log EXCEPT ![i] = Append(log[i], text)]
      /\ UNCHANGED <<yaml, nexus, channels, source, status>>
  BY DEF IngestText
<1>1. ConfigInv'
  BY <1>i, <1>u DEF ConfigInv
<1>2. SourcesInv'
  BY <1>i, <1>u DEF SourcesInv, HasSource
<1>3. RingsInv'
  <2> DEFINE q == Appended(ring[i], text, text = "failed")
             M == Append(log[i], text)
  <2>1. /\ ring = [j \in DOMAIN ring |-> ring[j]] /\ log = [j \in DOMAIN ring |-> log[j]]
        /\ log[i] \in Seq(Texts) /\ RingOf(ring[i], log[i], channels[i].size)
        /\ channels[i].size \in Nat \ {0} /\ i \in DOMAIN channels /\ nexus \notin Early
    BY <1>i DEF RingsInv, ConfigInv, Accepted
  <2>2. RingOf(q, M, channels[i].size) /\ M \in Seq(Texts)
    BY <2>1, AppendKeepsRing
  <2> HIDE DEF q, M
  <2>3. /\ DOMAIN ring' = DOMAIN ring /\ ring' = [j \in DOMAIN ring |-> IF j = i THEN q ELSE ring[j]]
        /\ log' = [j \in DOMAIN ring |-> IF j = i THEN M ELSE log[j]]
    BY <2>1, <1>u DEF q, M
  <2>4. ASSUME NEW j \in DOMAIN ring PROVE log'[j] \in Seq(Texts) /\ RingOf(ring'[j], log'[j], channels[j].size)
    <3>1. CASE j = i
      BY <3>1, <2>2, <2>3
    <3>2. CASE j # i
      BY <3>2, <2>3, <1>i DEF RingsInv
    <3>3. QED
      BY <3>1, <3>2
  <2>5. ring' = [j \in DOMAIN ring' |-> ring'[j]] /\ log' = [j \in DOMAIN ring' |-> log'[j]]
    BY <2>3
  <2>6. QED
    BY <2>1, <2>3, <2>4, <2>5, <1>i, <1>u DEF RingsInv
<1>4. QED
  BY <1>1, <1>2, <1>3 DEF ChannelsInv

LEMMA ChannelsInvStep == ASSUME ChannelsInv, [ChannelsNext]_channelVars PROVE ChannelsInv'
<1>1. CASE LoadConfig
  BY <1>1, LoadConfigStep
<1>2. CASE New
  BY <1>2, NewStep
<1>3. CASE \/ StartSources \/ StopSources \/ StopReturns
           \/ \E i \in DOMAIN ring : SourceRuns(i) \/ SourceRestarts(i) \/ SourceEnds(i)
  BY <1>3, SourceSteps
<1>4. ASSUME NEW i \in DOMAIN ring, NEW text \in Texts, SourceIngests(i, text) \/ Post(i, text)
      PROVE  ChannelsInv'
  BY <1>4, IngestStep DEF SourceIngests, Post
<1>5. CASE UNCHANGED channelVars
  BY <1>5 DEF channelVars, ChannelsInv, ConfigInv, RingsInv, SourcesInv, HasSource
<1>6. QED
  BY <1>1, <1>2, <1>3, <1>4, <1>5 DEF ChannelsNext

LEMMA ChannelsInvImplies == ChannelsInv => ChannelsAreSound
<1> SUFFICES ASSUME ChannelsInv PROVE ChannelsAreSound
  OBVIOUS
<1>i. ConfigInv /\ RingsInv /\ SourcesInv
  BY DEF ChannelsInv
<1>1. AcceptedConfigRuns
  BY <1>i DEF ConfigInv, Accepted, AcceptedConfigRuns
<1>2. StopIsTheEnd
  BY <1>i DEF SourcesInv, StopIsTheEnd
<1>3. ASSUME NEW i \in DOMAIN ring
      PROVE  /\ channels[i].size \in Nat \ {0} /\ log[i] \in Seq(Texts)
             /\ RingOf(ring[i], log[i], channels[i].size)
  BY <1>i DEF ConfigInv, RingsInv, Accepted
<1>4. ChannelsTypeOK
  BY <1>3, <1>i, RingShows DEF ChannelsTypeOK, ConfigInv, Stages
<1>5. RingKeepsNewest
  <2>1. ASSUME NEW i \in DOMAIN ring
        PROVE  LET held == Snapshot(ring[i])
               IN  /\ TextsOf(held) = Buffered(i)
                   /\ ring[i].errCount = Cardinality(Failed(Buffered(i)))
                   /\ \A k \in DOMAIN held : held[k].seq = Len(log[i]) - Len(held) + k - 1
    <3>1. \A size \in Nat \ {0}, L \in Seq(Texts) :
            RingOf(ring[i], L, size) =>
              LET end  == Newest(L, Min({size, Len(L)}))
                  held == Snapshot(ring[i])
              IN  /\ TextsOf(held) = end /\ ring[i].errCount = Cardinality(Failed(end))
                  /\ \A k \in DOMAIN held : held[k].seq = Len(L) - Len(held) + k - 1
      BY RingShows
    <3>2. QED
      BY <3>1, <1>3 DEF Buffered
  <2>2. \A i \in DOMAIN ring : ChannelInfo(i).errorCount = ring[i].errCount
    BY DEF ChannelInfo
  <2>3. QED
    BY <2>1, <2>2 DEF RingKeepsNewest
<1>6. QED
  BY <1>1, <1>2, <1>4, <1>5 DEF ChannelsAreSound

(* A configuration that is accepted runs; a ring holds the newest messages *)
(* of its channel and counts the errors among them, whatever came and in   *)
(* whatever order; and a stop is the end of every source.                  *)
THEOREM ChannelsStaySound == ChannelsSpec => []ChannelsAreSound
<1>1. ChannelsSpec => []ChannelsInv
  BY ChannelsInitInv, ChannelsInvStep, PTL DEF ChannelsSpec
<1>2. QED
  BY <1>1, ChannelsInvImplies, PTL
-----------------------------------------------------------------------------
(* Induction over a set of numbers, and what a recursive function computes. *)
LEMMA EveryNumber ==
  ASSUME NEW P \in SUBSET Nat, 0 \in P, \A n \in P : n + 1 \in P
  PROVE  P = Nat
<1> SUFFICES ASSUME P # Nat PROVE FALSE
  OBVIOUS
<1> DEFINE T == Nat \ P
<1>1. T \subseteq Nat /\ T # {}
  OBVIOUS
<1>2. IsWellFoundedOn(OpToRel(<, Nat), Nat)
  BY NatLessThanWellFounded
<1>3. PICK x \in T : \A y \in T : ~ (<<y, x>> \in OpToRel(<, Nat))
  BY <1>1, <1>2, WFMin
<1>4. \A y \in T : ~ (y < x)
  BY <1>1, <1>3 DEF OpToRel
<1>5. x # 0 /\ x - 1 \in Nat /\ x - 1 < x
  BY <1>1
<1>6. x - 1 \in P
  BY <1>4, <1>5
<1>7. (x - 1) + 1 \in P
  BY <1>6
<1> QED
  BY <1>7, <1>1

Recurses(f, A, a, n, h) ==
  f \in [0 .. n -> A] /\ f[0] = a /\ \A k \in 1 .. n : f[k] = h[<<k, f[k - 1]>>]

Steps(h, A, a, n) == n \in Nat /\ a \in A /\ h \in [(1 .. n) \X A -> A]

LEMMA RecursionEnds ==
  ASSUME NEW A, NEW a, NEW n, NEW h, Steps(h, A, a, n)
  PROVE  \E f : Recurses(f, A, a, n, h)
<1> USE DEF Recurses, Steps
<1> DEFINE P == {m \in Nat : m <= n =>
                   \E f \in [0 .. m -> A] : f[0] = a /\ \A k \in 1 .. m : f[k] = h[<<k, f[k - 1]>>]}
<1>1. 0 \in P
  <2>1. [k \in 0 .. 0 |-> a] \in [0 .. 0 -> A] /\ [k \in 0 .. 0 |-> a][0] = a
    OBVIOUS
  <2>2. \A f : \A k \in 1 .. 0 : f[k] = h[<<k, f[k - 1]>>]
    OBVIOUS
  <2>3. QED
    BY <2>1, <2>2
<1>2. ASSUME NEW m \in P PROVE m + 1 \in P
  <2> SUFFICES ASSUME m + 1 <= n
               PROVE  \E g \in [0 .. m + 1 -> A] : g[0] = a /\ \A k \in 1 .. m + 1 : g[k] = h[<<k, g[k - 1]>>]
    OBVIOUS
  <2>1. m \in Nat /\ m <= n
    OBVIOUS
  <2>2. PICK f \in [0 .. m -> A] : f[0] = a /\ \A k \in 1 .. m : f[k] = h[<<k, f[k - 1]>>]
    BY <2>1
  <2> DEFINE g == [k \in 0 .. m + 1 |-> IF k = m + 1 THEN h[<<m + 1, f[m]>>] ELSE f[k]]
  <2>3. m \in 0 .. m /\ m + 1 \in 1 .. n
    BY <2>1
  <2>4. h[<<m + 1, f[m]>>] \in A
    BY <2>2, <2>3
  <2>5. g \in [0 .. m + 1 -> A]
    <3>1. \A k \in 0 .. m + 1 : k = m + 1 \/ k \in 0 .. m
      BY <2>1
    <3>2. QED
      BY <2>2, <2>4, <3>1
  <2>6. g[0] = a
    BY <2>1, <2>2
  <2>7. ASSUME NEW k \in 1 .. m + 1 PROVE g[k] = h[<<k, g[k - 1]>>]
    <3>1. k - 1 \in 0 .. m /\ k - 1 # m + 1 /\ k \in 0 .. m + 1 /\ k - 1 \in 0 .. m + 1
      BY <2>1
    <3>2. g[k - 1] = f[k - 1]
      BY <3>1
    <3>3. CASE k = m + 1
      <4>1. k - 1 = m
        BY <3>3, <2>1
      <4>2. QED
        BY <3>1, <3>2, <3>3, <4>1
    <3>4. CASE k # m + 1
      <4>1. k \in 1 .. m
        BY <3>4, <2>1
      <4>2. QED
        BY <2>2, <3>1, <3>2, <3>4, <4>1
    <3>5. QED
      BY <3>3, <3>4
  <2> HIDE DEF g
  <2>8. QED
    BY <2>5, <2>6, <2>7
<1>3. P \in SUBSET Nat
  OBVIOUS
<1> HIDE DEF P
<1>4. n \in P
  BY <1>1, <1>2, <1>3, EveryNumber
<1>5. QED
  BY <1>4 DEF P

Bytes       == Nat \X (1 .. 3)
Inner       == {b \in Bytes : b[2] # 3}
Next1(b)    == IF b[2] = 3 THEN <<b[1] + 1, 1>> ELSE <<b[1], b[2] + 1>>
Below(a, b) == a[1] < b[1] \/ (a[1] = b[1] /\ a[2] < b[2])

(* What is in a file: whole lines, one after the other, the last one may   *)
(* be under way.                                                           *)
Rising(c) ==
  /\ c \in Seq(Bytes)
  /\ c # <<>> => c[1][2] = 1
  /\ \A q \in 2 .. Len(c) : c[q] = Next1(c[q - 1])
  /\ \A p, q \in 1 .. Len(c) : p < q => Below(c[p], c[q])

Past(g, b)     == \A n \in 1 .. Len(g) : g[n][1][1] < b[1]
GoodLine(t, n) == \/ t = << <<t[1][1], 1>>, <<t[1][1], 2>> >>
                  \/ n = 1 /\ t = << <<t[1][1], 2>> >>
GotForm(g) ==
  /\ g \in Seq(Seq(Bytes))
  /\ \A n \in 1 .. Len(g) : GoodLine(g[n], n)
  /\ \A m, n \in 1 .. Len(g) : m < n => g[m][1][1] < g[n][1][1]

(* The beginning of a line ends where the tail has read to.                *)
RestFits(r, g, p, c) ==
  /\ r = <<>> => p = 0 \/ c[p][2] = 3 \/ g = <<>>
  /\ r # <<>> =>
       /\ p > 0
       /\ \/ c[p][2] = 1 /\ r = << <<c[p][1], 1>> >>
          \/ c[p][2] = 2 /\ r = << <<c[p][1], 1>>, <<c[p][1], 2>> >>
          \/ c[p][2] = 2 /\ r = << <<c[p][1], 2>> >> /\ g = <<>>

ReadTo(g, r, p, c) ==
  /\ GotForm(g) /\ p \in 0 .. Len(c) /\ RestFits(r, g, p, c)
  /\ \A q \in p + 1 .. Len(c) : Past(g, c[q])

ReadStates == [got : Seq(Seq(Bytes)), rest : Seq(Inner)]

LEMMA TwoOf ==
  ASSUME NEW S, NEW u \in S, NEW v \in S
  PROVE  Append(<<u>>, v) = <<u, v>>
<1> DEFINE x == Append(<<u>>, v)
           y == <<u, v>>
<1>1. <<u>> \in Seq(S) /\ Len(<<u>>) = 1 /\ <<u>>[1] = u
  OBVIOUS
<1>2. x \in Seq(S) /\ Len(x) = 2 /\ x[1] = u /\ x[2] = v
  BY <1>1
<1>3. y \in Seq(S) /\ Len(y) = 2 /\ y[1] = u /\ y[2] = v
  OBVIOUS
<1> HIDE DEF x, y
<1>4. x = [i \in 1 .. 2 |-> x[i]] /\ y = [i \in 1 .. 2 |-> y[i]]
  BY <1>2, <1>3
<1>5. \A i \in 1 .. 2 : x[i] = y[i]
  BY <1>2, <1>3
<1>6. x = y
  BY <1>4, <1>5
<1> QED
  BY <1>6 DEF x, y

LEMMA TakeTypes ==
  ASSUME NEW s \in ReadStates, NEW b \in Bytes
  PROVE  /\ TakeByte(b, s) \in ReadStates
         /\ b[2] = 3 => /\ TakeByte(b, s).rest = <<>>
                        /\ TakeByte(b, s).got = IF s.rest = <<>> THEN s.got ELSE Append(s.got, s.rest)
         /\ b[2] # 3 => TakeByte(b, s).rest = Append(s.rest, b) /\ TakeByte(b, s).got = s.got
<1>1. s.got \in Seq(Seq(Bytes)) /\ s.rest \in Seq(Inner)
  BY DEF ReadStates
<1>2. s.rest \in Seq(Bytes)
  BY <1>1 DEF Inner
<1>3. CASE b[2] = 3
  <2>1. TakeByte(b, s) = [got |-> IF s.rest = <<>> THEN s.got ELSE Append(s.got, s.rest), rest |-> <<>>]
    BY <1>3 DEF TakeByte, IsNewline
  <2>2. Append(s.got, s.rest) \in Seq(Seq(Bytes))
    BY <1>1, <1>2
  <2>3. QED
    BY <2>1, <2>2, <1>1, <1>3 DEF ReadStates
<1>4. CASE b[2] # 3
  <2>1. TakeByte(b, s) = [got |-> s.got, rest |-> Append(s.rest, b)]
    BY <1>4 DEF TakeByte, IsNewline
  <2>2. b \in Inner
    BY <1>4 DEF Inner
  <2>3. Append(s.rest, b) \in Seq(Inner)
    BY <1>1, <2>2
  <2>4. QED
    BY <2>1, <2>3, <1>1, <1>4 DEF ReadStates
<1>5. QED
  BY <1>3, <1>4

(* A line that ends comes after all that came before, and before all that  *)
(* comes after its newline.                                                *)
LEMMA LineIsTaken ==
  ASSUME NEW g, GotForm(g), NEW r \in Seq(Bytes), r # <<>>, NEW l \in Nat, r[1][1] = l, GoodLine(r, Len(g) + 1),
         Past(g, <<l, 3>>)
  PROVE  /\ GotForm(Append(g, r))
         /\ \A b \in Bytes : Past(g, b) /\ l < b[1] => Past(Append(g, r), b)
<1> DEFINE k == Append(g, r)
<1>1. g \in Seq(Seq(Bytes)) /\ Len(g) \in Nat
  BY DEF GotForm
<1>2. k \in Seq(Seq(Bytes)) /\ Len(k) = Len(g) + 1 /\ k[Len(g) + 1] = r /\ \A n \in 1 .. Len(g) : k[n] = g[n]
  BY <1>1
<1> HIDE DEF k
<1>3. \A n \in 1 .. Len(k) : n \in 1 .. Len(g) \/ n = Len(g) + 1
  BY <1>1, <1>2
<1>4. \A n \in 1 .. Len(k) : GoodLine(k[n], n)
  BY <1>2, <1>3 DEF GotForm
<1>5. ASSUME NEW m \in 1 .. Len(k), NEW n \in 1 .. Len(k), m < n PROVE k[m][1][1] < k[n][1][1]
  <2>1. m \in 1 .. Len(g)
    BY <1>1, <1>2, <1>5
  <2>2. CASE n \in 1 .. Len(g)
    BY <2>1, <2>2, <1>2, <1>5 DEF GotForm
  <2>3. CASE n = Len(g) + 1
    <3>1. g[m][1][1] < l
      BY <2>1 DEF Past
    <3>2. QED
      BY <3>1, <2>1, <2>3, <1>2
  <2>4. QED
    BY <2>2, <2>3, <1>3
<1>6. GotForm(k)
  BY <1>2, <1>4, <1>5 DEF GotForm
<1>7. ASSUME NEW b \in Bytes, Past(g, b), l < b[1] PROVE Past(k, b)
  BY <1>2, <1>3, <1>7 DEF Past
<1>8. QED
  BY <1>6, <1>7 DEF k

LEMMA TakeOne ==
  ASSUME NEW c, Rising(c), NEW s \in ReadStates, NEW p \in Nat, p < Len(c), ReadTo(s.got, s.rest, p, c)
  PROVE  /\ ReadTo(TakeByte(c[p + 1], s).got, TakeByte(c[p + 1], s).rest, p + 1, c)
         /\ \A b \in Bytes : Past(s.got, b) /\ Below(c[p + 1], b) => Past(TakeByte(c[p + 1], s).got, b)
<1> DEFINE b1 == c[p + 1]
           t == TakeByte(b1, s)
           g == s.got
           r == s.rest
<1>1. c \in Seq(Bytes) /\ Len(c) \in Nat /\ p + 1 \in 1 .. Len(c) /\ b1 \in Bytes
  BY DEF Rising
<1>2. b1[1] \in Nat /\ b1[2] \in 1 .. 3 /\ b1 = <<b1[1], b1[2]>>
  BY <1>1 DEF Bytes
<1>3. /\ b1[2] = 3 => t.rest = <<>> /\ t.got = IF r = <<>> THEN g ELSE Append(g, r)
      /\ b1[2] # 3 => t.rest = Append(r, b1) /\ t.got = g
  BY <1>1, TakeTypes
<1>4. GotForm(g) /\ RestFits(r, g, p, c) /\ Past(g, b1) /\ r \in Seq(Inner) /\ r \in Seq(Bytes)
  BY <1>1 DEF ReadTo, ReadStates, Inner
<1>5. p > 0 => /\ p \in 1 .. Len(c) /\ c[p] \in Bytes /\ b1 = Next1(c[p])
               /\ c[p][1] \in Nat /\ c[p][2] \in 1 .. 3
  <2> SUFFICES ASSUME p > 0 PROVE p \in 1 .. Len(c) /\ c[p] \in Bytes /\ b1 = Next1(c[p])
    BY DEF Bytes
  <2>1. p \in 1 .. Len(c) /\ p + 1 \in 2 .. Len(c) /\ (p + 1) - 1 = p
    BY <1>1
  <2>2. QED
    BY <2>1, <1>1 DEF Rising
<1>6. p = 0 => b1[2] = 1
  <2> SUFFICES ASSUME p = 0 PROVE b1[2] = 1
    OBVIOUS
  <2>1. c # <<>> /\ b1 = c[1]
    BY <1>1
  <2>2. QED
    BY <2>1 DEF Rising
<1> HIDE DEF b1, t
<1>7. \A q \in p + 2 .. Len(c) : c[q] \in Bytes /\ Below(b1, c[q])
  <2>1. \A q \in p + 2 .. Len(c) : q \in 1 .. Len(c) /\ p + 1 < q
    BY <1>1
  <2>2. QED
    BY <2>1, <1>1 DEF Rising, b1
<1>8. \A q \in p + 2 .. Len(c) : Past(g, c[q])
  <2>1. \A q \in p + 2 .. Len(c) : q \in p + 1 .. Len(c)
    OBVIOUS
  <2>2. QED
    BY <2>1 DEF ReadTo
<1>9. CASE b1[2] = 3 /\ r # <<>>
  <2>1. p > 0 /\ b1 = Next1(c[p]) /\ c[p][2] = 2 /\ c[p][1] = b1[1]
        /\ (r = << <<b1[1], 1>>, <<b1[1], 2>> >> \/ (r = << <<b1[1], 2>> >> /\ g = <<>>))
    BY <1>2, <1>4, <1>5, <1>9 DEF RestFits, Next1
  <2>2. r[1][1] = b1[1]
    BY <2>1
  <2>3. GoodLine(r, Len(g) + 1)
    <3>1. g = <<>> => Len(g) + 1 = 1
      OBVIOUS
    <3>2. QED
      BY <3>1, <2>1, <2>2 DEF GoodLine
  <2>4. Past(g, <<b1[1], 3>>)
    BY <1>4 DEF Past
  <2>5. /\ GotForm(Append(g, r))
        /\ \A b \in Bytes : Past(g, b) /\ b1[1] < b[1] => Past(Append(g, r), b)
    BY <2>2, <2>3, <2>4, <1>2, <1>4, <1>9, LineIsTaken
  <2>6. t.got = Append(g, r) /\ t.rest = <<>>
    BY <1>3, <1>9
  <2>7. \A b \in Bytes : Below(b1, b) => b1[1] < b[1]
    BY <1>2, <1>9 DEF Below, Bytes
  <2>8. \A b \in Bytes : Past(g, b) /\ Below(b1, b) => Past(t.got, b)
    BY <2>5, <2>6, <2>7
  <2>9. RestFits(t.rest, t.got, p + 1, c)
    BY <2>6, <1>9 DEF RestFits, b1
  <2>10. \A q \in (p + 1) + 1 .. Len(c) : Past(t.got, c[q])
    <3>1. (p + 1) + 1 = p + 2
      OBVIOUS
    <3>2. QED
      BY <3>1, <2>8, <1>7, <1>8
  <2>11. ReadTo(t.got, t.rest, p + 1, c)
    BY <2>5, <2>6, <2>9, <2>10, <1>1 DEF ReadTo
  <2>12. QED
    BY <2>8, <2>11 DEF t, b1
<1>10. ASSUME t.got = g, RestFits(t.rest, g, p + 1, c)
       PROVE  /\ ReadTo(t.got, t.rest, p + 1, c)
              /\ \A b \in Bytes : Past(g, b) /\ Below(b1, b) => Past(t.got, b)
  <2>1. (p + 1) + 1 = p + 2
    OBVIOUS
  <2>2. QED
    BY <2>1, <1>1, <1>4, <1>8, <1>10 DEF ReadTo
<1>11. CASE b1[2] = 3 /\ r = <<>>
  <2>1. t.got = g /\ t.rest = <<>>
    BY <1>3, <1>11
  <2>2. RestFits(t.rest, g, p + 1, c)
    BY <2>1, <1>11 DEF RestFits, b1
  <2>3. QED
    BY <2>1, <2>2, <1>10 DEF t, b1
<1>12. CASE b1[2] # 3
  <2>1. t.got = g /\ t.rest = Append(r, b1)
    BY <1>3, <1>12
  <2>2. p + 1 > 0 /\ c[p + 1] = b1 /\ Append(r, b1) # <<>>
    BY <1>4, <1>1 DEF b1
  <2>3. CASE r = <<>>
    <3>1. Append(r, b1) = <<b1>>
      BY <2>3
    <3>2. b1[2] = 1 \/ (b1[2] = 2 /\ g = <<>>)
      BY <2>3, <1>2, <1>4, <1>5, <1>6, <1>12 DEF RestFits, Next1
    <3>3. <<b1>> = << <<b1[1], b1[2]>> >>
      BY <1>2
    <3>4. RestFits(Append(r, b1), g, p + 1, c)
      BY <3>1, <3>2, <3>3, <2>2 DEF RestFits
    <3>5. QED
      BY <3>4, <2>1, <1>10 DEF t, b1
  <2>4. CASE r # <<>>
    <3>1. p > 0 /\ b1 = Next1(c[p]) /\ c[p][2] = 1 /\ r = << <<c[p][1], 1>> >>
      BY <2>4, <1>2, <1>4, <1>5, <1>12 DEF RestFits, Next1
    <3>2. b1 = <<c[p][1], 2>> /\ b1[1] = c[p][1] /\ b1[2] = 2
      BY <3>1 DEF Next1
    <3>3. Append(r, b1) = << <<b1[1], 1>>, <<b1[1], 2>> >>
      <4>1. \A u, v \in Nat \X (1 .. 3) : Append(<<u>>, v) = <<u, v>>
        BY TwoOf
      <4>2. r = << <<b1[1], 1>> >> /\ b1 = <<b1[1], 2>>
        BY <3>1, <3>2
      <4>7. \A k \in Nat : <<k, 1>> \in Nat \X (1 .. 3) /\ <<k, 2>> \in Nat \X (1 .. 3)
        OBVIOUS
      <4>8. PICK u \in Nat \X (1 .. 3) : u = <<b1[1], 1>>
        BY <1>2, <4>7
      <4>9. PICK v \in Nat \X (1 .. 3) : v = <<b1[1], 2>>
        BY <1>2, <4>7
      <4>3. u = <<b1[1], 1>> /\ v = <<b1[1], 2>>
        BY <4>8, <4>9
      <4>4. r = <<u>> /\ b1 = v
        BY <4>2, <4>3
      <4>5. Append(r, b1) = <<u, v>>
        BY <4>1, <4>4
      <4>6. QED
        BY <4>3, <4>5
    <3> DEFINE x == Append(r, b1)
    <3>4. c[p + 1][1] = b1[1] /\ c[p + 1][2] = 2 /\ x # <<>> /\ p + 1 > 0
      BY <3>2, <2>2
    <3>6. x = << <<c[p + 1][1], 1>>, <<c[p + 1][1], 2>> >>
      BY <3>3, <3>4
    <3> HIDE DEF x
    <3>7. RestFits(x, g, p + 1, c)
      BY <3>4, <3>6 DEF RestFits
    <3>5. QED
      BY <3>7, <2>1, <1>10 DEF t, b1, x
  <2>5. QED
    BY <2>3, <2>4
<1>13. QED
  BY <1>9, <1>11, <1>12, <1>2

(* What a read makes of the bytes is what its steps make of them.          *)
TakenFits(f) ==
  /\ f \in [0 .. Unread -> ReadStates] /\ f[0] = [got |-> got, rest |-> rest]
  /\ \A n \in 1 .. Unread : f[n] = TakeByte(disk[file][offset + n], f[n - 1])

LEMMA UnreadBytes ==
  ASSUME disk[file] \in Seq(Bytes), offset \in Nat
  PROVE  /\ Unread \in Nat
         /\ \A n \in 1 .. Unread : offset + n \in 1 .. Len(disk[file]) /\ disk[file][offset + n] \in Bytes
         /\ offset <= Len(disk[file]) => offset + Unread = Len(disk[file])
<1>1. Len(disk[file]) \in Nat
  OBVIOUS
<1>2. CASE offset < Len(disk[file])
  <2>1. Unread = Len(disk[file]) - offset
    BY <1>2 DEF Unread
  <2>2. Unread \in Nat /\ offset + Unread = Len(disk[file])
    BY <2>1, <1>1, <1>2
  <2>3. \A n \in 1 .. Unread : offset + n \in 1 .. Len(disk[file])
    BY <2>1, <1>1, <1>2
  <2>4. QED
    BY <2>2, <2>3
<1>3. CASE ~(offset < Len(disk[file]))
  <2>1. Unread = 0
    BY <1>3 DEF Unread
  <2>2. QED
    BY <2>1, <1>1, <1>3
<1>4. QED
  BY <1>2, <1>3

LEMMA TakenBySteps ==
  ASSUME disk[file] \in Seq(Bytes), offset \in Nat, got \in Seq(Seq(Bytes)), rest \in Seq(Inner)
  PROVE  TakenFits(Taken)
<1> DEFINE L == Unread
           A == ReadStates
           a == [got |-> got, rest |-> rest]
           c == disk[file]
           h == [x \in (1 .. L) \X A |-> TakeByte(c[offset + x[1]], x[2])]
           Is(g) == g = [j \in 0 .. L |-> IF j = 0 THEN a ELSE TakeByte(c[offset + j], g[j - 1])]
           f == Taken
<1>1. L \in Nat /\ a \in A
  BY UnreadBytes DEF ReadStates
<1>2. \A j \in 1 .. L, s \in A : TakeByte(c[offset + j], s) \in A
  BY UnreadBytes, TakeTypes
<1>3. h \in [(1 .. L) \X A -> A]
  BY <1>2
<1>4. \A j \in 1 .. L, s \in A : h[<<j, s>>] = TakeByte(c[offset + j], s)
  OBVIOUS
<1> HIDE DEF h, A
<1>5. Steps(h, A, a, L)
  BY <1>1, <1>3 DEF Steps
<1>6. PICK g : Recurses(g, A, a, L, h)
  BY <1>5, RecursionEnds
<1>7. \A j \in 1 .. L : g[j] = TakeByte(c[offset + j], g[j - 1])
  <2> SUFFICES ASSUME NEW j \in 1 .. L PROVE g[j] = TakeByte(c[offset + j], g[j - 1])
    OBVIOUS
  <2>1. j - 1 \in 0 .. L
    BY <1>1
  <2>2. g[j - 1] \in A /\ g[j] = h[<<j, g[j - 1]>>]
    BY <2>1, <1>6 DEF Recurses
  <2>3. QED
    BY <2>2, <1>4
<1>8. Is(g)
  BY <1>1, <1>6, <1>7 DEF Recurses
<1>9. f = CHOOSE x : Is(x)
  BY DEF Taken
<1>10. Is(f)
  BY <1>8, <1>9
<1>11. f = g
  <2> DEFINE P == {n \in Nat : n <= L => f[n] = g[n]}
  <2>1. 0 \in P
    BY <1>1, <1>8, <1>10
  <2>2. ASSUME NEW n \in P PROVE n + 1 \in P
    <3> SUFFICES ASSUME n + 1 <= L PROVE f[n + 1] = g[n + 1]
      OBVIOUS
    <3>1. n \in Nat /\ n + 1 \in 1 .. L /\ n + 1 \in 0 .. L /\ n + 1 # 0 /\ (n + 1) - 1 = n /\ n <= L
      BY <1>1
    <3>2. f[n] = g[n]
      BY <3>1
    <3>3. f[n + 1] = TakeByte(c[offset + (n + 1)], f[n])
      BY <1>10, <3>1
    <3>4. g[n + 1] = TakeByte(c[offset + (n + 1)], g[n])
      BY <1>7, <3>1
    <3>5. QED
      BY <3>2, <3>3, <3>4
  <2>3. P \in SUBSET Nat
    OBVIOUS
  <2> HIDE DEF P
  <2>4. P = Nat
    BY <2>1, <2>2, <2>3, EveryNumber
  <2>5. \A n \in 0 .. L : f[n] = g[n]
    BY <2>4 DEF P
  <2>6. DOMAIN g = 0 .. L /\ DOMAIN f = 0 .. L
    BY <1>8, <1>10
  <2>7. g = [n \in 0 .. L |-> g[n]] /\ f = [n \in 0 .. L |-> f[n]]
    BY <1>8, <1>10
  <2> HIDE DEF f
  <2>8. QED
    BY <2>5, <2>7
<1> HIDE DEF f
<1>12. f \in [0 .. L -> A] /\ f[0] = a /\ \A n \in 1 .. L : f[n] = TakeByte(c[offset + n], f[n - 1])
  BY <1>6, <1>7, <1>11 DEF Recurses
<1>13. QED
  BY <1>12 DEF TakenFits, f, A

LEMMA ReadTypes ==
  ASSUME disk[file] \in Seq(Bytes), offset \in Nat, got \in Seq(Seq(Bytes)), rest \in Seq(Inner)
  PROVE  offset + Unread \in Nat /\ Taken[Unread].got \in Seq(Seq(Bytes)) /\ Taken[Unread].rest \in Seq(Inner)
<1>1. Unread \in 0 .. Unread /\ Unread \in Nat
  BY UnreadBytes
<1>2. Taken[Unread] \in ReadStates
  BY <1>1, TakenBySteps DEF TakenFits
<1>3. QED
  BY <1>1, <1>2 DEF ReadStates

(* The lines a read takes are whole, and follow the ones before.           *)
LEMMA ReadIsFaithful ==
  ASSUME Rising(disk[file]), offset \in Nat, rest \in Seq(Inner), ReadTo(got, rest, offset, disk[file])
  PROVE  /\ ReadTo(Taken[Unread].got, Taken[Unread].rest, offset + Unread, disk[file])
         /\ offset + Unread = Len(disk[file])
         /\ \A b \in Bytes : Past(got, b) /\ (\A q \in 1 .. Len(disk[file]) : Below(disk[file][q], b))
                               => Past(Taken[Unread].got, b)
<1> DEFINE c == disk[file]
           f == Taken
           L == Unread
           P == {n \in Nat : n <= L =>
                   /\ ReadTo(f[n].got, f[n].rest, offset + n, c)
                   /\ \A b \in Bytes : Past(got, b) /\ (\A q \in 1 .. Len(c) : Below(c[q], b)) => Past(f[n].got, b)}
<1>1. c \in Seq(Bytes) /\ got \in Seq(Seq(Bytes)) /\ offset <= Len(c) /\ Len(c) \in Nat
  BY DEF Rising, ReadTo, GotForm
<1>2. TakenFits(f) /\ L \in Nat /\ offset + L = Len(c)
      /\ \A n \in 1 .. L : offset + n \in 1 .. Len(c) /\ c[offset + n] \in Bytes
  BY <1>1, TakenBySteps, UnreadBytes
<1> HIDE DEF f, L
<1>3. f \in [0 .. L -> ReadStates] /\ f[0] = [got |-> got, rest |-> rest]
      /\ \A n \in 1 .. L : f[n] = TakeByte(c[offset + n], f[n - 1])
  BY <1>2 DEF TakenFits, L
<1>4. 0 \in P
  <2>1. f[0].got = got /\ f[0].rest = rest /\ offset + 0 = offset
    BY <1>3
  <2>2. QED
    BY <2>1
<1>5. ASSUME NEW n \in P PROVE n + 1 \in P
  <2> SUFFICES ASSUME n + 1 <= L
               PROVE  /\ ReadTo(f[n + 1].got, f[n + 1].rest, offset + (n + 1), c)
                      /\ \A b \in Bytes : Past(got, b) /\ (\A q \in 1 .. Len(c) : Below(c[q], b))
                                            => Past(f[n + 1].got, b)
    OBVIOUS
  <2> DEFINE s == f[n]
             p == offset + n
             t == TakeByte(c[p + 1], s)
  <2>1. n \in Nat /\ n <= L /\ n \in 0 .. L /\ n + 1 \in 1 .. L /\ (n + 1) - 1 = n
    BY <1>2
  <2>2. /\ ReadTo(s.got, s.rest, p, c)
        /\ \A b \in Bytes : Past(got, b) /\ (\A q \in 1 .. Len(c) : Below(c[q], b)) => Past(s.got, b)
    BY <2>1
  <2>3. s \in ReadStates /\ p \in Nat /\ p + 1 = offset + (n + 1) /\ p + 1 \in 1 .. Len(c)
    BY <2>1, <1>2, <1>3
  <2>4. f[n + 1] = t
    BY <2>1, <2>3, <1>3
  <2> HIDE DEF s, p, P, c
  <2>5. p < Len(c) /\ Rising(c)
    BY <2>3 DEF c
  <2>6. /\ ReadTo(t.got, t.rest, p + 1, c)
        /\ \A b \in Bytes : Past(s.got, b) /\ Below(c[p + 1], b) => Past(t.got, b)
    BY <2>2, <2>3, <2>5, TakeOne
  <2>7. QED
    BY <2>2, <2>3, <2>4, <2>6
<1>6. P \in SUBSET Nat
  OBVIOUS
<1> HIDE DEF P
<1>7. P = Nat
  BY <1>4, <1>5, <1>6, EveryNumber
<1>8. L \in P /\ L <= L
  BY <1>7, <1>2
<1>9. QED
  BY <1>8, <1>2 DEF P, f, L

(* The files hold whole lines in the order they were written, and those of *)
(* a newer file follow those of an older one.                              *)
Written ==
  /\ disk \in Seq(Seq(Bytes)) /\ line \in Bytes
  /\ path \in 0 .. Len(disk) /\ writer \in 0 .. Len(disk)
  /\ path # 0 => path = Len(disk)
Orders(d, w) ==
  /\ \A i \in 1 .. Len(d) : Rising(d[i]) /\ (i > w => d[i] = <<>>)
  /\ \A i, j \in 1 .. Len(d) : i < j =>
       \A p \in 1 .. Len(d[i]), q \in 1 .. Len(d[j]) : d[i][p][1] < d[j][q][1]
Ordered == Orders(disk, writer)
AllBelow ==
  /\ \A i \in 1 .. Len(disk) : \A q \in 1 .. Len(disk[i]) : Below(disk[i][q], line)
  /\ \A i \in 1 .. Len(disk) : i < writer => \A q \in 1 .. Len(disk[i]) : disk[i][q][1] < line[1]
WriterAt ==
  /\ writer = 0 \/ disk[writer] = <<>> => line[2] = 1
  /\ writer # 0 /\ disk[writer] # <<>> => line = Next1(disk[writer][Len(disk[writer])])

DiskOK == Written /\ Ordered /\ AllBelow /\ WriterAt

LEMMA LineIsPair == \A b \in Bytes : b[1] \in Nat /\ b[2] \in 1 .. 3 /\ b = <<b[1], b[2]>>
BY DEF Bytes

LEMMA PairIsByte ==
  ASSUME NEW k \in Nat, NEW m \in 1 .. 3
  PROVE  <<k, m>> \in Bytes /\ <<k, m>>[1] = k /\ <<k, m>>[2] = m
BY DEF Bytes

LEMMA NextIsByte ==
  ASSUME NEW b \in Bytes
  PROVE  Next1(b) \in Bytes /\ Below(b, Next1(b)) /\ b[1] <= Next1(b)[1]
<1>1. b[1] \in Nat /\ b[2] \in 1 .. 3
  BY LineIsPair
<1>2. \A x \in Bytes, k \in Nat, m \in 1 .. 3 :
        x = <<k, m>> /\ (k = b[1] + 1 \/ (k = b[1] /\ m = b[2] + 1)) => Below(b, x) /\ b[1] <= x[1]
  BY <1>1, PairIsByte DEF Below
<1>3. CASE b[2] = 3
  <2>1. Next1(b) = <<b[1] + 1, 1>> /\ b[1] + 1 \in Nat /\ 1 \in 1 .. 3
    BY <1>1, <1>3 DEF Next1
  <2>2. Next1(b) \in Bytes
    BY <2>1, PairIsByte
  <2>3. QED
    BY <2>1, <2>2, <1>2
<1>4. CASE b[2] # 3
  <2>1. Next1(b) = <<b[1], b[2] + 1>> /\ b[2] + 1 \in 1 .. 3
    BY <1>1, <1>4 DEF Next1
  <2>2. Next1(b) \in Bytes
    BY <2>1, <1>1, PairIsByte
  <2>3. QED
    BY <2>1, <2>2, <1>1, <1>2
<1>5. QED
  BY <1>3, <1>4

LEMMA BelowGoesOn ==
  \A a, b, c \in Bytes : Below(a, b) /\ Below(b, c) => Below(a, c)
BY LineIsPair DEF Below

(* A byte more.                                                            *)
LEMMA OneByteMore ==
  ASSUME NEW c, Rising(c), NEW b \in Bytes, \A q \in 1 .. Len(c) : Below(c[q], b),
         c = <<>> => b[2] = 1, c # <<>> => b = Next1(c[Len(c)])
  PROVE  Rising(Append(c, b))
<1> DEFINE k == Append(c, b)
<1>1. c \in Seq(Bytes) /\ Len(c) \in Nat
  BY DEF Rising
<1>2. k \in Seq(Bytes) /\ Len(k) = Len(c) + 1 /\ k[Len(c) + 1] = b /\ \A n \in 1 .. Len(c) : k[n] = c[n]
  BY <1>1
<1> HIDE DEF k
<1>3. k[1][2] = 1
  <2>1. CASE c = <<>>
    <3>1. Len(c) + 1 = 1
      BY <2>1
    <3>2. QED
      BY <3>1, <2>1, <1>2
  <2>2. CASE c # <<>>
    <3>1. 1 \in 1 .. Len(c)
      BY <2>2, <1>1
    <3>2. QED
      BY <3>1, <2>2, <1>2 DEF Rising
  <2>3. QED
    BY <2>1, <2>2
<1>4. ASSUME NEW q \in 2 .. Len(k) PROVE k[q] = Next1(k[q - 1])
  <2>1. q - 1 \in 1 .. Len(c) /\ (q \in 2 .. Len(c) \/ q = Len(c) + 1)
    BY <1>1, <1>2
  <2>2. k[q - 1] = c[q - 1]
    BY <2>1, <1>2
  <2>3. CASE q \in 2 .. Len(c)
    <3>1. q \in 1 .. Len(c) /\ c[q] = Next1(c[q - 1])
      BY <2>3 DEF Rising
    <3>2. QED
      BY <3>1, <2>2, <1>2
  <2>4. CASE q = Len(c) + 1
    <3>1. q - 1 = Len(c) /\ c # <<>>
      BY <2>1, <2>4, <1>1
    <3>2. QED
      BY <3>1, <2>2, <2>4, <1>2
  <2>5. QED
    BY <2>1, <2>3, <2>4
<1>5. ASSUME NEW p \in 1 .. Len(k), NEW q \in 1 .. Len(k), p < q PROVE Below(k[p], k[q])
  <2>1. p \in 1 .. Len(c) /\ (q \in 1 .. Len(c) \/ q = Len(c) + 1)
    BY <1>1, <1>2, <1>5
  <2>2. CASE q \in 1 .. Len(c)
    BY <2>1, <2>2, <1>2, <1>5 DEF Rising
  <2>3. CASE q = Len(c) + 1
    BY <2>1, <2>3, <1>2
  <2>4. QED
    BY <2>1, <2>2, <2>3
<1>6. QED
  BY <1>2, <1>3, <1>4, <1>5 DEF Rising, k

LEMMA NothingRises == Rising(<<>>)
BY DEF Rising

LEMMA DiskInit == TailInit => DiskOK
<1> SUFFICES ASSUME TailInit PROVE DiskOK
  OBVIOUS
<1> USE DEF DiskOK, Written, Ordered, Orders, AllBelow, WriterAt
<1>0. 1 \in Nat /\ 1 \in 1 .. 3 /\ 2 \in 1 .. 3
  OBVIOUS
<1>1. <<1, 1>> \in Bytes /\ <<1, 2>> \in Bytes
  BY <1>0 DEF Bytes
<1>2. CASE disk = <<>> /\ path = 0 /\ line = <<1, 1>> /\ seekEnd = FALSE
  <2>1. line \in Bytes /\ Len(disk) = 0
    BY <1>1, <1>2
  <2>3. writer = 0
    BY <1>2 DEF TailInit
  <2>2. QED
    BY <2>1, <2>3, <1>2
<1>3. CASE disk = << << <<1, 1>> >> >> /\ path = 1 /\ line = <<1, 2>> /\ seekEnd = TRUE
  <2>0. line \in Bytes /\ <<1, 1>> \in Bytes
    BY <1>1, <1>3
  <2>14. writer = 1
    BY <1>3 DEF TailInit
  <2>1. line \in Bytes /\ <<1, 1>> \in Bytes /\ writer = 1
    BY <2>0, <2>14
  <2>2. << <<1, 1>> >> \in Seq(Bytes) /\ Len(<< <<1, 1>> >>) = 1 /\ << <<1, 1>> >>[1] = <<1, 1>>
    BY <2>1
  <2>3. disk \in Seq(Seq(Bytes)) /\ Len(disk) = 1 /\ disk[1] = << <<1, 1>> >>
    BY <2>2, <1>3
  <2>4. Rising(<< <<1, 1>> >>)
    BY <2>2 DEF Rising
  <2>5. line[1] = 1 /\ line[2] = 2 /\ line = Next1(<<1, 1>>)
    BY <1>3 DEF Next1
  <2>6. Below(<<1, 1>>, line)
    BY <2>5 DEF Below
  <2>7. \A i \in 1 .. Len(disk) : i = 1
    BY <2>3
  <2>8. disk[writer] # <<>> /\ disk[writer][Len(disk[writer])] = <<1, 1>>
    BY <2>1, <2>2, <2>3
  <2>9. Written
    BY <2>1, <2>3, <1>3
  <2>10. Ordered
    BY <2>1, <2>3, <2>4, <2>7
  <2>11. AllBelow
    BY <2>1, <2>2, <2>3, <2>6, <2>7
  <2>12. WriterAt
    BY <2>1, <2>5, <2>8
  <2>13. QED
    BY <2>9, <2>10, <2>11, <2>12
<1>4. QED
  BY <1>2, <1>3 DEF TailInit

(* The byte the writer adds, and where the line goes from there.           *)
LEMMA WriteGrows ==
  ASSUME DiskOK, Write
  PROVE  /\ Len(disk') = Len(disk) /\ writer \in 1 .. Len(disk) /\ disk' \in Seq(Seq(Bytes))
         /\ disk'[writer] = Append(disk[writer], line) /\ \A i \in 1 .. Len(disk) : i # writer => disk'[i] = disk[i]
         /\ line' = Next1(line) /\ line' \in Bytes /\ Below(line, line') /\ line[1] <= line'[1]
         /\ Len(disk'[writer]) = Len(disk[writer]) + 1 /\ Len(disk[writer]) \in Nat
         /\ disk'[writer][Len(disk[writer]) + 1] = line
         /\ \A q \in 1 .. Len(disk[writer]) : disk'[writer][q] = disk[writer][q]
<1>1. disk \in Seq(Seq(Bytes)) /\ line \in Bytes /\ writer \in 1 .. Len(disk)
  BY DEF DiskOK, Written, Write
<1>2. disk[writer] \in Seq(Bytes)
  BY <1>1
<1> DEFINE k == Append(disk[writer], line)
<1>3. k \in Seq(Bytes) /\ Len(k) = Len(disk[writer]) + 1 /\ k[Len(disk[writer]) + 1] = line
      /\ \A q \in 1 .. Len(disk[writer]) : k[q] = disk[writer][q]
  BY <1>1, <1>2
<1>4. disk' = [disk EXCEPT ![writer] = k]
  BY DEF Write
<1> HIDE DEF k
<1>5. disk' \in Seq(Seq(Bytes)) /\ Len(disk') = Len(disk) /\ disk'[writer] = k
      /\ \A i \in 1 .. Len(disk) : i # writer => disk'[i] = disk[i]
  BY <1>1, <1>3, <1>4
<1>6. line' = Next1(line)
  BY DEF Write, Next1
<1>7. line' \in Bytes /\ Below(line, line') /\ line[1] <= line'[1]
  BY <1>1, <1>6, NextIsByte
<1>8. Len(disk[writer]) \in Nat
  BY <1>2
<1>9. QED
  BY <1>1, <1>3, <1>5, <1>6, <1>7, <1>8 DEF k

LEMMA DiskWrite ==
  ASSUME DiskOK, Write
  PROVE  DiskOK'
<1> DEFINE w == writer
           m == Len(disk[w])
<1>1. /\ Len(disk') = Len(disk) /\ w \in 1 .. Len(disk) /\ disk' \in Seq(Seq(Bytes))
      /\ disk'[w] = Append(disk[w], line) /\ \A i \in 1 .. Len(disk) : i # w => disk'[i] = disk[i]
      /\ line' = Next1(line) /\ line' \in Bytes /\ Below(line, line') /\ line[1] <= line'[1]
      /\ Len(disk'[w]) = m + 1 /\ m \in Nat
      /\ disk'[w][m + 1] = line
      /\ \A q \in 1 .. m : disk'[w][q] = disk[w][q]
  BY WriteGrows
<1>2. writer' = w /\ path' = path
  BY DEF Write
<1>3. disk \in Seq(Seq(Bytes)) /\ line \in Bytes /\ path \in 0 .. Len(disk) /\ (path # 0 => path = Len(disk))
  BY DEF DiskOK, Written
<1>4. Rising(disk[w]) /\ \A q \in 1 .. m : Below(disk[w][q], line)
  BY <1>1 DEF DiskOK, Ordered, Orders, AllBelow
<1>5. (disk[w] = <<>> => line[2] = 1) /\ (disk[w] # <<>> => line = Next1(disk[w][m]))
  BY <1>1 DEF DiskOK, WriterAt
<1>6. Rising(disk'[w])
  BY <1>1, <1>3, <1>4, <1>5, OneByteMore
<1>7. \A i \in 1 .. Len(disk) : \A q \in 1 .. Len(disk[i]) :
        disk[i][q] \in Bytes /\ disk[i][q][1] \in Nat /\ Below(disk[i][q], line)
  <2>1. \A i \in 1 .. Len(disk) : \A q \in 1 .. Len(disk[i]) : disk[i] \in Seq(Bytes) /\ disk[i][q] \in Bytes
    BY <1>3
  <2>2. QED
    BY <2>1, LineIsPair DEF DiskOK, AllBelow
<1>8. \A i \in 1 .. Len(disk) : i < w => \A q \in 1 .. Len(disk[i]) : disk[i][q][1] < line[1]
  BY <1>1 DEF DiskOK, AllBelow
<1>9. \A i \in 1 .. Len(disk) : i > w => disk[i] = <<>>
  BY <1>1 DEF DiskOK, Ordered, Orders
<1>10. line[1] \in Nat /\ line'[1] \in Nat
  BY <1>1, <1>3, LineIsPair
<1>11. \A i, j \in 1 .. Len(disk) : i < j =>
         \A p \in 1 .. Len(disk[i]), q \in 1 .. Len(disk[j]) : disk[i][p][1] < disk[j][q][1]
  BY DEF DiskOK, Ordered, Orders
<1>12. \A q \in 1 .. m + 1 : q \in 1 .. m \/ q = m + 1
  BY <1>1
<1>20. Written'
  BY <1>1, <1>2, <1>3 DEF Written
<1>21. Ordered'
  <2>1. ASSUME NEW i \in 1 .. Len(disk) PROVE Rising(disk'[i]) /\ (i > w => disk'[i] = <<>>)
    <3>1. CASE i = w
      BY <3>1, <1>1, <1>6
    <3>2. CASE i # w
      <4>1. Rising(disk[i])
        BY DEF DiskOK, Ordered, Orders
      <4>2. QED
        BY <4>1, <3>2, <1>1, <1>9
    <3>3. QED
      BY <3>1, <3>2
  <2>2. ASSUME NEW i \in 1 .. Len(disk), NEW j \in 1 .. Len(disk), i < j,
               NEW p \in 1 .. Len(disk'[i]), NEW q \in 1 .. Len(disk'[j])
        PROVE  disk'[i][p][1] < disk'[j][q][1]
    <3>1. CASE i # w /\ j # w
      BY <3>1, <2>2, <1>1, <1>11
    <3>2. CASE i = w
      <4>1. j > w /\ j # w
        BY <3>2, <2>2, <1>1
      <4>2. disk'[j] = <<>>
        BY <4>1, <1>1, <1>9
      <4>3. Len(disk'[j]) = 0
        BY <4>2
      <4>4. QED
        BY <4>3
    <3>3. CASE j = w
      <4>1. i # w /\ i < w /\ disk'[i] = disk[i]
        BY <3>3, <2>2, <1>1
      <4>2. CASE q \in 1 .. m
        BY <4>1, <4>2, <3>3, <2>2, <1>1, <1>11
      <4>3. CASE q = m + 1
        BY <4>1, <4>3, <3>3, <1>1, <1>8
      <4>4. QED
        BY <4>2, <4>3, <3>3, <1>1, <1>12
    <3>4. QED
      BY <3>1, <3>2, <3>3
  <2>3. QED
    BY <2>1, <2>2, <1>1, <1>2 DEF Ordered, Orders
<1>22. AllBelow'
  <2>1. ASSUME NEW i \in 1 .. Len(disk), NEW q \in 1 .. Len(disk'[i]) PROVE Below(disk'[i][q], line')
    <3>1. CASE i = w /\ q = m + 1
      BY <3>1, <1>1
    <3>2. CASE i # w \/ q # m + 1
      <4>1. q \in 1 .. Len(disk[i]) /\ disk'[i][q] = disk[i][q]
        BY <3>2, <1>1, <1>12
      <4>2. QED
        BY <4>1, <1>1, <1>3, <1>7, BelowGoesOn, SMTT(20)
    <3>3. QED
      BY <3>1, <3>2
  <2>2. ASSUME NEW i \in 1 .. Len(disk), i < w, NEW q \in 1 .. Len(disk'[i]) PROVE disk'[i][q][1] < line'[1]
    <3>1. i # w /\ disk'[i] = disk[i]
      BY <2>2, <1>1
    <3>2. disk[i][q][1] < line[1] /\ disk[i][q][1] \in Nat
      BY <3>1, <2>2, <1>7, <1>8
    <3>3. QED
      BY <3>1, <3>2, <1>1, <1>10, SMTT(20)
  <2>3. QED
    BY <2>1, <2>2, <1>1, <1>2 DEF AllBelow
<1>23. WriterAt'
  <2>1. writer' # 0 /\ disk'[w] # <<>>
    <3>1. Len(disk'[w]) # 0
      BY <1>1
    <3>2. disk'[w] # <<>>
      BY <3>1
    <3>3. writer' = writer /\ writer # 0
      BY <1>1, <1>2
    <3>4. QED
      BY <3>2, <3>3
  <2>2. line' = Next1(disk'[w][Len(disk'[w])])
    BY <1>1
  <2>3. QED
    BY <2>1, <2>2, <1>2 DEF WriterAt
<1>24. QED
  BY <1>20, <1>21, <1>22, <1>23 DEF DiskOK

LEMMA DiskReopen ==
  ASSUME DiskOK, Reopen
  PROVE  DiskOK'
<1>1. writer' = path /\ disk' = disk /\ line' = line /\ path' = path /\ path # 0 /\ writer # path /\ line[2] = 1
  BY DEF Reopen, AtNewLine
<1>2. /\ disk \in Seq(Seq(Bytes)) /\ line \in Bytes /\ path \in 0 .. Len(disk) /\ writer \in 0 .. Len(disk)
      /\ path = Len(disk) /\ writer < path
  BY <1>1 DEF DiskOK, Written
<1>3. disk[path] = <<>>
  BY <1>2 DEF DiskOK, Ordered, Orders
<1>4. ASSUME NEW i \in 1 .. Len(disk), i < path, NEW q \in 1 .. Len(disk[i]) PROVE disk[i][q][1] < line[1]
  <2>1. disk[i] \in Seq(Bytes) /\ disk[i][q] \in Bytes
    BY <1>2
  <2>2. Below(disk[i][q], line)
    BY DEF DiskOK, AllBelow
  <2>3. \A x, y \in Bytes : Below(x, y) /\ y[2] = 1 => x[1] < y[1]
    BY LineIsPair DEF Below
  <2>4. QED
    BY <2>1, <2>2, <2>3, <1>1, <1>2
<1>5. Written'
  BY <1>1, <1>2 DEF Written
<1>6. Ordered'
  <2>1. \A i \in 1 .. Len(disk) : ~(i > path)
    BY <1>2
  <2>2. QED
    BY <2>1, <1>1 DEF DiskOK, Ordered, Orders
<1>7. AllBelow'
  BY <1>1, <1>4 DEF DiskOK, AllBelow
<1>8. WriterAt'
  BY <1>1, <1>3 DEF WriterAt
<1>9. QED
  BY <1>5, <1>6, <1>7, <1>8 DEF DiskOK

LEMMA DiskAlone ==
  ASSUME DiskOK, UNCHANGED <<disk, writer, line>>, path' \in 0 .. Len(disk), path' # 0 => path' = Len(disk)
  PROVE  DiskOK'
<1>1. Written'
  BY DEF DiskOK, Written
<1>2. Ordered'
  BY DEF DiskOK, Ordered
<1>3. AllBelow'
  BY DEF DiskOK, AllBelow
<1>4. WriterAt'
  BY DEF DiskOK, WriterAt
<1>5. QED
  BY <1>1, <1>2, <1>3, <1>4 DEF DiskOK

LEMMA DiskRename ==
  ASSUME DiskOK, Rename
  PROVE  DiskOK'
<1>1. path' = 0 /\ UNCHANGED <<disk, writer, line>>
  BY DEF Rename
<1>2. 0 \in 0 .. Len(disk)
  BY DEF DiskOK, Written
<1>3. QED
  BY <1>1, <1>2, DiskAlone

LEMMA CreateGrows ==
  ASSUME DiskOK, Create
  PROVE  /\ Len(disk') = Len(disk) + 1 /\ Len(disk) \in Nat /\ disk' \in Seq(Seq(Bytes))
         /\ disk'[Len(disk) + 1] = <<>> /\ \A i \in 1 .. Len(disk) : disk'[i] = disk[i]
         /\ path = 0 /\ path' = Len(disk) + 1 /\ writer' = writer /\ line' = line
         /\ \A i \in 1 .. Len(disk) + 1 : i \in 1 .. Len(disk) \/ i = Len(disk) + 1
<1>1. disk \in Seq(Seq(Bytes)) /\ Len(disk) \in Nat
  BY DEF DiskOK, Written
<1>2. disk' = Append(disk, <<>>) /\ path' = Len(disk) + 1 /\ path = 0 /\ writer' = writer /\ line' = line
  BY DEF Create
<1>3. <<>> \in Seq(Bytes)
  OBVIOUS
<1>4. QED
  BY <1>1, <1>2, <1>3

LEMMA DiskCreate ==
  ASSUME DiskOK, Create
  PROVE  DiskOK'
<1> DEFINE m == Len(disk) + 1
<1>1. /\ Len(disk') = m /\ Len(disk) \in Nat /\ disk' \in Seq(Seq(Bytes))
      /\ disk'[m] = <<>> /\ \A i \in 1 .. Len(disk) : disk'[i] = disk[i]
      /\ path' = m /\ writer' = writer /\ line' = line
      /\ \A i \in 1 .. m : i \in 1 .. Len(disk) \/ i = m
  BY CreateGrows
<1>2. line \in Bytes /\ writer \in 0 .. Len(disk)
  BY DEF DiskOK, Written
<1>3. Len(disk'[m]) = 0
  BY <1>1
<1>4. Written'
  BY <1>1, <1>2 DEF Written
<1>5. Ordered'
  <2>1. ASSUME NEW i \in 1 .. m PROVE Rising(disk'[i]) /\ (i > writer => disk'[i] = <<>>)
    BY <1>1, NothingRises DEF DiskOK, Ordered, Orders
  <2>2. ASSUME NEW i \in 1 .. m, NEW j \in 1 .. m, i < j, NEW p \in 1 .. Len(disk'[i]), NEW q \in 1 .. Len(disk'[j])
        PROVE  disk'[i][p][1] < disk'[j][q][1]
    <3>1. i \in 1 .. Len(disk) /\ j \in 1 .. Len(disk)
      BY <2>2, <1>1, <1>3, SMTT(20)
    <3>2. QED
      BY <3>1, <2>2, <1>1 DEF DiskOK, Ordered, Orders
  <2>3. QED
    BY <2>1, <2>2, <1>1 DEF Ordered, Orders
<1>6. AllBelow'
  <2>1. ASSUME NEW i \in 1 .. m, NEW q \in 1 .. Len(disk'[i])
        PROVE  Below(disk'[i][q], line') /\ (i < writer => disk'[i][q][1] < line'[1])
    <3>1. i \in 1 .. Len(disk)
      BY <1>1, <1>3
    <3>2. QED
      BY <3>1, <1>1 DEF DiskOK, AllBelow
  <2>2. QED
    BY <2>1, <1>1 DEF AllBelow
<1>7. WriterAt'
  <2>1. writer # 0 => writer \in 1 .. Len(disk)
    BY <1>2
  <2>2. writer # 0 => disk'[writer] = disk[writer]
    BY <2>1, <1>1
  <2>3. QED
    BY <2>2, <1>1 DEF DiskOK, WriterAt
<1>8. QED
  BY <1>4, <1>5, <1>6, <1>7 DEF DiskOK

LEMMA TruncateEmpties ==
  ASSUME DiskOK, Truncate
  PROVE  /\ Len(disk') = Len(disk) /\ path \in 1 .. Len(disk) /\ path = Len(disk) /\ writer = path
         /\ disk' \in Seq(Seq(Bytes)) /\ disk'[path] = <<>> /\ Len(disk'[path]) = 0
         /\ \A i \in 1 .. Len(disk) : i # path => disk'[i] = disk[i]
         /\ path' = path /\ writer' = writer /\ line' = line /\ line[2] = 1
<1>1. disk \in Seq(Seq(Bytes)) /\ path \in 1 .. Len(disk) /\ path = Len(disk)
  BY DEF DiskOK, Written, Truncate
<1>2. disk' = [disk EXCEPT ![path] = <<>>] /\ path' = path /\ writer' = writer /\ line' = line /\ writer = path
      /\ line[2] = 1
  BY DEF Truncate, AtNewLine
<1>3. <<>> \in Seq(Bytes) /\ Len(<<>>) = 0
  OBVIOUS
<1>4. QED
  BY <1>1, <1>2, <1>3

LEMMA DiskTruncate ==
  ASSUME DiskOK, Truncate
  PROVE  DiskOK'
<1>1. /\ Len(disk') = Len(disk) /\ path \in 1 .. Len(disk) /\ path = Len(disk) /\ writer = path
      /\ disk' \in Seq(Seq(Bytes)) /\ disk'[path] = <<>> /\ Len(disk'[path]) = 0
      /\ \A i \in 1 .. Len(disk) : i # path => disk'[i] = disk[i]
      /\ path' = path /\ writer' = writer /\ line' = line /\ line[2] = 1
  BY TruncateEmpties
<1>2. line \in Bytes /\ path # 0
  BY <1>1 DEF DiskOK, Written
<1>3. Written'
  BY <1>1, <1>2 DEF Written
<1>4. Ordered'
  <2>1. ASSUME NEW i \in 1 .. Len(disk) PROVE Rising(disk'[i]) /\ (i > writer => disk'[i] = <<>>)
    <3>1. CASE i = path
      BY <3>1, <1>1, NothingRises
    <3>2. CASE i # path
      BY <3>2, <1>1 DEF DiskOK, Ordered, Orders
    <3>3. QED
      BY <3>1, <3>2
  <2>2. ASSUME NEW i \in 1 .. Len(disk), NEW j \in 1 .. Len(disk), i < j,
               NEW p \in 1 .. Len(disk'[i]), NEW q \in 1 .. Len(disk'[j])
        PROVE  disk'[i][p][1] < disk'[j][q][1]
    <3>1. i # path /\ j # path
      BY <1>1, SMTT(20)
    <3>2. QED
      BY <3>1, <2>2, <1>1 DEF DiskOK, Ordered, Orders
  <2>3. QED
    BY <2>1, <2>2, <1>1 DEF Ordered, Orders
<1>5. AllBelow'
  <2>1. ASSUME NEW i \in 1 .. Len(disk), NEW q \in 1 .. Len(disk'[i])
        PROVE  Below(disk'[i][q], line') /\ (i < writer => disk'[i][q][1] < line'[1])
    <3>1. i # path
      BY <1>1
    <3>2. QED
      BY <3>1, <1>1 DEF DiskOK, AllBelow
  <2>2. QED
    BY <2>1, <1>1 DEF AllBelow
<1>6. WriterAt'
  BY <1>1, <1>2 DEF WriterAt
<1>7. QED
  BY <1>3, <1>4, <1>5, <1>6 DEF DiskOK

DiskStays == UNCHANGED <<disk, path, writer, line>>

LEMMA DiskStep ==
  ASSUME DiskOK, [TailNext]_tailVars
  PROVE  DiskOK'
<1>1. ASSUME DiskStays PROVE DiskOK'
  <2>1. path' \in 0 .. Len(disk) /\ (path' # 0 => path' = Len(disk))
    BY <1>1 DEF DiskStays, DiskOK, Written
  <2>2. QED
    BY <2>1, <1>1, DiskAlone DEF DiskStays
<1>2. CASE OpenFile \/ Check \/ Read \/ Poll \/ StopTail \/ UNCHANGED tailVars
  BY <1>1, <1>2 DEF DiskStays, OpenFile, Check, Read, Poll, StopTail, tailVars, diskVars
<1>3. QED
  BY <1>2, DiskWrite, DiskReopen, DiskRename, DiskCreate, DiskTruncate DEF TailNext, TailStep

(* The tail, whatever was truncated.                                       *)
TailTypes ==
  /\ tail \in {"open", "check", "read", "wait", "stopped"}
  /\ file \in 0 .. Len(disk) /\ offset \in Nat /\ rest \in Seq(Inner)
  /\ head \in Seq(Bytes) /\ Len(head) <= HeadLen
  /\ got \in Seq(Seq(Bytes))
  /\ file = 0 => offset = 0 /\ rest = <<>> /\ head = <<>>
  /\ seekEnd => got = <<>> /\ file = 0
  /\ tail = "read" => file # 0

LEMMA HeadOfFits ==
  ASSUME NEW c \in Seq(Bytes)
  PROVE  HeadOf(c) \in Seq(Bytes) /\ Len(HeadOf(c)) <= HeadLen /\ Begins(HeadOf(c), c)
<1>1. HeadLen \in Nat /\ Len(c) \in Nat
  BY TailAssumption
<1>2. PICK m : m = IF Len(c) < HeadLen THEN Len(c) ELSE HeadLen
  OBVIOUS
<1>3. m \in 0 .. Len(c) /\ m <= HeadLen
  BY <1>1, <1>2
<1>4. HeadOf(c) = SubSeq(c, 1, m)
  BY <1>2 DEF HeadOf
<1>5. SubSeq(c, 1, m) \in Seq(Bytes) /\ Len(SubSeq(c, 1, m)) = m /\ \A n \in 1 .. m : SubSeq(c, 1, m)[n] = c[n]
  BY <1>1, <1>3
<1>6. QED
  BY <1>1, <1>3, <1>4, <1>5 DEF Begins

LEMMA HeadBegins ==
  ASSUME NEW c \in Seq(Bytes), NEW h \in Seq(Bytes), Len(h) <= HeadLen
  PROVE  Begins(h, HeadOf(c)) <=> Begins(h, c)
<1>1. HeadLen \in Nat /\ Len(c) \in Nat /\ Len(h) \in Nat
  BY TailAssumption
<1>2. PICK m : m = IF Len(c) < HeadLen THEN Len(c) ELSE HeadLen
  OBVIOUS
<1>3. m \in 0 .. Len(c) /\ (Len(h) <= Len(c) <=> Len(h) <= m)
  BY <1>1, <1>2
<1>4. HeadOf(c) = SubSeq(c, 1, m)
  BY <1>2 DEF HeadOf
<1>5. PICK k : k = HeadOf(c)
  OBVIOUS
<1>6. k \in Seq(Bytes) /\ Len(k) = m /\ \A n \in 1 .. m : k[n] = c[n]
  BY <1>1, <1>3, <1>4, <1>5
<1>7. Len(h) <= m => \A n \in DOMAIN h : k[n] = c[n]
  BY <1>1, <1>3, <1>6
<1>8. Begins(h, k) <=> Begins(h, c)
  BY <1>3, <1>6, <1>7 DEF Begins
<1>9. QED
  BY <1>5, <1>8

LEMMA TypesStep ==
  ASSUME DiskOK, TailTypes, [TailNext]_tailVars
  PROVE  TailTypes'
<1>1. disk \in Seq(Seq(Bytes)) /\ path \in 0 .. Len(disk) /\ Len(disk) \in Nat
  BY DEF DiskOK, Written
<1>2. \A i \in 1 .. Len(disk) : disk[i] \in Seq(Bytes) /\ Len(disk[i]) \in Nat
  BY <1>1
<1>3. <<>> \in Seq(Inner) /\ <<>> \in Seq(Bytes) /\ Len(<<>>) = 0 /\ HeadLen \in Nat
  BY TailAssumption
<1>4. ASSUME Len(disk') \in Nat, Len(disk) <= Len(disk'), UNCHANGED <<tail, file, offset, rest, head, seekEnd, got>>
      PROVE  TailTypes'
  BY <1>1, <1>4 DEF TailTypes
<1>5. CASE Write
  BY <1>1, <1>4, <1>5, WriteGrows DEF Write
<1>6. CASE Reopen
  BY <1>1, <1>4, <1>6 DEF Reopen
<1>7. CASE Rename
  BY <1>1, <1>4, <1>7 DEF Rename
<1>8. CASE Create
  BY <1>1, <1>4, <1>8, CreateGrows DEF Create
<1>9. CASE Truncate
  BY <1>1, <1>4, <1>9, TruncateEmpties DEF Truncate
<1>10. CASE OpenFile
  <2>1. tail' = "check" /\ UNCHANGED <<disk, rest, got>>
    BY <1>10 DEF OpenFile, diskVars
  <2>2. CASE file = 0 /\ path # 0
    <3>1. /\ file' = path /\ head' = HeadOf(disk[path]) /\ offset' = IF seekEnd THEN Len(disk[path]) ELSE 0
          /\ seekEnd' = FALSE
      BY <2>2, <1>10 DEF OpenFile, Content
    <3>2. path \in 1 .. Len(disk)
      BY <2>2, <1>1
    <3>3. head' \in Seq(Bytes) /\ Len(head') <= HeadLen /\ offset' \in Nat
      BY <3>1, <3>2, <1>2, HeadOfFits
    <3>4. QED
      BY <2>1, <3>1, <3>2, <3>3 DEF TailTypes
  <2>3. CASE ~(file = 0 /\ path # 0)
    <3>1. UNCHANGED <<file, head, offset, seekEnd>>
      BY <2>3, <1>10 DEF OpenFile
    <3>2. QED
      BY <2>1, <3>1 DEF TailTypes
  <2>4. QED
    BY <2>2, <2>3
<1>11. CASE Check
  <2>1. UNCHANGED <<disk, seekEnd, got>>
    BY <1>11 DEF Check, diskVars
  <2>2. CASE file = 0
    BY <2>1, <2>2, <1>11 DEF Check, TailTypes
  <2>3. CASE file # 0 /\ path = file /\ SameContent
    <3>1. tail' = "read" /\ head' = HeadOf(disk[path]) /\ UNCHANGED <<file, offset, rest>>
      BY <2>3, <1>11 DEF Check, Content
    <3>2. path \in 1 .. Len(disk)
      BY <2>3, <1>1
    <3>3. head' \in Seq(Bytes) /\ Len(head') <= HeadLen
      BY <3>1, <3>2, <1>2, HeadOfFits
    <3>4. QED
      BY <2>1, <2>3, <3>1, <3>3 DEF TailTypes
  <2>4. CASE file # 0 /\ ~(path = file /\ SameContent)
    <3>1. tail' = "open" /\ file' = 0 /\ offset' = 0 /\ rest' = <<>> /\ head' = <<>>
      BY <2>4, <1>11 DEF Check, CloseFile
    <3>2. QED
      BY <2>1, <3>1, <1>1, <1>3 DEF TailTypes
  <2>5. QED
    BY <2>2, <2>3, <2>4
<1>12. CASE Read
  <2>1. /\ tail = "read" /\ tail' = "wait" /\ offset' = offset + Unread
        /\ got' = Taken[Unread].got /\ rest' = Taken[Unread].rest
        /\ UNCHANGED <<disk, file, head, seekEnd>>
    BY <1>12 DEF Read, diskVars
  <2>2. file \in 1 .. Len(disk) /\ ~seekEnd /\ offset \in Nat /\ got \in Seq(Seq(Bytes)) /\ rest \in Seq(Inner)
    BY <2>1, <1>1 DEF TailTypes
  <2>3. offset' \in Nat /\ got' \in Seq(Seq(Bytes)) /\ rest' \in Seq(Inner)
    BY <2>1, <2>2, <1>2, ReadTypes
  <2>4. QED
    BY <2>1, <2>2, <2>3 DEF TailTypes
<1>13. CASE Poll \/ StopTail
  BY <1>13 DEF Poll, StopTail, TailTypes, diskVars
<1>14. CASE UNCHANGED tailVars
  BY <1>14 DEF TailTypes, tailVars, diskVars
<1>15. QED
  BY <1>5, <1>6, <1>7, <1>8, <1>9, <1>10, <1>11, <1>12, <1>13, <1>14 DEF TailNext, TailStep

(* Where the tail is: with what is in its file, or, after a truncation it  *)
(* will see, with a fingerprint of lines that are gone.                    *)
FileCurrent ==
  Begins(head, disk[file]) /\ ReadTo(got, rest, offset, disk[file])
Stale ==
  /\ tail # "read" /\ head # <<>> /\ head[1][1] < line[1]
  /\ disk[file] # <<>> => head[1][1] < disk[file][1][1]
AllPast(c) == \A q \in 1 .. Len(c) : Past(got, c[q])

TailOK ==
  /\ GotForm(got) /\ Past(got, line)
  /\ file # 0 => FileCurrent \/ Stale
  /\ path # 0 => AllPast(disk[path]) \/ (path = file /\ FileCurrent)

LEMMA PastMore ==
  ASSUME NEW g \in Seq(Seq(Bytes)), GotForm(g), NEW a \in Bytes, NEW b \in Bytes, a[1] <= b[1], Past(g, a)
  PROVE  Past(g, b)
<1> SUFFICES ASSUME NEW n \in 1 .. Len(g) PROVE g[n][1][1] < b[1]
  BY DEF Past
<1>1. g[n][1][1] < a[1]
  BY DEF Past
<1>2. a[1] \in Nat /\ b[1] \in Nat
  BY LineIsPair
<1>3. g[n][1][1] \in Nat
  <2>1. g[n] \in Seq(Bytes)
    OBVIOUS
  <2>2. GoodLine(g[n], n)
    BY DEF GotForm
  <2>3. PICK t \in Seq(Bytes) : t = g[n]
    BY <2>1
  <2>4. t # <<>>
    BY <2>2, <2>3 DEF GoodLine
  <2>5. t[1] \in Bytes
    BY <2>4
  <2>6. t[1][1] \in Nat
    BY <2>5, LineIsPair
  <2>7. QED
    BY <2>3, <2>6
<1>4. QED
  BY <1>1, <1>2, <1>3

LEMMA TailGrows ==
  ASSUME NEW c \in Seq(Bytes), NEW k \in Seq(Bytes), NEW b, NEW g, NEW r, NEW p, ReadTo(g, r, p, c),
         Len(k) = Len(c) + 1, k[Len(c) + 1] = b, \A q \in 1 .. Len(c) : k[q] = c[q], Past(g, b)
  PROVE  ReadTo(g, r, p, k)
<1>1. p \in 0 .. Len(c) /\ Len(c) \in Nat
  BY DEF ReadTo
<1>2. p > 0 => k[p] = c[p]
  BY <1>1
<1>3. RestFits(r, g, p, c)
  BY DEF ReadTo
<1>4. RestFits(r, g, p, k)
  <2>1. CASE p > 0
    BY <2>1, <1>2, <1>3 DEF RestFits
  <2>2. CASE ~(p > 0)
    BY <2>2, <1>1, <1>3 DEF RestFits
  <2>3. QED
    BY <2>1, <2>2
<1>5. ASSUME NEW q \in p + 1 .. Len(k) PROVE Past(g, k[q])
  <2>1. q = Len(c) + 1 \/ (q \in 1 .. Len(c) /\ q \in p + 1 .. Len(c))
    BY <1>1
  <2>2. QED
    BY <2>1 DEF ReadTo
<1>6. p \in 0 .. Len(k) /\ GotForm(g)
  BY <1>1 DEF ReadTo
<1>7. QED
  BY <1>4, <1>5, <1>6 DEF ReadTo

(* What stands for the file goes on standing for it.                       *)
LEMMA CurrentStays ==
  ASSUME FileCurrent, file' = file, disk'[file] = disk[file], UNCHANGED <<offset, rest, head, got>>
  PROVE  FileCurrent'
<1>1. disk'[file'] = disk[file]
  OBVIOUS
<1>2. Begins(head', disk'[file']) /\ ReadTo(got', rest', offset', disk'[file'])
  BY <1>1 DEF FileCurrent
<1>3. QED
  BY <1>2 DEF FileCurrent

LEMMA TailWrite ==
  ASSUME DiskOK, TailTypes, TailOK, Write
  PROVE  TailOK'
<1> DEFINE w == writer
           m == Len(disk[w])
<1>1. /\ Len(disk') = Len(disk) /\ w \in 1 .. Len(disk) /\ disk' \in Seq(Seq(Bytes))
      /\ disk'[w] = Append(disk[w], line) /\ \A i \in 1 .. Len(disk) : i # w => disk'[i] = disk[i]
      /\ line' = Next1(line) /\ line' \in Bytes /\ Below(line, line') /\ line[1] <= line'[1]
      /\ Len(disk'[w]) = m + 1 /\ m \in Nat
      /\ disk'[w][m + 1] = line
      /\ \A q \in 1 .. m : disk'[w][q] = disk[w][q]
  BY WriteGrows
<1>2. UNCHANGED <<path, writer, tail, file, offset, rest, head, got>>
  BY DEF Write
<1>3. disk \in Seq(Seq(Bytes)) /\ line \in Bytes /\ path \in 0 .. Len(disk)
  BY DEF DiskOK, Written
<1>4. GotForm(got) /\ Past(got, line) /\ got \in Seq(Seq(Bytes)) /\ file \in 0 .. Len(disk)
      /\ head \in Seq(Bytes)
  BY DEF TailOK, TailTypes
<1>5. Past(got, line')
  BY <1>1, <1>3, <1>4, PastMore
<1>6. disk[w] \in Seq(Bytes) /\ disk'[w] \in Seq(Bytes)
  BY <1>1, <1>3
<1>7. ASSUME FileCurrent, file # 0 PROVE FileCurrent'
  <2>1. CASE file = w
    <3>1. ReadTo(got, rest, offset, disk'[w])
      BY <2>1, <1>1, <1>4, <1>6, <1>7, TailGrows DEF FileCurrent
    <3>2. Begins(head, disk'[w])
      <4>1. Len(head) <= m /\ \A n \in DOMAIN head : head[n] = disk[w][n]
        BY <2>1, <1>7 DEF FileCurrent, Begins
      <4>2. Len(head) \in Nat /\ DOMAIN head = 1 .. Len(head)
        BY <1>4
      <4>3. \A n \in DOMAIN head : head[n] = disk'[w][n]
        BY <4>1, <4>2, <1>1
      <4>4. Len(head) <= Len(disk'[w])
        BY <4>1, <4>2, <1>1
      <4>5. QED
        BY <4>3, <4>4 DEF Begins
    <3>3. QED
      BY <3>1, <3>2, <2>1, <1>2 DEF FileCurrent
  <2>2. CASE file # w
    <3>1. disk'[file] = disk[file]
      BY <2>2, <1>1, <1>4, <1>7
    <3>2. QED
      BY <3>1, <1>2, <1>7, CurrentStays
  <2>3. QED
    BY <2>1, <2>2
<1>8. ASSUME Stale, file # 0 PROVE Stale'
  <2>1. head # <<>> /\ head[1][1] < line[1] /\ head[1][1] \in Nat /\ line[1] \in Nat /\ line'[1] \in Nat
    <3>1. head # <<>> /\ head[1][1] < line[1]
      BY <1>8 DEF Stale
    <3>2. head[1] \in Bytes
      BY <3>1, <1>4
    <3>3. QED
      BY <3>1, <3>2, <1>1, <1>3, LineIsPair
  <2>2. head[1][1] < line'[1]
    BY <2>1, <1>1
  <2>3. head[1][1] < disk'[file][1][1] \/ disk'[file] = <<>>
    <3>1. CASE file # w
      <4>1. disk'[file] = disk[file]
        BY <3>1, <1>1, <1>4, <1>8
      <4>2. QED
        BY <4>1, <1>8 DEF Stale
    <3>2. CASE file = w /\ disk[w] = <<>>
      <4>1. m + 1 = 1
        BY <3>2
      <4>2. QED
        BY <4>1, <3>2, <2>1, <1>1
    <3>3. CASE file = w /\ disk[w] # <<>>
      <4>1. 1 \in 1 .. m
        BY <3>3, <1>6
      <4>2. QED
        BY <4>1, <3>3, <1>1, <1>8 DEF Stale
    <3>4. QED
      BY <3>1, <3>2, <3>3
  <2>4. QED
    BY <2>1, <2>2, <2>3, <1>2, <1>8 DEF Stale
<1>9. ASSUME path # 0, AllPast(disk[path]) PROVE AllPast(disk'[path])
  <2>1. CASE path = w
    <3>1. ASSUME NEW q \in 1 .. m + 1 PROVE Past(got, disk'[w][q])
      <4>1. q \in 1 .. m \/ q = m + 1
        BY <1>1
      <4>2. QED
        BY <4>1, <2>1, <1>1, <1>4, <1>9 DEF AllPast
    <3>2. QED
      BY <3>1, <2>1, <1>1 DEF AllPast
  <2>2. CASE path # w
    <3>1. disk'[path] = disk[path]
      BY <2>2, <1>1, <1>3, <1>9
    <3>2. QED
      BY <3>1, <1>9
  <2>3. QED
    BY <2>1, <2>2
<1>10. path' # 0 => AllPast(disk[path])' \/ (path' = file' /\ FileCurrent')
  <2> SUFFICES ASSUME path # 0 PROVE AllPast(disk[path])' \/ (path' = file' /\ FileCurrent')
    BY <1>2
  <2>1. AllPast(disk[path]) \/ (path = file /\ FileCurrent)
    BY DEF TailOK
  <2>2. AllPast(disk[path]) => AllPast(disk[path])'
    BY <1>2, <1>9 DEF AllPast
  <2>3. QED
    BY <2>1, <2>2, <1>2, <1>7
<1>11. file' # 0 => FileCurrent' \/ Stale'
  BY <1>2, <1>7, <1>8 DEF TailOK
<1>12. GotForm(got') /\ Past(got', line')
  BY <1>2, <1>4, <1>5
<1>13. QED
  BY <1>10, <1>11, <1>12 DEF TailOK

LEMMA TailReopen ==
  ASSUME DiskOK, TailTypes, TailOK, Reopen
  PROVE  TailOK'
<1>1. UNCHANGED <<disk, path, line, tail, file, offset, rest, head, got>>
  BY DEF Reopen
<1>2. QED
  BY <1>1 DEF TailOK, FileCurrent, Stale, AllPast

LEMMA TailRename ==
  ASSUME DiskOK, TailTypes, TailOK, Rename
  PROVE  TailOK'
<1>1. UNCHANGED <<disk, line, tail, file, offset, rest, head, got>> /\ path' = 0
  BY DEF Rename
<1>2. QED
  BY <1>1 DEF TailOK, FileCurrent, Stale

LEMMA TailCreate ==
  ASSUME DiskOK, TailTypes, TailOK, Create
  PROVE  TailOK'
<1>1. UNCHANGED <<line, tail, file, offset, rest, head, got>>
  BY DEF Create
<1>2. /\ \A i \in 1 .. Len(disk) : disk'[i] = disk[i]
      /\ disk'[path'] = <<>>
  BY CreateGrows
<1>3. file \in 0 .. Len(disk) /\ Len(disk) \in Nat
  BY DEF TailTypes, DiskOK, Written
<1>4. file # 0 => disk'[file] = disk[file]
  BY <1>2, <1>3
<1>5. AllPast(disk[path])'
  <2>1. Len(disk'[path']) = 0
    BY <1>2
  <2>2. QED
    BY <2>1 DEF AllPast
<1>6. FileCurrent /\ file # 0 => FileCurrent'
  BY <1>1, <1>4, CurrentStays
<1>7. Stale /\ file # 0 => Stale'
  <2> SUFFICES ASSUME Stale, file # 0 PROVE Stale'
    OBVIOUS
  <2>1. disk'[file'] = disk[file]
    BY <1>1, <1>4
  <2>2. QED
    BY <2>1, <1>1 DEF Stale
<1>8. QED
  BY <1>1, <1>5, <1>6, <1>7 DEF TailOK

LEMMA TailTruncate ==
  ASSUME DiskOK, TailTypes, TailOK, Truncate, ~unseen'
  PROVE  TailOK'
<1>1. /\ path \in 1 .. Len(disk) /\ disk'[path] = <<>> /\ Len(disk'[path]) = 0
      /\ \A i \in 1 .. Len(disk) : i # path => disk'[i] = disk[i]
      /\ path' = path /\ line' = line /\ line[2] = 1
  BY TruncateEmpties
<1>2. UNCHANGED <<tail, file, offset, rest, head, got>>
      /\ ~(file = path /\ (tail = "read" \/ (Len(head) < HeadLen /\ Len(head) < offset)))
  BY DEF Truncate
<1>3. /\ file \in 0 .. Len(disk) /\ Len(disk) \in Nat /\ offset \in Nat /\ head \in Seq(Bytes)
      /\ disk \in Seq(Seq(Bytes)) /\ line \in Bytes
  BY DEF TailTypes, DiskOK, Written
<1>4. AllPast(disk[path])'
  <2>1. Len(disk'[path']) = 0
    BY <1>1
  <2>2. QED
    BY <2>1 DEF AllPast
<1>5. GotForm(got') /\ Past(got', line')
  BY <1>1, <1>2 DEF TailOK
<1>6. CASE file # path
  <2>1. file # 0 => disk'[file] = disk[file]
    BY <1>1, <1>3, <1>6
  <2>2. FileCurrent /\ file # 0 => FileCurrent'
    BY <2>1, <1>2, CurrentStays
  <2>3. Stale /\ file # 0 => Stale'
    <3> SUFFICES ASSUME Stale, file # 0 PROVE Stale'
      OBVIOUS
    <3>1. disk'[file'] = disk[file]
      BY <2>1, <1>2
    <3>2. QED
      BY <3>1, <1>1, <1>2 DEF Stale
  <2>4. QED
    BY <2>2, <2>3, <1>2, <1>4, <1>5 DEF TailOK
<1>7. CASE file = path
  <2>1. tail # "read" /\ (Len(head) >= HeadLen \/ Len(head) >= offset) /\ file # 0 /\ disk'[file'] = <<>>
    <3>1. HeadLen \in Nat /\ Len(head) \in Nat
      BY <1>3, TailAssumption
    <3>2. QED
      BY <3>1, <1>1, <1>2, <1>3, <1>7
  <2>2. CASE Stale
    <3>1. Stale'
      BY <2>1, <2>2, <1>1, <1>2 DEF Stale
    <3>2. QED
      BY <3>1, <1>4, <1>5 DEF TailOK
  <2>3. CASE FileCurrent /\ head # <<>>
    <3>1. Len(head) > 0 /\ 1 \in DOMAIN head /\ Len(head) <= Len(disk[file])
      BY <2>3, <1>3 DEF FileCurrent, Begins
    <3>2. head[1] = disk[file][1] /\ disk[file] \in Seq(Bytes)
      BY <3>1, <2>3, <1>1, <1>3, <1>7 DEF FileCurrent, Begins
    <3>3. 1 \in 1 .. Len(disk[file]) /\ head[1] \in Bytes
      BY <3>1, <3>2, <1>3
    <3>4. Below(head[1], line)
      BY <3>2, <3>3, <1>1, <1>7 DEF DiskOK, AllBelow
    <3>5. \A x, y \in Bytes : Below(x, y) /\ y[2] = 1 => x[1] < y[1]
      BY LineIsPair DEF Below
    <3>6. head[1][1] < line[1]
      BY <3>3, <3>4, <3>5, <1>1, <1>3
    <3>7. Stale'
      BY <3>6, <2>1, <2>3, <1>1, <1>2 DEF Stale
    <3>8. QED
      BY <3>7, <1>4, <1>5 DEF TailOK
  <2>4. CASE FileCurrent /\ head = <<>>
    <3>1. offset = 0
      <4>1. Len(head) = 0 /\ HeadLen \in Nat \ {0}
        BY <2>4, TailAssumption
      <4>2. QED
        BY <4>1, <2>1, <1>3
    <3>2. rest = <<>> /\ GotForm(got)
      BY <3>1, <2>4 DEF FileCurrent, ReadTo, RestFits
    <3>3. ReadTo(got, rest, 0, <<>>)
      BY <3>2 DEF ReadTo, RestFits
    <3>4. Begins(<<>>, <<>>)
      BY DEF Begins
    <3>5. ReadTo(got', rest', offset', disk'[file'])
      BY <3>1, <3>3, <2>1, <1>2
    <3>6. Begins(head', disk'[file'])
      BY <3>4, <2>1, <2>4, <1>2
    <3>7. QED
      BY <3>5, <3>6, <1>4, <1>5 DEF TailOK, FileCurrent
  <2>5. FileCurrent \/ Stale
    BY <2>1 DEF TailOK
  <2>6. QED
    BY <2>2, <2>3, <2>4, <2>5
<1>8. QED
  BY <1>6, <1>7

LEMMA TailOpen ==
  ASSUME DiskOK, TailTypes, TailOK, OpenFile
  PROVE  TailOK'
<1>1. tail = "open" /\ tail' = "check" /\ UNCHANGED <<disk, path, line, rest, got>>
  BY DEF OpenFile, diskVars
<1>2. /\ disk \in Seq(Seq(Bytes)) /\ path \in 0 .. Len(disk)
  BY DEF DiskOK, Written
<1>3. CASE file = 0 /\ path # 0
  <2>1. file' = path /\ head' = HeadOf(disk[path]) /\ offset' = IF seekEnd THEN Len(disk[path]) ELSE 0
    BY <1>3 DEF OpenFile, Content
  <2>2. AllPast(disk[path]) /\ rest = <<>> /\ (seekEnd => got = <<>>) /\ GotForm(got)
    BY <1>3 DEF TailOK, TailTypes
  <2> DEFINE c == disk[path]
  <2>3. path \in 1 .. Len(disk)
    BY <1>2, <1>3
  <2>9. c \in Seq(Bytes) /\ Len(c) \in Nat
    BY <2>3, <1>2
  <2> HIDE DEF c
  <2>4. offset' \in 0 .. Len(c) /\ (offset' = 0 \/ got = <<>>)
    BY <2>1, <2>2, <2>9 DEF c
  <2>5. RestFits(<<>>, got, offset', c)
    BY <2>4 DEF RestFits
  <2>6. \A q \in offset' + 1 .. Len(c) : Past(got, c[q])
    <3>3. \A o \in 0 .. Len(c) : \A q \in o + 1 .. Len(c) : q \in 1 .. Len(c)
      BY <2>9
    <3>1. \A q \in offset' + 1 .. Len(c) : q \in 1 .. Len(c)
      BY <2>4, <3>3
    <3>2. QED
      BY <3>1, <2>2 DEF AllPast, c
  <2>7. ReadTo(got, <<>>, offset', c)
    BY <2>2, <2>4, <2>5, <2>6 DEF ReadTo
  <2>8. Begins(head', c)
    BY <2>1, <2>9, HeadOfFits DEF c
  <2>10. disk'[file'] = c /\ got' = got /\ rest' = <<>>
    BY <2>1, <2>2, <1>1 DEF c
  <2>11. FileCurrent'
    BY <2>7, <2>8, <2>10 DEF FileCurrent
  <2>12. QED
    BY <2>1, <2>11, <1>1 DEF TailOK
<1>4. CASE ~(file = 0 /\ path # 0)
  <2>1. UNCHANGED <<file, head, offset>>
    BY <1>4 DEF OpenFile
  <2>2. QED
    BY <2>1, <1>1 DEF TailOK, FileCurrent, Stale, AllPast
<1>5. QED
  BY <1>3, <1>4

(* A fingerprint of lines that are gone does not match.                    *)
LEMMA StaleIsSeen ==
  ASSUME TailTypes, Stale, NEW c, c = disk[file], c \in Seq(Bytes), Begins(head, c)
  PROVE  FALSE
<1>1. head # <<>> /\ head \in Seq(Bytes)
  BY DEF Stale, TailTypes
<1>2. Len(head) > 0 /\ 1 \in DOMAIN head
  BY <1>1
<1>3. head[1] = c[1] /\ c # <<>> /\ 1 \in 1 .. Len(c)
  BY <1>2 DEF Begins
<1>4. c[1] \in Bytes
  BY <1>3
<1>5. c[1][1] < c[1][1] /\ c[1][1] \in Nat
  BY <1>3, <1>4, LineIsPair DEF Stale
<1>6. QED
  BY <1>5

LEMMA TailCheck ==
  ASSUME DiskOK, TailTypes, TailOK, Check
  PROVE  TailOK'
<1>1. tail = "check" /\ UNCHANGED <<disk, path, line, got>>
  BY DEF Check, diskVars
<1>2. disk \in Seq(Seq(Bytes)) /\ path \in 0 .. Len(disk) /\ file \in 0 .. Len(disk)
      /\ head \in Seq(Bytes) /\ Len(head) <= HeadLen
  BY DEF DiskOK, Written, TailTypes
<1>3. CASE file = 0
  <2>1. tail' = "wait" /\ UNCHANGED <<file, offset, rest, head>>
    BY <1>3 DEF Check
  <2>2. QED
    BY <2>1, <1>1, <1>3 DEF TailOK, FileCurrent, Stale, AllPast
<1>4. CASE file # 0 /\ path = file
  <2>1. disk[file] \in Seq(Bytes)
    BY <1>2, <1>4
  <2>2. Begins(head, HeadOf(disk[file])) <=> Begins(head, disk[file])
    BY <2>1, <1>2, HeadBegins
  <2>3. CASE SameContent
    <3>1. tail' = "read" /\ head' = HeadOf(disk[file]) /\ UNCHANGED <<file, offset, rest>>
      BY <2>3, <1>4 DEF Check, Content
    <3>2. Begins(head, disk[file])
      BY <2>2, <2>3, <1>4 DEF SameContent, Content
    <3>3. ~Stale
      BY <3>2, <2>1, StaleIsSeen
    <3>4. FileCurrent
      BY <3>3, <1>4 DEF TailOK
    <3>5. Begins(head', disk[file])
      BY <3>1, <2>1, HeadOfFits
    <3>6. disk'[file'] = disk[file] /\ got' = got /\ rest' = rest /\ offset' = offset
      BY <3>1, <1>1
    <3>7. FileCurrent'
      BY <3>4, <3>5, <3>6 DEF FileCurrent
    <3>8. QED
      BY <3>1, <3>7, <1>1, <1>4 DEF TailOK
  <2>4. CASE ~SameContent
    <3>1. tail' = "open" /\ file' = 0
      BY <2>4, <1>4 DEF Check, CloseFile
    <3>2. ~FileCurrent
      <4>1. FileCurrent => offset <= Len(disk[file]) /\ Begins(head, disk[file])
        BY DEF FileCurrent, ReadTo
      <4>2. offset <= Len(disk[file]) /\ offset \in Nat /\ Len(disk[file]) \in Nat => Len(disk[file]) >= offset
        OBVIOUS
      <4>3. offset \in Nat /\ Len(disk[file]) \in Nat
        BY <2>1 DEF TailTypes
      <4>4. QED
        BY <4>1, <4>2, <4>3, <2>2, <2>4, <1>4 DEF SameContent, Content
    <3>3. AllPast(disk[path])
      BY <3>2, <1>4 DEF TailOK
    <3>4. QED
      BY <3>1, <3>3, <1>1 DEF TailOK, AllPast
  <2>5. QED
    BY <2>3, <2>4
<1>5. CASE file # 0 /\ path # file
  <2>1. tail' = "open" /\ file' = 0
    BY <1>5 DEF Check, CloseFile
  <2>2. path # 0 => AllPast(disk[path])
    BY <1>5 DEF TailOK
  <2>3. QED
    BY <2>1, <2>2, <1>1 DEF TailOK, AllPast
<1>6. QED
  BY <1>3, <1>4, <1>5

LEMMA TailRead ==
  ASSUME DiskOK, TailTypes, TailOK, Read
  PROVE  TailOK'
<1>1. /\ tail = "read" /\ tail' = "wait" /\ offset' = offset + Unread
      /\ got' = Taken[Unread].got /\ rest' = Taken[Unread].rest
      /\ UNCHANGED <<disk, path, line, file, head>>
  BY DEF Read, diskVars
<1>2. /\ disk \in Seq(Seq(Bytes)) /\ line \in Bytes /\ path \in 0 .. Len(disk) /\ (path # 0 => path = Len(disk))
      /\ file \in 1 .. Len(disk) /\ offset \in Nat /\ rest \in Seq(Inner)
  BY <1>1 DEF DiskOK, Written, TailTypes
<1>3. FileCurrent
  BY <1>1, <1>2 DEF TailOK, Stale
<1>4. Rising(disk[file]) /\ \A q \in 1 .. Len(disk[file]) : Below(disk[file][q], line)
  BY <1>2 DEF DiskOK, Ordered, Orders, AllBelow
<1>5. /\ ReadTo(got', rest', offset', disk[file])
      /\ \A b \in Bytes : Past(got, b) /\ (\A q \in 1 .. Len(disk[file]) : Below(disk[file][q], b)) => Past(got', b)
  <2>1. ReadTo(got, rest, offset, disk[file])
    BY <1>3 DEF FileCurrent
  <2>2. QED
    BY <2>1, <1>1, <1>2, <1>4, ReadIsFaithful
<1>6. FileCurrent'
  BY <1>1, <1>3, <1>5 DEF FileCurrent
<1>7. Past(got', line)
  BY <1>2, <1>4, <1>5 DEF TailOK
<1>8. GotForm(got')
  BY <1>5 DEF ReadTo
<1>9. ASSUME path # 0, path # file PROVE AllPast(disk[path])'
  <2>1. AllPast(disk[path]) /\ path \in 1 .. Len(disk) /\ file < path
    BY <1>2, <1>9 DEF TailOK
  <2>2. ASSUME NEW q \in 1 .. Len(disk[path]) PROVE Past(got', disk[path][q])
    <3>1. disk[path][q] \in Bytes
      <4>1. disk[path] \in Seq(Bytes)
        BY <2>1, <1>2
      <4>2. QED
        BY <4>1
    <3>2. Past(got, disk[path][q])
      BY <2>1 DEF AllPast
    <3>3. \A p \in 1 .. Len(disk[file]) : disk[file][p][1] < disk[path][q][1]
      BY <2>1, <1>2 DEF DiskOK, Ordered, Orders
    <3>4. \A p \in 1 .. Len(disk[file]) : Below(disk[file][p], disk[path][q])
      BY <3>3 DEF Below
    <3>5. QED
      BY <3>1, <3>2, <3>4, <1>5
  <2>3. QED
    BY <2>2, <1>1 DEF AllPast
<1>10. path' # 0 => AllPast(disk[path])' \/ (path' = file' /\ FileCurrent')
  BY <1>1, <1>6, <1>9
<1>11. QED
  BY <1>1, <1>6, <1>7, <1>8, <1>10 DEF TailOK

TailInv == DiskOK /\ TailTypes /\ (~unseen => TailOK)

LEMMA TailStarts == TailInit => TailInv
<1> SUFFICES ASSUME TailInit PROVE TailInv
  OBVIOUS
<1>1. DiskOK
  BY DiskInit
<1>2. tail = "open" /\ file = 0 /\ offset = 0 /\ rest = <<>> /\ head = <<>> /\ got = <<>>
  BY DEF TailInit
<1>3. <<>> \in Seq(Inner) /\ <<>> \in Seq(Bytes) /\ <<>> \in Seq(Seq(Bytes)) /\ Len(<<>>) = 0 /\ HeadLen \in Nat
  BY TailAssumption
<1>4. 0 \in 0 .. Len(disk)
  BY <1>1 DEF DiskOK, Written
<1>5. TailTypes
  BY <1>2, <1>3, <1>4 DEF TailTypes
<1>6. GotForm(got) /\ \A b : Past(got, b)
  BY <1>2, <1>3 DEF GotForm, Past
<1>7. TailOK
  BY <1>2, <1>6 DEF TailOK, AllPast
<1>8. QED
  BY <1>1, <1>5, <1>7 DEF TailInv

LEMMA TailInvStep == TailInv /\ [TailNext]_tailVars => TailInv'
<1> SUFFICES ASSUME TailInv, [TailNext]_tailVars PROVE TailInv'
  OBVIOUS
<1>1. DiskOK /\ TailTypes
  BY DEF TailInv
<1>2. DiskOK' /\ TailTypes'
  BY <1>1, DiskStep, TypesStep
<1>3. ASSUME ~unseen' PROVE TailOK'
  <2>1. ~unseen
    BY <1>3 DEF TailNext, TailStep, Write, Reopen, Rename, Create, Truncate, OpenFile, Check, Read, Poll, StopTail,
                tailVars
  <2>2. TailOK
    BY <2>1 DEF TailInv
  <2>3. CASE Poll \/ StopTail \/ UNCHANGED tailVars
    <3>1. UNCHANGED <<disk, path, line, file, offset, rest, head, got>> /\ (tail' = "read" => tail = "read")
      BY <2>3 DEF Poll, StopTail, tailVars, diskVars
    <3>2. QED
      BY <3>1, <2>2 DEF TailOK, FileCurrent, Stale, AllPast
  <2>4. QED
    BY <2>2, <2>3, <1>1, <1>3, TailWrite, TailReopen, TailRename, TailCreate, TailTruncate, TailOpen, TailCheck, TailRead
       DEF TailNext, TailStep
<1>4. QED
  BY <1>2, <1>3 DEF TailInv

LEMMA TailInvGivesFaithful == TailInv => TailIsFaithful
<1> SUFFICES ASSUME TailInv PROVE TailIsFaithful
  OBVIOUS
<1>1. TailTypeOK
  <2>1. \A n \in DOMAIN rest : ~IsNewline(rest[n])
    <3>1. rest \in Seq(Inner)
      BY DEF TailInv, TailTypes
    <3>2. \A n \in DOMAIN rest : rest[n] \in Inner
      BY <3>1
    <3>3. QED
      BY <3>2 DEF Inner, IsNewline
  <2>2. QED
    BY <2>1 DEF TailInv, TailTypes, DiskOK, Written, TailTypeOK
<1>2. LinesAreGenuine
  <2> SUFFICES ASSUME ~unseen PROVE LinesAreGenuine
    BY DEF LinesAreGenuine
  <2>1. GotForm(got)
    BY DEF TailInv, TailOK
  <2>2. DOMAIN got = 1 .. Len(got)
    BY <2>1 DEF GotForm
  <2>3. QED
    BY <2>1, <2>2 DEF LinesAreGenuine, GotForm, GoodLine, LineNumber
<1>3. QED
  BY <1>1, <1>2 DEF TailIsFaithful

(* For a file of any length, rotated and truncated at any time.            *)
THEOREM TailStaysFaithful == TailSpec => []TailIsFaithful
<1>1. TailSpec => []TailInv
  BY TailStarts, TailInvStep, PTL DEF TailSpec
<1>2. QED
  BY <1>1, TailInvGivesFaithful, PTL
=============================================================================
