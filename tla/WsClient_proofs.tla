-------------------------- MODULE WsClient_proofs ---------------------------
(***************************************************************************)
(* What the control-plane client keeps to for any number of queries,       *)
(* connections and disconnects and any outbox: no queued query is left     *)
(* without a turn that takes it up, none is answered twice, a flush drops  *)
(* what it found, and nothing starts on a later connection or after a      *)
(* shutdown.  And what the feed keeps to for any room, any cap and any     *)
(* number of turns: the plane is told all there was of a turn (below).     *)
(***************************************************************************)
EXTENDS PlaneFeed, WsClient, FiniteSetTheorems, SequenceTheorems, TLAPS

(* The current turn runs; what is queued waits, and is there once.         *)
QueueInv ==
  /\ current # NoTurn => pc[current] = "running"
  /\ \A i \in 1 .. Len(queued) : pc[queued[i]] = "queued"
  /\ \A i, j \in 1 .. Len(queued) : queued[i] = queued[j] => i = j

(* The reader has a connection when it is past dialing, and none of the    *)
(* queries of a lost one is left when it dials the next.                   *)
ReaderInv ==
  /\ at["reader"] \notin {"dialing", "panicked"} => conn \in 1 .. MaxConns
  /\ errand = "loss" => at["reader"] \in {"close", "aim", "call", "panicked"}
  /\ at["reader"] = "close" => errand = "loss"
  /\ errand = "loss" \/ at["reader"] \in {"leaving", "dialing"} => queued = <<>>
  /\ \A i \in 1 .. Len(queued) : on[queued[i]] = conn
  /\ \A a \in Actors : at[a] = "close" => held[a] \in Queries

(* Who reports a query is the only one to, and has not done so yet.        *)
Unreported == {"new", "queued", "forgotten", "running", "cleared", "answering"}

Reporting(q) == pc[q] = "dropping"

ReportInv ==
  /\ \A q \in Queries : pc[q] \in Unreported => reports[q] = 0
  /\ \A q \in Queries : Reporting(q) =>
       hand[q] \in Queries /\ pc[hand[q]] = "popped" /\ reports[hand[q]] = 0
  /\ \A q, r \in Queries : Reporting(q) /\ Reporting(r) /\ hand[q] = hand[r] => q = r
  /\ at["reader"] = "refusing" =>
       arrived \in Queries /\ pc[arrived] = "refused" /\ reports[arrived] = 0

Inv ==
  /\ TypeOK /\ QueueInv /\ ReaderInv /\ ReportInv
  /\ NoQueryStranded /\ OneResultEach /\ FlushIsExact
-----------------------------------------------------------------------------
LEMMA TailFacts ==
  ASSUME NEW S, NEW s \in Seq(S), s # <<>>
  PROVE  /\ Len(s) \in Nat \ {0} /\ Head(s) = s[1] /\ s[1] \in S
         /\ Tail(s) \in Seq(S) /\ Len(Tail(s)) = Len(s) - 1
         /\ \A i \in 1 .. Len(s) - 1 : Tail(s)[i] = s[i + 1]
OBVIOUS

LEMMA InitInv == Init => Inv
<1> SUFFICES ASSUME Init PROVE Inv
  OBVIOUS
<1> USE ClientAssumption DEF Init
<1>1. TypeOK
  <2>1. at \in [reader : ReaderAt, forwarder : ForwarderAt]
    BY DEF ReaderAt, ForwarderAt
  <2>2. pc \in [Queries -> Stages]
    BY DEF Stages
  <2>3. queued \in Seq(Queries) /\ flushed \in 0 .. Len(queued)
    OBVIOUS
  <2>4. /\ conn \in 0 .. MaxConns /\ outbox \in 0 .. OutboxSize /\ arrived \in 0 .. MaxQueries
        /\ disconnects \in 0 .. MaxDisconnects
    OBVIOUS
  <2>5. /\ on \in [Queries -> 0 .. MaxConns] /\ hand \in [Queries -> Queries \cup {NoTurn}]
        /\ held \in [Actors -> Queries \cup {NoTurn}] /\ reports \in [Queries -> Nat]
    OBVIOUS
  <2>6. QED
    BY <2>1, <2>2, <2>3, <2>4, <2>5 DEF TypeOK
<1>2. QueueInv /\ ReaderInv /\ NoQueryStranded /\ FlushIsExact
  BY DEF QueueInv, ReaderInv, NoQueryStranded, FlushIsExact, Actors
<1>3. ReportInv /\ OneResultEach
  BY DEF ReportInv, OneResultEach, Reporting
<1>4. QED
  BY <1>1, <1>2, <1>3 DEF Inv

LEMMA ReaderGoes ==
  ASSUME TypeOK, NEW here, NEW there \in ReaderAt, Goto("reader", here, there)
  PROVE  at' \in [reader : ReaderAt, forwarder : ForwarderAt]
BY DEF TypeOK, Goto

LEMMA ForwarderGoes ==
  ASSUME TypeOK, NEW here, NEW there \in ForwarderAt, Goto("forwarder", here, there)
  PROVE  at' \in [reader : ReaderAt, forwarder : ForwarderAt]
BY DEF TypeOK, Goto

LEMMA Moved ==
  ASSUME TypeOK, NEW q \in Queries, NEW here, NEW there \in Stages, Move(q, here, there)
  PROVE  /\ pc' \in [Queries -> Stages] /\ pc[q] = here /\ pc'[q] = there
         /\ \A r \in Queries : r # q => pc'[r] = pc[r]
BY DEF TypeOK, Move

LEMMA Sent ==
  ASSUME TypeOK, NEW q \in Queries, Send(q)
  PROVE  outbox' \in 0 .. OutboxSize /\ reports' \in [Queries -> Nat]
<1>1. outbox \in 0 .. OutboxSize /\ reports \in [Queries -> Nat]
  BY DEF TypeOK
<1>2. QED
  BY <1>1, ClientAssumption DEF Send
-----------------------------------------------------------------------------
LEMMA TypeStep ==
  ASSUME Inv, [Next]_vars
  PROVE  TypeOK'
<1> USE DEF connVars, turnVars, readVars, stopVars
<1>t. TypeOK /\ ReaderInv /\ QueueInv /\ ReportInv
  BY DEF Inv
<1>n. /\ conn \in 0 .. MaxConns /\ outbox \in 0 .. OutboxSize /\ arrived \in 0 .. MaxQueries
      /\ disconnects \in 0 .. MaxDisconnects
      /\ queued \in Seq(Queries) /\ flushed \in 0 .. Len(queued)
  BY <1>t DEF TypeOK
<1>f. /\ on \in [Queries -> 0 .. MaxConns] /\ hand \in [Queries -> Queries \cup {NoTurn}]
      /\ held \in [Actors -> Queries \cup {NoTurn}] /\ pc \in [Queries -> Stages]
      /\ {current, cancelFn, watch, turnDone, grabbed} \subseteq Queries \cup {NoTurn}
      /\ dead \subseteq 1 .. MaxConns
  BY <1>t DEF TypeOK
<1>a. {"dialing", "serving", "holding", "refusing", "flush", "grab", "aim",
       "call", "close", "leaving", "exited", "panicked"} \subseteq ReaderAt
  BY DEF ReaderAt
<1>b. {"idle", "close", "ending"} \subseteq ForwarderAt
  BY DEF ForwarderAt
<1>s. {"running", "cleared", "answering", "draining", "dropping", "new", "queued", "refused",
       "forgotten", "popped", "done"} \subseteq Stages
  BY DEF Stages, Turning
<1>1. CASE Dial
  <2>1. conn < MaxConns /\ conn' = conn + 1
    BY <1>1 DEF Dial
  <2>2. conn' \in 0 .. MaxConns
    BY <2>1, <1>n, ClientAssumption
  <2>3. at' \in [reader : ReaderAt, forwarder : ForwarderAt]
    BY <1>1, <1>t, <1>a, ReaderGoes DEF Dial
  <2>4. QED
    BY <1>1, <1>t, <2>2, <2>3 DEF Dial, TypeOK
<1>2. CASE Receive \/ PassOn
  <2>1. at' \in [reader : ReaderAt, forwarder : ForwarderAt]
    BY <1>2, <1>t, <1>a, ReaderGoes DEF Receive, PassOn
  <2>2. QED
    BY <1>2, <1>t, <2>1 DEF Receive, PassOn, TypeOK
<1>3. ASSUME NEW q \in Queries, QueryQueues(q) \/ QueryStarts(q) \/ QueryRefused(q)
      PROVE  TypeOK'
  <2>1. at' \in [reader : ReaderAt, forwarder : ForwarderAt]
    BY <1>3, <1>t, <1>a, ReaderGoes DEF QueryQueues, QueryStarts, QueryRefused
  <2>2. pc' \in [Queries -> Stages]
    BY <1>3, <1>t, <1>s, Moved DEF QueryQueues, QueryStarts, QueryRefused
  <2>3. arrived' = q /\ on' = [on EXCEPT ![q] = conn]
    BY <1>3 DEF QueryQueues, QueryStarts, QueryRefused, Arrives
  <2>4. arrived' \in 0 .. MaxQueries
    BY <2>3, ClientAssumption DEF Queries
  <2>5. on' \in [Queries -> 0 .. MaxConns]
    BY <2>3, <1>n, <1>f
  <2>6. CASE QueryQueues(q)
    <3>1. queued' = Append(queued, q) /\ flushed' = flushed
      BY <2>6 DEF QueryQueues
    <3>2. queued' \in Seq(Queries) /\ flushed' \in 0 .. Len(queued')
      BY <3>1, <1>n
    <3>3. QED
      BY <2>6, <1>t, <2>1, <2>2, <2>4, <2>5, <3>2 DEF QueryQueues, TypeOK
  <2>7. CASE QueryStarts(q)
    <3>1. {current, cancelFn, watch, turnDone, grabbed}' \subseteq Queries \cup {NoTurn}
      BY <2>7, <1>f DEF QueryStarts, Install
    <3>2. QED
      BY <2>7, <1>t, <2>1, <2>2, <2>4, <2>5, <3>1 DEF QueryStarts, TypeOK
  <2>8. CASE QueryRefused(q)
    BY <2>8, <1>t, <2>1, <2>2, <2>4, <2>5 DEF QueryRefused, TypeOK
  <2>9. QED
    BY <1>3, <2>6, <2>7, <2>8
<1>4. CASE Refuses
  <2>1. at' \in [reader : ReaderAt, forwarder : ForwarderAt]
    BY <1>4, <1>t, <1>a, ReaderGoes DEF Refuses
  <2>2. arrived \in Queries /\ Send(arrived)
    BY <1>4, <1>t DEF Refuses, Goto, ReportInv
  <2>3. outbox' \in 0 .. OutboxSize /\ reports' \in [Queries -> Nat]
    BY <2>2, <1>t, Sent
  <2>4. QED
    BY <1>4, <1>t, <2>1, <2>3 DEF Refuses, TypeOK
<1>5. CASE CancelCommand \/ ShutdownFlushes
  <2>1. at' \in [reader : ReaderAt, forwarder : ForwarderAt]
    BY <1>5, <1>t, <1>a, ReaderGoes DEF CancelCommand, ShutdownFlushes
  <2>2. Flush /\ queued' = queued
    BY <1>5 DEF CancelCommand, ShutdownFlushes
  <2>3. dropped' \subseteq Queries
    BY <2>2, <1>t, <1>n DEF Flush, TypeOK
  <2>4. flushed' \in 0 .. Len(queued')
    BY <2>2, <1>n DEF Flush
  <2>5. QED
    BY <1>5, <1>t, <2>1, <2>2, <2>3, <2>4 DEF CancelCommand, ShutdownFlushes, TypeOK
<1>6. CASE ShutdownCommand \/ GrabDone \/ Aim \/ Call
  <2>1. at' \in [reader : ReaderAt, forwarder : ForwarderAt]
    BY <1>6, <1>t, <1>a, ReaderGoes DEF ShutdownCommand, GrabDone, Aim, Call
  <2>2. /\ held' \in [Actors -> Queries \cup {NoTurn}] /\ cancelled' \subseteq Queries
        /\ {current, cancelFn, watch, turnDone, grabbed}' \subseteq Queries \cup {NoTurn}
    BY <1>6, <1>t, <1>f DEF ShutdownCommand, GrabDone, Aim, Call, TypeOK, Actors
  <2>3. CASE ShutdownCommand
    BY <2>3, <1>t, <2>1, <2>2 DEF ShutdownCommand, TypeOK
  <2>4. CASE GrabDone
    BY <2>4, <1>t, <2>1, <2>2 DEF GrabDone, TypeOK
  <2>5. CASE Aim
    BY <2>5, <1>t, <2>1, <2>2 DEF Aim, TypeOK
  <2>6. CASE Call
    <3>1. ack' \in {"none", "waiting", "requested", "acked"}
      BY <2>6, <1>t DEF Call, TypeOK
    <3>2. QED
      BY <2>6, <1>t, <2>1, <2>2, <3>1 DEF Call, TypeOK
  <2>7. QED
    BY <1>6, <2>3, <2>4, <2>5, <2>6
<1>7. ASSUME NEW a \in Actors, NEW here, Mark(a, here)
      PROVE  /\ queued' \in Seq(Queries) /\ flushed' \in 0 .. Len(queued')
             /\ pc' \in [Queries -> Stages] /\ held' \in [Actors -> Queries \cup {NoTurn}]
  <2>1. queued' = <<>> /\ flushed' = 0
    BY <1>7 DEF Mark
  <2>2. pc' \in [Queries -> Stages]
    BY <1>7, <1>f, <1>s DEF Mark
  <2>3. held' \in [Actors -> Queries \cup {NoTurn}]
    BY <1>7, <1>f DEF Mark
  <2>4. QED
    BY <2>1, <2>2, <2>3
<1>8. CASE ReadFails
  <2>1. Mark("reader", "serving")
    BY <1>8 DEF ReadFails
  <2>2. at' \in [reader : ReaderAt, forwarder : ForwarderAt]
    BY <2>1, <1>t, <1>a, ReaderGoes DEF Mark, After
  <2>3. QED
    BY <1>8, <1>7, <1>t, <2>1, <2>2 DEF ReadFails, TypeOK, Actors
<1>9. CASE Disconnect
  <2>1. Mark("forwarder", "idle")
    BY <1>9 DEF Disconnect
  <2>2. at' \in [reader : ReaderAt, forwarder : ForwarderAt]
    BY <2>1, <1>t, <1>b, ForwarderGoes DEF Mark, After
  <2>3. disconnects' \in 0 .. MaxDisconnects
    BY <1>9, <1>n, ClientAssumption DEF Disconnect
  <2>4. QED
    BY <1>9, <1>7, <1>t, <2>1, <2>2, <2>3 DEF Disconnect, TypeOK, Actors
<1>10. ASSUME NEW a \in Actors, CloseWatch(a) PROVE TypeOK'
  <2>1. Goto(a, "close", After(a)) /\ a \in {"reader", "forwarder"}
    BY <1>10 DEF CloseWatch, Actors
  <2>2. at' \in [reader : ReaderAt, forwarder : ForwarderAt]
    BY <2>1, <1>t, <1>a, <1>b, ReaderGoes, ForwarderGoes DEF After
  <2>3. held' \in [Actors -> Queries \cup {NoTurn}]
    BY <1>10, <1>f DEF CloseWatch
  <2>4. lostClosed' \subseteq Queries
    BY <1>10, <1>t DEF CloseWatch, Goto, ReaderInv, TypeOK
  <2>5. QED
    BY <1>10, <1>t, <2>2, <2>3, <2>4 DEF CloseWatch, TypeOK
<1>11. ASSUME NEW a \in Actors, CloseTwice(a) PROVE TypeOK'
  <2>1. at' \in [reader : ReaderAt, forwarder : ForwarderAt]
    BY <1>11, <1>t, <1>a DEF CloseTwice, TypeOK
  <2>2. QED
    BY <1>11, <1>t, <2>1 DEF CloseTwice, TypeOK
<1>12. CASE Leave
  <2>1. at' \in [reader : ReaderAt, forwarder : ForwarderAt] /\ at["reader"] = "leaving"
    BY <1>12, <1>t, <1>a, ReaderGoes DEF Leave, Goto
  <2>2. dead' \subseteq 1 .. MaxConns
    BY <1>12, <1>t, <1>f, <2>1 DEF Leave, ReaderInv
  <2>3. QED
    BY <1>12, <1>t, <2>1, <2>2 DEF Leave, TypeOK
<1>13. ASSUME Alive, EndConn PROVE TypeOK'
  <2>1. at' \in [reader : ReaderAt, forwarder : ForwarderAt]
    BY <1>13, <1>t, <1>b, ForwarderGoes DEF EndConn
  <2>2. dead' \subseteq 1 .. MaxConns
    BY <1>13, <1>t, <1>f DEF EndConn, ReaderInv, Alive
  <2>3. QED
    BY <1>13, <1>t, <2>1, <2>2 DEF EndConn, TypeOK
<1>14. CASE PumpStep
  <2>1. conn # 0 /\ outbox' \in 0 .. OutboxSize
    BY <1>14, <1>n, ClientAssumption DEF PumpStep, Write, WriteFails, Ack, Pumping
  <2>2. conn \in 1 .. MaxConns
    BY <2>1, <1>n
  <2>3. dead' \subseteq 1 .. MaxConns
    BY <1>14, <1>f, <2>2 DEF PumpStep, Write, WriteFails, Ack
  <2>4. CASE Write
    BY <2>4, <1>t, <2>1, <2>3 DEF Write, TypeOK
  <2>5. CASE WriteFails
    BY <2>5, <1>t, <2>1, <2>3 DEF WriteFails, TypeOK
  <2>6. CASE Ack
    BY <2>6, <1>t, <2>1, <2>3 DEF Ack, TypeOK
  <2>7. QED
    BY <1>14, <2>4, <2>5, <2>6 DEF PumpStep
<1>15. CASE RequestAck
  <2>1. {current, cancelFn, watch, turnDone, grabbed}' \subseteq Queries \cup {NoTurn}
    BY <1>15, <1>f DEF RequestAck
  <2>2. QED
    BY <1>15, <1>t, <2>1 DEF RequestAck, TypeOK
<1>16. ASSUME NEW q \in Queries, RunTurnReturns(q) PROVE TypeOK'
  <2>1. pc' \in [Queries -> Stages]
    BY <1>16, <1>t, <1>s, Moved DEF RunTurnReturns
  <2>2. {current, cancelFn, watch, turnDone, grabbed}' \subseteq Queries \cup {NoTurn}
    BY <1>16, <1>f DEF RunTurnReturns
  <2>3. QED
    BY <1>16, <1>t, <2>1, <2>2 DEF RunTurnReturns, TypeOK
<1>17. ASSUME NEW q \in Queries, Classify(q) PROVE TypeOK'
  <2>1. pc' \in [Queries -> Stages]
    BY <1>17, <1>t, <1>s, Moved DEF Classify
  <2>2. cancelled' \subseteq Queries
    BY <1>17, <1>t DEF Classify, TypeOK
  <2>3. QED
    BY <1>17, <1>t, <2>1, <2>2 DEF Classify, TypeOK
<1>18. ASSUME NEW q \in Queries, SendResult(q) PROVE TypeOK'
  <2>1. pc' \in [Queries -> Stages]
    BY <1>18, <1>t, <1>s, Moved DEF SendResult
  <2>2. outbox' \in 0 .. OutboxSize /\ reports' \in [Queries -> Nat]
    BY <1>18, <1>t, Sent DEF SendResult
  <2>3. QED
    BY <1>18, <1>t, <2>1, <2>2 DEF SendResult, TypeOK
<1>19. ASSUME NEW q \in Queries, PopDropped(q) PROVE TypeOK'
  <2>1. queued # <<>>
    BY <1>19 DEF PopDropped, DropsNext
  <2>2. Head(queued) \in Queries /\ Len(Tail(queued)) = Len(queued) - 1 /\ Tail(queued) \in Seq(Queries)
    BY <2>1, <1>n, TailFacts
  <2>3. queued' = Tail(queued) /\ flushed' = IF flushed > 0 THEN flushed - 1 ELSE 0
    BY <1>19 DEF PopDropped
  <2>4. queued' \in Seq(Queries) /\ flushed' \in 0 .. Len(queued')
    <3>1. Len(queued) \in Nat \ {0}
      BY <2>1, <1>n, TailFacts
    <3>2. QED
      BY <2>2, <2>3, <3>1, <1>n
  <2>5. pc' \in [Queries -> Stages]
    BY <1>19, <1>f, <1>s, <2>2 DEF PopDropped
  <2>6. hand' \in [Queries -> Queries \cup {NoTurn}]
    BY <1>19, <1>f, <2>2 DEF PopDropped
  <2>7. QED
    BY <1>19, <1>t, <2>4, <2>5, <2>6 DEF PopDropped, TypeOK
<1>20. ASSUME NEW q \in Queries, ReportDropped(q) PROVE TypeOK'
  <2>1. pc' \in [Queries -> Stages] /\ pc[q] = "dropping"
    BY <1>20, <1>t, <1>s, Moved DEF ReportDropped
  <2>2. hand[q] \in Queries /\ Send(hand[q])
    BY <1>20, <1>t, <2>1 DEF ReportDropped, ReportInv, Reporting
  <2>3. outbox' \in 0 .. OutboxSize /\ reports' \in [Queries -> Nat]
    BY <2>2, <1>t, Sent
  <2>4. hand' \in [Queries -> Queries \cup {NoTurn}]
    BY <1>20, <1>f DEF ReportDropped
  <2>5. QED
    BY <1>20, <1>t, <2>1, <2>3, <2>4 DEF ReportDropped, TypeOK
<1>21. ASSUME NEW q \in Queries, HandsOverNothing(q) PROVE TypeOK'
  <2>1. pc' \in [Queries -> Stages]
    BY <1>21, <1>t, <1>s, Moved DEF HandsOverNothing
  <2>2. {current, cancelFn, watch, turnDone, grabbed}' \subseteq Queries \cup {NoTurn}
    BY <1>21, <1>f DEF HandsOverNothing
  <2>3. QED
    BY <1>21, <1>t, <2>1, <2>2 DEF HandsOverNothing, TypeOK
<1>22. ASSUME NEW q \in Queries, HandsOver(q) PROVE TypeOK'
  <2>1. queued # <<>> /\ ~(flushed > 0) /\ queued' = Tail(queued) /\ flushed' = flushed
    BY <1>22 DEF HandsOver, DropsNext
  <2>2. /\ Head(queued) \in Queries /\ Tail(queued) \in Seq(Queries) /\ Len(Tail(queued)) \in Nat
    BY <2>1, <1>n, TailFacts
  <2>3. queued' \in Seq(Queries) /\ flushed' \in 0 .. Len(queued')
    BY <2>1, <2>2, <1>n
  <2>4. pc' \in [Queries -> Stages]
    BY <1>22, <1>f, <1>s, <2>2 DEF HandsOver
  <2>5. {current, cancelFn, watch, turnDone, grabbed}' \subseteq Queries \cup {NoTurn}
    BY <1>22, <1>f, <2>2 DEF HandsOver, Install
  <2>6. QED
    BY <1>22, <1>t, <2>3, <2>4, <2>5 DEF HandsOver, TypeOK
<1>23. CASE UNCHANGED vars
  BY <1>23, <1>t DEF vars, TypeOK
<1>24. QED
  <2>1. "reader" \in Actors /\ "forwarder" \in Actors
    BY DEF Actors
  <2>2. QED
    BY <2>1, <1>1, <1>2, <1>3, <1>4, <1>5, <1>6, <1>8, <1>9, <1>10, <1>11, <1>12, <1>13, <1>14,
       <1>15, <1>16, <1>17, <1>18, <1>19, <1>20, <1>21, <1>22, <1>23
    DEF Next, ReaderStep, Dispatch, LossStep, ForwarderStep, TurnStep
-----------------------------------------------------------------------------
(* Only a query that arrives, a loss and a turn's own goroutine move a     *)
(* query or touch the queue.                                               *)
Quiet == UNCHANGED <<pc, queued, current, hand, on, arrived>>

LEMMA WhoMovesQueries ==
  ASSUME [Next]_vars
  PROVE  \/ \E q \in Queries : QueryQueues(q) \/ QueryStarts(q) \/ QueryRefused(q)
         \/ ReadFails
         \/ Disconnect
         \/ \E q \in Queries : TurnStep(q)
         \/ Quiet
<1> USE DEF Quiet, connVars, turnVars, readVars, stopVars
<1>1. Dial \/ Receive \/ PassOn \/ Refuses => Quiet
  BY DEF Dial, Receive, PassOn, Refuses
<1>2. CancelCommand \/ ShutdownCommand \/ ShutdownFlushes \/ GrabDone \/ Aim \/ Call \/ Leave => Quiet
  BY DEF CancelCommand, ShutdownCommand, ShutdownFlushes, GrabDone, Aim, Call, Leave
<1>3. LossStep("reader") \/ ForwarderStep => Quiet
  BY DEF LossStep, CloseWatch, CloseTwice, ForwarderStep, EndConn
<1>4. PumpStep \/ RequestAck => Quiet
  BY DEF PumpStep, Write, WriteFails, Ack, RequestAck
<1>5. UNCHANGED vars => Quiet
  BY DEF vars
<1>6. QED
  BY <1>1, <1>2, <1>3, <1>4, <1>5 DEF Next, ReaderStep, Dispatch

LEMMA QueueStays ==
  ASSUME TypeOK, QueueInv, NoQueryStranded, [Next]_vars, TypeOK'
  PROVE  QueueInv' /\ NoQueryStranded'
<1>n. queued \in Seq(Queries) /\ pc \in [Queries -> Stages] /\ current \in Queries \cup {NoTurn}
  BY DEF TypeOK
<1>q. \A i \in 1 .. Len(queued) : queued[i] \in Queries /\ pc[queued[i]] = "queued"
  BY <1>n DEF QueueInv
<1>1. ASSUME NEW q \in Queries, QueryQueues(q) PROVE QueueInv' /\ NoQueryStranded'
  <2>1. /\ queued' = Append(queued, q) /\ current' = current /\ pc[q] = "new" /\ pc'[q] = "queued"
        /\ \A r \in Queries : r # q => pc'[r] = pc[r]
    BY <1>1, Moved DEF QueryQueues, turnVars, Stages, Turning
  <2>2. current # NoTurn => pc'[current] = "running"
    BY <2>1, <1>n DEF QueueInv
  <2>3. /\ Len(queued') = Len(queued) + 1 /\ queued'[Len(queued) + 1] = q
        /\ \A i \in 1 .. Len(queued) : queued'[i] = queued[i]
    BY <2>1, <1>n
  <2>4. ASSUME NEW i \in 1 .. Len(queued') PROVE i \in 1 .. Len(queued) \/ i = Len(queued) + 1
    BY <2>3, <1>n
  <2>5. \A i \in 1 .. Len(queued') : pc'[queued'[i]] = "queued"
    BY <2>1, <2>3, <2>4, <1>q
  <2>6. \A i, j \in 1 .. Len(queued') : queued'[i] = queued'[j] => i = j
    BY <2>1, <2>3, <2>4, <1>q DEF QueueInv
  <2>7. NoQueryStranded'
    <3>1. PICK r \in Queries : pc[r] \in Turning
      <4>1. CASE current # NoTurn
        BY <4>1, <1>n DEF QueueInv, Turning
      <4>2. CASE queued # <<>>
        BY <4>2 DEF NoQueryStranded
      <4>3. QED
        BY <1>1, <4>1, <4>2 DEF QueryQueues, Busy
    <3>2. pc'[r] \in Turning
      BY <2>1, <3>1 DEF Turning
    <3>3. QED
      BY <3>2 DEF NoQueryStranded
  <2>8. QED
    BY <2>1, <2>2, <2>5, <2>6, <2>7 DEF QueueInv
<1>2. ASSUME NEW q \in Queries, QueryStarts(q) PROVE QueueInv' /\ NoQueryStranded'
  <2>1. queued' = queued /\ queued = <<>> /\ current' = q /\ pc'[q] = "running"
    BY <1>2, Moved DEF QueryStarts, Busy, Install, Stages, Turning
  <2>2. QED
    BY <2>1 DEF QueueInv, NoQueryStranded
<1>3. ASSUME NEW q \in Queries, QueryRefused(q) PROVE QueueInv' /\ NoQueryStranded'
  <2>1. queued' = queued /\ queued = <<>> /\ current' = current /\ current = NoTurn
    BY <1>3 DEF QueryRefused, Busy, turnVars
  <2>2. QED
    BY <2>1 DEF QueueInv, NoQueryStranded
<1>4. CASE ReadFails \/ Disconnect
  <2>1. /\ queued' = <<>> /\ current' = current
        /\ pc' = [q \in Queries |-> IF pc[q] = "queued" THEN "forgotten" ELSE pc[q]]
    BY <1>4 DEF ReadFails, Disconnect, Mark, turnVars
  <2>2. QED
    BY <2>1, <1>n DEF QueueInv, NoQueryStranded
<1>5. ASSUME NEW q \in Queries, NEW here, NEW there \in Stages, Move(q, here, there),
             here # "queued", queued' = queued, queued = <<>> \/ there \in Turning,
             \/ current' = current /\ here # "running"
             \/ current' = NoTurn
      PROVE  QueueInv' /\ NoQueryStranded'
  <2>1. /\ pc[q] = here /\ pc'[q] = there
        /\ \A r \in Queries : r # q => pc'[r] = pc[r]
    BY <1>5, Moved
  <2>2. current' # NoTurn => pc'[current'] = "running"
    BY <1>5, <1>n, <2>1 DEF QueueInv
  <2>3. \A i \in 1 .. Len(queued) : pc'[queued[i]] = "queued"
    BY <1>5, <1>q, <2>1
  <2>4. \A r \in Queries : queued # <<>> /\ pc[r] \in Turning => pc'[r] \in Turning
    BY <1>5, <2>1
  <2>5. QED
    BY <1>5, <2>2, <2>3, <2>4 DEF QueueInv, NoQueryStranded
<1>6. ASSUME NEW q \in Queries, RunTurnReturns(q) PROVE QueueInv' /\ NoQueryStranded'
  BY <1>5, <1>6 DEF RunTurnReturns, Stages, Turning
<1>7. ASSUME NEW q \in Queries, Classify(q) \/ SendResult(q) \/ ReportDropped(q)
      PROVE  QueueInv' /\ NoQueryStranded'
  BY <1>5, <1>7 DEF Classify, SendResult, ReportDropped, turnVars, Stages, Turning
<1>8. ASSUME NEW q \in Queries, HandsOverNothing(q) PROVE QueueInv' /\ NoQueryStranded'
  BY <1>5, <1>8 DEF HandsOverNothing, Stages, Turning
<1>9. ASSUME NEW q \in Queries, PopDropped(q) \/ HandsOver(q)
      PROVE  QueueInv' /\ NoQueryStranded'
  <2>1. queued # <<>> /\ queued' = Tail(queued) /\ pc[q] = "draining"
    BY <1>9 DEF PopDropped, HandsOver, DropsNext
  <2> DEFINE h == Head(queued)
  <2>2. /\ h \in Queries /\ h = queued[1] /\ pc[h] = "queued"
        /\ Len(queued) \in Nat \ {0} /\ Len(queued') = Len(queued) - 1
        /\ \A i \in 1 .. Len(queued) - 1 : queued'[i] = queued[i + 1]
    BY <2>1, <1>n, <1>q, TailFacts
  <2> HIDE DEF h
  <2>3. h # q
    BY <2>1, <2>2
  <2>4. \A r \in Queries : r # h /\ r # q => pc'[r] = pc[r]
    BY <1>9, <1>n, <2>2 DEF PopDropped, HandsOver, h
  <2>5. \A i \in 1 .. Len(queued') : i \in 1 .. Len(queued) /\ i + 1 \in 1 .. Len(queued)
    BY <2>2
  <2>6. ASSUME NEW i \in 1 .. Len(queued') PROVE pc'[queued'[i]] = "queued"
    <3>1. queued'[i] = queued[i + 1] /\ queued[i + 1] \in Queries /\ pc[queued[i + 1]] = "queued"
      BY <2>2, <2>5, <1>q
    <3>2. queued[i + 1] # h
      <4>1. i + 1 # 1 /\ 1 \in 1 .. Len(queued)
        BY <2>2
      <4>2. QED
        BY <4>1, <2>2, <2>5 DEF QueueInv
    <3>3. queued[i + 1] # q
      BY <2>1, <3>1
    <3>4. QED
      BY <2>4, <3>1, <3>2, <3>3
  <2>7. ASSUME NEW i \in 1 .. Len(queued'), NEW j \in 1 .. Len(queued'), queued'[i] = queued'[j]
        PROVE  i = j
    <3>1. queued[i + 1] = queued[j + 1]
      BY <2>2, <2>7
    <3>2. i + 1 = j + 1
      BY <3>1, <2>5 DEF QueueInv
    <3>3. QED
      BY <3>2
  <2>8. CASE PopDropped(q)
    <3>1. pc'[q] = "dropping" /\ pc'[h] = "popped" /\ current' = current
      BY <2>8, <1>n, <2>2, <2>3 DEF PopDropped, h, turnVars
    <3>2. current # NoTurn => pc'[current] = "running"
      BY <1>n, <2>1, <2>2, <2>4 DEF QueueInv
    <3>3. QED
      BY <3>1, <3>2, <2>6, <2>7 DEF QueueInv, NoQueryStranded, Turning
  <2>9. CASE HandsOver(q)
    <3>1. pc'[h] = "running" /\ current' = h
      BY <2>9, <1>n, <2>2 DEF HandsOver, Install, h
    <3>2. QED
      BY <3>1, <2>2, <2>6, <2>7 DEF QueueInv, NoQueryStranded, Turning
  <2>10. QED
    BY <1>9, <2>8, <2>9
<1>10. CASE Quiet
  BY <1>10 DEF Quiet, QueueInv, NoQueryStranded
<1>11. QED
  BY <1>1, <1>2, <1>3, <1>4, <1>6, <1>7, <1>8, <1>9, <1>10, WhoMovesQueries DEF TurnStep
-----------------------------------------------------------------------------
LEMMA ReaderWent ==
  ASSUME TypeOK, NEW here, NEW there, Goto("reader", here, there)
  PROVE  /\ at["reader"] = here /\ at'["reader"] = there
         /\ at'["forwarder"] = at["forwarder"]
BY DEF TypeOK, Goto

LEMMA ForwarderWent ==
  ASSUME TypeOK, NEW here, NEW there, Goto("forwarder", here, there)
  PROVE  /\ at["forwarder"] = here /\ at'["forwarder"] = there
         /\ at'["reader"] = at["reader"]
BY DEF TypeOK, Goto

LEMMA ReaderStays ==
  ASSUME TypeOK, QueueInv, ReaderInv, [Next]_vars
  PROVE  ReaderInv'
<1> USE DEF connVars, turnVars, readVars, stopVars
<1>n. /\ queued \in Seq(Queries) /\ pc \in [Queries -> Stages] /\ on \in [Queries -> 0 .. MaxConns]
      /\ held \in [Actors -> Queries \cup {NoTurn}] /\ conn \in 0 .. MaxConns
      /\ {current, cancelFn, watch, turnDone, grabbed} \subseteq Queries \cup {NoTurn}
  BY DEF TypeOK
<1>q. \A i \in 1 .. Len(queued) : queued[i] \in Queries /\ pc[queued[i]] = "queued"
  BY <1>n DEF QueueInv
<1>1. CASE Dial
  <2>1. /\ at["reader"] = "dialing" /\ at'["reader"] = "serving"
        /\ at'["forwarder"] = at["forwarder"]
    BY <1>1, ReaderWent DEF Dial
  <2>2. /\ conn' = conn + 1 /\ conn < MaxConns
        /\ UNCHANGED <<errand, queued, on, held>>
    BY <1>1 DEF Dial
  <2>3. conn' \in 1 .. MaxConns
    BY <2>2, <1>n, ClientAssumption
  <2>4. queued' = <<>>
    BY <2>1, <2>2 DEF ReaderInv
  <2>5. \A i \in 1 .. Len(queued') : on'[queued'[i]] = conn'
    BY <2>4
  <2>6. \A a \in Actors : at'[a] = "close" => held'[a] \in Queries
    BY <2>1, <2>2 DEF ReaderInv, Actors
  <2>7. errand' # "loss"
    BY <2>1, <2>2 DEF ReaderInv
  <2>8. QED
    BY <2>1, <2>3, <2>4, <2>5, <2>6, <2>7 DEF ReaderInv
<1>2. ASSUME NEW here \in {"serving", "holding", "refusing", "flush", "grab"},
             NEW there \in {"serving", "holding", "refusing", "flush", "grab", "aim"},
             Goto("reader", here, there), errand' \in {errand, "cancel", "shutdown"},
             UNCHANGED <<conn, held>>, \A i \in 1 .. Len(queued') : on'[queued'[i]] = conn'
      PROVE  ReaderInv'
  <2>1. /\ at["reader"] = here /\ at'["reader"] = there
        /\ at'["forwarder"] = at["forwarder"]
    BY <1>2, ReaderWent
  <2>2. errand' # "loss"
    BY <1>2, <2>1 DEF ReaderInv
  <2>3. conn' \in 1 .. MaxConns
    BY <1>2, <2>1 DEF ReaderInv
  <2>4. \A a \in Actors : at'[a] = "close" => held'[a] \in Queries
    BY <1>2, <2>1 DEF ReaderInv, Actors
  <2>5. QED
    BY <1>2, <2>1, <2>2, <2>3, <2>4 DEF ReaderInv
<1>3. CASE Receive \/ PassOn \/ Refuses \/ CancelCommand \/ ShutdownCommand \/ ShutdownFlushes
           \/ GrabDone
  <2>1. UNCHANGED <<conn, held, queued, on>>
    BY <1>3 DEF Receive, PassOn, Refuses, CancelCommand, ShutdownCommand, ShutdownFlushes, GrabDone
  <2>2. \A i \in 1 .. Len(queued') : on'[queued'[i]] = conn'
    BY <2>1 DEF ReaderInv
  <2>3. QED
    BY <1>3, <1>2, <2>1, <2>2
    DEF Receive, PassOn, Refuses, CancelCommand, ShutdownCommand, ShutdownFlushes, GrabDone
<1>4. ASSUME NEW q \in Queries, QueryQueues(q) PROVE ReaderInv'
  <2>1. /\ queued' = Append(queued, q) /\ on' = [on EXCEPT ![q] = conn] /\ pc[q] = "new"
        /\ UNCHANGED <<conn, held, errand>>
    BY <1>4 DEF QueryQueues, Arrives, Move
  <2>2. ASSUME NEW i \in 1 .. Len(queued') PROVE on'[queued'[i]] = conn'
    <3>1. i \in 1 .. Len(queued) \/ i = Len(queued) + 1
      BY <2>1, <1>n
    <3>2. CASE i \in 1 .. Len(queued)
      <4>1. queued'[i] = queued[i]
        BY <2>1, <3>2, <1>n
      <4>2. queued[i] # q /\ queued[i] \in Queries
        BY <2>1, <3>2, <1>q
      <4>3. QED
        BY <2>1, <3>2, <4>1, <4>2, <1>n DEF ReaderInv
    <3>3. CASE i = Len(queued) + 1
      <4>1. queued'[i] = q
        BY <2>1, <3>3, <1>n
      <4>2. QED
        BY <2>1, <4>1, <1>n
    <3>4. QED
      BY <3>1, <3>2, <3>3
  <2>3. QED
    BY <1>4, <1>2, <2>1, <2>2 DEF QueryQueues
<1>5. ASSUME NEW q \in Queries, QueryStarts(q) \/ QueryRefused(q) PROVE ReaderInv'
  <2>1. queued' = <<>> /\ UNCHANGED <<conn, held, errand>>
    BY <1>5 DEF QueryStarts, QueryRefused, Busy
  <2>2. \A i \in 1 .. Len(queued') : on'[queued'[i]] = conn'
    BY <2>1
  <2>3. QED
    BY <1>5, <1>2, <2>1, <2>2 DEF QueryStarts, QueryRefused
<1>6. CASE Aim
  <2>1. /\ at["reader"] = "aim" /\ at'["reader"] = "call"
        /\ at'["forwarder"] = at["forwarder"]
    BY <1>6, ReaderWent DEF Aim
  <2>2. UNCHANGED <<conn, errand, queued, on>> /\ held' = [held EXCEPT !["reader"] = cancelFn]
    BY <1>6 DEF Aim
  <2>3. \A a \in Actors : at'[a] = "close" => held'[a] \in Queries
    BY <2>1, <2>2, <1>n DEF ReaderInv, Actors
  <2>4. QED
    BY <2>1, <2>2, <2>3 DEF ReaderInv
<1>7. CASE Call
  <2>1. /\ at["reader"] = "call" /\ at'["forwarder"] = at["forwarder"]
        /\ at'["reader"] = IF errand = "loss" THEN "leaving" ELSE "serving"
    BY <1>7, ReaderWent DEF Call
  <2>2. /\ UNCHANGED <<conn, queued, on>> /\ held' = [held EXCEPT !["reader"] = NoTurn]
        /\ errand' = "none"
    BY <1>7 DEF Call
  <2>3. \A a \in Actors : at'[a] = "close" => held'[a] \in Queries
    BY <2>1, <2>2, <1>n DEF ReaderInv, Actors
  <2>4. QED
    BY <2>1, <2>2, <2>3 DEF ReaderInv
<1>8. CASE ReadFails
  <2>1. /\ at["reader"] = "serving" /\ at'["forwarder"] = at["forwarder"]
        /\ at'["reader"] = IF Watched THEN "close" ELSE "aim"
    BY <1>8, ReaderWent DEF ReadFails, Mark, After
  <2>2. /\ UNCHANGED <<conn, on>> /\ errand' = "loss" /\ queued' = <<>>
        /\ held' = [held EXCEPT !["reader"] = IF Watched THEN watch ELSE NoTurn]
    BY <1>8 DEF ReadFails, Mark
  <2>3. \A a \in Actors : at'[a] = "close" => held'[a] \in Queries
    BY <2>1, <2>2, <1>n DEF ReaderInv, Actors, Watched
  <2>4. \A i \in 1 .. Len(queued') : on'[queued'[i]] = conn'
    BY <2>2
  <2>5. QED
    BY <2>1, <2>2, <2>3, <2>4 DEF ReaderInv
<1>9. CASE Disconnect
  <2>1. /\ at'["reader"] = at["reader"]
        /\ at'["forwarder"] = IF Watched THEN "close" ELSE "ending"
    BY <1>9, ForwarderWent DEF Disconnect, Mark, After
  <2>2. /\ UNCHANGED <<conn, on, errand>> /\ queued' = <<>>
        /\ held' = [held EXCEPT !["forwarder"] = IF Watched THEN watch ELSE NoTurn]
    BY <1>9 DEF Disconnect, Mark
  <2>3. \A a \in Actors : at'[a] = "close" => held'[a] \in Queries
    BY <2>1, <2>2, <1>n DEF ReaderInv, Actors, Watched
  <2>4. \A i \in 1 .. Len(queued') : on'[queued'[i]] = conn'
    BY <2>2
  <2>5. QED
    BY <2>1, <2>2, <2>3, <2>4 DEF ReaderInv
<1>10. CASE CloseWatch("reader")
  <2>1. /\ at["reader"] = "close" /\ at'["reader"] = "aim"
        /\ at'["forwarder"] = at["forwarder"]
    BY <1>10, ReaderWent DEF CloseWatch, After
  <2>2. UNCHANGED <<conn, errand, queued, on>> /\ held' = [held EXCEPT !["reader"] = NoTurn]
    BY <1>10 DEF CloseWatch
  <2>3. \A a \in Actors : at'[a] = "close" => held'[a] \in Queries
    BY <2>1, <2>2, <1>n DEF ReaderInv, Actors
  <2>4. QED
    BY <2>1, <2>2, <2>3 DEF ReaderInv
<1>11. CASE CloseWatch("forwarder")
  <2>1. at'["reader"] = at["reader"] /\ at'["forwarder"] = "ending"
    BY <1>11, ForwarderWent DEF CloseWatch, After
  <2>2. UNCHANGED <<conn, errand, queued, on>> /\ held' = [held EXCEPT !["forwarder"] = NoTurn]
    BY <1>11 DEF CloseWatch
  <2>3. \A a \in Actors : at'[a] = "close" => held'[a] \in Queries
    BY <2>1, <2>2, <1>n DEF ReaderInv, Actors
  <2>4. QED
    BY <2>1, <2>2, <2>3 DEF ReaderInv
<1>12. ASSUME NEW a \in Actors, CloseTwice(a) PROVE ReaderInv'
  <2>1. at'["reader"] = "panicked" /\ at'["forwarder"] = at["forwarder"]
    BY <1>12 DEF CloseTwice, TypeOK
  <2>2. UNCHANGED <<conn, errand, queued, on, held>>
    BY <1>12 DEF CloseTwice
  <2>3. \A b \in Actors : at'[b] = "close" => held'[b] \in Queries
    BY <2>1, <2>2 DEF ReaderInv, Actors
  <2>4. QED
    BY <2>1, <2>2, <2>3 DEF ReaderInv
<1>13. CASE Leave
  <2>1. /\ at["reader"] = "leaving" /\ at'["reader"] \in {"exited", "dialing"}
        /\ at'["forwarder"] = at["forwarder"]
    BY <1>13, ReaderWent DEF Leave
  <2>2. UNCHANGED <<conn, errand, queued, on, held>>
    BY <1>13 DEF Leave
  <2>3. \A b \in Actors : at'[b] = "close" => held'[b] \in Queries
    BY <2>1, <2>2 DEF ReaderInv, Actors
  <2>4. QED
    BY <2>1, <2>2, <2>3 DEF ReaderInv
<1>14. CASE EndConn
  <2>1. at'["reader"] = at["reader"] /\ at'["forwarder"] = "idle"
    BY <1>14, ForwarderWent DEF EndConn
  <2>2. UNCHANGED <<conn, errand, queued, on, held>>
    BY <1>14 DEF EndConn
  <2>3. \A b \in Actors : at'[b] = "close" => held'[b] \in Queries
    BY <2>1, <2>2 DEF ReaderInv, Actors
  <2>4. QED
    BY <2>1, <2>2, <2>3 DEF ReaderInv
<1>15. CASE PumpStep \/ RequestAck \/ UNCHANGED vars
  <2>1. UNCHANGED <<conn, errand, queued, on, held, at>>
    BY <1>15 DEF PumpStep, Write, WriteFails, Ack, RequestAck, vars
  <2>2. QED
    BY <2>1 DEF ReaderInv
<1>16. ASSUME NEW q \in Queries, TurnStep(q) PROVE ReaderInv'
  <2>1. /\ UNCHANGED <<conn, errand, on, held, at>>
        /\ queued' = queued \/ (queued # <<>> /\ queued' = Tail(queued))
    BY <1>16 DEF TurnStep, RunTurnReturns, Classify, SendResult, PopDropped, DropsNext,
       ReportDropped, HandsOverNothing, HandsOver
  <2>2. \A i \in 1 .. Len(queued') : on'[queued'[i]] = conn'
    <3>1. CASE queued' = queued
      BY <2>1, <3>1 DEF ReaderInv
    <3>2. CASE queued # <<>> /\ queued' = Tail(queued)
      <4>1. ASSUME NEW i \in 1 .. Len(queued')
            PROVE  i + 1 \in 1 .. Len(queued) /\ queued'[i] = queued[i + 1]
        BY <3>2, <1>n, TailFacts
      <4>2. QED
        BY <2>1, <4>1 DEF ReaderInv
    <3>3. QED
      BY <2>1, <3>1, <3>2
  <2>3. queued = <<>> => queued' = <<>>
    BY <2>1
  <2>4. QED
    BY <2>1, <2>2, <2>3 DEF ReaderInv
<1>17. QED
  <2>1. "reader" \in Actors /\ "forwarder" \in Actors
    BY DEF Actors
  <2>2. QED
    BY <2>1, <1>1, <1>3, <1>4, <1>5, <1>6, <1>7, <1>8, <1>9, <1>10, <1>11, <1>12, <1>13, <1>14,
       <1>15, <1>16
    DEF Next, ReaderStep, Dispatch, LossStep, ForwarderStep
-----------------------------------------------------------------------------
LEMMA SentOnce ==
  ASSUME TypeOK, NEW q \in Queries, Send(q)
  PROVE  /\ reports'[q] \in {reports[q], reports[q] + 1}
         /\ \A r \in Queries : r # q => reports'[r] = reports[r]
<1>1. reports \in [Queries -> Nat]
  BY DEF TypeOK
<1>2. QED
  BY <1>1 DEF Send

LEMMA ReportsStay ==
  ASSUME TypeOK, QueueInv, ReaderInv, ReportInv, OneResultEach, [Next]_vars
  PROVE  ReportInv' /\ OneResultEach'
<1> USE DEF connVars, turnVars, readVars, stopVars
<1>n. /\ queued \in Seq(Queries) /\ pc \in [Queries -> Stages] /\ reports \in [Queries -> Nat]
      /\ hand \in [Queries -> Queries \cup {NoTurn}]
  BY DEF TypeOK
<1>q. \A i \in 1 .. Len(queued) : queued[i] \in Queries /\ pc[queued[i]] = "queued"
  BY <1>n DEF QueueInv
<1>1. ASSUME NEW q \in Queries, NEW here, NEW there \in Stages, Move(q, here, there),
             UNCHANGED <<reports, hand>>, here \notin {"dropping", "popped", "refused"},
             there # "dropping", there \in Unreported => here \in Unreported,
             at'["reader"] = "refusing" => at["reader"] = "refusing" /\ arrived' = arrived
      PROVE  ReportInv' /\ OneResultEach'
  <2>1. /\ pc[q] = here /\ pc'[q] = there
        /\ \A r \in Queries : r # q => pc'[r] = pc[r]
    BY <1>1, Moved
  <2>2. \A r \in Queries : pc'[r] \in Unreported => reports'[r] = 0
    BY <1>1, <2>1 DEF ReportInv
  <2>3. \A r \in Queries : pc'[r] = "dropping" => pc[r] = "dropping" /\ pc[hand[r]] = "popped"
          /\ hand[r] \in Queries /\ reports[hand[r]] = 0
    BY <1>1, <2>1 DEF ReportInv, Reporting
  <2>4. \A r \in Queries : pc[r] \in {"popped", "refused"} => pc'[r] = pc[r]
    BY <1>1, <2>1
  <2>5. QED
    BY <1>1, <2>2, <2>3, <2>4 DEF ReportInv, Reporting, OneResultEach
<1>2. ASSUME NEW q \in Queries, QueryQueues(q) \/ QueryStarts(q) PROVE ReportInv' /\ OneResultEach'
  <2>1. at'["reader"] # "refusing"
    BY <1>2, ReaderWent DEF QueryQueues, QueryStarts
  <2>2. QED
    BY <1>1, <1>2, <2>1 DEF QueryQueues, QueryStarts, Stages, Turning, Unreported
<1>3. ASSUME NEW q \in Queries, RunTurnReturns(q) \/ HandsOverNothing(q)
      PROVE  ReportInv' /\ OneResultEach'
  BY <1>1, <1>3 DEF RunTurnReturns, HandsOverNothing, Stages, Turning, Unreported
<1>4. ASSUME NEW q \in Queries, Classify(q) PROVE ReportInv' /\ OneResultEach'
  BY <1>1, <1>4 DEF Classify, Stages, Turning, Unreported
<1>5. ASSUME NEW q \in Queries, QueryRefused(q) PROVE ReportInv' /\ OneResultEach'
  <2>1. /\ pc[q] = "new" /\ pc'[q] = "refused" /\ arrived' = q
        /\ UNCHANGED <<reports, hand>>
        /\ \A r \in Queries : r # q => pc'[r] = pc[r]
    BY <1>5, Moved DEF QueryRefused, Arrives, Stages, Turning
  <2>2. reports[q] = 0
    BY <2>1 DEF ReportInv, Unreported
  <2>3. \A r \in Queries : pc'[r] \in Unreported => reports'[r] = 0
    BY <2>1 DEF ReportInv, Unreported
  <2>4. \A r \in Queries : pc'[r] = "dropping" => pc[r] = "dropping" /\ pc'[hand[r]] = "popped"
          /\ hand[r] \in Queries /\ reports[hand[r]] = 0
    BY <2>1 DEF ReportInv, Reporting
  <2>5. QED
    BY <2>1, <2>2, <2>3, <2>4 DEF ReportInv, Reporting, OneResultEach
<1>6. CASE Refuses
  <2>1. /\ at["reader"] = "refusing" /\ at'["reader"] = "serving" /\ UNCHANGED <<pc, hand, arrived>>
    BY <1>6, ReaderWent DEF Refuses
  <2>2. arrived \in Queries /\ pc[arrived] = "refused" /\ reports[arrived] = 0
    BY <2>1 DEF ReportInv
  <2>3. /\ reports'[arrived] \in {0, 1}
        /\ \A r \in Queries : r # arrived => reports'[r] = reports[r]
    BY <1>6, <2>2, SentOnce DEF Refuses
  <2>4. OneResultEach'
    BY <2>3 DEF OneResultEach
  <2>5. QED
    BY <2>1, <2>2, <2>3, <2>4 DEF ReportInv, Reporting, Unreported
<1>7. CASE ReadFails \/ Disconnect
  <2>1. /\ pc' = [q \in Queries |-> IF pc[q] = "queued" THEN "forgotten" ELSE pc[q]]
        /\ UNCHANGED <<reports, hand, arrived>>
    BY <1>7 DEF ReadFails, Disconnect, Mark
  <2>2. at'["reader"] = "refusing" => at["reader"] = "refusing"
    BY <1>7, ReaderWent, ForwarderWent DEF ReadFails, Disconnect, Mark, After
  <2>3. \A r \in Queries : pc'[r] \in Unreported => reports'[r] = 0
    BY <2>1 DEF ReportInv, Unreported
  <2>4. \A r \in Queries : pc[r] # "queued" => pc'[r] = pc[r]
    BY <2>1
  <2>5. \A r \in Queries : pc'[r] = "dropping" => pc[r] = "dropping"
    BY <2>1
  <2>6. QED
    BY <2>1, <2>2, <2>3, <2>4, <2>5 DEF ReportInv, Reporting, OneResultEach
<1>8. ASSUME NEW q \in Queries, SendResult(q) PROVE ReportInv' /\ OneResultEach'
  <2>1. /\ pc[q] = "answering" /\ pc'[q] = "draining" /\ UNCHANGED <<hand, at, arrived>>
        /\ \A r \in Queries : r # q => pc'[r] = pc[r]
    BY <1>8, Moved DEF SendResult, Stages, Turning
  <2>2. reports'[q] \in {0, 1} /\ \A r \in Queries : r # q => reports'[r] = reports[r]
    BY <1>8, <2>1, SentOnce DEF SendResult, ReportInv, Unreported
  <2>3. \A r \in Queries : pc'[r] \in Unreported => reports'[r] = 0
    BY <2>1, <2>2 DEF ReportInv, Unreported
  <2>4. \A r \in Queries : pc'[r] = "dropping" => pc[r] = "dropping" /\ pc'[hand[r]] = "popped"
          /\ hand[r] \in Queries /\ reports'[hand[r]] = 0
    BY <2>1, <2>2 DEF ReportInv, Reporting
  <2>5. OneResultEach'
    BY <2>2 DEF OneResultEach
  <2>6. QED
    BY <2>1, <2>2, <2>3, <2>4, <2>5 DEF ReportInv, Reporting
<1>9. ASSUME NEW q \in Queries, PopDropped(q) \/ HandsOver(q)
      PROVE  ReportInv' /\ OneResultEach'
  <2>1. queued # <<>> /\ pc[q] = "draining" /\ UNCHANGED <<reports, at, arrived>>
    BY <1>9 DEF PopDropped, HandsOver, DropsNext
  <2> DEFINE h == Head(queued)
  <2>2. h \in Queries /\ pc[h] = "queued" /\ reports[h] = 0
    <3>1. h \in Queries /\ h = queued[1] /\ 1 \in 1 .. Len(queued)
      BY <2>1, <1>n, TailFacts
    <3>2. QED
      BY <3>1, <1>q DEF ReportInv, Unreported
  <2> HIDE DEF h
  <2>3. \A r \in Queries : r # h /\ r # q => pc'[r] = pc[r]
    BY <1>9, <1>n, <2>2 DEF PopDropped, HandsOver, h
  <2>4. CASE PopDropped(q)
    <3>1. /\ pc'[q] = "dropping" /\ pc'[h] = "popped" /\ hand'[q] = h
          /\ \A r \in Queries : r # q => hand'[r] = hand[r]
      BY <2>1, <2>2, <2>4, <1>n DEF PopDropped, h
    <3>2. \A r \in Queries : pc'[r] \in Unreported => reports'[r] = 0
      BY <2>1, <2>3, <3>1 DEF ReportInv, Unreported
    <3>3. \A r \in Queries : r # q /\ pc'[r] = "dropping" =>
            pc[r] = "dropping" /\ hand[r] \in Queries /\ pc[hand[r]] = "popped"
            /\ reports[hand[r]] = 0
      BY <2>3, <3>1 DEF ReportInv, Reporting
    <3>4. \A r \in Queries : pc[r] \in {"popped", "refused"} => pc'[r] = pc[r] /\ r # h
      BY <2>1, <2>2, <2>3
    <3>5. \A r \in Queries : pc'[r] = "dropping" =>
            hand'[r] \in Queries /\ pc'[hand'[r]] = "popped" /\ reports'[hand'[r]] = 0
      BY <2>1, <2>2, <3>1, <3>3, <3>4
    <3>6. \A r, t \in Queries : pc'[r] = "dropping" /\ pc'[t] = "dropping" /\ hand'[r] = hand'[t] => r = t
      BY <3>1, <3>3, <3>4 DEF ReportInv, Reporting
    <3>7. QED
      BY <2>1, <3>2, <3>4, <3>5, <3>6 DEF ReportInv, Reporting, OneResultEach
  <2>5. CASE HandsOver(q)
    <3>1. pc'[q] = "done" /\ pc'[h] = "running" /\ hand' = hand
      BY <2>1, <2>2, <2>5, <1>n DEF HandsOver, h
    <3>2. \A r \in Queries : pc'[r] \in Unreported => reports'[r] = 0
      BY <2>1, <2>2, <2>3, <3>1 DEF ReportInv, Unreported
    <3>3. \A r \in Queries : pc'[r] = "dropping" => pc[r] = "dropping"
      BY <2>3, <3>1
    <3>4. \A r \in Queries : pc[r] \in {"popped", "refused"} => pc'[r] = pc[r]
      BY <2>1, <2>2, <2>3
    <3>5. QED
      BY <2>1, <3>1, <3>2, <3>3, <3>4 DEF ReportInv, Reporting, OneResultEach
  <2>6. QED
    BY <1>9, <2>4, <2>5
<1>10. ASSUME NEW q \in Queries, ReportDropped(q) PROVE ReportInv' /\ OneResultEach'
  <2>1. /\ pc[q] = "dropping" /\ pc'[q] = "draining" /\ UNCHANGED <<at, arrived>>
        /\ \A r \in Queries : r # q => pc'[r] = pc[r]
    BY <1>10, Moved DEF ReportDropped, Stages, Turning
  <2>2. hand[q] \in Queries /\ pc[hand[q]] = "popped" /\ reports[hand[q]] = 0
    BY <2>1 DEF ReportInv, Reporting
  <2>3. /\ reports'[hand[q]] \in {0, 1}
        /\ \A r \in Queries : r # hand[q] => reports'[r] = reports[r]
    BY <1>10, <2>2, SentOnce DEF ReportDropped
  <2>4. \A r \in Queries : r # q => hand'[r] = hand[r]
    BY <1>10, <1>n DEF ReportDropped
  <2>5. \A r \in Queries : pc'[r] \in Unreported => reports'[r] = 0
    BY <2>1, <2>2, <2>3 DEF ReportInv, Unreported
  <2>6. \A r \in Queries : pc'[r] = "dropping" =>
          r # q /\ pc[r] = "dropping" /\ hand[r] # hand[q] /\ hand[r] \in Queries
          /\ pc[hand[r]] = "popped" /\ reports[hand[r]] = 0
    BY <2>1 DEF ReportInv, Reporting
  <2>7. \A r \in Queries : pc[r] \in {"popped", "refused"} => pc'[r] = pc[r]
    BY <2>1
  <2>8. OneResultEach'
    BY <2>3 DEF OneResultEach
  <2>9. QED
    BY <2>1, <2>2, <2>3, <2>4, <2>5, <2>6, <2>7, <2>8 DEF ReportInv, Reporting
<1>11. ASSUME UNCHANGED <<pc, hand, reports, arrived>>,
              at'["reader"] = "refusing" => at["reader"] = "refusing"
       PROVE  ReportInv' /\ OneResultEach'
  BY <1>11 DEF ReportInv, Reporting, OneResultEach
<1>12. CASE Dial \/ Receive \/ PassOn \/ CancelCommand \/ ShutdownCommand \/ ShutdownFlushes
            \/ GrabDone \/ Aim \/ Call \/ Leave
  <2>1. UNCHANGED <<pc, hand, reports, arrived>>
    BY <1>12 DEF Dial, Receive, PassOn, CancelCommand, ShutdownCommand, ShutdownFlushes,
       GrabDone, Aim, Call, Leave
  <2>2. at'["reader"] # "refusing"
    BY <1>12, ReaderWent DEF Dial, Receive, PassOn, CancelCommand, ShutdownCommand,
       ShutdownFlushes, GrabDone, Aim, Call, Leave
  <2>3. QED
    BY <1>11, <2>1, <2>2
<1>13. ASSUME NEW a \in Actors, LossStep(a) PROVE ReportInv' /\ OneResultEach'
  <2>1. UNCHANGED <<pc, hand, reports, arrived>>
    BY <1>13 DEF LossStep, CloseWatch, CloseTwice
  <2>2. at'["reader"] = "refusing" => at["reader"] = "refusing"
    BY <1>13, ReaderWent, ForwarderWent DEF LossStep, CloseWatch, CloseTwice, After, Actors, TypeOK
  <2>3. QED
    BY <1>11, <2>1, <2>2
<1>14. CASE EndConn
  BY <1>11, <1>14, ForwarderWent DEF EndConn
<1>15. CASE PumpStep \/ RequestAck \/ UNCHANGED vars
  BY <1>11, <1>15 DEF PumpStep, Write, WriteFails, Ack, RequestAck, vars
<1>16. QED
  <2>1. "reader" \in Actors /\ "forwarder" \in Actors
    BY DEF Actors
  <2>2. QED
    BY <2>1, <1>2, <1>3, <1>4, <1>5, <1>6, <1>7, <1>8, <1>9, <1>10, <1>12, <1>13, <1>14, <1>15
    DEF Next, ReaderStep, Dispatch, ForwarderStep, TurnStep
-----------------------------------------------------------------------------
LEMMA FlushStays ==
  ASSUME TypeOK, QueueInv, FlushIsExact, [Next]_vars
  PROVE  FlushIsExact'
<1> USE DEF connVars, turnVars, readVars, stopVars
<1>n. /\ queued \in Seq(Queries) /\ pc \in [Queries -> Stages]
      /\ flushed \in 0 .. Len(queued) /\ dropped \subseteq Queries
  BY DEF TypeOK
<1>q. \A i \in 1 .. Len(queued) : queued[i] \in Queries /\ pc[queued[i]] = "queued"
  BY <1>n DEF QueueInv
<1>1. ASSUME NEW q \in Queries, NEW here, here \notin {"queued", "popped", "forgotten"},
             NEW there \in Stages, Move(q, here, there), UNCHANGED <<queued, flushed, dropped>>
      PROVE  FlushIsExact'
  <2>1. pc[q] = here /\ \A r \in Queries : r # q => pc'[r] = pc[r]
    BY <1>1, Moved
  <2>2. \A r \in dropped : pc'[r] = pc[r]
    BY <2>1, <1>1, <1>n DEF FlushIsExact
  <2>3. QED
    BY <1>1, <2>2 DEF FlushIsExact
<1>2. ASSUME NEW q \in Queries, QueryStarts(q) \/ QueryRefused(q) PROVE FlushIsExact'
  BY <1>1, <1>2 DEF QueryStarts, QueryRefused, Stages, Turning
<1>3. ASSUME NEW q \in Queries, RunTurnReturns(q) \/ SendResult(q) \/ ReportDropped(q)
                                \/ HandsOverNothing(q)
      PROVE  FlushIsExact'
  BY <1>1, <1>3 DEF RunTurnReturns, SendResult, ReportDropped, HandsOverNothing, Stages, Turning
<1>4. ASSUME NEW q \in Queries, Classify(q) PROVE FlushIsExact'
  BY <1>1, <1>4 DEF Classify, Stages, Turning
<1>5. ASSUME NEW q \in Queries, QueryQueues(q) PROVE FlushIsExact'
  <2>1. /\ queued' = Append(queued, q) /\ UNCHANGED <<flushed, dropped>>
        /\ pc[q] = "new" /\ \A r \in Queries : r # q => pc'[r] = pc[r]
    BY <1>5, Moved DEF QueryQueues, Stages
  <2>2. q \notin dropped
    BY <2>1 DEF FlushIsExact
  <2>3. ASSUME NEW i \in 1 .. Len(queued') PROVE queued'[i] \in dropped <=> i <= flushed
    <3>1. i \in 1 .. Len(queued) \/ i = Len(queued) + 1
      BY <2>1, <1>n
    <3>2. CASE i \in 1 .. Len(queued)
      <4>1. queued'[i] = queued[i]
        BY <2>1, <3>2, <1>n
      <4>2. QED
        BY <3>2, <4>1 DEF FlushIsExact
    <3>3. CASE i = Len(queued) + 1
      <4>1. queued'[i] = q /\ ~(i <= flushed)
        BY <2>1, <3>3, <1>n
      <4>2. QED
        BY <4>1, <2>2
    <3>4. QED
      BY <3>1, <3>2, <3>3
  <2>4. QED
    BY <2>1, <2>2, <2>3, <1>n DEF FlushIsExact
<1>6. CASE CancelCommand \/ ShutdownFlushes
  <2>1. Flush /\ UNCHANGED <<queued, pc>>
    BY <1>6 DEF CancelCommand, ShutdownFlushes
  <2>2. \A i \in 1 .. Len(queued) : queued[i] \in dropped' /\ i <= flushed'
    BY <2>1, <1>n DEF Flush
  <2>3. ASSUME NEW r \in dropped' PROVE pc[r] \in {"queued", "popped", "forgotten"}
    BY <2>1, <1>q DEF Flush, FlushIsExact
  <2>4. QED
    BY <2>1, <2>2, <2>3 DEF FlushIsExact
<1>7. CASE ReadFails \/ Disconnect
  <2>1. /\ queued' = <<>> /\ dropped' = dropped
        /\ pc' = [q \in Queries |-> IF pc[q] = "queued" THEN "forgotten" ELSE pc[q]]
    BY <1>7 DEF ReadFails, Disconnect, Mark
  <2>2. \A r \in dropped : pc'[r] \in {"queued", "popped", "forgotten"}
    BY <2>1, <1>n DEF FlushIsExact
  <2>3. \A i \in 1 .. Len(queued') : queued'[i] \in dropped' <=> i <= flushed'
    BY <2>1
  <2>4. QED
    BY <2>1, <2>2, <2>3 DEF FlushIsExact
<1>8. ASSUME NEW q \in Queries, PopDropped(q) \/ HandsOver(q) PROVE FlushIsExact'
  <2>1. queued # <<>> /\ queued' = Tail(queued) /\ pc[q] = "draining" /\ dropped' = dropped
    BY <1>8 DEF PopDropped, HandsOver, DropsNext
  <2> DEFINE h == Head(queued)
  <2>2. /\ h \in Queries /\ h = queued[1] /\ 1 \in 1 .. Len(queued)
        /\ Len(queued) \in Nat \ {0} /\ Len(queued') = Len(queued) - 1
        /\ \A i \in 1 .. Len(queued) - 1 : queued'[i] = queued[i + 1]
    BY <2>1, <1>n, TailFacts
  <2>3. pc[h] = "queued" /\ (h \in dropped <=> 1 <= flushed)
    BY <2>2, <1>q DEF FlushIsExact
  <2> HIDE DEF h
  <2>4. \A r \in Queries : r # h /\ r # q => pc'[r] = pc[r]
    BY <1>8, <1>n, <2>2 DEF PopDropped, HandsOver, h
  <2>5. flushed' = IF flushed > 0 THEN flushed - 1 ELSE 0
    BY <1>8, <2>1, <1>n DEF PopDropped, HandsOver, DropsNext
  <2>6. ASSUME NEW i \in 1 .. Len(queued') PROVE queued'[i] \in dropped <=> i <= flushed'
    <3>1. i \in Nat \ {0} /\ i + 1 \in 1 .. Len(queued) /\ queued'[i] = queued[i + 1]
      BY <2>2
    <3>2. queued'[i] \in dropped <=> i + 1 <= flushed
      BY <3>1 DEF FlushIsExact
    <3>3. i + 1 <= flushed <=> i <= flushed'
      BY <3>1, <2>5, <1>n
    <3>4. QED
      BY <3>2, <3>3
  <2>7. h \in dropped => pc'[h] = "popped"
    <3>1. CASE PopDropped(q)
      BY <3>1, <2>1, <2>2, <2>3, <1>n DEF PopDropped, h
    <3>2. CASE HandsOver(q)
      BY <3>2, <2>1, <2>3, <1>n DEF HandsOver, DropsNext
    <3>3. QED
      BY <1>8, <3>1, <3>2
  <2>8. q \notin dropped
    BY <2>1 DEF FlushIsExact
  <2>9. \A r \in dropped : pc'[r] \in {"queued", "popped", "forgotten"}
    BY <2>4, <2>7, <2>8, <1>n DEF FlushIsExact
  <2>10. QED
    BY <2>1, <2>6, <2>9 DEF FlushIsExact
<1>9. CASE \/ Dial \/ Receive \/ PassOn \/ Refuses \/ ShutdownCommand \/ GrabDone \/ Aim \/ Call
           \/ Leave \/ LossStep("reader") \/ ForwarderStep \/ PumpStep \/ RequestAck
           \/ UNCHANGED vars
  <2>1. UNCHANGED <<queued, flushed, dropped, pc>>
    BY <1>9 DEF Dial, Receive, PassOn, Refuses, ShutdownCommand, GrabDone, Aim, Call, Leave,
       LossStep, CloseWatch, CloseTwice, ForwarderStep, EndConn, PumpStep, Write, WriteFails, Ack,
       RequestAck, vars
  <2>2. QED
    BY <2>1 DEF FlushIsExact
<1>10. QED
  BY <1>2, <1>3, <1>4, <1>5, <1>6, <1>7, <1>8, <1>9 DEF Next, ReaderStep, Dispatch, TurnStep
-----------------------------------------------------------------------------
LEMMA InvStep == Inv /\ [Next]_vars => Inv'
<1> SUFFICES ASSUME Inv, [Next]_vars PROVE Inv'
  OBVIOUS
<1>1. TypeOK'
  BY TypeStep
<1>2. QED
  BY <1>1, QueueStays, ReaderStays, ReportsStay, FlushStays DEF Inv

LEMMA Invariance == Spec => []Inv
BY InitInv, InvStep, PTL DEF Spec

(* The variables keep their types.                                         *)
THEOREM TypeCorrect == Spec => []TypeOK
BY Invariance, PTL DEF Inv

(* Behind a queue there is always a turn that has yet to look at it.       *)
THEOREM NoQueryIsStranded == Spec => []NoQueryStranded
BY Invariance, PTL DEF Inv

(* Whoever comes to report a query is the only one to.                     *)
THEOREM OneResultPerQuery == Spec => []OneResultEach
BY Invariance, PTL DEF Inv

(* A flush drops what it found queued and nothing that came later, and     *)
(* none of it runs.                                                        *)
THEOREM FlushDropsWhatItFound == Spec => []FlushIsExact
BY Invariance, PTL DEF Inv

LEMMA Starters ==
  ASSUME TypeOK, QueueInv, [Next]_vars, NEW q \in Queries, pc[q] # "running", pc'[q] = "running"
  PROVE  \/ QueryStarts(q)
         \/ \E r \in Queries : HandsOver(r) /\ queued # <<>> /\ q = queued[1]
<1> USE DEF turnVars
<1>n. queued \in Seq(Queries) /\ pc \in [Queries -> Stages]
  BY DEF TypeOK
<1>1. ASSUME NEW r \in Queries, NEW here, NEW there \in Stages \ {"running"}, Move(r, here, there)
      PROVE  FALSE
  BY <1>1, Moved
<1>2. ASSUME NEW r \in Queries, QueryQueues(r) \/ QueryRefused(r) PROVE FALSE
  BY <1>1, <1>2 DEF QueryQueues, QueryRefused, Stages
<1>3. ASSUME NEW r \in Queries, QueryStarts(r) PROVE r = q
  BY <1>3, Moved DEF QueryStarts, Stages, Turning
<1>4. CASE ReadFails \/ Disconnect
  BY <1>4, <1>n DEF ReadFails, Disconnect, Mark
<1>5. ASSUME NEW r \in Queries,
             RunTurnReturns(r) \/ SendResult(r) \/ ReportDropped(r) \/ HandsOverNothing(r)
      PROVE  FALSE
  BY <1>1, <1>5 DEF RunTurnReturns, SendResult, ReportDropped, HandsOverNothing, Stages, Turning
<1>6. ASSUME NEW r \in Queries, Classify(r) PROVE FALSE
  BY <1>1, <1>6 DEF Classify, Stages, Turning
<1>7. ASSUME NEW r \in Queries, PopDropped(r) PROVE FALSE
  <2>1. Head(queued) \in Queries
    BY <1>7, <1>n, TailFacts DEF PopDropped, DropsNext
  <2>2. QED
    BY <1>7, <1>n, <2>1 DEF PopDropped
<1>8. ASSUME NEW r \in Queries, HandsOver(r) PROVE queued # <<>> /\ q = queued[1]
  <2>1. queued # <<>> /\ Head(queued) \in Queries /\ Head(queued) = queued[1]
    BY <1>8, <1>n, TailFacts DEF HandsOver
  <2>2. QED
    BY <1>8, <1>n, <2>1 DEF HandsOver
<1>9. QED
  BY <1>2, <1>3, <1>4, <1>5, <1>6, <1>7, <1>8, WhoMovesQueries DEF TurnStep, Quiet

(* A turn starts on the connection its query came by, while the client     *)
(* serves that one.                                                        *)
THEOREM NothingStaleStarts == Spec => StaleNeverStarts
<1>1. ASSUME Inv, [Next]_vars, NEW q \in Queries, pc[q] # "running" /\ pc'[q] = "running"
      PROVE  on'[q] = conn
  <2>t. TypeOK /\ QueueInv /\ ReaderInv
    BY <1>1 DEF Inv
  <2>1. CASE QueryStarts(q)
    BY <2>1, <2>t DEF QueryStarts, Arrives, TypeOK
  <2>2. CASE \E r \in Queries : HandsOver(r) /\ queued # <<>> /\ q = queued[1]
    <3>1. on' = on /\ queued # <<>> /\ q = queued[1] /\ queued \in Seq(Queries)
      BY <2>2, <2>t DEF HandsOver, TypeOK
    <3>2. 1 \in 1 .. Len(queued)
      BY <3>1, TailFacts
    <3>3. QED
      BY <3>1, <3>2, <2>t DEF ReaderInv
  <2>3. QED
    BY <1>1, <2>t, <2>1, <2>2, Starters
<1>2. Inv /\ [Next]_vars =>
        [\A q \in Queries : pc[q] # "running" /\ pc'[q] = "running" => on'[q] = conn]_vars
  BY <1>1
<1>3. QED
  BY <1>2, Invariance, PTL DEF Spec, StaleNeverStarts

(* No turn starts behind a shutdown.                                       *)
THEOREM ShutdownIsTheEnd == Spec => ShutdownIsFinal
<1>1. ASSUME Inv, [Next]_vars, shuttingDown, NEW q \in Queries, pc'[q] = "running"
      PROVE  pc[q] = "running"
  <2>t. TypeOK /\ QueueInv
    BY <1>1 DEF Inv
  <2>1. ~QueryStarts(q)
    BY <1>1 DEF QueryStarts
  <2>2. ~\E r \in Queries : HandsOver(r)
    BY <1>1 DEF HandsOver, DropsNext
  <2>3. QED
    BY <1>1, <2>t, <2>1, <2>2, Starters
<1>2. Inv /\ [Next]_vars =>
        [shuttingDown =>
           \A q \in Queries : pc'[q] = "running" => pc[q] = "running"]_vars
  BY <1>1
<1>3. QED
  BY <1>2, Invariance, PTL DEF Spec, ShutdownIsFinal

(* No query is stranded, each has one result, and a flush drops exactly    *)
(* what it found, over any number of connections.                          *)
THEOREM ClientSound == Spec => []ClientIsSound
BY TypeCorrect, NoQueryIsStranded, OneResultPerQuery, FlushDropsWhatItFound, PTL DEF ClientIsSound

(* Nothing from before a flush starts after it, and nothing after shutdown. *)
THEOREM NothingLate == Spec => NothingStartsLate
BY NothingStaleStarts, ShutdownIsTheEnd, PTL DEF NothingStartsLate
-----------------------------------------------------------------------------
(* The feed.  A turn's events are counted along the way: emitted, in the   *)
(* subscription or the backlog, in the forwarder's hand, in the outbox,    *)
(* written.  While a turn runs on its own connection and nothing of it was *)
(* dropped the counts agree (FlowOK), at its end the pipe is empty         *)
(* (QuietOK), so that its result finds all of them in the outbox           *)
(* (ReportOK) and goes out behind them (ResultOK, WrittenOK).              *)

(* How many of a sequence are of some kind.                                *)
Places(s, K) == {n \in 1 .. Len(s) : s[n] \in K}
Count(s, K)  == Cardinality(Places(s, K))

(* Where a sequence has a kind of element is a finite set.                 *)
LEMMA PlacesFinite ==
  ASSUME NEW s, Len(s) \in Nat, NEW K
  PROVE  IsFiniteSet(Places(s, K)) /\ Count(s, K) \in Nat
<1>1. Places(s, K) \subseteq 1 .. Len(s) /\ IsFiniteSet(1 .. Len(s))
  BY FS_Interval DEF Places
<1>2. IsFiniteSet(Places(s, K))
  BY <1>1, FS_Subset
<1>3. QED
  BY <1>2, FS_CardinalityType DEF Count

(* None is counted where none is.                                          *)
LEMMA CountNone ==
  ASSUME NEW s, Len(s) \in Nat, NEW K
  PROVE  Count(s, K) = 0 <=> \A n \in 1 .. Len(s) : s[n] \notin K
<1>1. Count(s, K) = 0 <=> Places(s, K) = {}
  BY PlacesFinite, FS_EmptySet DEF Count
<1>2. QED
  BY <1>1 DEF Places

(* Of the empty sequence.                                                  *)
LEMMA CountEmpty ==
  ASSUME NEW K
  PROVE  Count(<<>>, K) = 0
<1>1. Len(<<>>) = 0
  OBVIOUS
<1>2. QED
  BY <1>1, CountNone

(* An element more.                                                        *)
LEMMA CountAppend ==
  ASSUME NEW S, NEW s \in Seq(S), NEW e \in S, NEW K
  PROVE  /\ Append(s, e) \in Seq(S) /\ Len(Append(s, e)) = Len(s) + 1 /\ Len(s) \in Nat
         /\ Count(s, K) \in Nat /\ Count(Append(s, e), K) \in Nat
         /\ e \in K => Count(Append(s, e), K) = Count(s, K) + 1
         /\ e \notin K => Count(Append(s, e), K) = Count(s, K)
<1> DEFINE t == Append(s, e)
           m == Len(s) + 1
<1>1. t \in Seq(S) /\ Len(t) = m /\ t[m] = e /\ Len(s) \in Nat /\ \A i \in 1 .. Len(s) : t[i] = s[i]
  OBVIOUS
<1> HIDE DEF t
<1>2. \A i \in 1 .. m : i \in 1 .. Len(s) \/ i = m
  BY <1>1
<1>3. IsFiniteSet(Places(s, K)) /\ Count(s, K) \in Nat /\ Count(t, K) \in Nat
  BY <1>1, PlacesFinite
<1>4. m \notin Places(s, K)
  BY <1>1 DEF Places
<1>5. ASSUME e \in K PROVE Places(t, K) = Places(s, K) \cup {m}
  <2>1. Places(t, K) \subseteq Places(s, K) \cup {m}
    BY <1>1, <1>2 DEF Places
  <2>2. m \in 1 .. m /\ \A i \in 1 .. Len(s) : i \in 1 .. m
    BY <1>1
  <2>3. Places(s, K) \cup {m} \subseteq Places(t, K)
    BY <2>2, <1>1, <1>5 DEF Places
  <2>4. QED
    BY <2>1, <2>3
<1>6. ASSUME e \notin K PROVE Places(t, K) = Places(s, K)
  <2>1. \A i \in 1 .. Len(s) : i \in 1 .. m
    BY <1>1
  <2>2. QED
    BY <2>1, <1>1, <1>2, <1>6 DEF Places
<1>7. e \in K => Count(t, K) = Count(s, K) + 1
  BY <1>3, <1>4, <1>5, FS_AddElement DEF Count
<1>8. e \notin K => Count(t, K) = Count(s, K)
  BY <1>6 DEF Count
<1>9. QED
  BY <1>1, <1>3, <1>7, <1>8 DEF t

(* A set of places moved along is as large.                                *)
LEMMA MovedAlong ==
  ASSUME NEW A \in SUBSET Nat, IsFiniteSet(A), NEW d \in Nat
  PROVE  IsFiniteSet({n + d : n \in A}) /\ Cardinality({n + d : n \in A}) = Cardinality(A)
<1> DEFINE B == {n + d : n \in A}
           f == [n \in A |-> n + d]
<1>1. f \in [A -> B]
  OBVIOUS
<1>2. \A x, y \in A : f[x] = f[y] => x = y
  <2>1. \A x, y \in Nat : x + d = y + d => x = y
    OBVIOUS
  <2>2. QED
    BY <2>1
<1>3. \A y \in B : \E x \in A : f[x] = y
  OBVIOUS
<1>4. f \in Bijection(A, B)
  BY <1>1, <1>2, <1>3 DEF Bijection, Injection, Surjection, IsInjective
<1>5. ExistsBijection(A, B)
  BY <1>4 DEF ExistsBijection
<1>6. QED
  BY <1>5, FS_Bijection

(* Of a concatenation.                                                     *)
LEMMA CountConcat ==
  ASSUME NEW S, NEW s \in Seq(S), NEW t \in Seq(S), NEW K
  PROVE  s \o t \in Seq(S) /\ Count(s \o t, K) = Count(s, K) + Count(t, K)
<1> DEFINE u == s \o t
           a == Len(s)
           A == Places(s, K)
           B == {n + a : n \in Places(t, K)}
<1>1. u \in Seq(S) /\ a \in Nat /\ Len(t) \in Nat /\ Len(u) = a + Len(t)
      /\ \A i \in 1 .. a : u[i] = s[i]
  OBVIOUS
<1>2. \A i \in 1 .. Len(t) : u[i + a] = t[i]
  OBVIOUS
<1> HIDE DEF u
<1>3. IsFiniteSet(A) /\ IsFiniteSet(Places(t, K)) /\ Places(t, K) \subseteq Nat
  <2>1. Places(t, K) \subseteq 1 .. Len(t) /\ 1 .. Len(t) \subseteq Nat
    BY DEF Places
  <2>2. QED
    BY <2>1, <1>1, PlacesFinite
<1>4. IsFiniteSet(B) /\ Cardinality(B) = Count(t, K)
  BY <1>1, <1>3, MovedAlong DEF Count
<1>5. Places(u, K) = A \cup B
  <2>1. ASSUME NEW i \in Places(u, K) PROVE i \in A \cup B
    <3>1. i \in 1 .. Len(u) /\ u[i] \in K
      BY DEF Places
    <3>2. CASE i \in 1 .. a
      BY <3>1, <3>2, <1>1 DEF Places
    <3>3. CASE i \notin 1 .. a
      <4>1. i - a \in 1 .. Len(t) /\ (i - a) + a = i
        BY <3>1, <3>3, <1>1
      <4>2. t[i - a] \in K
        BY <4>1, <3>1, <1>2
      <4>3. i - a \in Places(t, K)
        BY <4>1, <4>2 DEF Places
      <4>4. QED
        BY <4>1, <4>3
    <3>4. QED
      BY <3>2, <3>3
  <2>2. ASSUME NEW i \in A PROVE i \in Places(u, K)
    <3>1. i \in 1 .. a /\ s[i] \in K
      BY DEF Places
    <3>2. i \in 1 .. Len(u)
      BY <3>1, <1>1
    <3>3. QED
      BY <3>1, <3>2, <1>1 DEF Places
  <2>3. ASSUME NEW n \in Places(t, K) PROVE n + a \in Places(u, K)
    <3>1. n \in 1 .. Len(t) /\ t[n] \in K
      BY DEF Places
    <3>2. n + a \in 1 .. Len(u) /\ u[n + a] \in K
      BY <3>1, <1>1, <1>2
    <3>3. QED
      BY <3>2 DEF Places
  <2>4. QED
    BY <2>1, <2>2, <2>3
<1>6. A \cap B = {}
  <2> SUFFICES ASSUME NEW n \in Places(t, K), n + a \in A PROVE FALSE
    OBVIOUS
  <2>1. n \in 1 .. Len(t) /\ n + a \in 1 .. a
    BY DEF Places
  <2>2. QED
    BY <2>1, <1>1
<1>7. Cardinality(A \cup B) = Cardinality(A) + Cardinality(B) - Cardinality(A \cap B)
  BY <1>3, <1>4, FS_Union
<1>8. Cardinality(A \cap B) = 0 /\ Cardinality(A) \in Nat /\ Cardinality(B) \in Nat
  BY <1>3, <1>4, <1>6, FS_EmptySet, FS_CardinalityType
<1>9. Count(u, K) = Count(s, K) + Count(t, K)
  BY <1>4, <1>5, <1>7, <1>8 DEF Count
<1>10. QED
  BY <1>1, <1>9 DEF u

(* The head less.                                                          *)
LEMMA CountTail ==
  ASSUME NEW S, NEW s \in Seq(S), s # <<>>, NEW K
  PROVE  /\ Tail(s) \in Seq(S) /\ Len(Tail(s)) = Len(s) - 1 /\ Len(s) \in Nat /\ Head(s) = s[1] /\ Head(s) \in S
         /\ \A i \in 1 .. Len(s) - 1 : Tail(s)[i] = s[i + 1]
         /\ Count(s, K) \in Nat /\ Count(Tail(s), K) \in Nat
         /\ Head(s) \in K => Count(s, K) = Count(Tail(s), K) + 1
         /\ Head(s) \notin K => Count(s, K) = Count(Tail(s), K)
<1> DEFINE h == Head(s)
           t == Tail(s)
           B == {n + 1 : n \in Places(t, K)}
<1>1. t \in Seq(S) /\ Len(t) = Len(s) - 1 /\ Len(s) \in Nat /\ Len(s) > 0 /\ h = s[1] /\ h \in S
      /\ \A i \in 1 .. Len(s) - 1 : t[i] = s[i + 1]
  OBVIOUS
<1> HIDE DEF h, t
<1>2. IsFiniteSet(Places(t, K)) /\ Places(t, K) \subseteq Nat /\ Count(s, K) \in Nat /\ Count(t, K) \in Nat
  <2>1. Len(t) \in Nat
    BY <1>1
  <2>2. Places(t, K) \subseteq 1 .. Len(t) /\ 1 .. Len(t) \subseteq Nat
    BY DEF Places
  <2>3. QED
    BY <2>1, <2>2, <1>1, PlacesFinite
<1>3. IsFiniteSet(B) /\ Cardinality(B) = Count(t, K)
  BY <1>2, MovedAlong DEF Count
<1>4. \A i \in 2 .. Len(s) : i - 1 \in 1 .. Len(t) /\ (i - 1) + 1 = i /\ t[i - 1] = s[i]
  <2> SUFFICES ASSUME NEW i \in 2 .. Len(s) PROVE i - 1 \in 1 .. Len(t) /\ (i - 1) + 1 = i /\ t[i - 1] = s[i]
    OBVIOUS
  <2>1. i - 1 \in 1 .. Len(s) - 1 /\ (i - 1) + 1 = i
    BY <1>1
  <2>2. QED
    BY <2>1, <1>1
<1>5. \A i \in 2 .. Len(s) : i \in B <=> s[i] \in K
  <2>1. ASSUME NEW i \in 2 .. Len(s), s[i] \in K PROVE i \in B
    <3>1. i - 1 \in Places(t, K) /\ (i - 1) + 1 = i
      BY <2>1, <1>4 DEF Places
    <3>2. QED
      BY <3>1
  <2>2. ASSUME NEW n \in Places(t, K) PROVE n + 1 \in 2 .. Len(s) /\ s[n + 1] \in K
    <3>1. n \in 1 .. Len(s) - 1 /\ t[n] \in K
      BY <1>1 DEF Places
    <3>2. QED
      BY <3>1, <1>1
  <2>3. QED
    BY <2>1, <2>2
<1>6. B \subseteq 2 .. Len(s)
  <2>1. ASSUME NEW n \in Places(t, K) PROVE n + 1 \in 2 .. Len(s)
    <3>1. n \in 1 .. Len(s) - 1
      BY <1>1 DEF Places
    <3>2. QED
      BY <3>1, <1>1
  <2>2. QED
    BY <2>1
<1>7. \A i \in 1 .. Len(s) : i = 1 \/ i \in 2 .. Len(s)
  BY <1>1
<1>8. 1 \in 1 .. Len(s) /\ \A i \in 2 .. Len(s) : i \in 1 .. Len(s) /\ i # 1
  BY <1>1
<1> HIDE DEF B
<1>9. ASSUME h \in K PROVE Places(s, K) = B \cup {1} /\ 1 \notin B
  BY <1>1, <1>5, <1>6, <1>7, <1>8, <1>9 DEF Places
<1>10. ASSUME h \notin K PROVE Places(s, K) = B
  BY <1>1, <1>5, <1>6, <1>7, <1>8, <1>10 DEF Places
<1>11. h \in K => Count(s, K) = Count(t, K) + 1
  BY <1>3, <1>9, FS_AddElement DEF Count
<1>12. h \notin K => Count(s, K) = Count(t, K)
  BY <1>3, <1>10 DEF Count
<1>13. QED
  BY <1>1, <1>2, <1>11, <1>12 DEF h, t

(* Every variable of the feed, of its type.                                *)
Messages == [kind : {"ask", "question", "event", "result"}, turn : Nat, denied : Nat]
Records  == [conn : Nat, message : Messages]
Entries  == [kind : Kinds, turn : 1 .. MaxTurns]
Queue    == Entries \cup {Marker}
Told     == Kinds \cup {"question"}
Hands    == [step : {"pop", "asks", "context", "ask", "event", "check", "send"}, turn : Nat, via : Nat]

LineTypes ==
  /\ socket \in [n : 0 .. MaxFeeds, life : {"open", "over"}] /\ ctx \in 0 .. MaxFeeds
  /\ reader \in {"dialing", "serving", "lost", "ending", "leaving"}
  /\ bound \in [1 .. MaxTurns -> 0 .. MaxFeeds] /\ lost \in BOOLEAN
TurnTypes ==
  /\ turns \in 0 .. MaxTurns /\ running \in {Idle, turns}
  /\ phase \in {"idle", "starting", "running", "gated", "asking", "flushing", "waiting", "flushed", "reporting"}
  /\ running = Idle <=> phase \in {"idle", "reporting"}
  /\ phase = "reporting" => turns # 0
  /\ late \subseteq 1 .. turns
  /\ emitted \in [1 .. MaxTurns -> Seq(Told)]
  /\ tally \in Nat /\ report \in Nat /\ pending \subseteq 1 .. MaxTurns
SendTypes ==
  /\ outgoing \in Seq(Messages) /\ Len(outgoing) <= OutboxRoom /\ written \in Seq(Records)
PipeTypes ==
  /\ channel \in Seq(Entries) /\ Len(channel) <= BusRoom
  /\ backlog \in Seq(Queue) /\ Len(backlog) <= BacklogCap
  /\ relay \in {"moving", "dropping", "ending"} /\ fwd \in Hands

(* A flush is in the backlog while the turn waits for it, behind all of it.*)
MarkerOK ==
  /\ phase = "waiting" =>
       /\ channel = <<>> /\ backlog # <<>>
       /\ \A i \in 1 .. Len(backlog) : backlog[i] = Marker <=> i = Len(backlog)
  /\ phase # "waiting" => \A i \in 1 .. Len(backlog) : backlog[i] # Marker

FeedTypes == LineTypes /\ TurnTypes /\ SendTypes /\ PipeTypes

(* The constants are positive.                                             *)
LEMMA FeedBounds ==
  /\ Kinds \subseteq {"plain", "denied", "approval"}
  /\ BusRoom \in Nat \ {0} /\ BacklogCap \in Nat \ {0} /\ OutboxRoom \in Nat \ {0}
  /\ MaxTurns \in Nat \ {0} /\ MaxEvents \in Nat \ {0} /\ MaxFeeds \in Nat \ {0}
BY FeedAssumption

(* A flush is no event.                                                    *)
LEMMA MarkerIsNoEntry == Marker \notin Entries
BY FeedBounds DEF Marker, Entries

(* The line stays typed.                                                   *)
LEMMA LineTypesStep ==
  ASSUME LineTypes, TurnTypes, [FeedNext]_feedVars
  PROVE  LineTypes'
<1> USE FeedBounds DEF LineTypes
<1>1. ASSUME UNCHANGED <<socket, ctx, reader, bound, lost>> PROVE LineTypes'
  BY <1>1
<1>2. CASE DialPlane
  <2>1. socket.n + 1 \in 0 .. MaxFeeds
    BY <1>2 DEF DialPlane
  <2>2. QED
    BY <2>1, <1>2 DEF DialPlane, runVars
<1>3. CASE ReadBreaks
  BY <1>3 DEF ReadBreaks, MarkConnLost
<1>4. CASE CancelsTurn
  BY <1>4 DEF CancelsTurn
<1>5. CASE OnDisconnect
  BY <1>5 DEF OnDisconnect, runVars
<1>6. CASE ReaderLeaves
  BY <1>6 DEF ReaderLeaves, Closed, Background, runVars
<1>7. CASE PumpFails
  BY <1>7 DEF PumpFails, Closed, runVars
<1>8. CASE DropsConnection
  <2>1. socket' \in {socket, Closed} /\ lost' \in {lost, running # Idle} /\ UNCHANGED <<reader, ctx, bound>>
    BY <1>8 DEF DropsConnection, MarkConnLost
  <2>2. lost' \in BOOLEAN
    BY <2>1
  <2>3. QED
    BY <2>1, <2>2 DEF Closed
<1>9. CASE QueryArrives
  <2>1. UNCHANGED <<socket, ctx, reader>> /\ lost' = FALSE
        /\ bound' = [bound EXCEPT ![turns + 1] = socket.n]
    BY <1>9 DEF QueryArrives, lineVars
  <2>2. QED
    BY <2>1
<1>10. CASE Report
  BY <1>10 DEF Report, lineVars
<1>11. CASE PumpWrites \/ BeginTurn \/ (\E kind \in Kinds : Emit(kind)) \/ GateEnds \/ (\E t \in 1..MaxTurns : Approve(t))
           \/ AskUser \/ Answer \/ EndTurn \/ ReportTurn
  BY <1>1, <1>11 DEF PumpWrites, BeginTurn, Emit, GateEnds, Approve, AskUser, Answer, EndTurn, ReportTurn,
     lineVars, runVars
<1>12. CASE MoveOn \/ FlushPipe \/ Pop \/ RequestApproval \/ ForwardEvent
  BY <1>1, <1>12 DEF MoveOn, FlushPipe, Pop, RequestApproval, ForwardEvent, lineVars, runVars
<1>13. CASE SendAsk \/ SendEvent
  BY <1>1, <1>13 DEF SendAsk, SendEvent, Sends, lineVars, runVars
<1>14. CASE UNCHANGED feedVars
  BY <1>1, <1>14 DEF feedVars
<1>15. QED
  BY <1>2, <1>3, <1>5, <1>6, <1>7, <1>9, <1>10, <1>11, <1>12, <1>13, <1>14, <1>8, <1>4 DEF FeedNext, Forward

(* What a pop finds and leaves.                                            *)
LEMMA HeadOfBacklog ==
  ASSUME PipeTypes, backlog # <<>>
  PROVE  /\ Tail(backlog) \in Seq(Queue) /\ Len(Tail(backlog)) = Len(backlog) - 1 /\ Len(backlog) \in Nat
         /\ Head(backlog) = backlog[1] /\ Head(backlog) \in Queue
         /\ \A i \in 1 .. Len(backlog) - 1 : Tail(backlog)[i] = backlog[i + 1]
         /\ Head(backlog) # Marker =>
              /\ Head(backlog) \in Entries /\ Head(backlog).turn \in 1 .. MaxTurns
              /\ Head(backlog).kind \in Kinds
              /\ Head(backlog) = [kind |-> Head(backlog).kind, turn |-> Head(backlog).turn]
<1>1. backlog \in Seq(Queue)
  BY DEF PipeTypes
<1>2. /\ Tail(backlog) \in Seq(Queue) /\ Len(Tail(backlog)) = Len(backlog) - 1 /\ Len(backlog) \in Nat
      /\ Head(backlog) = backlog[1] /\ Head(backlog) \in Queue
      /\ \A i \in 1 .. Len(backlog) - 1 : Tail(backlog)[i] = backlog[i + 1]
  BY <1>1
<1>3. Head(backlog) # Marker => Head(backlog) \in Entries
  BY <1>2 DEF Queue
<1>4. \A e \in Entries : e.turn \in 1 .. MaxTurns /\ e.kind \in Kinds /\ e = [kind |-> e.kind, turn |-> e.turn]
  BY DEF Entries
<1>5. QED
  BY <1>2, <1>3, <1>4

(* The outbox stays typed, and within its room.                            *)
LEMMA SendTypesStep ==
  ASSUME LineTypes, TurnTypes, SendTypes, PipeTypes, [FeedNext]_feedVars
  PROVE  SendTypes'
<1> USE FeedBounds DEF SendTypes
<1>1. ASSUME UNCHANGED <<outgoing, written>> PROVE SendTypes'
  BY <1>1
<1>2. ASSUME NEW kind \in {"ask", "question", "event", "result"}, NEW t \in Nat, NEW n \in Nat, Len(outgoing) < OutboxRoom,
             outgoing' = Append(outgoing, [kind |-> kind, turn |-> t, denied |-> n]), written' = written
      PROVE  SendTypes'
  <2>1. [kind |-> kind, turn |-> t, denied |-> n] \in Messages
    BY DEF Messages
  <2>2. QED
    BY <2>1, <1>2
<1>3. CASE PumpWrites \/ PumpFails
  <2>1. outgoing # <<>> /\ outgoing' = Tail(outgoing)
        /\ (written' = written \/ written' = Append(written, [conn |-> socket.n, message |-> Head(outgoing)]))
    BY <1>3 DEF PumpWrites, PumpFails
  <2>2. Tail(outgoing) \in Seq(Messages) /\ Len(Tail(outgoing)) <= OutboxRoom /\ Head(outgoing) \in Messages
    BY <2>1
  <2>3. [conn |-> socket.n, message |-> Head(outgoing)] \in Records
    BY <2>2 DEF Records, LineTypes
  <2> DEFINE r == [conn |-> socket.n, message |-> Head(outgoing)]
  <2> HIDE DEF r
  <2>4. Append(written, r) \in Seq(Records)
    BY <2>3 DEF r
  <2>5. written' \in Seq(Records)
    BY <2>1, <2>4 DEF r
  <2>6. QED
    BY <2>1, <2>2, <2>5
<1>4. CASE AskUser
  <2>1. running \in Nat /\ 0 \in Nat
    BY DEF TurnTypes, Idle
  <2>2. CASE UNCHANGED outgoing
    BY <2>2, <1>1, <1>4 DEF AskUser
  <2>3. CASE Len(outgoing) < OutboxRoom /\ outgoing' = Append(outgoing, [kind |-> "question", turn |-> running, denied |-> 0])
    <3>1. written' = written
      BY <1>4 DEF AskUser
    <3>2. QED
      BY <3>1, <2>1, <2>3, <1>2
  <2>4. QED
    BY <2>2, <2>3, <1>4 DEF AskUser
<1>5. CASE ReportTurn
  <2>1. turns \in Nat /\ report \in Nat /\ written' = written
    BY <1>5 DEF TurnTypes, ReportTurn
  <2>2. CASE UNCHANGED outgoing
    BY <2>1, <2>2, <1>1
  <2>3. CASE Len(outgoing) < OutboxRoom /\ outgoing' = Append(outgoing, [kind |-> "result", turn |-> turns, denied |-> report])
    BY <2>1, <2>3, <1>2
  <2>4. QED
    BY <2>2, <2>3, <1>5 DEF ReportTurn
<1>6. CASE SendAsk \/ SendEvent
  <2>1. fwd.turn \in Nat /\ 0 \in Nat /\ written' = written
    BY <1>6 DEF PipeTypes, Hands, SendAsk, SendEvent, Sends
  <2>2. CASE UNCHANGED outgoing
    BY <2>1, <2>2, <1>1
  <2>3. ASSUME NEW kind \in {"ask", "event"}, Len(outgoing) < OutboxRoom,
               outgoing' = Append(outgoing, [kind |-> kind, turn |-> fwd.turn, denied |-> 0])
        PROVE  SendTypes'
    BY <2>1, <2>3, <1>2
  <2>4. QED
    BY <2>2, <2>3, <1>6 DEF SendAsk, SendEvent, Sends
<1>7. CASE DialPlane \/ ReadBreaks \/ CancelsTurn \/ OnDisconnect \/ ReaderLeaves \/ QueryArrives \/ BeginTurn
           \/ (\E kind \in Kinds : Emit(kind)) \/ GateEnds \/ (\E t \in 1..MaxTurns : Approve(t))
           \/ Answer \/ EndTurn \/ Report
  BY <1>1, <1>7 DEF DialPlane, ReadBreaks, CancelsTurn, OnDisconnect, ReaderLeaves, QueryArrives, BeginTurn, Emit, GateEnds,
     Approve, Answer, EndTurn, Report
<1>8. CASE MoveOn \/ FlushPipe \/ DropsConnection \/ Pop \/ RequestApproval \/ ForwardEvent
  BY <1>1, <1>8 DEF MoveOn, FlushPipe, DropsConnection, Pop, RequestApproval, ForwardEvent
<1>9. CASE UNCHANGED feedVars
  BY <1>1, <1>9 DEF feedVars
<1>10. QED
  BY <1>3, <1>4, <1>5, <1>6, <1>7, <1>8, <1>9 DEF FeedNext, Forward

(* The turn and its tallies stay typed.                                    *)
LEMMA TurnTypesStep ==
  ASSUME TurnTypes, MarkerOK, PipeTypes, [FeedNext]_feedVars
  PROVE  TurnTypes'
<1> USE FeedBounds DEF TurnTypes, Idle
<1>1. ASSUME UNCHANGED <<turns, running, phase, late, emitted, tally, report, pending>> PROVE TurnTypes'
  BY <1>1
<1>2. CASE DialPlane \/ ReadBreaks \/ CancelsTurn \/ ReaderLeaves \/ PumpWrites \/ PumpFails \/ DropsConnection
  BY <1>1, <1>2 DEF DialPlane, ReadBreaks, CancelsTurn, ReaderLeaves, PumpWrites, PumpFails, DropsConnection, runVars, tallyVars
<1>3. CASE OnDisconnect
  BY <1>3 DEF OnDisconnect, runVars
<1>4. CASE QueryArrives
  <2>1. turns' = turns + 1 /\ running' = turns + 1 /\ phase' = "starting" /\ turns + 1 \in 1 .. MaxTurns
        /\ UNCHANGED <<late, emitted, tally, report, pending>>
    BY <1>4 DEF QueryArrives, tallyVars
  <2>2. QED
    BY <2>1
<1>5. CASE BeginTurn
  BY <1>5 DEF BeginTurn
<1>6. ASSUME NEW k \in Told, emitted' = [emitted EXCEPT ![running] = Append(@, k)], running # Idle
      PROVE  emitted' \in [1 .. MaxTurns -> Seq(Told)]
  <2>1. running \in 1 .. MaxTurns
    BY <1>6
  <2>2. Append(emitted[running], k) \in Seq(Told)
    BY <2>1, <1>6
  <2>3. QED
    BY <2>1, <2>2, <1>6
<1>7. CASE \E kind \in Kinds : Emit(kind)
  <2>1. PICK kind \in Kinds : Emit(kind)
    BY <1>7
  <2>2. kind \in Told /\ running # Idle
    BY <2>1 DEF Told, Emit
  <2>3. emitted' \in [1 .. MaxTurns -> Seq(Told)]
    BY <2>1, <2>2, <1>6 DEF Emit
  <2>4. phase = "running" /\ phase' \in {"running", "gated"} /\ UNCHANGED <<turns, running, late, tally, report, pending>>
    BY <2>1 DEF Emit, tallyVars
  <2>5. QED
    BY <2>3, <2>4
<1>8. CASE GateEnds \/ Answer \/ EndTurn
  BY <1>8 DEF GateEnds, Answer, EndTurn, tallyVars
<1>9. CASE \E t \in 1..MaxTurns : Approve(t)
  <2>1. PICK t \in 1 .. MaxTurns : Approve(t)
    BY <1>9
  <2>2. pending' \subseteq pending /\ (phase' = phase \/ (phase = "gated" /\ phase' = "running"))
        /\ UNCHANGED <<turns, running, late, emitted, tally, report>>
    BY <2>1 DEF Approve, tallyVars
  <2>3. QED
    BY <2>2
<1>10. CASE AskUser
  <2>1. emitted' = [emitted EXCEPT ![running] = Append(@, "question")] /\ phase = "running" /\ phase' = "asking"
        /\ UNCHANGED <<turns, running, late, tally, report, pending>>
    BY <1>10 DEF AskUser, tallyVars
  <2>2. "question" \in Told /\ running # Idle
    BY <2>1 DEF Told
  <2>3. emitted' \in [1 .. MaxTurns -> Seq(Told)]
    BY <2>1, <2>2, <1>6
  <2>4. QED
    BY <2>1, <2>3
<1>11. CASE Report
  <2>1. phase = "flushed" /\ running' = Idle /\ phase' \in {"idle", "reporting"} /\ report' \in Nat
        /\ UNCHANGED <<turns, emitted, tally, pending>>
    BY <1>11 DEF Report
  <2>2. turns # 0
    BY <2>1
  <2>3. late' \subseteq 1 .. turns
    <3>1. late' \subseteq late \cup {turns}
      BY <1>11 DEF Report
    <3>2. turns \in 1 .. turns
      BY <2>2
    <3>3. QED
      BY <3>1, <3>2
  <2>4. QED
    BY <2>1, <2>2, <2>3
<1>12. CASE ReportTurn
  BY <1>12 DEF ReportTurn
<1>13. ASSUME NEW q, Queued(q), Marker \in Range(q) => phase \in {"flushing", "waiting"}
       PROVE  phase' = phase \/ (phase \in {"flushing", "waiting"} /\ phase' \in {"flushed", "waiting"})
  BY <1>13 DEF Queued, Holding
<1>14. CASE MoveOn \/ FlushPipe
  <2>1. PICK q : Queued(q) /\ (Marker \in Range(q) => phase \in {"flushing", "waiting"})
    <3>1. CASE FlushPipe
      BY <3>1 DEF FlushPipe
    <3>2. CASE MoveOn
      <4>1. channel # <<>> /\ Queued(Append(backlog, Head(channel))) /\ phase # "waiting"
        BY <3>2 DEF MoveOn, MarkerOK
      <4> DEFINE q == Append(backlog, Head(channel))
      <4>2. Head(channel) \in Entries /\ Head(channel) \in Queue /\ backlog \in Seq(Queue)
        BY <4>1 DEF PipeTypes, Queue
      <4>3. q \in Seq(Queue) /\ Len(q) = Len(backlog) + 1 /\ q[Len(backlog) + 1] = Head(channel)
            /\ \A i \in 1 .. Len(backlog) : q[i] = backlog[i]
        BY <4>2
      <4> HIDE DEF q
      <4>4. \A i \in 1 .. Len(q) : q[i] # Marker
        <5>1. \A i \in 1 .. Len(q) : i \in 1 .. Len(backlog) \/ i = Len(backlog) + 1
          BY <4>2, <4>3
        <5>2. QED
          BY <5>1, <4>1, <4>2, <4>3, MarkerIsNoEntry DEF MarkerOK
      <4>5. Marker \notin Range(q)
        BY <4>3, <4>4 DEF Range
      <4>6. QED
        BY <4>1, <4>5 DEF q
    <3>3. QED
      BY <3>1, <3>2, <1>14
  <2>2. UNCHANGED <<turns, running, late, emitted, tally, report, pending>>
    BY <1>14 DEF MoveOn, FlushPipe, tallyVars
  <2>3. QED
    BY <2>1, <2>2, <1>13
<1>15. CASE Pop
  <2>1. backlog # <<>> /\ UNCHANGED <<turns, running, late, emitted, report>>
    BY <1>15 DEF Pop
  <2>2. CASE Head(backlog) = Marker
    <3>1. phase' = "flushed" /\ UNCHANGED <<tally, pending>>
      BY <2>2, <1>15 DEF Pop
    <3>2. phase = "waiting"
      <4>1. backlog[1] = Marker /\ 1 \in 1 .. Len(backlog)
        BY <2>1, <2>2, HeadOfBacklog
      <4>2. QED
        BY <4>1 DEF MarkerOK
    <3>3. QED
      BY <2>1, <3>1, <3>2
  <2>3. CASE Head(backlog) # Marker
    <3>1. Observe(Head(backlog)) /\ phase' = phase
      BY <2>3, <1>15 DEF Pop
    <3>2. Head(backlog).turn \in 1 .. MaxTurns
      BY <2>1, <2>3, HeadOfBacklog
    <3>3. tally' = tally + 1 \/ tally' = tally
      BY <3>1 DEF Observe
    <3>4. pending' = pending \cup {Head(backlog).turn} \/ pending' = pending
      BY <3>1 DEF Observe
    <3>5. tally' \in Nat
      <4>1. tally \in Nat
        OBVIOUS
      <4>2. QED
        BY <4>1, <3>3
    <3>6. pending' \subseteq 1 .. MaxTurns
      <4>1. PICK t \in 1 .. MaxTurns : t = Head(backlog).turn
        BY <3>2
      <4>2. pending' = pending \cup {t} \/ pending' = pending
        BY <4>1, <3>4
      <4>3. QED
        BY <4>2
    <3>7. QED
      BY <2>1, <3>1, <3>5, <3>6
  <2>4. QED
    BY <2>2, <2>3
<1>16. CASE RequestApproval \/ ForwardEvent \/ SendAsk \/ SendEvent
  BY <1>1, <1>16 DEF RequestApproval, ForwardEvent, SendAsk, SendEvent, Sends, runVars, tallyVars
<1>17. CASE UNCHANGED feedVars
  BY <1>1, <1>17 DEF feedVars
<1>18. QED
  BY <1>2, <1>3, <1>4, <1>5, <1>7, <1>8, <1>9, <1>10, <1>11, <1>12, <1>14, <1>15, <1>16, <1>17 DEF FeedNext, Forward

(* What the relay takes and leaves.                                        *)
LEMMA HeadOfChannel ==
  ASSUME PipeTypes, channel # <<>>
  PROVE  /\ Tail(channel) \in Seq(Entries) /\ Len(Tail(channel)) = Len(channel) - 1 /\ Len(channel) \in Nat
         /\ Len(Tail(channel)) <= BusRoom
         /\ Head(channel) = channel[1] /\ Head(channel) \in Entries /\ Head(channel) \in Queue
         /\ \A i \in 1 .. Len(channel) - 1 : Tail(channel)[i] = channel[i + 1]
         /\ Append(backlog, Head(channel)) \in Seq(Queue) /\ backlog \in Seq(Queue)
         /\ Len(Append(backlog, Head(channel))) = Len(backlog) + 1 /\ Len(backlog) \in Nat
         /\ Append(backlog, Head(channel))[Len(backlog) + 1] = Head(channel)
         /\ \A i \in 1 .. Len(backlog) : Append(backlog, Head(channel))[i] = backlog[i]
<1>1. channel \in Seq(Entries) /\ Len(channel) <= BusRoom /\ backlog \in Seq(Queue)
  BY DEF PipeTypes
<1>2. Tail(channel) \in Seq(Entries) /\ Len(Tail(channel)) = Len(channel) - 1 /\ Len(channel) \in Nat
      /\ Head(channel) = channel[1] /\ Head(channel) \in Entries
      /\ \A i \in 1 .. Len(channel) - 1 : Tail(channel)[i] = channel[i + 1]
  BY <1>1
<1>3. Head(channel) \in Queue
  BY <1>2 DEF Queue
<1>4. Len(Tail(channel)) <= BusRoom
  BY <1>1, <1>2, FeedBounds
<1>5. /\ Append(backlog, Head(channel)) \in Seq(Queue)
      /\ Len(Append(backlog, Head(channel))) = Len(backlog) + 1 /\ Len(backlog) \in Nat
      /\ Append(backlog, Head(channel))[Len(backlog) + 1] = Head(channel)
      /\ \A i \in 1 .. Len(backlog) : Append(backlog, Head(channel))[i] = backlog[i]
  BY <1>1, <1>3
<1>6. QED
  BY <1>1, <1>2, <1>3, <1>4, <1>5

(* What a flush puts behind the backlog.                                   *)
Flushed == Append(backlog \o channel, Marker)

(* A flush drains the channel.                                             *)
LEMMA FlushTakesAll ==
  ASSUME PipeTypes
  PROVE  /\ SubSeq(channel, Drained + 1, Len(channel)) = <<>>
         /\ Append(backlog \o SubSeq(channel, 1, Drained), Marker) = Flushed
         /\ Flushed \in Seq(Queue) /\ backlog \o channel \in Seq(Queue)
         /\ Len(Flushed) = Len(backlog) + Len(channel) + 1 /\ Len(backlog) \in Nat /\ Len(channel) \in Nat
         /\ Flushed[Len(backlog) + Len(channel) + 1] = Marker
         /\ \A i \in 1 .. Len(backlog) : Flushed[i] = backlog[i]
         /\ \A i \in 1 .. Len(channel) : Flushed[Len(backlog) + i] = channel[i]
<1>1. channel \in Seq(Entries) /\ backlog \in Seq(Queue) /\ channel \in Seq(Queue)
  BY DEF PipeTypes, Queue
<1>2. SubSeq(channel, 1, Len(channel)) = channel /\ SubSeq(channel, Len(channel) + 1, Len(channel)) = <<>>
  BY <1>1
<1> DEFINE q == backlog \o channel
<1>3. q \in Seq(Queue) /\ Len(q) = Len(backlog) + Len(channel) /\ Len(backlog) \in Nat /\ Len(channel) \in Nat
      /\ (\A i \in 1 .. Len(backlog) : q[i] = backlog[i])
  BY <1>1
<1>4. \A i \in 1 .. Len(channel) : q[Len(backlog) + i] = channel[i]
  BY <1>1
<1> HIDE DEF q
<1>5. Marker \in Queue
  BY DEF Queue
<1> DEFINE f == Append(q, Marker)
<1>6. f \in Seq(Queue) /\ Len(f) = Len(q) + 1 /\ f[Len(q) + 1] = Marker /\ \A i \in 1 .. Len(q) : f[i] = q[i]
  BY <1>3, <1>5
<1> HIDE DEF f
<1>7. \A i \in 1 .. Len(backlog) : i \in 1 .. Len(q)
  BY <1>3
<1>8. \A i \in 1 .. Len(channel) : Len(backlog) + i \in 1 .. Len(q)
  BY <1>3
<1>9. f = Flushed
  BY DEF f, q, Flushed
<1>10. /\ f \in Seq(Queue) /\ q \in Seq(Queue)
       /\ Len(f) = Len(backlog) + Len(channel) + 1 /\ Len(backlog) \in Nat /\ Len(channel) \in Nat
       /\ f[Len(backlog) + Len(channel) + 1] = Marker
       /\ \A i \in 1 .. Len(backlog) : f[i] = backlog[i]
       /\ \A i \in 1 .. Len(channel) : f[Len(backlog) + i] = channel[i]
  BY <1>3, <1>4, <1>6, <1>7, <1>8
<1>11. QED
  BY <1>2, <1>9, <1>10 DEF Drained, q, Flushed

(* The pipe stays typed, and within its bounds.                            *)
LEMMA PipeTypesStep ==
  ASSUME LineTypes, TurnTypes, PipeTypes, [FeedNext]_feedVars
  PROVE  PipeTypes'
<1> USE FeedBounds
<1>1. ASSUME UNCHANGED <<channel, backlog, relay, fwd>> PROVE PipeTypes'
  BY <1>1 DEF PipeTypes
<1>2. <<>> \in Seq(Queue) /\ Len(<<>>) = 0
  OBVIOUS
<1>3. \A q \in Seq(Queue) : Queued(q) => backlog' \in Seq(Queue) /\ Len(backlog') <= BacklogCap /\ relay' \in {"moving", "dropping"}
  <2> SUFFICES ASSUME NEW q \in Seq(Queue), Queued(q)
               PROVE  backlog' \in Seq(Queue) /\ Len(backlog') <= BacklogCap /\ relay' \in {"moving", "dropping"}
    OBVIOUS
  <2>1. CASE Len(q) > BacklogCap
    <3>1. backlog' = <<>> /\ relay' = "dropping"
      BY <2>1 DEF Queued
    <3>2. QED
      BY <3>1, <1>2
  <2>2. CASE ~(Len(q) > BacklogCap)
    <3>1. backlog' = q /\ relay' = "moving"
      BY <2>2 DEF Queued
    <3>2. Len(q) \in Nat
      OBVIOUS
    <3>3. QED
      BY <3>1, <3>2, <2>2
  <2>3. QED
    BY <2>1, <2>2
<1>4. CASE \E kind \in Kinds : Emit(kind)
  <2>1. PICK kind \in Kinds : Emit(kind)
    BY <1>4
  <2>2. [kind |-> kind, turn |-> running] \in Entries
    BY <2>1 DEF Entries, TurnTypes, Emit, Idle
  <2> DEFINE e == [kind |-> kind, turn |-> running]
  <2>3. channel' = channel \/ (Len(channel) < BusRoom /\ channel' = Append(channel, e))
    BY <2>1 DEF Emit
  <2>4. UNCHANGED <<backlog, relay, fwd>>
    BY <2>1 DEF Emit
  <2> HIDE DEF e
  <2>5. channel' \in Seq(Entries) /\ Len(channel') <= BusRoom
    BY <2>2, <2>3 DEF PipeTypes, e
  <2>6. QED
    BY <2>4, <2>5 DEF PipeTypes
<1>5. CASE MoveOn
  <2>1. channel # <<>> /\ channel' = Tail(channel) /\ Queued(Append(backlog, Head(channel))) /\ fwd' = fwd
    BY <1>5 DEF MoveOn
  <2>2. backlog' \in Seq(Queue) /\ Len(backlog') <= BacklogCap /\ relay' \in {"moving", "dropping"}
    BY <2>1, <1>3, HeadOfChannel
  <2>3. QED
    BY <2>1, <2>2, HeadOfChannel DEF PipeTypes
<1>6. CASE FlushPipe
  <2>1. channel' = <<>> /\ Queued(Flushed) /\ fwd' = fwd
    BY <1>6, FlushTakesAll DEF FlushPipe
  <2>2. backlog' \in Seq(Queue) /\ Len(backlog') <= BacklogCap /\ relay' \in {"moving", "dropping"}
    BY <2>1, <1>3, FlushTakesAll
  <2>3. QED
    BY <2>1, <2>2 DEF PipeTypes
<1>7. CASE DropsConnection
  BY <1>7 DEF DropsConnection, PipeTypes
<1>8. \A s \in {"pop", "asks", "context", "ask", "event", "check", "send"}, t \in Nat, v \in Nat : At(s, t, v) \in Hands
  BY DEF At, Hands
<1>9. Empty \in Hands
  BY DEF Empty, Hands
<1>10. fwd.turn \in Nat /\ fwd.via \in Nat /\ running \in Nat /\ ctx \in Nat /\ Background \in Nat
  BY DEF PipeTypes, Hands, TurnTypes, LineTypes, Idle, Background
<1>11. CASE Pop
  <2>1. backlog # <<>> /\ backlog' = Tail(backlog) /\ UNCHANGED <<channel, relay>>
    BY <1>11 DEF Pop
  <2>2. Tail(backlog) \in Seq(Queue) /\ Len(Tail(backlog)) <= BacklogCap
    <3>1. Len(backlog) <= BacklogCap
      BY DEF PipeTypes
    <3>2. QED
      BY <3>1, <2>1, HeadOfBacklog
  <2>3. fwd' \in Hands
    <3>1. CASE Head(backlog) = Marker
      BY <3>1, <1>11 DEF Pop, PipeTypes
    <3>2. CASE Head(backlog) # Marker
      <4>1. Head(backlog).turn \in Nat
        BY <3>2, <2>1, HeadOfBacklog
      <4>2. \E s \in {"asks", "event"} : fwd' = At(s, Head(backlog).turn, Background)
        BY <3>2, <1>11 DEF Pop
      <4>3. QED
        BY <4>1, <4>2, <1>8, <1>10
    <3>3. QED
      BY <3>1, <3>2
  <2>4. QED
    BY <2>1, <2>2, <2>3 DEF PipeTypes
<1>12. CASE RequestApproval \/ ForwardEvent \/ SendAsk \/ SendEvent
  <2>1. UNCHANGED <<channel, backlog, relay>>
    BY <1>12 DEF RequestApproval, ForwardEvent, SendAsk, SendEvent, Sends
  <2>2. fwd' \in Hands
    <3>1. CASE RequestApproval
      <4>1. \/ fwd' = At("context", running, fwd.via)
            \/ fwd' = At("event", fwd.turn, fwd.via)
            \/ fwd' = At("ask", fwd.turn, ctx)
        BY <3>1 DEF RequestApproval
      <4>2. QED
        BY <4>1, <1>8, <1>10
    <3>2. CASE ForwardEvent
      <4>1. \/ fwd' = Empty
            \/ fwd' = At("check", running, ctx)
            \/ fwd' = At("send", fwd.turn, fwd.via)
        BY <3>2 DEF ForwardEvent
      <4>2. QED
        BY <4>1, <1>8, <1>9, <1>10
    <3>3. CASE SendAsk \/ SendEvent
      <4>1. fwd' = At("event", fwd.turn, Background) \/ fwd' = Empty
        BY <3>3 DEF SendAsk, SendEvent, Sends
      <4>2. QED
        BY <4>1, <1>8, <1>9, <1>10
    <3>4. QED
      BY <3>1, <3>2, <3>3, <1>12
  <2>3. QED
    BY <2>1, <2>2 DEF PipeTypes
<1>13. CASE DialPlane \/ ReadBreaks \/ CancelsTurn \/ OnDisconnect \/ ReaderLeaves \/ PumpWrites \/ PumpFails \/ QueryArrives \/ BeginTurn
            \/ GateEnds \/ (\E t \in 1..MaxTurns : Approve(t)) \/ AskUser \/ Answer \/ EndTurn \/ Report \/ ReportTurn
            \/ UNCHANGED feedVars
  BY <1>1, <1>13 DEF DialPlane, ReadBreaks, CancelsTurn, OnDisconnect, ReaderLeaves, PumpWrites, PumpFails, QueryArrives, BeginTurn,
     GateEnds, Approve, AskUser, Answer, EndTurn, Report, ReportTurn, pipeVars, feedVars
<1>14. QED
  BY <1>4, <1>5, <1>6, <1>7, <1>11, <1>12, <1>13 DEF FeedNext, Forward

(* How far a turn's events have come: in the outbox or written, in the     *)
(* forwarder's hand, in the pipe.                                          *)
OutEvents(t)  == {m \in Messages : m.kind = "event" /\ m.turn = t}
Penned(t)     == {r \in Records : r.message \in OutEvents(t)}
Piped(K)      == {e \in Entries : e.kind \in K}
Mailed(t)       == Count(written, Penned(t)) + Count(outgoing, OutEvents(t))
InHand        == IF fwd.step = "pop" THEN 0 ELSE 1
InPipe(K)     == Count(backlog, Piped(K)) + Count(channel, Piped(K))
Said(t, K)    == Count(emitted[t], K)
Whole(t)      == (1 .. t) \cap holed = {}
OnLine(t)     == socket.n = bound[t] /\ Connected
Done(t)       == t \in 1 .. turns /\ t # running /\ (t = turns => phase = "idle")
Steady        == running # Idle /\ lost = FALSE /\ Whole(turns) /\ OnLine(turns)

(* The reader serves the connection its context comes from.                *)
LineOK ==
  /\ reader = "dialing" => socket.life = "over"
  /\ reader # "dialing" => ctx = socket.n
  /\ \A t \in 1 .. turns : bound[t] <= socket.n

(* Nothing is of a turn that has not begun.                                *)
Turns(c, b, f) ==
  {c[i].turn : i \in 1 .. Len(c)} \cup {b[i].turn : i \in {j \in 1 .. Len(b) : b[j] # Marker}}
    \cup (IF f.step = "pop" THEN {} ELSE {f.turn})
Carried == Turns(channel, backlog, fwd)
RangeOK == Carried \subseteq 1 .. turns
Unsaid ==
  /\ \A t \in 1 .. MaxTurns : t > turns => emitted[t] = <<>>
  /\ phase = "starting" => emitted[turns] = <<>>

(* Only a turn that is over has a result.                                  *)
Fair == {m \in Messages : m.turn \in 1 .. turns /\ (m.kind = "result" => Done(m.turn))}
MailOK ==
  /\ \A i \in 1 .. Len(outgoing) : outgoing[i] \in Fair
  /\ \A i \in 1 .. Len(written) : written[i].message \in Fair

(* Of a turn that is over the pipe holds nothing, when nothing was dropped.*)
QuietOK ==
  /\ \A t \in 1 .. turns : Whole(t) /\ t # running => t \notin Carried
  /\ Whole(turns) /\ phase \in {"idle", "starting", "flushed", "reporting"} =>
       channel = <<>> /\ backlog = <<>> /\ fwd.step = "pop"

(* Nothing of the turn that runs is lost between its emission and the      *)
(* outbox, and its denials are counted.                                    *)
FlowOK ==
  Steady =>
    /\ reader = "serving"
    /\ fwd.step \in {"check", "send"} => fwd.via = bound[turns]
    /\ Mailed(turns) + InHand + InPipe(Kinds) = Said(turns, Kinds)
    /\ phase # "starting" => tally + InPipe({"denied"}) = Said(turns, {"denied"})

ReportOK ==
  phase = "reporting" /\ Whole(turns) /\ turns \notin late /\ OnLine(turns) =>
    Mailed(turns) = Said(turns, Kinds) /\ report = Said(turns, {"denied"})

ToldAt(k, t, d) ==
  /\ \A j \in 1 .. Len(outgoing) : outgoing[j] \in OutEvents(t) => j < k
  /\ OnLine(t) => Mailed(t) = Said(t, Kinds) /\ d = Said(t, {"denied"})
ResultOK ==
  \A k \in 1 .. Len(outgoing) :
    outgoing[k].kind = "result" /\ Whole(outgoing[k].turn) /\ outgoing[k].turn \notin late
      => ToldAt(k, outgoing[k].turn, outgoing[k].denied)

Stands(i, t, d) ==
  /\ \A j \in 1 .. Len(written) : written[j] \in Penned(t) => j < i
  /\ \A j \in 1 .. Len(outgoing) : outgoing[j] \notin OutEvents(t)
  /\ Count(written, Penned(t)) = Said(t, Kinds) /\ d = Said(t, {"denied"})
WrittenOK ==
  \A i \in 1 .. Len(written) :
    written[i].message.kind = "result" /\ written[i].conn = bound[written[i].message.turn]
      /\ Whole(written[i].message.turn) /\ written[i].message.turn \notin late =>
        Stands(i, written[i].message.turn, written[i].message.denied)

FeedInv ==
  /\ FeedTypes /\ MarkerOK /\ LineOK /\ RangeOK /\ MailOK /\ Unsaid
  /\ QuietOK /\ FlowOK /\ ReportOK /\ ResultOK /\ WrittenOK

(* The elements of a sequence with one more.                               *)
LEMMA Appended ==
  ASSUME NEW S, NEW s \in Seq(S), NEW e \in S
  PROVE  /\ Append(s, e) \in Seq(S) /\ Len(Append(s, e)) = Len(s) + 1 /\ Len(s) \in Nat
         /\ Append(s, e)[Len(s) + 1] = e
         /\ \A i \in 1 .. Len(s) : i \in 1 .. Len(s) + 1 /\ Append(s, e)[i] = s[i]
         /\ \A i \in 1 .. Len(s) + 1 : i \in 1 .. Len(s) \/ i = Len(s) + 1
<1>1. /\ Append(s, e) \in Seq(S) /\ Len(Append(s, e)) = Len(s) + 1 /\ Len(s) \in Nat
      /\ Append(s, e)[Len(s) + 1] = e
      /\ \A i \in 1 .. Len(s) : Append(s, e)[i] = s[i]
  OBVIOUS
<1>2. \A i \in 1 .. Len(s) + 1 : i \in 1 .. Len(s) \/ i = Len(s) + 1
  BY <1>1
<1>3. \A i \in 1 .. Len(s) : i \in 1 .. Len(s) + 1
  BY <1>1
<1>4. QED
  BY <1>1, <1>2, <1>3

(* What the relay moves holds no flush, and a flush comes last.            *)
LEMMA MovedHoldsNoFlush ==
  ASSUME PipeTypes, MarkerOK, channel # <<>>, NEW q, q = Append(backlog, Head(channel))
  PROVE  phase # "waiting" /\ q \in Seq(Queue) /\ ~Holding(q, Marker)
         /\ \A i \in 1 .. Len(q) : q[i] # Marker
<1>1. phase # "waiting"
  BY DEF MarkerOK
<1>2. q \in Seq(Queue) /\ Len(q) = Len(backlog) + 1 /\ Len(backlog) \in Nat
  BY HeadOfChannel
<1>3. \A i \in 1 .. Len(q) : i \in 1 .. Len(backlog) \/ i = Len(backlog) + 1
  BY <1>2
<1>4. \A i \in 1 .. Len(q) : q[i] # Marker
  BY <1>1, <1>3, HeadOfChannel, MarkerIsNoEntry DEF MarkerOK
<1>5. QED
  BY <1>1, <1>2, <1>4 DEF Holding, Range

(* A flush is queued once, behind everything.                              *)
LEMMA FlushComesLast ==
  ASSUME PipeTypes, MarkerOK, phase = "flushing"
  PROVE  Holding(Flushed, Marker) /\ \A i \in 1 .. Len(Flushed) : Flushed[i] = Marker <=> i = Len(Flushed)
<1>1. \A i \in 1 .. Len(backlog) : Flushed[i] # Marker
  BY FlushTakesAll DEF MarkerOK
<1>2. \A i \in 1 .. Len(channel) : Flushed[Len(backlog) + i] # Marker
  <2>1. \A i \in 1 .. Len(channel) : channel[i] \in Entries
    BY DEF PipeTypes
  <2>2. QED
    BY <2>1, FlushTakesAll, MarkerIsNoEntry
<1> DEFINE n == Len(backlog)
           m == Len(channel)
<1>3. n \in Nat /\ m \in Nat /\ Len(Flushed) = n + m + 1 /\ Flushed[n + m + 1] = Marker /\ Flushed \in Seq(Queue)
  BY FlushTakesAll
<1>4. \A i \in 1 .. n + m + 1 : i \in 1 .. n \/ (i - n \in 1 .. m /\ n + (i - n) = i) \/ i = n + m + 1
  BY <1>3
<1>5. \A i \in 1 .. Len(Flushed) : i # Len(Flushed) => Flushed[i] # Marker
  BY <1>1, <1>2, <1>3, <1>4
<1>6. Len(Flushed) \in 1 .. Len(Flushed)
  BY <1>3
<1>7. QED
  BY <1>3, <1>5, <1>6 DEF Holding, Range

(* MarkerOK is kept.                                                       *)
LEMMA MarkerStep ==
  ASSUME PipeTypes, MarkerOK, [FeedNext]_feedVars
  PROVE  MarkerOK'
<1>1. ASSUME UNCHANGED <<phase, channel, backlog>> PROVE MarkerOK'
  BY <1>1 DEF MarkerOK
<1>2. ASSUME UNCHANGED backlog, phase # "waiting", phase' # "waiting" PROVE MarkerOK'
  BY <1>2 DEF MarkerOK
<1>3. CASE DialPlane \/ ReadBreaks \/ CancelsTurn \/ OnDisconnect \/ ReaderLeaves \/ PumpWrites \/ PumpFails \/ DropsConnection
           \/ RequestApproval \/ ForwardEvent \/ SendAsk \/ SendEvent \/ UNCHANGED feedVars
  BY <1>1, <1>3 DEF DialPlane, ReadBreaks, CancelsTurn, OnDisconnect, ReaderLeaves, PumpWrites, PumpFails, DropsConnection,
     RequestApproval, ForwardEvent, SendAsk, SendEvent, Sends, pipeVars, runVars, feedVars
<1>4. CASE QueryArrives \/ BeginTurn \/ GateEnds \/ AskUser \/ Answer \/ EndTurn \/ Report \/ ReportTurn
  BY <1>2, <1>4 DEF QueryArrives, BeginTurn, GateEnds, AskUser, Answer, EndTurn, Report, ReportTurn, pipeVars
<1>5. CASE \E kind \in Kinds : Emit(kind)
  BY <1>2, <1>5 DEF Emit
<1>6. CASE \E t \in 1..MaxTurns : Approve(t)
  <2>1. PICK t \in 1 .. MaxTurns : Approve(t)
    BY <1>6
  <2>2. UNCHANGED <<channel, backlog>> /\ (phase' = phase \/ (phase = "gated" /\ phase' = "running"))
    BY <2>1 DEF Approve, pipeVars
  <2>3. CASE phase' = phase
    BY <2>2, <2>3, <1>1
  <2>4. CASE phase = "gated" /\ phase' = "running"
    BY <2>2, <2>4, <1>2
  <2>5. QED
    BY <2>2, <2>3, <2>4
<1>7. CASE MoveOn
  <2> DEFINE q == Append(backlog, Head(channel))
  <2>1. channel # <<>> /\ Queued(q)
    BY <1>7 DEF MoveOn
  <2>2. phase # "waiting" /\ q \in Seq(Queue) /\ ~Holding(q, Marker) /\ \A i \in 1 .. Len(q) : q[i] # Marker
    BY <2>1, MovedHoldsNoFlush
  <2> HIDE DEF q
  <2>3. phase' = phase /\ (backlog' = q \/ backlog' = <<>>)
    BY <2>1, <2>2 DEF Queued
  <2>4. QED
    BY <2>2, <2>3 DEF MarkerOK
<1>8. CASE FlushPipe
  <2>1. phase = "flushing" /\ channel' = <<>> /\ Queued(Flushed)
    BY <1>8, FlushTakesAll DEF FlushPipe
  <2>2. Holding(Flushed, Marker) /\ \A i \in 1 .. Len(Flushed) : Flushed[i] = Marker <=> i = Len(Flushed)
    BY <2>1, FlushComesLast
  <2>3. Flushed \in Seq(Queue) /\ Len(Flushed) # 0
    BY FlushTakesAll
  <2>4. \/ phase' = "flushed" /\ backlog' = <<>>
        \/ phase' = "waiting" /\ backlog' = Flushed
    BY <2>1, <2>2 DEF Queued
  <2>5. QED
    BY <2>1, <2>2, <2>3, <2>4 DEF MarkerOK
<1>9. CASE Pop
  <2>1. backlog # <<>> /\ backlog' = Tail(backlog) /\ channel' = channel
    BY <1>9 DEF Pop
  <2> DEFINE n == Len(backlog)
  <2>2. n \in Nat /\ n > 0 /\ Len(backlog') = n - 1 /\ backlog' \in Seq(Queue) /\ Head(backlog) = backlog[1] /\ 1 \in 1 .. n
        /\ \A i \in 1 .. n - 1 : backlog'[i] = backlog[i + 1] /\ i + 1 \in 1 .. n /\ (i + 1 = n <=> i = n - 1)
    <3>1. backlog \in Seq(Queue)
      BY DEF PipeTypes
    <3>2. n \in Nat /\ n > 0
      BY <3>1, <2>1
    <3>3. \A i \in 1 .. n - 1 : i + 1 \in 1 .. n /\ (i + 1 = n <=> i = n - 1)
      BY <3>2
    <3>4. QED
      BY <2>1, <3>2, <3>3, HeadOfBacklog
  <2> HIDE DEF n
  <2>3. CASE Head(backlog) = Marker
    <3>1. phase' = "flushed"
      BY <1>9, <2>3 DEF Pop
    <3>2. phase = "waiting" /\ n = 1
      BY <2>2, <2>3 DEF MarkerOK, n
    <3>3. QED
      BY <2>2, <3>1, <3>2 DEF MarkerOK
  <2>4. CASE Head(backlog) # Marker
    <3>1. phase' = phase
      BY <1>9, <2>4 DEF Pop
    <3>2. CASE phase = "waiting"
      <4>1. channel = <<>> /\ \A i \in 1 .. n : backlog[i] = Marker <=> i = n
        BY <3>2 DEF MarkerOK, n
      <4>2. n # 1
        BY <4>1, <2>2, <2>4
      <4>3. backlog' # <<>>
        BY <4>2, <2>2
      <4>4. \A i \in 1 .. n - 1 : backlog'[i] = Marker <=> i = n - 1
        BY <4>1, <2>2
      <4>5. QED
        BY <2>1, <2>2, <3>1, <3>2, <4>1, <4>3, <4>4 DEF MarkerOK
    <3>3. CASE phase # "waiting"
      <4>1. \A i \in 1 .. n : backlog[i] # Marker
        BY <3>3 DEF MarkerOK, n
      <4>2. QED
        BY <2>2, <3>1, <3>3, <4>1 DEF MarkerOK
    <3>4. QED
      BY <3>2, <3>3
  <2>5. QED
    BY <2>3, <2>4
<1>10. QED
  BY <1>3, <1>4, <1>5, <1>6, <1>7, <1>8, <1>9 DEF FeedNext, Forward

(* What a step leaves of what came before it.                              *)
LEMMA HolesStay ==
  ASSUME [FeedNext]_feedVars
  PROVE  holed \subseteq holed'
<1>1. ASSUME NEW q, Queued(q) PROVE holed \subseteq holed'
  BY <1>1 DEF Queued
<1>2. CASE MoveOn \/ FlushPipe
  BY <1>1, <1>2 DEF MoveOn, FlushPipe
<1>3. CASE \E kind \in Kinds : Emit(kind)
  BY <1>3 DEF Emit
<1>4. CASE DialPlane \/ ReadBreaks \/ CancelsTurn \/ OnDisconnect \/ ReaderLeaves \/ PumpWrites \/ PumpFails \/ DropsConnection
           \/ RequestApproval \/ ForwardEvent \/ SendAsk \/ SendEvent \/ UNCHANGED feedVars
  BY <1>4 DEF DialPlane, ReadBreaks, CancelsTurn, OnDisconnect, ReaderLeaves, PumpWrites, PumpFails, DropsConnection,
     RequestApproval, ForwardEvent, SendAsk, SendEvent, Sends, runVars, feedVars
<1>5. CASE QueryArrives \/ BeginTurn \/ GateEnds \/ AskUser \/ Answer \/ EndTurn \/ Report \/ ReportTurn \/ Pop
           \/ \E t \in 1..MaxTurns : Approve(t)
  BY <1>5 DEF QueryArrives, BeginTurn, GateEnds, AskUser, Answer, EndTurn, Report, ReportTurn, Pop, Approve
<1>6. QED
  BY <1>2, <1>3, <1>4, <1>5 DEF FeedNext, Forward

(* Who has reported late has.                                              *)
LEMMA LateStays ==
  ASSUME [FeedNext]_feedVars
  PROVE  late \subseteq late'
<1>1. CASE DialPlane \/ ReadBreaks \/ CancelsTurn \/ OnDisconnect \/ ReaderLeaves \/ PumpWrites \/ PumpFails
           \/ DropsConnection \/ RequestApproval \/ ForwardEvent \/ SendAsk \/ SendEvent \/ UNCHANGED feedVars
  BY <1>1 DEF DialPlane, ReadBreaks, CancelsTurn, OnDisconnect, ReaderLeaves, PumpWrites, PumpFails, DropsConnection,
     RequestApproval, ForwardEvent, SendAsk, SendEvent, Sends, runVars, feedVars
<1>2. CASE QueryArrives \/ BeginTurn \/ GateEnds \/ AskUser \/ Answer \/ EndTurn \/ ReportTurn \/ Pop \/ MoveOn
           \/ FlushPipe \/ (\E t \in 1..MaxTurns : Approve(t)) \/ \E kind \in Kinds : Emit(kind)
  BY <1>2 DEF QueryArrives, BeginTurn, GateEnds, AskUser, Answer, EndTurn, ReportTurn, Pop, Approve, MoveOn, FlushPipe,
     Emit
<1>3. CASE Report
  BY <1>3 DEF Report
<1>4. QED
  BY <1>1, <1>2, <1>3 DEF FeedNext, Forward

(* Turns are only begun at rest; one ends when it is flushed.              *)
LEMMA TurnsStep ==
  ASSUME TurnTypes, [FeedNext]_feedVars
  PROVE  \/ /\ UNCHANGED <<turns, bound>> /\ running' \in {running, Idle}
            /\ running' # running => phase = "flushed" /\ phase' \in {"idle", "reporting"}
            /\ \A t \in 1 .. MaxTurns : t # running => emitted'[t] = emitted[t]
         \/ /\ turns' = turns + 1 /\ running' = turns + 1 /\ phase = "idle" /\ running = Idle /\ lost' = FALSE
            /\ bound' = [bound EXCEPT ![turns + 1] = socket.n] /\ emitted' = emitted /\ phase' = "starting"
            /\ turns < MaxTurns /\ reader = "serving" /\ Connected /\ socket' = socket /\ ctx' = ctx /\ reader' = reader
<1> DEFINE Same == /\ UNCHANGED <<turns, bound>> /\ running' \in {running, Idle}
                   /\ running' # running => phase = "flushed" /\ phase' \in {"idle", "reporting"}
                   /\ \A t \in 1 .. MaxTurns : t # running => emitted'[t] = emitted[t]
<1>1. ASSUME UNCHANGED <<turns, bound, running, emitted>> PROVE Same
  BY <1>1
<1>2. CASE QueryArrives
  BY <1>2 DEF QueryArrives, lineVars
<1>3. ASSUME NEW k, emitted' = [emitted EXCEPT ![running] = Append(@, k)], UNCHANGED <<turns, bound, running>>
      PROVE  Same
  <2>1. emitted \in [1 .. MaxTurns -> Seq(Told)]
    BY DEF TurnTypes
  <2>2. \A t \in 1 .. MaxTurns : t # running => emitted'[t] = emitted[t]
    BY <2>1, <1>3
  <2>3. QED
    BY <2>2, <1>3
<1>4. CASE \E kind \in Kinds : Emit(kind)
  <2>1. PICK kind \in Kinds : Emit(kind)
    BY <1>4
  <2>2. emitted' = [emitted EXCEPT ![running] = Append(@, kind)] /\ UNCHANGED <<turns, bound, running>>
    BY <2>1 DEF Emit
  <2>3. QED
    BY <2>2, <1>3
<1>5. CASE AskUser
  <2>1. emitted' = [emitted EXCEPT ![running] = Append(@, "question")] /\ UNCHANGED <<turns, bound, running>>
    BY <1>5 DEF AskUser
  <2>2. QED
    BY <2>1, <1>3
<1>6. CASE Report
  BY <1>6 DEF Report
<1>7. CASE DialPlane \/ ReadBreaks \/ CancelsTurn \/ OnDisconnect \/ ReaderLeaves \/ PumpWrites \/ PumpFails \/ DropsConnection
           \/ RequestApproval \/ ForwardEvent \/ SendAsk \/ SendEvent \/ UNCHANGED feedVars
  BY <1>1, <1>7 DEF DialPlane, ReadBreaks, CancelsTurn, OnDisconnect, ReaderLeaves, PumpWrites, PumpFails, DropsConnection,
     RequestApproval, ForwardEvent, SendAsk, SendEvent, Sends, runVars, feedVars
<1>8. CASE BeginTurn \/ GateEnds \/ Answer \/ EndTurn \/ ReportTurn \/ Pop \/ MoveOn \/ FlushPipe
           \/ \E t \in 1..MaxTurns : Approve(t)
  BY <1>1, <1>8 DEF BeginTurn, GateEnds, Answer, EndTurn, ReportTurn, Pop, Approve, MoveOn, FlushPipe
<1>9. QED
  BY <1>2, <1>4, <1>5, <1>6, <1>7, <1>8 DEF FeedNext, Forward

(* A connection ends for good, and the next has the next number.           *)
LEMMA SocketStep ==
  ASSUME LineTypes, LineOK, [FeedNext]_feedVars
  PROVE  \/ socket' = socket
         \/ socket'.n = socket.n /\ socket'.life = "over"
         \/ socket'.n = socket.n + 1 /\ reader = "dialing" /\ socket.life = "over"
<1>1. CASE DialPlane
  BY <1>1 DEF DialPlane, LineOK
<1>2. CASE ReaderLeaves \/ PumpFails \/ DropsConnection
  BY <1>2 DEF ReaderLeaves, PumpFails, DropsConnection, Closed
<1>3. CASE ReadBreaks \/ CancelsTurn \/ OnDisconnect \/ PumpWrites
           \/ RequestApproval \/ ForwardEvent \/ SendAsk \/ SendEvent \/ UNCHANGED feedVars
  BY <1>3 DEF ReadBreaks, CancelsTurn, OnDisconnect, PumpWrites, lineVars,
     RequestApproval, ForwardEvent, SendAsk, SendEvent, Sends, feedVars
<1>4. CASE QueryArrives \/ BeginTurn \/ GateEnds \/ Answer \/ EndTurn \/ ReportTurn \/ Pop \/ MoveOn \/ FlushPipe
           \/ (\E t \in 1..MaxTurns : Approve(t)) \/ AskUser \/ Report \/ \E kind \in Kinds : Emit(kind)
  BY <1>4 DEF QueryArrives, BeginTurn, GateEnds, Answer, EndTurn, ReportTurn, Pop, Approve, MoveOn, FlushPipe,
     AskUser, Report, Emit, lineVars
<1>5. QED
  BY <1>1, <1>2, <1>3, <1>4 DEF FeedNext, Forward

(* What no step takes back.                                                *)
LEMMA Kept ==
  ASSUME LineTypes, TurnTypes, LineOK, [FeedNext]_feedVars
  PROVE  /\ turns \in Nat /\ turns' \in {turns, turns + 1} /\ turns' \in Nat
         /\ \A t \in 1 .. turns : t \in 1 .. turns' /\ bound'[t] = bound[t] /\ t \in 1 .. MaxTurns
         /\ \A t \in Nat : Whole(t)' => Whole(t)
         /\ \A t \in 1 .. turns : OnLine(t)' => OnLine(t)
         /\ \A t \in 1 .. MaxTurns : t # running => emitted'[t] = emitted[t]
<1>1. turns \in 0 .. MaxTurns /\ MaxTurns \in Nat /\ turns \in Nat
  BY FeedBounds DEF TurnTypes
<1>2. bound \in [1 .. MaxTurns -> 0 .. MaxFeeds]
  BY DEF LineTypes
<1>3. turns' \in {turns, turns + 1} /\ (bound' = bound \/ bound' = [bound EXCEPT ![turns + 1] = socket.n])
  BY TurnsStep
<1>4. \A t \in 1 .. turns : t \in 1 .. turns' /\ t \in 1 .. MaxTurns /\ t # turns + 1
  BY <1>1, <1>3
<1>5. \A t \in 1 .. turns : bound'[t] = bound[t]
  BY <1>2, <1>3, <1>4
<1>6. \A t \in Nat : Whole(t)' => Whole(t)
  BY HolesStay DEF Whole
<1>7. \A t \in 1 .. turns : OnLine(t)' => OnLine(t)
  <2> SUFFICES ASSUME NEW t \in 1 .. turns, OnLine(t)' PROVE OnLine(t)
    OBVIOUS
  <2>1. bound'[t] = bound[t] /\ bound[t] <= socket.n /\ bound[t] \in Nat /\ socket.n \in Nat
    <3>1. t \in 1 .. MaxTurns
      BY <1>4
    <3>2. bound[t] \in 0 .. MaxFeeds
      BY <3>1, <1>2
    <3>3. socket.n \in 0 .. MaxFeeds
      BY DEF LineTypes
    <3>4. bound[t] \in Nat /\ socket.n \in Nat
      BY <3>2, <3>3, FeedBounds
    <3>5. QED
      BY <3>4, <1>5 DEF LineOK
  <2>2. socket'.n = bound'[t] /\ socket'.life = "open"
    BY DEF OnLine, Connected
  <2>3. socket' = socket \/ socket'.n = socket.n + 1
    BY <2>2, SocketStep
  <2>4. socket' = socket
    BY <2>1, <2>2, <2>3
  <2>5. QED
    BY <2>1, <2>2, <2>4 DEF OnLine, Connected
<1>8. \A t \in 1 .. MaxTurns : t # running => emitted'[t] = emitted[t]
  BY TurnsStep
<1>9. QED
  BY <1>1, <1>3, <1>4, <1>5, <1>6, <1>7, <1>8

(* LineOK is kept.                                                         *)
LEMMA LineStep ==
  ASSUME LineTypes, TurnTypes, LineOK, [FeedNext]_feedVars
  PROVE  LineOK'
<1>1. \A t \in 1 .. turns' : bound'[t] <= socket'.n
  <2>1. bound \in [1 .. MaxTurns -> 0 .. MaxFeeds] /\ turns \in 0 .. MaxTurns /\ socket.n \in 0 .. MaxFeeds
        /\ MaxFeeds \in Nat /\ MaxTurns \in Nat
    BY FeedBounds DEF LineTypes, TurnTypes
  <2>2. socket'.n \in Nat /\ socket.n <= socket'.n
    BY <2>1, SocketStep
  <2>3. \A t \in 1 .. turns : bound[t] <= socket.n /\ bound[t] \in Nat
    <3>1. \A t \in 1 .. turns : t \in 1 .. MaxTurns
      BY <2>1
    <3>2. QED
      BY <2>1, <3>1 DEF LineOK
  <2>4. CASE turns' = turns /\ bound' = bound
    BY <2>1, <2>2, <2>3, <2>4
  <2>5. CASE turns' = turns + 1 /\ bound' = [bound EXCEPT ![turns + 1] = socket.n]
    <3> SUFFICES ASSUME NEW t \in 1 .. turns + 1 PROVE bound'[t] <= socket'.n
      BY <2>5
    <3>1. turns + 1 \in 1 .. MaxTurns
      <4>1. turns < MaxTurns
        <5>1. turns' # turns
          BY <2>5, <2>1
        <5>2. QED
          BY <5>1, TurnsStep
      <4>2. QED
        BY <4>1, <2>1
    <3>2. CASE t = turns + 1
      BY <3>1, <3>2, <2>1, <2>2, <2>5
    <3>3. CASE t # turns + 1
      <4>1. t \in 1 .. turns
        BY <3>3, <2>1
      <4>2. bound'[t] = bound[t]
        BY <3>3, <2>1, <2>5, <4>1
      <4>3. QED
        BY <4>1, <4>2, <2>1, <2>2, <2>3
    <3>4. QED
      BY <3>2, <3>3
  <2>6. QED
    BY <2>4, <2>5, TurnsStep
<1> DEFINE Ends == (reader = "dialing" => socket.life = "over") /\ (reader # "dialing" => ctx = socket.n)
<1>2. Ends
  BY DEF LineOK
<1>3. CASE DialPlane \/ ReaderLeaves \/ PumpFails \/ DropsConnection \/ ReadBreaks \/ CancelsTurn \/ OnDisconnect
  <2>1. Ends'
    BY <1>2, <1>3 DEF DialPlane, ReaderLeaves, PumpFails, DropsConnection, Closed, ReadBreaks, CancelsTurn, OnDisconnect
  <2>2. QED
    BY <1>1, <2>1 DEF LineOK
<1>4. ASSUME UNCHANGED <<socket, reader, ctx>> PROVE LineOK'
  BY <1>1, <1>2, <1>4 DEF LineOK
<1>5. CASE PumpWrites
           \/ RequestApproval \/ ForwardEvent \/ SendAsk \/ SendEvent \/ UNCHANGED feedVars
  BY <1>4, <1>5 DEF PumpWrites, lineVars,
     RequestApproval, ForwardEvent, SendAsk, SendEvent, Sends, feedVars
<1>6. CASE QueryArrives \/ BeginTurn \/ GateEnds \/ Answer \/ EndTurn \/ ReportTurn \/ Pop \/ MoveOn \/ FlushPipe
           \/ (\E t \in 1..MaxTurns : Approve(t)) \/ AskUser \/ Report \/ \E kind \in Kinds : Emit(kind)
  BY <1>4, <1>6 DEF QueryArrives, BeginTurn, GateEnds, Answer, EndTurn, ReportTurn, Pop, Approve, MoveOn, FlushPipe,
     AskUser, Report, Emit, lineVars
<1>7. QED
  BY <1>3, <1>5, <1>6 DEF FeedNext, Forward

(* Whose events a pipe carries.                                            *)
LEMMA TurnsOf ==
  ASSUME NEW c, NEW b, NEW f, NEW t
  PROVE  t \in Turns(c, b, f) <=>
           \/ \E i \in 1 .. Len(c) : c[i].turn = t
           \/ \E i \in 1 .. Len(b) : b[i] # Marker /\ b[i].turn = t
           \/ f.step # "pop" /\ t = f.turn
BY DEF Turns

(* The relay moves what there is, or drops it and leaves a hole.           *)
LEMMA RelayStep ==
  ASSUME TurnTypes, PipeTypes, MarkerOK, RangeOK, MoveOn \/ FlushPipe
  PROVE  /\ UNCHANGED <<socket, reader, ctx, outgoing, written, turns, running, bound, lost, emitted, fwd,
                        tally, report, pending>>
         /\ \A i \in 1 .. Len(channel') : \E j \in 1 .. Len(channel) : channel'[i] = channel[j]
         /\ \/ /\ ~Whole(turns)' /\ backlog' = <<>>
               /\ phase' \in {phase, "flushed"} /\ (phase' # phase => phase = "flushing")
            \/ /\ holed' = holed
               /\ phase' = phase \/ (phase = "flushing" /\ phase' = "waiting")
               /\ \A K : InPipe(K)' = InPipe(K)
               /\ \A i \in 1 .. Len(backlog') :
                    \/ \E j \in 1 .. Len(backlog) : backlog'[i] = backlog[j]
                    \/ \E j \in 1 .. Len(channel) : backlog'[i] = channel[j]
                    \/ backlog'[i] = Marker
<1> DEFINE Of(e) == \/ \E j \in 1 .. Len(backlog) : e = backlog[j]
                    \/ \E j \in 1 .. Len(channel) : e = channel[j]
                    \/ e = Marker
<1>1. \A j \in 1 .. Len(backlog) : backlog[j] # Marker => backlog[j].turn \in 1 .. turns
  BY TurnsOf DEF RangeOK, Carried
<1>2. \A j \in 1 .. Len(channel) : channel[j].turn \in 1 .. turns
  BY TurnsOf DEF RangeOK, Carried
<1>3. ASSUME NEW q \in Seq(Queue), Queued(q), Len(q) > BacklogCap, Len(q) > 1, Of(q[1]), q[1] # Marker,
             turns' = turns
      PROVE  ~Whole(turns)' /\ backlog' = <<>>
  <2>1. q[1].turn \in 1 .. turns
    BY <1>1, <1>2, <1>3
  <2>2. 1 \in {j \in DOMAIN q : q[j] # Marker}
    BY <1>3
  <2>3. q[1].turn \in holed'
    BY <2>2, <1>3 DEF Queued
  <2>4. QED
    BY <2>1, <2>3, <1>3 DEF Queued, Whole
<1>4. channel \in Seq(Entries) /\ channel \in Seq(Queue) /\ backlog \in Seq(Queue) /\ Marker \in Queue /\ BacklogCap \in Nat \ {0}
      /\ Len(channel) \in Nat /\ Len(backlog) \in Nat
  BY FeedBounds DEF PipeTypes, Queue
<1>5. CASE MoveOn
  <2> DEFINE h == Head(channel)
             q == Append(backlog, h)
             n == Len(backlog)
  <2>1. channel # <<>> /\ channel' = Tail(channel) /\ Queued(q)
        /\ UNCHANGED <<socket, reader, ctx, outgoing, written, turns, running, bound, lost, emitted, fwd,
                        tally, report, pending>>
    BY <1>5 DEF MoveOn, lineVars, tallyVars
  <2>2. q \in Seq(Queue) /\ ~Holding(q, Marker) /\ \A i \in 1 .. Len(q) : q[i] # Marker
    BY <2>1, MovedHoldsNoFlush
  <2>3. /\ h = channel[1] /\ h \in Entries /\ h \in Queue /\ 1 \in 1 .. Len(channel) /\ n \in Nat
        /\ Len(q) = n + 1 /\ q[n + 1] = h
        /\ \A i \in 1 .. n : q[i] = backlog[i]
        /\ Len(channel') = Len(channel) - 1
        /\ \A i \in 1 .. Len(channel) - 1 : channel'[i] = channel[i + 1]
    BY <2>1, <1>4, HeadOfChannel
  <2>4. \A i \in 1 .. Len(q) : Of(q[i])
    <3>1. \A i \in 1 .. n + 1 : i \in 1 .. n \/ i = n + 1
      BY <2>3
    <3>2. QED
      BY <3>1, <2>3
  <2>5. \A i \in 1 .. Len(channel') : \E j \in 1 .. Len(channel) : channel'[i] = channel[j]
    <3>1. \A i \in 1 .. Len(channel) - 1 : i + 1 \in 1 .. Len(channel)
      BY <1>4
    <3>2. QED
      BY <3>1, <2>3
  <2>6. \A K : InPipe(K)' = InPipe(K) \/ backlog' # q
    <3> SUFFICES ASSUME NEW K, backlog' = q PROVE InPipe(K)' = InPipe(K)
      OBVIOUS
    <3> DEFINE P == Piped(K)
    <3>1. /\ Count(backlog, P) \in Nat /\ Count(q, P) \in Nat
          /\ h \in P => Count(q, P) = Count(backlog, P) + 1
          /\ h \notin P => Count(q, P) = Count(backlog, P)
      <4>1. h \in Queue /\ backlog \in Seq(Queue)
        BY <1>4, <2>3
      <4> HIDE DEF h, P
      <4>2. QED
        BY <4>1, CountAppend
    <3>2. /\ Count(channel, P) \in Nat /\ Count(Tail(channel), P) \in Nat
          /\ h \in P => Count(channel, P) = Count(Tail(channel), P) + 1
          /\ h \notin P => Count(channel, P) = Count(Tail(channel), P)
      BY <1>4, <2>1, CountTail
    <3>3. InPipe(K)' = Count(q, P) + Count(Tail(channel), P)
      BY <2>1 DEF InPipe
    <3>4. InPipe(K) = Count(backlog, P) + Count(channel, P)
      BY DEF InPipe
    <3> HIDE DEF P, q, h
    <3>5. QED
      BY <3>1, <3>2, <3>3, <3>4
  <2> HIDE DEF q, h
  <2>7. CASE Len(q) > BacklogCap
    <3>1. Len(q) > 1 /\ 1 \in 1 .. Len(q)
      BY <2>7, <2>3, <1>4
    <3>2. ~Whole(turns)' /\ backlog' = <<>>
      BY <3>1, <2>1, <2>2, <2>4, <2>7, <1>3
    <3>3. phase' = phase
      BY <2>1, <2>2, <2>7 DEF Queued
    <3>4. QED
      BY <2>1, <2>5, <3>2, <3>3
  <2>8. CASE ~(Len(q) > BacklogCap)
    <3>1. backlog' = q /\ holed' = holed /\ phase' = phase
      BY <2>1, <2>2, <2>8 DEF Queued
    <3>2. \A K : InPipe(K)' = InPipe(K)
      BY <3>1, <2>6
    <3>3. \A i \in 1 .. Len(backlog') : Of(backlog'[i])
      BY <3>1, <2>4
    <3>4. QED
      BY <2>1, <2>5, <3>1, <3>2, <3>3
  <2>9. QED
    BY <2>7, <2>8
<1>6. CASE FlushPipe
  <2> DEFINE q == Flushed
             n == Len(backlog)
             m == Len(channel)
  <2>1. channel' = <<>> /\ Queued(q) /\ phase = "flushing"
        /\ UNCHANGED <<socket, reader, ctx, outgoing, written, turns, running, bound, lost, emitted, fwd,
                        tally, report, pending>>
    BY <1>6, FlushTakesAll DEF FlushPipe, lineVars, tallyVars
  <2>2. Holding(q, Marker) /\ \A i \in 1 .. Len(q) : q[i] = Marker <=> i = Len(q)
    BY <2>1, FlushComesLast
  <2>3. /\ q \in Seq(Queue) /\ Len(q) = n + m + 1 /\ n \in Nat /\ m \in Nat /\ q[n + m + 1] = Marker
        /\ \A i \in 1 .. n : q[i] = backlog[i]
        /\ \A i \in 1 .. m : q[n + i] = channel[i]
    BY FlushTakesAll
  <2>4. \A i \in 1 .. Len(q) : Of(q[i])
    <3>1. \A i \in 1 .. n + m + 1 : i \in 1 .. n \/ (i - n \in 1 .. m /\ n + (i - n) = i) \/ i = n + m + 1
      <4>1. n \in Nat /\ m \in Nat
        BY <2>3
      <4> HIDE DEF n, m
      <4>2. QED
        BY <4>1
    <3>2. ASSUME NEW i \in 1 .. Len(q) PROVE Of(q[i])
      <4>1. CASE i \in 1 .. n
        BY <4>1, <2>3
      <4>2. CASE i - n \in 1 .. m /\ n + (i - n) = i
        <5>1. q[n + (i - n)] = channel[i - n]
          BY <4>2, <2>3
        <5>2. QED
          BY <5>1, <4>2
      <4>3. CASE i = n + m + 1
        BY <4>3, <2>3
      <4>4. QED
        BY <3>1, <4>1, <4>2, <4>3, <2>3
    <3>3. QED
      BY <3>2
  <2>5. \A i \in 1 .. Len(channel') : \E j \in 1 .. Len(channel) : channel'[i] = channel[j]
    BY <2>1
  <2>6. \A K : InPipe(K)' = InPipe(K) \/ backlog' # q
    <3> SUFFICES ASSUME NEW K, backlog' = q PROVE InPipe(K)' = InPipe(K)
      OBVIOUS
    <3> DEFINE P == Piped(K)
               r == backlog \o channel
    <3>1. Marker \notin P
      BY MarkerIsNoEntry DEF Piped
    <3>2. r \in Seq(Queue) /\ Count(r, P) = Count(backlog, P) + Count(channel, P)
      BY <1>4, CountConcat
    <3>3. Count(q, P) = Count(r, P)
      <4>1. q = Append(r, Marker) /\ r \in Seq(Queue) /\ Marker \in Queue
        BY <3>2, <1>4 DEF Flushed
      <4> HIDE DEF q, r, P
      <4>2. QED
        BY <4>1, <3>1, CountAppend
    <3>4. InPipe(K)' = Count(q, P) + Count(<<>>, P)
      BY <2>1 DEF InPipe
    <3>5. InPipe(K) = Count(backlog, P) + Count(channel, P)
      BY DEF InPipe
    <3>6. Count(<<>>, P) = 0 /\ Count(backlog, P) \in Nat /\ Count(channel, P) \in Nat
      BY <1>4, CountEmpty, PlacesFinite
    <3> HIDE DEF P, q, r
    <3>7. QED
      BY <3>2, <3>3, <3>4, <3>5, <3>6
  <2> HIDE DEF q
  <2>7. CASE Len(q) > BacklogCap
    <3>1. Len(q) > 1 /\ 1 \in 1 .. Len(q) /\ 1 # Len(q)
      BY <2>7, <2>3, <1>4
    <3>2. ~Whole(turns)' /\ backlog' = <<>>
      BY <3>1, <2>1, <2>2, <2>3, <2>4, <2>7, <1>3
    <3>3. phase' = "flushed"
      BY <2>1, <2>2, <2>7 DEF Queued
    <3>4. QED
      BY <2>1, <2>5, <3>2, <3>3
  <2>8. CASE ~(Len(q) > BacklogCap)
    <3>1. backlog' = q /\ holed' = holed /\ phase' = "waiting"
      BY <2>1, <2>2, <2>8 DEF Queued
    <3>2. \A K : InPipe(K)' = InPipe(K)
      BY <3>1, <2>6
    <3>3. \A i \in 1 .. Len(backlog') : Of(backlog'[i])
      BY <3>1, <2>4
    <3>4. QED
      BY <2>1, <2>5, <3>1, <3>2, <3>3
  <2>9. QED
    BY <2>7, <2>8
<1>7. QED
  BY <1>5, <1>6

(* Only the turn that runs puts something into the pipe.                   *)
LEMMA CarriedStep ==
  ASSUME TurnTypes, PipeTypes, MarkerOK, RangeOK, [FeedNext]_feedVars
  PROVE  \A t \in Carried' : t \in Carried \/ (t = running /\ running # Idle)
<1> SUFFICES ASSUME NEW t \in Carried' PROVE t \in Carried \/ (t = running /\ running # Idle)
  OBVIOUS
<1>1. \/ \E i \in 1 .. Len(channel') : channel'[i].turn = t
      \/ \E i \in 1 .. Len(backlog') : backlog'[i] # Marker /\ backlog'[i].turn = t
      \/ fwd'.step # "pop" /\ t = fwd'.turn
  BY TurnsOf DEF Carried
<1>2. \/ \E i \in 1 .. Len(channel) : channel[i].turn = t
      \/ \E i \in 1 .. Len(backlog) : backlog[i] # Marker /\ backlog[i].turn = t
      \/ fwd.step # "pop" /\ t = fwd.turn
      => t \in Carried
  BY TurnsOf DEF Carried
<1>3. ASSUME UNCHANGED <<channel, backlog, fwd>> PROVE t \in Carried
  BY <1>1, <1>2, <1>3
<1>4. ASSUME UNCHANGED <<channel, backlog>>,
             fwd'.step # "pop" => fwd.step # "pop" /\ (fwd'.turn = fwd.turn \/ (fwd'.turn = running /\ running # Idle))
      PROVE  t \in Carried \/ (t = running /\ running # Idle)
  BY <1>1, <1>2, <1>4
<1>5. CASE \E kind \in Kinds : Emit(kind)
  <2>1. PICK kind \in Kinds : Emit(kind)
    BY <1>5
  <2> DEFINE e == [kind |-> kind, turn |-> running]
  <2>2. phase = "running" /\ UNCHANGED <<backlog, fwd>> /\ (channel' = channel \/ channel' = Append(channel, e))
    BY <2>1 DEF Emit
  <2>3. running # Idle /\ e \in Entries /\ e.turn = running /\ channel \in Seq(Entries)
    BY <2>2 DEF Entries, TurnTypes, PipeTypes, Idle
  <2> HIDE DEF e
  <2>4. CASE channel' = channel
    BY <2>2, <2>4, <1>3
  <2>5. CASE channel' = Append(channel, e)
    <3>1. \A i \in 1 .. Len(channel') : channel'[i] = e \/ \E j \in 1 .. Len(channel) : channel'[i] = channel[j]
      BY <2>3, <2>5, Appended
    <3>2. QED
      BY <3>1, <2>2, <2>3, <1>1, <1>2
  <2>6. QED
    BY <2>2, <2>4, <2>5
<1>6. CASE MoveOn \/ FlushPipe
  <2>1. \A i \in 1 .. Len(channel') : \E j \in 1 .. Len(channel) : channel'[i] = channel[j]
    BY <1>6, RelayStep
  <2>2. \A i \in 1 .. Len(backlog') : \/ \E j \in 1 .. Len(backlog) : backlog'[i] = backlog[j]
                                      \/ \E j \in 1 .. Len(channel) : backlog'[i] = channel[j]
                                      \/ backlog'[i] = Marker
    <3>1. CASE backlog' = <<>>
      <4>1. Len(backlog') = 0
        BY <3>1
      <4>2. QED
        BY <4>1
    <3>2. CASE backlog' # <<>>
      BY <3>2, <1>6, RelayStep
    <3>3. QED
      BY <3>1, <3>2
  <2>3. fwd' = fwd
    BY <1>6, RelayStep
  <2>4. QED
    BY <2>1, <2>2, <2>3, <1>1, <1>2
<1>7. CASE Pop
  <2>1. backlog # <<>> /\ backlog' = Tail(backlog) /\ channel' = channel /\ backlog \in Seq(Queue)
    BY <1>7 DEF Pop, PipeTypes
  <2>2. 1 \in 1 .. Len(backlog) /\ \A i \in 1 .. Len(backlog') : backlog'[i] = backlog[i + 1] /\ i + 1 \in 1 .. Len(backlog)
    <3>1. Len(backlog') = Len(backlog) - 1 /\ Len(backlog) \in Nat /\ Len(backlog) > 0
      BY <2>1
    <3>2. \A i \in 1 .. Len(backlog') : i + 1 \in 1 .. Len(backlog)
      BY <3>1
    <3>3. QED
      BY <2>1, <3>1, <3>2, HeadOfBacklog
  <2>3. fwd' = fwd \/ (Head(backlog) # Marker /\ fwd'.turn = Head(backlog).turn)
    BY <1>7 DEF Pop, At
  <2>4. Head(backlog) = backlog[1]
    BY <2>1, HeadOfBacklog
  <2>5. QED
    BY <2>1, <2>2, <2>3, <2>4, <1>1, <1>2
<1>8. CASE RequestApproval \/ ForwardEvent \/ SendAsk \/ SendEvent
  <2>1. UNCHANGED <<channel, backlog>>
    BY <1>8 DEF RequestApproval, ForwardEvent, SendAsk, SendEvent, Sends
  <2>2. fwd'.step # "pop" => fwd.step # "pop" /\ (fwd'.turn = fwd.turn \/ (fwd'.turn = running /\ running # Idle))
    BY <1>8 DEF RequestApproval, ForwardEvent, SendAsk, SendEvent, Sends, At, Empty, Live
  <2>3. QED
    BY <2>1, <2>2, <1>4
<1>9. CASE DialPlane \/ ReadBreaks \/ CancelsTurn \/ OnDisconnect \/ ReaderLeaves \/ PumpWrites \/ PumpFails \/ DropsConnection
           \/ UNCHANGED feedVars
  BY <1>3, <1>9 DEF DialPlane, ReadBreaks, CancelsTurn, OnDisconnect, ReaderLeaves, PumpWrites, PumpFails, DropsConnection, pipeVars, feedVars
<1>10. CASE QueryArrives \/ BeginTurn \/ GateEnds \/ AskUser \/ Answer \/ EndTurn \/ Report \/ ReportTurn
            \/ \E t_1 \in 1..MaxTurns : Approve(t_1)
  BY <1>3, <1>10 DEF QueryArrives, BeginTurn, GateEnds, AskUser, Answer, EndTurn, Report, ReportTurn, Approve, pipeVars
<1>11. QED
  BY <1>5, <1>6, <1>7, <1>8, <1>9, <1>10 DEF FeedNext, Forward

(* RangeOK is kept.                                                        *)
LEMMA RangeStep ==
  ASSUME LineTypes, LineOK, TurnTypes, PipeTypes, MarkerOK, RangeOK, [FeedNext]_feedVars
  PROVE  RangeOK'
<1>1. \A t \in 1 .. turns : t \in 1 .. turns'
  BY Kept
<1>2. running # Idle => running \in 1 .. turns
  BY DEF TurnTypes, Idle
<1>3. QED
  BY <1>1, <1>2, CarriedStep DEF RangeOK

(* How a turn gets to rest.                                                *)
LEMMA PhaseStep ==
  ASSUME TurnTypes, PipeTypes, MarkerOK, RangeOK, [FeedNext]_feedVars
  PROVE  /\ phase = "idle" => phase' = "idle" \/ (turns' = turns + 1 /\ phase' = "starting")
         /\ phase' = "starting" => (phase = "starting" /\ UNCHANGED <<emitted, turns>>) \/ turns' = turns + 1
         /\ phase' = "reporting" => phase = "reporting" \/ Report
         /\ phase' = "idle" => phase = "idle" \/ Report \/ ReportTurn
         /\ phase' = "flushed" => phase = "flushed" \/ Pop \/ ~Whole(turns)'
<1> DEFINE Goal == /\ phase = "idle" => phase' = "idle" \/ (turns' = turns + 1 /\ phase' = "starting")
                   /\ phase' = "starting" => (phase = "starting" /\ UNCHANGED <<emitted, turns>>) \/ turns' = turns + 1
                   /\ phase' = "reporting" => phase = "reporting" \/ Report
                   /\ phase' = "idle" => phase = "idle" \/ Report \/ ReportTurn
                   /\ phase' = "flushed" => phase = "flushed" \/ Pop \/ ~Whole(turns)'
<1>1. ASSUME UNCHANGED <<phase, turns, emitted>> PROVE Goal
  BY <1>1
<1>2. CASE QueryArrives
  BY <1>2 DEF QueryArrives
<1>3. CASE MoveOn \/ FlushPipe
  <2>1. UNCHANGED <<turns, emitted>>
    BY <1>3, RelayStep
  <2>2. \/ ~Whole(turns)' /\ phase' \in {phase, "flushed"} /\ (phase' # phase => phase = "flushing")
        \/ phase' = phase \/ (phase = "flushing" /\ phase' = "waiting")
    BY <1>3, RelayStep
  <2> HIDE DEF Whole
  <2>3. QED
    BY <2>1, <2>2
<1>4. CASE Pop
  <2>1. UNCHANGED <<turns, emitted>> /\ backlog # <<>>
    BY <1>4 DEF Pop
  <2>2. CASE Head(backlog) = Marker
    <3>1. backlog[1] = Marker /\ 1 \in 1 .. Len(backlog)
      BY <2>1, <2>2, HeadOfBacklog DEF PipeTypes
    <3>2. phase = "waiting" /\ phase' = "flushed"
      BY <3>1, <2>2, <1>4 DEF Pop, MarkerOK
    <3>3. QED
      BY <3>2, <2>1, <1>4
  <2>3. CASE Head(backlog) # Marker
    BY <2>1, <2>3, <1>4 DEF Pop
  <2>4. QED
    BY <2>2, <2>3
<1>5. CASE \E kind \in Kinds : Emit(kind)
  BY <1>5 DEF Emit
<1>6. CASE BeginTurn \/ GateEnds \/ Answer \/ EndTurn \/ Report \/ ReportTurn \/ AskUser
  BY <1>6 DEF BeginTurn, GateEnds, Answer, EndTurn, Report, ReportTurn, AskUser
<1>7. CASE \E t \in 1..MaxTurns : Approve(t)
  BY <1>7 DEF Approve
<1>8. CASE DialPlane \/ ReadBreaks \/ CancelsTurn \/ OnDisconnect \/ ReaderLeaves \/ PumpWrites \/ PumpFails \/ DropsConnection
           \/ RequestApproval \/ ForwardEvent \/ SendAsk \/ SendEvent \/ UNCHANGED feedVars
  BY <1>1, <1>8 DEF DialPlane, ReadBreaks, CancelsTurn, OnDisconnect, ReaderLeaves, PumpWrites, PumpFails, DropsConnection,
     RequestApproval, ForwardEvent, SendAsk, SendEvent, Sends, runVars, feedVars
<1>9. QED
  BY <1>2, <1>3, <1>4, <1>5, <1>6, <1>7, <1>8 DEF FeedNext, Forward

(* Unsaid is kept.                                                         *)
LEMMA UnsaidStep ==
  ASSUME LineTypes, LineOK, TurnTypes, PipeTypes, MarkerOK, RangeOK, Unsaid, [FeedNext]_feedVars
  PROVE  Unsaid'
<1>1. turns \in 0 .. MaxTurns /\ MaxTurns \in Nat /\ turns' \in {turns, turns + 1} /\ (running = Idle \/ running = turns)
  BY FeedBounds, Kept DEF TurnTypes
<1>2. ASSUME NEW t \in 1 .. MaxTurns, t > turns' PROVE emitted'[t] = <<>>
  <2>1. t > turns /\ t # running
    BY <1>1, <1>2 DEF Idle
  <2>2. QED
    BY <2>1, Kept DEF Unsaid
<1>3. ASSUME phase' = "starting" PROVE emitted'[turns'] = <<>>
  <2>1. CASE phase = "starting" /\ UNCHANGED <<emitted, turns>>
    BY <2>1 DEF Unsaid
  <2>2. CASE turns' = turns + 1
    <3>1. turns' # turns
      BY <2>2, <1>1
    <3>2. turns < MaxTurns /\ emitted' = emitted
      BY <3>1, TurnsStep
    <3>3. turns' \in 1 .. MaxTurns /\ turns' > turns
      BY <3>2, <2>2, <1>1
    <3>4. QED
      BY <3>2, <3>3 DEF Unsaid
  <2>3. QED
    BY <2>1, <2>2, <1>3, PhaseStep
<1>4. QED
  BY <1>2, <1>3 DEF Unsaid

(* A turn that is over stays over.                                         *)
LEMMA DoneStays ==
  ASSUME LineTypes, LineOK, TurnTypes, PipeTypes, MarkerOK, RangeOK, [FeedNext]_feedVars
  PROVE  \A t \in Nat : Done(t) => Done(t)'
<1> SUFFICES ASSUME NEW t \in Nat, Done(t) PROVE Done(t)'
  OBVIOUS
<1>1. t \in 1 .. turns /\ t # running /\ (t = turns => phase = "idle") /\ turns \in Nat
  BY Kept DEF Done
<1>2. t \in 1 .. turns'
  BY <1>1, Kept
<1>3. CASE turns' = turns + 1
  <2>1. t # turns' /\ turns' # turns
    BY <1>1, <1>3
  <2>2. running' = turns'
    BY <2>1, <1>3, TurnsStep
  <2>3. QED
    BY <1>2, <2>1, <2>2 DEF Done
<1>4. CASE turns' = turns
  <2>1. turns' # turns + 1
    BY <1>4, <1>1
  <2>2. running' \in {running, Idle}
    BY <2>1, TurnsStep
  <2>3. t # running'
    BY <2>2, <1>1 DEF Idle
  <2>4. phase = "idle" => phase' = "idle"
    BY <2>1, PhaseStep
  <2>5. QED
    BY <1>1, <1>2, <1>4, <2>3, <2>4 DEF Done
<1>5. QED
  BY <1>3, <1>4, Kept

Mail(kind, t, d) == [kind |-> kind, turn |-> t, denied |-> d]

(* The fields of a message.                                                *)
LEMMA MailHas ==
  ASSUME NEW kind \in {"ask", "question", "event", "result"}, NEW t \in Nat, NEW d \in Nat
  PROVE  /\ Mail(kind, t, d) \in Messages /\ Mail(kind, t, d).kind = kind
         /\ Mail(kind, t, d).turn = t /\ Mail(kind, t, d).denied = d
BY DEF Mail, Messages

(* Who puts what into the outbox, and who takes it out.                    *)
Posts(m) == outgoing' = Append(outgoing, m) /\ UNCHANGED <<written, socket>>

(* One case per message that is put or taken.                              *)
LEMMA MailStep ==
  ASSUME LineTypes, TurnTypes, PipeTypes, RangeOK, [FeedNext]_feedVars
  PROVE  \/ UNCHANGED <<outgoing, written>>
         \/ fwd.step = "send" /\ Posts(Mail("event", fwd.turn, 0)) /\ SendEvent
         \/ phase = "reporting" /\ Posts(Mail("result", turns, report)) /\ ReportTurn
         \/ \E kind \in {"ask", "question"}, t \in 1 .. turns :
              Posts(Mail(kind, t, 0)) /\ (SendAsk \/ AskUser)
         \/ PumpWrites \/ PumpFails
<1> USE DEF Posts, Mail
<1>1. CASE DialPlane \/ ReadBreaks \/ CancelsTurn \/ OnDisconnect \/ ReaderLeaves \/ QueryArrives \/ BeginTurn
           \/ (\E kind \in Kinds : Emit(kind)) \/ GateEnds \/ (\E t \in 1..MaxTurns : Approve(t))
           \/ Answer \/ EndTurn \/ Report
  BY <1>1 DEF DialPlane, ReadBreaks, CancelsTurn, OnDisconnect, ReaderLeaves, QueryArrives, BeginTurn, Emit, GateEnds,
     Approve, Answer, EndTurn, Report
<1>2. CASE MoveOn \/ FlushPipe \/ DropsConnection \/ Pop \/ RequestApproval \/ ForwardEvent \/ UNCHANGED feedVars
  BY <1>2 DEF MoveOn, FlushPipe, DropsConnection, Pop, RequestApproval, ForwardEvent, feedVars
<1>3. CASE SendEvent
  BY <1>3 DEF SendEvent, Sends, lineVars
<1>4. CASE SendAsk
  <2>1. fwd.turn \in 1 .. turns
    BY <1>4, TurnsOf DEF SendAsk, Sends, RangeOK, Carried
  <2>2. UNCHANGED <<outgoing, written>> \/ Posts(Mail("ask", fwd.turn, 0))
    BY <1>4 DEF SendAsk, Sends, lineVars
  <2>3. QED
    BY <2>1, <2>2, <1>4
<1>5. CASE AskUser
  <2>1. running \in 1 .. turns
    BY <1>5 DEF AskUser, TurnTypes, Idle
  <2>2. UNCHANGED <<outgoing, written>> \/ Posts(Mail("question", running, 0))
    BY <1>5 DEF AskUser, lineVars
  <2>3. QED
    BY <2>1, <2>2, <1>5
<1>6. CASE ReportTurn
  BY <1>6 DEF ReportTurn, lineVars
<1>7. QED
  BY <1>1, <1>2, <1>3, <1>4, <1>5, <1>6 DEF FeedNext, Forward

(* MailOK is kept.                                                         *)
LEMMA MailOKStep ==
  ASSUME LineTypes, LineOK, TurnTypes, SendTypes, PipeTypes, MarkerOK, RangeOK, MailOK, [FeedNext]_feedVars
  PROVE  MailOK'
<1>1. \A m \in Fair : m \in Fair'
  <2> SUFFICES ASSUME NEW m \in Fair PROVE m \in Fair'
    OBVIOUS
  <2>1. m \in Messages /\ m.turn \in 1 .. turns /\ m.turn \in Nat /\ (m.kind = "result" => Done(m.turn))
    BY DEF Messages, Fair
  <2> DEFINE t == m.turn
  <2> HIDE DEF t
  <2>2. t \in 1 .. turns'
    BY <2>1, Kept DEF t
  <2>3. m.kind = "result" => Done(t)'
    BY <2>1, DoneStays DEF t
  <2>4. QED
    BY <2>1, <2>2, <2>3 DEF t, Fair
<1>2. outgoing \in Seq(Messages) /\ written \in Seq(Records) /\ \A r \in Records : r.message \in Messages
  BY DEF SendTypes, Records
<1>3. /\ \A i \in 1 .. Len(outgoing) : outgoing[i] \in Fair'
      /\ \A i \in 1 .. Len(written) : written[i].message \in Fair'
  BY <1>1 DEF MailOK
<1>4. ASSUME /\ \A i \in 1 .. Len(outgoing') : outgoing'[i] \in Fair'
             /\ \A i \in 1 .. Len(written') : written'[i].message \in Fair'
      PROVE  MailOK'
  BY <1>4 DEF MailOK
<1>5. ASSUME NEW m \in Messages, m \in Fair', Posts(m) PROVE MailOK'
  <2>1. \A i \in 1 .. Len(outgoing') : outgoing'[i] \in Fair'
    <3>1. \A i \in 1 .. Len(outgoing') : outgoing'[i] = m \/ (i \in 1 .. Len(outgoing) /\ outgoing'[i] = outgoing[i])
      BY <1>2, <1>5, Appended DEF Posts
    <3>2. QED
      BY <3>1, <1>3, <1>5
  <2>2. QED
    BY <2>1, <1>3, <1>4, <1>5 DEF Posts
<1>6. CASE UNCHANGED <<outgoing, written>>
  BY <1>3, <1>4, <1>6
<1>7. CASE fwd.step = "send" /\ Posts(Mail("event", fwd.turn, 0))
  <2>1. fwd.turn \in 1 .. turns /\ fwd.turn \in Nat /\ 0 \in Nat
    BY <1>7, TurnsOf DEF RangeOK, Carried, PipeTypes, Hands
  <2>2. Mail("event", fwd.turn, 0) \in Fair' /\ Mail("event", fwd.turn, 0) \in Messages
    BY <2>1, MailHas, Kept DEF Fair
  <2>3. QED
    BY <2>2, <1>5, <1>7
<1>8. CASE phase = "reporting" /\ Posts(Mail("result", turns, report)) /\ ReportTurn
  <2>1. turns \in Nat /\ report \in Nat /\ turns \in 1 .. turns /\ running = Idle
    BY <1>8 DEF TurnTypes
  <2>2. phase' = "idle" /\ turns' = turns /\ running' = running
    BY <1>8 DEF ReportTurn
  <2>3. Done(turns)' \/ turns' # turns
    BY <2>1, <2>2 DEF Done, Idle
  <2>4. Mail("result", turns, report) \in Fair' /\ Mail("result", turns, report) \in Messages
    <3>1. \A t \in Nat : t = turns => Done(t)'
      BY <2>1, <2>2 DEF Done, Idle
    <3>2. Mail("result", turns, report) \in Messages /\ Mail("result", turns, report).turn = turns
      BY <2>1, MailHas
    <3>3. PICK m \in Messages : m = Mail("result", turns, report) /\ m.turn = turns
      BY <3>2
    <3>4. Done(m.turn)' /\ m.turn \in 1 .. turns'
      BY <3>1, <3>3, <2>1, <2>2
    <3>5. m \in Fair'
      BY <3>4 DEF Fair
    <3>6. QED
      BY <3>3, <3>5
  <2>5. QED
    BY <2>4, <1>5, <1>8
<1>9. CASE \E kind \in {"ask", "question"}, t \in 1 .. turns : Posts(Mail(kind, t, 0))
  <2>1. PICK kind \in {"ask", "question"}, t \in 1 .. turns : Posts(Mail(kind, t, 0))
    BY <1>9
  <2>2. t \in Nat /\ 0 \in Nat /\ t \in 1 .. turns'
    BY Kept
  <2>3. Mail(kind, t, 0) \in Fair' /\ Mail(kind, t, 0) \in Messages
    BY <2>2, MailHas DEF Fair
  <2>4. QED
    BY <2>1, <2>3, <1>5
<1>10. CASE PumpWrites \/ PumpFails
  <2> DEFINE r == [conn |-> socket.n, message |-> Head(outgoing)]
  <2>1. outgoing # <<>> /\ outgoing' = Tail(outgoing) /\ (written' = written \/ written' = Append(written, r))
    BY <1>10 DEF PumpWrites, PumpFails
  <2>2. /\ Len(outgoing') = Len(outgoing) - 1 /\ Len(outgoing) \in Nat /\ Len(outgoing) # 0
        /\ \A i \in 1 .. Len(outgoing) - 1 : outgoing'[i] = outgoing[i + 1]
        /\ Head(outgoing) = outgoing[1] /\ Head(outgoing) \in Messages
    BY <2>1, <1>2
  <2>3. 1 \in 1 .. Len(outgoing) /\ \A i \in 1 .. Len(outgoing) - 1 : i + 1 \in 1 .. Len(outgoing)
    BY <2>2
  <2>4. \A i \in 1 .. Len(outgoing') : outgoing'[i] \in Fair'
    BY <2>2, <2>3, <1>3
  <2>5. r \in Records /\ r.message = outgoing[1]
    BY <2>2 DEF Records, LineTypes
  <2> HIDE DEF r
  <2>6. \A i \in 1 .. Len(written') : written'[i].message \in Fair'
    <3>1. CASE written' = Append(written, r)
      <4>1. \A i \in 1 .. Len(written') : written'[i] = r \/ (i \in 1 .. Len(written) /\ written'[i] = written[i])
        BY <3>1, <2>5, <1>2, Appended
      <4>2. QED
        BY <4>1, <2>3, <2>5, <1>3
    <3>2. QED
      BY <3>1, <2>1, <1>3
  <2>7. QED
    BY <2>4, <2>6, <1>4
<1>11. QED
  BY <1>6, <1>7, <1>8, <1>9, <1>10, MailStep

(* Only an event's send moves what was sent of a turn, and a lost          *)
(* connection.                                                             *)
LEMMA SentStep ==
  ASSUME LineTypes, TurnTypes, SendTypes, PipeTypes, RangeOK, [FeedNext]_feedVars
  PROVE  \A t \in Nat :
           \/ Mailed(t)' = Mailed(t) /\ ~(fwd.step = "send" /\ t = fwd.turn /\ Posts(Mail("event", fwd.turn, 0)))
           \/ Mailed(t)' = Mailed(t) + 1 /\ fwd.step = "send" /\ t = fwd.turn /\ Posts(Mail("event", fwd.turn, 0)) /\ SendEvent
           \/ PumpFails
<1> SUFFICES ASSUME NEW t \in Nat
             PROVE  \/ Mailed(t)' = Mailed(t) /\ ~(fwd.step = "send" /\ t = fwd.turn /\ Posts(Mail("event", fwd.turn, 0)))
                    \/ Mailed(t)' = Mailed(t) + 1 /\ fwd.step = "send" /\ t = fwd.turn /\ Posts(Mail("event", fwd.turn, 0)) /\ SendEvent
                    \/ PumpFails
  OBVIOUS
<1> DEFINE O == OutEvents(t)
           P == Penned(t)
           w == Count(written, P)
           o == Count(outgoing, O)
<1>1. outgoing \in Seq(Messages) /\ written \in Seq(Records) /\ w \in Nat /\ o \in Nat /\ Len(outgoing) \in Nat
  BY PlacesFinite DEF SendTypes
<1>2. Mailed(t) = w + o /\ Mailed(t)' = Count(written', P) + Count(outgoing', O)
  BY DEF Mailed
<1>3. \A m : outgoing' = Append(outgoing, m) => outgoing' # outgoing
  <2>1. \A m : Len(Append(outgoing, m)) # Len(outgoing)
    BY <1>1
  <2>2. QED
    BY <2>1
<1>4. ASSUME NEW m \in Messages, Posts(m), m \in O
      PROVE  Mailed(t)' = Mailed(t) + 1
  <2>1. Count(outgoing', O) = o + 1
    BY <1>1, <1>4, CountAppend DEF Posts
  <2>2. QED
    BY <1>1, <1>2, <1>4, <2>1 DEF Posts
<1>5. ASSUME NEW m \in Messages, Posts(m), m \notin O
      PROVE  Mailed(t)' = Mailed(t)
  <2>1. Count(outgoing', O) = o
    BY <1>1, <1>5, CountAppend DEF Posts
  <2>2. QED
    BY <1>1, <1>2, <1>5, <2>1 DEF Posts
<1>6. CASE UNCHANGED <<outgoing, written>>
  BY <1>2, <1>3, <1>6 DEF Posts
<1>7. CASE fwd.step = "send" /\ Posts(Mail("event", fwd.turn, 0)) /\ SendEvent
  <2>1. fwd.turn \in Nat /\ 0 \in Nat
    BY DEF PipeTypes, Hands
  <2> DEFINE m == Mail("event", fwd.turn, 0)
  <2>2. m \in Messages /\ (m \in O <=> t = fwd.turn)
    BY <2>1, MailHas DEF OutEvents
  <2> HIDE DEF m
  <2>3. QED
    BY <2>2, <1>4, <1>5, <1>7 DEF m
<1>8. ASSUME NEW kind \in {"ask", "question", "result"}, NEW u \in Nat, NEW d \in Nat, Posts(Mail(kind, u, d))
      PROVE  Mailed(t)' = Mailed(t) /\ ~Posts(Mail("event", fwd.turn, 0))
  <2> DEFINE m == Mail(kind, u, d)
  <2>1. m \in Messages /\ m.kind = kind /\ m \notin O
    BY MailHas DEF OutEvents
  <2>2. fwd.turn \in Nat /\ 0 \in Nat
    BY DEF PipeTypes, Hands
  <2> DEFINE v == Mail("event", fwd.turn, 0)
  <2>3. v \in Messages /\ v.kind = "event"
    BY <2>2, MailHas
  <2>4. m # v
    BY <2>1, <2>3
  <2> HIDE DEF m, v
  <2>5. Append(outgoing, m) # Append(outgoing, v)
    <3>1. Append(outgoing, m)[Len(outgoing) + 1] = m /\ Append(outgoing, v)[Len(outgoing) + 1] = v
      BY <1>1, <2>1, <2>3, Appended
    <3>2. QED
      BY <3>1, <2>4
  <2>6. QED
    BY <2>1, <2>5, <1>5, <1>8 DEF Posts, m, v
<1>9. CASE phase = "reporting" /\ Posts(Mail("result", turns, report)) /\ ReportTurn
  <2>1. turns \in Nat /\ report \in Nat
    BY DEF TurnTypes
  <2>2. QED
    BY <2>1, <1>8, <1>9
<1>10. CASE \E kind \in {"ask", "question"}, u \in 1 .. turns : Posts(Mail(kind, u, 0))
  <2>1. PICK kind \in {"ask", "question"}, u \in 1 .. turns : Posts(Mail(kind, u, 0))
    BY <1>10
  <2>2. u \in Nat /\ 0 \in Nat /\ kind \in {"ask", "question", "result"}
    OBVIOUS
  <2>3. QED
    BY <2>1, <2>2, <1>8
<1>11. CASE PumpWrites
  <2> DEFINE h == Head(outgoing)
             r == [conn |-> socket.n, message |-> h]
  <2>1. outgoing # <<>> /\ outgoing' = Tail(outgoing) /\ written' = Append(written, r)
    BY <1>11 DEF PumpWrites
  <2>2. h \in Messages
    BY <1>1, <2>1
  <2>3. r \in Records /\ (r \in P <=> h \in O)
    BY <2>2 DEF Records, LineTypes, Penned
  <2>4. /\ h \in O => o = Count(outgoing', O) + 1
        /\ h \notin O => o = Count(outgoing', O)
        /\ Count(outgoing', O) \in Nat
    BY <1>1, <2>1, CountTail
  <2> HIDE DEF r
  <2>5. /\ r \in P => Count(written', P) = w + 1
        /\ r \notin P => Count(written', P) = w
    BY <1>1, <2>1, <2>3, CountAppend
  <2>6. Mailed(t)' = Mailed(t)
    BY <1>1, <1>2, <2>3, <2>4, <2>5
  <2>7. \A m : Posts(m) => FALSE
    <3>1. Len(outgoing') # Len(outgoing) + 1
      BY <1>1, <2>1
    <3>2. \A m : Len(Append(outgoing, m)) = Len(outgoing) + 1
      BY <1>1
    <3>3. QED
      BY <3>1, <3>2 DEF Posts
  <2>8. QED
    BY <2>6, <2>7
<1>12. QED
  BY <1>6, <1>7, <1>9, <1>10, <1>11, MailStep

PipeIsEmpty == channel = <<>> /\ backlog = <<>> /\ fwd.step = "pop"
Resting     == phase \in {"idle", "starting", "flushed", "reporting"}

(* An empty pipe is filled only by a turn that emits or flushes.           *)
LEMMA StaysEmpty ==
  ASSUME PipeIsEmpty, phase \notin {"running", "flushing"}, [FeedNext]_feedVars
  PROVE  PipeIsEmpty'
<1> USE DEF PipeIsEmpty
<1>1. ASSUME UNCHANGED <<channel, backlog, fwd>> PROVE PipeIsEmpty'
  BY <1>1
<1>2. CASE DialPlane \/ ReadBreaks \/ CancelsTurn \/ OnDisconnect \/ ReaderLeaves \/ PumpWrites \/ PumpFails \/ DropsConnection
           \/ UNCHANGED feedVars
  BY <1>1, <1>2 DEF DialPlane, ReadBreaks, CancelsTurn, OnDisconnect, ReaderLeaves, PumpWrites, PumpFails, DropsConnection, pipeVars, feedVars
<1>3. CASE QueryArrives \/ BeginTurn \/ GateEnds \/ AskUser \/ Answer \/ EndTurn \/ Report \/ ReportTurn
            \/ \E t \in 1..MaxTurns : Approve(t)
  BY <1>1, <1>3 DEF QueryArrives, BeginTurn, GateEnds, AskUser, Answer, EndTurn, Report, ReportTurn, Approve, pipeVars
<1>4. CASE (\E kind \in Kinds : Emit(kind)) \/ MoveOn \/ FlushPipe \/ Pop \/ RequestApproval \/ ForwardEvent \/ SendAsk \/ SendEvent
  BY <1>4 DEF Emit, MoveOn, FlushPipe, Pop, RequestApproval, ForwardEvent, SendAsk, SendEvent, Sends
<1>5. QED
  BY <1>2, <1>3, <1>4 DEF FeedNext, Forward

(* An empty pipe carries nothing.                                          *)
LEMMA CarriesNothing ==
  ASSUME NEW c, NEW b, NEW f, c = <<>>, b = <<>>, f.step = "pop"
  PROVE  Turns(c, b, f) = {}
<1>1. Len(c) = 0 /\ Len(b) = 0
  OBVIOUS
<1>2. \A t : t \notin Turns(c, b, f)
  BY <1>1, TurnsOf
<1>3. QED
  BY <1>2

(* QuietOK is kept.                                                        *)
LEMMA QuietStep ==
  ASSUME LineTypes, LineOK, TurnTypes, PipeTypes, MarkerOK, RangeOK, QuietOK, [FeedNext]_feedVars
  PROVE  QuietOK'
<1>1. Whole(turns) /\ Resting => PipeIsEmpty
  BY DEF QuietOK, Resting, PipeIsEmpty
<1>2. Resting => phase \notin {"running", "flushing"}
  BY DEF Resting
<1>3. Whole(turns)' => Whole(turns)
  <2>1. \A t \in 1 .. turns : t \in 1 .. turns'
    BY Kept
  <2>2. QED
    BY <2>1, HolesStay DEF Whole
<1>4. ASSUME Whole(turns)', phase' \in {"idle", "starting", "flushed", "reporting"} PROVE PipeIsEmpty'
  <2>1. CASE Resting
    BY <2>1, <1>1, <1>2, <1>3, <1>4, StaysEmpty
  <2>2. CASE ~Resting
    <3>1. phase \notin {"idle", "starting", "flushed", "reporting"}
      BY <2>2 DEF Resting
    <3>2. ~Report /\ ~ReportTurn
      BY <3>1 DEF Report, ReportTurn
    <3>3. turns' # turns + 1
      <4>1. turns' = turns + 1 => turns' # turns
        BY Kept
      <4>2. QED
        BY <4>1, <3>1, TurnsStep
    <3>4. phase' = "flushed" /\ Pop
      BY <1>4, <3>1, <3>2, <3>3, PhaseStep
    <3>5. backlog # <<>> /\ backlog' = Tail(backlog) /\ fwd.step = "pop" /\ channel' = channel
      BY <3>4 DEF Pop
    <3>6. Head(backlog) = Marker /\ fwd' = fwd
      BY <3>1, <3>4 DEF Pop
    <3>7. backlog \in Seq(Queue) /\ Len(backlog) \in Nat /\ Len(backlog) > 0 /\ backlog[1] = Marker
      BY <3>5, <3>6, HeadOfBacklog DEF PipeTypes
    <3>8. 1 \in 1 .. Len(backlog)
      BY <3>7
    <3>9. channel = <<>> /\ Len(backlog) = 1
      BY <3>7, <3>8 DEF MarkerOK
    <3>10. backlog' = <<>>
      BY <3>5, <3>7, <3>9
    <3>11. QED
      BY <3>5, <3>6, <3>9, <3>10 DEF PipeIsEmpty
  <2>3. QED
    BY <2>1, <2>2
<1>5. ASSUME NEW t \in 1 .. turns', Whole(t)', t # running', t \in Carried' PROVE FALSE
  <2>1. t \in Carried \/ (t = running /\ running # Idle)
    BY <1>5, CarriedStep
  <2>2. turns \in Nat /\ turns' \in {turns, turns + 1} /\ t \in Nat
    BY Kept
  <2>3. Whole(t)
    BY <2>2, <1>5, Kept
  <2>4. CASE t = running
    <3>1. t = turns /\ turns # Idle
      BY <2>4, <2>2 DEF TurnTypes, Idle
    <3>2. phase = "flushed"
      BY <3>1, <2>4, <1>5, TurnsStep
    <3>3. PipeIsEmpty
      BY <3>1, <3>2, <2>3, <1>1 DEF Resting
    <3>4. Carried' = {}
      <4>1. PipeIsEmpty'
        BY <3>2, <3>3, StaysEmpty
      <4>2. QED
        BY <4>1, CarriesNothing DEF PipeIsEmpty, Carried
    <3>5. QED
      BY <3>4, <1>5
  <2>5. CASE t # running
    <3>1. t \in Carried /\ t \in 1 .. turns
      BY <2>1, <2>5 DEF RangeOK
    <3>2. QED
      BY <3>1, <2>3, <2>5 DEF QuietOK
  <2>6. QED
    BY <2>4, <2>5
<1>6. QED
  BY <1>4, <1>5 DEF QuietOK, PipeIsEmpty

(* While a turn runs whole on its own connection, the line stands still.   *)
LEMMA SteadyStays ==
  ASSUME LineTypes, LineOK, TurnTypes, FlowOK, [FeedNext]_feedVars, Steady', turns' = turns
  PROVE  /\ Steady /\ running' = running /\ running = turns /\ turns \in 1 .. MaxTurns
         /\ reader = "serving" /\ reader' = reader /\ socket' = socket /\ ctx' = ctx /\ bound' = bound
         /\ ctx = bound[turns] /\ ~Over(bound[turns])
         /\ \/ PumpWrites \/ BeginTurn \/ (\E kind \in Kinds : Emit(kind)) \/ GateEnds
            \/ (\E t \in 1..MaxTurns : Approve(t)) \/ AskUser \/ Answer \/ EndTurn
            \/ MoveOn \/ FlushPipe \/ Forward \/ UNCHANGED feedVars
<1>1. turns' # turns + 1 /\ turns \in Nat
  BY Kept
<1>2. UNCHANGED <<turns, bound>> /\ running' \in {running, Idle} /\ (running = Idle \/ running = turns)
  BY <1>1, TurnsStep DEF TurnTypes
<1>3. running' # Idle /\ lost' = FALSE /\ Whole(turns)' /\ OnLine(turns)'
  BY DEF Steady
<1>4. running' = running /\ running = turns /\ turns \in 1 .. turns /\ turns \in 1 .. MaxTurns
  BY <1>1, <1>2, <1>3, Kept DEF Idle
<1>5. Whole(turns)
  BY <1>3, HolesStay, <1>2 DEF Whole
<1>6. OnLine(turns)
  <2> DEFINE t == turns
  <2>1. t \in 1 .. turns /\ (OnLine(t)' => OnLine(t))
    BY <1>4, Kept
  <2>2. bound[turns] = bound'[turns'] /\ turns' = turns
    BY <1>2
  <2>3. OnLine(turns)' <=> (socket'.n = bound'[turns'] /\ socket'.life = "open")
    BY DEF OnLine, Connected
  <2>4. \A u \in Nat : OnLine(u)' <=> (socket'.n = bound'[u] /\ socket'.life = "open")
    BY DEF OnLine, Connected
  <2>5. \A u \in 1 .. turns : OnLine(u)' => OnLine(u)
    BY Kept
  <2>6. QED
    BY <1>1, <1>3, <1>4, <2>2, <2>3, <2>4, <2>5
<1>7. ~DialPlane /\ ~ReaderLeaves /\ ~PumpFails /\ ~DropsConnection /\ socket' = socket
  <2>1. socket.n = bound[turns] /\ socket'.n = bound[turns] /\ socket'.life = "open" /\ socket.life = "open"
    BY <1>2, <1>3, <1>6 DEF OnLine, Connected
  <2>2. socket.n \in Nat
    BY FeedBounds DEF LineTypes
  <2>3. ~DialPlane
    BY <2>1, <2>2 DEF DialPlane
  <2>4. ~ReaderLeaves /\ ~PumpFails /\ ~DropsConnection
    <3>1. socket' # Closed
      BY <2>1 DEF Closed
    <3>2. ~MarkConnLost
      BY <1>3, <1>4 DEF MarkConnLost
    <3>3. QED
      BY <3>1, <3>2 DEF ReaderLeaves, PumpFails, DropsConnection
  <2>5. socket' = socket
    BY <2>1, <2>2, SocketStep
  <2>6. QED
    BY <2>3, <2>4, <2>5
<1>8. ~ReadBreaks
  <2>1. ReadBreaks => lost' = (running # Idle)
    BY DEF ReadBreaks, MarkConnLost
  <2>2. QED
    BY <2>1, <1>3, <1>4
<1>9. ~QueryArrives /\ ~Report /\ ~ReportTurn
  <2>1. ~QueryArrives
    BY <1>1, <1>2 DEF QueryArrives
  <2>2. ~Report
    BY <1>3 DEF Report
  <2>3. ~ReportTurn
    BY <1>3, <1>4 DEF ReportTurn, TurnTypes
  <2>4. QED
    BY <2>1, <2>2, <2>3
<1>10. \/ PumpWrites \/ BeginTurn \/ (\E kind \in Kinds : Emit(kind)) \/ GateEnds
       \/ (\E t \in 1..MaxTurns : Approve(t)) \/ AskUser \/ Answer \/ EndTurn
       \/ MoveOn \/ FlushPipe \/ Forward \/ CancelsTurn \/ OnDisconnect \/ UNCHANGED feedVars
  BY <1>7, <1>8, <1>9 DEF FeedNext
<1>11. lost = FALSE
  <2>1. lost' = lost
    <3>1. CASE PumpWrites \/ BeginTurn \/ (\E kind \in Kinds : Emit(kind)) \/ GateEnds
               \/ (\E t \in 1..MaxTurns : Approve(t)) \/ AskUser \/ Answer \/ EndTurn \/ CancelsTurn \/ OnDisconnect \/ UNCHANGED feedVars
      BY <3>1 DEF PumpWrites, BeginTurn, Emit, GateEnds, Approve, AskUser, Answer, EndTurn, CancelsTurn, OnDisconnect,
         runVars, feedVars
    <3>2. CASE MoveOn \/ FlushPipe \/ Forward
      BY <3>2 DEF MoveOn, FlushPipe, Forward, Pop, RequestApproval, ForwardEvent, SendAsk, SendEvent, Sends, runVars
    <3>3. QED
      BY <3>1, <3>2, <1>10
  <2>2. QED
    BY <2>1, <1>3
<1>12. Steady
  BY <1>3, <1>4, <1>5, <1>6, <1>11 DEF Steady
<1>13. reader = "serving"
  BY <1>12 DEF FlowOK
<1>14. ~OnDisconnect /\ ~CancelsTurn
  BY <1>13 DEF OnDisconnect, CancelsTurn
<1>15. reader' = reader /\ ctx' = ctx
  <2>1. CASE PumpWrites \/ BeginTurn \/ (\E kind \in Kinds : Emit(kind)) \/ GateEnds
             \/ (\E t \in 1..MaxTurns : Approve(t)) \/ AskUser \/ Answer \/ EndTurn \/ UNCHANGED feedVars
    BY <2>1 DEF PumpWrites, BeginTurn, Emit, GateEnds, Approve, AskUser, Answer, EndTurn, lineVars, feedVars
  <2>2. CASE MoveOn \/ FlushPipe \/ Forward
    BY <2>2 DEF MoveOn, FlushPipe, Forward, Pop, RequestApproval, ForwardEvent, SendAsk, SendEvent, Sends, lineVars
  <2>3. QED
    BY <2>1, <2>2, <1>10, <1>14
<1>16. ctx = bound[turns] /\ ~Over(bound[turns])
  BY <1>6, <1>13 DEF LineOK, OnLine, Over
<1>17. QED
  BY <1>2, <1>4, <1>7, <1>10, <1>12, <1>13, <1>14, <1>15, <1>16

(* What the pipe carries is of the turn that runs.                         *)
LEMMA InHandIsOfTheTurn ==
  ASSUME TurnTypes, RangeOK, QuietOK, Steady
  PROVE  fwd.step # "pop" => fwd.turn = turns
<1> SUFFICES ASSUME fwd.step # "pop" PROVE fwd.turn = turns
  OBVIOUS
<1>1. fwd.turn \in Carried
  BY TurnsOf DEF Carried
<1>2. fwd.turn \in 1 .. turns
  BY <1>1 DEF RangeOK
<1>3. running # Idle /\ Whole(turns) /\ running = turns /\ turns \in Nat
  BY DEF Steady, TurnTypes
<1>4. \A i \in 1 .. fwd.turn : i \in 1 .. turns
  BY <1>2, <1>3
<1>5. Whole(fwd.turn)
  BY <1>3, <1>4 DEF Whole
<1>6. QED
  BY <1>1, <1>2, <1>3, <1>5 DEF QuietOK

(* A turn that emits has said one more.                                    *)
LEMMA SaidMore ==
  ASSUME TurnTypes, NEW t \in 1 .. MaxTurns, NEW k \in Told, emitted' = [emitted EXCEPT ![t] = Append(@, k)], NEW K
  PROVE  /\ Count(emitted[t], K) \in Nat /\ Count(emitted'[t], K) \in Nat
         /\ k \in K => Count(emitted'[t], K) = Count(emitted[t], K) + 1
         /\ k \notin K => Count(emitted'[t], K) = Count(emitted[t], K)
<1>1. emitted[t] \in Seq(Told) /\ emitted'[t] = Append(emitted[t], k)
  BY DEF TurnTypes
<1>2. QED
  BY <1>1, CountAppend

(* All counts are natural numbers.                                         *)
LEMMA Numbers ==
  ASSUME TurnTypes, SendTypes, PipeTypes
  PROVE  /\ \A t \in Nat : Mailed(t) \in Nat
         /\ \A K : InPipe(K) \in Nat
         /\ \A t \in 1 .. MaxTurns : \A K : Said(t, K) \in Nat
         /\ InHand \in {0, 1} /\ tally \in Nat
<1>1. Len(outgoing) \in Nat /\ Len(written) \in Nat /\ Len(channel) \in Nat /\ Len(backlog) \in Nat
  BY DEF SendTypes, PipeTypes
<1>2. \A t \in 1 .. MaxTurns : Len(emitted[t]) \in Nat
  BY DEF TurnTypes
<1>3. \A t \in Nat : Mailed(t) \in Nat
  BY <1>1, PlacesFinite DEF Mailed
<1>4. \A K : InPipe(K) \in Nat
  BY <1>1, PlacesFinite DEF InPipe
<1>5. \A t \in 1 .. MaxTurns : \A K : Said(t, K) \in Nat
  BY <1>2, PlacesFinite DEF Said
<1>6. QED
  BY <1>3, <1>4, <1>5 DEF InHand, TurnTypes

(* A turn begins with an empty pipe, and nothing said.                     *)
LEMMA FlowBegins ==
  ASSUME LineTypes, LineOK, TurnTypes, SendTypes, PipeTypes, MarkerOK, RangeOK, MailOK, Unsaid, QuietOK,
         [FeedNext]_feedVars, Steady', turns' = turns + 1
  PROVE  FlowOK'
<1>1. turns' # turns /\ turns \in Nat /\ turns' \in Nat
  BY Kept
<1>2. /\ phase = "idle" /\ phase' = "starting" /\ emitted' = emitted /\ turns < MaxTurns /\ reader = "serving" /\ reader' = reader
  BY <1>1, TurnsStep
<1>3. Whole(turns)
  <2>1. \A t \in 1 .. turns : t \in 1 .. turns'
    BY Kept
  <2>2. QED
    BY <2>1, HolesStay DEF Whole, Steady
<1>4. PipeIsEmpty /\ PipeIsEmpty'
  <2>1. PipeIsEmpty
    BY <1>2, <1>3 DEF QuietOK, PipeIsEmpty
  <2>2. QED
    BY <2>1, <1>2, StaysEmpty
<1>5. PICK u \in 1 .. MaxTurns : u = turns + 1 /\ u > turns /\ u \in Nat /\ u = turns'
  <2>1. turns < MaxTurns /\ MaxTurns \in Nat
    BY <1>2, FeedBounds
  <2>2. turns + 1 \in 1 .. MaxTurns /\ turns + 1 > turns /\ turns + 1 \in Nat
    BY <2>1, <1>1
  <2>3. QED
    BY <2>2
<1>6. Mailed(u) = 0
  <2>1. \A m \in Fair : m \notin OutEvents(u)
    <3>1. \A m \in Fair : m.turn # u
      BY <1>1, <1>5 DEF Fair
    <3>2. QED
      BY <3>1 DEF OutEvents
  <2>2. Len(outgoing) \in Nat /\ Len(written) \in Nat
    BY DEF SendTypes
  <2>3. Count(outgoing, OutEvents(u)) = 0
    BY <2>1, <2>2, CountNone DEF MailOK
  <2>4. \A i \in 1 .. Len(written) : written[i] \notin Penned(u)
    BY <2>1 DEF MailOK, Penned
  <2>5. Count(written, Penned(u)) = 0
    BY <2>2, <2>4, CountNone
  <2>6. QED
    BY <2>3, <2>5 DEF Mailed
<1>7. \A t \in Nat : Mailed(t)' = Mailed(t)
  <2>1. ~PumpFails /\ fwd.step # "send"
    <3>1. PumpFails => turns' = turns
      BY DEF PumpFails, runVars
    <3>2. QED
      BY <3>1, <1>1, <1>4 DEF PipeIsEmpty
  <2>2. QED
    BY <2>1, SentStep
<1>8. \A K : Said(u, K) = 0
  <2>1. emitted[u] = <<>>
    BY <1>5 DEF Unsaid
  <2>2. QED
    BY <2>1, CountEmpty DEF Said
<1>9. \A K : InPipe(K)' = 0
  <2>1. channel' = <<>> /\ backlog' = <<>>
    BY <1>4 DEF PipeIsEmpty
  <2>2. \A K : InPipe(K)' = Count(<<>>, Piped(K)) + Count(<<>>, Piped(K))
    BY <2>1 DEF InPipe
  <2>3. QED
    BY <2>2, CountEmpty
<1>10. InHand' = 0 /\ fwd'.step = "pop"
  BY <1>4 DEF InHand, PipeIsEmpty
<1>11. Mailed(u)' = 0
  BY <1>5, <1>6, <1>7
<1>12. \A K : Said(u, K)' = 0
  BY <1>2, <1>8 DEF Said
<1>13. Mailed(turns)' = 0 /\ \A K : Said(turns, K)' = 0
  <2>1. turns' = u
    BY <1>5
  <2>2. Mailed(turns)' = Count(written', Penned(u)) + Count(outgoing', OutEvents(u))
    BY <2>1 DEF Mailed, Penned, OutEvents
  <2>3. Mailed(u)' = Count(written', Penned(u)) + Count(outgoing', OutEvents(u))
    BY DEF Mailed
  <2>4. \A K : Said(turns, K)' = Count(emitted'[u], K) /\ Said(u, K)' = Count(emitted'[u], K)
    BY <2>1 DEF Said
  <2>5. QED
    BY <2>2, <2>3, <2>4, <1>11, <1>12
<1>14. QED
  BY <1>2, <1>9, <1>10, <1>13 DEF FlowOK

(* Counts of the turn that runs are counts of a fixed turn.                *)
LEMMA OfTheTurn ==
  ASSUME NEW t, turns' = t
  PROVE  /\ Mailed(turns)' = Mailed(t)' /\ \A K : Said(turns, K)' = Said(t, K)'
<1>1. Mailed(turns)' = Count(written', Penned(t)) + Count(outgoing', OutEvents(t))
  BY DEF Mailed, Penned, OutEvents
<1>2. Mailed(t)' = Count(written', Penned(t)) + Count(outgoing', OutEvents(t))
  BY DEF Mailed
<1>3. \A K : Said(turns, K)' = Count(emitted'[t], K) /\ Said(t, K)' = Count(emitted'[t], K)
  BY DEF Said
<1>4. QED
  BY <1>1, <1>2, <1>3

(* A pop takes one from the pipe.                                          *)
LEMMA PoppedFromThePipe ==
  ASSUME PipeTypes, backlog # <<>>, backlog' = Tail(backlog), channel' = channel, NEW K
  PROVE  /\ InPipe(K) \in Nat /\ InPipe(K)' \in Nat
         /\ Head(backlog) \in Piped(K) => InPipe(K) = InPipe(K)' + 1
         /\ Head(backlog) \notin Piped(K) => InPipe(K) = InPipe(K)'
<1> DEFINE P == Piped(K)
<1>1. backlog \in Seq(Queue) /\ Len(channel) \in Nat
  BY DEF PipeTypes
<1>2. /\ Count(backlog, P) \in Nat /\ Count(Tail(backlog), P) \in Nat /\ Count(channel, P) \in Nat
      /\ Head(backlog) \in P => Count(backlog, P) = Count(Tail(backlog), P) + 1
      /\ Head(backlog) \notin P => Count(backlog, P) = Count(Tail(backlog), P)
  BY <1>1, CountTail, PlacesFinite
<1>3. InPipe(K) = Count(backlog, P) + Count(channel, P) /\ InPipe(K)' = Count(Tail(backlog), P) + Count(channel, P)
  BY DEF InPipe
<1> HIDE DEF P
<1>4. QED
  BY <1>2, <1>3 DEF P

(* An emission puts one into it.                                           *)
LEMMA PutIntoThePipe ==
  ASSUME PipeTypes, NEW e \in Entries, channel' = Append(channel, e), backlog' = backlog, NEW K
  PROVE  /\ InPipe(K) \in Nat /\ InPipe(K)' \in Nat
         /\ e \in Piped(K) => InPipe(K)' = InPipe(K) + 1
         /\ e \notin Piped(K) => InPipe(K)' = InPipe(K)
<1> DEFINE P == Piped(K)
<1>1. channel \in Seq(Entries) /\ Len(backlog) \in Nat
  BY DEF PipeTypes
<1>2. /\ Count(channel, P) \in Nat /\ Count(channel', P) \in Nat /\ Count(backlog, P) \in Nat
      /\ e \in P => Count(channel', P) = Count(channel, P) + 1
      /\ e \notin P => Count(channel', P) = Count(channel, P)
  BY <1>1, CountAppend, PlacesFinite
<1>3. InPipe(K) = Count(backlog, P) + Count(channel, P) /\ InPipe(K)' = Count(backlog, P) + Count(channel', P)
  BY DEF InPipe
<1> HIDE DEF P
<1>4. QED
  BY <1>2, <1>3 DEF P

(* FlowOK is kept while the turn runs.                                     *)
LEMMA FlowGoesOn ==
  ASSUME LineTypes, LineOK, TurnTypes, SendTypes, PipeTypes, MarkerOK, RangeOK, MailOK, Unsaid, QuietOK, FlowOK,
         [FeedNext]_feedVars, Steady', turns' = turns
  PROVE  FlowOK'
<1> DEFINE D == {"denied"}
<1>1. PICK t \in 1 .. MaxTurns : t = turns /\ t = running /\ t # Idle /\ t \in Nat
  <2>1. turns \in 1 .. MaxTurns /\ running = turns /\ running # Idle
    BY SteadyStays DEF Steady
  <2>2. QED
    BY <2>1
<1>2. /\ Steady /\ running' = running /\ reader' = "serving" /\ bound' = bound /\ ctx = bound[t] /\ ~Over(bound[t])
      /\ Whole(t) /\ Whole(t)' /\ lost = FALSE
  <2>1. Whole(t) /\ Whole(t)' /\ lost = FALSE
    BY <1>1, SteadyStays DEF Steady, Whole
  <2>2. QED
    BY <2>1, <1>1, SteadyStays
<1>3. /\ fwd.step \in {"check", "send"} => fwd.via = bound[t]
      /\ fwd.step # "pop" => fwd.turn = t
      /\ Mailed(t) + InHand + InPipe(Kinds) = Said(t, Kinds)
      /\ phase # "starting" => tally + InPipe(D) = Said(t, D)
  BY <1>1, <1>2, InHandIsOfTheTurn DEF FlowOK
<1>4. /\ Mailed(t) \in Nat /\ InHand \in {0, 1} /\ InPipe(Kinds) \in Nat /\ InPipe(D) \in Nat
      /\ Said(t, Kinds) \in Nat /\ Said(t, D) \in Nat /\ tally \in Nat
  BY <1>1, Numbers
<1>5. ~PumpFails
  <2>1. OnLine(turns)'
    BY DEF Steady
  <2>2. QED
    BY <2>1 DEF OnLine, Connected, PumpFails, Closed
<1>6. Mailed(t)' = Mailed(t) \/ (Mailed(t)' = Mailed(t) + 1 /\ SendEvent)
  BY <1>1, <1>5, SentStep
<1>7. ASSUME /\ fwd'.step \in {"check", "send"} => fwd'.via = bound[t]
             /\ Mailed(t)' + InHand' + InPipe(Kinds)' = Said(t, Kinds)'
             /\ phase' # "starting" => tally' + InPipe(D)' = Said(t, D)'
      PROVE  FlowOK'
  <2>1. Mailed(turns)' = Mailed(t)' /\ Said(turns, Kinds)' = Said(t, Kinds)' /\ Said(turns, D)' = Said(t, D)' /\ turns' = t
    BY <1>1, OfTheTurn
  <2>2. QED
    BY <2>1, <1>2, <1>7 DEF FlowOK
<1>8. ASSUME emitted' = emitted PROVE Said(t, Kinds)' = Said(t, Kinds) /\ Said(t, D)' = Said(t, D)
  BY <1>8 DEF Said
<1>9. ASSUME UNCHANGED <<channel, backlog>> PROVE InPipe(Kinds)' = InPipe(Kinds) /\ InPipe(D)' = InPipe(D)
  BY <1>9 DEF InPipe
<1>10. ASSUME fwd' = fwd PROVE InHand' = InHand
  BY <1>10 DEF InHand
<1> HIDE DEF D
<1>11. ASSUME Mailed(t)' = Mailed(t), fwd' = fwd, emitted' = emitted, UNCHANGED <<channel, backlog>>, tally' = tally,
              phase' # "starting" => phase # "starting"
       PROVE  FlowOK'
  BY <1>11, <1>3, <1>7, <1>8, <1>9, <1>10
<1>12. CASE PumpWrites \/ GateEnds \/ (\E u \in 1..MaxTurns : Approve(u)) \/ Answer \/ EndTurn \/ UNCHANGED feedVars
  <2>1. /\ UNCHANGED <<fwd, emitted, channel, backlog, tally>>
        /\ phase' # "starting" => phase # "starting"
    BY <1>12 DEF PumpWrites, GateEnds, Approve, Answer, EndTurn, feedVars, pipeVars, runVars, tallyVars
  <2>2. ~SendEvent
    <3>1. SendEvent => fwd' # fwd
      BY DEF SendEvent, Sends, Empty
    <3>2. QED
      BY <2>1, <3>1
  <2>3. QED
    BY <2>1, <2>2, <1>6, <1>11
<1>13. CASE BeginTurn
  <2>1. phase = "starting" /\ tally' = 0 /\ UNCHANGED <<fwd, emitted, channel, backlog>>
    BY <1>13 DEF BeginTurn, pipeVars
  <2>2. channel = <<>> /\ backlog = <<>> /\ fwd.step = "pop" /\ emitted[t] = <<>>
    BY <2>1, <1>1, <1>2 DEF QuietOK, Unsaid
  <2>3. InPipe(D) = 0 /\ Said(t, D) = 0
    BY <2>2, CountEmpty DEF InPipe, Said
  <2>4. ~SendEvent
    BY <2>2 DEF SendEvent, Sends
  <2>5. QED
    BY <2>1, <2>3, <2>4, <1>3, <1>6, <1>7, <1>8, <1>9, <1>10
<1>14. CASE \E kind \in Kinds : Emit(kind)
  <2>1. PICK kind \in Kinds : Emit(kind)
    BY <1>14
  <2> DEFINE e == [kind |-> kind, turn |-> running]
  <2>2. /\ emitted' = [emitted EXCEPT ![t] = Append(@, kind)] /\ UNCHANGED <<fwd, backlog, tally>> /\ phase = "running"
        /\ (channel' = Append(channel, e) \/ holed' = holed \cup {t})
    BY <2>1, <1>1 DEF Emit, tallyVars
  <2>3. channel' = Append(channel, e)
    <3>1. t \in 1 .. t /\ (1 .. t) \cap holed' = {}
      BY <1>1, <1>2 DEF Whole
    <3>2. t \notin holed'
      BY <3>1
    <3>3. QED
      BY <3>2, <2>2
  <2>4. e \in Entries /\ kind \in Told /\ \A K : e \in Piped(K) <=> kind \in K
    BY <1>1 DEF Entries, Told, Piped
  <2> HIDE DEF e
  <2>5. ASSUME NEW K PROVE \/ kind \in K /\ Said(t, K)' = Said(t, K) + 1 /\ InPipe(K)' = InPipe(K) + 1
                           \/ kind \notin K /\ Said(t, K)' = Said(t, K) /\ InPipe(K)' = InPipe(K)
    <3>1. /\ kind \in K => Said(t, K)' = Said(t, K) + 1
          /\ kind \notin K => Said(t, K)' = Said(t, K)
      BY <2>2, <2>4, SaidMore DEF Said
    <3>2. /\ e \in Piped(K) => InPipe(K)' = InPipe(K) + 1
          /\ e \notin Piped(K) => InPipe(K)' = InPipe(K)
      BY <2>2, <2>3, <2>4, PutIntoThePipe
    <3>3. QED
      BY <3>1, <3>2, <2>4
  <2>6. ~SendEvent
    <3>1. SendEvent => fwd' # fwd
      BY DEF SendEvent, Sends, Empty
    <3>2. QED
      BY <2>2, <3>1
  <2>7. Said(t, Kinds)' = Said(t, Kinds) + 1 /\ InPipe(Kinds)' = InPipe(Kinds) + 1
    BY <2>5
  <2>8. \/ Said(t, D)' = Said(t, D) + 1 /\ InPipe(D)' = InPipe(D) + 1
        \/ Said(t, D)' = Said(t, D) /\ InPipe(D)' = InPipe(D)
    BY <2>5
  <2>9. Mailed(t)' = Mailed(t) /\ InHand' = InHand /\ tally' = tally /\ fwd' = fwd
    BY <2>2, <2>6, <1>6, <1>10
  <2>10. Mailed(t)' + InHand' + InPipe(Kinds)' = Said(t, Kinds)'
    BY <2>7, <2>9, <1>3, <1>4
  <2>11. tally' + InPipe(D)' = Said(t, D)'
    <3>1. tally + InPipe(D) = Said(t, D)
      BY <2>2, <1>3
    <3>2. QED
      BY <3>1, <2>8, <2>9, <1>4
  <2>12. QED
    BY <2>9, <2>10, <2>11, <1>3, <1>7
<1>15. CASE AskUser
  <2>1. /\ emitted' = [emitted EXCEPT ![t] = Append(@, "question")] /\ UNCHANGED <<fwd, channel, backlog, tally>>
        /\ phase = "running"
    BY <1>15, <1>1 DEF AskUser, tallyVars, pipeVars
  <2>2. "question" \in Told /\ "question" \notin Kinds /\ "question" \notin D
    BY FeedBounds DEF Told, D
  <2>3. Said(t, Kinds)' = Said(t, Kinds) /\ Said(t, D)' = Said(t, D)
    BY <2>1, <2>2, SaidMore DEF Said
  <2>4. ~SendEvent
    <3>1. SendEvent => fwd' # fwd
      BY DEF SendEvent, Sends, Empty
    <3>2. QED
      BY <2>1, <3>1
  <2>5. QED
    BY <2>1, <2>3, <2>4, <1>3, <1>6, <1>7, <1>9, <1>10
<1>16. CASE MoveOn \/ FlushPipe
  <2>1. UNCHANGED <<fwd, emitted, tally, turns>>
    BY <1>16, RelayStep
  <2>2. (phase' = phase \/ phase = "flushing") /\ \A K : InPipe(K)' = InPipe(K)
    <3>1. Whole(turns)'
      BY DEF Steady
    <3>2. QED
      BY <3>1, <1>16, RelayStep
  <2>3. ~SendEvent
    <3>1. SendEvent => fwd' # fwd
      BY DEF SendEvent, Sends, Empty
    <3>2. QED
      BY <2>1, <3>1
  <2>4. InPipe(Kinds)' = InPipe(Kinds) /\ InPipe(D)' = InPipe(D)
    BY <2>2
  <2>5. phase' # "starting" => phase # "starting"
    BY <2>2
  <2>6. QED
    BY <2>1, <2>3, <2>4, <2>5, <1>3, <1>6, <1>7, <1>8, <1>10
<1>17. CASE Pop
  <2>1. fwd.step = "pop" /\ backlog # <<>> /\ backlog' = Tail(backlog) /\ channel' = channel /\ emitted' = emitted
    BY <1>17 DEF Pop
  <2> DEFINE h == Head(backlog)
  <2>2. \A K : /\ InPipe(K) \in Nat /\ InPipe(K)' \in Nat
               /\ h \in Piped(K) => InPipe(K) = InPipe(K)' + 1
               /\ h \notin Piped(K) => InPipe(K) = InPipe(K)'
    BY <2>1, PoppedFromThePipe
  <2>3. Mailed(t)' = Mailed(t)
    BY <2>1, <1>6 DEF SendEvent, Sends
  <2>4. CASE h = Marker
    <3>1. fwd' = fwd /\ tally' = tally /\ phase' = "flushed"
      BY <2>4, <1>17 DEF Pop
    <3>2. phase # "starting"
      <4>1. backlog[1] = Marker /\ 1 \in 1 .. Len(backlog)
        BY <2>1, <2>4, HeadOfBacklog DEF PipeTypes
      <4>2. QED
        BY <4>1 DEF MarkerOK
    <3>3. \A K : h \notin Piped(K)
      BY <2>4, MarkerIsNoEntry DEF Piped
    <3>4. InPipe(Kinds)' = InPipe(Kinds) /\ InPipe(D)' = InPipe(D)
      BY <3>3, <2>2
    <3>5. QED
      BY <3>1, <3>2, <3>4, <2>1, <2>3, <1>3, <1>7, <1>8, <1>10
  <2>5. CASE h # Marker
    <3>1. h \in Entries /\ h.kind \in Kinds
      BY <2>1, <2>5, HeadOfBacklog
    <3>2. /\ phase' = phase /\ fwd'.step \in {"asks", "event"}
          /\ tally' = IF h.kind = "denied" THEN tally + 1 ELSE tally
      BY <2>5, <1>17 DEF Pop, At, Observe
    <3>3. h \in Piped(Kinds) /\ (h \in Piped(D) <=> h.kind = "denied")
      BY <3>1 DEF Piped, D
    <3>4. InPipe(Kinds) = InPipe(Kinds)' + 1 /\ InPipe(Kinds)' \in Nat
      BY <3>3, <2>2
    <3>5. \/ InPipe(D) = InPipe(D)' + 1 /\ tally' = tally + 1 /\ InPipe(D)' \in Nat
          \/ InPipe(D) = InPipe(D)' /\ tally' = tally /\ InPipe(D)' \in Nat
      BY <3>2, <3>3, <2>2
    <3>6. InHand = 0 /\ InHand' = 1
      BY <2>1, <3>2 DEF InHand
    <3>7. Mailed(t)' + InHand' + InPipe(Kinds)' = Said(t, Kinds)'
      BY <3>4, <3>6, <2>1, <2>3, <1>3, <1>4, <1>8
    <3>8. phase' # "starting" => tally' + InPipe(D)' = Said(t, D)'
      BY <3>2, <3>5, <2>1, <1>3, <1>4, <1>8
    <3>9. QED
      BY <3>2, <3>7, <3>8, <1>7
  <2>6. QED
    BY <2>4, <2>5
<1>18. CASE RequestApproval \/ ForwardEvent \/ SendAsk
  <2>1. UNCHANGED <<emitted, channel, backlog, tally, phase>> /\ fwd.step \notin {"pop", "send"}
    BY <1>18 DEF RequestApproval, ForwardEvent, SendAsk, Sends, runVars, tallyVars
  <2>2. Live(t)
    BY <1>1, <1>2 DEF Live
  <2>3. fwd'.step # "pop" /\ (fwd'.step \in {"check", "send"} => fwd'.via = bound[t])
    <3>1. CASE RequestApproval
      BY <3>1 DEF RequestApproval, At
    <3>2. CASE ForwardEvent
      BY <3>2, <2>2, <1>1, <1>2, <1>3 DEF ForwardEvent, At
    <3>3. CASE SendAsk
      BY <3>3 DEF SendAsk, Sends, At
    <3>4. QED
      BY <3>1, <3>2, <3>3, <1>18
  <2>4. Mailed(t)' = Mailed(t)
    BY <2>1, <1>6 DEF SendEvent, Sends
  <2>5. InHand' = InHand
    BY <2>1, <2>3 DEF InHand
  <2>6. QED
    BY <2>1, <2>3, <2>4, <2>5, <1>3, <1>7, <1>8, <1>9
<1>19. CASE SendEvent
  <2>1. UNCHANGED <<emitted, channel, backlog, tally, phase>> /\ fwd.step = "send" /\ fwd'.step = "pop"
    BY <1>19 DEF SendEvent, Sends, Empty, runVars, tallyVars
  <2>2. Posts(Mail("event", fwd.turn, 0))
    BY <2>1, <1>2, <1>3, <1>19 DEF SendEvent, Sends, Posts, Mail, lineVars
  <2>3. Mailed(t)' = Mailed(t) + 1
    BY <2>1, <2>2, <1>1, <1>3, <1>5, SentStep
  <2>4. InHand = 1 /\ InHand' = 0
    BY <2>1 DEF InHand
  <2>5. Mailed(t)' + InHand' + InPipe(Kinds)' = Said(t, Kinds)'
    BY <2>1, <2>3, <2>4, <1>3, <1>4, <1>8, <1>9
  <2>6. QED
    BY <2>1, <2>5, <1>3, <1>7, <1>8, <1>9
<1>20. QED
  BY <1>12, <1>13, <1>14, <1>15, <1>16, <1>17, <1>18, <1>19, SteadyStays DEF Forward

(* FlowOK is kept.                                                         *)
LEMMA FlowStep ==
  ASSUME LineTypes, LineOK, TurnTypes, SendTypes, PipeTypes, MarkerOK, RangeOK, MailOK, Unsaid, QuietOK, FlowOK,
         [FeedNext]_feedVars
  PROVE  FlowOK'
<1>1. CASE Steady'
  BY <1>1, Kept, FlowBegins, FlowGoesOn
<1>2. CASE ~Steady'
  BY <1>2 DEF FlowOK
<1>3. QED
  BY <1>1, <1>2

(* ReportOK is kept.                                                       *)
LEMMA ReportStep ==
  ASSUME LineTypes, LineOK, TurnTypes, SendTypes, PipeTypes, MarkerOK, RangeOK, QuietOK, FlowOK, ReportOK,
         [FeedNext]_feedVars
  PROVE  ReportOK'
<1> SUFFICES ASSUME phase' = "reporting", Whole(turns)', turns' \notin late', OnLine(turns)'
             PROVE  (Mailed(turns) = Said(turns, Kinds) /\ report = Said(turns, {"denied"}))'
  BY DEF ReportOK
<1>1. turns' # turns + 1 /\ turns' = turns
  <2>1. turns' = turns + 1 => turns' # turns
    BY Kept
  <2>2. turns' # turns + 1
    BY <2>1, TurnsStep
  <2>3. QED
    BY <2>2, Kept
<1>2. /\ phase = "reporting" \/ Report
      /\ turns # 0 /\ turns \in 0 .. MaxTurns /\ MaxTurns \in Nat /\ (running = Idle \/ running = turns)
  <2>1. phase = "reporting" \/ Report
    BY PhaseStep
  <2>2. turns # 0
    BY <2>1 DEF Report, TurnTypes, Idle
  <2>3. QED
    BY <2>1, <2>2, FeedBounds DEF TurnTypes
<1>3. PICK t \in 1 .. MaxTurns : t = turns /\ t \in 1 .. turns /\ t \in Nat
  <2>1. turns \in 1 .. MaxTurns /\ turns \in 1 .. turns /\ turns \in Nat
    BY <1>2
  <2>2. QED
    BY <2>1
<1>4. Whole(t)' /\ OnLine(t)'
  BY <1>1, <1>3 DEF Whole, OnLine
<1>5. Whole(turns) /\ OnLine(t)
  BY <1>3, <1>4, Kept
<1>6. channel = <<>> /\ backlog = <<>> /\ fwd.step = "pop"
  BY <1>2, <1>5 DEF QuietOK, Report
<1>7. ~PumpFails
  BY <1>4 DEF OnLine, Connected, PumpFails, Closed
<1>8. Mailed(t)' = Mailed(t)
  BY <1>3, <1>6, <1>7, SentStep
<1>9. \A K : Said(t, K)' = Said(t, K)
  <2>1. emitted'[t] = emitted[t]
    <3>1. CASE phase = "reporting"
      <4>1. t # running
        BY <1>3, <3>1 DEF TurnTypes, Idle
      <4>2. QED
        BY <4>1, <1>3, Kept
    <3>2. CASE Report
      BY <3>2 DEF Report
    <3>3. QED
      BY <3>1, <3>2, <1>2
  <2>2. QED
    BY <2>1 DEF Said
<1>10. Mailed(t) = Said(t, Kinds) /\ report' = Said(t, {"denied"})
  <2>1. CASE Report
    <3>1. ~Withheld /\ phase = "flushed" /\ report' = tally
      BY <2>1 DEF Report
    <3>2. lost = FALSE
      <4>1. lost => turns \in late'
        BY <2>1, <3>1 DEF Report
      <4>2. QED
        BY <4>1, <1>1 DEF LineTypes
    <3>3. running # Idle
      BY <3>1 DEF TurnTypes
    <3>4. Steady
      BY <3>2, <3>3, <1>3, <1>5 DEF Steady
    <3>5. /\ Mailed(t) + InHand + InPipe(Kinds) = Said(t, Kinds)
          /\ tally + InPipe({"denied"}) = Said(t, {"denied"})
      BY <3>1, <3>4, <1>3 DEF FlowOK
    <3>6. InHand = 0 /\ InPipe(Kinds) = 0 /\ InPipe({"denied"}) = 0
      BY <1>6, CountEmpty DEF InHand, InPipe
    <3>7. Mailed(t) \in Nat /\ tally \in Nat
      BY <1>3, Numbers
    <3>8. QED
      BY <3>1, <3>5, <3>6, <3>7
  <2>2. CASE phase = "reporting" /\ ~Report
    <3>1. Mailed(t) = Said(t, Kinds) /\ report = Said(t, {"denied"})
      BY <2>2, <1>1, <1>3, <1>5, LateStays DEF ReportOK
    <3>2. ~ReportTurn
      BY DEF ReportTurn
    <3>3. report' = report
      <4>1. CASE DialPlane \/ ReadBreaks \/ CancelsTurn \/ OnDisconnect \/ ReaderLeaves \/ PumpWrites \/ PumpFails \/ DropsConnection
                 \/ UNCHANGED feedVars
        BY <4>1 DEF DialPlane, ReadBreaks, CancelsTurn, OnDisconnect, ReaderLeaves, PumpWrites, PumpFails, DropsConnection, tallyVars, feedVars
      <4>2. CASE QueryArrives \/ BeginTurn \/ GateEnds \/ AskUser \/ Answer \/ EndTurn
                 \/ (\E u \in 1..MaxTurns : Approve(u)) \/ (\E kind \in Kinds : Emit(kind))
        BY <4>2 DEF QueryArrives, BeginTurn, GateEnds, AskUser, Answer, EndTurn, Approve, Emit, tallyVars
      <4>3. CASE MoveOn \/ FlushPipe \/ Forward
        BY <4>3 DEF MoveOn, FlushPipe, Forward, Pop, RequestApproval, ForwardEvent, SendAsk, SendEvent, Sends, tallyVars
      <4>4. QED
        BY <4>1, <4>2, <4>3, <2>2, <3>2 DEF FeedNext
    <3>4. QED
      BY <3>1, <3>3
  <2>3. QED
    BY <2>1, <2>2, <1>2
<1>11. Mailed(turns)' = Mailed(t)' /\ \A K : Said(turns, K)' = Said(t, K)'
  BY <1>1, <1>3, OfTheTurn
<1>12. QED
  BY <1>8, <1>9, <1>10, <1>11

(* Of a turn that is over nothing moves any more.                          *)
LEMMA OverIsSettled ==
  ASSUME LineTypes, LineOK, TurnTypes, SendTypes, PipeTypes, MarkerOK, RangeOK, QuietOK,
         [FeedNext]_feedVars, NEW t \in 1 .. turns, t # running, Whole(t)'
  PROVE  /\ Whole(t) /\ bound'[t] = bound[t] /\ t \in 1 .. MaxTurns /\ t \in Nat
         /\ Mailed(t)' = Mailed(t) \/ PumpFails
         /\ \A K : Said(t, K)' = Said(t, K)
         /\ fwd.step = "send" => Mail("event", fwd.turn, 0) \notin OutEvents(t)
         /\ OnLine(t)' => OnLine(t) /\ ~PumpFails
<1>1. Whole(t) /\ bound'[t] = bound[t] /\ t \in 1 .. MaxTurns /\ t \in Nat /\ (OnLine(t)' => OnLine(t)) /\ emitted'[t] = emitted[t]
  <2>1. t \in Nat /\ t \in 1 .. MaxTurns
    BY Kept
  <2>2. QED
    BY <2>1, Kept
<1>2. fwd.step = "send" => fwd.turn # t
  <2>1. t \notin Carried
    BY <1>1 DEF QuietOK
  <2>2. fwd.step = "send" => fwd.turn \in Carried
    BY TurnsOf DEF Carried
  <2>3. QED
    BY <2>1, <2>2
<1>3. Mailed(t)' = Mailed(t) \/ PumpFails
  BY <1>1, <1>2, SentStep
<1>4. \A K : Said(t, K)' = Said(t, K)
  BY <1>1 DEF Said
<1>5. fwd.step = "send" => Mail("event", fwd.turn, 0) \notin OutEvents(t)
  <2>1. fwd.turn \in Nat /\ 0 \in Nat
    BY DEF PipeTypes, Hands
  <2>2. Mail("event", fwd.turn, 0).turn = fwd.turn
    BY <2>1, MailHas
  <2>3. QED
    BY <2>2, <1>2 DEF OutEvents
<1>6. OnLine(t)' => ~PumpFails
  BY DEF OnLine, Connected, PumpFails, Closed
<1>7. QED
  BY <1>1, <1>3, <1>4, <1>5, <1>6

(* A result in the outbox is of a turn that is over.                       *)
LEMMA ResultIsOfADoneTurn ==
  ASSUME TurnTypes, MailOK
  PROVE  /\ \A k \in 1 .. Len(outgoing) :
              /\ outgoing[k] \in Messages
              /\ outgoing[k].kind = "result" =>
                   /\ outgoing[k].turn \in 1 .. turns /\ outgoing[k].turn # running
                   /\ \A t : outgoing[k] \notin OutEvents(t)
         /\ \A i \in 1 .. Len(written) :
              /\ written[i].message \in Messages
              /\ written[i].message.kind = "result" =>
                   /\ written[i].message.turn \in 1 .. turns /\ written[i].message.turn # running
                   /\ \A t : written[i] \notin Penned(t)
<1>1. \A m \in Fair : /\ m \in Messages
                      /\ m.kind = "result" => /\ m.turn \in 1 .. turns /\ m.turn # running
                                              /\ \A t : m \notin OutEvents(t)
  BY DEF Fair, Done, OutEvents
<1>2. \A r, t : r.message \notin OutEvents(t) => r \notin Penned(t)
  BY DEF Penned
<1>3. QED
  BY <1>1, <1>2 DEF MailOK

(* ResultOK is kept.                                                       *)
LEMMA ResultStep ==
  ASSUME LineTypes, LineOK, TurnTypes, SendTypes, PipeTypes, MarkerOK, RangeOK, MailOK, QuietOK, ReportOK, ResultOK,
         [FeedNext]_feedVars
  PROVE  ResultOK'
<1> SUFFICES ASSUME NEW k \in 1 .. Len(outgoing'), outgoing'[k].kind = "result",
                    NEW t, t = outgoing'[k].turn, Whole(t)', t \notin late', NEW d, d = outgoing'[k].denied
             PROVE  ToldAt(k, t, d)'
  BY DEF ResultOK
<1>1. t \notin late
  BY LateStays
<1>2. outgoing \in Seq(Messages) /\ Len(outgoing) \in Nat /\ turns \in Nat
  BY Kept DEF SendTypes
<1>3. ASSUME NEW o \in 1 .. Len(outgoing), outgoing'[k] = outgoing[o]
      PROVE  /\ t \in 1 .. turns /\ t # running
             /\ \A j \in 1 .. Len(outgoing) : outgoing[j] \in OutEvents(t) => j < o
             /\ OnLine(t)' => Mailed(t)' = Said(t, Kinds)' /\ d = Said(t, {"denied"})'
             /\ fwd.step = "send" => Mail("event", fwd.turn, 0) \notin OutEvents(t)
  <2>1. t \in 1 .. turns /\ t # running
    BY <1>3, ResultIsOfADoneTurn
  <2>2. /\ Whole(t) /\ (Mailed(t)' = Mailed(t) \/ PumpFails)
        /\ \A K : Said(t, K)' = Said(t, K)
        /\ fwd.step = "send" => Mail("event", fwd.turn, 0) \notin OutEvents(t)
        /\ OnLine(t)' => OnLine(t) /\ ~PumpFails
    BY <2>1, OverIsSettled
  <2>3. ToldAt(o, t, d)
    <3>1. outgoing[o].kind = "result" /\ outgoing[o].turn = t /\ outgoing[o].denied = d
      BY <1>3
    <3>2. Whole(outgoing[o].turn)
      BY <3>1, <2>2
    <3>3. ToldAt(o, outgoing[o].turn, outgoing[o].denied)
      BY <1>1, <3>1, <3>2 DEF ResultOK
    <3>4. QED
      BY <3>1, <3>3
  <2>4. QED
    BY <2>1, <2>2, <2>3 DEF ToldAt
<1>4. ASSUME NEW m \in Messages, Posts(m)
      PROVE  /\ Len(outgoing') = Len(outgoing) + 1 /\ outgoing'[Len(outgoing) + 1] = m
             /\ \A i \in 1 .. Len(outgoing) : outgoing'[i] = outgoing[i]
             /\ \A i \in 1 .. Len(outgoing') : i \in 1 .. Len(outgoing) \/ i = Len(outgoing) + 1
  BY <1>2, <1>4, Appended DEF Posts
<1>5. ASSUME NEW m \in Messages, Posts(m), k \in 1 .. Len(outgoing), m \notin OutEvents(t)
      PROVE  ToldAt(k, t, d)'
  <2>1. outgoing'[k] = outgoing[k]
    BY <1>4, <1>5
  <2>2. /\ \A j \in 1 .. Len(outgoing) : outgoing[j] \in OutEvents(t) => j < k
        /\ OnLine(t)' => Mailed(t)' = Said(t, Kinds)' /\ d = Said(t, {"denied"})'
    BY <2>1, <1>3, <1>5
  <2>3. \A j \in 1 .. Len(outgoing') : outgoing'[j] \in OutEvents(t) => j < k
    BY <2>2, <1>4, <1>5
  <2>4. QED
    BY <2>2, <2>3 DEF ToldAt, OutEvents
<1>6. ASSUME NEW m \in Messages, Posts(m), m.kind # "result"
      PROVE  k \in 1 .. Len(outgoing)
  BY <1>4, <1>6
<1>7. CASE UNCHANGED <<outgoing, written>>
  <2>1. k \in 1 .. Len(outgoing) /\ outgoing'[k] = outgoing[k]
    BY <1>7
  <2>2. /\ \A j \in 1 .. Len(outgoing) : outgoing[j] \in OutEvents(t) => j < k
        /\ OnLine(t)' => Mailed(t)' = Said(t, Kinds)' /\ d = Said(t, {"denied"})'
    BY <2>1, <1>3
  <2>3. QED
    BY <2>2, <1>7 DEF ToldAt, OutEvents
<1>8. CASE fwd.step = "send" /\ Posts(Mail("event", fwd.turn, 0))
  <2> DEFINE m == Mail("event", fwd.turn, 0)
  <2>1. m \in Messages /\ m.kind = "event"
    <3>1. fwd.turn \in Nat /\ 0 \in Nat
      BY DEF PipeTypes, Hands
    <3>2. QED
      BY <3>1, MailHas
  <2> HIDE DEF m
  <2>2. Posts(m)
    BY <1>8 DEF m
  <2>3. k \in 1 .. Len(outgoing)
    BY <2>1, <2>2, <1>6
  <2>4. m \notin OutEvents(t)
    BY <2>1, <2>2, <2>3, <1>3, <1>4, <1>8 DEF m
  <2>5. QED
    BY <2>1, <2>2, <2>3, <2>4, <1>5
<1>9. CASE phase = "reporting" /\ Posts(Mail("result", turns, report)) /\ ReportTurn
  <2> DEFINE m == Mail("result", turns, report)
  <2>1. m \in Messages /\ m.kind = "result" /\ m.turn = turns /\ m.denied = report
    BY MailHas, <1>2 DEF TurnTypes
  <2>2. \A u : m \notin OutEvents(u)
    BY <2>1 DEF OutEvents
  <2> HIDE DEF m
  <2>3. Posts(m)
    BY <1>9 DEF m
  <2>4. CASE k \in 1 .. Len(outgoing)
    BY <2>1, <2>2, <2>3, <2>4, <1>5
  <2>5. CASE k \notin 1 .. Len(outgoing)
    <3>1. outgoing'[k] = m /\ k = Len(outgoing) + 1
      BY <2>1, <2>3, <2>5, <1>4
    <3>2. t = turns /\ d = report
      BY <3>1, <2>1
    <3>3. turns # 0 /\ running = Idle
      BY <1>9 DEF TurnTypes
    <3>4. t \in 1 .. turns /\ t # running
      BY <3>2, <3>3, <1>2 DEF Idle
    <3>5. /\ Whole(t) /\ (Mailed(t)' = Mailed(t) \/ PumpFails)
          /\ \A K : Said(t, K)' = Said(t, K)
          /\ OnLine(t)' => OnLine(t) /\ ~PumpFails
      BY <3>4, OverIsSettled
    <3>6. OnLine(t)' => Mailed(t)' = Said(t, Kinds)' /\ d = Said(t, {"denied"})'
      BY <1>1, <3>2, <3>5, <1>9 DEF ReportOK
    <3>7. \A j \in 1 .. Len(outgoing') : outgoing'[j] \in OutEvents(t) => j < k
      <4>1. \A j \in 1 .. Len(outgoing) : j < Len(outgoing) + 1
        BY <1>2
      <4>2. QED
        BY <4>1, <3>1, <2>1, <2>2, <2>3, <1>4
    <3>8. QED
      BY <3>6, <3>7 DEF ToldAt, OutEvents
  <2>6. QED
    BY <2>4, <2>5
<1>10. CASE \E kind \in {"ask", "question"}, u \in 1 .. turns : Posts(Mail(kind, u, 0))
  <2>1. PICK kind \in {"ask", "question"}, u \in 1 .. turns : Posts(Mail(kind, u, 0))
    BY <1>10
  <2> DEFINE m == Mail(kind, u, 0)
  <2>2. m \in Messages /\ m.kind = kind
    <3>1. u \in Nat /\ 0 \in Nat
      BY <1>2
    <3>2. QED
      BY <3>1, MailHas
  <2>3. m \notin OutEvents(t)
    BY <2>2 DEF OutEvents
  <2> HIDE DEF m
  <2>4. Posts(m) /\ m.kind # "result"
    BY <2>1, <2>2 DEF m
  <2>5. QED
    BY <2>2, <2>3, <2>4, <1>5, <1>6
<1>11. CASE PumpWrites \/ PumpFails
  <2>1. outgoing # <<>> /\ outgoing' = Tail(outgoing)
    BY <1>11 DEF PumpWrites, PumpFails
  <2>2. Len(outgoing') = Len(outgoing) - 1 /\ \A i \in 1 .. Len(outgoing) - 1 : outgoing'[i] = outgoing[i + 1]
    BY <2>1, <1>2
  <2>3. \A i \in 1 .. Len(outgoing) - 1 : i \in Nat /\ i + 1 \in 1 .. Len(outgoing)
    BY <1>2
  <2>4. k + 1 \in 1 .. Len(outgoing) /\ outgoing'[k] = outgoing[k + 1] /\ k \in Nat
    BY <2>2, <2>3
  <2>5. PICK o \in 1 .. Len(outgoing) : o = k + 1
    BY <2>4
  <2>6. /\ \A j \in 1 .. Len(outgoing) : outgoing[j] \in OutEvents(t) => j < o
        /\ OnLine(t)' => Mailed(t)' = Said(t, Kinds)' /\ d = Said(t, {"denied"})'
    BY <2>4, <2>5, <1>3
  <2>7. ASSUME NEW j \in 1 .. Len(outgoing'), outgoing'[j] \in OutEvents(t) PROVE j < k
    <3>1. j \in Nat /\ j + 1 \in 1 .. Len(outgoing) /\ outgoing'[j] = outgoing[j + 1]
      BY <2>2, <2>3
    <3>2. j + 1 < k + 1
      BY <3>1, <2>5, <2>6, <2>7
    <3>3. QED
      BY <3>1, <3>2, <2>4
  <2>8. QED
    BY <2>6, <2>7 DEF ToldAt, OutEvents
<1>12. QED
  BY <1>7, <1>8, <1>9, <1>10, <1>11, MailStep

(* WrittenOK is kept.                                                      *)
LEMMA WrittenStep ==
  ASSUME LineTypes, LineOK, TurnTypes, SendTypes, PipeTypes, MarkerOK, RangeOK, MailOK, QuietOK, ResultOK, WrittenOK,
         [FeedNext]_feedVars
  PROVE  WrittenOK'
<1> SUFFICES ASSUME NEW i \in 1 .. Len(written'), written'[i].message.kind = "result",
                    NEW t, t = written'[i].message.turn, Whole(t)', t \notin late', NEW d,
                    d = written'[i].message.denied, written'[i].conn = bound'[t]
             PROVE  Stands(i, t, d)'
  BY DEF WrittenOK
<1>1. t \notin late
  BY LateStays
<1>2. outgoing \in Seq(Messages) /\ Len(outgoing) \in Nat /\ written \in Seq(Records) /\ Len(written) \in Nat /\ turns \in Nat
  BY Kept DEF SendTypes
<1> DEFINE P == Penned(t)
           O == OutEvents(t)
<1>3. ASSUME /\ \A j \in 1 .. Len(written') : written'[j] \in P => j < i
             /\ \A j \in 1 .. Len(outgoing') : outgoing'[j] \notin O
             /\ Count(written', P) = Said(t, Kinds)' /\ d = Said(t, {"denied"})'
      PROVE  Stands(i, t, d)'
  BY <1>3 DEF Stands, Penned, OutEvents
<1>4. ASSUME i \in 1 .. Len(written), written'[i] = written[i]
      PROVE  /\ t \in 1 .. turns /\ t # running
             /\ \A j \in 1 .. Len(written) : written[j] \in P => j < i
             /\ \A j \in 1 .. Len(outgoing) : outgoing[j] \notin O
             /\ Count(written, P) = Said(t, Kinds)' /\ d = Said(t, {"denied"})'
             /\ fwd.step = "send" => Mail("event", fwd.turn, 0) \notin O
  <2>1. t \in 1 .. turns /\ t # running
    BY <1>4, ResultIsOfADoneTurn
  <2>2. /\ Whole(t) /\ bound'[t] = bound[t]
        /\ \A K : Said(t, K)' = Said(t, K)
        /\ fwd.step = "send" => Mail("event", fwd.turn, 0) \notin OutEvents(t)
    BY <2>1, OverIsSettled
  <2>3. Stands(i, t, d)
    BY <1>1, <1>4, <2>2 DEF WrittenOK
  <2>4. QED
    BY <2>1, <2>2, <2>3 DEF Stands
<1> HIDE DEF P, O
<1>5. ASSUME written' = written, \A j \in 1 .. Len(outgoing') : outgoing'[j] \notin O \/ \E o \in 1 .. Len(outgoing) : outgoing'[j] = outgoing[o]
      PROVE  Stands(i, t, d)'
  BY <1>3, <1>4, <1>5
<1>6. ASSUME NEW m \in Messages, Posts(m), i \in 1 .. Len(written) => m \notin O
      PROVE  Stands(i, t, d)'
  <2>1. written' = written
    BY <1>6 DEF Posts
  <2>2. \A j \in 1 .. Len(outgoing') : outgoing'[j] = m \/ (j \in 1 .. Len(outgoing) /\ outgoing'[j] = outgoing[j])
    BY <1>2, <1>6, Appended DEF Posts
  <2>3. QED
    BY <2>1, <2>2, <1>5, <1>6
<1>7. CASE UNCHANGED <<outgoing, written>>
  BY <1>5, <1>7
<1>8. CASE fwd.step = "send" /\ Posts(Mail("event", fwd.turn, 0))
  <2> DEFINE m == Mail("event", fwd.turn, 0)
  <2>1. m \in Messages
    <3>1. fwd.turn \in Nat /\ 0 \in Nat
      BY DEF PipeTypes, Hands
    <3>2. QED
      BY <3>1, MailHas
  <2>2. written' = written
    BY <1>8 DEF Posts
  <2>3. m \notin O
    BY <2>2, <1>4, <1>8
  <2> HIDE DEF m
  <2>4. QED
    BY <2>1, <2>3, <1>6, <1>8 DEF m
<1>9. ASSUME NEW kind \in {"ask", "question", "result"}, NEW u \in Nat, NEW e \in Nat, Posts(Mail(kind, u, e))
      PROVE  Stands(i, t, d)'
  <2> DEFINE m == Mail(kind, u, e)
  <2>1. m \in Messages /\ m \notin O
    BY MailHas DEF O, OutEvents
  <2> HIDE DEF m
  <2>2. QED
    BY <2>1, <1>6, <1>9 DEF m
<1>10. CASE phase = "reporting" /\ Posts(Mail("result", turns, report)) /\ ReportTurn
  <2>1. report \in Nat
    BY DEF TurnTypes
  <2>2. QED
    BY <2>1, <1>2, <1>9, <1>10
<1>11. CASE \E kind \in {"ask", "question"}, u \in 1 .. turns : Posts(Mail(kind, u, 0))
  <2>1. PICK kind \in {"ask", "question"}, u \in 1 .. turns : Posts(Mail(kind, u, 0))
    BY <1>11
  <2>2. u \in Nat /\ 0 \in Nat /\ kind \in {"ask", "question", "result"}
    BY <1>2
  <2>3. QED
    BY <2>1, <2>2, <1>9
<1>12. ASSUME outgoing # <<>>, outgoing' = Tail(outgoing)
       PROVE  \A j \in 1 .. Len(outgoing') : \E o \in 1 .. Len(outgoing) : outgoing'[j] = outgoing[o]
  <2>1. Len(outgoing') = Len(outgoing) - 1 /\ \A j \in 1 .. Len(outgoing) - 1 : outgoing'[j] = outgoing[j + 1]
    BY <1>2, <1>12
  <2>2. \A j \in 1 .. Len(outgoing) - 1 : j + 1 \in 1 .. Len(outgoing)
    BY <1>2
  <2>3. QED
    BY <2>1, <2>2
<1>13. CASE PumpFails
  <2>1. outgoing # <<>> /\ outgoing' = Tail(outgoing) /\ written' = written
    BY <1>13 DEF PumpFails
  <2>2. QED
    BY <2>1, <1>5, <1>12
<1>14. CASE PumpWrites
  <2> DEFINE h == Head(outgoing)
             r == [conn |-> socket.n, message |-> h]
             n == Len(written)
  <2>1. outgoing # <<>> /\ outgoing' = Tail(outgoing) /\ written' = Append(written, r) /\ Connected
    BY <1>14 DEF PumpWrites
  <2>2. h \in Messages /\ h = outgoing[1] /\ 1 \in 1 .. Len(outgoing) /\ n \in Nat
    BY <1>2, <2>1
  <2>3. r \in Records /\ r.message = h /\ r.conn = socket.n /\ (r \in P <=> h \in O)
    BY <2>2 DEF Records, LineTypes, P, O, Penned
  <2> HIDE DEF r, h
  <2>4. /\ Len(written') = n + 1 /\ written'[n + 1] = r
        /\ \A j \in 1 .. n : written'[j] = written[j]
        /\ \A j \in 1 .. Len(written') : j \in 1 .. n \/ j = n + 1
    BY <1>2, <2>1, <2>3, Appended
  <2>5. h \notin O => Count(written', P) = Count(written, P)
    BY <1>2, <2>1, <2>3, CountAppend
  <2> HIDE DEF n
  <2>6. CASE i \in 1 .. n
    <3>1. i \in 1 .. Len(written) /\ written'[i] = written[i]
      BY <2>4, <2>6 DEF n
    <3>2. /\ \A j \in 1 .. n : written[j] \in P => j < i
          /\ \A j \in 1 .. Len(outgoing) : outgoing[j] \notin O
          /\ Count(written, P) = Said(t, Kinds)' /\ d = Said(t, {"denied"})'
      BY <3>1, <1>4 DEF n
    <3>3. h \notin O
      BY <3>2, <2>2
    <3>4. \A j \in 1 .. Len(written') : written'[j] \in P => j < i
      BY <3>2, <3>3, <2>3, <2>4
    <3>5. \A j \in 1 .. Len(outgoing') : outgoing'[j] \notin O
      BY <3>2, <2>1, <1>12
    <3>6. QED
      BY <3>2, <3>3, <3>4, <3>5, <2>5, <1>3
  <2>7. CASE i = n + 1
    <3>1. h.kind = "result" /\ h.turn = t /\ h.denied = d /\ socket.n = bound'[t]
      BY <2>3, <2>4, <2>7
    <3>2. t \in 1 .. turns /\ t # running /\ h \notin O
      BY <3>1, <2>2, ResultIsOfADoneTurn DEF O
    <3>3. /\ Whole(t) /\ bound'[t] = bound[t] /\ \A K : Said(t, K)' = Said(t, K)
      BY <3>2, OverIsSettled
    <3>4. OnLine(t)
      BY <3>1, <3>3, <2>1 DEF OnLine
    <3>5. ToldAt(1, t, d)
      BY <1>1, <3>1, <3>3, <2>2 DEF ResultOK
    <3>6. /\ \A j \in 1 .. Len(outgoing) : outgoing[j] \notin O
          /\ Mailed(t) = Said(t, Kinds) /\ d = Said(t, {"denied"})
      <4>1. \A j \in 1 .. Len(outgoing) : ~(j < 1)
        BY <1>2
      <4>2. QED
        BY <4>1, <3>4, <3>5 DEF ToldAt, O
    <3>7. Count(written, P) = Said(t, Kinds)
      <4>1. Count(outgoing, O) = 0
        BY <3>6, <1>2, CountNone
      <4>2. Count(written, P) \in Nat
        BY <1>2, PlacesFinite
      <4>3. Mailed(t) = Count(written, P) + Count(outgoing, O)
        BY DEF Mailed, P, O
      <4>4. QED
        BY <4>1, <4>2, <4>3, <3>6
    <3>8. \A j \in 1 .. Len(written') : written'[j] \in P => j < i
      <4>1. \A j \in 1 .. n : j < n + 1
        BY <2>2
      <4>2. QED
        BY <4>1, <3>2, <2>3, <2>4, <2>7
    <3>9. \A j \in 1 .. Len(outgoing') : outgoing'[j] \notin O
      BY <3>6, <2>1, <1>12
    <3>10. QED
      BY <3>2, <3>3, <3>6, <3>7, <3>8, <3>9, <2>5, <1>3
  <2>8. QED
    BY <2>4, <2>6, <2>7
<1>15. QED
  BY <1>7, <1>8, <1>10, <1>11, <1>13, <1>14, MailStep

(* The feed begins in the invariant.                                       *)
LEMMA FeedInvInit ==
  ASSUME FeedInit
  PROVE  FeedInv
<1> USE FeedBounds DEF FeedInit
<1>1. LineTypes
  <2>1. 0 \in 0 .. MaxFeeds
    OBVIOUS
  <2>2. lost \in BOOLEAN
    <3>1. lost = FALSE
      OBVIOUS
    <3>2. QED
      BY <3>1
  <2>3. bound \in [1 .. MaxTurns -> 0 .. MaxFeeds]
    BY <2>1
  <2>4. socket \in [n : 0 .. MaxFeeds, life : {"open", "over"}]
    BY <2>1
  <2>5. QED
    BY <2>1, <2>3, <2>4, <2>2 DEF LineTypes, Background
<1>2. TurnTypes
  <2>1. emitted \in [1 .. MaxTurns -> Seq(Told)]
    <3>1. <<>> \in Seq(Told)
      OBVIOUS
    <3>2. QED
      BY <3>1
  <2>2. QED
    BY <2>1 DEF TurnTypes, Idle
<1>3. \A S : <<>> \in Seq(S)
  OBVIOUS
<1>4. Len(<<>>) = 0
  OBVIOUS
<1>5. SendTypes
  BY <1>3, <1>4 DEF SendTypes
<1>6. PipeTypes
  BY <1>3, <1>4 DEF PipeTypes, Hands, Empty
<1>7. MarkerOK
  BY <1>4 DEF MarkerOK
<1>8. LineOK
  BY DEF LineOK
<1>9. RangeOK
  <2>1. fwd.step = "pop"
    BY DEF Empty
  <2>2. Carried = {}
    BY <2>1, CarriesNothing DEF Carried
  <2>3. QED
    BY <2>2 DEF RangeOK
<1>10. MailOK
  BY <1>4 DEF MailOK
<1>11. Unsaid
  BY DEF Unsaid
<1>12. QuietOK
  BY DEF QuietOK, Empty
<1>13. FlowOK /\ ReportOK
  BY DEF FlowOK, ReportOK, Steady
<1>14. ResultOK /\ WrittenOK
  BY <1>4 DEF ResultOK, WrittenOK
<1>15. QED
  BY <1>1, <1>2, <1>5, <1>6, <1>7, <1>8, <1>9, <1>10, <1>11, <1>12, <1>13, <1>14 DEF FeedInv, FeedTypes

(* Every step keeps it.                                                    *)
LEMMA FeedInvStep ==
  ASSUME FeedInv, [FeedNext]_feedVars
  PROVE  FeedInv'
<1>1. /\ LineTypes /\ TurnTypes /\ SendTypes /\ PipeTypes /\ MarkerOK /\ LineOK /\ RangeOK /\ MailOK /\ Unsaid
      /\ QuietOK /\ FlowOK /\ ReportOK /\ ResultOK /\ WrittenOK
  BY DEF FeedInv, FeedTypes
<1>2. LineTypes' /\ TurnTypes' /\ SendTypes' /\ PipeTypes'
  BY <1>1, LineTypesStep, TurnTypesStep, SendTypesStep, PipeTypesStep
<1>3. MarkerOK' /\ LineOK' /\ RangeOK' /\ MailOK' /\ Unsaid'
  BY <1>1, MarkerStep, LineStep, RangeStep, MailOKStep, UnsaidStep
<1>4. QuietOK' /\ FlowOK' /\ ReportOK' /\ ResultOK' /\ WrittenOK'
  BY <1>1, QuietStep, FlowStep, ReportStep, ResultStep, WrittenStep
<1>5. QED
  BY <1>2, <1>3, <1>4 DEF FeedInv, FeedTypes

(* The invariant implies what it is for.                                   *)
LEMMA FeedInvSaysWhole ==
  ASSUME FeedInv
  PROVE  FeedIsWhole
<1>1. FeedTypeOK
  BY DEF FeedInv, FeedTypes, LineTypes, TurnTypes, SendTypes, PipeTypes, FeedTypeOK
<1>2. ReportIsWhole
  <2>1. /\ written \in Seq(Records) /\ \A i \in 1 .. Len(written) : written[i].message \in Messages
    BY DEF FeedInv, FeedTypes, SendTypes, MailOK, Fair
  <2>2. DOMAIN written = 1 .. Len(written) /\ Len(written) \in Nat
    BY <2>1
  <2> SUFFICES ASSUME NEW i \in 1 .. Len(written), written[i].message.kind = "result",
                      NEW t, t = written[i].message.turn, written[i].conn = bound[t], (1 .. t) \cap holed = {},
                      t \notin late
               PROVE  LET here == {j \in DOMAIN written : written[j].message.kind = "event" /\ written[j].message.turn = t}
                      IN  /\ Cardinality(here) = Emitted(t, Kinds) /\ \A j \in here : j < i
                          /\ written[i].message.denied = Emitted(t, {"denied"})
    BY <2>2 DEF ReportIsWhole
  <2> DEFINE here == {j \in DOMAIN written : written[j].message.kind = "event" /\ written[j].message.turn = t}
             d == written[i].message.denied
  <2>3. Stands(i, t, d)
    BY DEF FeedInv, WrittenOK, Whole
  <2>4. here = Places(written, Penned(t))
    <3>1. \A j \in 1 .. Len(written) : written[j] \in Records
      BY <2>1
    <3>2. \A j \in 1 .. Len(written) :
            written[j] \in Penned(t) <=> written[j].message.kind = "event" /\ written[j].message.turn = t
      BY <2>1, <3>1 DEF Penned, OutEvents
    <3>3. QED
      BY <2>2, <3>2 DEF Places
  <2>5. \A K : Emitted(t, K) = Said(t, K)
    <3>1. t \in 1 .. MaxTurns
      <4>1. written[i].message \in Fair /\ turns \in 0 .. MaxTurns
        BY DEF FeedInv, FeedTypes, TurnTypes, MailOK
      <4>2. t \in 1 .. turns
        BY <4>1 DEF Fair
      <4>3. QED
        BY <4>1, <4>2, FeedBounds
    <3>2. emitted[t] \in Seq(Told)
      BY <3>1 DEF FeedInv, FeedTypes, TurnTypes
    <3>3. DOMAIN emitted[t] = 1 .. Len(emitted[t])
      BY <3>2
    <3>4. QED
      BY <3>3 DEF Emitted, Said, Count, Places
  <2>6. \A j \in here : j < i
    BY <2>3, <2>4 DEF Stands, Places
  <2>7. Cardinality(here) = Emitted(t, Kinds)
    BY <2>3, <2>4, <2>5 DEF Stands, Count
  <2>8. d = Emitted(t, {"denied"})
    BY <2>3, <2>5 DEF Stands
  <2>9. QED
    BY <2>6, <2>7, <2>8
<1>3. QED
  BY <1>1, <1>2 DEF FeedIsWhole

(* On its own connection the result of a turn comes after every event of   *)
(* the turn and carries its denials, whatever is lost and dialled again,   *)
(* unless the bus or the cap dropped an event or the turn was lost before  *)
(* it reported (FeedIsWhole).                                              *)
THEOREM FeedStaysWhole == FeedSpec => []FeedIsWhole
<1>1. FeedInit => FeedInv
  BY FeedInvInit
<1>2. FeedInv /\ [FeedNext]_feedVars => FeedInv'
  BY FeedInvStep
<1>3. FeedInv => FeedIsWhole
  BY FeedInvSaysWhole
<1>4. QED
  BY <1>1, <1>2, <1>3, PTL DEF FeedSpec
=============================================================================
