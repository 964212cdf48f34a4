------------------------------ MODULE WsClient ------------------------------
(***************************************************************************)
(* The control-plane client (internal/app/wsclient/client.go): one         *)
(* connection after the other, the queries they bring, the turns that run  *)
(* them and the results.  Goroutines: the reader (Run, dialAndServe,       *)
(* readPump and the commands it dispatches), a write pump per connection,  *)
(* one runTurn per started query, the goroutine shutdown leaves behind,    *)
(* and the forwarder of events, which may drop the connection.  A section  *)
(* under c.mu is one step, and so is every look at a channel or a context  *)
(* outside it.                                                             *)
(*                                                                         *)
(* Queries are numbered as they arrive.  The outbox is how many results    *)
(* wait in it: events, requests and error replies, which share it with     *)
(* them, are left out.  A dial that fails, and a handshake that does, is a *)
(* dial that has not happened yet.                                         *)
(***************************************************************************)
EXTENDS Naturals, Sequences

CONSTANTS
  NoTurn,         \* the nil channel or function, the empty id
  OutboxSize,     \* cap(outbox)
  MaxQueries,     \* bound: queries that arrive
  MaxConns,       \* bound: connections that get through the handshake
  MaxDisconnects  \* bound: calls of Disconnect

ASSUME ClientAssumption ==
  /\ OutboxSize \in Nat \ {0} /\ MaxQueries \in Nat
  /\ MaxConns \in Nat /\ MaxDisconnects \in Nat
  /\ NoTurn \notin Nat

VARIABLES
  conn,          \* the connection the reader serves or served last
  dead,          \* connections whose context has ended
  outbox,        \* results in the outbox
  arrived,       \* queries so far
  on,            \* the connection a query arrived on
  pc,            \* where a query is, and its turn's goroutine
  hand,          \* the dropped query a turn's goroutine is reporting
  current,       \* currentID
  cancelFn,      \* cancelTurn, as the turn it cancels
  watch,         \* connLost, as the turn it was made for
  turnDone,      \* turnDone, as the turn that closes it
  queued,        \* queued
  flushed,       \* flushed
  cancelled,     \* turns whose own context was cancelled
  lostClosed,    \* turns whose connLost is closed
  at,            \* where the reader and the forwarder are
  errand,        \* what the reader is doing with the turn
  held,          \* the turn a reader or forwarder took out from under c.mu
  shuttingDown,  \* shuttingDown
  ack,           \* the goroutine shutdown leaves behind
  grabbed,       \* the turn it waits for
  disconnects,   \* calls of Disconnect so far
  dropped,       \* history: queries that were queued when a flush came
  reports        \* history: results sent for a query

connVars == <<conn, dead>>
turnVars == <<current, cancelFn, watch, turnDone>>
readVars == <<at, errand, held>>
stopVars == <<shuttingDown, ack, grabbed>>
vars == <<connVars, outbox, arrived, on, pc, hand, turnVars, queued, flushed,
          cancelled, lostClosed, readVars, stopVars, disconnects, dropped,
          reports>>

Queries == 1 .. MaxQueries
Actors  == {"reader", "forwarder"}

\* A started query whose goroutine has not handed over yet.
Turning == {"running", "cleared", "answering",
            "draining", "dropping"}
Stages  == Turning \cup {"new", "queued", "refused", "forgotten", "popped", "done"}

ReaderAt == {"dialing", "serving", "holding", "refusing", "flush", "grab", "aim",
             "call", "close", "leaving", "exited", "panicked"}
ForwarderAt == {"idle", "close", "ending"}

Init ==
  /\ conn = 0 /\ dead = {} /\ outbox = 0
  /\ arrived = 0 /\ on = [q \in Queries |-> 0]
  /\ pc = [q \in Queries |-> "new"] /\ hand = [q \in Queries |-> NoTurn]
  /\ current = NoTurn /\ cancelFn = NoTurn /\ watch = NoTurn /\ turnDone = NoTurn
  /\ queued = <<>> /\ flushed = 0
  /\ cancelled = {} /\ lostClosed = {}
  /\ at = [reader |-> "dialing", forwarder |-> "idle"] /\ errand = "none"
  /\ held = [a \in Actors |-> NoTurn]
  /\ shuttingDown = FALSE /\ ack = "none" /\ grabbed = NoTurn
  /\ disconnects = 0 /\ dropped = {} /\ reports = [q \in Queries |-> 0]
-----------------------------------------------------------------------------
Alive == at["reader"] \notin {"exited", "panicked"}

CtxDone(q) == q \in cancelled \/ on[q] \in dead

Goto(a, here, there) == at[a] = here /\ at' = [at EXCEPT ![a] = there]

Move(q, here, there) == pc[q] = here /\ pc' = [pc EXCEPT ![q] = there]

\* startTurnLocked, but for the goroutine it starts.
Install(q) == current' = q /\ cancelFn' = q /\ watch' = q /\ turnDone' = q

\* send: a result reaches the outbox, or its connection's context is done.
Send(q) ==
  \/ /\ outbox < OutboxSize /\ outbox' = outbox + 1
     /\ reports' = [reports EXCEPT ![q] = @ + 1]
  \/ on[q] \in dead /\ UNCHANGED <<outbox, reports>>
-----------------------------------------------------------------------------
(* The reader: a connection, and the queries it brings.                    *)

Dial ==
  /\ conn < MaxConns /\ conn' = conn + 1
  /\ Goto("reader", "dialing", "serving")
  /\ UNCHANGED <<dead, outbox, arrived, on, pc, hand, turnVars, queued, flushed,
                 cancelled, lostClosed, errand, held, stopVars, disconnects,
                 dropped, reports>>

\* A message is read while the connection lasts, and dispatched even so.
Receive ==
  /\ conn \notin dead /\ Goto("reader", "serving", "holding")
  /\ UNCHANGED <<connVars, outbox, arrived, on, pc, hand, turnVars, queued, flushed,
                 cancelled, lostClosed, errand, held, stopVars, disconnects, dropped,
                 reports>>

\* Steer, Approve, Answer, SetModel, SetThinking: none of the client's state.
PassOn ==
  /\ Goto("reader", "holding", "serving")
  /\ UNCHANGED <<connVars, outbox, arrived, on, pc, hand, turnVars, queued, flushed,
                 cancelled, lostClosed, errand, held, stopVars, disconnects, dropped,
                 reports>>

Arrives(q) ==
  /\ q = arrived + 1 /\ q \in Queries
  /\ arrived' = q /\ on' = [on EXCEPT ![q] = conn]

Busy == current # NoTurn \/ queued # <<>>

QueryQueues(q) ==
  /\ Goto("reader", "holding", "serving") /\ Arrives(q) /\ Busy
  /\ Move(q, "new", "queued") /\ queued' = Append(queued, q)
  /\ UNCHANGED <<connVars, outbox, hand, turnVars, flushed, cancelled, lostClosed,
                 errand, held, stopVars, disconnects, dropped, reports>>

QueryStarts(q) ==
  /\ Goto("reader", "holding", "serving") /\ Arrives(q) /\ ~Busy /\ ~shuttingDown
  /\ Move(q, "new", "running") /\ Install(q)
  /\ UNCHANGED <<connVars, outbox, hand, queued, flushed, cancelled, lostClosed,
                 errand, held, stopVars, disconnects, dropped, reports>>

\* After a shutdown an idle client only reports the query.
QueryRefused(q) ==
  /\ Goto("reader", "holding", "refusing") /\ Arrives(q) /\ ~Busy /\ shuttingDown
  /\ Move(q, "new", "refused")
  /\ UNCHANGED <<connVars, outbox, hand, turnVars, queued, flushed, cancelled,
                 lostClosed, errand, held, stopVars, disconnects, dropped, reports>>

Refuses ==
  /\ Goto("reader", "refusing", "serving") /\ Send(arrived)
  /\ UNCHANGED <<connVars, arrived, on, pc, hand, turnVars, queued, flushed,
                 cancelled, lostClosed, errand, held, stopVars, disconnects, dropped>>
-----------------------------------------------------------------------------
(* The reader's errands.  A cancel flushes the queue and cancels the turn. *)
(* A shutdown takes note of the turn's end in between.  A loss closes the  *)
(* turn's watcher and empties the queue before it cancels.                 *)

Flush ==
  /\ flushed' = Len(queued)
  /\ dropped' = dropped \cup {queued[i] : i \in 1 .. Len(queued)}

CancelCommand ==
  /\ Goto("reader", "holding", "aim") /\ errand' = "cancel" /\ Flush
  /\ UNCHANGED <<connVars, outbox, arrived, on, pc, hand, turnVars, queued, cancelled,
                 lostClosed, held, stopVars, disconnects, reports>>

ShutdownCommand ==
  /\ ~shuttingDown /\ shuttingDown' = TRUE
  /\ Goto("reader", "holding", "flush") /\ errand' = "shutdown"
  /\ UNCHANGED <<connVars, outbox, arrived, on, pc, hand, turnVars, queued, flushed,
                 cancelled, lostClosed, held, ack, grabbed, disconnects, dropped,
                 reports>>

ShutdownFlushes ==
  /\ Goto("reader", "flush", "grab") /\ Flush
  /\ UNCHANGED <<connVars, outbox, arrived, on, pc, hand, turnVars, queued, cancelled,
                 lostClosed, errand, held, stopVars, disconnects, reports>>

GrabDone ==
  /\ Goto("reader", "grab", "aim") /\ grabbed' = turnDone
  /\ UNCHANGED <<connVars, outbox, arrived, on, pc, hand, turnVars, queued, flushed,
                 cancelled, lostClosed, errand, held, shuttingDown, ack, disconnects,
                 dropped, reports>>

\* cancelTurnContext reads the function under the lock and calls it after.
Aim ==
  /\ Goto("reader", "aim", "call")
  /\ held' = [held EXCEPT !["reader"] = cancelFn]
  /\ UNCHANGED <<connVars, outbox, arrived, on, pc, hand, turnVars, queued, flushed,
                 cancelled, lostClosed, errand, stopVars, disconnects, dropped, reports>>

Call ==
  /\ Goto("reader", "call", IF errand = "loss" THEN "leaving" ELSE "serving")
  /\ cancelled' = cancelled \cup ({held["reader"]} \ {NoTurn})
  /\ held' = [held EXCEPT !["reader"] = NoTurn]
  /\ ack' = IF errand = "shutdown" THEN "waiting" ELSE ack
  /\ errand' = "none"
  /\ UNCHANGED <<connVars, outbox, arrived, on, pc, hand, turnVars, queued, flushed,
                 lostClosed, shuttingDown, grabbed, disconnects, dropped, reports>>

Watched == watch \notin lostClosed \cup {NoTurn}

After(a) == IF a = "reader" THEN "aim" ELSE "ending"

\* Mutant: the queue is left alone.
MarkKeepsQueue(a, here) ==
  /\ Goto(a, here, IF Watched THEN "close" ELSE After(a))
  /\ held' = [held EXCEPT ![a] = IF Watched THEN watch ELSE NoTurn]
  /\ UNCHANGED <<pc, queued, flushed>>

(* markConnLost: the section under the lock and the look at the watcher;   *)
(* the close follows, and panics if somebody else was faster.              *)
Mark(a, here) ==
  /\ Goto(a, here, IF Watched THEN "close" ELSE After(a))
  /\ held' = [held EXCEPT ![a] = IF Watched THEN watch ELSE NoTurn]
  /\ pc' = [q \in Queries |-> IF pc[q] = "queued" THEN "forgotten" ELSE pc[q]]
  /\ queued' = <<>> /\ flushed' = 0

\* The read fails, because the connection broke or its context ended, or it
\* brings the plane's refusal.
ReadFails ==
  /\ Mark("reader", "serving") /\ errand' = "loss"
  /\ UNCHANGED <<connVars, outbox, arrived, on, hand, turnVars, cancelled, lostClosed,
                 stopVars, disconnects, dropped, reports>>

CloseWatch(a) ==
  /\ held[a] \notin lostClosed /\ lostClosed' = lostClosed \cup {held[a]}
  /\ held' = [held EXCEPT ![a] = NoTurn]
  /\ Goto(a, "close", After(a))
  /\ UNCHANGED <<connVars, outbox, arrived, on, pc, hand, turnVars, queued, flushed,
                 cancelled, errand, stopVars, disconnects, dropped, reports>>

CloseTwice(a) ==
  /\ at[a] = "close" /\ held[a] \in lostClosed
  /\ at' = [at EXCEPT !["reader"] = "panicked"]
  /\ UNCHANGED <<connVars, outbox, arrived, on, pc, hand, turnVars, queued, flushed,
                 cancelled, lostClosed, errand, held, stopVars, disconnects, dropped,
                 reports>>

\* dialAndServe returns.  Run ends after a shutdown or a refusal, and dials
\* again otherwise: it waits for the turn, but not for ever.
Leave ==
  /\ \/ Goto("reader", "leaving", "exited")
     \/ Goto("reader", "leaving", "dialing") /\ ~shuttingDown
  /\ dead' = dead \cup {conn}
  /\ UNCHANGED <<conn, outbox, arrived, on, pc, hand, turnVars, queued, flushed,
                 cancelled, lostClosed, errand, held, stopVars, disconnects, dropped,
                 reports>>
-----------------------------------------------------------------------------
(* The forwarder: Disconnect marks the loss and ends the context of the    *)
(* connection there is by then.                                            *)

Disconnect ==
  /\ disconnects < MaxDisconnects /\ disconnects' = disconnects + 1
  /\ Mark("forwarder", "idle")
  /\ UNCHANGED <<connVars, outbox, arrived, on, hand, turnVars, cancelled, lostClosed,
                 errand, stopVars, dropped, reports>>

\* connCtx is cleared when dialAndServe returns.
EndConn ==
  /\ Goto("forwarder", "ending", "idle")
  /\ dead' = IF at["reader"] = "dialing" THEN dead ELSE dead \cup {conn}
  /\ UNCHANGED <<conn, outbox, arrived, on, pc, hand, turnVars, queued, flushed,
                 cancelled, lostClosed, errand, held, stopVars, disconnects, dropped, reports>>
-----------------------------------------------------------------------------
(* The write pump.  One that is about to end may take a last message with  *)
(* it, as if its write had failed.                                         *)

Pumping == conn # 0 /\ conn \notin dead

Write ==
  /\ Pumping /\ outbox > 0 /\ outbox' = outbox - 1
  /\ UNCHANGED <<connVars, arrived, on, pc, hand, turnVars, queued, flushed, cancelled,
                 lostClosed, readVars, stopVars, disconnects, dropped, reports>>

WriteFails ==
  /\ Pumping /\ outbox > 0 /\ outbox' = outbox - 1
  /\ dead' = dead \cup {conn}
  /\ UNCHANGED <<conn, arrived, on, pc, hand, turnVars, queued, flushed, cancelled,
                 lostClosed, readVars, stopVars, disconnects, dropped, reports>>

\* The shutdown drains what is queued, as far as writing succeeds, and acks.
Ack ==
  /\ Pumping /\ ack = "requested" /\ ack' = "acked"
  /\ outbox' \in 0 .. outbox
  /\ dead' = dead \cup {conn}
  /\ UNCHANGED <<conn, arrived, on, pc, hand, turnVars, queued, flushed, cancelled,
                 lostClosed, readVars, shuttingDown, grabbed, disconnects, dropped,
                 reports>>

RequestAck ==
  /\ ack = "waiting" /\ ack' = "requested" /\ grabbed' = NoTurn
  /\ grabbed # NoTurn => pc[grabbed] = "done"
  /\ UNCHANGED <<connVars, outbox, arrived, on, pc, hand, turnVars, queued, flushed,
                 cancelled, lostClosed, readVars, shuttingDown, disconnects,
                 dropped, reports>>
-----------------------------------------------------------------------------
(* runTurn.                                                                *)

\* RunTurn returns, and the turn is the current one no more.
RunTurnReturns(q) ==
  /\ Move(q, "running", "cleared") /\ current' = NoTurn /\ cancelFn' = NoTurn
  /\ UNCHANGED <<connVars, outbox, arrived, on, hand, watch, turnDone, queued, flushed,
                 cancelled, lostClosed, readVars, stopVars, disconnects, dropped,
                 reports>>

(* The outcome is settled before the context is released.  A turn that was *)
(* cancelled and lost is kept for the next hello; any other is answered:   *)
(* cancelled, failed or completed.                                         *)
Classify(q) ==
  /\ Move(q, "cleared", IF q \in lostClosed /\ CtxDone(q) THEN "draining" ELSE "answering")
  /\ cancelled' = cancelled \ {q}
  /\ UNCHANGED <<connVars, outbox, arrived, on, hand, turnVars, queued, flushed,
                 lostClosed, readVars, stopVars, disconnects, dropped, reports>>

SendResult(q) ==
  /\ Move(q, "answering", "draining") /\ Send(q)
  /\ UNCHANGED <<connVars, arrived, on, hand, turnVars, queued, flushed, cancelled,
                 lostClosed, readVars, stopVars, disconnects, dropped>>

DropsNext == queued # <<>> /\ (flushed > 0 \/ shuttingDown)

PopDropped(q) ==
  /\ pc[q] = "draining" /\ DropsNext
  /\ queued' = Tail(queued) /\ flushed' = IF flushed > 0 THEN flushed - 1 ELSE 0
  /\ pc' = [pc EXCEPT ![q] = "dropping", ![Head(queued)] = "popped"]
  /\ hand' = [hand EXCEPT ![q] = Head(queued)]
  /\ UNCHANGED <<connVars, outbox, arrived, on, turnVars, cancelled, lostClosed,
                 readVars, stopVars, disconnects, dropped, reports>>

ReportDropped(q) ==
  /\ Move(q, "dropping", "draining") /\ Send(hand[q])
  /\ hand' = [hand EXCEPT ![q] = NoTurn]
  /\ UNCHANGED <<connVars, arrived, on, turnVars, queued, flushed, cancelled,
                 lostClosed, readVars, stopVars, disconnects, dropped>>

HandsOverNothing(q) ==
  /\ pc[q] = "draining" /\ queued = <<>>
  /\ Move(q, "draining", "done") /\ turnDone' = NoTurn
  /\ UNCHANGED <<connVars, outbox, arrived, on, hand, current, cancelFn, watch, queued,
                 flushed, cancelled, lostClosed, readVars, stopVars, disconnects,
                 dropped, reports>>

\* Mutant: the turn ends and leaves the queue to the next query.
HandsOverNobody(q) ==
  /\ pc[q] = "draining" /\ queued # <<>> /\ ~DropsNext
  /\ Move(q, "draining", "done") /\ turnDone' = NoTurn
  /\ UNCHANGED <<connVars, outbox, arrived, on, hand, current, cancelFn, watch, queued,
                 flushed, cancelled, lostClosed, readVars, stopVars, disconnects,
                 dropped, reports>>

HandsOver(q) ==
  /\ pc[q] = "draining" /\ queued # <<>> /\ ~DropsNext
  /\ queued' = Tail(queued)
  /\ pc' = [pc EXCEPT ![q] = "done", ![Head(queued)] = "running"]
  /\ Install(Head(queued))
  /\ UNCHANGED <<connVars, outbox, arrived, on, hand, flushed, cancelled, lostClosed,
                 readVars, stopVars, disconnects, dropped, reports>>
-----------------------------------------------------------------------------
LossStep(a) == CloseWatch(a) \/ CloseTwice(a)

Dispatch ==
  \/ PassOn \/ CancelCommand \/ ShutdownCommand
  \/ \E q \in Queries : QueryQueues(q) \/ QueryStarts(q) \/ QueryRefused(q)

ReaderStep ==
  \/ Dispatch \/ Refuses \/ ShutdownFlushes \/ GrabDone \/ Aim \/ Call \/ Leave
  \/ LossStep("reader")

ForwarderStep == LossStep("forwarder") \/ EndConn

PumpStep == Write \/ WriteFails \/ Ack

TurnStep(q) ==
  \/ RunTurnReturns(q) \/ Classify(q)
  \/ SendResult(q) \/ PopDropped(q) \/ ReportDropped(q)
  \/ HandsOverNothing(q) \/ HandsOver(q)

Next ==
  /\ Alive
  /\ \/ Dial \/ Receive \/ ReadFails \/ Disconnect
     \/ ReaderStep \/ ForwarderStep \/ RequestAck
     \/ PumpStep
     \/ \E q \in Queries : TurnStep(q)

(* Every goroutine keeps going: the turns, which return when they are      *)
(* done or cancelled, the pumps, and the reader on its errands, which      *)
(* notices that its context has ended.                                     *)
Spec ==
  /\ Init /\ [][Next]_vars
  /\ WF_vars(Alive /\ ReaderStep) /\ WF_vars(Alive /\ conn \in dead /\ ReadFails)
  /\ WF_vars(Alive /\ ForwarderStep) /\ WF_vars(Alive /\ RequestAck)
  /\ WF_vars(Alive /\ PumpStep)
  /\ \A q \in Queries : WF_vars(Alive /\ TurnStep(q))
-----------------------------------------------------------------------------
TypeOK ==
  /\ conn \in 0 .. MaxConns /\ dead \subseteq 1 .. MaxConns
  /\ outbox \in 0 .. OutboxSize
  /\ arrived \in 0 .. MaxQueries /\ on \in [Queries -> 0 .. MaxConns]
  /\ pc \in [Queries -> Stages]
  /\ hand \in [Queries -> Queries \cup {NoTurn}]
  /\ {current, cancelFn, watch, turnDone, grabbed} \subseteq Queries \cup {NoTurn}
  /\ queued \in Seq(Queries) /\ flushed \in 0 .. Len(queued)
  /\ cancelled \subseteq Queries /\ lostClosed \subseteq Queries
  /\ at \in [reader : ReaderAt, forwarder : ForwarderAt]
  /\ errand \in {"none", "cancel", "shutdown", "loss"}
  /\ held \in [Actors -> Queries \cup {NoTurn}]
  /\ shuttingDown \in BOOLEAN /\ ack \in {"none", "waiting", "requested", "acked"}
  /\ disconnects \in 0 .. MaxDisconnects /\ dropped \subseteq Queries
  /\ reports \in [Queries -> Nat]

(* A query that waits has a turn before it that will look at the queue.    *)
NoQueryStranded == queued # <<>> => \E q \in Queries : pc[q] \in Turning

(* No query has two results, whoever reports it.                           *)
OneResultEach == \A q \in Queries : reports[q] <= 1

(* "Queries arriving later are unaffected": what a cancel or a shutdown    *)
(* found queued, and nothing behind it, is what the flush drops, and none  *)
(* of it runs.                                                             *)
FlushIsExact ==
  /\ \A i \in 1 .. Len(queued) : queued[i] \in dropped <=> i <= flushed
  /\ \A q \in dropped : pc[q] \in {"queued", "popped", "forgotten"}

(* Queued queries of a lost connection "never run on the next connection". *)
StaleNeverStarts ==
  [][\A q \in Queries : pc[q] # "running" /\ pc'[q] = "running" => on'[q] = conn]_vars

(* Once a shutdown has been dispatched no turn starts, from the queue or   *)
(* from a query that arrives later.                                        *)
ShutdownIsFinal ==
  [][shuttingDown =>
       \A q \in Queries : pc'[q] = "running" => pc[q] = "running"]_vars

Settled(q) == reports[q] > 0 \/ on[q] \in dead \/ ~Alive

(* Every query that arrives is answered, or its connection is lost: no     *)
(* query stays open.                                                       *)
QueryIsAnswered == []<>(\A q \in 1 .. arrived : Settled(q))

(* A shutdown ends the process.                                            *)
ShutdownEnds == shuttingDown ~> ~Alive

(* "One active turn per agent process."                                    *)
OneTurn == \A q, r \in Queries : pc[q] = "running" /\ pc[r] = "running" => q = r

(* No query is stranded behind nobody, none is reported twice, and a flush *)
(* drops exactly what it found.                                            *)
ClientIsSound == TypeOK /\ NoQueryStranded /\ OneResultEach /\ FlushIsExact

(* No turn starts for a connection that is gone or after a shutdown.       *)
NothingStartsLate == StaleNeverStarts /\ ShutdownIsFinal

(* Every query is answered or its connection lost, and a shutdown ends.    *)
ClientMovesOn == QueryIsAnswered /\ ShutdownEnds
=============================================================================
