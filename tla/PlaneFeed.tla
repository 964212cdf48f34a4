----------------------------- MODULE PlaneFeed -----------------------------
(***************************************************************************)
(* What a turn sends to the control plane besides its result               *)
(* (cmd/app/connect.go): its events cross the bus, a relay, an unbounded   *)
(* backlog and a forwarder into the outbox of internal/app/wsclient, where *)
(* a write pump per connection takes them; the forwarder tallies them, and *)
(* a finished turn has them flushed before it reads its tally and reports. *)
(* Questions to the user go straight to the outbox, answers come back by   *)
(* the id they quote.                                                      *)
(*                                                                         *)
(* WsClient models the queue of queries and the ways a turn is cancelled;  *)
(* here a query is one turn, and a lost connection is one thing.           *)
(***************************************************************************)
EXTENDS Naturals, Sequences, SequencesExt, FiniteSets

CONSTANTS
  BusRoom,     \* the subscription's buffer
  BacklogCap,  \* connectBacklogCap
  OutboxRoom,  \* cap(outbox)
  Kinds,       \* the events of a turn: denials, approval requests, others
  MaxTurns,    \* bound: queries
  MaxEvents,   \* bound: what turns emit, all together
  MaxFeeds     \* bound: connections

ASSUME FeedAssumption ==
  /\ Kinds \subseteq {"plain", "denied", "approval"}
  /\ {BusRoom, BacklogCap, OutboxRoom, MaxTurns, MaxEvents, MaxFeeds} \subseteq Nat \ {0}

VARIABLES
  socket,   \* number of the connection served last, and whether its context is open
  reader,   \* "dialing", "serving", "lost", "ending" or "leaving"
  ctx,      \* ConnContext: a connection, or Background
  outgoing, \* messages for the write pump
  written,  \* history: what the pumps wrote, with their connection
  turns,    \* queries so far
  running,  \* the running turn, Idle
  phase,    \* where its goroutine is
  bound,    \* the connection each turn's context comes from
  lost,     \* the running turn's connLost is closed
  cut,      \* cancelTurnContext has cancelled the running turn's context
  late,     \* history: turns that reported although lost
  emitted,  \* history: the events of each turn
  holed,    \* history: turns whose events the bus or the relay dropped
  channel,  \* the subscription
  backlog,  \* eventQueue
  relay,    \* "moving", "dropping" or "ending"
  fwd,      \* what the forwarder has in hand
  tally,    \* turnStats: denials
  report,   \* the tally a finished turn took
  pending   \* turns with a responder in the approval registry

feedVars == <<socket, reader, ctx, outgoing, written, turns, running, phase, bound, lost, cut,
              late, emitted, holed, channel, backlog, relay, fwd, tally, report, pending>>
lineVars == <<socket, reader, ctx>>
runVars == <<turns, running, phase, bound, lost, cut, late, emitted, holed>>
pipeVars == <<channel, backlog, relay, fwd>>
tallyVars == <<tally, report>>

Idle       == 0
Background == 0
Marker     == [kind |-> "flush", turn |-> 0]
Empty      == [step |-> "pop", turn |-> 0, via |-> 0]
Connected  == socket.life = "open"
Closed     == [n |-> socket.n, life |-> "over"]

FeedInit ==
  /\ socket = [n |-> 0, life |-> "over"] /\ reader = "dialing" /\ ctx = Background
  /\ outgoing = <<>> /\ written = <<>>
  /\ turns = 0 /\ running = Idle /\ phase = "idle" /\ bound = [t \in 1..MaxTurns |-> 0]
  /\ lost = FALSE /\ cut = FALSE /\ late = {}
  /\ emitted = [t \in 1..MaxTurns |-> <<>>] /\ holed = {}
  /\ channel = <<>> /\ backlog = <<>> /\ relay = "moving" /\ fwd = Empty
  /\ tally = 0 /\ report = 0 /\ pending = {}

Over(c)   == c # Background /\ ~(socket.n = c /\ Connected)
TurnOver  == cut \/ Over(bound[turns])
Live(t)   == t # Idle /\ t = running /\ ~lost
Spare     == Len(FlattenSeq(emitted)) < MaxEvents
Holding(q, m) == m \in Range(q)
-----------------------------------------------------------------------------
(* The connection: the reader dials, finds it lost, marks the turn,        *)
(* cancels it, resets the tally and leaves; the pump writes, or fails.     *)
DialPlane ==
  /\ reader = "dialing" /\ socket.n < MaxFeeds
  /\ socket' = [n |-> socket.n + 1, life |-> "open"]
  /\ ctx' = socket.n + 1 /\ reader' = "serving"
  /\ UNCHANGED <<outgoing, written, runVars, pipeVars, tallyVars, pending>>

MarkConnLost == lost' = (running # Idle)

(* The last connection stays up, so that what must happen can.             *)
ReadBreaks ==
  /\ reader = "serving" /\ (socket.n < MaxFeeds \/ ~Connected)
  /\ reader' = "lost" /\ MarkConnLost
  /\ UNCHANGED <<socket, ctx, outgoing, written, turns, running, phase, bound, cut, late, emitted, holed,
                 pipeVars, tallyVars, pending>>

CancelsTurn ==
  /\ reader = "lost" /\ reader' = "ending" /\ cut' = (running # Idle)
  /\ UNCHANGED <<socket, ctx, outgoing, written, turns, running, phase, bound, lost, late, emitted, holed,
                 pipeVars, tallyVars, pending>>

OnDisconnect ==
  /\ reader = "ending" /\ reader' = "leaving" /\ tally' = 0
  /\ UNCHANGED <<socket, ctx, outgoing, written, runVars, pipeVars, report, pending>>

ReaderLeaves ==
  /\ reader = "leaving" /\ reader' = "dialing"
  /\ socket' = Closed /\ ctx' = Background
  /\ UNCHANGED <<outgoing, written, runVars, pipeVars, tallyVars, pending>>

PumpWrites ==
  /\ Connected /\ outgoing # <<>>
  /\ outgoing' = Tail(outgoing)
  /\ written' = Append(written, [conn |-> socket.n, message |-> Head(outgoing)])
  /\ UNCHANGED <<lineVars, runVars, pipeVars, tallyVars, pending>>

(* The plane does not read, and the write times out.                       *)
PumpFails ==
  /\ Connected /\ outgoing # <<>> /\ socket.n < MaxFeeds
  /\ outgoing' = Tail(outgoing) /\ socket' = Closed
  /\ UNCHANGED <<reader, ctx, written, runVars, pipeVars, tallyVars, pending>>
-----------------------------------------------------------------------------
(* A turn.                                                                 *)
QueryArrives ==
  /\ reader = "serving" /\ Connected /\ running = Idle /\ phase = "idle" /\ turns < MaxTurns
  /\ turns' = turns + 1 /\ running' = turns + 1 /\ bound' = [bound EXCEPT ![turns + 1] = socket.n]
  /\ lost' = FALSE /\ phase' = "starting"
  /\ UNCHANGED <<lineVars, outgoing, written, cut, late, emitted, holed, pipeVars, tallyVars, pending>>

(* runConnectTurn's stats.reset.                                           *)
BeginTurn ==
  /\ phase = "starting" /\ phase' = "running" /\ tally' = 0
  /\ UNCHANGED <<lineVars, outgoing, written, turns, running, bound, lost, cut, late, emitted, holed,
                 pipeVars, report, pending>>

(* The bus drops what its subscriber has no room for.                      *)
Emit(kind) ==
  /\ phase = "running" /\ Spare
  /\ kind = "approval" => ~Holding(emitted[running], "approval")
  /\ emitted' = [emitted EXCEPT ![running] = Append(@, kind)]
  /\ IF Len(channel) < BusRoom
       THEN channel' = Append(channel, [kind |-> kind, turn |-> running]) /\ UNCHANGED holed
       ELSE holed' = holed \cup {running} /\ UNCHANGED channel
  /\ phase' = IF kind = "approval" THEN "gated" ELSE "running"
  /\ UNCHANGED <<lineVars, outgoing, written, turns, running, bound, lost, cut, late, backlog, relay, fwd,
                 tallyVars, pending>>

(* The gate gives up: its timeout, or the turn was cancelled.  The         *)
(* responder stays registered.                                             *)
GateEnds ==
  /\ phase = "gated" /\ phase' = "running"
  /\ UNCHANGED <<lineVars, outgoing, written, turns, running, bound, lost, cut, late, emitted, holed,
                 pipeVars, tallyVars, pending>>

(* The plane's approve, and what answerApproval does with it.              *)
Asked(t) == \E i \in DOMAIN written : written[i].message = [kind |-> "ask", turn |-> t, denied |-> 0]

Approve(t) ==
  /\ reader = "serving" /\ Connected /\ Asked(t) /\ t \in pending
  /\ pending' = pending \ {t}
  /\ phase' = IF t = running /\ phase = "gated" THEN "running" ELSE phase
  /\ UNCHANGED <<lineVars, outgoing, written, turns, running, bound, lost, cut, late, emitted, holed,
                 pipeVars, tallyVars>>

(* ask_user: the turn itself sends, and waits for the answer or its end.   *)
AskUser ==
  /\ phase = "running" /\ ~Holding(emitted[running], "question") /\ Spare
  /\ \/ /\ Live(running) /\ Len(outgoing) < OutboxRoom
        /\ outgoing' = Append(outgoing, [kind |-> "question", turn |-> running, denied |-> 0])
     \/ (~Live(running) \/ Over(ctx)) /\ UNCHANGED outgoing
  /\ emitted' = [emitted EXCEPT ![running] = Append(@, "question")]
  /\ phase' = "asking"
  /\ UNCHANGED <<lineVars, written, turns, running, bound, lost, cut, late, holed, pipeVars, tallyVars, pending>>

Answer ==
  /\ phase = "asking"
  /\ \/ /\ reader = "serving" /\ Connected
        /\ \E i \in DOMAIN written :
             written[i].message = [kind |-> "question", turn |-> running, denied |-> 0]
     \/ TurnOver
  /\ phase' = "running"
  /\ UNCHANGED <<lineVars, outgoing, written, turns, running, bound, lost, cut, late, emitted, holed,
                 pipeVars, tallyVars, pending>>

EndTurn ==
  /\ phase = "running" /\ phase' = "flushing"
  /\ UNCHANGED <<lineVars, outgoing, written, turns, running, bound, lost, cut, late, emitted, holed,
                 pipeVars, tallyVars, pending>>

(* Flushed, the turn takes its tally; runTurn clears currentID and keeps   *)
(* the result to itself, for the next hello, only of a turn that is both   *)
(* cancelled and lost.                                                     *)
Withheld == TurnOver /\ lost

Report ==
  /\ phase = "flushed"
  /\ running' = Idle /\ phase' = IF Withheld THEN "idle" ELSE "reporting"
  /\ report' = (IF Withheld THEN 0 ELSE tally) /\ lost' = FALSE /\ cut' = FALSE
  /\ late' = IF lost /\ ~Withheld THEN late \cup {turns} ELSE late
  /\ UNCHANGED <<lineVars, outgoing, written, turns, bound, emitted, holed, pipeVars, tally,
                 pending>>

ReportTurn ==
  /\ phase = "reporting"
  /\ \/ /\ Len(outgoing) < OutboxRoom
        /\ outgoing' = Append(outgoing, [kind |-> "result", turn |-> turns, denied |-> report])
     \/ Over(bound[turns]) /\ UNCHANGED outgoing
  /\ phase' = "idle" /\ report' = 0
  /\ UNCHANGED <<lineVars, written, turns, running, bound, lost, cut, late, emitted, holed, pipeVars, tally,
                 pending>>
-----------------------------------------------------------------------------
(* relayConnectEvents: one event, or a flush with all the channel holds;   *)
(* past the cap the backlog goes, and then the connection.                 *)

Queued(q) ==
  IF Len(q) > BacklogCap
    THEN /\ backlog' = <<>> /\ relay' = "dropping"
         /\ holed' = holed \cup {q[i].turn : i \in {j \in DOMAIN q : q[j] # Marker}}
         /\ phase' = IF Holding(q, Marker) THEN "flushed" ELSE phase
    ELSE /\ backlog' = q /\ relay' = "moving" /\ UNCHANGED holed
         /\ phase' = IF phase = "flushing" /\ Holding(q, Marker) THEN "waiting" ELSE phase

MoveOn ==
  /\ relay = "moving" /\ channel # <<>>
  /\ channel' = Tail(channel) /\ Queued(Append(backlog, Head(channel)))
  /\ UNCHANGED <<lineVars, outgoing, written, turns, running, bound, lost, cut, late, emitted, fwd, tallyVars,
                 pending>>

(* Mutant: the flush overtakes what the channel holds.                     *)
NothingDrained == 0

Drained == Len(channel)

FlushPipe ==
  /\ relay = "moving" /\ phase = "flushing"
  /\ channel' = SubSeq(channel, Drained + 1, Len(channel))
  /\ Queued(Append(backlog \o SubSeq(channel, 1, Drained), Marker))
  /\ UNCHANGED <<lineVars, outgoing, written, turns, running, bound, lost, cut, late, emitted, fwd, tallyVars,
                 pending>>

(* Disconnect: the turn is marked, then the connection ended.              *)
DropsConnection ==
  /\ \/ relay = "dropping" /\ relay' = "ending" /\ MarkConnLost /\ UNCHANGED socket
     \/ relay = "ending" /\ relay' = "moving" /\ socket' = Closed /\ UNCHANGED lost
  /\ UNCHANGED <<reader, ctx, outgoing, written, turns, running, phase, bound, cut, late, emitted, holed,
                 channel, backlog, fwd, tallyVars, pending>>
-----------------------------------------------------------------------------
(* forwardConnectEvents.  Running, ConnContext and turnLive are read one   *)
(* after the other, without a lock around them.                            *)
At(step, turn, via) == [step |-> step, turn |-> turn, via |-> via]

Observe(ev) ==
  /\ tally' = IF ev.kind = "denied" THEN tally + 1 ELSE tally
  /\ pending' = IF ev.kind = "approval" THEN pending \cup {ev.turn} ELSE pending

Pop ==
  /\ fwd.step = "pop" /\ backlog # <<>> /\ backlog' = Tail(backlog)
  /\ LET ev == Head(backlog)
     IN IF ev = Marker
          THEN phase' = "flushed" /\ UNCHANGED <<fwd, tally, pending>>
          ELSE /\ fwd' = At(IF ev.kind = "approval" THEN "asks" ELSE "event", ev.turn, Background)
               /\ Observe(ev) /\ UNCHANGED phase
  /\ UNCHANGED <<lineVars, outgoing, written, turns, running, bound, lost, cut, late, emitted, holed, channel,
                 relay, report>>

(* RequestApproval: the turn is live, then the context.                    *)
RequestApproval ==
  /\ \/ /\ fwd.step = "asks"
        /\ fwd' = IF Live(running) THEN At("context", running, fwd.via) ELSE At("event", fwd.turn, fwd.via)
     \/ fwd.step = "context" /\ fwd' = At("ask", fwd.turn, ctx)
  /\ UNCHANGED <<lineVars, outgoing, written, runVars, channel, backlog, relay, tallyVars, pending>>

(* SendEvent: the context, then the turn is live.                          *)
ForwardEvent ==
  /\ \/ /\ fwd.step = "event"
        /\ fwd' = IF running = Idle THEN Empty
                  ELSE At("check", running, ctx)
     \/ /\ fwd.step = "check"
        /\ fwd' = IF Live(fwd.turn) THEN At("send", fwd.turn, fwd.via) ELSE Empty
  /\ UNCHANGED <<lineVars, outgoing, written, runVars, channel, backlog, relay, tallyVars, pending>>

(* A send takes whichever is ready, the outbox or the end of the context.  *)
Sends(step, kind, next) ==
  /\ fwd.step = step
  /\ \/ /\ Len(outgoing) < OutboxRoom
        /\ outgoing' = Append(outgoing, [kind |-> kind, turn |-> fwd.turn, denied |-> 0])
     \/ Over(fwd.via) /\ UNCHANGED outgoing
  /\ fwd' = next
  /\ UNCHANGED <<lineVars, written, runVars, channel, backlog, relay, tallyVars, pending>>

SendAsk   == Sends("ask", "ask", At("event", fwd.turn, Background))
SendEvent == Sends("send", "event", Empty)

Forward == Pop \/ RequestApproval \/ ForwardEvent \/ SendAsk \/ SendEvent
-----------------------------------------------------------------------------
FeedNext ==
  \/ DialPlane \/ ReadBreaks \/ CancelsTurn \/ OnDisconnect \/ ReaderLeaves \/ PumpWrites \/ PumpFails
  \/ QueryArrives \/ BeginTurn \/ (\E kind \in Kinds : Emit(kind)) \/ GateEnds
  \/ (\E t \in 1..MaxTurns : Approve(t)) \/ AskUser \/ Answer \/ EndTurn
  \/ Report \/ ReportTurn
  \/ MoveOn \/ FlushPipe \/ DropsConnection \/ Forward

FeedSpec == FeedInit /\ [][FeedNext]_feedVars

(* The goroutines run, the plane can be dialled, a read on a connection    *)
(* whose context has ended fails, and a gate has a timeout.  A question    *)
(* has none: the user's answer, or the end of the turn, is assumed, and so *)
(* is that the turn's model answers or fails (EndTurn).                    *)
Reader == DialPlane \/ (~Connected /\ ReadBreaks) \/ CancelsTurn \/ OnDisconnect \/ ReaderLeaves
Turn   == BeginTurn \/ GateEnds \/ Answer \/ EndTurn \/ Report \/ ReportTurn
Pump   == PumpWrites \/ PumpFails
Relay  == MoveOn \/ FlushPipe \/ DropsConnection

FeedFairness ==
  WF_feedVars(Reader) /\ WF_feedVars(Pump) /\ WF_feedVars(Turn) /\ WF_feedVars(Relay) /\ WF_feedVars(Forward)

FeedLiveSpec == FeedSpec /\ FeedFairness
-----------------------------------------------------------------------------
FeedTypeOK ==
  /\ socket \in [n : 0..MaxFeeds, life : {"open", "over"}] /\ ctx \in 0..MaxFeeds
  /\ reader \in {"dialing", "serving", "lost", "ending", "leaving"}
  /\ late \subseteq 1..turns
  /\ Len(outgoing) <= OutboxRoom /\ turns \in 0..MaxTurns /\ running \in {Idle, turns}
  /\ phase \in {"idle", "starting", "running", "gated", "asking", "flushing", "waiting",
                "flushed", "reporting"}
  /\ Len(channel) <= BusRoom /\ Len(backlog) <= BacklogCap
  /\ relay \in {"moving", "dropping", "ending"} /\ pending \subseteq 1..MaxTurns

(* "a finished turn's events are all in ch by then and go out before its   *)
(* result" (connect.go:281-283), and they are counted in it: on its own    *)
(* connection a result follows every event of its turn, none follows it,   *)
(* and its tally is that turn's, unless the bus or the cap dropped some,   *)
(* or the connection was found lost while the turn ran.  After the cap     *)
(* has, the forwarder may hold an event of a turn that is over, and tags   *)
(* it with the turn that runs by then.                                     *)
Emitted(t, kinds) == Cardinality({n \in DOMAIN emitted[t] : emitted[t][n] \in kinds})

ReportIsWhole ==
  \A i \in DOMAIN written :
    LET m    == written[i].message
        here == {j \in DOMAIN written : written[j].message.kind = "event" /\ written[j].message.turn = m.turn}
        owed == m.kind = "result" /\ written[i].conn = bound[m.turn] /\ m.turn \notin late
    IN owed /\ (1 .. m.turn) \cap holed = {} =>
         /\ Cardinality(here) = Emitted(m.turn, Kinds) /\ \A j \in here : j < i
         /\ m.denied = Emitted(m.turn, {"denied"})

(* Not so of this code: a turn that ends between markConnLost and the      *)
(* cancellation after it reports, on a connection that still writes, what  *)
(* turnLive no longer lets its events through.                             *)
LostIsWithheld == late = {}

(* Whatever becomes of the connection and of the backlog, a turn ends (the *)
(* next begins only when none runs), as long as the plane can be dialled   *)
(* again: a forwarder that asks for an approval between two connections    *)
(* waits for the next one, and a flush for the forwarder.                  *)
PlaneIsGone == reader = "dialing" /\ socket.n = MaxFeeds

TurnsEnd == []<>(running = Idle \/ PlaneIsGone)

(* "a turn cancelled by a disconnect keeps running briefly, and nothing it *)
(* emits may reach a newer connection" (wsclient/client.go:244-245).       *)
NothingCrosses == \A i \in DOMAIN written : written[i].conn = bound[written[i].message.turn]

(* What the plane is told of a turn is all there was.                      *)
FeedIsWhole == FeedTypeOK /\ ReportIsWhole
=============================================================================
