---------------------------- MODULE EventStream ----------------------------
(***************************************************************************)
(* How the harness's events reach the browsers: the server's forwarder     *)
(* takes them off its bus channel (api/events.go), keeps the approvals,    *)
(* the agents' labels and the running costs (api/costs), and the           *)
(* broadcaster (api/sse) copies what is published to every open stream;    *)
(* text deltas and turn outcomes are published past the forwarder, and log *)
(* lines have a broadcaster of their own (internal/app/logsse.go).  Each   *)
(* publish is one step: no property compares the streams of two clients.   *)
(***************************************************************************)
EXTENDS Integers, Sequences, FiniteSets

CONSTANTS
  Followers,    \* clients of GET /events and of GET /debug
  ServerBuffer, \* the server's bus channel holds 256
  ClientBuffer, \* a client's holds 128, or 256 lines of the log
  MaxBusEvents  \* bound

ASSUME StreamAssumption ==
  /\ ServerBuffer \in Nat \ {0} /\ ClientBuffer \in Nat \ {0} /\ MaxBusEvents \in Nat

(* Events of a subagent's life, calls that ask for approval, the model's   *)
(* responses, and those that are not for the clients.                      *)
EventKinds == {"started", "tool", "stopped", "approval", "response", "internal"}
Forwarded  == EventKinds \ {"internal"}

VARIABLES
  published,  \* events so far
  subagent,   \* the subagent's run: "idle" or "running"
  busChannel, \* the bus channel of the forwarder
  missed,     \* history: a "started" was dropped from it
  job, progress, \* the event the forwarder works on, and what is done of it
  label,      \* its map has the subagent's label
  added,      \* approvals.Add has been called for these
  tracked,    \* costs: responses tracked since the last Reset
  fresh,      \* history: responses emitted since the conversation changed
  clearing,   \* a /clear has changed the conversation, and resets the costs next
  follows,    \* what each client asked for: "events" or "debug"
  open,       \* the clients that stream
  buffer,     \* of each client: frames
  writing,    \* the clients whose handler writes a frame
  newest,     \* history: the last frame of the forwarder each client was sent
  done        \* Close was called on the broadcasters

streamVars == <<published, subagent, busChannel, missed, job, progress, label, added, tracked, fresh,
                clearing, follows, open, buffer, writing, newest, done>>
busSide    == <<published, subagent, busChannel, missed>>
serverSide == <<job, progress, label, added, tracked>>
clientSide == <<follows, open, buffer, writing, newest, done>>
costSide   == <<fresh, clearing>>

NoEvent == [n |-> 0, kind |-> "none"]

StreamInit ==
  /\ published = 0 /\ subagent = "idle" /\ busChannel = <<>> /\ missed = FALSE
  /\ job = NoEvent /\ progress = "idle" /\ label = FALSE /\ added = {} /\ tracked = 0
  /\ fresh = 0 /\ clearing = FALSE
  /\ follows \in [Followers -> {"events", "debug"}] /\ open = {}
  /\ buffer = [c \in Followers |-> <<>>] /\ writing = {} /\ newest = [c \in Followers |-> 0]
  /\ done = FALSE
-----------------------------------------------------------------------------
BusEvent(n, kind) == [n |-> n, kind |-> kind]

(* The bus drops what the channel has no room for.                         *)
BusEmit(kind) ==
  /\ published < MaxBusEvents /\ published' = published + 1
  /\ CASE kind = "started" -> subagent = "idle" /\ subagent' = "running"
       [] kind \in {"tool", "stopped"} ->
            subagent = "running" /\ subagent' = IF kind = "stopped" THEN "idle" ELSE subagent
       [] OTHER -> UNCHANGED subagent
  /\ LET room == Len(busChannel) < ServerBuffer
     IN /\ busChannel' = IF room THEN Append(busChannel, BusEvent(published + 1, kind)) ELSE busChannel
        /\ missed' = (missed \/ (kind = "started" /\ ~room))
  /\ fresh' = IF kind = "response" THEN fresh + 1 ELSE fresh
  /\ UNCHANGED <<serverSide, clientSide, clearing>>

(* The clients of the events, a frame for each that has room.              *)
Frame(n, what, agent) == [n |-> n, what |-> what, agent |-> agent]

To(clients, frame) ==
  buffer' = [c \in Followers |-> IF c \in clients \cap open /\ Len(buffer[c]) < ClientBuffer
                                 THEN Append(buffer[c], frame) ELSE buffer[c]]

Viewers    == {c \in Followers : follows[c] = "events"}
LogViewers == Followers \ Viewers

Publish(frame) == To(Viewers, frame)

(* TextDelta, ThinkingDelta and the queue's outcomes; and the lines of the *)
(* log.                                                                    *)
PublishRaw ==
  /\ Publish(Frame(0, "delta", FALSE))
  /\ UNCHANGED <<busSide, serverSide, costSide, follows, open, writing, newest, done>>

WriteLog ==
  /\ To(LogViewers, Frame(0, "log", FALSE))
  /\ UNCHANGED <<busSide, serverSide, costSide, follows, open, writing, newest, done>>
-----------------------------------------------------------------------------
(* The forwarder.                                                          *)
Take ==
  /\ progress = "idle" /\ busChannel # <<>>
  /\ job' = Head(busChannel) /\ busChannel' = Tail(busChannel) /\ progress' = "taken"
  /\ UNCHANGED <<published, subagent, missed, label, added, tracked, costSide, clientSide>>

Observed ==
  /\ label' = CASE job.kind = "started" -> TRUE [] job.kind = "stopped" -> FALSE
                [] OTHER -> label
  /\ added' = IF job.kind = "approval" THEN added \cup {job.n} ELSE added
  /\ tracked' = IF job.kind = "response" THEN tracked + 1 ELSE tracked

Labelled == job.kind \in {"tool", "approval"} /\ label

(* Mutant: the event is published before it is observed.                   *)
ObservePublishing ==
  /\ progress = "taken" /\ progress' = "observed"
  /\ Publish(Frame(job.n, job.kind, Labelled))
  /\ UNCHANGED <<busSide, job, label, added, tracked, costSide, follows, open, writing, newest, done>>

ObserveJob ==
  /\ progress = "taken" /\ progress' = "observed" /\ Observed
  /\ UNCHANGED <<busSide, job, costSide, clientSide>>

Forgets == job' = NoEvent /\ progress' = "idle"

ForwardJob ==
  /\ progress = "observed"
  /\ IF job.kind \in Forwarded THEN Publish(Frame(job.n, job.kind, Labelled)) ELSE UNCHANGED buffer
  /\ IF job.kind = "response" THEN progress' = "totals" /\ UNCHANGED job ELSE Forgets
  /\ UNCHANGED <<busSide, label, added, tracked, costSide, follows, open, writing, newest, done>>

(* The totals ride behind every response.                                  *)
Totals ==
  /\ progress = "totals" /\ Publish(Frame(job.n, "cost", FALSE)) /\ Forgets
  /\ UNCHANGED <<busSide, label, added, tracked, costSide, follows, open, writing, newest, done>>

(* POST /clear and /resume: the conversation first, the costs a step later.*)
Clear ==
  /\ subagent = "idle" /\ ~clearing /\ clearing' = TRUE /\ fresh' = 0
  /\ UNCHANGED <<busSide, serverSide, clientSide>>

Reset ==
  /\ clearing /\ clearing' = FALSE /\ tracked' = 0
  /\ UNCHANGED <<busSide, job, progress, label, added, fresh, clientSide>>
-----------------------------------------------------------------------------
(* ServeHTTP: subscribe, then a frame at a time until the client goes away *)
(* or the broadcaster is closed.  It looks at neither while it writes.     *)
Connect(c) ==
  /\ c \notin open /\ open' = open \cup {c}
  /\ newest' = [newest EXCEPT ![c] = 0]
  /\ UNCHANGED <<busSide, serverSide, costSide, follows, buffer, writing, done>>

Show(c) ==
  /\ c \in open \ writing /\ buffer[c] # <<>> /\ writing' = writing \cup {c}
  /\ buffer' = [buffer EXCEPT ![c] = Tail(@)]
  /\ newest' = [newest EXCEPT ![c] = IF Head(buffer[c]).n > @ THEN Head(buffer[c]).n ELSE @]
  /\ UNCHANGED <<busSide, serverSide, costSide, follows, open, done>>

(* The connection had room for the frame, once the client has read enough. *)
Written(c) ==
  /\ c \in writing /\ writing' = writing \ {c}
  /\ UNCHANGED <<busSide, serverSide, costSide, follows, open, buffer, newest, done>>

Unsubscribed(c) ==
  /\ open' = open \ {c} /\ writing' = writing \ {c} /\ buffer' = [buffer EXCEPT ![c] = <<>>]
  /\ newest' = [newest EXCEPT ![c] = 0]
  /\ UNCHANGED <<busSide, serverSide, costSide, follows, done>>

(* A connection that breaks ends the write as well.                        *)
Leave(c) == c \in open /\ Unsubscribed(c)

EndStream(c) == c \in open \ writing /\ done /\ Unsubscribed(c)

CloseAll ==
  /\ ~done /\ done' = TRUE
  /\ UNCHANGED <<busSide, serverSide, costSide, follows, open, buffer, writing, newest>>
-----------------------------------------------------------------------------
StreamNext ==
  \/ \E k \in EventKinds : BusEmit(k)
  \/ PublishRaw \/ WriteLog
  \/ Take \/ ObserveJob \/ ForwardJob \/ Totals
  \/ Clear \/ Reset \/ CloseAll
  \/ \E c \in Followers : Connect(c) \/ Show(c) \/ Written(c) \/ Leave(c) \/ EndStream(c)

(* The forwarder's goroutine runs, and a handler that comes back to its    *)
(* select again and again when its broadcaster is closed returns: the      *)
(* select picks at random among what is ready.  No client is bound to      *)
(* read, so no write is bound to end.                                      *)
StreamSpec ==
  /\ StreamInit /\ [][StreamNext]_streamVars
  /\ WF_streamVars(Take) /\ WF_streamVars(ObserveJob) /\ WF_streamVars(ForwardJob)
  /\ WF_streamVars(Totals)
  /\ \A c \in Followers : SF_streamVars(EndStream(c))
-----------------------------------------------------------------------------
StreamsTypeOK ==
  /\ Len(busChannel) <= ServerBuffer /\ added \subseteq 1 .. MaxBusEvents
  /\ \A c \in Followers : Len(buffer[c]) <= ClientBuffer /\ (c \notin open => buffer[c] = <<>>)
  /\ progress = "idle" <=> job = NoEvent

(* A client is shown a request for approval only when the answer would     *)
(* find it: the registry has it before any frame of it is out.             *)
SeenIsAnswerable ==
  \A c \in Viewers : \A i \in DOMAIN buffer[c] :
    buffer[c][i].what = "approval" => buffer[c][i].n \in added

(* What a client gets of the forwarder's events comes in their order and   *)
(* once each, however much of it the full buffers left out.                *)
FromBus(frame) == frame.n > 0 /\ frame.what # "cost"

FramesInOrder ==
  \A c \in Viewers : \A j \in DOMAIN buffer[c] : FromBus(buffer[c][j]) =>
    /\ newest[c] < buffer[c][j].n
    /\ \A i \in DOMAIN buffer[c] : i < j => buffer[c][i].n < buffer[c][j].n

(* A tool call of a subagent is labelled as its own, unless the bus lost   *)
(* the news of its start.                                                  *)
CallsAreLabelled ==
  \A c \in Viewers : \A i \in DOMAIN buffer[c] :
    buffer[c][i].what = "tool" /\ ~missed => buffer[c][i].agent

(* Neither a client that does not read nor one that is gone holds up the   *)
(* events.                                                                 *)
NobodyHoldsUp == (progress # "idle" \/ busChannel # <<>>) ~> (progress = "idle")

(* Closing the broadcaster ends every stream whose writes end, whatever is *)
(* still unread: the HTTP server's shutdown waits for them.                *)
StreamsEnd == \A c \in Followers : []<>(c \notin writing) => [](done => <>(c \notin open))

(* Not so of this code: the handler of a client that does not read stays   *)
(* in its write, and the shutdown gives up after its five seconds.         *)
EveryStreamEnds == \A c \in Followers : [](done => <>(c \notin open))

(* "the counters describe the conversation in the window" (api/costs/      *)
(* costs.go:70): they count no response from before the conversation       *)
(* changed.                                                                *)
StatsAreOfTheWindow == ~clearing => tracked <= fresh

(* What a client is shown it can answer, in order and with the right       *)
(* label.                                                                  *)
StreamsAreTrue == StreamsTypeOK /\ SeenIsAnswerable /\ FramesInOrder /\ CallsAreLabelled
=============================================================================
