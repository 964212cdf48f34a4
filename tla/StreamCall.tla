----------------------------- MODULE StreamCall -----------------------------
(***************************************************************************)
(* One model call (internal/adapters/agent, pkg/providers/protocols): the  *)
(* agent's retries of transient errors, around the provider's retries of   *)
(* rate-limited requests, around one streaming attempt of each protocol.   *)
(* The goroutine that sends and the caller that receives meet on an        *)
(* unbuffered channel, so that an event is one step of both.               *)
(*                                                                         *)
(* What the server has sent in an attempt is a sequence of fragments; a    *)
(* piece of text or of a tool call is known by its place in it.            *)
(***************************************************************************)
EXTENDS Naturals, Sequences, FiniteSets, SequencesExt

CONSTANTS
  MaxTries,   \* RetryBackoff.MaxRetries: attempts at a rate-limited request
  RetryMax,   \* Agent.retryMax
  MaxSent     \* bound: fragments in one attempt

ASSUME StreamAssumption == MaxTries \in Nat \ {0} /\ RetryMax \in Nat /\ MaxSent \in Nat \ {0}

VARIABLES
  proto,     \* whose client it is
  listens,   \* the callbacks the driver registered
  timed,     \* whether an HTTP timeout is configured
  leg,       \* where the sending goroutine is
  try,       \* the provider's attempt, from 0
  round,     \* the agent's attempt, from 0
  sent,      \* what the server sent in this attempt
  wire,      \* the events of this round
  shown,     \* history: pieces passed to streamCallback, with their attempt
  streamed,  \* doStreamingReasoning's flag
  failure,   \* the error of the round
  reply,      \* the response the caller got
  stopped,   \* the turn's context is cancelled
  returned    \* what DoReasoning returned

streamVars == <<proto, listens, timed, leg, try, round, sent, wire, shown, streamed,
                failure, reply, stopped, returned>>

Protocols == {"ollama", "anthropic", "openai"}
NoReply == [text |-> {}, calls |-> {}]
Fragment(k, i) == [k |-> k, i |-> i]

StreamInit ==
  /\ proto \in Protocols
  /\ listens \in SUBSET {"text", "thinking"} /\ timed \in BOOLEAN
  /\ leg = "idle" /\ try = 0 /\ round = 0
  /\ sent = <<>> /\ wire = <<>> /\ shown = <<>>
  /\ streamed = FALSE /\ failure = "none" /\ reply = NoReply
  /\ stopped = FALSE /\ returned = "none"
-----------------------------------------------------------------------------
(* What a server may send next: one kind of fragment after another.        *)

Has(k, i)  == \E j \in DOMAIN sent : sent[j] = Fragment(k, i)
Opened     == {i \in 1 .. 2 : Has("text-block", i) \/ Has("call-block", i)}
InProgress == {i \in Opened : ~Has("close", i)}

(* Anthropic: a message is opened, and blocks come one after another.      *)
AnthropicSends ==
  IF sent = <<>> THEN {Fragment("begin", 0)}
  ELSE IF InProgress # {}
       THEN {Fragment(k, i) : k \in {"close"}, i \in InProgress} \cup
            {Fragment("text", i) : i \in {j \in InProgress : Has("text-block", j)}} \cup
            {Fragment("call", i) : i \in {j \in InProgress : Has("call-block", j)}}
       ELSE {Fragment(k, i) : k \in {"text-block", "call-block"},
                              i \in {Cardinality(Opened) + 1} \cap (1 .. 2)}

(* OpenAI: fragments of tool calls are told apart by their index, and the  *)
(* indexes come in any order.  Ollama: a tool call is never split.         *)
OpenAISends == {Fragment("text", 0), Fragment("call", 1), Fragment("call", 2)}

OllamaSends ==
  IF Has("done", 0) THEN {}
  ELSE {Fragment("text", 0), Fragment("think", 0), Fragment("done", 0)} \cup
       {Fragment("call", i) : i \in {Cardinality({j \in 1 .. 2 : Has("call", j)}) + 1} \cap (1 .. 2)}

MaySend ==
  CASE proto = "anthropic" -> AnthropicSends
    [] proto = "openai"    -> OpenAISends
    [] proto = "ollama"    -> OllamaSends

Complete ==
  CASE proto = "anthropic" -> sent # <<>> /\ InProgress = {}
    [] proto = "openai"    -> sent # <<>>
    [] proto = "ollama"    -> Has("done", 0)
-----------------------------------------------------------------------------
(* The accumulators of streamOnce, over what was sent.  What is appended   *)
(* as it comes is known by the set of its places, which their order sorts; *)
(* a call of a reply by its index, its place among the calls and its parts.*)

TextOf(lines) == {j \in DOMAIN lines : lines[j].k = "text"}
PartsOf(lines, i) == {j \in DOMAIN lines : lines[j] = Fragment("call", i)}
PlacesOf(lines, k) == {j \in DOMAIN lines : lines[j].k = k}

Call(lines, i, at) == [i |-> i, at |-> at, parts |-> PartsOf(lines, i)]

(* Mutant: only the calls of the last chunk.                               *)
TerminalLastChunk(p, lines) ==
  [text |-> TextOf(lines),
   calls |-> IF p = "ollama" THEN {}
             ELSE {Call(lines, i, i) : i \in {x \in 1 .. 2 : PartsOf(lines, x) # {}}}]

(* The response of the stop event: anthropic appends a block when it is    *)
(* closed, openai sorts the calls by index, ollama keeps their order.      *)
AnthropicTerminal(lines) ==
  LET closing(i) == {c \in DOMAIN lines : lines[c] = Fragment("close", i)}
      isCall(i)  == \E j \in DOMAIN lines : lines[j] = Fragment("call-block", i)
  IN  [text  |-> {j \in TextOf(lines) : closing(lines[j].i) # {}},
       calls |-> {Call(lines, lines[c].i, c) : c \in {x \in PlacesOf(lines, "close") : isCall(lines[x].i)}}]

OllamaTerminal(lines) ==
  [text  |-> TextOf(lines),
   calls |-> {Call(lines, lines[c].i, c) : c \in PlacesOf(lines, "call")}]

OpenAITerminal(lines) ==
  [text  |-> TextOf(lines),
   calls |-> {Call(lines, i, i) : i \in {x \in 1 .. 2 : PartsOf(lines, x) # {}}}]

Terminal(p, lines) ==
  CASE p = "anthropic" -> AnthropicTerminal(lines)
    [] p = "ollama"    -> OllamaTerminal(lines)
    [] p = "openai"    -> OpenAITerminal(lines)
-----------------------------------------------------------------------------
(* doStreamingReasoning starts a round; buildParams may refuse the request *)
(* before anything is sent, which closes the channel without an event.     *)
BeginRound ==
  /\ leg = "idle" /\ returned = "none"
  /\ try' = 0 /\ sent' = <<>> /\ wire' = <<>> /\ streamed' = FALSE
  /\ \/ leg' = "request" /\ failure' = "none"
     \/ leg' = "closed" /\ failure' = "params"
  /\ UNCHANGED <<proto, listens, timed, round, shown, reply, stopped, returned>>

(* RetryStreaming and RetryOnRateLimit: another try after a backoff, as    *)
(* long as there are tries.                                                *)
Limited ==
  IF try = MaxTries - 1
  THEN leg' = "failed" /\ failure' = "limited"
  ELSE leg' = "backoff" /\ UNCHANGED failure

RequestLimited ==
  /\ leg = "request" /\ ~stopped
  /\ Limited
  /\ UNCHANGED <<proto, listens, timed, try, round, sent, wire, shown, streamed, reply, stopped, returned>>

(* Mutant: the tries are not counted.                                      *)
BackoffUncounted ==
  /\ leg = "backoff"
  /\ IF stopped THEN leg' = "failed" /\ failure' = "canceled" /\ UNCHANGED try
                ELSE leg' = "request" /\ UNCHANGED <<failure, try>>
  /\ sent' = <<>>
  /\ UNCHANGED <<proto, listens, timed, round, wire, shown, streamed, reply, stopped, returned>>

Backoff ==
  /\ leg = "backoff"
  /\ IF stopped THEN leg' = "failed" /\ failure' = "canceled" /\ UNCHANGED try
                ELSE leg' = "request" /\ try' = try + 1 /\ UNCHANGED failure
  /\ sent' = <<>>
  /\ UNCHANGED <<proto, listens, timed, round, wire, shown, streamed, reply, stopped, returned>>

(* No response, a 5xx or a 4xx; a cancelled context fails every request.   *)
RequestFails ==
  /\ leg = "request" /\ leg' = "failed"
  /\ failure' \in IF stopped THEN {"canceled"} ELSE {"unreachable", "server", "refused"}
  /\ UNCHANGED <<proto, listens, timed, try, round, sent, wire, shown, streamed, reply, stopped, returned>>

RequestAccepted ==
  /\ leg = "request" /\ ~stopped /\ listens # {}
  /\ leg' = "stream"
  /\ UNCHANGED <<proto, listens, timed, try, round, sent, wire, shown, streamed, failure, reply, stopped, returned>>

(* Without a callback the whole response comes at once.                    *)
PlainAnswer ==
  /\ leg = "request" /\ ~stopped /\ listens = {}
  /\ reply' = [text |-> {1}, calls |-> {}] /\ sent' = <<Fragment("text", 0)>>
  /\ wire' = <<"stop">>
  /\ leg' = "closed"
  /\ UNCHANGED <<proto, listens, timed, try, round, shown, streamed, failure, stopped, returned>>

(* The events one fragment makes, a start before the first.                *)
EventsFor(f) ==
  (IF sent = <<>> THEN <<"start">> ELSE <<>>) \o
  (CASE f.k = "text"  -> <<"delta">>
     [] f.k = "think" -> <<"thinking">>
     [] f.k = "done"  -> <<"stop">>
     [] OTHER         -> <<>>)

(* The caller's side of a delta.                                           *)
Hears(f) ==
  LET heard == f.k = "text" /\ "text" \in listens
  IN  /\ shown' = IF heard THEN Append(shown, [round |-> round, try |-> try, place |-> Len(sent) + 1]) ELSE shown
      /\ streamed' = (streamed \/ heard)

Receive(f) ==
  /\ leg = "stream" /\ Len(sent) < MaxSent
  /\ f \in MaySend
  /\ sent' = Append(sent, f)
  /\ wire' = wire \o EventsFor(f)
  /\ Hears(f)
  /\ reply' = IF f.k = "done" THEN Terminal(proto, Append(sent, f)) ELSE reply
  /\ UNCHANGED <<proto, listens, timed, leg, try, round, failure, stopped, returned>>

(* The stream ends cleanly.                                                *)
StreamEnds ==
  /\ leg = "stream" /\ Complete
  /\ IF proto = "ollama" THEN UNCHANGED <<wire, reply>>
     ELSE wire' = Append(wire, "stop") /\ reply' = Terminal(proto, sent)
  /\ leg' = "closed"
  /\ UNCHANGED <<proto, listens, timed, try, round, sent, shown, streamed, failure, stopped, returned>>

(* ollama: decoder.More() is false at a read error as at the end of the    *)
(* stream, so that one between two chunks goes unnoticed.                  *)
StreamCutUnnoticed ==
  /\ leg = "stream" /\ proto = "ollama"
  /\ leg' = "closed"
  /\ UNCHANGED <<proto, listens, timed, try, round, sent, wire, shown, streamed, failure, reply, stopped, returned>>

(* The attempt breaks: in the middle of a chunk, by a cancellation, or by  *)
(* an error the server sends, a rate limit included, which is tried again  *)
(* only if nothing has been passed on.                                     *)
StreamBreaks ==
  /\ leg = "stream" /\ ~Has("done", 0)
  /\ \/ proto # "ollama" /\ wire = <<>> /\ Limited
     \/ leg' = "failed" /\ failure' = IF stopped THEN "canceled" ELSE "unreachable"
  /\ UNCHANGED <<proto, listens, timed, try, round, sent, wire, shown, streamed, reply, stopped, returned>>

(* The error event, and the deferred close.                                *)
ReportFailure ==
  /\ leg = "failed" /\ leg' = "closed"
  /\ wire' = IF listens = {} THEN wire ELSE Append(wire, "error")
  /\ UNCHANGED <<proto, listens, timed, try, round, sent, shown, streamed, failure, reply, stopped, returned>>

(* isTransientLLMError.                                                    *)
Transient(e) == e \in {"limited", "server", "unreachable"}

(* callLLM: what becomes of the round.  A cancellation also ends the wait  *)
(* before the next one.                                                    *)
EndRound ==
  /\ leg = "closed" /\ returned = "none"
  /\ \/ /\ failure = "none"
        /\ returned' = "answer" /\ UNCHANGED <<leg, round>>
     \/ /\ failure # "none"
        /\ returned' = "error" /\ UNCHANGED <<leg, round>>
        /\ stopped \/ streamed \/ round >= RetryMax \/ ~Transient(failure)
     \/ /\ failure # "none" /\ ~stopped /\ ~streamed /\ round < RetryMax /\ Transient(failure)
        /\ leg' = "idle" /\ round' = round + 1 /\ UNCHANGED returned
  /\ UNCHANGED <<proto, listens, timed, try, sent, wire, shown, streamed, failure, reply, stopped>>

StopTurn ==
  /\ ~stopped /\ returned = "none"
  /\ stopped' = TRUE
  /\ UNCHANGED <<proto, listens, timed, leg, try, round, sent, wire, shown, streamed, failure, reply, returned>>

CallStep ==
  \/ BeginRound \/ RequestLimited \/ Backoff \/ RequestFails \/ RequestAccepted \/ PlainAnswer
  \/ (\E f \in MaySend : Receive(f)) \/ StreamEnds \/ StreamCutUnnoticed \/ StreamBreaks
  \/ ReportFailure \/ EndRound

StreamNext == CallStep \/ StopTurn

OwnStep == BeginRound \/ Backoff \/ ReportFailure \/ EndRound
GivesUp == RequestFails \/ StreamCutUnnoticed \/ StreamBreaks

(* The goroutines of the call go on.  A server need not answer: an attempt *)
(* ends for certain only by the timeout of its client, or with its turn.   *)
StreamSpec ==
  /\ StreamInit /\ [][StreamNext]_streamVars
  /\ WF_streamVars(OwnStep) /\ WF_streamVars((timed \/ stopped) /\ GivesUp)
-----------------------------------------------------------------------------
Terminals == {"stop", "error"}

StreamTypeOK ==
  /\ proto \in Protocols /\ listens \in SUBSET {"text", "thinking"}
  /\ leg \in {"idle", "request", "backoff", "stream", "failed", "closed"}
  /\ try \in 0 .. MaxTries - 1 /\ round \in 0 .. RetryMax
  /\ Len(sent) <= MaxSent
  /\ ToSet(wire) \subseteq {"start", "delta", "thinking"} \cup Terminals
  /\ failure \in {"none", "params", "limited", "server", "refused", "unreachable", "canceled"}
  /\ returned \in {"none", "answer", "error"}

(* "Events flow in order: Start -> Delta(s) -> Stop, with Error possible   *)
(* at any point": over all tries of a round there is one start, before     *)
(* everything but an error, and nothing follows a stop or an error.        *)
EventsInOrder ==
  \A j \in DOMAIN wire :
    /\ wire[j] = "start" <=> j = 1 /\ wire[j] # "error" /\ listens # {}
    /\ wire[j] \in Terminals => j = Len(wire)

(* No text is shown twice, over both layers of retries: what the user has  *)
(* read is the text of one attempt, every piece once and in its order.     *)
ShownOnce ==
  /\ \A j \in DOMAIN shown : shown[j].round = round /\ shown[j].try = try
  /\ \A j, k \in DOMAIN shown : j < k => shown[j].place < shown[k].place
  /\ {shown[j].place : j \in DOMAIN shown} = IF "text" \in listens THEN TextOf(sent) ELSE {}

(* The response the loop gets has all the text and every tool call that    *)
(* was sent, once, with all of its fragments and in the order of their     *)
(* indexes, and it is the text the user saw.                               *)
AnswerIsWhole ==
  returned = "answer" /\ "stop" \in ToSet(wire) =>
    /\ reply.text = TextOf(sent)
    /\ \A i \in 1 .. 2 : PartsOf(sent, i) # {} =>
         \E c \in reply.calls : c.i = i /\ c.parts = PartsOf(sent, i)
    /\ \A c, d \in reply.calls : /\ c.at < d.at => c.i < d.i
                                 /\ c.i = d.i => c = d
    /\ "text" \in listens => {shown[j].place : j \in DOMAIN shown} = reply.text

(* A call returns, with at most as many tries as both layers allow, unless *)
(* one of its attempts waits for a server that says nothing: then its      *)
(* client has no timeout, and nobody stops the turn.                       *)
ServerSilent == leg \in {"request", "stream"} /\ ~timed /\ ~stopped
CallReturns == <>[](returned # "none" \/ ServerSilent)

(* "Events flow in order: Start -> Delta(s) -> Stop, with Error possible   *)
(* at any point": a call that returns without an error was told the end.   *)
AnswerWasFinished == returned = "answer" => "stop" \in ToSet(wire)

(* Whoever listens hears each piece of the answer once and in order, and   *)
(* what the call returns is the whole of it.                               *)
CallIsFaithful == StreamTypeOK /\ EventsInOrder /\ ShownOnce /\ AnswerIsWhole
=============================================================================
