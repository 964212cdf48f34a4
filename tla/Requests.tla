------------------------------ MODULE Requests ------------------------------
(***************************************************************************)
(* What the agent puts into a request and what each protocol's client      *)
(* makes of it (internal/adapters/agent, pkg/providers/protocols): the     *)
(* output limit and the thinking budget, the thinking switches, and the    *)
(* history, which may come from a client of another protocol.              *)
(*                                                                         *)
(* A tool call's input is known by what a JSON parser makes of it: an      *)
(* "array" stands for whatever is valid but no object.  A call is known by *)
(* its round and its place in it.  A budget or limit of 0 is none.         *)
(***************************************************************************)
EXTENDS Integers, Sequences, FiniteSets, FiniteSetsExt, SequencesExt

CONSTANTS
  Models,     \* models: their protocol, output limit and limit without streaming
  Budgets,    \* configured thinking budgets
  MaxRounds,  \* bound: answers with tool calls
  MaxWidth    \* bound: calls of one answer

ASSUME RequestAssumption ==
  /\ MaxRounds \in Nat /\ MaxWidth \in Nat
  /\ Budgets \subseteq Nat
  /\ \A m \in Models : m.proto \in {"anthropic", "openai", "ollama"} /\ m.limit \in Nat

Headroom       == 16384
StdResponse    == 32768
LeastBudget    == 1024

VARIABLES
  client,    \* the model of the current client
  sizes,     \* Agent.thinkingBudget and maxTokens
  thinks,    \* Agent.think
  effort,    \* the client's configured reasoning effort
  dialog     \* the rounds of the history: their calls, each with its result

requestVars == <<client, sizes, thinks, effort, dialog>>

(* sizeOutput.                                                             *)
SizeOutput(budget, limit) ==
  LET wanted == Max({StdResponse, budget + Headroom})
      most   == IF limit > 0 THEN Min({wanted, limit}) ELSE wanted
  IN  IF budget = 0 THEN [budget |-> 0, max |-> StdResponse]
      ELSE IF budget + Headroom <= most THEN [budget |-> budget, max |-> most]
      ELSE [budget |-> Max({most - Headroom, LeastBudget}), max |-> most]

RequestInit ==
  /\ client \in Models
  /\ \E b \in Budgets : sizes = SizeOutput(b, client.limit)
  /\ thinks \in {"unset", "on", "off"}
  /\ effort \in {"unset", "low"}
  /\ dialog = <<>>

(* SetLLM: the sizes stay what New made of the first model.                *)
SwitchClient ==
  /\ client' \in Models
  /\ UNCHANGED <<sizes, thinks, effort, dialog>>

ToggleThinking ==
  /\ thinks' \in {"on", "off"}
  /\ UNCHANGED <<client, sizes, effort, dialog>>
-----------------------------------------------------------------------------
(* Tool inputs as they come, as the response has them, and as they go out. *)

Inputs == {"empty", "malformed", "array", "object"}

(* What a response can hold: ollama's inputs are decoded with the response *)
(* they come in, and one that is no object ends it with an error.          *)
Possible(proto) == IF proto = "ollama" THEN {"empty", "object"} ELSE Inputs

(* normalizeToolArguments.                                                 *)
Normalized(input) == IF input \in {"empty", "malformed"} THEN "object" ELSE input

(* anthropic joins the fragments and looks no further.                     *)
AnthropicReceived(input) == IF input = "empty" THEN "object" ELSE input

(* ollama writes what it has parsed, and what was not there as null.       *)
Received(proto, input) ==
  CASE proto = "openai"    -> Normalized(input)
    [] proto = "anthropic" -> AnthropicReceived(input)
    [] proto = "ollama"    -> IF input = "empty" THEN "null" ELSE input

(* The ids: ollama's are made of the name and the place in the response.   *)
CallId(proto, round, place) == IF proto = "ollama" THEN <<0, place>> ELSE <<round, place>>

(* An answer with calls, and the results the loop feeds back in its order. *)
AnswerCalls(inputs) ==
  /\ Len(dialog) < MaxRounds
  /\ \A p \in DOMAIN inputs : inputs[p] \in Possible(client.proto)
  /\ dialog' = Append(dialog,
                 [p \in DOMAIN inputs |->
                    [id    |-> CallId(client.proto, Len(dialog) + 1, p),
                     input |-> Received(client.proto, inputs[p]),
                     by    |-> client.proto]])
  /\ UNCHANGED <<client, sizes, thinks, effort>>

RequestNext ==
  \/ SwitchClient \/ ToggleThinking
  \/ \E n \in 1 .. MaxWidth : \E inputs \in [1 .. n -> Inputs] : AnswerCalls(inputs)

RequestSpec == RequestInit /\ [][RequestNext]_requestVars
-----------------------------------------------------------------------------
(* The messages of a request, round by round: an assistant message with    *)
(* its calls, known by their places in the answer, and the messages with   *)
(* the results.  A result quotes the id of its call; ollama's has only the *)
(* name of the tool, which leaves its place among the results.             *)

CallsMessage(calls) == [role |-> "assistant", calls |-> calls, results |-> <<>>]
Holds(results) == [role |-> "tool", calls |-> <<>>, results |-> results]
QuotesId(call)     == [quotes |-> "id", of |-> call.id]
QuotesName(call)  == [quotes |-> "name", of |-> call.id]

(* Anthropic has all results of a round in one message.                    *)
AnthropicRound(calls) == <<CallsMessage(calls), Holds([p \in DOMAIN calls |-> QuotesId(calls[p])])>>

(* Mutant: only the first result of a message is sent.                     *)
OpenAIRoundFirst(calls) ==
  <<CallsMessage([p \in DOMAIN calls |-> [calls[p] EXCEPT !.input = Normalized(@)]]),
    Holds(<<QuotesId(calls[1])>>)>>

OpenAIRound(calls) ==
  <<CallsMessage([p \in DOMAIN calls |-> [calls[p] EXCEPT !.input = Normalized(@)]])>> \o
  [p \in DOMAIN calls |-> Holds(<<QuotesId(calls[p])>>)]

(* ollama leaves out a call whose input is no object, not its result.     *)
Parses(call) == call.input \in {"null", "object"}

OllamaRound(calls) ==
  <<CallsMessage([p \in {q \in DOMAIN calls : Parses(calls[q])} |-> calls[p]])>> \o
  [p \in DOMAIN calls |-> Holds(<<QuotesName(calls[p])>>)]

MessagesOf(proto, calls) ==
  CASE proto = "anthropic" -> AnthropicRound(calls)
    [] proto = "openai"    -> OpenAIRound(calls)
    [] proto = "ollama"    -> OllamaRound(calls)

Messages == [r \in DOMAIN dialog |-> MessagesOf(client.proto, dialog[r])]

(* anthropic encodes the inputs as they are, and an input that is not JSON *)
(* fails the whole request: this one and every later one that has the      *)
(* round in its history.  The other protocols encode whatever they hold.   *)
GoesOut ==
  client.proto = "anthropic" =>
    \A r \in DOMAIN dialog : \A p \in DOMAIN dialog[r] : dialog[r][p].input # "malformed"
-----------------------------------------------------------------------------
(* The thinking fields of a request.                                       *)

Tier(budget) ==
  CASE budget < 4096  -> "low"
    [] budget \in 4096 .. 16383 -> "medium"
    [] OTHER          -> "high"

OllamaTier(budget) == IF budget < 4096 THEN "low" ELSE IF budget < 16384 THEN "medium" ELSE "high"

OpenAIEffort ==
  IF thinks = "off" THEN "none"
  ELSE IF sizes.budget # 0 THEN Tier(sizes.budget)
  ELSE effort

OllamaThink ==
  IF thinks = "off" THEN "none"
  ELSE IF sizes.budget # 0 THEN OllamaTier(sizes.budget)
  ELSE IF effort # "unset" THEN effort
  ELSE thinks

(* buildParams; a request that does not stream is limited afterwards.      *)
AnthropicThinking == sizes.budget # 0 /\ thinks # "off"
AnthropicBudget   == Max({sizes.budget, LeastBudget})
AnthropicRefuses  == AnthropicThinking /\ AnthropicBudget >= sizes.max
SyncMax           == client.sync
AnthropicMax(streams) == IF streams THEN sizes.max ELSE Min({sizes.max, SyncMax})
-----------------------------------------------------------------------------
RequestTypeOK ==
  /\ client \in Models /\ thinks \in {"unset", "on", "off"} /\ effort \in {"unset", "low"}
  /\ sizes.budget \in Nat /\ sizes.max \in Nat \ {0}
  /\ \A r \in DOMAIN dialog : \A p \in DOMAIN dialog[r] :
       dialog[r][p].input \in {"null", "malformed", "array", "object"}

(* "reasoning cannot swallow the whole response": whatever the budget and  *)
(* the model the agent started with, the limit leaves room above it, and   *)
(* no client refuses the request, unless that model's responses are no     *)
(* longer than the least of budgets.                                       *)
RoomForTheAnswer ==
  /\ AnthropicRefuses => sizes.max <= LeastBudget
  /\ sizes.budget > LeastBudget => sizes.budget + Headroom <= sizes.max

(* The results of a round, as message and place in it.                     *)
ResultsIn(msgs) == {a \in (DOMAIN msgs) \X (1 .. MaxWidth) : a[2] \in DOMAIN msgs[a[1]].results}
Before(a, b)  == a[1] < b[1] \/ (a[1] = b[1] /\ a[2] < b[2])
ResultAt(msgs, a) == msgs[a[1]].results[a[2]]

(* The calls a provider can take a result for an answer to: those with the *)
(* id it quotes, or the one of its rank, for such a result has a message   *)
(* of its own.                                                             *)
RankOf(places, p) == Cardinality({q \in places : q <= p})
TakenFor(msgs, a) ==
  LET calls == msgs[1].calls
  IN  {p \in DOMAIN calls :
         IF ResultAt(msgs, a).quotes = "id" THEN calls[p].id = ResultAt(msgs, a).of
         ELSE RankOf(DOMAIN calls, p) = a[1] - 1}

(* A history made by clients of any protocols goes out with the results of *)
(* a round behind its calls, one for each and in their order, and each is  *)
(* taken for the answer to its own call.  A round with a call that ollama  *)
(* leaves out is the exception: its result stays, and those behind it are  *)
(* taken for answers to others.                                            *)
Unreadable(proto, made) == proto = "ollama" /\ \E p \in DOMAIN made : ~Parses(made[p])

Survives(msgs, excused) ==
  LET calls == msgs[1].calls
  IN  /\ \A m \in DOMAIN msgs : msgs[m].role = "assistant" <=> m = 1
      /\ \A p \in DOMAIN calls : \E a \in ResultsIn(msgs) : calls[p].id = ResultAt(msgs, a).of
      /\ \A a, b \in ResultsIn(msgs) : \A p, q \in DOMAIN calls :
           calls[p].id = ResultAt(msgs, a).of /\ calls[q].id = ResultAt(msgs, b).of => (p < q <=> Before(a, b))
      /\ ~excused => \A a \in ResultsIn(msgs) :
           \E p \in DOMAIN calls : TakenFor(msgs, a) = {p} /\ calls[p].id = ResultAt(msgs, a).of

PairsSurvive ==
  \A r \in DOMAIN dialog : Survives(Messages[r], Unreadable(client.proto, dialog[r]))

(* "Providers that parse the inputs of replayed calls strictly" get valid  *)
(* ones in every request that goes out, of any protocol; and none fails to *)
(* go out but one of anthropic, over an input that an anthropic client has *)
(* taken from a response unread.                                           *)
ReplayedAsValid ==
  /\ GoesOut => \A r \in DOMAIN dialog : \A p \in DOMAIN Messages[r][1].calls :
                  Messages[r][1].calls[p].input # "malformed"
  /\ ~GoesOut => /\ client.proto = "anthropic"
                 /\ \E r \in DOMAIN dialog : \E p \in DOMAIN dialog[r] :
                      dialog[r][p].input = "malformed" /\ dialog[r][p].by = "anthropic"

(* That a round once accepted keeps no later request from being encoded is *)
(* not so of anthropic (anthropic.go:299 and 481).                         *)
AlwaysGoesOut == GoesOut

(* An explicit off beats a budget, which beats the configured effort, and  *)
(* the two protocols that know only levels send the same one.              *)
EffortsAgree ==
  /\ sizes.budget # 0 \/ effort # "unset" \/ thinks = "off" => OllamaThink = OpenAIEffort
  /\ thinks = "off" => OllamaThink = "none" /\ ~AnthropicThinking

(* "Anthropic requires budget_tokens < max_tokens": not so of a request    *)
(* without streaming, whose limit is cut after the check.                  *)
BudgetBelowMaxTokens ==
  client.proto = "anthropic" /\ AnthropicThinking /\ ~AnthropicRefuses =>
    \A streams \in BOOLEAN : AnthropicBudget < AnthropicMax(streams)

(* Each protocol's request leaves room for an answer, keeps every call     *)
(* with its result but for the exception above, replays valid inputs if it *)
(* goes out, and asks for the same effort.                                 *)
RequestsAreValid ==
  /\ RequestTypeOK /\ RoomForTheAnswer /\ PairsSurvive /\ ReplayedAsValid /\ EffortsAgree
=============================================================================
