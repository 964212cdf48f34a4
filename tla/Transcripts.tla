---------------------------- MODULE Transcripts ----------------------------
(***************************************************************************)
(* What of the conversation a second model is shown: the tails the         *)
(* decision model judges (internal/features/systemone/state.go) and the    *)
(* transcript the advisor reads (internal/features/advisor/tool_advisor    *)
(* .go).  A message is its role, whether it says anything in words, and    *)
(* its length once rendered.  It is known by its place, which keeps equal  *)
(* messages apart, and a tail is the set of the places it shows: it shows  *)
(* them in their order, but for a request that is put in front.            *)
(***************************************************************************)
EXTENDS Integers, Sequences, FiniteSets

CONSTANTS
  RecentN,      \* Config.RecentMessages
  CharBudget,   \* the advisor's budget
  Lengths,      \* lengths of rendered messages, 0 is an empty one
  MaxTalk       \* bound: messages of the conversation

ASSUME TranscriptAssumption ==
  RecentN \in Nat /\ CharBudget \in Nat /\ Lengths \subseteq Nat /\ MaxTalk \in Nat

VARIABLES
  talk,     \* the context store's messages
  pinned    \* Ext.request: the place of a message, 0 without one

talkVars == <<talk, pinned>>

Roles        == {"user", "assistant", "tool"}
TalkMessages == [role : Roles, words : BOOLEAN, length : Nat]

(* The last n of some places.                                              *)
Newest(places, n) == {i \in places : Cardinality({j \in places : j > i}) < n}

(* Mutant: the request is put in front of a full window.                   *)
WithRequestOnTop(tail) == IF pinned = 0 THEN tail ELSE {pinned} \cup tail

(* withRequest: it takes one slot of the tail.                             *)
WithRequest(tail) ==
  IF pinned = 0 \/ pinned \in tail THEN tail
  ELSE {pinned} \cup
       IF Cardinality(tail) >= RecentN /\ RecentN > 1 THEN Newest(tail, RecentN - 1) ELSE tail

(* recentMessages: batch B's tail.  Empty messages leave it shorter.       *)
Window == {i \in Newest(DOMAIN talk, RecentN) : talk[i].length > 0}

RecentMessages == IF RecentN = 0 THEN {} ELSE WithRequest(Window)

(* assistantMessages: batch A's tail, of those that say something.         *)
Said == {i \in DOMAIN talk : talk[i].role = "assistant" /\ talk[i].words}

AssistantMessages == Newest(Said, RecentN)

(* pinRequest: the newest user message, when a turn's first iteration      *)
(* begins.                                                                 *)
NewestRequest ==
  LET last == Newest({i \in DOMAIN talk : talk[i].role = "user"}, 1)
  IN  IF \E i \in last : talk[i].length > 0 THEN CHOOSE i \in last : TRUE ELSE 0

(* What the newest n messages take.                                        *)
Cost ==
  LET total[n \in 0 .. Len(talk)] ==
        IF n = 0 THEN 0 ELSE total[n - 1] + talk[Len(talk) - n + 1].length + 1
  IN  total

(* renderTranscript: newest to oldest, whole messages while they fit, the  *)
(* newest whatever its length.                                             *)
InBudget(n) == \A m \in 2 .. n : Cost[m] <= CharBudget

Transcript == {i \in DOMAIN talk : InBudget(Len(talk) - i + 1)}

TalkInit == talk = <<>> /\ pinned = 0

Says(role, words, length) ==
  talk' = Append(talk, [role |-> role, words |-> words, length |-> length])

(* The loop appends the user's message, and the first BeforeIteration pins *)
(* it before anything else is said.                                        *)
OpenTurn ==
  /\ Len(talk) < MaxTalk /\ \E l \in Lengths : Says("user", TRUE, l)
  /\ pinned' = NewestRequest'

(* Answers, tool results and steering do not touch it.                     *)
Continue ==
  /\ Len(talk) < MaxTalk
  /\ \E r \in Roles, w \in BOOLEAN, l \in Lengths : (w => l > 0) /\ Says(r, w, l)
  /\ UNCHANGED pinned

TalkNext == OpenTurn \/ Continue
TalkSpec == TalkInit /\ [][TalkNext]_talkVars
-----------------------------------------------------------------------------
(* "A rolling window loses the request as soon as the agent has made a few *)
(* calls": the request the turn began with is in every tail batch B sends, *)
(* in its place or in front of what is newer, and takes one of the N       *)
(* slots.                                                                  *)
RequestIsJudgedWith ==
  /\ pinned # 0 /\ RecentN > 0 => pinned \in RecentMessages
  /\ RecentN > 1 => Cardinality(RecentMessages) <= RecentN
  /\ pinned # 0 => pinned \in Window \/ \A i \in Window : pinned < i

(* The N slots of batch A go to what the agent said: as many of its        *)
(* messages as there are, up to N, and none that only called tools.        *)
SlotsGoToWords ==
  /\ AssistantMessages \subseteq Said
  /\ Cardinality(AssistantMessages) = IF Cardinality(Said) < RecentN THEN Cardinality(Said) ELSE RecentN
  /\ \A i \in AssistantMessages, j \in Said \ AssistantMessages : j < i

(* The advisor always sees the newest message, and more than it only       *)
(* within the budget; nothing that would still have fitted is left out.    *)
AdvisorSeesTheNewest ==
  talk # <<>> =>
    \E n \in 1 .. Len(talk) :
      /\ Transcript = Len(talk) - n + 1 .. Len(talk)
      /\ n > 1 => Cost[n] <= CharBudget
      /\ n < Len(talk) => Cost[n + 1] > CharBudget

(* What a judge, a router and an advisor read of the conversation is what  *)
(* they are to judge.                                                      *)
TranscriptsFit == RequestIsJudgedWith /\ SlotsGoToWords /\ AdvisorSeesTheNewest
=============================================================================
