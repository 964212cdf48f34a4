------------------------------ MODULE MCCalls ------------------------------
(* What becomes of a model call, in one run: the limiter that lets it      *)
(* through, the call itself, and what the control plane is told of the     *)
(* turn it is made in.  `part` names the model that moves in a behaviour,  *)
(* the others stay where they began.  The models share nothing, so nothing *)
(* is lost by not mixing their steps, and their states add up instead of   *)
(* multiplying.                                                            *)
EXTENDS StreamCall, RateLimiter, PlaneFeed

\* The limiter: with a bucket and without, for one request at a time and for two.
OfClient(rate, burst, parallel) == [rate |-> rate, burst |-> burst, parallel |-> parallel]
SomeLimits ==
  {OfClient(1, 2, 1), OfClient(1, 2, 2), OfClient(0, 0, 2), OfClient(1, 0, 2)}

VARIABLE part

callsVars == <<part, streamVars, limiterVars, feedVars>>

CallsInit ==
  /\ part \in {"call", "limiter", "feed"}
  /\ FeedInit
  /\ StreamInit /\ (part # "call" => proto = "ollama" /\ listens = {} /\ timed)
  /\ LimiterInit /\ (part # "limiter" => limits = OfClient(0, 0, 2))

CallsNext ==
  \/ /\ part = "call" /\ StreamNext
     /\ UNCHANGED <<part, limiterVars, feedVars>>
  \/ /\ part = "limiter" /\ LimiterNext
     /\ UNCHANGED <<part, streamVars, feedVars>>
  \/ /\ part = "feed" /\ FeedNext
     /\ UNCHANGED <<part, streamVars, limiterVars>>

(* The fairness of StreamSpec, LimiterSpec and FeedLiveSpec.               *)
CallsSpec ==
  /\ CallsInit /\ [][CallsNext]_callsVars
  /\ WF_streamVars(part = "call" /\ OwnStep)
  /\ WF_streamVars(part = "call" /\ (timed \/ stopped) /\ GivesUp)
  /\ WF_limiterVars(part = "limiter" /\ Tick)
  /\ \A a \in Askers :
       /\ SF_limiterVars(part = "limiter" /\ TakeSlot(a))
       /\ WF_limiterVars(part = "limiter" /\ (TakeTokens(a) \/ StopWaiting(a)))
       /\ WF_limiterVars(part = "limiter" /\ a \in hungUp /\ Return(a))
  /\ WF_feedVars(part = "feed" /\ Reader) /\ WF_feedVars(part = "feed" /\ Pump)
  /\ WF_feedVars(part = "feed" /\ Turn) /\ WF_feedVars(part = "feed" /\ Relay)
  /\ WF_feedVars(part = "feed" /\ Forward)

(* A call returns, whoever listens, unless its server is silent, it has no *)
(* timeout and nobody stops it: CallReturns of StreamCall, in the          *)
(* behaviours where calls are made.  Who asks the limiter is let in or     *)
(* turned away, with the exceptions of EveryAskEnds.  A turn the control   *)
(* plane asked for ends: TurnsEnd of PlaneFeed.                            *)
EveryCallReturns == (part = "call" => CallReturns) /\ EveryAskEnds /\ TurnsEnd
=============================================================================
