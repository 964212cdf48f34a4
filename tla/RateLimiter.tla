----------------------------- MODULE RateLimiter -----------------------------
(***************************************************************************)
(* Client-side rate limiting (pkg/providers/protocols/ratelimit): the      *)
(* token bucket with its slots, the plain semaphore, and the decorator     *)
(* that takes them around every send of a client.  A request passes        *)
(*                                                                         *)
(*   idle -> slot -> tokens -> sending -> idle                             *)
(*                                                                         *)
(* Time passes in ticks, each worth one token.                             *)
(***************************************************************************)
EXTENDS Integers, FiniteSets, FiniteSetsExt

CONSTANTS
  Askers,    \* goroutines that share the client
  Costs,     \* tokens a request may cost
  Limits     \* the rateLimit options clients are built with

ASSUME LimiterAssumption ==
  /\ IsFiniteSet(Askers) /\ Costs \subseteq Nat
  /\ Limits \subseteq [rate : Nat, burst : Nat, parallel : Nat]

VARIABLES
  limits,    \* the options of this client
  place,     \* where each goroutine is
  cost,      \* what its request costs, as Acquire charges it
  tokens,    \* TokenBucket.tokens
  elapsed,   \* ticks since lastRefill
  slots,     \* free slots of the semaphore
  hungUp,    \* goroutines whose context is cancelled
  open,      \* goroutines whose events channel is open
  meter      \* history: what was charged, less a token for every tick

limiterVars == <<limits, place, cost, tokens, elapsed, slots, hungUp, open, meter>>

(* NewClient's switch over the options: rate and burst make a bucket whose *)
(* field bounds the requests, a bound alone makes a semaphore, and one of  *)
(* rate and burst without the other makes no client.                       *)
KindOf(l) ==
  CASE l.rate > 0 /\ l.burst > 0                    -> "bucket"
    [] (l.rate > 0) # (l.burst > 0)                 -> "error"
    [] l.rate = 0 /\ l.burst = 0 /\ l.parallel > 0  -> "semaphore"
    [] OTHER                                        -> "none"

Kind    == KindOf(limits)
Bounded == Kind \in {"bucket", "semaphore"} /\ limits.parallel > 0

LimiterInit ==
  /\ limits \in {l \in Limits : KindOf(l) # "error"}
  /\ place = [a \in Askers |-> "idle"] /\ cost = [a \in Askers |-> 0]
  /\ tokens = limits.burst /\ elapsed = 0
  /\ slots = limits.parallel
  /\ hungUp = {} /\ open = {}
  /\ meter = 0
-----------------------------------------------------------------------------
Goes(a, where) == place' = [place EXCEPT ![a] = where]

Charged(n) == Min({n, limits.burst})

(* A goroutine starts a request; its cost is its tokens, or one unit for a *)
(* client that cannot count, or unknown, which refuses it.                 *)
Ask(a, n) ==
  /\ place[a] = "idle" /\ a \notin open
  /\ open' = open \cup {a} /\ hungUp' = hungUp \ {a}
  /\ cost' = [cost EXCEPT ![a] = Charged(n)]
  /\ Goes(a, IF Bounded THEN "slot" ELSE IF Kind = "bucket" THEN "tokens" ELSE "sending")
  /\ UNCHANGED <<limits, tokens, elapsed, slots, meter>>

TakeSlot(a) ==
  /\ place[a] = "slot" /\ slots > 0
  /\ slots' = slots - 1
  /\ Goes(a, IF Kind = "bucket" THEN "tokens" ELSE "sending")
  /\ UNCHANGED <<limits, cost, tokens, elapsed, hungUp, open, meter>>

Refilled == Min({tokens + elapsed, limits.burst})

(* Acquire polls: the bucket is refilled, and charged if it holds enough.  *)
TakeTokens(a) ==
  /\ place[a] = "tokens" /\ a \notin hungUp
  /\ elapsed' = 0
  /\ IF Refilled >= cost[a]
     THEN /\ tokens' = Refilled - cost[a] /\ meter' = meter + cost[a]
          /\ Goes(a, "sending")
     ELSE tokens' = Refilled /\ UNCHANGED <<meter, place>>
  /\ UNCHANGED <<limits, cost, slots, hungUp, open>>

Waits(a) == place[a] \in {"slot", "tokens"} /\ a \in hungUp

(* Mutant: the slot of a request that gave up waiting is lost.             *)
StopWaitingKeeping(a) ==
  /\ Waits(a) \/ place[a] = "refused"
  /\ UNCHANGED slots
  /\ open' = open \ {a}
  /\ Goes(a, "idle")
  /\ UNCHANGED <<limits, cost, tokens, elapsed, hungUp, meter>>

(* acquire fails, with the context's error or for want of a cost: the slot *)
(* is returned, and the wrapper closes the events channel the client will  *)
(* never see.                                                              *)
StopWaiting(a) ==
  /\ Waits(a) \/ place[a] = "refused"
  /\ slots' = IF place[a] = "tokens" /\ Bounded THEN slots + 1 ELSE slots
  /\ open' = open \ {a}
  /\ Goes(a, "idle")
  /\ UNCHANGED <<limits, cost, tokens, elapsed, hungUp, meter>>

(* The client returns, with or without an error: it has closed the events  *)
(* channel, and Release returns the slot.                                  *)
Return(a) ==
  /\ place[a] = "sending"
  /\ slots' = IF Bounded THEN slots + 1 ELSE slots
  /\ open' = open \ {a}
  /\ Goes(a, "idle")
  /\ UNCHANGED <<limits, cost, tokens, elapsed, hungUp, meter>>

(* The cost function fails: nothing is taken.                              *)
CostFails(a) ==
  /\ place[a] = "idle" /\ a \notin open /\ Kind = "bucket"
  /\ open' = open \cup {a} /\ hungUp' = hungUp \ {a}
  /\ Goes(a, "refused")
  /\ UNCHANGED <<limits, cost, tokens, elapsed, slots, meter>>

HangUp(a) ==
  /\ place[a] # "idle" /\ a \notin hungUp
  /\ hungUp' = hungUp \cup {a}
  /\ UNCHANGED <<limits, place, cost, tokens, elapsed, slots, open, meter>>

(* More than a full bucket of ticks makes no difference.                   *)
Tick ==
  /\ Kind = "bucket"
  /\ elapsed' = Min({elapsed + 1, limits.burst})
  /\ meter' = Max({meter - 1, 0})
  /\ UNCHANGED <<limits, place, cost, tokens, slots, hungUp, open>>

AskerStep(a) == TakeSlot(a) \/ TakeTokens(a) \/ StopWaiting(a) \/ Return(a)

LimiterNext ==
  \/ \E a \in Askers : AskerStep(a) \/ CostFails(a) \/ HangUp(a) \/ \E n \in Costs : Ask(a, n)
  \/ Tick

(* A waiting goroutine polls.  Who waits for a slot gets one in its turn,  *)
(* as a channel and a semaphore keep their waiters in line; who waits for  *)
(* tokens has no turn.  A request under way ends for certain only with its *)
(* context: the server need not answer.                                    *)
LimiterSpec ==
  /\ LimiterInit /\ [][LimiterNext]_limiterVars
  /\ WF_limiterVars(Tick)
  /\ \A a \in Askers :
       /\ SF_limiterVars(TakeSlot(a)) /\ WF_limiterVars(TakeTokens(a) \/ StopWaiting(a))
       /\ WF_limiterVars(a \in hungUp /\ Return(a))
-----------------------------------------------------------------------------
Those(where) == {a \in Askers : place[a] = where}

LimiterTypeOK ==
  /\ place \in [Askers -> {"idle", "refused", "slot", "tokens", "sending"}]
  /\ cost \in [Askers -> Nat]
  /\ tokens \in 0 .. limits.burst /\ elapsed \in 0 .. limits.burst
  /\ slots \in Nat
  /\ hungUp \subseteq Askers
  /\ meter \in Nat
  /\ open = Askers \ Those("idle")

(* Every slot is free or held by one request that waits for tokens or is   *)
(* under way, whatever was cancelled: the bound is never exceeded and      *)
(* never shrinks.                                                          *)
SlotsAreConserved ==
  Bounded => slots + Cardinality(Those("tokens") \cup Those("sending")) = limits.parallel

(* Over any period the bucket grants no more than it holds when full and   *)
(* what the period refills, however late it is refilled and read: the      *)
(* requests fill a leaking meter, which never overflows the burst.         *)
NeverOverdrawn == Kind = "bucket" => meter <= limits.burst

(* A request of any cost is sent or refused, and its reader, which ranges  *)
(* over the events until they are closed, goes on, with these exceptions:  *)
(* the server does not answer it, or those that hold every slot it could   *)
(* have; or it waits for tokens while others keep taking them, which the   *)
(* bucket, polled by all who wait, does not prevent.  No request waits for *)
(* more than the bucket can hold, and none whose turn was cancelled.       *)
Unheard == {a \in Askers : place[a] = "sending" /\ a \notin hungUp}
HeldUp(a) ==
  \/ a \in Unheard
  \/ place[a] = "slot" /\ Cardinality(Unheard) = limits.parallel
OthersTake(a) == \E b \in Askers \ {a} : TakeTokens(b) /\ Goes(b, "sending")

EveryAskEnds ==
  \A a \in Askers :
    <>[](a \in open) =>
      \/ <>[]HeldUp(a)
      \/ (<>[](place[a] = "tokens")) /\ ([]<><<OthersTake(a)>>_limiterVars)

(* Not so of this code: a request beside cheaper ones that never stop may  *)
(* find the bucket too low every time it looks.                            *)
EveryAskIsServed == \A a \in Askers : place[a] = "tokens" ~> place[a] # "tokens"

(* No slot is lost, and no more is spent than was earned.                  *)
LimiterIsFair == LimiterTypeOK /\ SlotsAreConserved /\ NeverOverdrawn
=============================================================================
