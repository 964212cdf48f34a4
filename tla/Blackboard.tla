---------------------------- MODULE Blackboard ----------------------------
(***************************************************************************)
(* The shared Python REPL (internal/features/blackboard): Go callers take  *)
(* turns under one mutex and speak JSON lines with one Python process,     *)
(* which calls back for language models and files while it runs their      *)
(* code.  Of the namespace, the top-level slots of bb: "none", a "dict", a *)
(* "result" deposited in the dict, or other "data".                        *)
(***************************************************************************)
EXTENDS Integers, Sequences, FiniteSets

CONSTANTS
  Agents,
  Prompts,        \* of an llm_batch
  MaxConcurrent,
  MaxBoardCalls,  \* bound: calls of Execute and Deposit
  MaxCallbacks,   \* bound: callbacks of one piece of code
  MaxKills        \* bound: processes killed from outside

ASSUME BoardAssumption ==
  /\ MaxConcurrent \in Nat \ {0} /\ MaxBoardCalls \in Nat
  /\ MaxCallbacks \in Nat /\ MaxKills \in Nat /\ IsFiniteSet(Prompts)
  /\ Agents \cap {"nobody", "closer", "None"} = {}

VARIABLES
  holder,     \* of mu
  kind,       \* "execute", "deposit" or "close"
  goAt,       \* where the holder is
  message,    \* the message it has under way: "setup", "set_var" or "exec"
  dying,      \* its context is cancelled
  started, closed,
  told,       \* what the last call of each agent returned
  boardCalls, kills,
  py,         \* the process: "none", "recv", "exec", "calling", "wait", "stuck" or "dead"
  running,    \* the call whose code it runs
  alarm,
  asked,      \* callbacks of that code
  stray,      \* its code has printed something that is no message
  writer,     \* _BB._writer
  bb,         \* the slots
  toPy, fromPy,   \* the pipes
  jobs        \* the queries of the callback being answered

goVars    == <<holder, kind, goAt, message, dying, started, closed, told, boardCalls, kills>>
pyVars    == <<py, running, alarm, asked, stray, writer, bb>>
boardVars == <<goVars, pyVars, toPy, fromPy, jobs>>

Msg(type, n) == [type |-> type, of |-> n]
NoSlots == [a \in Agents |-> "none"]
NoJobs  == [p \in Prompts |-> "none"]

BoardInit ==
  /\ holder = "nobody" /\ kind = "none" /\ goAt = "idle" /\ message = "none" /\ dying = FALSE
  /\ started = FALSE /\ closed = FALSE /\ told = [a \in Agents |-> "nothing"]
  /\ boardCalls = 0 /\ kills = 0
  /\ py = "none" /\ running = 0 /\ alarm = FALSE /\ asked = 0 /\ stray = FALSE
  /\ writer = "None" /\ bb = NoSlots
  /\ toPy = <<>> /\ fromPy = <<>> /\ jobs = NoJobs

Unlocked ==
  /\ holder' = "nobody" /\ kind' = "none" /\ goAt' = "idle" /\ message' = "none" /\ dying' = FALSE

Tell(what) == told' = [a \in Agents |-> IF a = holder THEN what ELSE told[a]]
-----------------------------------------------------------------------------
(* The Go side.                                                            *)
(* Execute and Deposit up to ensureStartedLocked: a closed board refuses.  *)
BoardCall(a, k) ==
  /\ holder = "nobody" /\ boardCalls < MaxBoardCalls /\ boardCalls' = boardCalls + 1
  /\ \/ /\ closed /\ told' = [told EXCEPT ![a] = "error"] /\ UNCHANGED <<holder, kind, goAt>>
     \/ /\ ~closed /\ holder' = a /\ kind' = k /\ goAt' = "start" /\ UNCHANGED told
  /\ UNCHANGED <<message, dying, started, closed, kills, pyVars, toPy, fromPy, jobs>>

Cancels ==
  /\ holder \in Agents /\ ~dying /\ dying' = TRUE
  /\ UNCHANGED <<holder, kind, goAt, message, started, closed, told, boardCalls, kills,
                 pyVars, toPy, fromPy, jobs>>

FirstPhase == IF kind = "deposit" THEN "set_var" ELSE "exec"

(* Starts: the process and the setup code, once.                           *)
Starts ==
  /\ goAt = "start"
  /\ \/ /\ started /\ goAt' = "send" /\ message' = FirstPhase
        /\ UNCHANGED <<holder, kind, dying, told, pyVars>>
     \/ /\ ~started /\ goAt' = "send" /\ message' = "setup"
        /\ py' = "recv" /\ running' = 0 /\ alarm' = FALSE /\ asked' = 0
        /\ stray' = FALSE /\ writer' = "None" /\ bb' = NoSlots
        /\ UNCHANGED <<holder, kind, dying, told>>
     \/ ~started /\ Unlocked /\ Tell("error") /\ UNCHANGED pyVars      \* no python3
  /\ UNCHANGED <<started, closed, boardCalls, kills, toPy, fromPy, jobs>>

(* A write to a process that is gone fails.                                *)
Sends ==
  /\ goAt = "send"
  /\ IF py = "dead" THEN goAt' = "reset" /\ UNCHANGED toPy
                    ELSE goAt' = "check" /\ toPy' = Append(toPy, Msg(message, boardCalls))
  /\ UNCHANGED <<holder, kind, message, dying, started, closed, told, boardCalls, kills,
                 pyVars, fromPy, jobs>>

(* readUntilResult looks at the context between two lines only, and at no  *)
(* context for a set_var; it kills the process whose call was cancelled.   *)
Checks ==
  /\ goAt = "check"
  /\ IF dying /\ message # "set_var" THEN goAt' = "reset" /\ py' = "dead"
                                   ELSE goAt' = "scan" /\ UNCHANGED py
  /\ UNCHANGED <<holder, kind, message, dying, started, closed, told, boardCalls, kills,
                 running, alarm, asked, stray, writer, bb, toPy, fromPy, jobs>>

(* The next phase of the call, or its return.                              *)
Advances ==
  \/ /\ message = "setup" /\ goAt' = "send" /\ message' = FirstPhase /\ started' = TRUE
  \/ /\ message = "set_var" /\ goAt' = "send" /\ message' = "exec" /\ UNCHANGED started
  \/ /\ message = "exec" /\ goAt' = "return" /\ UNCHANGED <<message, started>>

(* A line that is no message ends the call, and one that is too long to    *)
(* be read - an agent's code decides how long - ends the process with it.  *)
ScansBad ==
  /\ goAt = "scan" /\ fromPy # <<>> /\ fromPy' = Tail(fromPy) /\ goAt' = "reset"
  /\ \/ Head(fromPy).type = "raw" /\ UNCHANGED py
     \/ kind = "execute" /\ message = "exec" /\ py' = "dead"
  /\ UNCHANGED <<holder, kind, message, dying, started, closed, told, boardCalls, kills,
                 running, alarm, asked, stray, writer, bb, toPy, jobs>>

Scans ==
  /\ goAt = "scan" /\ fromPy # <<>> /\ fromPy' = Tail(fromPy)
  /\ \/ /\ Head(fromPy).type = "debug" /\ goAt' = "check" /\ UNCHANGED <<message, started, jobs>>
     \/ /\ Head(fromPy).type = "result" /\ Advances /\ UNCHANGED jobs
     \/ /\ Head(fromPy).type = "read_file" /\ goAt' = "answer" /\ UNCHANGED <<message, started, jobs>>
     \/ /\ Head(fromPy).type = "sub_lm_batch" /\ goAt' = "answer"
        /\ jobs' = [p \in Prompts |-> "waiting"] /\ UNCHANGED <<message, started>>
  /\ UNCHANGED <<holder, kind, dying, closed, told, boardCalls, kills, pyVars, toPy>>

FindsEnd ==
  /\ goAt = "scan" /\ fromPy = <<>> /\ py = "dead" /\ goAt' = "reset"
  /\ UNCHANGED <<holder, kind, message, dying, started, closed, told, boardCalls, kills,
                 pyVars, toPy, fromPy, jobs>>

BoardReturns ==
  /\ goAt = "return" /\ Unlocked /\ Tell("ok")
  /\ UNCHANGED <<started, closed, boardCalls, kills, pyVars, toPy, fromPy, jobs>>

(* A query of a batch, under the semaphore.                                *)
Asks(p) ==
  /\ goAt = "answer" /\ jobs[p] = "waiting"
  /\ Cardinality({q \in Prompts : jobs[q] = "asking"}) < MaxConcurrent
  /\ jobs' = [jobs EXCEPT ![p] = "asking"]
  /\ UNCHANGED <<goVars, pyVars, toPy, fromPy>>

AnswerIn(p) ==
  /\ jobs[p] = "asking" /\ jobs' = [jobs EXCEPT ![p] = "none"]
  /\ UNCHANGED <<goVars, pyVars, toPy, fromPy>>

(* The callback's answer, once every query of a batch is back.             *)
CallbackDone ==
  /\ goAt = "answer" /\ jobs = NoJobs
  /\ IF py = "dead" THEN goAt' = "reset" /\ UNCHANGED toPy
                    ELSE goAt' = "check" /\ toPy' = Append(toPy, Msg("callback_result", asked))
  /\ UNCHANGED <<holder, kind, message, dying, started, closed, told, boardCalls, kills,
                 pyVars, fromPy, jobs>>

(* REPL.Close: a shutdown message, then the end of the process, which has  *)
(* its input and its output as before, but nobody who reads.               *)
AsksToStop ==
  /\ goAt = "reset" /\ goAt' = "closing"
  /\ toPy' = IF py = "dead" THEN toPy ELSE Append(toPy, Msg("shutdown", 0))
  /\ UNCHANGED <<holder, kind, message, dying, started, closed, told, boardCalls, kills,
                 pyVars, fromPy, jobs>>

Stopped ==
  /\ goAt = "closing" /\ py = "dead"
  /\ Unlocked /\ started' = FALSE /\ Tell("error")
  /\ py' = "none" /\ running' = 0 /\ alarm' = FALSE /\ asked' = 0 /\ stray' = FALSE
  /\ writer' = "None" /\ bb' = NoSlots /\ toPy' = <<>> /\ fromPy' = <<>>
  /\ UNCHANGED <<closed, boardCalls, kills, jobs>>

(* Close: no call is under way, and none follows.                          *)
Closes ==
  /\ holder = "nobody" /\ ~closed /\ closed' = TRUE
  /\ IF started THEN holder' = "closer" /\ kind' = "close" /\ goAt' = "reset"
                ELSE UNCHANGED <<holder, kind, goAt>>
  /\ UNCHANGED <<message, dying, started, told, boardCalls, kills, pyVars, toPy, fromPy, jobs>>
-----------------------------------------------------------------------------
(* The Python side.                                                        *)
Prints(m) == fromPy' = Append(fromPy, m)

(* Mutant: the code runs under the writer of the code before.              *)
ArmedLate == IF kind = "deposit" THEN writer ELSE IF writer = "None" THEN holder ELSE writer

(* The line Execute puts before the code; a deposit has none.              *)
Armed == IF kind = "deposit" THEN writer ELSE holder

(* The message loop.  A callback_result that comes after its code has      *)
(* ended is passed over.                                                   *)
Receives ==
  /\ py = "recv" /\ toPy # <<>> /\ toPy' = Tail(toPy)
  /\ LET m == Head(toPy) IN
     \/ /\ m.type = "setup" /\ Prints(Msg("result", m.of))
        /\ bb' = [a \in Agents |-> IF a = "main" THEN "dict" ELSE "none"]
        /\ UNCHANGED <<py, running, alarm, asked, stray, writer>>
     \/ /\ m.type = "set_var" /\ Prints(Msg("result", m.of)) /\ UNCHANGED pyVars
     \/ /\ m.type = "exec" /\ Prints(Msg("debug", m.of))
        /\ py' = "exec" /\ running' = m.of /\ alarm' = TRUE /\ asked' = 0 /\ writer' = Armed
        /\ UNCHANGED <<stray, bb>>
     \/ /\ m.type = "callback_result" /\ UNCHANGED <<pyVars, fromPy>>
     \/ /\ m.type = "shutdown" /\ py' = "dead"
        /\ UNCHANGED <<running, alarm, asked, stray, writer, bb, fromPy>>
  /\ UNCHANGED <<goVars, jobs>>

EndsWith ==
  /\ py' = "recv" /\ alarm' = FALSE /\ Prints(Msg("result", running)) /\ asked' = 0
  /\ UNCHANGED <<running, stray, toPy, goVars, jobs>>

(* An agent's code: it ends, by itself or on an exception.                 *)
CodeEnds == py = "exec" /\ kind = "execute" /\ EndsWith /\ UNCHANGED <<writer, bb>>

(* _check: item assignment, deletion and setdefault create and replace the *)
(* writer's own slot only; update, pop and the other methods of dict any.  *)
Methods == {"setitem", "update"}

Puts(a, what, method) ==
  /\ py = "exec" /\ kind = "execute" /\ (method = "setitem" => writer \in {"None", a})
  /\ bb' = [bb EXCEPT ![a] = what]
  /\ UNCHANGED <<goVars, py, running, alarm, asked, stray, writer, toPy, fromPy, jobs>>

(* re.DEBUG, help: what writes to the real stdout, past the captured one.  *)
(* Bound: once, as the first such line ends the call.                      *)
Strays ==
  /\ py = "exec" /\ kind = "execute" /\ ~stray /\ stray' = TRUE /\ Prints(Msg("raw", 0))
  /\ UNCHANGED <<goVars, py, running, alarm, asked, writer, bb, toPy, jobs>>

(* A write to a pipe that is full and that nobody reads.                   *)
Chokes ==
  /\ py \in {"exec", "calling"} /\ kind = "execute" /\ goAt \in {"reset", "closing"}
  /\ py' = "stuck" /\ alarm' = FALSE
  /\ UNCHANGED <<goVars, running, asked, stray, writer, bb, toPy, fromPy, jobs>>

(* dict.setdefault(bb, slot, {})[key] = value raises where the slot holds  *)
(* something else, and the exception goes to a stdout nobody reads.        *)
RunsDeposit ==
  /\ py = "exec" /\ kind = "deposit" /\ EndsWith
  /\ bb' = [bb EXCEPT ![holder] = IF @ = "data" THEN @ ELSE "result"]
  /\ UNCHANGED writer

CallsBack(type) ==
  /\ py = "exec" /\ kind = "execute" /\ asked < MaxCallbacks /\ asked' = asked + 1
  /\ py' = "calling" /\ Prints(Msg(type, asked + 1))
  /\ UNCHANGED <<goVars, running, alarm, stray, writer, bb, toPy, jobs>>

(* _recv inside the code: the alarm is held while it waits.                *)
Waits ==
  /\ py = "calling" /\ py' = "wait" /\ alarm' = FALSE
  /\ UNCHANGED <<goVars, running, asked, stray, writer, bb, toPy, fromPy, jobs>>

(* Any message is taken for the answer; one without a result raises, and   *)
(* the code goes on from there.                                            *)
GoesOn ==
  /\ py = "wait" /\ toPy # <<>> /\ toPy' = Tail(toPy) /\ py' = "exec" /\ alarm' = TRUE
  /\ UNCHANGED <<goVars, running, asked, stray, writer, bb, fromPy, jobs>>

(* The alarm ends the code wherever it is, also between a callback's       *)
(* message and the wait for its answer.                                    *)
TimesOut ==
  /\ alarm /\ py \in {"exec", "calling"} /\ kind = "execute" /\ EndsWith
  /\ UNCHANGED <<writer, bb>>

(* SystemExit in the code, or a kill from outside.                         *)
Dies ==
  /\ \/ py = "exec" /\ kind = "execute" /\ UNCHANGED kills
     \/ py \notin {"none", "dead"} /\ kills < MaxKills /\ kills' = kills + 1
  /\ py' = "dead"
  /\ UNCHANGED <<holder, kind, goAt, message, dying, started, closed, told, boardCalls,
                 running, alarm, asked, stray, writer, bb, toPy, fromPy, jobs>>
-----------------------------------------------------------------------------
GoStep ==
  \/ Starts \/ Sends \/ Checks \/ Scans \/ ScansBad \/ FindsEnd \/ BoardReturns \/ CallbackDone
  \/ AsksToStop \/ Stopped

PyStep == Receives \/ RunsDeposit \/ Waits \/ GoesOn

BoardNext ==
  \/ \E a \in Agents :
       \/ BoardCall(a, "execute") \/ BoardCall(a, "deposit")
       \/ \E what \in {"dict", "data", "none"}, method \in Methods : Puts(a, what, method)
  \/ Cancels \/ Closes \/ GoStep
  \/ \E p \in Prompts : Asks(p) \/ AnswerIn(p)
  \/ PyStep \/ CodeEnds \/ CallsBack("read_file") \/ CallsBack("sub_lm_batch") \/ Strays \/ Chokes
  \/ TimesOut \/ Dies

(* The agents' code is under no fairness: it may run for ever.  The alarm  *)
(* goes off all the same, and a query is answered (StreamCall).            *)
BoardFairness ==
  /\ WF_boardVars(GoStep) /\ WF_boardVars(PyStep) /\ WF_boardVars(TimesOut)
  /\ \A p \in Prompts : WF_boardVars(Asks(p) \/ AnswerIn(p))

BoardSpec == BoardInit /\ [][BoardNext]_boardVars /\ BoardFairness
-----------------------------------------------------------------------------
BoardTypeOK ==
  /\ holder \in Agents \cup {"nobody", "closer"}
  /\ goAt = "idle" <=> holder = "nobody"
  /\ py \in {"none", "recv", "exec", "calling", "wait", "stuck", "dead"}
  /\ alarm => py \in {"exec", "calling", "dead"}
  /\ py \in {"exec", "calling", "wait", "stuck"} => holder \in Agents
  /\ \A a \in Agents : bb[a] \in {"none", "dict", "data", "result"}

(* A call only ever reads lines written for it: nothing an earlier one     *)
(* left behind - a call cancelled, a code timed out in a callback - is     *)
(* taken for its result.                                                   *)
ResultIsOwn == \A i \in DOMAIN fromPy : fromPy[i].type = "result" => fromPy[i].of = boardCalls

(* A piece of code that waits for a callback gets the answer to that       *)
(* callback, or, once a line of its that is no message has ended the call, *)
(* the message that should end the process.                                *)
AnswerIsOwn ==
  py = "wait" /\ toPy # <<>> =>
    \/ Head(toPy) = Msg("callback_result", asked)
    \/ stray /\ goAt = "closing" /\ Head(toPy).type = "shutdown"

(* No query of a batch outlives its callback, and no more of them run at   *)
(* once than llm_batch allows.                                             *)
QueriesAreBounded ==
  /\ goAt # "answer" => jobs = NoJobs
  /\ Cardinality({p \in Prompts : jobs[p] = "asking"}) <= MaxConcurrent

(* Between two calls there is a process exactly when the board counts as   *)
(* started, and none after Close: no path loses track of one.              *)
NoOrphan ==
  holder = "nobody" => /\ started <=> py # "none"
                       /\ closed => py = "none"

(* While an agent's code runs, the guard of bb knows it for that agent,    *)
(* whatever ran before: code of others, a deposit, a process that died.    *)
GuardIsArmed == py \in {"exec", "calling", "wait"} /\ kind = "execute" => writer = holder

(* Every call returns, and so does Close: cancelled or not, whatever the   *)
(* code does - short of calling back for ever or of catching its timeout - *)
(* and whenever the process dies; with one exception.  The process of a    *)
(* call that ended on a line that is no message may never end: its code    *)
(* took the shutdown message for an answer, or its output is full.         *)
Abandoned ==
  stray /\ goAt = "closing" /\ (py = "stuck" \/ (py \in {"recv", "wait"} /\ toPy = <<>>))

CallsReturn == holder # "nobody" ~> holder = "nobody" \/ Abandoned

(* Not so of this code, where the mutex is held for ever then.             *)
BoardIsFreed == holder # "nobody" ~> holder = "nobody"

(* "creating/replacing a top-level key that isn't your own slot raises"    *)
(* (blackboard.go:28-29): not by update, |=, pop, popitem and clear.       *)
SlotsAreTheirs ==
  [][\A a \in Agents : bb[a]' # bb[a] /\ py = "exec" /\ kind = "execute" => holder = a]_boardVars

(* "Deposit stores value at bb[slot][key] and returns its Preview"         *)
(* (blackboard.go:194).                                                    *)
DepositIsThere == goAt = "return" /\ kind = "deposit" => bb[holder] = "result"

(* Agents that share the board get their own results, their callbacks      *)
(* their own answers, never more queries at once than allowed; no process  *)
(* is left behind, and the guard judges code by its own agent.             *)
BoardIsSound ==
  BoardTypeOK /\ ResultIsOwn /\ AnswerIsOwn /\ QueriesAreBounded /\ NoOrphan /\ GuardIsArmed
=============================================================================
