---------------------------- MODULE BetweenTurns ----------------------------
(***************************************************************************)
(* The harness's between-turns operations (internal/harness/harness.go,    *)
(* served to any HTTP client by api/controls.go) beside the turn loop of   *)
(* AgentLoop.  Each looks at the loop's state machine once, and then acts  *)
(* on the context store; no lock spans the two, and none is held by the    *)
(* turn.                                                                   *)
(***************************************************************************)
EXTENDS AgentLoop

VARIABLE control   \* the operation that has found the agent idle

Controls == {"none", "clear", "resume", "compact"}
controlledVars == <<vars, control>>

ControlInit == Init /\ control = "none"

(* The transcripts session.Load can bring back: what was said, and tool    *)
(* results as prose, never a tool_use; the last turn may have failed.      *)
Saved == {<<Says("query")>>, <<Says("query"), Says("answer")>>,
          <<Says("summary"), Says("ack"), Says("steer")>>}

(* idle(): a busy agent refuses, and nothing changes.                      *)
FindIdle(op) ==
  /\ control = "none" /\ IdleReport
  /\ control' = op
  /\ UNCHANGED vars

Finish(op) == control = op /\ control' = "none"

Clear ==
  /\ Finish("clear")
  /\ msgs' = <<>> /\ pending' = {}
  /\ UNCHANGED <<loopVars, unrecorded, steerVars>>

Resume ==
  /\ Finish("resume")
  /\ msgs' \in Saved /\ pending' = {}
  /\ UNCHANGED <<loopVars, unrecorded, steerVars>>

(* A session that is not there, or cannot be read.                         *)
ResumeFails == Finish("resume") /\ UNCHANGED vars

(* Mutant: the pending calls are taken to be in the summary.               *)
CompactForgetful ==
  /\ Finish("compact")
  /\ msgs' = Compress(msgs) /\ pending' = {}
  /\ UNCHANGED <<loopVars, unrecorded, steerVars>>

(* The summarizer runs under the store's lock, and may fail.               *)
Compact ==
  /\ Finish("compact")
  /\ msgs' \in {msgs, Compress(msgs)}
  /\ UNCHANGED <<loopVars, pending, unrecorded, steerVars>>

ControlNext ==
  \/ Next /\ UNCHANGED control
  \/ \E op \in Controls \ {"none"} : FindIdle(op)
  \/ Clear \/ Resume \/ ResumeFails \/ Compact

ControlSpec == ControlInit /\ [][ControlNext]_controlledVars
-----------------------------------------------------------------------------
(* "Only between turns": from the moment an operation has found the agent  *)
(* idle until it has acted, no turn is running.                            *)
ActsBetweenTurns == control # "none" => pc = "idle"
=============================================================================
