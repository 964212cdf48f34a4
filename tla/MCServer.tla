------------------------------ MODULE MCServer ------------------------------
(* What the server's clients share, in one run: the turn queue, the file   *)
(* of the conversation, the streams of its events, and the board of its    *)
(* agents.  `part` names the model that moves in a behaviour, the others   *)
(* stay where they began.  The models share nothing, so nothing is lost by *)
(* not mixing their steps, and their states add up instead of multiplying. *)
EXTENDS TurnQueue, ConversationRecord, EventStream, Blackboard

CONSTANTS q1, q2, w1

TwoQueries == {q1, q2}
OneWake    == {w1}

VARIABLE part

serverVars == <<part, vars, recordVars, streamVars, boardVars>>

ServerInit ==
  /\ part \in {"queue", "record", "stream", "board"}
  /\ part # "stream" => follows = [c \in Followers |-> "events"]
  /\ Init /\ RecordInit /\ StreamInit /\ BoardInit

ServerNext ==
  \/ part = "queue" /\ Next /\ UNCHANGED <<part, recordVars, streamVars, boardVars>>
  \/ part = "record" /\ RecordNext /\ UNCHANGED <<part, vars, streamVars, boardVars>>
  \/ part = "stream" /\ StreamNext /\ UNCHANGED <<part, vars, recordVars, boardVars>>
  \/ part = "board" /\ BoardNext /\ UNCHANGED <<part, vars, recordVars, streamVars>>

(* The fairness of TurnQueue's Spec, of RecordSpec, of StreamSpec and of   *)
(* BoardSpec.                                                              *)
ServerSpec ==
  /\ ServerInit /\ [][ServerNext]_serverVars
  /\ \A r \in Requests : WF_vars(part = "queue" /\ TurnStep(r))
  /\ WF_streamVars(part = "stream" /\ Take) /\ WF_streamVars(part = "stream" /\ ObserveJob)
  /\ WF_streamVars(part = "stream" /\ ForwardJob) /\ WF_streamVars(part = "stream" /\ Totals)
  /\ \A c \in Followers : SF_streamVars(part = "stream" /\ EndStream(c))
  /\ WF_boardVars(part = "board" /\ GoStep) /\ WF_boardVars(part = "board" /\ PyStep)
  /\ WF_boardVars(part = "board" /\ TimesOut)
  /\ \A p \in Prompts : WF_boardVars(part = "board" /\ (Asks(p) \/ AnswerIn(p)))
  /\ WF_recordVars(part = "record" /\ Dispatch) /\ WF_recordVars(part = "record" /\ PersisterStops)
  /\ \A c \in Clients :
       /\ SF_recordVars(part = "record" /\ StopsPersister(c))
       /\ WF_recordVars(part = "record" /\ OpensStore(c))

(* Everybody goes on: accepted work is served, a rotation ends and gives   *)
(* its lock back, no client holds up the events, closing the broadcaster   *)
(* ends every stream whose writes end, and every call of the board returns *)
(* unless its process is Abandoned.                                        *)
EverybodyGoesOn ==
  /\ AcceptedIsServed /\ LineMovesOn /\ RotationEnds /\ NobodyHoldsUp /\ StreamsEnd
  /\ CallsReturn
=============================================================================
