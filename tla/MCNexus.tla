------------------------------ MODULE MCNexus ------------------------------
(* The nexus in one run: the trigger and the queue it wakes, the two kinds *)
(* of source beside what they read, and the channels with their rings.     *)
(* `part` says which of them moves; the others stay where they began.      *)
EXTENDS NexusWake, FileTail, CommandSource, NexusChannels

CONSTANTS q1, w1, w2, c1

\* A query that keeps the agent busy, two wakes, and a channel that fails twice, so that
\* it is notified again while its own wake is under way.
OneQuery   == {q1}
TwoWakes   == {w1, w2}
OneChannel == {c1}

\* Every single channel, right or wrong, and pairs of two that are alike.
Single == [name : {"app", "no name"}, type : Types \cup {"syslog"}, target : BOOLEAN,
           pattern : {"default", "invalid"}, size : {-1, 0, 2}]
Hooked == [name : ValidNames, type : {"webhook", "command"}, target : {TRUE},
           pattern : {"default"}, size : {0, 2}]
YamlFiles == {<<>>} \cup {<<c>> : c \in Single} \cup {<<c, d>> : c, d \in Hooked}

VARIABLE part

suiteVars == <<part, allVars, tailVars, commandVars, channelVars>>

SuiteInit ==
  /\ part \in {"wake", "tail", "command", "channels"}
  /\ NexusInit /\ TailInit /\ CommandInit /\ ChannelsInit
  /\ part # "tail" => path = 0
  /\ part # "channels" => yaml = <<>>

SuiteNext ==
  \/ part = "wake" /\ NexusNext /\ UNCHANGED <<part, tailVars, commandVars, channelVars>>
  \/ part = "tail" /\ TailNext /\ UNCHANGED <<part, allVars, commandVars, channelVars>>
  \/ part = "command" /\ CommandNext /\ UNCHANGED <<part, allVars, tailVars, channelVars>>
  \/ part = "channels" /\ ChannelsNext /\ UNCHANGED <<part, allVars, tailVars, commandVars>>

SuiteSpec ==
  /\ SuiteInit /\ [][SuiteNext]_suiteVars
  /\ \A c \in Channels : WF_allVars(part = "wake" /\ (Suppress(c) \/ Notify(c)))
  /\ \A a \in Callers : WF_allVars(part = "wake" /\ FireStep(a))
  /\ \A r \in Requests : WF_allVars(part = "wake" /\ QueueIdle(r))
                         /\ WF_allVars(part = "wake" /\ RunStep(r) /\ UNCHANGED triggerVars)
  /\ WF_tailVars(part = "tail" /\ TailStep)
  /\ WF_commandVars(part = "command" /\ RunnerStep)
  /\ WF_commandVars(part = "command" /\ ScannerStep)
  /\ WF_commandVars(part = "command" /\ ContextKill)
-----------------------------------------------------------------------------
(* The nexus answers: an error that pends wakes the agent, a line that     *)
(* stays in its file is ingested, a cancelled command stops, one whose     *)
(* processes are gone is run again, and who reads or searches a channel    *)
(* gets the newest there is.                                               *)
NexusServes ==
  []AnswersAreNewest /\ PendingIsFlushed /\ LineArrives /\ CancelStops /\ DeadIsRestarted
=============================================================================
