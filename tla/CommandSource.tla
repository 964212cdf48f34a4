--------------------------- MODULE CommandSource ---------------------------
(***************************************************************************)
(* The command source of a nexus channel                                   *)
(* (internal/app/nexus/source_command.go) with the processes it runs: the  *)
(* command itself leads a process group, and may leave a child in it that  *)
(* holds the same two pipes.                                               *)
(***************************************************************************)
EXTENDS Naturals, Sequences, FiniteSetsExt

CONSTANTS
  PipeSize,   \* what a pipe holds before its writer blocks
  Base, Cap,  \* restartBase and restartCap
  MaxRuns,    \* bound: incarnations of the command
  MaxOutput   \* bound: lines of one incarnation

ASSUME CommandAssumption ==
  /\ PipeSize \in Nat \ {0} /\ Base \in Nat \ {0} /\ Cap \in Nat /\ Base <= Cap
  /\ MaxRuns \in Nat /\ MaxOutput \in Nat

Processes == {"leader", "child"}
Streams   == {"stdout", "stderr"}
Outputs   == {"line", "long"}    \* long: more than the scanner's buffer

VARIABLES
  runner,     \* where runCommand is
  process,    \* none, running or gone
  blocked,    \* the stream a process is writing to, or "no"
  pipe, scanner,
  cancelled, backoff,
  runs, output,   \* counted for the bounds
  overlong,       \* history: this incarnation wrote more than a scanner takes
  uncapped,       \* history: the wait as it would be without the cap, 0 before the first
  lost,           \* history: lines thrown away at an exit
  strays          \* history: processes that outlived their incarnation

world       == <<process, blocked, pipe, output, overlong>>
commandVars == <<runner, world, scanner, cancelled, backoff, runs, uncapped, lost, strays>>

Running(p) == process[p] = "running"
Writers    == {p \in Processes : Running(p)}
Empty      == [s \in Streams |-> <<>>]
Still      == [p \in Processes |-> "no"]

CommandInit ==
  /\ runner = "spawn" /\ process = [p \in Processes |-> "none"] /\ blocked = Still
  /\ pipe = Empty /\ scanner = [s \in Streams |-> "off"]
  /\ cancelled = FALSE /\ backoff = Base /\ runs = 0 /\ output = 0
  /\ overlong = FALSE /\ uncapped = 0 /\ lost = FALSE /\ strays = FALSE
-----------------------------------------------------------------------------
(* The processes: a write blocks while the pipe is full, and an exit takes *)
(* a process that is not writing.                                          *)
Fork ==
  /\ Running("leader") /\ blocked["leader"] = "no" /\ process["child"] = "none"
  /\ process' = [process EXCEPT !["child"] = "running"]
  /\ UNCHANGED <<runner, blocked, pipe, output, overlong, scanner, cancelled, backoff, runs, uncapped, lost, strays>>

BeginWrite(p, s) ==
  /\ Running(p) /\ blocked[p] = "no" /\ output < MaxOutput
  /\ blocked' = [blocked EXCEPT ![p] = s] /\ output' = output + 1
  /\ UNCHANGED <<runner, process, pipe, overlong, scanner, cancelled, backoff, runs, uncapped, lost, strays>>

EndWrite(p, s, kind) ==
  /\ Running(p) /\ blocked[p] = s /\ Len(pipe[s]) < PipeSize
  /\ blocked' = [blocked EXCEPT ![p] = "no"]
  /\ pipe' = [pipe EXCEPT ![s] = Append(@, kind)]
  /\ overlong' = (overlong \/ kind = "long")
  /\ UNCHANGED <<runner, process, output, scanner, cancelled, backoff, runs, uncapped, lost, strays>>

Exit(p) ==
  /\ Running(p) /\ blocked[p] = "no"
  /\ process' = [process EXCEPT ![p] = "gone"]
  /\ UNCHANGED <<runner, blocked, pipe, output, overlong, scanner, cancelled, backoff, runs, uncapped, lost, strays>>

Killed(who) ==
  /\ process' = [p \in Processes |-> IF p \in who /\ Running(p) THEN "gone" ELSE process[p]]
  /\ blocked' = [p \in Processes |-> IF p \in who THEN "no" ELSE blocked[p]]
-----------------------------------------------------------------------------
(* CommandContext does not start once cancelled; a start can also fail.    *)
Spawn ==
  /\ runner = "spawn" /\ runs < MaxRuns /\ runs' = runs + 1
  /\ \/ /\ ~cancelled /\ runner' = "reading"
        /\ process' = [process EXCEPT !["leader"] = "running", !["child"] = "none"]
        /\ scanner' = [s \in Streams |-> "scanning"]
     \/ /\ runner' = "ended" /\ UNCHANGED <<process, scanner>>
  /\ blocked' = Still /\ pipe' = Empty /\ output' = 0 /\ overlong' = FALSE
  /\ UNCHANGED <<cancelled, backoff, uncapped, lost, strays>>

(* A line goes to ingest; one that is too long ends the scanner and leaves *)
(* the pipe as it is.                                                      *)
Scan(s) ==
  /\ scanner[s] = "scanning" /\ pipe[s] # <<>>
  /\ IF Head(pipe[s]) = "long"
     THEN scanner' = [scanner EXCEPT ![s] = "off"] /\ UNCHANGED pipe
     ELSE pipe' = [pipe EXCEPT ![s] = Tail(@)] /\ UNCHANGED scanner
  /\ UNCHANGED <<runner, process, blocked, output, overlong, cancelled, backoff, runs, uncapped, lost, strays>>

EndOfStream(s) ==
  /\ scanner[s] = "scanning" /\ pipe[s] = <<>> /\ Writers = {}
  /\ scanner' = [scanner EXCEPT ![s] = "off"]
  /\ UNCHANGED <<runner, world, cancelled, backoff, runs, uncapped, lost, strays>>

ScannersDone == \A s \in Streams : scanner[s] = "off"

(* Mutant: the exit of the command is awaited, not the end of its output.  *)
OutputReadAtExit ==
  /\ runner = "reading" /\ process["leader"] = "gone"
  /\ runner' = "waiting"
  /\ UNCHANGED <<world, scanner, cancelled, backoff, runs, uncapped, lost, strays>>

OutputRead ==
  /\ runner = "reading" /\ ScannersDone
  /\ runner' = "waiting"
  /\ UNCHANGED <<world, scanner, cancelled, backoff, runs, uncapped, lost, strays>>

(* The context ends: from a goroutine of the exec package the command is   *)
(* killed ...                                                              *)
Cancel ==
  /\ ~cancelled /\ cancelled' = TRUE
  /\ UNCHANGED <<runner, world, scanner, backoff, runs, uncapped, lost, strays>>

ContextKill ==
  /\ cancelled /\ Running("leader")
  /\ Killed({"leader"})
  /\ UNCHANGED <<runner, pipe, output, overlong, scanner, cancelled, backoff, runs, uncapped, lost, strays>>

(* ... and while the output is read, its whole group, the pipes closed.    *)
KillGroup ==
  /\ runner = "reading" /\ cancelled
  /\ Killed(Processes) /\ runner' = "closing"
  /\ pipe' = Empty /\ scanner' = [s \in Streams |-> "off"]
  /\ UNCHANGED <<output, overlong, cancelled, backoff, runs, uncapped, lost, strays>>

Closed ==
  /\ runner = "closing" /\ ScannersDone /\ runner' = "waiting"
  /\ UNCHANGED <<world, scanner, cancelled, backoff, runs, uncapped, lost, strays>>

(* Wait: the command has exited, and the read ends of the pipes go.  What  *)
(* still writes to them gets SIGPIPE.                                      *)
Reap ==
  /\ runner = "waiting" /\ process["leader"] = "gone" /\ runner' = "ended"
  /\ lost' = (lost \/ (~cancelled /\ ~overlong /\ \E s \in Streams : pipe[s] # <<>>))
  /\ strays' = (strays \/ (~overlong /\ Running("child")))
  /\ Killed(Processes)
  /\ pipe' = Empty /\ scanner' = [s \in Streams |-> "off"]
  /\ UNCHANGED <<output, overlong, cancelled, backoff, runs, uncapped>>

Doubled == Min({2 * backoff, Cap})

(* The wait before a restart, from the base again after a healthy run; it  *)
(* doubles behind it.                                                      *)
Again(healthy) ==
  /\ runner = "ended" /\ ~cancelled /\ runner' = "restarting"
  /\ backoff' = IF healthy THEN Base ELSE backoff
  /\ uncapped' = IF healthy \/ uncapped = 0 THEN Base ELSE 2 * uncapped
  /\ UNCHANGED <<world, scanner, cancelled, runs, lost, strays>>

Restart ==
  /\ runner = "restarting" /\ runner' = "spawn"
  /\ backoff' = Doubled
  /\ UNCHANGED <<world, scanner, cancelled, runs, uncapped, lost, strays>>

Stopped ==
  /\ cancelled /\ runner \in {"ended", "restarting"} /\ runner' = "stopped"
  /\ UNCHANGED <<world, scanner, cancelled, backoff, runs, uncapped, lost, strays>>

RunnerStep ==
  \/ Spawn \/ OutputRead \/ KillGroup \/ Closed \/ Reap
  \/ Again(TRUE) \/ Again(FALSE) \/ Restart \/ Stopped

ScannerStep == \E s \in Streams : Scan(s) \/ EndOfStream(s)

ProcessStep ==
  \/ Fork \/ \E p \in Processes : Exit(p)
  \/ \E p \in Processes, s \in Streams :
       BeginWrite(p, s) \/ \E kind \in Outputs : EndWrite(p, s, kind)

CommandNext == RunnerStep \/ ScannerStep \/ ProcessStep \/ Cancel \/ ContextKill

(* The processes owe nothing: they may run, or be blocked, for ever.       *)
CommandSpec ==
  /\ CommandInit /\ [][CommandNext]_commandVars
  /\ WF_commandVars(RunnerStep) /\ WF_commandVars(ScannerStep) /\ WF_commandVars(ContextKill)
-----------------------------------------------------------------------------
CommandTypeOK ==
  /\ runner \in {"spawn", "reading", "closing", "waiting", "ended", "restarting", "stopped"}
  /\ process \in [Processes -> {"none", "running", "gone"}]
  /\ blocked \in [Processes -> Streams \cup {"no"}]
  /\ \A p \in Processes : blocked[p] # "no" => Running(p)
  /\ \A s \in Streams : Len(pipe[s]) <= PipeSize
  /\ backoff \in Base .. Cap

(* No line written before the command's end is thrown away by reaping it.  *)
OutputIsRead == ~lost

(* No process outlives its incarnation holding the pipes, so that two of   *)
(* them never feed one channel.                                            *)
NoStrays == ~strays

(* The wait before a restart is the base, doubled with every restart in a  *)
(* row, and never more than the cap.                                       *)
WaitsGrow == runner = "restarting" => backoff = Min({Cap, uncapped})

(* A cancelled source stops, whatever its processes do: a full pipe, a     *)
(* blocked child and a scanner that gave up included.                      *)
CancelStops == cancelled ~> (runner = "stopped" \/ (runner = "spawn" /\ runs = MaxRuns))

(* A command whose processes are gone is run again, what a scanner gave up *)
(* on included.                                                            *)
DeadIsRestarted ==
  (runner = "reading" /\ Writers = {}) ~> (runner = "spawn" \/ cancelled)

(* Unless a line was too long to be read, all a command prints is read,    *)
(* and no process that holds its pipes outlives it; and it is started      *)
(* again when it dies, ever more slowly.                                   *)
CommandIsKept == CommandTypeOK /\ OutputIsRead /\ NoStrays /\ WaitsGrow
=============================================================================
