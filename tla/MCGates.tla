------------------------------ MODULE MCGates ------------------------------
(* Everything a tool call passes on its way, and the agents it spawns,     *)
(* checked in one run: `part` names the model that moves in a behaviour,   *)
(* the others stay where they began.  The models share nothing, so nothing *)
(* is lost by not mixing their steps, and their states add up instead of   *)
(* multiplying.                                                            *)
EXTENDS ToolBatch, SystemOne, Transcripts, ShellAnalysis, GlobMatch,
        AgentTree

CONSTANTS s1, s2, m1, m2

TwoChildren == {s1, s2}
TwoModels   == {m1, m2}

SomeBatches ==
  {<<IssuedCall("advisor", FALSE)>>, <<IssuedCall("write", TRUE)>>,
   <<IssuedCall("read", TRUE), IssuedCall("plan", FALSE)>>,
   <<IssuedCall("write", FALSE), IssuedCall("advisor", FALSE)>>,
   <<IssuedCall("exempt", FALSE), IssuedCall("status", FALSE)>>}

TwoLengths == {0, 4}
FourBytes  == {"a", "b", Star, AnyByte}

(* Command lines: four simple commands, and fourteen ways to run another   *)
(* command from inside one, up to two of them around each other; the last  *)
(* three are overlooked.                                                   *)
Simple ==
  {<<Call(<<Word("rm")>>, <<>>)>>,
   <<Call(<<Word("ls")>>, <<Redirect(">", Word("f"))>>)>>,
   <<Call(<<Expansion(<<>>)>>, <<>>)>>,
   <<Call(<<Word("git"), Word("-C"), Word("d"), Word("push")>>, <<>>)>>}

Around(ss) ==
  {<<Group(<<>>, <<>>, ss)>>,
   <<Group(<<Expansion(ss)>>, <<>>, <<>>)>>,
   <<Group(<<>>, <<Redirect(">", Expansion(ss))>>, <<Call(<<Word("ls")>>, <<>>)>>)>>,
   <<Call(<<Word("ls"), Expansion(ss)>>, <<Redirect("<", Word("f"))>>)>>,
   <<Call(<<Expansion(ss)>>, <<>>)>>,
   <<Call(<<Word("bash"), Word("--norc"), Word("-c"), Script(ss)>>, <<>>)>>,
   <<Call(<<Word("sudo"), Word("-u"), Word("u"), Word("bash"), Word("-lc"), Script(ss)>>, <<>>)>>,
   <<Call(<<Word("eval"), Script(ss)>>, <<>>)>>,
   <<Call(<<Word("find"), Word("."), Word("-exec"), Word("sh"), Word("-c"), Script(ss), Word(";")>>, <<>>)>>,
   <<Call(<<Word("timeout"), Word("5"), Word("env"), Word("K=v"), Word("sh"), Word("-c"), Script(ss)>>, <<>>)>>,
   <<Call(<<Word("bash"), Expansion(<<>>), Word("-c"), Script(ss)>>, <<>>)>>,
   <<Call(<<Word("env"), Word("-S"), Script(ss)>>, <<>>)>>,
   <<Call(<<Word("bash"), Word("-c"), Escaped(ss)>>, <<>>)>>,
   <<Call(<<Word("trap"), Script(ss), Word("EXIT")>>, <<>>)>>}

Nest(lines) == UNION {Around(line) : line \in lines}

SomeLines == Simple \cup Nest(Simple) \cup Nest(Nest(Simple))

\* Names a tool may be called by, one of them in another case.
ToolNames == {"bash", "read", "edit", "todowrite", "advisor", "list_skills", "load_skill",
              "repl", "spawn_agent", "Bash", "find"}
LowerOf   == [n \in ToolNames |-> IF n = "Bash" THEN "bash" ELSE n]

\* Harnesses, with what each of their options changes in an agent.
Plain == [readOnly |-> FALSE, permissions |-> TRUE, gate |-> FALSE, advisor |-> FALSE,
          systemOne |-> FALSE, budget |-> 0, depth |-> 2, childCap |-> 2, disabled |-> {},
          extraTools |-> <<>>, extensions |-> <<>>]
Unguarded ==
  [Plain EXCEPT !.permissions = FALSE, !.depth = 0, !.disabled = {"Bash"},
                !.extensions = <<Ext("user", <<Tool("find", "user", TRUE)>>)>>]
SomeHarnesses ==
  {[Plain EXCEPT !.readOnly = TRUE, !.gate = TRUE,
                 !.extraTools = <<Tool("edit", "native", TRUE), Tool("find", "native", TRUE)>>],
   [Plain EXCEPT !.readOnly = TRUE, !.disabled = {"Bash"}, !.systemOne = TRUE, !.depth = 1],
   [Plain EXCEPT !.gate = TRUE, !.systemOne = TRUE, !.advisor = TRUE, !.budget = 2,
                 !.disabled = {"load_skill", "edit"}],
   [Plain EXCEPT !.permissions = FALSE, !.depth = 0,
                 !.extensions = <<Ext("user", <<Tool("Bash", "user", TRUE)>>)>>],
   Unguarded}

VARIABLE part

shellVars == <<parsed, segments>>
gatesVars == <<part, vars, judgeVars, talkVars, shellVars, globVars,
              treeVars>>

GatesInit ==
  /\ part \in {"batch", "judge", "talk", "shell", "glob", "tree"}
  /\ part # "tree" => options = Unguarded
  /\ Init /\ JudgeInit /\ TalkInit /\ ShellInit /\ GlobInit
  /\ TreeInit
  /\ part # "batch" => readOnly = {} /\ ~skipPermissions /\ ~approverPresent

GatesNext ==
  \/ /\ part = "batch" /\ Next
     /\ UNCHANGED <<part, judgeVars, talkVars, shellVars, globVars, treeVars>>
  \/ /\ part = "judge" /\ JudgeNext
     /\ UNCHANGED <<part, vars, talkVars, shellVars, globVars, treeVars>>
  \/ /\ part = "talk" /\ TalkNext
     /\ UNCHANGED <<part, vars, judgeVars, shellVars, globVars, treeVars>>
  \/ /\ part = "shell" /\ Analyze
     /\ UNCHANGED <<part, vars, judgeVars, talkVars, globVars, treeVars>>
  \/ /\ part = "glob" /\ GlobNext
     /\ UNCHANGED <<part, vars, judgeVars, talkVars, shellVars, treeVars>>
  \/ /\ part = "tree" /\ TreeNext
     /\ UNCHANGED <<part, vars, judgeVars, talkVars, shellVars, globVars>>

(* The fairness of ToolBatch's Spec, of GlobSpec and of TreeSpec.          *)
GatesSpec ==
  /\ GatesInit /\ [][GatesNext]_gatesVars
  /\ WF_vars(part = "batch" /\ DecisionStep)
  /\ WF_vars(part = "batch" /\ OpenSegment) /\ WF_vars(part = "batch" /\ CloseSegment)
  /\ \A i \in Batch :
       WF_vars(part = "batch" /\ (Refuse(i) \/ Run(i) \/ Await(i) \/ SettleWait(i) \/ Executed(i)))
  /\ WF_globVars(part = "glob" /\ GlobStep)
  /\ WF_treeVars(part = "tree" /\ Iterate) /\ WF_treeVars(part = "tree" /\ Asked)
  /\ WF_treeVars(part = "tree" /\ Spawning)

(* Nothing a call passes holds it up for good: a batch that is begun ends, *)
(* the glob matcher answers, and every spawned agent comes back.           *)
CallsMoveOn == (part = "batch" => BatchEnds) /\ GlobAnswers /\ SpawnsReturn
=============================================================================
