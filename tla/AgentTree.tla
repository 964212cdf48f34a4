----------------------------- MODULE AgentTree -----------------------------
(***************************************************************************)
(* The main agent and the subagents under it: which extensions and tools   *)
(* each of them is built with (New in internal/harness/harness.go,         *)
(* internal/harness/subagent/subagent_factory.go), what judges their tool  *)
(* calls, and how a spawned run ends (internal/harness/runner, internal/   *)
(* features/budgets).  spawn_agent runs alone in its batch, so the agents  *)
(* that run are one inside the other.  A turn's iterations are those of    *)
(* AgentLoop, reduced to: check the budget, ask the model, run one call.   *)
(***************************************************************************)
EXTENDS ToolMount

CONSTANTS
  Settings,    \* the options harnesses are built with
  MaxSuffix    \* bound: what NewID gives is one of 1 .. MaxSuffix

BuiltinNames == {"bash", "read", "edit", "todowrite", "advisor", "list_skills", "load_skill", "repl",
                 "spawn_agent"}

SpawnTool == Tool("spawn_agent", "subagents", FALSE)

(* A record stands for the tool itself: none of those an embedder adds is  *)
(* the one that spawns.                                                    *)
AddedTools == [name : Names, origin : STRING, readOnly : BOOLEAN] \ {SpawnTool}

ASSUME TreeAssumption ==
  /\ BuiltinNames \subseteq Names /\ \A n \in BuiltinNames : Lower[n] = n
  /\ MaxSuffix \in Nat
  /\ \A o \in Settings :
       /\ {o.readOnly, o.permissions, o.gate, o.advisor, o.systemOne} \subseteq BOOLEAN
       /\ {o.budget, o.depth, o.childCap} \subseteq Int
       /\ o.disabled \subseteq Names /\ o.extraTools \in Seq(AddedTools)
       /\ o.extensions \in Seq([name : STRING, tools : Seq(AddedTools)])

(* The tools an agent is given natively, Defaults and the todo list's, and *)
(* what extensions add.  Of the seven defaults three stand for all.        *)
Defaults   == << Tool("bash", "native", FALSE), Tool("read", "native", TRUE),
                 Tool("edit", "native", FALSE) >>
TodoTools  == << Tool("todowrite", "native", FALSE) >>
Advisor    == Tool("advisor", "native", TRUE)
SkillTools == << Tool("list_skills", "skills", FALSE), Tool("load_skill", "skills", FALSE) >>
ReplTool   == Tool("repl", "blackboard", TRUE)

Ext(n, tools) == [name |-> n, tools |-> tools]
If(c, ext)    == IF c THEN <<ext>> ELSE <<>>

Skills    == Ext("skills", SkillTools)
Board     == Ext("blackboard", <<ReplTool>>)
Subagents == Ext("subagents", <<SpawnTool>>)
-----------------------------------------------------------------------------
(* New: the extensions of the main agent, in their order.                  *)
Guard(o) == IF o.readOnly THEN <<Ext("read-only", <<>>)>>
            ELSE If(o.permissions, Ext("permissions", <<>>))

MainExtensions(o) ==
  Guard(o) \o If(o.gate, Ext("tool-call-gate", <<>>)) \o If(o.advisor, Ext("advisor-gate", <<>>))
    \o If(o.systemOne, Ext("systemone", <<>>)) \o <<Ext("reminders", <<>>)>>
    \o If("load_skill" \notin LowerAll(o.disabled), Skills)
    \o If(o.budget > 0, Ext("budgets", <<>>)) \o <<Board>>
    \o If(o.depth > 0, Subagents) \o o.extensions

NativeRegistry == RegisterFromProvider(RegisterEach({}, Defaults), TodoTools)

MainRegistry(o) ==
  LET asked == IF o.advisor THEN Register(NativeRegistry, Advisor) ELSE NativeRegistry
  IN CopyWithout(RegisterEach(asked, o.extraTools), o.disabled)

MainStatic(o) == Static(MainRegistry(o), MainExtensions(o), o.disabled)

(* What the main agent's guards are to see of the subagents too.           *)
ChildExtras(o) ==
  If(o.readOnly, Ext("read-only", <<>>)) \o If(o.gate, Ext("tool-call-gate", <<>>))
    \o If(o.systemOne, Ext("systemone-child", <<>>))
-----------------------------------------------------------------------------
(* childExtensions, for a child at that depth; the cap of a factory made   *)
(* with none is 30.                                                        *)
ChildCap(o) == IF o.childCap <= 0 THEN 30 ELSE o.childCap

(* Mutant: the factory of the children's own children is built without the *)
(* extensions to pass on.                                                  *)
ChildExtensionsOnce(o, depth) ==
  <<Ext("reminders", <<>>), Ext("budgets", <<>>), Skills>>
    \o (IF depth = 1 THEN ChildExtras(o) ELSE <<>>) \o <<Board>> \o If(depth < o.depth, Subagents)

ChildExtensions(o, depth) ==
  <<Ext("reminders", <<>>), Ext("budgets", <<>>), Skills>> \o ChildExtras(o)
    \o <<Board>> \o If(depth < o.depth, Subagents)

(* buildChildToolRegistry and the child's composite, which disables none.  *)
ChildStatic(o, depth) == Static(RegisterEach({}, Defaults), ChildExtensions(o, depth), {})

ExtNames(exts) == {exts[i].name : i \in DOMAIN exts}

Agent(id, exts, static, cap) ==
  [id |-> id, exts |-> ExtNames(exts), tools |-> Mounted(static),
   cap |-> IF "budgets" \in ExtNames(exts) THEN cap ELSE 0, iteration |-> 0, phase |-> "iterate"]

Main(o)  == Agent(<<0>>, MainExtensions(o), MainStatic(o), o.budget)
Child(o, depth, id) == Agent(id, ChildExtensions(o, depth), ChildStatic(o, depth), ChildCap(o))
-----------------------------------------------------------------------------
VARIABLES
  options,
  agents,    \* the running ones, each spawned by the one before it
  announced, \* SubagentStarted without its SubagentStopped
  cancelled, \* the turn's context is done
  ran,       \* the call that ran last: whose, of what, and who saw it
  spawned    \* of the last spawned run: "none", "answer" or "error"

treeVars == <<options, agents, announced, cancelled, ran, spawned>>

NoCall == [tool |-> "none"]

TreeInit ==
  /\ options \in {o \in Settings : ~Collides(MainStatic(o))}
  /\ agents = <<>> /\ announced = {} /\ cancelled = FALSE
  /\ ran = NoCall /\ spawned = "none"

Depth == Len(agents) - 1
Top   == agents[Len(agents)]
With(phase) == [agents EXCEPT ![Len(agents)].phase = phase]

RunTurn ==
  /\ agents = <<>> /\ agents' = <<Main(options)>>
  /\ cancelled' = FALSE /\ ran' = NoCall /\ spawned' = "none"
  /\ UNCHANGED <<options, announced>>

(* The run of the top agent is over.  SpawnAgent announces that it stopped *)
(* and hands its answer, or the error, to the parent as the result of the  *)
(* call.                                                                   *)
TopEnds(how) ==
  /\ agents' = IF Depth = 0 THEN <<>>
               ELSE [SubSeq(agents, 1, Depth) EXCEPT ![Depth].phase = "iterate"]
  /\ announced' = announced \ {Top.id}
  /\ spawned' = how

(* BeforeIteration: the budget's hook, and the loop's own look at the      *)
(* context.  A run ended by its budget has no answer: translate makes an   *)
(* error of it.                                                            *)
Spent(a) == a.cap > 0 /\ a.iteration >= a.cap

Iterate ==
  /\ agents # <<>> /\ Top.phase = "iterate" /\ ran' = NoCall
  /\ IF cancelled \/ Spent(Top)
       THEN TopEnds("error")
       ELSE /\ agents' = [agents EXCEPT ![Len(agents)].phase = "model",
                            ![Len(agents)].iteration = IF Top.cap > 0 THEN @ + 1 ELSE @]
            /\ UNCHANGED <<announced, spawned>>
  /\ UNCHANGED <<options, cancelled>>

(* The model's answer to this iteration.                                   *)
ModelAnswers ==
  /\ agents # <<>> /\ Top.phase = "model" /\ TopEnds("answer") /\ ran' = NoCall
  /\ UNCHANGED <<options, cancelled>>

ModelFails ==
  /\ agents # <<>> /\ Top.phase = "model" /\ TopEnds("error") /\ ran' = NoCall
  /\ UNCHANGED <<options, cancelled>>

(* The hooks that look at a call: read-only mode goes by the main port's   *)
(* class of the name, the gate may veto what it likes.                     *)
Watches(a) == a.exts \cap {"read-only", "tool-call-gate", "systemone", "systemone-child"}

ReadOnlyDenies(a, n, reads) ==
  /\ "read-only" \in a.exts
  /\ n # "spawn_agent" /\ ~ReadOnly(agents[1].tools, n) /\ ~(n = "bash" /\ reads)

Vetoes(a) == a.exts \cap {"permissions", "tool-call-gate", "advisor-gate", "systemone",
                          "systemone-child"} # {}

Vetoed(n) ==
  /\ agents # <<>> /\ Top.phase = "model" /\ agents' = With("iterate") /\ ran' = NoCall
  /\ \/ \E reads \in BOOLEAN : ReadOnlyDenies(Top, n, reads)
     \/ Vetoes(Top)
     \/ n \notin DOMAIN Top.tools
  /\ UNCHANGED <<options, announced, cancelled, spawned>>

CallsTool(n, reads) ==
  /\ agents # <<>> /\ Top.phase = "model" /\ n \in DOMAIN Top.tools
  /\ ~ReadOnlyDenies(Top, n, reads)
  /\ ran' = [tool |-> n, readOnly |-> Top.tools[n].readOnly, reads |-> reads, seenBy |-> Watches(Top)]
  /\ agents' = With(IF Top.tools[n] = SpawnTool THEN "spawning" ELSE "iterate")
  /\ UNCHANGED <<options, announced, cancelled, spawned>>

(* SpawnAgent: the child is built, announced and run; it may fail to build *)
(* and then nothing is announced.                                          *)
SpawnAgent(n) ==
  /\ agents # <<>> /\ Top.phase = "spawning" /\ ran' = NoCall
  /\ LET id == Append(Top.id, n)
     IN /\ agents' = Append(With("waiting"), Child(options, Depth + 1, id))
        /\ announced' = announced \cup {id}
  /\ UNCHANGED <<options, cancelled, spawned>>

SpawnFails ==
  /\ agents # <<>> /\ Top.phase = "spawning" /\ agents' = With("iterate") /\ ran' = NoCall
  /\ UNCHANGED <<options, announced, cancelled, spawned>>

Cancel ==
  /\ agents # <<>> /\ ~cancelled /\ cancelled' = TRUE
  /\ UNCHANGED <<options, agents, announced, ran, spawned>>
-----------------------------------------------------------------------------
Spawning == SpawnFails \/ \E n \in 1 .. MaxSuffix : SpawnAgent(n)
Asked    == ModelAnswers \/ ModelFails
              \/ \E n \in Range(Lower) : Vetoed(n) \/ \E reads \in BOOLEAN : CallsTool(n, reads)

TreeNext == RunTurn \/ Iterate \/ Asked \/ Spawning \/ Cancel

(* An agent that runs goes on: its model answers or the call fails, and    *)
(* its tools return.  What the model answers is anybody's choice.          *)
TreeFairness == WF_treeVars(Iterate) /\ WF_treeVars(Asked) /\ WF_treeVars(Spawning)
TreeSpec == TreeInit /\ [][TreeNext]_treeVars /\ TreeFairness
-----------------------------------------------------------------------------
(* Subagents nest no deeper than asked for, every one under an id that     *)
(* extends its parent's, and those announced and not yet reported stopped  *)
(* are those that run.                                                     *)
TreeTypeOK ==
  /\ Depth > 0 => Depth <= options.depth
  /\ \A i \in 2 .. Len(agents) : agents[i].id = Append(agents[i - 1].id, agents[i].id[i])
  /\ announced = {agents[i].id : i \in 2 .. Len(agents)}
  /\ \A i \in DOMAIN agents : i < Len(agents) <=> agents[i].phase = "waiting"

(* No call of any agent runs that the configured guards did not look at.   *)
Wanted(o) == (IF o.readOnly THEN {"read-only"} ELSE {}) \cup (IF o.gate THEN {"tool-call-gate"} ELSE {})

GuardsSeeEveryCall ==
  ran # NoCall =>
    /\ Wanted(options) \subseteq ran.seenBy
    /\ options.systemOne => ran.seenBy \cap {"systemone", "systemone-child"} # {}

(* In read-only mode whatever any agent runs is marked read-only where it  *)
(* runs, is a command that only reads, or spawns: although the class is    *)
(* looked up by name in the main agent's port.  The one name that may mean *)
(* something else there is list_skills, where load_skill is disabled: the  *)
(* main agent then has no skills, and its children still have.             *)
ReadOnlyHolds ==
  ran # NoCall /\ options.readOnly =>
    \/ ran.readOnly \/ ran.tool = "spawn_agent" \/ (ran.tool = "bash" /\ ran.reads)
    \/ ran.tool = "list_skills" /\ "load_skill" \in LowerAll(options.disabled)

(* Every spawned run ends, whatever the models answer.                     *)
SpawnsReturn == Len(agents) > 1 ~> Len(agents) = 1

(* "WithDisabledTool removes a tool by name (case-insensitive) after all   *)
(* registration" (pkg/tenzing/tenzing.go:99): no agent has it.             *)
DisabledStaysOut ==
  \A i \in DOMAIN agents : DOMAIN agents[i].tools \cap LowerAll(options.disabled) = {}

(* Every agent of the tree is watched as the main one was asked to be, and *)
(* a read-only one changes nothing.                                        *)
TreeIsGuarded == TreeTypeOK /\ GuardsSeeEveryCall /\ ReadOnlyHolds
=============================================================================
