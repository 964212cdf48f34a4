------------------------------ MODULE MCSafety ------------------------------
(* The models whose properties need no fairness, in one run: `part` names  *)
(* the model that moves in a behaviour, and the others stay where they     *)
(* began.  The models share nothing, so nothing is lost by not mixing      *)
(* their steps, and their states add up instead of multiplying.            *)
EXTENDS BetweenTurns, ThinkParser, Requests, TodoPlan, FileTools, ToolPort, SessionLog, ApprovalDesk,
        Settings

CONSTANTS c1, c2, h1, h2

\* The controls: a turn of one call.
OneCall == {c1}

\* Requests: what the client of each protocol allows an answer.
OfModel(p, limit, sync) == [proto |-> p, limit |-> limit, sync |-> sync]

SomeModels ==
  {OfModel("anthropic", 8192, 8192), OfModel("anthropic", 64000, 21333),
   OfModel("openai", 0, 0), OfModel("ollama", 0, 0), OfModel("ollama", 512, 512)}

\* The plan: what randomID returns, and tasks that depend on a prefix of it.
ThreeIds  == << <<1, 1>>, <<1, 2>>, <<2, 1>> >>
SomeItems == [dependsOn : {<<>>, <<0>>, <<1>>, <<2>>}, priority : {"", "low"}]

\* The port: names that differ in case, and two servers whose prefixed names collide.
ToolNames == {"bash", "Bash", "repl", "m__a__b__c", "m__x", "m__y"}
LowerOf   == [n \in ToolNames |-> IF n = "Bash" THEN "bash" ELSE n]

TwoServers  == <<"a", "a__b">>
ToolsOfThem == {"c", "b__c"}
Prefixed    ==
  [st \in {"a", "a__b"} \X ToolsOfThem |->
     IF st \in {<<"a__b", "c">>, <<"a", "b__c">>} THEN "m__a__b__c"
     ELSE IF st[1] = "a" THEN "m__x" ELSE "m__y"]
ListedTools == [a |-> {{}, {"b__c"}, {"c"}}, a__b |-> {{"c"}}]
BashTool    == {Tool("Bash", "native", FALSE)}
OneTool(n) == <<[name |-> "bb", tools |-> <<Tool(n, "ext", TRUE)>>]>>
SomeExtensions == {OneTool("repl"), OneTool("bash")}
SomeDisabled   == {{"bash"}, {"m__x"}}

\* The desk: two calls, one of them a write, and two clients that answer.
TwoCalls    == {c1, c2}
TheWrite    == {c2}
TwoHandlers == {h1, h2}

CatToTmp == RuleSegment("cat", "f", {"fs:write"}, <<Runtime, "tmp">>, FALSE, FALSE)
RmFile   == RuleSegment("rm", "f", {"fs:delete"}, <<>>, FALSE, FALSE)
Tee      == RuleSegment("tee", "f", {"fs:write"}, <<>>, FALSE, FALSE)
GitPush  == RuleSegment("git", "push", {"vcs", "net"}, <<>>, FALSE, FALSE)
Curl     == RuleSegment("curl", "u", {"net"}, <<>>, FALSE, FALSE)

SomeCommands ==
  {Splits(<<CatToTmp>>), Splits(<<CatToTmp, RmFile>>), Splits(<<Tee, GitPush>>), Splits(<<Curl>>), Unparsed}

SomeGlobs == {BinaryGlob("cat")}
SomeRules == [allow |-> {}, session |-> {}, deny |-> {}, catAllow |-> {"vcs"}, catDeny |-> {"net"}]

Unlisted == [allow |-> {}, deny |-> {}, ask |-> {}, origins |-> {}]
SomeSections ==
  {[Unlisted EXCEPT !.allow = {"write"}],
   [Unlisted EXCEPT !.deny = {"bash", "write"}, !.ask = {"write"}],
   [Unlisted EXCEPT !.deny = {"bash"}, !.ask = {"write"}]}

\* The catalog: names used twice, providers without a type or an endpoint, flags that replace them.
Provider(n, t, u) == [name |-> n, type |-> t, url |-> u, timeout |-> 0]
ModelEntry(n, p, tier, output, described) ==
  [name |-> n, model |-> "m", provider |-> p, effort |-> tier, window |-> 0,
   output |-> output, described |-> described]
JudgeOf(n) == [name |-> n, model |-> "judge", provider |-> "j"]

SomeFiles ==
  [providers : {<<Provider("a", "", "u1"), Provider("j", "systemone", "u2")>>,
                <<Provider("a", "ollama", "")>>, <<Provider("a", "", "")>>,
                <<Provider("a", "", "u1"), Provider("b", "ollama", "")>>},
   llm : {<<ModelEntry("main", "a", "", 0, TRUE), ModelEntry("deep", "a", "high", 0, FALSE)>>,
          <<ModelEntry("main", "a", "", 0, TRUE), ModelEntry("brief", "a", "", 100, TRUE)>>,
          <<ModelEntry("main", "b", "", 0, TRUE), ModelEntry("main", "a", "", 0, TRUE)>>},
   systemone : {<<>>, <<JudgeOf("judge")>>, <<JudgeOf("main")>>},
   judge : {"", "judge"}, routing : {"unset", "on", "off"}]
SomeFlags ==
  {<<>>, <<Provider("a", "", "u3")>>, <<Provider("a", "", "u3"), Provider("a", "anthropic", "")>>,
   <<Provider("c", "systemone", "u4")>>, <<Provider("a", "systemone", "u5")>>, <<Provider("a", "", "")>>}
SomeInline   == {ModelEntry("", "a", "low", 0, FALSE), ModelEntry("", "c", "", 0, FALSE)}
SomeTimeouts == {-1, NoTimeout, 5}

\* The prompt: what is trusted, and which of the files there are and can be read.
Setup(trusts, environ, line, ofProject, ofUser) ==
  [trust |-> trusts, env |-> environ, line |-> line, project |-> ofProject, user |-> ofUser]
PromptFiles(replace, append) == [replace |-> replace, append |-> append]
NoFiles == PromptFiles("absent", "absent")
NothingSet == Setup(FALSE, TRUE, "absent", NoFiles, NoFiles)
SomeSetups ==
  {Setup(FALSE, FALSE, "absent", PromptFiles("good", "good"), PromptFiles("good", "good")),
   Setup(FALSE, TRUE, "absent", PromptFiles("absent", "good"), PromptFiles("absent", "good")),
   Setup(FALSE, FALSE, "absent", PromptFiles("broken", "good"), PromptFiles("good", "absent")),
   Setup(TRUE, FALSE, "absent", PromptFiles("absent", "broken"), PromptFiles("absent", "good")),
   Setup(FALSE, FALSE, "absent", NoFiles, PromptFiles("broken", "good")),
   Setup(TRUE, FALSE, "good", PromptFiles("good", "absent"), NoFiles),
   Setup(FALSE, FALSE, "broken", NoFiles, NoFiles),
   NothingSet,
   Setup(TRUE, FALSE, "absent", PromptFiles("absent", "good"), PromptFiles("good", "absent"))}

VARIABLE part

safetyVars == <<part, controlledVars, parserVars, requestVars, planVars, fileVars, portVars,
                logVars, deskVars, startVars>>

SafetyInit ==
  /\ part \in {"controls", "parser", "request", "plan", "files", "port", "log", "desk",
              "catalog", "setting", "prompt"}
  /\ part # "files" => content = NoFile
  /\ part # "desk" => section = [Unlisted EXCEPT !.allow = {"write"}]
  /\ part # "port" => static = Static(Natives, OneTool("repl"), {"m__x"}) /\ disabled = {"m__x"}
                      /\ world = [s \in ServerSet |-> CHOOSE w \in Worlds(s) : w.up]
  /\ part # "setting" => /\ kind = "text" /\ flag = Absent /\ env = Absent /\ yaml = Absent
                         /\ prompted = FALSE /\ dials = FALSE
  /\ part # "catalog" => /\ config = (CHOOSE f \in SomeFiles : TRUE)
                         /\ flags = <<>> /\ timeout = NoTimeout
  /\ part # "prompt" => setup = [d \in Dirs |-> NothingSet]
  /\ part # "request" => client = OfModel("ollama", 0, 0) /\ thinks = "unset" /\ effort = "unset"
  /\ ControlInit /\ ParserInit /\ PlanInit /\ LogInit /\ FilesInit /\ DeskInit /\ PortInit
  /\ SettingInit /\ CatalogInit /\ PromptInit /\ RequestInit
  /\ part # "request" => sizes.budget = 0

otherVars == <<part, controlledVars, parserVars, requestVars, planVars, fileVars, portVars, logVars,
               deskVars>>

SafetyNext ==
  \/ /\ part = "controls" /\ ControlNext
     /\ UNCHANGED <<part, parserVars, requestVars, planVars, fileVars, portVars, logVars, deskVars, startVars>>
  \/ /\ part = "parser" /\ ParserNext
     /\ UNCHANGED <<part, controlledVars, requestVars, planVars, fileVars, portVars, logVars, deskVars, startVars>>
  \/ /\ part = "request" /\ RequestNext
     /\ UNCHANGED <<part, controlledVars, parserVars, planVars, fileVars, portVars, logVars, deskVars, startVars>>
  \/ /\ part = "plan" /\ PlanNext
     /\ UNCHANGED <<part, controlledVars, parserVars, requestVars, fileVars, portVars, logVars, deskVars, startVars>>
  \/ /\ part = "files" /\ FilesNext
     /\ UNCHANGED <<part, controlledVars, parserVars, requestVars, planVars, portVars, logVars, deskVars, startVars>>
  \/ /\ part = "port" /\ PortNext
     /\ UNCHANGED <<part, controlledVars, parserVars, requestVars, planVars, fileVars, logVars, deskVars, startVars>>
  \/ /\ part = "log" /\ LogNext
     /\ UNCHANGED <<part, controlledVars, parserVars, requestVars, planVars, fileVars, portVars, deskVars, startVars>>
  \/ /\ part = "desk" /\ DeskNext
     /\ UNCHANGED <<part, controlledVars, parserVars, requestVars, planVars, fileVars, portVars, logVars, startVars>>
  \/ /\ part = "catalog" /\ CatalogNext
     /\ UNCHANGED <<otherVars, settingVars, promptVars>>
  \/ /\ part = "setting" /\ SettingNext
     /\ UNCHANGED <<otherVars, catalogVars, promptVars>>
  \/ /\ part = "prompt" /\ PromptNext
     /\ UNCHANGED <<otherVars, catalogVars, settingVars>>

SafetySpec == SafetyInit /\ [][SafetyNext]_safetyVars
=============================================================================
