--------------------------- MODULE ProjectPrompt ---------------------------
(***************************************************************************)
(* Trust in a project directory and the system prompt a process starts     *)
(* with: trust.json, which the processes of a user share without a lock    *)
(* (internal/app/trust.go), the trust endpoint (api/controls.go), and the  *)
(* prompt files of the project and of the user (cmd/app/projectconfig.go)  *)
(* under the command line's own prompt (cmd/app/options.go).               *)
(***************************************************************************)
EXTENDS Naturals, FiniteSets

CONSTANTS
  Dirs,         \* working directories, a process in each
  Setups,       \* prompt files, flags and environment a process may have
  MaxDecisions, \* bound: requests to the trust endpoint
  MaxDeaths     \* bound: processes killed

(* A setup is a record: trust (--trust), env (TENZING_PROJECT_TRUST is     *)
(* "trust"), line ("absent", "good", or "broken" when it is a file that    *)
(* cannot be read), and for the files of the project and of the user,      *)
(* replace and append: "absent", "good" or "broken".                       *)
ASSUME PromptAssumption == MaxDecisions \in Nat /\ MaxDeaths \in Nat /\ Dirs # {}

VARIABLES
  trustFile, \* trust.json: the decisions in it, or TornTrust
  setup,     \* of each process
  prompt,    \* the system prompt it runs with
  trusted,   \* what it resolved at startup
  at,        \* where its endpoint's handler is
  copy,      \* the map that handler read, changed
  decisions, deaths,
  told       \* history: the last decision each directory was told was persisted

promptVars == <<trustFile, setup, prompt, trusted, at, copy, decisions, deaths, told>>

Nowhere        == "none"
TornTrust      == [d \in Dirs |-> "torn"]
NoPrompt       == [from |-> Nowhere, name |-> ""]
TrustChoices   == {"yes", "no"}
NothingDecided == [d \in Dirs |-> Nowhere]

PromptInit ==
  /\ trustFile = NothingDecided /\ setup \in [Dirs -> Setups]
  /\ prompt = [d \in Dirs |-> NoPrompt] /\ trusted = [d \in Dirs |-> FALSE]
  /\ at = [d \in Dirs |-> "down"] /\ copy = [d \in Dirs |-> NothingDecided]
  /\ decisions = 0 /\ deaths = 0 /\ told = NothingDecided
-----------------------------------------------------------------------------
(* ResolveProjectTrust.                                                    *)
Resolved(d) ==
  \/ setup[d].trust
  \/ trustFile # TornTrust /\ (trustFile[d] = "yes" \/ (trustFile[d] = Nowhere /\ setup[d].env))

(* probe: a project's file counts only when it is trusted, one that is     *)
(* there and cannot be read is still the one that was found.               *)
Probe(s, name, trust) ==
  IF trust /\ s.project[name] # "absent" THEN "project"
  ELSE IF s.user[name] # "absent" THEN "user" ELSE Nowhere

FoundPrompt(s, trust) ==
  IF Probe(s, "replace", trust) # Nowhere THEN [from |-> Probe(s, "replace", trust), name |-> "replace"]
  ELSE [from |-> Probe(s, "append", trust), name |-> "append"]

Readable(s, found) ==
  found.from # Nowhere /\ (IF found.from = "project" THEN s.project ELSE s.user)[found.name] = "good"

(* Options apply in order: the files', then the command line's.            *)
Prompt(s, trust) ==
  LET found == FoundPrompt(s, trust)
  IN IF s.line = "good" THEN [from |-> "line", name |-> ""]
     ELSE IF Readable(s, found) THEN found ELSE [from |-> "default", name |-> ""]

(* A --system file that cannot be read stops the start.                    *)
StartProcess(d) ==
  /\ at[d] = "down" /\ setup[d].line # "broken"
  /\ at' = [at EXCEPT ![d] = "up"]
  /\ trusted' = [trusted EXCEPT ![d] = Resolved(d)]
  /\ prompt' = [prompt EXCEPT ![d] = Prompt(setup[d], Resolved(d))]
  /\ UNCHANGED <<trustFile, setup, copy, decisions, deaths, told>>

StopProcess(d) ==
  /\ at[d] = "up" /\ at' = [at EXCEPT ![d] = "down"]
  /\ prompt' = [prompt EXCEPT ![d] = NoPrompt] /\ trusted' = [trusted EXCEPT ![d] = FALSE]
  /\ UNCHANGED <<trustFile, setup, copy, decisions, deaths, told>>
-----------------------------------------------------------------------------
(* handleTrustSet: the map is read, and a copy of it replaces the file.    *)
SetTrust(d, choice) ==
  /\ at[d] = "up" /\ decisions < MaxDecisions /\ trustFile # TornTrust
  /\ decisions' = decisions + 1
  /\ at' = [at EXCEPT ![d] = "saving"]
  /\ copy' = [copy EXCEPT ![d] = [trustFile EXCEPT ![d] = choice]]
  /\ UNCHANGED <<trustFile, setup, prompt, trusted, deaths, told>>

(* The temporary file nobody reads.                                        *)
Written(d) == UNCHANGED trustFile

WriteTrust(d) ==
  /\ at[d] = "saving" /\ at' = [at EXCEPT ![d] = "written"] /\ Written(d)
  /\ UNCHANGED <<setup, prompt, trusted, copy, decisions, deaths, told>>

RenameTrust(d) ==
  /\ at[d] = "written" /\ at' = [at EXCEPT ![d] = "up"]
  /\ trustFile' = copy[d] /\ copy' = [copy EXCEPT ![d] = NothingDecided]
  /\ told' = [told EXCEPT ![d] = copy[d][d]]
  /\ UNCHANGED <<setup, prompt, trusted, decisions, deaths>>

Crash(d) ==
  /\ at[d] # "down" /\ deaths < MaxDeaths /\ deaths' = deaths + 1
  /\ at' = [at EXCEPT ![d] = "down"] /\ copy' = [copy EXCEPT ![d] = NothingDecided]
  /\ prompt' = [prompt EXCEPT ![d] = NoPrompt] /\ trusted' = [trusted EXCEPT ![d] = FALSE]
  /\ UNCHANGED <<trustFile, setup, decisions, told>>

PromptNext ==
  \E d \in Dirs : \/ StartProcess(d) \/ StopProcess(d) \/ (\E choice \in TrustChoices : SetTrust(d, choice))
                  \/ WriteTrust(d) \/ RenameTrust(d) \/ Crash(d)

PromptSpec == PromptInit /\ [][PromptNext]_promptVars
-----------------------------------------------------------------------------
(* Killed at any point, a process leaves a trust file the others can read. *)
DecisionsAreReadable == trustFile # TornTrust

(* Nothing of a project is in the prompt unless it was trusted when the    *)
(* process started, and then the nearest file is: the command line's own   *)
(* prompt first, what replaces the default before what is appended to it,  *)
(* the project's before the user's.                                        *)
NearestPrompt ==
  \A d \in Dirs :
    LET s == setup[d]
        is(where, name) == prompt[d] = [from |-> where, name |-> name]
    IN /\ \A name \in {"replace", "append"} : is("project", name) => trusted[d]
       /\ s.line = "good" => prompt[d].from \in {"line", Nowhere}
       /\ is("user", "replace") => ~trusted[d] \/ s.project.replace = "absent"
       /\ is("project", "append") \/ is("user", "append") =>
            s.user.replace = "absent" /\ (trusted[d] => s.project.replace = "absent")

(* "handleTrustSet persists a trust decision for the server's cwd"         *)
(* (api/controls.go:103): told that it was, the directory keeps it until   *)
(* it is decided again.                                                    *)
DecisionStands == trustFile # TornTrust => \A d \in Dirs : told[d] # Nowhere => trustFile[d] = told[d]

(* No crash leaves a trust file that cannot be read, and an agent runs     *)
(* with the nearest prompt that it may read.                               *)
PromptIsSafe == DecisionsAreReadable /\ NearestPrompt
=============================================================================
