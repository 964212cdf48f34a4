---------------------------- MODULE ModelCatalog ----------------------------
(***************************************************************************)
(* The models a process can run: tenzing.yaml's providers and models and   *)
(* how they are checked (internal/config), the --provider flags laid over  *)
(* them and the registry (internal/app/modelregistry), and the cache of    *)
(* clients that the roles, the model endpoint and the router share.        *)
(***************************************************************************)
EXTENDS Integers, Sequences, Functions

CONSTANTS
  Files,    \* configurations: providers, llm, systemone, judge, routing
  Flags,    \* what --provider may give: sequences of providers
  Timeouts, \* --http-timeout; NoTimeout when the flag is not passed
  Inline    \* model entries that a ref may spell out

NoTimeout   == -2
Compat      == "openai_compat"
JudgeType   == "systemone"
Types       == {"anthropic", "ollama", Compat, JudgeType}
Windows     == 131072
Outputs     == 32768

ProviderEntries == [name : STRING, type : STRING, url : STRING, timeout : Int]
ModelEntries    == [name : STRING, model : STRING, provider : STRING, effort : STRING,
                    window : Int, output : Int, described : BOOLEAN]
JudgeEntries    == [name : STRING, model : STRING, provider : STRING]

ASSUME CatalogAssumption ==
  /\ Timeouts \subseteq Int /\ NoTimeout \in Timeouts
  /\ \A f \in Files : /\ f.providers \in Seq(ProviderEntries) /\ f.llm \in Seq(ModelEntries)
                      /\ f.systemone \in Seq(JudgeEntries) /\ f.routing \in {"unset", "on", "off"}
  /\ <<>> \in Flags /\ \A fs \in Flags : fs \in Seq(ProviderEntries)
  /\ Inline \subseteq ModelEntries

VARIABLES
  config, flags, timeout, \* what this process was started with
  providers,            \* the registry's, by name
  clients,              \* the factory's cache: key to client
  served,               \* history: what each ref was given
  standing              \* "starting", "ready", "refused" or "broken"

catalogVars == <<config, flags, timeout, providers, clients, served, standing>>

CatalogInit ==
  /\ config \in Files /\ flags \in Flags /\ timeout \in Timeouts
  /\ providers = <<>> /\ clients = <<>> /\ served = <<>> /\ standing = "starting"
-----------------------------------------------------------------------------
(* config.File.validate.                                                   *)
NamesIn(entries) == {entries[i].name : i \in DOMAIN entries}

Unique(entries) == \A i, j \in DOMAIN entries : entries[i].name = entries[j].name => i = j

Typed(p) == IF p.type = "" THEN [p EXCEPT !.type = Compat] ELSE p

ValidProviders(ps) ==
  /\ Unique(ps)
  /\ \A i \in DOMAIN ps :
       LET p == Typed(ps[i])
       IN /\ p.name # "" /\ p.type \in Types /\ p.timeout >= 0
          /\ p.type \in {Compat, JudgeType} => p.url # ""

ByName(ps) == [n \in NamesIn(ps) |-> Typed(ps[CHOOSE i \in DOMAIN ps : ps[i].name = n])]

Declared(e, ps) == e.provider \in NamesIn(ps)

Described(f) == {i \in DOMAIN f.llm : f.llm[i].described}

Several(S) == \E i, j \in S : i # j

ValidJudge(f) ==
  IF f.judge = "" THEN f.routing = "unset"
  ELSE f.judge \in NamesIn(f.systemone) /\ (f.routing = "on" => Several(Described(f)))

ValidFile(f) ==
  /\ ValidProviders(f.providers) /\ Unique(f.llm \o f.systemone)
  /\ \A i \in DOMAIN f.llm :
       /\ f.llm[i].name # "" /\ f.llm[i].model # "" /\ Declared(f.llm[i], f.providers)
       /\ ByName(f.providers)[f.llm[i].provider].type # JudgeType
  /\ \A i \in DOMAIN f.systemone :
       /\ f.systemone[i].name # "" /\ f.systemone[i].model # ""
       /\ Declared(f.systemone[i], f.providers)
       /\ ByName(f.providers)[f.systemone[i].provider].type = JudgeType
  /\ ValidJudge(f)
-----------------------------------------------------------------------------
(* A flag replaces the entry of its name, whole, or is appended.           *)

Laid(ps, p) ==
  IF p.name \in NamesIn(ps)
    THEN [i \in DOMAIN ps |-> IF ps[i].name = p.name THEN p ELSE ps[i]]
    ELSE Append(ps, p)

Merged(ps, fs) ==
  LET upTo[k \in 0 .. Len(fs)] == IF k = 0 THEN ps ELSE Laid(upTo[k - 1], fs[k])
  IN  upTo[Len(fs)]

WithTimeout(ps, t) ==
  IF t = NoTimeout THEN ps ELSE [i \in DOMAIN ps |-> [ps[i] EXCEPT !.timeout = t]]

MergedNow == Merged(config.providers, flags)
Known     == ByName(WithTimeout(MergedNow, timeout))

(* The checks come in this order: the file, the flags, the timeout.        *)
Accepted ==
  /\ ValidFile(config)
  /\ flags # <<>> => ValidProviders(MergedNow)
  /\ timeout = NoTimeout \/ timeout >= 0

(* The registry looks every model's provider up, sure of the file.         *)
Fits ==
  \A i \in DOMAIN (config.llm \o config.systemone) :
    (config.llm \o config.systemone)[i].provider \in DOMAIN Known

StartUp ==
  /\ standing = "starting"
  /\ IF Accepted
       THEN /\ standing' = IF Fits THEN "ready" ELSE "broken"
            /\ providers' = IF Fits THEN Known ELSE <<>>
       ELSE standing' = "refused" /\ UNCHANGED providers
  /\ UNCHANGED <<config, flags, timeout, clients, served>>
-----------------------------------------------------------------------------
(* A ref is an alias or an entry spelt out.                                *)
Refs == {[alias |-> e.name, entry |-> e] : e \in UNION {Range(f.llm) : f \in Files}}
        \cup {[alias |-> "", entry |-> e] : e \in Inline}

Or(n, default) == IF n = 0 THEN default ELSE n

Definition(e) ==
  [model |-> e.model, effort |-> e.effort, window |-> Or(e.window, Windows),
   output |-> Or(e.output, Outputs), provider |-> e.provider]

Chats    == [n \in NamesIn(config.llm) |->
               Definition(config.llm[CHOOSE i \in DOMAIN config.llm : config.llm[i].name = n])]

(* Resolve: {} when there is no such model.                                *)
Resolve(ref) ==
  IF ref.alias = ""
    THEN {Definition(e) : e \in {d \in {ref.entry} : d.model # "" /\ d.provider \in DOMAIN providers}}
    ELSE {Chats[n] : n \in {m \in DOMAIN Chats : m = ref.alias}}

ResolveSystemOne(alias) == {e \in Range(config.systemone) : e.name = alias}

(* buildLLM: the endpoint comes from the provider and nowhere else.        *)
Client(def) == [def |-> def, url |-> providers[def.provider].url,
                timeout |-> providers[def.provider].timeout,
                type |-> providers[def.provider].type]

Builds(def) == providers[def.provider].type # JudgeType

(* Mutant: the effort is not in the key.                                   *)
KeyOfModel(def) == <<def.provider, def.model>>

CacheKey(def) == <<def.provider, def.model, def.effort>>

With(f, k, v) == [x \in DOMAIN f \cup {k} |-> IF x = k THEN v ELSE f[x]]

(* Factory.Get under its mutex; a role's option at startup, POST /model,   *)
(* the control plane's set_model and the router all come here.             *)
Get(ref) ==
  /\ standing = "ready"
  /\ \E def \in Resolve(ref) :
       LET key == CacheKey(def)
       IN /\ key \notin DOMAIN clients => Builds(def)
          /\ clients' = IF key \in DOMAIN clients THEN clients ELSE With(clients, key, Client(def))
          /\ served' = With(served, ref, clients'[key])
  /\ UNCHANGED <<config, flags, timeout, providers, standing>>

CatalogNext == StartUp \/ \E ref \in Refs : Get(ref)

CatalogSpec == CatalogInit /\ [][CatalogNext]_catalogVars
-----------------------------------------------------------------------------
(* systemOneOption: routing needs two described models to choose from.     *)
RoutingCandidates ==
  IF config.judge = "" \/ config.routing = "off" \/ ~Several(Described(config)) THEN {}
  ELSE {config.llm[i].name : i \in Described(config)}

CatalogTypeOK ==
  /\ standing \in {"starting", "ready", "refused", "broken"}
  /\ standing # "ready" => providers = <<>> /\ clients = <<>> /\ served = <<>>
  /\ \A key \in DOMAIN clients :
       clients[key].type \in Types /\ (clients[key].type = Compat => clients[key].url # "")
  /\ Range(served) \subseteq Range(clients)

(* What the file's checks accept the registry takes: no flag can leave a   *)
(* model without a provider.                                               *)
AcceptedStarts == standing # "broken"

(* An alias is one model of one kind, and a router's candidate is a chat   *)
(* model.                                                                  *)
AliasesAreApart ==
  standing = "ready" =>
    /\ \A n \in NamesIn(config.llm \o config.systemone) :
         n \in DOMAIN Chats <=> ResolveSystemOne(n) = {}
    /\ RoutingCandidates \subseteq DOMAIN Chats

(* A client talks to the endpoint in force for its provider: the last flag *)
(* of that name, the file's when there is none, under the timeout of the   *)
(* command line.                                                           *)
EndpointInForce ==
  \A ref \in DOMAIN served :
    LET c       == served[ref]
        named   == {i \in DOMAIN flags : flags[i].name = c.def.provider}
        inFile  == {p \in Range(config.providers) : p.name = c.def.provider}
        inForce == IF named = {} THEN CHOOSE p \in inFile : TRUE
                   ELSE flags[CHOOSE i \in named : \A j \in named : j <= i]
    IN /\ c.url = inForce.url
       /\ c.timeout = IF timeout = NoTimeout THEN inForce.timeout ELSE timeout

(* Roles and switches that share a client ask the same model of the same   *)
(* backend at the same tier of effort.                                     *)
ServedAsAsked ==
  \A ref \in DOMAIN served : \A def \in Resolve(ref) :
    LET c == served[ref].def
    IN c.model = def.model /\ c.provider = def.provider /\ c.effort = def.effort

(* No chat is sent to a System One backend.                                *)
JudgesDoNotChat == \A key \in DOMAIN clients : clients[key].type # JudgeType

(* "MaxResponseTokens is the cap on a single response" of the entry it is  *)
(* in (internal/config/config.go:295): the client that serves a ref runs   *)
(* under its limits.                                                       *)
LimitsAreTheEntrys ==
  \A ref \in DOMAIN served : \A def \in Resolve(ref) :
    served[ref].def.output = def.output /\ served[ref].def.window = def.window

(* What is accepted starts, and a name means one entry, its endpoint and   *)
(* its model wherever it is asked for.                                     *)
CatalogIsSound ==
  /\ CatalogTypeOK /\ AcceptedStarts /\ AliasesAreApart
  /\ EndpointInForce /\ ServedAsAsked /\ JudgesDoNotChat
=============================================================================
