------------------------------ MODULE ToolPort ------------------------------
(***************************************************************************)
(* The main loop's tool port over its turns: the composite's snapshot      *)
(* (internal/adapters/toolport/composite.go) of what the MCP servers list  *)
(* (internal/features/mcp/ext.go), taken at the start of a turn, while the *)
(* servers change, go and come back, a turn may be cancelled while it      *)
(* lists, and the session may end under a turn.                            *)
(***************************************************************************)
EXTENDS ToolMount

CONSTANTS
  Servers,      \* the sequence of connected servers
  ServerTools,  \* the tools servers have
  Listings,     \* of each server: the sets it may list
  PrefixedName, \* of <<server, tool>>, "mcp__<server>__<tool>"
  Natives,      \* the native tools, a set
  Extensions,   \* what may be registered: sequences of extensions
  DisabledSets, \* what may be disabled
  TTL,          \* toolListCacheTTL
  MaxTime       \* bound on the clock

ASSUME PortAssumption ==
  /\ Servers \in Seq(STRING)
  /\ PrefixedName \in [Range(Servers) \X ServerTools -> Names]
  /\ Listings \in [Range(Servers) -> SUBSET SUBSET ServerTools]
  /\ TTL \in Nat \ {0} /\ MaxTime \in Nat

None == [name |-> "none"]

VARIABLES
  static, disabled,     \* of the composite
  dynamic, byName,      \* its last snapshot
  world,      \* of each server: the tools it lists, and whether it answers
  open,       \* the sessions are open
  cached, fetchedAt,    \* of each serverConn
  clock,
  unsettled,  \* history: when a server last changed, or was not heard out
  turn,       \* "idle", "begun" or "running"
  offered,    \* the definitions the turn's model calls carry
  judged      \* the tool a call was classified as, until it runs

portVars   == <<static, disabled, dynamic, byName, world, open, cached, fetchedAt, clock,
                unsettled, turn, offered, judged>>
worldVars  == <<world, clock, unsettled>>
mountVars  == <<static, disabled, dynamic, byName>>
cacheVars  == <<cached, fetchedAt>>
turnVars   == <<turn, offered, judged>>

ServerSet == Range(Servers)
Worlds(s) == [tools : Listings[s], up : BOOLEAN]

PortInit ==
  /\ \E exts \in Extensions, off \in DisabledSets :
       /\ ~Collides(Static(Natives, exts, off))
       /\ disabled = off /\ static = Static(Natives, exts, off)
  /\ dynamic = {} /\ byName = Mounted(static)
  /\ world \in [ServerSet -> UNION {Worlds(s) : s \in ServerSet}] /\ open = TRUE
  /\ \A s \in ServerSet : world[s] \in Worlds(s) /\ world[s].up
  /\ cached = [s \in ServerSet |-> {}] /\ fetchedAt = [s \in ServerSet |-> -TTL]
  /\ clock = 0 /\ unsettled = [s \in ServerSet |-> 0]
  /\ turn = "idle" /\ offered = {} /\ judged = None
-----------------------------------------------------------------------------
(* The servers, and time.                                                  *)
ServerChanges(s) ==
  /\ \E w \in Worlds(s) :
       /\ w # world[s] /\ world' = [world EXCEPT ![s] = w]
  /\ unsettled' = [unsettled EXCEPT ![s] = clock]
  /\ UNCHANGED <<mountVars, open, cacheVars, clock, turnVars>>

TimePasses ==
  /\ clock < MaxTime /\ clock' = clock + 1
  /\ UNCHANGED <<mountVars, world, open, cacheVars, unsettled, turnVars>>
-----------------------------------------------------------------------------
(* What currentTools returns for s: the cached list while it is fresh,     *)
(* nothing when the server does not answer or the turn is over before it   *)
(* does, and that is cached as well.                                       *)
Fresh(s)       == clock - fetchedAt[s] < TTL
Lists(s, gone) == IF Fresh(s) THEN cached[s]
                  ELSE IF gone \/ ~world[s].up THEN {} ELSE world[s].tools

McpTool(s, t) == [name |-> PrefixedName[<<s, t>>], origin |-> s, readOnly |-> FALSE, tool |-> t]

CurrentTools(gone) ==
  [p \in UNION {{i} \X Lists(Servers[i], gone) : i \in IF open THEN DOMAIN Servers ELSE {}} |->
     McpTool(Servers[p[1]], p[2])]

(* Mutant: looking at the cache makes it younger.                          *)
FetchedSliding(gone) ==
  IF open THEN /\ cached' = [s \in ServerSet |-> Lists(s, gone)]
               /\ fetchedAt' = [s \in ServerSet |-> clock]
          ELSE UNCHANGED cacheVars

Fetched(gone) ==
  IF open THEN /\ cached' = [s \in ServerSet |-> Lists(s, gone)]
               /\ fetchedAt' = [s \in ServerSet |-> IF Fresh(s) THEN fetchedAt[s] ELSE clock]
          ELSE UNCHANGED cacheVars

(* gone: the turn's context ends while the servers are listed.             *)
BeginTurn(gone) ==
  /\ turn = "idle" /\ turn' = "begun"
  /\ dynamic' = Dynamic(static, CurrentTools(gone), disabled)
  /\ byName' = MountedWith(static, CurrentTools(gone), disabled)
  /\ Fetched(gone)
  /\ unsettled' = [s \in ServerSet |->
                     IF gone /\ open /\ ~Fresh(s) THEN clock ELSE unsettled[s]]
  /\ UNCHANGED <<static, disabled, world, clock, open, offered, judged>>

(* The definitions the loop hands to every model call of the turn.         *)
Offer ==
  /\ turn = "begun" /\ turn' = "running"
  /\ offered' = Range(static) \cup dynamic
  /\ UNCHANGED <<mountVars, worldVars, open, cacheVars, judged>>

(* The decision phase takes the origin and the class of a call's name,     *)
(* execution looks the name up again.                                      *)
Judge(n) ==
  /\ turn = "running" /\ judged = None
  /\ judged' = [name |-> n, origin |-> Origin(byName, n), readOnly |-> ReadOnly(byName, n)]
  /\ UNCHANGED <<mountVars, worldVars, open, cacheVars, turn, offered>>

Mounts(n) == Lower[n] \in DOMAIN byName

(* An unknown tool, a server that is gone and a panic give an error result *)
(* as any other; what the call did is not followed.                        *)
Execute ==
  /\ judged # None /\ judged' = None
  /\ UNCHANGED <<mountVars, worldVars, open, cacheVars, turn, offered>>

EndTurn ==
  /\ turn = "running" /\ judged = None /\ turn' = "idle" /\ offered' = {}
  /\ UNCHANGED <<mountVars, worldVars, open, cacheVars, judged>>

(* Shutdown, which may come during a turn, closes the sessions.            *)
SessionEnd ==
  /\ open /\ open' = FALSE
  /\ UNCHANGED <<mountVars, worldVars, cacheVars, turnVars>>
-----------------------------------------------------------------------------
PortNext ==
  \/ \E s \in ServerSet : ServerChanges(s)
  \/ TimePasses \/ SessionEnd
  \/ \E gone \in BOOLEAN : BeginTurn(gone)
  \/ Offer \/ Execute \/ EndTurn
  \/ \E n \in Names : Judge(n)

PortSpec == PortInit /\ [][PortNext]_portVars
-----------------------------------------------------------------------------
PortTypeOK ==
  /\ clock \in 0 .. MaxTime /\ \A s \in ServerSet : fetchedAt[s] <= clock
  /\ ~Collides(static) /\ Keys(Range(static)) \cap Keys(dynamic) = {}
  /\ \A t, u \in dynamic : Key(t) = Key(u) => t = u
  /\ Range(byName) = Range(static) \cup dynamic
  /\ DOMAIN byName \cap LowerAll(disabled) = {}

(* Whatever a turn's model calls offer is, until the turn is over, what a  *)
(* call of that name runs, and a call that was judged runs as what it was  *)
(* judged: a server that changes its tools never changes what a name means *)
(* under a turn.                                                           *)
CallsStayPut ==
  turn = "running" =>
    /\ \A t \in offered : Mounts(t.name) /\ byName[Key(t)] = t
    /\ judged # None => /\ judged.origin = Origin(byName, judged.name)
                        /\ judged.readOnly = ReadOnly(byName, judged.name)

ServesSettled ==
  \A s \in ServerSet : clock - unsettled[s] >= TTL =>
    LET now == IF world[s].up THEN world[s].tools ELSE {}
    IN /\ \A t \in now : Lower[PrefixedName[<<s, t>>]] \in DOMAIN byName \cup LowerAll(disabled)
       /\ \A t \in dynamic : t.origin = s => t.tool \in now

(* A server that has kept its tools, and was heard out, for a cache's      *)
(* lifetime is mounted as it is by the turn that begins then, save for the *)
(* names somebody else has.                                                *)
SettledIsServed ==
  [][turn = "idle" /\ turn' = "begun" /\ open => ServesSettled']_portVars

(* While a turn runs each tool offered is the tool called, and what a      *)
(* server has listed for longer than the cache keeps is what it offers.    *)
PortIsSteady == [](PortTypeOK /\ CallsStayPut) /\ SettledIsServed
=============================================================================
