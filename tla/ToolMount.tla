----------------------------- MODULE ToolMount -----------------------------
(***************************************************************************)
(* How tools are registered and mounted: the native registry               *)
(* (internal/adapters/toolport/registry.go), the composite port built from *)
(* it and the extensions' tools (composite.go), and the buckets extensions *)
(* are sorted into (internal/core/extension.go).  Descriptions and schemas *)
(* are left out, and so is the order of definitions but where it decides   *)
(* who gets a name; a registry is a set.                                   *)
(***************************************************************************)
EXTENDS Integers, Sequences, Functions

CONSTANTS
  Names,    \* tool names as they are spelled
  Lower     \* strings.ToLower on them

ASSUME MountAssumption ==
  /\ Lower \in [Names -> Names] /\ \A n \in Names : Lower[Lower[n]] = Lower[n]

Tool(n, origin, readOnly) == [name |-> n, origin |-> origin, readOnly |-> readOnly]
Key(t) == Lower[t.name]
LowerAll(names) == {Lower[n] : n \in names}
Keys(tools) == {Key(t) : t \in tools}
-----------------------------------------------------------------------------
(* A second tool of the same name is refused.                              *)
Register(reg, t) == IF Key(t) \in Keys(reg) THEN reg ELSE reg \cup {t}

(* What is left of tools that are registered in a row: a name stays with   *)
(* the tool that had it first.                                             *)
Registers(reg, tools, i) ==
  Key(tools[i]) \notin Keys(reg) /\ \A j \in 1 .. i - 1 : Key(tools[j]) # Key(tools[i])

(* New ignores the refusals of the tools it registers one by one.          *)
RegisterEach(reg, tools) == reg \cup {tools[i] : i \in {j \in DOMAIN tools : Registers(reg, tools, j)}}

(* The first refusal ends a provider's registration.                       *)
RegisterFromProvider(reg, tools) ==
  reg \cup {tools[i] : i \in {j \in DOMAIN tools : \A k \in 1 .. j : Registers(reg, tools, k)}}

CopyWithout(reg, names) == {t \in reg : Key(t) \notin LowerAll(names)}
-----------------------------------------------------------------------------
(* An extension, as far as its capabilities matter here, is its name and   *)
(* its static tools.  A tool is mounted at a place: a native one at 0, an  *)
(* extension's at the extension's number, where it stands in its list.     *)
Places(native, exts) ==
  ({0} \X native) \cup UNION {{e} \X DOMAIN exts[e].tools : e \in DOMAIN exts}

ToolAt(exts, p) == IF p[1] = 0 THEN p[2] ELSE exts[p[1]].tools[p[2]]

(* NewComposite: native tools, then the extensions' in their order, less   *)
(* the disabled ones.                                                      *)
Static(native, exts, disabled) ==
  [p \in {q \in Places(native, exts) : Key(ToolAt(exts, q)) \notin LowerAll(disabled)} |->
     ToolAt(exts, p)]

(* Two static tools of one name are a construction error.                  *)
Collides(static) == \E i, j \in DOMAIN static : i # j /\ Key(static[i]) = Key(static[j])

Mounted(static) == [k \in {Key(static[i]) : i \in DOMAIN static} |->
                      static[CHOOSE i \in DOMAIN static : Key(static[i]) = k]]
-----------------------------------------------------------------------------
(* BeginTurn mounts what the dynamic sources list, source by source; a     *)
(* name that is taken or disabled is skipped.                              *)
NewKeys(static, listed, disabled) ==
  {Key(listed[p]) : p \in DOMAIN listed} \ (DOMAIN Mounted(static) \cup LowerAll(disabled))

FirstListed(listed, k) ==
  LET places == {p \in DOMAIN listed : Key(listed[p]) = k}
  IN listed[CHOOSE p \in places : \A q \in places : p[1] <= q[1]]

Dynamic(static, listed, disabled) ==
  {FirstListed(listed, k) : k \in NewKeys(static, listed, disabled)}

MountedWith(static, listed, disabled) ==
  [k \in DOMAIN Mounted(static) \cup NewKeys(static, listed, disabled) |->
     IF k \in DOMAIN Mounted(static) THEN Mounted(static)[k] ELSE FirstListed(listed, k)]

(* ReadOnly: an unknown name counts as mutating.                           *)
ReadOnly(byName, n) == Lower[n] \in DOMAIN byName /\ byName[Lower[n]].readOnly
Origin(byName, n)   == IF Lower[n] \in DOMAIN byName THEN byName[Lower[n]].origin ELSE "native"

=============================================================================
