--------------------------- MODULE Process_proofs ---------------------------
(***************************************************************************)
(* What a process starts with, what it asks of a model and what it keeps:  *)
(* the models, settings and prompt of any flags and files, the requests of *)
(* any dialog, what a second model reads of any conversation, a stream of  *)
(* thoughts and text however it is cut, and a session log of any length.   *)
(***************************************************************************)
EXTENDS Settings, Requests, Transcripts, ThinkParser, SessionLog, TodoPlan, FiniteSetTheorems,
        WellFoundedInduction, TLAPS

(* Induction over a set of numbers, and what a recursive function computes. *)
LEMMA EveryNumber ==
  ASSUME NEW P \in SUBSET Nat, 0 \in P, \A n \in P : n + 1 \in P
  PROVE  P = Nat
<1> SUFFICES ASSUME P # Nat PROVE FALSE
  OBVIOUS
<1> DEFINE T == Nat \ P
<1>1. T \subseteq Nat /\ T # {}
  OBVIOUS
<1>2. IsWellFoundedOn(OpToRel(<, Nat), Nat)
  BY NatLessThanWellFounded
<1>3. PICK x \in T : \A y \in T : ~ (<<y, x>> \in OpToRel(<, Nat))
  BY <1>1, <1>2, WFMin
<1>4. \A y \in T : ~ (y < x)
  BY <1>1, <1>3 DEF OpToRel
<1>5. x # 0 /\ x - 1 \in Nat /\ x - 1 < x
  BY <1>1
<1>6. x - 1 \in P
  BY <1>4, <1>5
<1>7. (x - 1) + 1 \in P
  BY <1>6
<1> QED
  BY <1>7, <1>1

Recurses(f, A, a, n, h) ==
  f \in [0 .. n -> A] /\ f[0] = a /\ \A k \in 1 .. n : f[k] = h[<<k, f[k - 1]>>]

Steps(h, A, a, n) == n \in Nat /\ a \in A /\ h \in [(1 .. n) \X A -> A]

LEMMA RecursionEnds ==
  ASSUME NEW A, NEW a, NEW n, NEW h, Steps(h, A, a, n)
  PROVE  \E f : Recurses(f, A, a, n, h)
<1> USE DEF Recurses, Steps
<1> DEFINE P == {m \in Nat : m <= n =>
                   \E f \in [0 .. m -> A] : f[0] = a /\ \A k \in 1 .. m : f[k] = h[<<k, f[k - 1]>>]}
<1>1. 0 \in P
  <2>1. [k \in 0 .. 0 |-> a] \in [0 .. 0 -> A] /\ [k \in 0 .. 0 |-> a][0] = a
    OBVIOUS
  <2>2. \A f : \A k \in 1 .. 0 : f[k] = h[<<k, f[k - 1]>>]
    OBVIOUS
  <2>3. QED
    BY <2>1, <2>2
<1>2. ASSUME NEW m \in P PROVE m + 1 \in P
  <2> SUFFICES ASSUME m + 1 <= n
               PROVE  \E g \in [0 .. m + 1 -> A] : g[0] = a /\ \A k \in 1 .. m + 1 : g[k] = h[<<k, g[k - 1]>>]
    OBVIOUS
  <2>1. m \in Nat /\ m <= n
    OBVIOUS
  <2>2. PICK f \in [0 .. m -> A] : f[0] = a /\ \A k \in 1 .. m : f[k] = h[<<k, f[k - 1]>>]
    BY <2>1
  <2> DEFINE g == [k \in 0 .. m + 1 |-> IF k = m + 1 THEN h[<<m + 1, f[m]>>] ELSE f[k]]
  <2>3. m \in 0 .. m /\ m + 1 \in 1 .. n
    BY <2>1
  <2>4. h[<<m + 1, f[m]>>] \in A
    BY <2>2, <2>3
  <2>5. g \in [0 .. m + 1 -> A]
    <3>1. \A k \in 0 .. m + 1 : k = m + 1 \/ k \in 0 .. m
      BY <2>1
    <3>2. QED
      BY <2>2, <2>4, <3>1
  <2>6. g[0] = a
    BY <2>1, <2>2
  <2>7. ASSUME NEW k \in 1 .. m + 1 PROVE g[k] = h[<<k, g[k - 1]>>]
    <3>1. k - 1 \in 0 .. m /\ k - 1 # m + 1 /\ k \in 0 .. m + 1 /\ k - 1 \in 0 .. m + 1
      BY <2>1
    <3>2. g[k - 1] = f[k - 1]
      BY <3>1
    <3>3. CASE k = m + 1
      <4>1. k - 1 = m
        BY <3>3, <2>1
      <4>2. QED
        BY <3>1, <3>2, <3>3, <4>1
    <3>4. CASE k # m + 1
      <4>1. k \in 1 .. m
        BY <3>4, <2>1
      <4>2. QED
        BY <2>2, <3>1, <3>2, <3>4, <4>1
    <3>5. QED
      BY <3>3, <3>4
  <2> HIDE DEF g
  <2>8. QED
    BY <2>5, <2>6, <2>7
<1>3. P \in SUBSET Nat
  OBVIOUS
<1> HIDE DEF P
<1>4. n \in P
  BY <1>1, <1>2, <1>3, EveryNumber
<1>5. QED
  BY <1>4 DEF P

-----------------------------------------------------------------------------
(* The registry of models (ModelCatalog).                                  *)

LEMMA LaidStays ==
  ASSUME NEW ps \in Seq(ProviderEntries), NEW p \in ProviderEntries
  PROVE  Laid(ps, p) \in Seq(ProviderEntries)
<1>1. CASE p.name \in NamesIn(ps)
  BY <1>1 DEF Laid
<1>2. CASE p.name \notin NamesIn(ps)
  BY <1>2 DEF Laid
<1>3. QED
  BY <1>1, <1>2

(* Merged, step by step.                                                   *)
LEMMA MergedSteps ==
  ASSUME NEW ps \in Seq(ProviderEntries), NEW fs \in Seq(ProviderEntries)
  PROVE  \E f \in [0 .. Len(fs) -> Seq(ProviderEntries)] :
           /\ f[0] = ps /\ \A k \in 1 .. Len(fs) : f[k] = Laid(f[k - 1], fs[k])
           /\ Merged(ps, fs) = f[Len(fs)]
<1> DEFINE n == Len(fs)
           A == Seq(ProviderEntries)
           h == [x \in (1 .. n) \X A |-> Laid(x[2], fs[x[1]])]
           upTo == CHOOSE f : f = [k \in 0 .. n |-> IF k = 0 THEN ps ELSE Laid(f[k - 1], fs[k])]
<1>1. n \in Nat
  OBVIOUS
<1>2. \A x \in (1 .. n) \X A : Laid(x[2], fs[x[1]]) \in A
  <2>1. ASSUME NEW x \in (1 .. n) \X A PROVE Laid(x[2], fs[x[1]]) \in A
    <3>1. x[2] \in A /\ fs[x[1]] \in ProviderEntries
      OBVIOUS
    <3>2. QED
      BY <3>1, LaidStays
  <2>2. QED
    BY <2>1
<1>3. h \in [(1 .. n) \X A -> A]
  <2> HIDE DEF A
  <2>1. QED
    BY <1>2
<1>4. \A k \in 1 .. n : \A q \in A : h[<<k, q>>] = Laid(q, fs[k])
  OBVIOUS
<1>a. ps \in A
  OBVIOUS
<1> HIDE DEF h, A, n, upTo
<1>b. Steps(h, A, ps, n)
  BY <1>1, <1>3, <1>a DEF Steps
<1>c. \E f : Recurses(f, A, ps, n, h)
  BY <1>b, RecursionEnds
<1>5. PICK f \in [0 .. n -> A] : f[0] = ps /\ \A k \in 1 .. n : f[k] = h[<<k, f[k - 1]>>]
  BY <1>c DEF Recurses
<1>6. \A k \in 1 .. n : k - 1 \in 0 .. n /\ f[k] = Laid(f[k - 1], fs[k])
  <2>1. \A k \in 1 .. n : k - 1 \in 0 .. n
    BY <1>1
  <2>2. \A k \in 1 .. n : f[k - 1] \in A
    BY <2>1
  <2>3. QED
    BY <1>4, <1>5, <2>1, <2>2
<1>7. f = [k \in 0 .. n |-> IF k = 0 THEN ps ELSE Laid(f[k - 1], fs[k])]
  <2>1. \A k \in 0 .. n : k = 0 \/ k \in 1 .. n
    BY <1>1
  <2>2. \A k \in 0 .. n : f[k] = IF k = 0 THEN ps ELSE Laid(f[k - 1], fs[k])
    BY <2>1, <1>5, <1>6
  <2>3. f = [k \in 0 .. n |-> f[k]]
    OBVIOUS
  <2>4. QED
    BY <2>2, <2>3
<1>8. upTo = [k \in 0 .. n |-> IF k = 0 THEN ps ELSE Laid(upTo[k - 1], fs[k])]
  BY <1>7 DEF upTo
<1>9. upTo[0] = ps /\ \A k \in 1 .. n : upTo[k] = Laid(upTo[k - 1], fs[k])
  <2>1. 0 \in 0 .. n /\ \A k \in 1 .. n : k \in 0 .. n /\ k # 0
    BY <1>1
  <2>2. QED
    BY <1>8, <2>1
<1>10. Merged(ps, fs) = upTo[n]
  BY DEF Merged, n, upTo
<1>11. \A k \in 0 .. n : upTo[k] = f[k]
  <2> DEFINE P == {m \in Nat : m <= n => upTo[m] = f[m]}
  <2>1. 0 \in P
    BY <1>5, <1>9
  <2>2. ASSUME NEW m \in P PROVE m + 1 \in P
    <3> SUFFICES ASSUME m + 1 <= n PROVE upTo[m + 1] = f[m + 1]
      BY DEF P
    <3>1. m + 1 \in 1 .. n /\ (m + 1) - 1 = m /\ m <= n
      BY <1>1
    <3>2. upTo[m] = f[m]
      BY <3>1
    <3>3. QED
      BY <1>6, <1>9, <3>1, <3>2
  <2> HIDE DEF P
  <2>3. P = Nat
    <3>1. P \in SUBSET Nat
      BY DEF P
    <3>2. QED
      BY <2>1, <2>2, <3>1, EveryNumber
  <2>4. QED
    BY <2>3, <1>1 DEF P
<1>12. Merged(ps, fs) = f[n]
  BY <1>1, <1>10, <1>11
<1>13. QED
  BY <1>5, <1>6, <1>12 DEF n, A

(* The entry in force for its name after k of the flags: the last flag of  *)
(* that name, else the file's.                                             *)
InForceAfter(p, ps, fs, k) ==
  \/ (\E j \in DOMAIN ps : ps[j] = p) /\ \A i \in 1 .. k : fs[i].name # p.name
  \/ \E i \in 1 .. k : fs[i] = p /\ \A j \in 1 .. k : j > i => fs[j].name # p.name

LayeredAt(q, ps, fs, k) ==
  /\ \A j \in DOMAIN ps : \E i \in DOMAIN q : q[i].name = ps[j].name
  /\ \A i \in DOMAIN q : InForceAfter(q[i], ps, fs, k)

LEMMA LaidLayers ==
  ASSUME NEW ps \in Seq(ProviderEntries), NEW fs \in Seq(ProviderEntries), NEW k \in Nat, k + 1 \in 1 .. Len(fs),
         NEW q \in Seq(ProviderEntries), LayeredAt(q, ps, fs, k)
  PROVE  LayeredAt(Laid(q, fs[k + 1]), ps, fs, k + 1)
<1> DEFINE p == fs[k + 1]
           r == Laid(q, p)
<1>1. p \in ProviderEntries
  OBVIOUS
<1>2. InForceAfter(p, ps, fs, k + 1)
  <2>1. k + 1 \in 1 .. k + 1 /\ \A j \in 1 .. k + 1 : ~(j > k + 1)
    OBVIOUS
  <2>2. QED
    BY <2>1 DEF InForceAfter
<1>3. ASSUME NEW e, InForceAfter(e, ps, fs, k), e.name # p.name PROVE InForceAfter(e, ps, fs, k + 1)
  <2>1. \A j \in 1 .. k + 1 : j \in 1 .. k \/ j = k + 1
    OBVIOUS
  <2>2. \A j \in 1 .. k : j \in 1 .. k + 1
    OBVIOUS
  <2>3. QED
    BY <1>3, <2>1, <2>2 DEF InForceAfter
<1>4. CASE p.name \in NamesIn(q)
  <2>1. r = [i \in DOMAIN q |-> IF q[i].name = p.name THEN p ELSE q[i]]
    BY <1>4 DEF Laid
  <2>2. \A i \in DOMAIN q : r[i] = (IF q[i].name = p.name THEN p ELSE q[i]) /\ r[i].name = q[i].name
    BY <2>1
  <2>3. DOMAIN r = DOMAIN q
    BY <2>1
  <2> HIDE DEF r, p
  <2>4. \A i \in DOMAIN r : InForceAfter(r[i], ps, fs, k + 1)
    BY <1>2, <1>3, <2>2, <2>3 DEF LayeredAt
  <2>5. \A j \in DOMAIN ps : \E i \in DOMAIN r : r[i].name = ps[j].name
    BY <2>2, <2>3 DEF LayeredAt
  <2>6. QED
    BY <2>4, <2>5 DEF LayeredAt, r, p
<1>5. CASE p.name \notin NamesIn(q)
  <2>1. r = Append(q, p)
    BY <1>5 DEF Laid
  <2>2. \A i \in DOMAIN q : i \in DOMAIN r /\ r[i] = q[i] /\ q[i].name # p.name
    BY <1>5, <1>1, <2>1 DEF NamesIn
  <2>3. \A i \in DOMAIN r : i \in DOMAIN q \/ r[i] = p
    BY <1>1, <2>1
  <2> HIDE DEF r, p
  <2>4. \A i \in DOMAIN r : InForceAfter(r[i], ps, fs, k + 1)
    BY <1>2, <1>3, <2>2, <2>3 DEF LayeredAt
  <2>5. \A j \in DOMAIN ps : \E i \in DOMAIN r : r[i].name = ps[j].name
    BY <2>2 DEF LayeredAt
  <2>6. QED
    BY <2>4, <2>5 DEF LayeredAt, r, p
<1>6. QED
  BY <1>4, <1>5

LEMMA MergedLayers ==
  ASSUME NEW ps \in Seq(ProviderEntries), NEW fs \in Seq(ProviderEntries)
  PROVE  Merged(ps, fs) \in Seq(ProviderEntries) /\ LayeredAt(Merged(ps, fs), ps, fs, Len(fs))
<1>1. PICK f \in [0 .. Len(fs) -> Seq(ProviderEntries)] :
        /\ f[0] = ps /\ \A k \in 1 .. Len(fs) : f[k] = Laid(f[k - 1], fs[k])
        /\ Merged(ps, fs) = f[Len(fs)]
  BY MergedSteps
<1> DEFINE P == {k \in Nat : k <= Len(fs) => LayeredAt(f[k], ps, fs, k)}
<1>2. 0 \in P
  BY <1>1 DEF LayeredAt, InForceAfter
<1>3. ASSUME NEW k \in P PROVE k + 1 \in P
  <2> SUFFICES ASSUME k + 1 <= Len(fs) PROVE LayeredAt(f[k + 1], ps, fs, k + 1)
    BY DEF P
  <2>1. k \in Nat /\ k \in 0 .. Len(fs) /\ k + 1 \in 1 .. Len(fs) /\ (k + 1) - 1 = k
    OBVIOUS
  <2>2. LayeredAt(f[k], ps, fs, k) /\ f[k] \in Seq(ProviderEntries)
    BY <2>1
  <2>3. f[k + 1] = Laid(f[k], fs[k + 1])
    BY <1>1, <2>1
  <2>4. LayeredAt(Laid(f[k], fs[k + 1]), ps, fs, k + 1)
    BY <2>1, <2>2, LaidLayers
  <2>5. QED
    BY <2>3, <2>4
<1>4. P \in SUBSET Nat
  OBVIOUS
<1> HIDE DEF P
<1>5. P = Nat
  BY <1>2, <1>3, <1>4, EveryNumber
<1>6. Len(fs) \in 0 .. Len(fs) /\ Len(fs) \in P
  BY <1>5
<1>7. QED
  BY <1>1, <1>6 DEF P

(* The registry's entry of a name, under the command line's timeout.       *)
EntryOf(known, n, ps, t) ==
  \E i \in DOMAIN ps :
    /\ ps[i].name = n /\ known[n].url = ps[i].url /\ known[n].type = Typed(ps[i]).type
    /\ known[n].timeout = IF t = NoTimeout THEN ps[i].timeout ELSE t

LEMMA KnownEntries ==
  ASSUME NEW ps \in Seq(ProviderEntries), NEW t \in Int
  PROVE  /\ DOMAIN ByName(WithTimeout(ps, t)) = NamesIn(ps)
         /\ \A n \in NamesIn(ps) : EntryOf(ByName(WithTimeout(ps, t)), n, ps, t)
<1> DEFINE qs == WithTimeout(ps, t)
<1>1. /\ DOMAIN qs = DOMAIN ps
      /\ \A i \in DOMAIN ps : /\ ps[i] \in ProviderEntries /\ qs[i] \in ProviderEntries
                              /\ qs[i].name = ps[i].name /\ qs[i].url = ps[i].url /\ qs[i].type = ps[i].type
                              /\ qs[i].timeout = IF t = NoTimeout THEN ps[i].timeout ELSE t
  <2>1. \A i \in DOMAIN ps : ps[i] \in ProviderEntries
    OBVIOUS
  <2>2. CASE t = NoTimeout
    BY <2>1, <2>2 DEF WithTimeout
  <2>3. CASE t # NoTimeout
    <3>1. qs = [i \in DOMAIN ps |-> [ps[i] EXCEPT !.timeout = t]]
      BY <2>3 DEF WithTimeout
    <3>2. \A e \in ProviderEntries : /\ [e EXCEPT !.timeout = t] \in ProviderEntries
                                     /\ [e EXCEPT !.timeout = t].name = e.name
                                     /\ [e EXCEPT !.timeout = t].url = e.url
                                     /\ [e EXCEPT !.timeout = t].type = e.type
                                     /\ [e EXCEPT !.timeout = t].timeout = t
      BY DEF ProviderEntries
    <3>3. DOMAIN qs = DOMAIN ps /\ \A i \in DOMAIN ps : qs[i] = [ps[i] EXCEPT !.timeout = t]
      BY <3>1
    <3> HIDE DEF qs
    <3>4. ASSUME NEW i \in DOMAIN ps
          PROVE  /\ qs[i] \in ProviderEntries /\ qs[i].name = ps[i].name /\ qs[i].url = ps[i].url
                 /\ qs[i].type = ps[i].type /\ qs[i].timeout = t
      <4> DEFINE e == ps[i]
      <4>1. e \in ProviderEntries /\ qs[i] = [e EXCEPT !.timeout = t]
        BY <2>1, <3>3
      <4> HIDE DEF e
      <4>2. QED
        <5>1. /\ qs[i] \in ProviderEntries /\ qs[i].name = e.name /\ qs[i].url = e.url
              /\ qs[i].type = e.type /\ qs[i].timeout = t
          BY <3>2, <4>1
        <5>2. QED
          BY <5>1 DEF e
    <3>5. QED
      BY <2>1, <2>3, <3>3, <3>4
  <2>4. QED
    BY <2>2, <2>3
<1> HIDE DEF qs
<1>2. NamesIn(qs) = NamesIn(ps)
  BY <1>1 DEF NamesIn
<1>3. DOMAIN ByName(qs) = NamesIn(ps)
  BY <1>2 DEF ByName
<1>4. ASSUME NEW n \in NamesIn(ps) PROVE EntryOf(ByName(qs), n, ps, t)
  <2> DEFINE i == CHOOSE j \in DOMAIN qs : qs[j].name = n
  <2>1. i \in DOMAIN qs /\ qs[i].name = n
    BY <1>2 DEF NamesIn
  <2>2. ByName(qs)[n] = Typed(qs[i])
    BY <1>2 DEF ByName
  <2> HIDE DEF i
  <2>3. /\ Typed(qs[i]).url = qs[i].url /\ Typed(qs[i]).timeout = qs[i].timeout
        /\ Typed(qs[i]).type = Typed(ps[i]).type
    BY <1>1, <2>1 DEF Typed, ProviderEntries
  <2>4. QED
    BY <1>1, <2>1, <2>2, <2>3 DEF EntryOf
<1>5. QED
  BY <1>3, <1>4 DEF qs

-----------------------------------------------------------------------------
Asked(ref) == ref.alias \in NamesIn(config.llm) \/ ref.alias = ""

(* Once the process is ready the registry holds the entries in force, and  *)
(* a client is kept under the key of the definition it was built from.     *)
CatalogInv ==
  /\ config \in Files /\ flags \in Flags /\ timeout \in Timeouts
  /\ standing \in {"starting", "ready", "refused"}
  /\ standing # "ready" => providers = <<>> /\ clients = <<>> /\ served = <<>>
  /\ standing = "ready" =>
       /\ ValidFile(config) /\ ValidProviders(MergedNow)
       /\ providers = Known
  /\ \A key \in DOMAIN clients :
       \E def : /\ key = CacheKey(def) /\ clients[key] = Client(def) /\ Builds(def)
                /\ def.provider \in DOMAIN providers
  /\ \A ref \in DOMAIN served :
       /\ \E key \in DOMAIN clients : served[ref] = clients[key]
       /\ \A def \in Resolve(ref) : CacheKey(served[ref].def) = CacheKey(def)

LEMMA TypedEntries ==
  ASSUME CatalogInv
  PROVE  /\ config.providers \in Seq(ProviderEntries) /\ config.llm \in Seq(ModelEntries)
         /\ config.systemone \in Seq(JudgeEntries) /\ flags \in Seq(ProviderEntries)
         /\ timeout \in Int
BY CatalogAssumption DEF CatalogInv

LEMMA CatalogBegins == CatalogInit => CatalogInv
BY DEF CatalogInit, CatalogInv

(* A provider that is declared is in force under some entry.               *)
LEMMA DeclaredIsKnown ==
  ASSUME NEW ps \in Seq(ProviderEntries), NEW fs \in Seq(ProviderEntries)
  PROVE  NamesIn(ps) \subseteq NamesIn(Merged(ps, fs))
<1>1. \A j \in DOMAIN ps : \E i \in DOMAIN Merged(ps, fs) : Merged(ps, fs)[i].name = ps[j].name
  BY MergedLayers DEF LayeredAt
<1>2. QED
  BY <1>1 DEF NamesIn

LEMMA NoFlagsNoChange ==
  ASSUME NEW ps \in Seq(ProviderEntries)
  PROVE  Merged(ps, <<>>) = ps
<1>1. <<>> \in Seq(ProviderEntries) /\ Len(<<>>) = 0
  OBVIOUS
<1>2. PICK f \in [0 .. 0 -> Seq(ProviderEntries)] : f[0] = ps /\ Merged(ps, <<>>) = f[0]
  BY <1>1, MergedSteps
<1>3. QED
  BY <1>2

InEitherPart(s, t, i) ==
  \/ i \in DOMAIN s /\ (s \o t)[i] = s[i]
  \/ i - Len(s) \in DOMAIN t /\ (s \o t)[i] = t[i - Len(s)]

LEMMA EitherPart ==
  ASSUME NEW S, NEW T, NEW s \in Seq(S), NEW t \in Seq(T)
  PROVE  \A i \in DOMAIN (s \o t) : InEitherPart(s, t, i)
<1> SUFFICES ASSUME NEW i \in DOMAIN (s \o t) PROVE InEitherPart(s, t, i)
  OBVIOUS
<1> USE DEF InEitherPart
<1>1. i \in 1 .. Len(s) + Len(t) /\ Len(s) \in Nat /\ Len(t) \in Nat
  OBVIOUS
<1>2. (s \o t)[i] = IF i <= Len(s) THEN s[i] ELSE t[i - Len(s)]
  OBVIOUS
<1>3. QED
  BY <1>1, <1>2

LEMMA AcceptedFits == ASSUME CatalogInv, Accepted PROVE Fits /\ ValidProviders(MergedNow)
<1> DEFINE both == config.llm \o config.systemone
<1>1. ValidFile(config) /\ (flags # <<>> => ValidProviders(MergedNow))
  BY DEF Accepted
<1>2. DOMAIN Known = NamesIn(MergedNow)
  <2>1. MergedNow \in Seq(ProviderEntries)
    BY TypedEntries, MergedLayers DEF MergedNow
  <2>2. QED
    BY <2>1, TypedEntries, KnownEntries DEF Known
<1>3. NamesIn(config.providers) \subseteq DOMAIN Known
  BY <1>2, TypedEntries, DeclaredIsKnown DEF MergedNow
<1>4. /\ \A j \in DOMAIN config.llm : config.llm[j].provider \in NamesIn(config.providers)
      /\ \A j \in DOMAIN config.systemone : config.systemone[j].provider \in NamesIn(config.providers)
  BY <1>1 DEF ValidFile, Declared
<1>5. ASSUME NEW i \in DOMAIN both PROVE both[i].provider \in DOMAIN Known
  <2>1. \/ i \in DOMAIN config.llm /\ both[i] = config.llm[i]
        \/ i - Len(config.llm) \in DOMAIN config.systemone /\ both[i] = config.systemone[i - Len(config.llm)]
    <3>1. config.llm \in Seq(ModelEntries) /\ config.systemone \in Seq(JudgeEntries)
      BY TypedEntries
    <3>2. \A k \in DOMAIN (config.llm \o config.systemone) : InEitherPart(config.llm, config.systemone, k)
      BY <3>1, EitherPart
    <3>3. QED
      BY <3>2 DEF InEitherPart
  <2> HIDE DEF both
  <2>2. QED
    BY <1>3, <1>4, <2>1
<1>6. CASE flags # <<>>
  BY <1>1, <1>5, <1>6 DEF Fits
<1>7. CASE flags = <<>>
  <2>1. MergedNow = config.providers
    BY <1>7, TypedEntries, NoFlagsNoChange DEF MergedNow
  <2>2. ValidProviders(config.providers)
    BY <1>1 DEF ValidFile
  <2>3. QED
    BY <1>5, <2>1, <2>2 DEF Fits
<1>8. QED
  BY <1>6, <1>7

LEMMA StartUpKeeps == ASSUME CatalogInv, StartUp PROVE CatalogInv'
<1>1. standing = "starting" /\ UNCHANGED <<config, flags, timeout, clients, served>>
  BY DEF StartUp
<1>2. IF Accepted THEN standing' = (IF Fits THEN "ready" ELSE "broken") /\ providers' = (IF Fits THEN Known ELSE <<>>)
      ELSE standing' = "refused" /\ UNCHANGED providers
  BY DEF StartUp
<1>3. providers = <<>> /\ clients = <<>> /\ served = <<>>
  BY <1>1 DEF CatalogInv
<1>4. clients' = <<>> /\ served' = <<>> /\ config' = config /\ flags' = flags /\ timeout' = timeout
  BY <1>1, <1>3
<1>5. config' \in Files /\ flags' \in Flags /\ timeout' \in Timeouts
  BY <1>4 DEF CatalogInv
<1>6. CASE Accepted
  <2>1. standing' = "ready" /\ providers' = Known /\ ValidFile(config) /\ ValidProviders(MergedNow)
    <3>1. Fits /\ ValidProviders(MergedNow)
      BY <1>6, AcceptedFits
    <3>2. QED
      BY <1>2, <1>6, <3>1 DEF Accepted
  <2>2. MergedNow' = MergedNow /\ Known' = Known
    BY <1>4 DEF MergedNow, Known
  <2>3. (ValidFile(config) /\ ValidProviders(MergedNow))' /\ providers' = Known'
    BY <1>4, <2>1, <2>2
  <2>4. QED
    BY <1>4, <1>5, <2>1, <2>3 DEF CatalogInv
<1>7. CASE ~Accepted
  <2>1. standing' = "refused" /\ providers' = <<>>
    BY <1>2, <1>3, <1>7
  <2>2. QED
    BY <1>4, <1>5, <2>1 DEF CatalogInv
<1>8. QED
  BY <1>6, <1>7

(* What a name of the registry stands for.                                 *)
LEMMA KnownProviders ==
  ASSUME CatalogInv, standing = "ready"
  PROVE  /\ MergedNow \in Seq(ProviderEntries) /\ DOMAIN providers = NamesIn(MergedNow)
         /\ NamesIn(config.providers) \subseteq DOMAIN providers
         /\ \A n \in DOMAIN providers : EntryOf(providers, n, MergedNow, timeout)
<1>1. providers = ByName(WithTimeout(MergedNow, timeout))
  BY DEF CatalogInv, Known
<1>2. MergedNow \in Seq(ProviderEntries)
  BY TypedEntries, MergedLayers DEF MergedNow
<1>3. /\ DOMAIN providers = NamesIn(MergedNow)
      /\ \A n \in NamesIn(MergedNow) : EntryOf(providers, n, MergedNow, timeout)
  BY <1>1, <1>2, TypedEntries, KnownEntries
<1>4. NamesIn(config.providers) \subseteq NamesIn(MergedNow)
  BY TypedEntries, DeclaredIsKnown DEF MergedNow
<1>5. QED
  BY <1>2, <1>3, <1>4

LEMMA ResolvedIsKnown ==
  ASSUME CatalogInv, standing = "ready", NEW ref, NEW def \in Resolve(ref)
  PROVE  def.provider \in DOMAIN providers
<1>1. CASE ref.alias = ""
  <2>1. PICK e : e.provider \in DOMAIN providers /\ def = Definition(e)
    BY <1>1 DEF Resolve
  <2>2. QED
    BY <2>1 DEF Definition
<1>2. CASE ref.alias # ""
  <2>1. PICK n \in NamesIn(config.llm) : def = Chats[n]
    BY <1>2 DEF Resolve, Chats
  <2> DEFINE i == CHOOSE j \in DOMAIN config.llm : config.llm[j].name = n
  <2>2. def = Definition(config.llm[i])
    BY <2>1 DEF Chats
  <2>3. i \in DOMAIN config.llm
    BY <2>1 DEF NamesIn
  <2> HIDE DEF i
  <2>4. config.llm[i].provider \in NamesIn(config.providers)
    BY <2>3 DEF CatalogInv, ValidFile, Declared
  <2>5. def.provider = config.llm[i].provider
    BY <2>2 DEF Definition
  <2>6. QED
    BY <2>4, <2>5, KnownProviders
<1>3. QED
  BY <1>1, <1>2

LEMMA GetKeeps == ASSUME CatalogInv, NEW ref, Get(ref) PROVE CatalogInv'
<1>1. standing = "ready" /\ UNCHANGED <<config, flags, timeout, providers, standing>>
  BY DEF Get
<1>2. PICK def \in Resolve(ref) :
        /\ CacheKey(def) \notin DOMAIN clients => Builds(def)
        /\ clients' = IF CacheKey(def) \in DOMAIN clients THEN clients ELSE With(clients, CacheKey(def), Client(def))
        /\ served' = With(served, ref, clients'[CacheKey(def)])
  BY DEF Get
<1> DEFINE key == CacheKey(def)
<1>3. def.provider \in DOMAIN providers
  BY <1>1, ResolvedIsKnown
<1>4. /\ \A r : Resolve(r)' = Resolve(r)
      /\ \A d : Client(d)' = Client(d)
      /\ \A d : Builds(d)' = Builds(d)
  <2>1. Chats' = Chats
    BY <1>1 DEF Chats
  <2>2. QED
    BY <1>1, <2>1 DEF Resolve, Client, Builds
<1>5. MergedNow' = MergedNow /\ Known' = Known
  BY <1>1 DEF MergedNow, Known
<1> HIDE DEF key
<1>6. /\ key \in DOMAIN clients' /\ DOMAIN clients \subseteq DOMAIN clients'
      /\ \A k \in DOMAIN clients' : k \in DOMAIN clients \/ (k = key /\ key \notin DOMAIN clients /\ clients'[k] = Client(def))
      /\ \A k \in DOMAIN clients : clients'[k] = clients[k]
  BY <1>2 DEF With, key
<1>7. ASSUME NEW k \in DOMAIN clients'
      PROVE  \E d : /\ k = CacheKey(d) /\ clients'[k] = Client(d) /\ Builds(d) /\ d.provider \in DOMAIN providers
  <2>1. CASE k \in DOMAIN clients
    BY <1>6, <2>1 DEF CatalogInv
  <2>2. CASE k \notin DOMAIN clients
    BY <1>2, <1>3, <1>6, <2>2 DEF key
  <2>3. QED
    BY <2>1, <2>2
<1>8. PICK d : key = CacheKey(d) /\ clients'[key] = Client(d)
  BY <1>6, <1>7
<1>9. DOMAIN served' = DOMAIN served \cup {ref}
      /\ \A r \in DOMAIN served' : served'[r] = IF r = ref THEN clients'[key] ELSE served[r]
  BY <1>2 DEF With, key
<1>10. ASSUME NEW r \in DOMAIN served'
       PROVE  /\ \E k \in DOMAIN clients' : served'[r] = clients'[k]
              /\ \A e \in Resolve(r) : CacheKey(served'[r].def) = CacheKey(e)
  <2>1. CASE r = ref
    <3>1. served'[r] = clients'[key] /\ served'[r].def = d
      BY <1>8, <1>9, <2>1 DEF Client
    <3>2. \A e \in Resolve(ref) : e = def
      <4>1. CASE ref.alias = ""
        BY <4>1, <1>2 DEF Resolve
      <4>2. CASE ref.alias # ""
        BY <4>2, <1>2 DEF Resolve
      <4>3. QED
        BY <4>1, <4>2
    <3>3. QED
      BY <1>6, <1>8, <2>1, <3>1, <3>2 DEF key
  <2>2. CASE r # ref
    BY <1>6, <1>9, <2>2 DEF CatalogInv
  <2>3. QED
    BY <2>1, <2>2
<1>11. config' \in Files /\ flags' \in Flags /\ timeout' \in Timeouts /\ standing' = "ready"
  BY <1>1 DEF CatalogInv
<1>12. (ValidFile(config) /\ ValidProviders(MergedNow) /\ providers = Known)'
  <2>1. ValidFile(config) /\ ValidProviders(MergedNow) /\ providers = Known
    BY <1>1 DEF CatalogInv
  <2>2. QED
    BY <1>1, <1>5, <2>1
<1>13. QED
  BY <1>1, <1>4, <1>7, <1>10, <1>11, <1>12 DEF CatalogInv

LEMMA CatalogStepKeeps == ASSUME CatalogInv, [CatalogNext]_catalogVars PROVE CatalogInv'
<1>1. CASE UNCHANGED catalogVars
  <2>1. UNCHANGED <<config, flags, timeout, providers, clients, served, standing>>
    BY <1>1 DEF catalogVars
  <2>2. \A r : Resolve(r)' = Resolve(r)
    <3>1. Chats' = Chats
      BY <2>1 DEF Chats
    <3>2. QED
      BY <2>1, <3>1 DEF Resolve
  <2>3. QED
    BY <2>1, <2>2 DEF CatalogInv, Known, MergedNow, Client, Builds
<1>2. QED
  BY <1>1, StartUpKeeps, GetKeeps DEF CatalogNext

(* A client that was built has the endpoint of its provider's entry.       *)
LEMMA ClientsKnow ==
  ASSUME CatalogInv, NEW key \in DOMAIN clients
  PROVE  /\ standing = "ready"
         /\ \E def : /\ key = CacheKey(def) /\ clients[key] = Client(def) /\ Builds(def)
                     /\ EntryOf(providers, def.provider, MergedNow, timeout)
<1>1. standing = "ready"
  BY DEF CatalogInv
<1>2. PICK def : /\ key = CacheKey(def) /\ clients[key] = Client(def) /\ Builds(def)
                 /\ def.provider \in DOMAIN providers
  BY DEF CatalogInv
<1>3. EntryOf(providers, def.provider, MergedNow, timeout)
  BY <1>1, <1>2, KnownProviders
<1>4. QED
  BY <1>1, <1>2, <1>3

LEMMA ClientsTyped == ASSUME CatalogInv PROVE CatalogTypeOK /\ JudgesDoNotChat
<1>1. ASSUME NEW key \in DOMAIN clients
      PROVE  /\ clients[key].type \in Types /\ clients[key].type # JudgeType
             /\ clients[key].type = Compat => clients[key].url # ""
  <2>1. PICK def : /\ clients[key] = Client(def) /\ Builds(def)
                   /\ EntryOf(providers, def.provider, MergedNow, timeout)
    BY ClientsKnow
  <2>2. PICK i \in DOMAIN MergedNow : /\ providers[def.provider].url = MergedNow[i].url
                                      /\ providers[def.provider].type = Typed(MergedNow[i]).type
    BY <2>1 DEF EntryOf
  <2>3. ValidProviders(MergedNow) /\ MergedNow \in Seq(ProviderEntries)
    BY ClientsKnow, KnownProviders DEF CatalogInv
  <2>4. MergedNow[i] \in ProviderEntries
    BY <2>3
  <2>5. Typed(MergedNow[i]).url = MergedNow[i].url
    BY <2>4 DEF Typed, ProviderEntries
  <2>6. /\ Typed(MergedNow[i]).type \in Types
        /\ Typed(MergedNow[i]).type \in {Compat, JudgeType} => Typed(MergedNow[i]).url # ""
    BY <2>3 DEF ValidProviders
  <2>7. clients[key].type = Typed(MergedNow[i]).type /\ clients[key].url = MergedNow[i].url
        /\ clients[key].type # JudgeType
    BY <2>1, <2>2 DEF Client, Builds
  <2>8. QED
    BY <2>5, <2>6, <2>7
<1>2. \A ref \in DOMAIN served : \E key \in DOMAIN clients : served[ref] = clients[key]
  BY DEF CatalogInv
<1>3. Range(served) \subseteq Range(clients)
  BY <1>2 DEF Range
<1>4. standing \in {"starting", "ready", "refused", "broken"}
      /\ (standing # "ready" => providers = <<>> /\ clients = <<>> /\ served = <<>>)
  BY DEF CatalogInv
<1>5. QED
  BY <1>1, <1>3, <1>4 DEF CatalogTypeOK, JudgesDoNotChat

LEMMA BothHalves ==
  ASSUME NEW S, NEW T, NEW s \in Seq(S), NEW t \in Seq(T)
  PROVE  /\ \A i \in DOMAIN s : i \in DOMAIN (s \o t) /\ (s \o t)[i] = s[i]
         /\ \A j \in DOMAIN t : /\ j + Len(s) \in DOMAIN (s \o t) /\ (s \o t)[j + Len(s)] = t[j]
                               /\ j + Len(s) \notin DOMAIN s
<1>1. Len(s) \in Nat /\ Len(t) \in Nat /\ DOMAIN s = 1 .. Len(s) /\ DOMAIN t = 1 .. Len(t)
      /\ DOMAIN (s \o t) = 1 .. Len(s) + Len(t)
  OBVIOUS
<1>2. ASSUME NEW i \in DOMAIN s PROVE i \in DOMAIN (s \o t) /\ (s \o t)[i] = s[i]
  <2>1. i \in 1 .. Len(s) + Len(t)
    BY <1>1
  <2>2. QED
    BY <1>1, <2>1
<1>3. ASSUME NEW j \in DOMAIN t
      PROVE  j + Len(s) \in DOMAIN (s \o t) /\ (s \o t)[j + Len(s)] = t[j] /\ j + Len(s) \notin DOMAIN s
  <2>1. j + Len(s) \in 1 .. Len(s) + Len(t) /\ ~(j + Len(s) <= Len(s)) /\ (j + Len(s)) - Len(s) = j
    BY <1>1
  <2>2. QED
    BY <1>1, <2>1
<1>4. QED
  BY <1>2, <1>3

LEMMA NamesApart == ASSUME CatalogInv PROVE AliasesAreApart
<1> SUFFICES ASSUME standing = "ready" PROVE AliasesAreApart
  BY DEF AliasesAreApart
<1> DEFINE both == config.llm \o config.systemone
<1>1. Unique(both)
  BY DEF CatalogInv, ValidFile
<1>2. config.llm \in Seq(ModelEntries) /\ config.systemone \in Seq(JudgeEntries)
  BY TypedEntries
<1>3. \A i \in DOMAIN config.llm : i \in DOMAIN both /\ both[i] = config.llm[i]
  BY <1>2, BothHalves
<1>4. \A j \in DOMAIN config.systemone :
        /\ j + Len(config.llm) \in DOMAIN both /\ both[j + Len(config.llm)] = config.systemone[j]
        /\ j + Len(config.llm) \notin DOMAIN config.llm
  BY <1>2, BothHalves
<1>5. \A i \in DOMAIN both : InEitherPart(config.llm, config.systemone, i)
  BY <1>2, EitherPart
<1>6. ASSUME NEW n \in NamesIn(both) PROVE n \in DOMAIN Chats <=> ResolveSystemOne(n) = {}
  <2>1. DOMAIN Chats = NamesIn(config.llm)
    BY DEF Chats
  <2>2. ResolveSystemOne(n) = {} <=> n \notin NamesIn(config.systemone)
    BY DEF ResolveSystemOne, NamesIn, Range
  <2>3. n \in NamesIn(config.llm) \/ n \in NamesIn(config.systemone)
    <3>1. PICK i \in DOMAIN both : both[i].name = n
      BY DEF NamesIn
    <3>2. InEitherPart(config.llm, config.systemone, i)
      BY <1>5
    <3>3. \/ i \in DOMAIN config.llm /\ both[i] = config.llm[i]
          \/ i - Len(config.llm) \in DOMAIN config.systemone /\ both[i] = config.systemone[i - Len(config.llm)]
      BY <3>2 DEF InEitherPart
    <3> HIDE DEF both
    <3>4. QED
      BY <3>1, <3>3 DEF NamesIn
  <2>4. ~(n \in NamesIn(config.llm) /\ n \in NamesIn(config.systemone))
    <3>1. SUFFICES ASSUME NEW i \in DOMAIN config.llm, config.llm[i].name = n,
                          NEW j \in DOMAIN config.systemone, config.systemone[j].name = n
                   PROVE  FALSE
      BY DEF NamesIn
    <3>2. /\ i \in DOMAIN both /\ both[i].name = n
          /\ j + Len(config.llm) \in DOMAIN both /\ both[j + Len(config.llm)].name = n
      BY <1>3, <1>4, <3>1
    <3> HIDE DEF both
    <3>3. i = j + Len(config.llm)
      BY <1>1, <3>2 DEF Unique
    <3>4. QED
      BY <1>4, <3>3
  <2>5. QED
    BY <2>1, <2>2, <2>3, <2>4
<1>7. RoutingCandidates \subseteq DOMAIN Chats
  BY DEF RoutingCandidates, Described, Chats, NamesIn
<1>8. QED
  BY <1>6, <1>7 DEF AliasesAreApart

LEMMA EndpointsStand == ASSUME CatalogInv PROVE EndpointInForce
<1> SUFFICES ASSUME NEW ref \in DOMAIN served
             PROVE  LET c       == served[ref]
                        named   == {i \in DOMAIN flags : flags[i].name = c.def.provider}
                        inFile  == {p \in Range(config.providers) : p.name = c.def.provider}
                        inForce == IF named = {} THEN CHOOSE p \in inFile : TRUE
                                   ELSE flags[CHOOSE i \in named : \A j \in named : j <= i]
                    IN /\ c.url = inForce.url
                       /\ c.timeout = IF timeout = NoTimeout THEN inForce.timeout ELSE timeout
  BY DEF EndpointInForce
<1>1. PICK key \in DOMAIN clients : served[ref] = clients[key]
  BY DEF CatalogInv
<1>2. PICK def : served[ref] = Client(def) /\ EntryOf(providers, def.provider, MergedNow, timeout)
  BY <1>1, ClientsKnow
<1>a. served[ref].def = def /\ served[ref].url = providers[def.provider].url
      /\ served[ref].timeout = providers[def.provider].timeout
  BY <1>2 DEF Client
<1> DEFINE n == served[ref].def.provider
<1>3. PICK i \in DOMAIN MergedNow :
        /\ MergedNow[i].name = n /\ providers[n].url = MergedNow[i].url
        /\ providers[n].timeout = IF timeout = NoTimeout THEN MergedNow[i].timeout ELSE timeout
  BY <1>2, <1>a DEF EntryOf
<1> DEFINE p      == MergedNow[i]
           named  == {k \in DOMAIN flags : flags[k].name = n}
           inFile == {q \in Range(config.providers) : q.name = n}
           inForce == IF named = {} THEN CHOOSE q \in inFile : TRUE
                      ELSE flags[CHOOSE k \in named : \A j \in named : j <= k]
<1>4. config.providers \in Seq(ProviderEntries) /\ flags \in Seq(ProviderEntries)
  BY TypedEntries
<1>5. InForceAfter(p, config.providers, flags, Len(flags))
  BY <1>4, MergedLayers DEF LayeredAt, MergedNow
<1>6. DOMAIN flags = 1 .. Len(flags) /\ Len(flags) \in Nat
  BY <1>4
<1> HIDE DEF p
<1>7. inForce = p
  <2>1. CASE (\E j \in DOMAIN config.providers : config.providers[j] = p) /\ \A k \in 1 .. Len(flags) : flags[k].name # p.name
    <3>1. named = {}
      BY <1>3, <1>6, <2>1 DEF p
    <3>2. p \in inFile
      BY <1>3, <2>1 DEF p, Range
    <3>3. \A q \in inFile : q = p
      <4>1. Unique(config.providers)
        BY ClientsKnow, <1>1 DEF CatalogInv, ValidFile, ValidProviders
      <4>2. QED
        BY <1>3, <2>1, <4>1 DEF Unique, Range, p
    <3>4. QED
      BY <3>1, <3>2, <3>3
  <2>2. CASE \E k \in 1 .. Len(flags) : flags[k] = p /\ \A j \in 1 .. Len(flags) : j > k => flags[j].name # p.name
    <3>1. PICK k \in 1 .. Len(flags) : flags[k] = p /\ \A j \in 1 .. Len(flags) : j > k => flags[j].name # p.name
      BY <2>2
    <3>2. k \in named /\ \A j \in named : j <= k
      BY <1>3, <1>6, <3>1 DEF p
    <3>3. named \subseteq Nat
      BY <1>6
    <3> HIDE DEF named
    <3>4. \A l \in named : (\A j \in named : j <= l) => l = k
      BY <3>2, <3>3
    <3>5. (CHOOSE l \in named : \A j \in named : j <= l) = k
      BY <3>2, <3>4
    <3>6. QED
      BY <3>1, <3>2, <3>5
  <2>3. QED
    BY <1>5, <2>1, <2>2 DEF InForceAfter
<1>8. served[ref].url = p.url /\ served[ref].timeout = IF timeout = NoTimeout THEN p.timeout ELSE timeout
  BY <1>3, <1>a DEF p
<1>9. QED
  BY <1>7, <1>8

LEMMA CatalogStands == CatalogInv => CatalogIsSound
<1> SUFFICES ASSUME CatalogInv PROVE CatalogIsSound
  OBVIOUS
<1>1. AcceptedStarts
  BY DEF CatalogInv, AcceptedStarts
<1>2. ServedAsAsked
  BY DEF CatalogInv, ServedAsAsked, CacheKey
<1>3. QED
  BY <1>1, <1>2, ClientsTyped, NamesApart, EndpointsStand DEF CatalogIsSound

(* ModelCatalog: what is accepted starts, and a name means one entry, its  *)
(* endpoint and its model wherever it is asked for.                        *)
THEOREM CatalogStaysSound == CatalogSpec => []CatalogIsSound
<1>1. CatalogInit /\ [][CatalogNext]_catalogVars => []CatalogInv
  BY CatalogBegins, CatalogStepKeeps, PTL
<1>2. QED
  BY <1>1, CatalogStands, PTL DEF CatalogSpec

-----------------------------------------------------------------------------
(* The settings (Settings).                                                *)

(* What the layers give, one after the other.                              *)
AfterFlags == IF flag = Absent THEN Default(kind) ELSE flag
AfterEnv   == IF EnvGives THEN env ELSE AfterFlags
AfterFile  == IF FileGives THEN yaml ELSE AfterEnv

MarkedByFlag == kind \in {"pointer", "timeout"} /\ Passed
MarkedAtLast == kind \in {"pointer", "timeout"} /\ (Passed \/ FileGives)

Given ==
  /\ kind \in SettingKinds
  /\ flag \in {Absent, "zero", "one"} /\ yaml \in {Absent, "zero", "two"}
  /\ env \in {Absent, "zero", "one", "junk"}
  /\ kind \notin EnvBacked => env = Absent
  /\ env = "junk" => kind = "grants"
  /\ kind \in {"switch", "debug"} => yaml # "two"

SettingInv ==
  /\ Given /\ marked \in BOOLEAN
  /\ stage \in {"parsed", "env", "file", "runs", "refused"}
  /\ stage = "parsed" => value = AfterFlags /\ ~marked
  /\ stage = "env" => value = AfterEnv /\ (marked <=> MarkedByFlag)
  /\ stage \in {"file", "runs", "refused"} => value = AfterFile /\ (marked <=> MarkedAtLast)
  /\ stage = "runs" => mode \in {"print", "connect", "serve"}

LEMMA SettingBegins == SettingInit => SettingInv
BY DEF SettingInit, SettingInv, Given, AfterFlags, SettingKinds, EnvBacked, Absent

LEMMA SettingStepKeeps == ASSUME SettingInv, [SettingNext]_settingVars PROVE SettingInv'
<1>1. CASE MergeEnv
  BY <1>1 DEF MergeEnv, SettingInv, Given, givenVars, AfterFlags, AfterEnv, MarkedByFlag, EnvGives, Passed, Present
<1>2. CASE MergeFile
  BY <1>2 DEF MergeFile, SettingInv, Given, givenVars, AfterFlags, AfterEnv, AfterFile, MarkedByFlag, MarkedAtLast,
              FileGives, EnvGives, Passed, Present
<1>3. CASE Dispatch
  BY <1>3 DEF Dispatch, SettingInv, Given, givenVars, AfterFlags, AfterEnv, AfterFile, MarkedAtLast,
              FileGives, EnvGives, Passed, Present
<1>4. CASE UNCHANGED settingVars
  BY <1>4 DEF settingVars, SettingInv, Given, AfterFlags, AfterEnv, AfterFile, MarkedByFlag, MarkedAtLast,
              FileGives, EnvGives, Passed, Present
<1>5. QED
  BY <1>1, <1>2, <1>3, <1>4 DEF SettingNext

LEMMA InForceIsFirst == SettingInv => FirstLayerWins
<1> SUFFICES ASSUME SettingInv, stage = "runs", env # "junk", ~(kind = "endpoint" /\ EnvSays /\ YamlSays)
             PROVE  InForce = FirstSaid
  BY DEF FirstLayerWins
<1>1. Given /\ value = AfterFile /\ (marked <=> MarkedAtLast) /\ mode \in {"print", "connect", "serve"}
  BY DEF SettingInv
<1>2. CASE Passed
  BY <1>1, <1>2 DEF InForce, FirstSaid, Given, AfterFile, AfterEnv, AfterFlags, MarkedAtLast, FileGives, EnvGives, Passed
<1>3. CASE ~Passed /\ EnvSays
  BY <1>1, <1>3 DEF InForce, FirstSaid, Given, AfterFile, AfterEnv, AfterFlags, MarkedAtLast, FileGives, EnvGives,
                    Passed, Present, EnvSays, YamlSays, EnvBacked, Absent, SettingKinds, Default
<1>4. CASE ~Passed /\ ~EnvSays /\ YamlSays
  BY <1>1, <1>4 DEF InForce, FirstSaid, Given, AfterFile, AfterEnv, AfterFlags, MarkedAtLast, FileGives, EnvGives,
                    Passed, Present, EnvSays, YamlSays, EnvBacked, Absent, SettingKinds, Default
<1>5. CASE ~Passed /\ ~EnvSays /\ ~YamlSays
  BY <1>1, <1>5 DEF InForce, FirstSaid, Given, AfterFile, AfterEnv, AfterFlags, MarkedAtLast, FileGives, EnvGives,
                    Passed, Present, EnvSays, YamlSays, EnvBacked, Absent, SettingKinds, Default
<1>6. QED
  BY <1>2, <1>3, <1>4, <1>5

(* Settings: what is in force is what the first layer that says something  *)
(* says.                                                                   *)
THEOREM FirstLayerAlwaysWins == SettingSpec => []FirstLayerWins
<1>1. SettingInit /\ [][SettingNext]_settingVars => []SettingInv
  BY SettingBegins, SettingStepKeeps, PTL
<1>2. QED
  BY <1>1, InForceIsFirst, PTL DEF SettingSpec

-----------------------------------------------------------------------------
(* The prompt of a process (ProjectPrompt).                                *)

Verdicts   == TrustChoices \cup {Nowhere}
Decisions == [Dirs -> Verdicts]

(* A process runs with no prompt, or with the one its files and its trust  *)
(* gave it when it started.                                                *)
PromptInv ==
  /\ trustFile \in Decisions
  /\ at \in [Dirs -> {"down", "up", "saving", "written"}]
  /\ copy \in [Dirs -> Decisions]
  /\ prompt \in [Dirs -> [from : {Nowhere, "line", "default", "project", "user"}, name : {"", "replace", "append"}]]
  /\ trusted \in [Dirs -> BOOLEAN]
  /\ \A d \in Dirs : prompt[d] = NoPrompt \/ prompt[d] = Prompt(setup[d], trusted[d])

LEMMA NothingDecidedYet == NothingDecided \in Decisions
BY DEF NothingDecided, Decisions, Verdicts

LEMMA PromptBegins == PromptInit => PromptInv
<1> SUFFICES ASSUME PromptInit PROVE PromptInv
  OBVIOUS
<1>1. NoPrompt \in [from : {Nowhere, "line", "default", "project", "user"}, name : {"", "replace", "append"}]
  BY DEF NoPrompt
<1>2. QED
  BY <1>1, NothingDecidedYet DEF PromptInit, PromptInv

LEMMA PromptsTyped ==
  ASSUME NEW s, NEW trust \in BOOLEAN
  PROVE  Prompt(s, trust) \in [from : {Nowhere, "line", "default", "project", "user"}, name : {"", "replace", "append"}]
BY DEF Prompt, Readable, FoundPrompt, Probe, Nowhere

LEMMA ResolvedIsBoolean == \A d \in Dirs : Resolved(d) \in BOOLEAN
BY DEF Resolved

LEMMA PromptStepKeeps == ASSUME PromptInv, [PromptNext]_promptVars PROVE PromptInv'
<1>1. ASSUME NEW d \in Dirs, StartProcess(d) PROVE PromptInv'
  <2> DEFINE trust == Resolved(d)
  <2>1. trust \in BOOLEAN
    BY ResolvedIsBoolean
  <2>2. /\ at' = [at EXCEPT ![d] = "up"] /\ trusted' = [trusted EXCEPT ![d] = trust]
        /\ prompt' = [prompt EXCEPT ![d] = Prompt(setup[d], trust)]
        /\ UNCHANGED <<trustFile, setup, copy>>
    BY <1>1 DEF StartProcess
  <2> HIDE DEF trust
  <2>3. QED
    BY <2>1, <2>2, PromptsTyped DEF PromptInv
<1>2. ASSUME NEW d \in Dirs, StopProcess(d) \/ Crash(d) PROVE PromptInv'
  <2>1. NoPrompt \in [from : {Nowhere, "line", "default", "project", "user"}, name : {"", "replace", "append"}]
    BY DEF NoPrompt
  <2>2. /\ trustFile' = trustFile /\ setup' = setup /\ at' = [at EXCEPT ![d] = "down"]
        /\ copy' = copy \/ copy' = [copy EXCEPT ![d] = NothingDecided]
        /\ prompt' = [prompt EXCEPT ![d] = NoPrompt] /\ trusted' = [trusted EXCEPT ![d] = FALSE]
    BY <1>2 DEF StopProcess, Crash
  <2>3. QED
    BY <2>1, <2>2, NothingDecidedYet DEF PromptInv
<1>3. ASSUME NEW d \in Dirs, NEW choice \in TrustChoices, SetTrust(d, choice) PROVE PromptInv'
  <2>1. [trustFile EXCEPT ![d] = choice] \in Decisions
    BY DEF PromptInv, Decisions, Verdicts
  <2>2. QED
    BY <1>3, <2>1 DEF SetTrust, PromptInv
<1>4. ASSUME NEW d \in Dirs, WriteTrust(d) PROVE PromptInv'
  BY <1>4 DEF WriteTrust, Written, PromptInv
<1>5. ASSUME NEW d \in Dirs, RenameTrust(d) PROVE PromptInv'
  BY <1>5, NothingDecidedYet DEF RenameTrust, PromptInv
<1>6. CASE UNCHANGED promptVars
  BY <1>6 DEF promptVars, PromptInv
<1>7. QED
  BY <1>1, <1>2, <1>3, <1>4, <1>5, <1>6 DEF PromptNext

(* NearestPrompt, of one process.                                          *)
Nearest(s, p, trust) ==
  LET is(where, name) == p = [from |-> where, name |-> name]
  IN  /\ \A name \in {"replace", "append"} : is("project", name) => trust
      /\ s.line = "good" => p.from \in {"line", Nowhere}
      /\ is("user", "replace") => ~trust \/ s.project.replace = "absent"
      /\ is("project", "append") \/ is("user", "append") =>
           s.user.replace = "absent" /\ (trust => s.project.replace = "absent")

LEMMA NoneIsNearest == \A s, trust : Nearest(s, NoPrompt, trust)
<1>1. NoPrompt.from = Nowhere /\ Nowhere \notin {"project", "user"}
  BY DEF NoPrompt, Nowhere
<1>2. \A where \in {"project", "user"} : \A name : NoPrompt # [from |-> where, name |-> name]
  <2>1. \A where, name : [from |-> where, name |-> name].from = where
    OBVIOUS
  <2>2. QED
    BY <1>1, <2>1
<1>3. QED
  BY <1>1, <1>2 DEF Nearest

LEMMA ChosenIsNearest ==
  ASSUME NEW s, NEW trust \in BOOLEAN
  PROVE  Nearest(s, Prompt(s, trust), trust)
<1> DEFINE found == FoundPrompt(s, trust)
           p == Prompt(s, trust)
<1>1. \A a, b, c, e : [from |-> a, name |-> b] = [from |-> c, name |-> e] <=> a = c /\ b = e
  <2>1. \A a, b : [from |-> a, name |-> b].from = a /\ [from |-> a, name |-> b].name = b
    OBVIOUS
  <2>2. QED
    BY <2>1
<1> HIDE DEF p
<1>2. CASE s.line = "good"
  <2>1. p = [from |-> "line", name |-> ""]
    BY <1>2 DEF Prompt, p
  <2>2. p.from = "line"
    BY <2>1
  <2>3. \A where \in {"project", "user"} : \A name : p # [from |-> where, name |-> name]
    BY <1>1, <2>1
  <2>4. Nearest(s, p, trust)
    BY <2>2, <2>3 DEF Nearest
  <2>5. QED
    BY <2>4 DEF p
<1>3. CASE s.line # "good" /\ Readable(s, found)
  <2>1. p = found
    BY <1>3 DEF Prompt, p
  <2>2. s.line # "good"
    BY <1>3
  <2>3. Nearest(s, found, trust)
    BY <1>1, <2>2 DEF Nearest, Nowhere, FoundPrompt, Probe
  <2>4. QED
    BY <2>1, <2>3 DEF p
<1>4. CASE s.line # "good" /\ ~Readable(s, found)
  <2>1. p = [from |-> "default", name |-> ""]
    BY <1>4 DEF Prompt, p
  <2>2. \A where \in {"project", "user"} : \A name : p # [from |-> where, name |-> name]
    BY <1>1, <2>1
  <2>3. Nearest(s, p, trust)
    BY <1>4, <2>2 DEF Nearest
  <2>4. QED
    BY <2>3 DEF p
<1>5. QED
  BY <1>2, <1>3, <1>4

LEMMA PromptsNearest == PromptInv => PromptIsSafe
<1> SUFFICES ASSUME PromptInv PROVE PromptIsSafe
  OBVIOUS
<1>1. DecisionsAreReadable
  <2>1. PICK d \in Dirs : TRUE
    BY PromptAssumption
  <2>2. trustFile[d] # "torn"
    BY <2>1 DEF PromptInv, Decisions, Verdicts, TrustChoices, Nowhere
  <2>3. QED
    BY <2>1, <2>2 DEF DecisionsAreReadable, TornTrust
<1>2. NearestPrompt
  <2>1. ASSUME NEW d \in Dirs PROVE Nearest(setup[d], prompt[d], trusted[d])
    <3>1. CASE prompt[d] = NoPrompt
      BY <3>1, NoneIsNearest
    <3>2. CASE prompt[d] = Prompt(setup[d], trusted[d])
      <4>1. trusted[d] \in BOOLEAN
        BY DEF PromptInv
      <4>2. QED
        BY <3>2, <4>1, ChosenIsNearest
    <3>3. QED
      BY <3>1, <3>2 DEF PromptInv
  <2>2. QED
    BY <2>1 DEF NearestPrompt, Nearest
<1>3. QED
  BY <1>1, <1>2 DEF PromptIsSafe

(* ProjectPrompt: no crash tears the trust file, and a process runs with   *)
(* the nearest prompt that it may read.                                    *)
THEOREM PromptStaysSafe == PromptSpec => []PromptIsSafe
<1>1. PromptInit /\ [][PromptNext]_promptVars => []PromptInv
  BY PromptBegins, PromptStepKeeps, PTL
<1>2. QED
  BY <1>1, PromptsNearest, PTL DEF PromptSpec

-----------------------------------------------------------------------------
(* Each of the three keeps its invariant while the others move.            *)
LEMMA StartStepKeeps ==
  ASSUME CatalogInv, SettingInv, PromptInv, [StartNext]_startVars
  PROVE  CatalogInv' /\ SettingInv' /\ PromptInv'
<1>1. [CatalogNext]_catalogVars /\ [SettingNext]_settingVars /\ [PromptNext]_promptVars
  BY DEF StartNext, startVars
<1>2. QED
  BY <1>1, CatalogStepKeeps, SettingStepKeeps, PromptStepKeeps

(* A process starts as its flags, its environment and its files say: every *)
(* setting from the first layer that gives it, every model under its own   *)
(* name, endpoint and effort, and the nearest prompt it may read.          *)
THEOREM StartsAsItsFilesSay == StartSpec => []StartsAsConfigured
<1>1. StartInit => CatalogInv /\ SettingInv /\ PromptInv
  BY CatalogBegins, SettingBegins, PromptBegins DEF StartInit
<1>2. StartInit /\ [][StartNext]_startVars => [](CatalogInv /\ SettingInv /\ PromptInv)
  BY <1>1, StartStepKeeps, PTL
<1>3. CatalogInv /\ SettingInv /\ PromptInv => StartsAsConfigured
  BY CatalogStands, InForceIsFirst, PromptsNearest DEF StartsAsConfigured
<1>4. QED
  BY <1>2, <1>3, PTL DEF StartSpec

-----------------------------------------------------------------------------
(* The requests of each protocol (Requests).                               *)

Protos      == {"anthropic", "openai", "ollama"}
CallRecords == [id : Nat \X Nat, input : {"null", "malformed", "array", "object"}, by : Protos]

(* A round as an answer made it.                                           *)
RoundOK(calls) ==
  /\ calls \in Seq(CallRecords) /\ Len(calls) \in 1 .. MaxWidth
  /\ \A p, q \in DOMAIN calls : calls[p].id = calls[q].id => p = q
  /\ \A p \in DOMAIN calls : calls[p].input = "malformed" => calls[p].by = "anthropic"

SizesOK ==
  /\ sizes \in [budget : Nat, max : Nat \ {0}]
  /\ sizes.budget # 0 /\ sizes.max > LeastBudget => sizes.budget < sizes.max
  /\ sizes.budget > LeastBudget => sizes.budget + Headroom <= sizes.max

RequestInv ==
  /\ client \in Models /\ thinks \in {"unset", "on", "off"} /\ effort \in {"unset", "low"}
  /\ SizesOK
  /\ dialog \in Seq(Seq(CallRecords)) /\ \A r \in DOMAIN dialog : RoundOK(dialog[r])

LEMMA MaxOfTwo == ASSUME NEW a \in Int, NEW b \in Int PROVE Max({a, b}) = IF a >= b THEN a ELSE b
<1> DEFINE m == IF a >= b THEN a ELSE b
<1>1. m \in {a, b} /\ \A y \in {a, b} : m >= y
  OBVIOUS
<1>2. \A x \in {a, b} : (\A y \in {a, b} : x >= y) => x = m
  OBVIOUS
<1> HIDE DEF m
<1>3. (CHOOSE x \in {a, b} : \A y \in {a, b} : x >= y) = m
  BY <1>1, <1>2
<1> QED
  BY <1>3 DEF Max, m

LEMMA MinOfTwo == ASSUME NEW a \in Int, NEW b \in Int PROVE Min({a, b}) = IF a <= b THEN a ELSE b
<1> DEFINE m == IF a <= b THEN a ELSE b
<1>1. m \in {a, b} /\ \A y \in {a, b} : m <= y
  OBVIOUS
<1>2. \A x \in {a, b} : (\A y \in {a, b} : x <= y) => x = m
  OBVIOUS
<1> HIDE DEF m
<1>3. (CHOOSE x \in {a, b} : \A y \in {a, b} : x <= y) = m
  BY <1>1, <1>2
<1> QED
  BY <1>3 DEF Min, m

(* What sizeOutput makes of a budget and a limit.                          *)
LEMMA SizesFit ==
  ASSUME NEW budget \in Nat, NEW limit \in Nat, sizes = SizeOutput(budget, limit)
  PROVE  SizesOK
<1> DEFINE wanted == IF StdResponse >= budget + Headroom THEN StdResponse ELSE budget + Headroom
           most   == IF limit > 0 THEN IF wanted <= limit THEN wanted ELSE limit ELSE wanted
           clamped == IF most - Headroom >= LeastBudget THEN most - Headroom ELSE LeastBudget
<1>1. sizes = IF budget = 0 THEN [budget |-> 0, max |-> StdResponse]
              ELSE IF budget + Headroom <= most THEN [budget |-> budget, max |-> most]
              ELSE [budget |-> clamped, max |-> most]
  <2>1. Max({StdResponse, budget + Headroom}) = wanted
    BY MaxOfTwo DEF StdResponse, Headroom
  <2>2. wanted \in Int
    BY DEF StdResponse, Headroom
  <2>3. Min({wanted, limit}) = IF wanted <= limit THEN wanted ELSE limit
    BY <2>2, MinOfTwo
  <2>4. most \in Int
    BY <2>2
  <2>5. Max({most - Headroom, LeastBudget}) = clamped
    BY <2>4, MaxOfTwo DEF LeastBudget, Headroom
  <2> HIDE DEF wanted, clamped
  <2>6. QED
    BY <2>1, <2>3, <2>5 DEF SizeOutput
<1>2. QED
  BY <1>1 DEF SizesOK, StdResponse, Headroom, LeastBudget

LEMMA SizesLeaveRoom == ASSUME SizesOK PROVE RoomForTheAnswer
<1>1. AnthropicBudget = IF sizes.budget >= LeastBudget THEN sizes.budget ELSE LeastBudget
  BY MaxOfTwo DEF AnthropicBudget, SizesOK, LeastBudget
<1>2. QED
  BY <1>1 DEF RoomForTheAnswer, AnthropicRefuses, AnthropicThinking, SizesOK, LeastBudget, Headroom


LEMMA RankIsPlace == ASSUME NEW n \in Nat, NEW p \in 1 .. n PROVE RankOf(1 .. n, p) = p
<1>1. {q \in 1 .. n : q <= p} = 1 .. p
  OBVIOUS
<1>2. Cardinality(1 .. p) = p
  BY FS_Interval
<1>3. QED
  BY <1>1, <1>2 DEF RankOf

(* One message with all the results.                                       *)
LEMMA TogetherSurvive ==
  ASSUME NEW made, RoundOK(made)
  PROVE  Survives(MessagesOf("anthropic", made), FALSE)
<1> DEFINE n == Len(made)
           answers == [p \in DOMAIN made |-> QuotesId(made[p])]
           msgs == <<CallsMessage(made), Holds(answers)>>
<1>1. n \in 1 .. MaxWidth /\ n \in Nat /\ DOMAIN made = 1 .. n
  BY DEF RoundOK
<1>2. /\ MessagesOf("anthropic", made) = msgs
      /\ DOMAIN msgs = {1, 2}
      /\ msgs[1].role = "assistant" /\ msgs[1].calls = made /\ msgs[1].results = <<>>
      /\ msgs[2].role = "tool" /\ msgs[2].results = answers
  BY DEF MessagesOf, AnthropicRound, CallsMessage, Holds
<1>3. \A k \in 1 .. n : answers[k].quotes = "id" /\ answers[k].of = made[k].id
  BY <1>1 DEF QuotesId
<1>4. DOMAIN answers = 1 .. n /\ DOMAIN <<>> = {}
  BY <1>1
<1> HIDE DEF msgs, answers
<1>5. \A a : a \in ResultsIn(msgs) <=> \E k \in 1 .. n : a = <<2, k>>
  <2>1. n <= MaxWidth /\ MaxWidth \in Nat
    BY <1>1, RequestAssumption
  <2>2. QED
    BY <1>1, <1>2, <1>4, <2>1 DEF ResultsIn
<1>6. \A k \in 1 .. n : ResultAt(msgs, <<2, k>>) = answers[k]
  BY <1>1, <1>2 DEF ResultAt
<1>7. \A j, k \in 1 .. n : Before(<<2, j>>, <<2, k>>) <=> j < k
  BY <1>1 DEF Before
<1>8. \A p, q \in 1 .. n : made[p].id = made[q].id => p = q
  BY <1>1 DEF RoundOK
<1>9. \A m \in DOMAIN msgs : msgs[m].role = "assistant" <=> m = 1
  BY <1>2
<1>10. ASSUME NEW a \in ResultsIn(msgs)
       PROVE  \E p \in DOMAIN made : TakenFor(msgs, a) = {p} /\ made[p].id = ResultAt(msgs, a).of
  <2>1. PICK k \in 1 .. n : a = <<2, k>>
    BY <1>5
  <2>2. ResultAt(msgs, a).quotes = "id" /\ ResultAt(msgs, a).of = made[k].id
    BY <1>3, <1>6, <2>1
  <2>3. TakenFor(msgs, a) = {p \in 1 .. n : made[p].id = made[k].id}
    BY <1>1, <1>2, <2>2 DEF TakenFor
  <2>4. TakenFor(msgs, a) = {k}
    BY <1>8, <2>3
  <2>5. QED
    BY <1>1, <2>2, <2>4
<1>11. \A p \in DOMAIN made : \E a \in ResultsIn(msgs) : made[p].id = ResultAt(msgs, a).of
  BY <1>1, <1>3, <1>5, <1>6
<1>12. ASSUME NEW a \in ResultsIn(msgs), NEW b \in ResultsIn(msgs), NEW p \in DOMAIN made, NEW q \in DOMAIN made,
              made[p].id = ResultAt(msgs, a).of, made[q].id = ResultAt(msgs, b).of
       PROVE  p < q <=> Before(a, b)
  <2>1. PICK j \in 1 .. n : a = <<2, j>>
    BY <1>5
  <2>2. PICK k \in 1 .. n : b = <<2, k>>
    BY <1>5
  <2>3. p = j /\ q = k
    BY <1>1, <1>3, <1>6, <1>8, <1>12, <2>1, <2>2
  <2>4. QED
    BY <1>7, <2>1, <2>2, <2>3
<1>13. QED
  BY <1>2, <1>9, <1>10, <1>11, <1>12 DEF Survives

(* A message for each result, behind one with calls that keep their ids:   *)
(* whether a result is known by its id or by its rank.                     *)
LEMMA ApartSurvive ==
  ASSUME NEW made, RoundOK(made), NEW proto, NEW kept, NEW answers,
         DOMAIN kept \subseteq DOMAIN made, \A p \in DOMAIN kept : kept[p].id = made[p].id,
         \A p \in DOMAIN made : answers[p].of = made[p].id,
         MessagesOf(proto, made) = <<CallsMessage(kept)>> \o [p \in DOMAIN made |-> Holds(<<answers[p]>>)],
         DOMAIN kept = DOMAIN made \/ Unreadable(proto, made)
  PROVE  Survives(MessagesOf(proto, made), Unreadable(proto, made))
<1> DEFINE n == Len(made)
           msgs == <<CallsMessage(kept)>> \o [p \in DOMAIN made |-> Holds(<<answers[p]>>)]
<1>1. n \in 1 .. MaxWidth /\ n \in Nat /\ DOMAIN made = 1 .. n
  BY DEF RoundOK
<1>2. /\ DOMAIN msgs = 1 .. n + 1
      /\ msgs[1] = CallsMessage(kept)
      /\ \A k \in 1 .. n : msgs[k + 1] = Holds(<<answers[k]>>)
  <2> DEFINE rest == [p \in 1 .. n |-> Holds(<<answers[p]>>)]
             all == {Holds(<<answers[p]>>) : p \in 1 .. n} \cup {CallsMessage(kept)}
  <2>1. \A p \in 1 .. n : Holds(<<answers[p]>>) \in all
    OBVIOUS
  <2>2. CallsMessage(kept) \in all
    OBVIOUS
  <2> HIDE DEF all
  <2>3. rest \in [1 .. n -> all]
    BY <2>1
  <2>4. \A k \in 1 .. n : rest[k] = Holds(<<answers[k]>>)
    OBVIOUS
  <2>5. [p \in DOMAIN made |-> Holds(<<answers[p]>>)] = rest
    BY <1>1
  <2> HIDE DEF rest
  <2>6. rest \in Seq(all) /\ Len(rest) = n /\ <<CallsMessage(kept)>> \in Seq(all)
    BY <1>1, <2>2, <2>3
  <2>7. QED
    BY <1>1, <2>4, <2>5, <2>6
<1>3. MessagesOf(proto, made) = msgs
  OBVIOUS
<1> HIDE DEF msgs
<1>4. /\ msgs[1].role = "assistant" /\ msgs[1].calls = kept /\ msgs[1].results = <<>>
      /\ \A k \in 1 .. n : msgs[k + 1].role = "tool" /\ msgs[k + 1].results = <<answers[k]>>
  <2>1. msgs[1].role = "assistant" /\ msgs[1].calls = kept /\ msgs[1].results = <<>>
    BY <1>2 DEF CallsMessage
  <2>2. \A x : Holds(x).role = "tool" /\ Holds(x).results = x
    BY DEF Holds
  <2>3. QED
    BY <1>2, <2>1, <2>2
<1>5. \A m \in DOMAIN msgs : m = 1 \/ \E k \in 1 .. n : m = k + 1
  <2>1. \A m \in 1 .. n + 1 : m = 1 \/ (m - 1 \in 1 .. n /\ m = (m - 1) + 1)
    BY <1>1
  <2>2. QED
    BY <1>2, <2>1
<1>6. \A a : a \in ResultsIn(msgs) <=> \E k \in 1 .. n : a = <<k + 1, 1>>
  <2>1. MaxWidth \in Nat /\ 1 \in 1 .. MaxWidth
    BY <1>1, RequestAssumption
  <2>2. ASSUME NEW a \in ResultsIn(msgs) PROVE \E k \in 1 .. n : a = <<k + 1, 1>>
    <3>1. a \in (DOMAIN msgs) \X (1 .. MaxWidth) /\ a[2] \in DOMAIN msgs[a[1]].results
      BY DEF ResultsIn
    <3>2. a = <<a[1], a[2]>> /\ a[1] \in DOMAIN msgs
      BY <3>1
    <3>3. a[1] # 1
      BY <3>1, <1>4
    <3>4. PICK k \in 1 .. n : a[1] = k + 1
      BY <3>2, <3>3, <1>5
    <3>5. a[2] = 1
      BY <3>1, <3>4, <1>4
    <3>6. QED
      BY <3>2, <3>4, <3>5
  <2>3. ASSUME NEW k \in 1 .. n PROVE <<k + 1, 1>> \in ResultsIn(msgs)
    <3>1. k + 1 \in DOMAIN msgs
      BY <1>1, <1>2
    <3>2. 1 \in DOMAIN msgs[k + 1].results
      BY <1>4
    <3>3. QED
      BY <2>1, <3>1, <3>2 DEF ResultsIn
  <2>4. QED
    BY <2>2, <2>3
<1>7. \A k \in 1 .. n : ResultAt(msgs, <<k + 1, 1>>) = answers[k] /\ answers[k].of = made[k].id
  BY <1>1, <1>4 DEF ResultAt
<1>8. \A j, k \in 1 .. n : Before(<<j + 1, 1>>, <<k + 1, 1>>) <=> j < k
  BY <1>1 DEF Before
<1>9. \A p, q \in 1 .. n : made[p].id = made[q].id => p = q
  BY <1>1 DEF RoundOK
<1>10. \A m \in DOMAIN msgs : msgs[m].role = "assistant" <=> m = 1
  <2>1. \A k \in 1 .. n : k + 1 # 1
    BY <1>1
  <2>2. QED
    BY <1>4, <1>5, <2>1
<1>11. ASSUME ~Unreadable(proto, made), NEW a \in ResultsIn(msgs)
       PROVE  \E p \in DOMAIN kept : TakenFor(msgs, a) = {p} /\ kept[p].id = ResultAt(msgs, a).of
  <2>1. PICK k \in 1 .. n : a = <<k + 1, 1>>
    BY <1>6
  <2>2. DOMAIN kept = 1 .. n /\ \A p \in 1 .. n : kept[p].id = made[p].id
    BY <1>1, <1>11
  <2>3. a[1] - 1 = k /\ ResultAt(msgs, a).of = made[k].id
    BY <1>1, <1>7, <2>1
  <2>4. {p \in 1 .. n : kept[p].id = made[k].id} = {k}
    BY <1>9, <2>2
  <2>5. {p \in 1 .. n : RankOf(1 .. n, p) = k} = {k}
    BY <1>1, RankIsPlace
  <2>6. TakenFor(msgs, a) = {k}
    <3>1. CASE ResultAt(msgs, a).quotes = "id"
      <4>1. TakenFor(msgs, a) = {p \in 1 .. n : kept[p].id = made[k].id}
        BY <1>4, <2>2, <2>3, <3>1 DEF TakenFor
      <4>2. QED
        BY <2>4, <4>1
    <3>2. CASE ResultAt(msgs, a).quotes # "id"
      <4>1. TakenFor(msgs, a) = {p \in 1 .. n : RankOf(1 .. n, p) = k}
        BY <1>4, <2>2, <2>3, <3>2 DEF TakenFor
      <4>2. QED
        BY <2>5, <4>1
    <3>3. QED
      BY <3>1, <3>2
  <2>7. QED
    BY <2>2, <2>3, <2>6
<1>12. \A p \in DOMAIN kept : \E a \in ResultsIn(msgs) : kept[p].id = ResultAt(msgs, a).of
  BY <1>1, <1>6, <1>7
<1>13. ASSUME NEW a \in ResultsIn(msgs), NEW b \in ResultsIn(msgs), NEW p \in DOMAIN kept, NEW q \in DOMAIN kept,
              kept[p].id = ResultAt(msgs, a).of, kept[q].id = ResultAt(msgs, b).of
       PROVE  p < q <=> Before(a, b)
  <2>1. PICK j \in 1 .. n : a = <<j + 1, 1>>
    BY <1>6
  <2>2. PICK k \in 1 .. n : b = <<k + 1, 1>>
    BY <1>6
  <2>3. made[p].id = made[j].id /\ made[q].id = made[k].id
    BY <1>7, <1>13, <2>1, <2>2
  <2>4. p = j /\ q = k
    BY <1>1, <1>9, <2>3
  <2>5. QED
    BY <1>8, <2>1, <2>2, <2>4
<1>14. msgs[1].calls = kept
  BY <1>4
<1>15. Survives(msgs, Unreadable(proto, made))
  BY <1>10, <1>11, <1>12, <1>13, <1>14 DEF Survives
<1>16. QED
  BY <1>3, <1>15

(* Whatever protocol sends a round, its pairs survive.                     *)
LEMMA RoundSurvives ==
  ASSUME NEW made, RoundOK(made), NEW proto \in Protos
  PROVE  Survives(MessagesOf(proto, made), Unreadable(proto, made))
<1>1. CASE proto = "anthropic"
  BY <1>1, TogetherSurvive DEF Unreadable
<1>2. CASE proto = "openai"
  <2> DEFINE kept == [p \in DOMAIN made |-> [made[p] EXCEPT !.input = Normalized(@)]]
             answers == [p \in DOMAIN made |-> QuotesId(made[p])]
  <2>1. \A p \in DOMAIN made : made[p] \in CallRecords
    BY DEF RoundOK
  <2>2. \A p \in DOMAIN kept : kept[p].id = made[p].id
    BY <2>1 DEF CallRecords
  <2>3. \A p \in DOMAIN made : answers[p] = QuotesId(made[p]) /\ answers[p].of = made[p].id
    BY DEF QuotesId
  <2>4. MessagesOf(proto, made) = <<CallsMessage(kept)>> \o [p \in DOMAIN made |-> Holds(<<QuotesId(made[p])>>)]
    BY <1>2 DEF MessagesOf, OpenAIRound
  <2> HIDE DEF kept, answers
  <2>5. DOMAIN kept \subseteq DOMAIN made /\ (DOMAIN kept = DOMAIN made \/ Unreadable(proto, made))
    BY DEF kept
  <2>6. [p \in DOMAIN made |-> Holds(<<QuotesId(made[p])>>)] = [p \in DOMAIN made |-> Holds(<<answers[p]>>)]
    BY <2>3
  <2>7. MessagesOf(proto, made) = <<CallsMessage(kept)>> \o [p \in DOMAIN made |-> Holds(<<answers[p]>>)]
    BY <2>4, <2>6
  <2>8. QED
    BY <2>2, <2>3, <2>5, <2>7, ApartSurvive
<1>3. CASE proto = "ollama"
  <2> DEFINE S == {q \in DOMAIN made : Parses(made[q])}
             kept == [p \in S |-> made[p]]
             answers == [p \in DOMAIN made |-> QuotesName(made[p])]
  <2>1. DOMAIN kept = S /\ \A p \in DOMAIN kept : kept[p].id = made[p].id
    OBVIOUS
  <2>2. \A p \in DOMAIN made : answers[p] = QuotesName(made[p]) /\ answers[p].of = made[p].id
    BY DEF QuotesName
  <2>3. MessagesOf(proto, made) = <<CallsMessage(kept)>> \o [p \in DOMAIN made |-> Holds(<<QuotesName(made[p])>>)]
    BY <1>3 DEF MessagesOf, OllamaRound
  <2>4. DOMAIN kept = DOMAIN made \/ Unreadable(proto, made)
    BY <1>3 DEF Unreadable
  <2>5. DOMAIN kept \subseteq DOMAIN made
    OBVIOUS
  <2> HIDE DEF S, kept, answers
  <2>6. [p \in DOMAIN made |-> Holds(<<QuotesName(made[p])>>)] = [p \in DOMAIN made |-> Holds(<<answers[p]>>)]
    BY <2>2
  <2>7. MessagesOf(proto, made) = <<CallsMessage(kept)>> \o [p \in DOMAIN made |-> Holds(<<answers[p]>>)]
    BY <2>3, <2>6
  <2>8. QED
    BY <2>1, <2>2, <2>4, <2>5, <2>7, ApartSurvive
<1>4. QED
  BY <1>1, <1>2, <1>3 DEF Protos

(* Of a round, openai and ollama send no input that is not JSON, and       *)
(* anthropic none that it was not handed.                                  *)
LEMMA SendsValid ==
  ASSUME NEW made, RoundOK(made), NEW proto \in Protos,
         proto = "anthropic" => \A p \in DOMAIN made : made[p].input # "malformed"
  PROVE  \A p \in DOMAIN MessagesOf(proto, made)[1].calls :
           MessagesOf(proto, made)[1].calls[p].input # "malformed"
<1>1. \A p \in DOMAIN made : made[p] \in CallRecords
  BY DEF RoundOK
<1>2. \E n \in Nat : DOMAIN made = 1 .. n
  BY DEF RoundOK
<1>3. ASSUME NEW kept, NEW rest, DOMAIN rest = DOMAIN made,
             MessagesOf(proto, made) = <<CallsMessage(kept)>> \o rest
      PROVE  MessagesOf(proto, made)[1].calls = kept
  <2>1. MessagesOf(proto, made)[1] = CallsMessage(kept)
    BY <1>2, <1>3
  <2>2. QED
    BY <2>1 DEF CallsMessage
<1>4. CASE proto = "anthropic"
  BY <1>4 DEF MessagesOf, AnthropicRound, CallsMessage
<1>5. CASE proto = "openai"
  <2> DEFINE kept == [p \in DOMAIN made |-> [made[p] EXCEPT !.input = Normalized(@)]]
             rest == [p \in DOMAIN made |-> Holds(<<QuotesId(made[p])>>)]
  <2>1. \A p \in DOMAIN kept : kept[p].input # "malformed"
    BY <1>1 DEF CallRecords, Normalized
  <2>2. MessagesOf(proto, made) = <<CallsMessage(kept)>> \o rest
    BY <1>5 DEF MessagesOf, OpenAIRound
  <2>3. DOMAIN rest = DOMAIN made
    OBVIOUS
  <2> HIDE DEF kept, rest
  <2>4. QED
    BY <1>3, <2>1, <2>2, <2>3
<1>6. CASE proto = "ollama"
  <2> DEFINE kept == [p \in {q \in DOMAIN made : Parses(made[q])} |-> made[p]]
             rest == [p \in DOMAIN made |-> Holds(<<QuotesName(made[p])>>)]
  <2>1. \A p \in DOMAIN kept : kept[p].input # "malformed"
    BY DEF Parses
  <2>2. MessagesOf(proto, made) = <<CallsMessage(kept)>> \o rest
    BY <1>6 DEF MessagesOf, OllamaRound
  <2>3. DOMAIN rest = DOMAIN made
    OBVIOUS
  <2> HIDE DEF kept, rest
  <2>4. QED
    BY <1>3, <2>1, <2>2, <2>3
<1>7. QED
  BY <1>4, <1>5, <1>6 DEF Protos

(* The two protocols that know only levels agree on them.                  *)
LEMMA SameTier == ASSUME NEW b \in Nat PROVE Tier(b) = OllamaTier(b)
<1>1. b \in 4096 .. 16383 <=> (4096 <= b /\ b < 16384)
  OBVIOUS
<1>2. QED
  BY <1>1 DEF Tier, OllamaTier

LEMMA InvGivesValid == ASSUME RequestInv PROVE RequestsAreValid
<1>1. client.proto \in Protos /\ client.limit \in Nat
  BY RequestAssumption DEF RequestInv, Protos
<1>2. RequestTypeOK
  <2>1. ASSUME NEW r \in DOMAIN dialog, NEW p \in DOMAIN dialog[r]
        PROVE  dialog[r][p].input \in {"null", "malformed", "array", "object"}
    <3>1. dialog[r] \in Seq(CallRecords)
      BY DEF RequestInv
    <3>2. dialog[r][p] \in CallRecords
      BY <3>1
    <3>3. QED
      BY <3>2 DEF CallRecords
  <2>2. QED
    BY <2>1 DEF RequestInv, SizesOK, RequestTypeOK
<1>3. RoomForTheAnswer
  BY SizesLeaveRoom DEF RequestInv
<1>4. PairsSurvive
  <2>1. \A r \in DOMAIN dialog : Survives(MessagesOf(client.proto, dialog[r]), Unreadable(client.proto, dialog[r]))
    BY <1>1, RoundSurvives DEF RequestInv
  <2>2. \A r \in DOMAIN dialog : Messages[r] = MessagesOf(client.proto, dialog[r])
    BY DEF Messages
  <2>3. QED
    BY <2>1, <2>2 DEF PairsSurvive
<1>5. ReplayedAsValid
  <2>1. \A r \in DOMAIN dialog : Messages[r] = MessagesOf(client.proto, dialog[r]) /\ RoundOK(dialog[r])
    BY DEF Messages, RequestInv
  <2>2. ASSUME GoesOut, NEW r \in DOMAIN dialog
        PROVE  \A p \in DOMAIN Messages[r][1].calls : Messages[r][1].calls[p].input # "malformed"
    <3>1. client.proto = "anthropic" => \A p \in DOMAIN dialog[r] : dialog[r][p].input # "malformed"
      BY <2>2 DEF GoesOut
    <3>2. QED
      BY <1>1, <2>1, <3>1, SendsValid
  <2>3. ASSUME ~GoesOut
        PROVE  /\ client.proto = "anthropic"
               /\ \E r \in DOMAIN dialog : \E p \in DOMAIN dialog[r] :
                    dialog[r][p].input = "malformed" /\ dialog[r][p].by = "anthropic"
    BY <2>1, <2>3 DEF GoesOut, RoundOK
  <2>4. QED
    BY <2>2, <2>3 DEF ReplayedAsValid
<1>6. EffortsAgree
  <2>1. sizes.budget \in Nat
    BY DEF RequestInv, SizesOK
  <2>2. Tier(sizes.budget) = OllamaTier(sizes.budget)
    BY <2>1, SameTier
  <2>3. QED
    BY <2>2 DEF EffortsAgree, OllamaThink, OpenAIEffort, AnthropicThinking
<1>7. QED
  BY <1>2, <1>3, <1>4, <1>5, <1>6 DEF RequestsAreValid

LEMMA RequestBegins == RequestInit => RequestInv
<1> SUFFICES ASSUME RequestInit PROVE RequestInv
  OBVIOUS
<1>1. PICK b \in Budgets : sizes = SizeOutput(b, client.limit)
  BY DEF RequestInit
<1>2. b \in Nat /\ client.limit \in Nat
  BY RequestAssumption DEF RequestInit
<1>3. SizesOK
  BY <1>1, <1>2, SizesFit
<1>4. QED
  BY <1>3 DEF RequestInit, RequestInv

(* The calls of an answer, as the client of its protocol takes them.       *)
LEMMA AnswerIsARound ==
  ASSUME RequestInv, NEW n \in 1 .. MaxWidth, NEW inputs \in [1 .. n -> Inputs],
         \A p \in DOMAIN inputs : inputs[p] \in Possible(client.proto)
  PROVE  RoundOK([p \in DOMAIN inputs |->
                    [id    |-> CallId(client.proto, Len(dialog) + 1, p),
                     input |-> Received(client.proto, inputs[p]),
                     by    |-> client.proto]])
<1> DEFINE made == [p \in 1 .. n |-> [id    |-> CallId(client.proto, Len(dialog) + 1, p),
                                     input |-> Received(client.proto, inputs[p]),
                                     by    |-> client.proto]]
<1>1. client.proto \in Protos /\ Len(dialog) + 1 \in Nat /\ n \in Nat
  BY RequestAssumption DEF RequestInv, Protos
<1>2. \A p \in 1 .. n : CallId(client.proto, Len(dialog) + 1, p) \in Nat \X Nat
  BY <1>1 DEF CallId
<1>3. \A p, q \in 1 .. n : CallId(client.proto, Len(dialog) + 1, p) = CallId(client.proto, Len(dialog) + 1, q) => p = q
  BY DEF CallId
<1>4. \A p \in 1 .. n : /\ Received(client.proto, inputs[p]) \in {"null", "malformed", "array", "object"}
                        /\ Received(client.proto, inputs[p]) = "malformed" => client.proto = "anthropic"
  BY <1>1 DEF Received, Normalized, AnthropicReceived, Inputs, Possible, Protos
<1>5. \A p \in 1 .. n : made[p] \in CallRecords /\ (made[p].input = "malformed" => made[p].by = "anthropic")
  BY <1>1, <1>2, <1>4 DEF CallRecords
<1>6. made \in Seq(CallRecords) /\ Len(made) = n /\ DOMAIN made = 1 .. n
  BY <1>1, <1>5
<1>7. \A p, q \in 1 .. n : made[p].id = made[q].id => p = q
  BY <1>3
<1> HIDE DEF made
<1>8. RoundOK(made)
  BY <1>5, <1>6, <1>7 DEF RoundOK
<1>9. QED
  BY <1>8 DEF made

LEMMA RequestStepKeeps == ASSUME RequestInv, [RequestNext]_requestVars PROVE RequestInv'
<1>1. CASE SwitchClient
  BY <1>1 DEF SwitchClient, RequestInv, SizesOK
<1>2. CASE ToggleThinking
  BY <1>2 DEF ToggleThinking, RequestInv, SizesOK
<1>3. ASSUME NEW n \in 1 .. MaxWidth, NEW inputs \in [1 .. n -> Inputs], AnswerCalls(inputs)
      PROVE  RequestInv'
  <2> DEFINE made == [p \in DOMAIN inputs |->
                       [id    |-> CallId(client.proto, Len(dialog) + 1, p),
                        input |-> Received(client.proto, inputs[p]),
                        by    |-> client.proto]]
  <2>1. RoundOK(made)
    BY <1>3, AnswerIsARound DEF AnswerCalls
  <2>2. dialog' = Append(dialog, made) /\ UNCHANGED <<client, sizes, thinks, effort>>
    BY <1>3 DEF AnswerCalls
  <2> HIDE DEF made
  <2>3. dialog \in Seq(Seq(CallRecords)) /\ made \in Seq(CallRecords)
    BY <2>1 DEF RequestInv, RoundOK
  <2>4. dialog' \in Seq(Seq(CallRecords)) /\ \A r \in DOMAIN dialog' : dialog'[r] = made \/ (r \in DOMAIN dialog /\ dialog'[r] = dialog[r])
    BY <2>2, <2>3
  <2>5. \A r \in DOMAIN dialog' : RoundOK(dialog'[r])
    BY <2>1, <2>4 DEF RequestInv
  <2>6. QED
    BY <2>2, <2>4, <2>5 DEF RequestInv, SizesOK
<1>4. CASE UNCHANGED requestVars
  BY <1>4 DEF requestVars, RequestInv, SizesOK
<1>5. QED
  BY <1>1, <1>2, <1>3, <1>4 DEF RequestNext

(* Requests: for every model, budget and history, the response has room    *)
(* beside the thinking, every call keeps its result (but where ollama      *)
(* leaves one out), what is replayed by a request that goes out is valid,  *)
(* and only anthropic's own malformed inputs keep one from going out.      *)
THEOREM RequestsStayValid == RequestSpec => []RequestsAreValid
<1>1. RequestInit /\ [][RequestNext]_requestVars => []RequestInv
  BY RequestBegins, RequestStepKeeps, PTL
<1>2. QED
  BY <1>1, InvGivesValid, PTL DEF RequestSpec

-----------------------------------------------------------------------------
(* What a second model reads (Transcripts).                                *)

TalkInv ==
  /\ talk \in Seq(TalkMessages)
  /\ pinned \in 0 .. Len(talk)
  /\ pinned # 0 => talk[pinned].length > 0

(* The places of a talk.                                                   *)
LEMMA PlacesCount ==
  ASSUME NEW n \in Nat, NEW S \in SUBSET (1 .. n)
  PROVE  /\ IsFiniteSet(S) /\ Cardinality(S) \in Nat /\ Cardinality(S) <= n
         /\ \A T \in SUBSET S : IsFiniteSet(T) /\ Cardinality(T) \in Nat /\ Cardinality(T) <= Cardinality(S)
<1>1. IsFiniteSet(1 .. n) /\ Cardinality(1 .. n) = n
  <2>1. 1 \in Int /\ n \in Int
    OBVIOUS
  <2>2. QED
    BY <2>1, FS_Interval
<1>2. IsFiniteSet(S) /\ Cardinality(S) <= n
  BY <1>1, FS_Subset
<1>3. Cardinality(S) \in Nat
  BY <1>2, FS_CardinalityType
<1>4. ASSUME NEW T \in SUBSET S
      PROVE  IsFiniteSet(T) /\ Cardinality(T) \in Nat /\ Cardinality(T) <= Cardinality(S)
  BY <1>2, FS_Subset, FS_CardinalityType
<1>5. QED
  BY <1>2, <1>3, <1>4

(* The newest n are at most n, and n if there are so many; whoever is not  *)
(* among them is older than all who are.                                   *)
After(S, i) == {j \in S : j > i}

LEMMA NewestAreFew ==
  ASSUME NEW m \in Nat, NEW S \in SUBSET (1 .. m), NEW n \in Nat
  PROVE  /\ Newest(S, n) \subseteq S /\ Cardinality(Newest(S, n)) <= n
         /\ \A i \in Newest(S, n), j \in S : j \notin Newest(S, n) => j < i
<1>1. \A i \in S : IsFiniteSet(After(S, i)) /\ Cardinality(After(S, i)) \in Nat
  BY PlacesCount DEF After
<1>2. Newest(S, n) = {i \in S : Cardinality(After(S, i)) < n}
  BY DEF Newest, After
<1>3. ASSUME NEW i \in S, NEW j \in S, i < j PROVE Cardinality(After(S, j)) < Cardinality(After(S, i))
  <2>1. After(S, j) \subseteq After(S, i) /\ After(S, j) # After(S, i)
    <3>1. j \in After(S, i) /\ j \notin After(S, j)
      BY <1>3 DEF After
    <3>2. \A k \in S : k > j => k > i
      BY <1>3
    <3>3. QED
      BY <3>1, <3>2 DEF After
  <2>2. QED
    BY <1>1, <2>1, FS_Subset
<1>4. ASSUME NEW i \in Newest(S, n), NEW j \in S, j \notin Newest(S, n) PROVE j < i
  <2>1. SUFFICES ASSUME ~(j < i) PROVE FALSE
    OBVIOUS
  <2>2. i \in S /\ i # j /\ i < j
    <3>1. i \in S
      BY <1>2
    <3>2. i # j
      BY <1>4
    <3>3. i \in Nat /\ j \in Nat
      BY <3>1
    <3>4. QED
      BY <2>1, <3>1, <3>2, <3>3
  <2>a. Cardinality(After(S, i)) < n
    BY <1>2
  <2>b. Cardinality(After(S, j)) < Cardinality(After(S, i))
    BY <1>3, <2>2
  <2>3. Cardinality(After(S, j)) < n
    <3>1. Cardinality(After(S, i)) \in Nat /\ Cardinality(After(S, j)) \in Nat
      BY <1>1, <2>2
    <3>2. QED
      BY <2>a, <2>b, <3>1
  <2>4. QED
    BY <1>2, <1>4, <2>3
<1>5. Cardinality(Newest(S, n)) <= n
  <2> DEFINE T == Newest(S, n)
             rank == [i \in T |-> Cardinality(After(S, i))]
  <2>1. rank \in [T -> 0 .. n - 1]
    <3>1. ASSUME NEW i \in T PROVE Cardinality(After(S, i)) \in 0 .. n - 1
      <4>1. i \in S /\ Cardinality(After(S, i)) < n
        BY <1>2
      <4>2. Cardinality(After(S, i)) \in Nat
        BY <1>1, <4>1
      <4>3. QED
        BY <4>1, <4>2
    <3>2. QED
      BY <3>1
  <2>2. \A i, j \in T : rank[i] = rank[j] => i = j
    <3>1. T \subseteq S /\ S \subseteq Nat
      BY <1>2
    <3>2. \A i \in T : rank[i] = Cardinality(After(S, i))
      OBVIOUS
    <3> HIDE DEF T, rank
    <3>3. ASSUME NEW i \in T, NEW j \in T, i < j PROVE rank[i] # rank[j]
      <4>1. rank[j] < rank[i] /\ rank[i] \in Nat /\ rank[j] \in Nat
        BY <1>1, <1>3, <3>1, <3>2, <3>3
      <4>2. QED
        BY <4>1
    <3>4. \A i, j \in T : i = j \/ i < j \/ j < i
      BY <3>1
    <3>5. QED
      BY <3>3, <3>4
  <2>3. rank \in Injection(T, 0 .. n - 1)
    BY <2>1, <2>2 DEF Injection, IsInjective
  <2>4. IsFiniteSet(0 .. n - 1) /\ Cardinality(0 .. n - 1) = n
    <3>1. 0 \in Int /\ n - 1 \in Int
      OBVIOUS
    <3>2. IsFiniteSet(0 .. n - 1) /\ Cardinality(0 .. n - 1) = IF 0 > n - 1 THEN 0 ELSE (n - 1) - 0 + 1
      BY <3>1, FS_Interval
    <3>3. QED
      BY <3>2
  <2>5. QED
    BY <2>3, <2>4, FS_Injection
<1>6. QED
  BY <1>2, <1>4, <1>5

LEMMA NewestAreMany ==
  ASSUME NEW m \in Nat, NEW S \in SUBSET (1 .. m), NEW n \in Nat
  PROVE  Cardinality(Newest(S, n)) = IF Cardinality(S) < n THEN Cardinality(S) ELSE n
<1> DEFINE T == Newest(S, n)
<1>1. /\ T \subseteq S /\ Cardinality(T) <= n /\ Cardinality(T) \in Nat /\ Cardinality(T) <= Cardinality(S)
      /\ IsFiniteSet(S) /\ Cardinality(S) \in Nat
      /\ \A U \in SUBSET S : IsFiniteSet(U) /\ Cardinality(U) \in Nat
  BY NewestAreFew, PlacesCount
<1>2. CASE Cardinality(T) = n
  BY <1>1, <1>2
<1>3. CASE Cardinality(T) < n
  <2>1. SUFFICES ASSUME S # T PROVE FALSE
    BY <1>1, <1>3
  <2>2. S \ T # {} /\ S \ T \subseteq 1 .. m
    BY <1>1, <2>1
  <2>3. PICK i \in S \ T : \A j \in S \ T : j <= i
    <3> DEFINE D == {m - k : k \in S \ T}
    <3>1. D \subseteq Nat /\ D # {}
      BY <2>2
    <3>2. IsWellFoundedOn(OpToRel(<, Nat), Nat)
      BY NatLessThanWellFounded
    <3>3. PICK d \in D : \A e \in D : ~ (<<e, d>> \in OpToRel(<, Nat))
      BY <3>1, <3>2, WFMin
    <3>4. \A e \in D : ~ (e < d)
      BY <3>1, <3>3 DEF OpToRel
    <3>5. PICK i \in S \ T : d = m - i
      OBVIOUS
    <3>6. \A j \in S \ T : ~ (m - j < m - i)
      BY <3>4, <3>5
    <3>7. QED
      BY <2>2, <3>6
  <2>4. {j \in S : j > i} \subseteq T
    BY <2>2, <2>3
  <2>5. Cardinality({j \in S : j > i}) <= Cardinality(T)
    BY <1>1, <2>4, FS_Subset
  <2>6. Cardinality({j \in S : j > i}) < n
    BY <1>1, <1>3, <2>5
  <2>7. i \in T
    BY <2>6 DEF Newest
  <2>8. QED
    BY <2>7
<1>4. QED
  BY <1>1, <1>2, <1>3

LEMMA TalkBegins == TalkInit => TalkInv
BY DEF TalkInit, TalkInv

LEMMA SaysAdds ==
  ASSUME talk \in Seq(TalkMessages), NEW r \in Roles, NEW w \in BOOLEAN, NEW l \in Lengths, Says(r, w, l)
  PROVE  /\ talk' \in Seq(TalkMessages) /\ Len(talk') = Len(talk) + 1
         /\ \A i \in 1 .. Len(talk) : talk'[i] = talk[i]
<1>1. [role |-> r, words |-> w, length |-> l] \in TalkMessages
  BY TranscriptAssumption DEF TalkMessages
<1>2. QED
  BY <1>1 DEF Says

LEMMA NewestRequestIsThere ==
  ASSUME NEW s \in Seq(TalkMessages),
         NEW last, last = Newest({i \in DOMAIN s : s[i].role = "user"}, 1),
         NEW p, p = IF \E i \in last : s[i].length > 0 THEN CHOOSE i \in last : TRUE ELSE 0
  PROVE  p \in 0 .. Len(s) /\ (p # 0 => s[p].length > 0)
<1> DEFINE U == {i \in DOMAIN s : s[i].role = "user"}
<1>1. U \in SUBSET (1 .. Len(s)) /\ Len(s) \in Nat
  OBVIOUS
<1>2. last \subseteq U /\ \A i \in last, j \in U : j \notin last => j < i
  BY <1>1, NewestAreFew
<1>3. Cardinality(last) <= 1 /\ IsFiniteSet(last) /\ Cardinality(last) \in Nat
  BY <1>1, <1>2, NewestAreFew, PlacesCount
<1>4. \A i, j \in last : i = j
  <2>1. SUFFICES ASSUME NEW i \in last, NEW j \in last, i # j PROVE FALSE
    OBVIOUS
  <2>2. Cardinality({i, j}) = 2 /\ {i, j} \subseteq last
    <3>1. IsFiniteSet({i}) /\ Cardinality({i}) = 1
      BY FS_Singleton
    <3>2. Cardinality({i} \cup {j}) = Cardinality({i}) + 1
      BY <2>1, <3>1, FS_AddElement
    <3>3. {i} \cup {j} = {i, j}
      OBVIOUS
    <3>4. Cardinality({i} \cup {j}) = 2
      BY <3>1, <3>2
    <3>5. Cardinality({i, j}) = 2
      BY <3>3, <3>4, Zenon
    <3>6. {i, j} \subseteq last
      BY <2>1
    <3>7. QED
      BY <3>5, <3>6
  <2>3. Cardinality({i, j}) <= Cardinality(last)
    BY <1>3, <2>2, FS_Subset
  <2>4. QED
    BY <1>3, <2>2, <2>3
<1>5. CASE \E i \in last : s[i].length > 0
  <2>1. PICK i \in last : s[i].length > 0
    BY <1>5
  <2>2. p = i
    <3>1. p = CHOOSE k \in last : TRUE
      BY <1>5
    <3>2. p \in last
      BY <2>1, <3>1
    <3>3. QED
      BY <1>4, <2>1, <3>2
  <2>3. i \in 1 .. Len(s)
    BY <1>1, <1>2
  <2>4. i \in 0 .. Len(s)
    <3>1. Len(s) \in Nat
      BY <1>1
    <3>2. QED
      BY <2>3, <3>1
  <2> HIDE DEF U
  <2>5. QED
    BY <2>1, <2>2, <2>4
<1>6. CASE ~ \E i \in last : s[i].length > 0
  BY <1>6
<1>7. QED
  BY <1>5, <1>6

LEMMA TalkStepKeeps == ASSUME TalkInv, [TalkNext]_talkVars PROVE TalkInv'
<1>1. CASE OpenTurn
  <2>1. PICK l \in Lengths : Says("user", TRUE, l)
    BY <1>1 DEF OpenTurn
  <2>2. talk' \in Seq(TalkMessages)
    BY <2>1, SaysAdds DEF TalkInv, Roles
  <2>3. pinned' = NewestRequest'
    BY <1>1 DEF OpenTurn
  <2> DEFINE last == Newest({i \in DOMAIN talk' : talk'[i].role = "user"}, 1)
  <2>4. pinned' = IF \E i \in last : talk'[i].length > 0 THEN CHOOSE i \in last : TRUE ELSE 0
    BY <2>3 DEF NewestRequest, Newest
  <2> HIDE DEF last
  <2>5. pinned' \in 0 .. Len(talk') /\ (pinned' # 0 => talk'[pinned'].length > 0)
    BY <2>2, <2>4, NewestRequestIsThere DEF last
  <2>6. QED
    BY <2>2, <2>5 DEF TalkInv
<1>2. CASE Continue
  <2>1. PICK r \in Roles, w \in BOOLEAN, l \in Lengths : Says(r, w, l)
    BY <1>2 DEF Continue
  <2>2. /\ talk' \in Seq(TalkMessages) /\ Len(talk') = Len(talk) + 1
        /\ \A i \in 1 .. Len(talk) : talk'[i] = talk[i]
    BY <2>1, SaysAdds DEF TalkInv
  <2>3. pinned' = pinned
    BY <1>2 DEF Continue
  <2>4. Len(talk) \in Nat
    BY DEF TalkInv
  <2>5. QED
    BY <2>2, <2>3, <2>4 DEF TalkInv
<1>3. CASE UNCHANGED talkVars
  BY <1>3 DEF talkVars, TalkInv
<1>4. QED
  BY <1>1, <1>2, <1>3 DEF TalkNext

LEMMA RequestStays == TalkInv => RequestIsJudgedWith
<1> SUFFICES ASSUME TalkInv PROVE RequestIsJudgedWith
  OBVIOUS
<1> DEFINE n == Len(talk)
<1>1. n \in Nat /\ DOMAIN talk = 1 .. n /\ RecentN \in Nat
  BY TranscriptAssumption DEF TalkInv
<1> HIDE DEF n
<1>2. /\ Window \subseteq Newest(1 .. n, RecentN) /\ Newest(1 .. n, RecentN) \subseteq 1 .. n
      /\ Cardinality(Newest(1 .. n, RecentN)) <= RecentN
      /\ \A i \in Newest(1 .. n, RecentN), j \in 1 .. n : j \notin Newest(1 .. n, RecentN) => j < i
  <2>1. Window \subseteq Newest(1 .. n, RecentN)
    BY <1>1 DEF Window
  <2>2. 1 .. n \in SUBSET (1 .. n)
    OBVIOUS
  <2>3. QED
    BY <1>1, <2>1, <2>2, NewestAreFew
<1>3. IsFiniteSet(Window) /\ Cardinality(Window) \in Nat /\ Cardinality(Window) <= RecentN
  <2>1. /\ Newest(1 .. n, RecentN) \in SUBSET (1 .. n) /\ Window \in SUBSET Newest(1 .. n, RecentN)
    BY <1>2
  <2>2. /\ IsFiniteSet(Window) /\ Cardinality(Window) \in Nat
        /\ Cardinality(Window) <= Cardinality(Newest(1 .. n, RecentN))
        /\ Cardinality(Newest(1 .. n, RecentN)) \in Nat
    BY <1>1, <2>1, PlacesCount
  <2>3. QED
    BY <1>1, <1>2, <2>2
<1>4. pinned # 0 => pinned \in Window \/ \A i \in Window : pinned < i
  <2>1. SUFFICES ASSUME pinned # 0, pinned \notin Window, NEW i \in Window PROVE pinned < i
    OBVIOUS
  <2>2. pinned \in 1 .. n /\ talk[pinned].length > 0
    BY <1>1, <2>1 DEF TalkInv, n
  <2>3. pinned \notin Newest(1 .. n, RecentN)
    BY <1>1, <2>1, <2>2 DEF Window
  <2>4. QED
    BY <1>2, <2>2, <2>3
<1>5. pinned # 0 /\ RecentN > 0 => pinned \in RecentMessages
  BY <1>1 DEF RecentMessages, WithRequest
<1>6. ASSUME RecentN > 1 PROVE Cardinality(RecentMessages) <= RecentN
  <2>1. RecentMessages = WithRequest(Window)
    BY <1>6 DEF RecentMessages
  <2>2. CASE pinned = 0 \/ pinned \in Window
    BY <1>3, <2>1, <2>2 DEF WithRequest
  <2>3. CASE ~(pinned = 0 \/ pinned \in Window)
    <3> DEFINE kept == IF Cardinality(Window) >= RecentN /\ RecentN > 1 THEN Newest(Window, RecentN - 1) ELSE Window
    <3>1. RecentMessages = {pinned} \cup kept
      BY <2>1, <2>3 DEF WithRequest
    <3>2. kept \subseteq Window /\ Cardinality(kept) <= RecentN - 1
      <4>1. CASE Cardinality(Window) >= RecentN
        <5>1. Window \in SUBSET (1 .. n) /\ RecentN - 1 \in Nat
          BY <1>1, <1>2, <1>6
        <5>2. QED
          BY <1>1, <1>6, <4>1, <5>1, NewestAreFew
      <4>2. CASE ~(Cardinality(Window) >= RecentN)
        BY <1>1, <1>3, <4>2
      <4>3. QED
        BY <4>1, <4>2
    <3> HIDE DEF kept
    <3>3. IsFiniteSet(kept) /\ Cardinality(kept) \in Nat
      BY <1>3, <3>2, FS_Subset, FS_CardinalityType
    <3>4. pinned \notin kept
      BY <2>3, <3>2
    <3>5. Cardinality(kept \cup {pinned}) = Cardinality(kept) + 1
      BY <3>3, <3>4, FS_AddElement
    <3>6. kept \cup {pinned} = {pinned} \cup kept
      OBVIOUS
    <3>7. Cardinality(RecentMessages) = Cardinality(kept) + 1
      BY <3>1, <3>5, <3>6
    <3>8. QED
      BY <1>1, <3>2, <3>3, <3>7
  <2>4. QED
    BY <2>2, <2>3
<1>7. QED
  BY <1>4, <1>5, <1>6 DEF RequestIsJudgedWith

LEMMA SlotsGo == TalkInv => SlotsGoToWords
<1> SUFFICES ASSUME TalkInv PROVE SlotsGoToWords
  OBVIOUS
<1>1. Len(talk) \in Nat /\ Said \in SUBSET (1 .. Len(talk)) /\ RecentN \in Nat
  BY TranscriptAssumption DEF TalkInv, Said
<1>2. /\ Newest(Said, RecentN) \subseteq Said
      /\ \A i \in Newest(Said, RecentN), j \in Said : j \notin Newest(Said, RecentN) => j < i
  BY <1>1, NewestAreFew
<1>3. Cardinality(Newest(Said, RecentN)) = IF Cardinality(Said) < RecentN THEN Cardinality(Said) ELSE RecentN
  BY <1>1, NewestAreMany
<1>4. QED
  BY <1>2, <1>3 DEF SlotsGoToWords, AssistantMessages

LEMMA CostsAreNumbers ==
  ASSUME talk \in Seq(TalkMessages)
  PROVE  \A n \in 0 .. Len(talk) : Cost[n] \in Nat
<1> DEFINE n == Len(talk)
           h == [x \in (1 .. n) \X Nat |-> x[2] + talk[n - x[1] + 1].length + 1]
           total == CHOOSE f : f = [k \in 0 .. n |-> IF k = 0 THEN 0 ELSE f[k - 1] + talk[n - k + 1].length + 1]
<1>1. n \in Nat /\ \A k \in 1 .. n : n - k + 1 \in 1 .. n /\ talk[n - k + 1].length \in Nat
  <2>1. n \in Nat /\ \A k \in 1 .. n : n - k + 1 \in 1 .. n
    OBVIOUS
  <2>2. \A i \in 1 .. n : talk[i] \in TalkMessages
    OBVIOUS
  <2>3. \A m \in TalkMessages : m.length \in Nat
    BY DEF TalkMessages
  <2>4. \A i \in 1 .. n : talk[i].length \in Nat
    BY <2>2, <2>3
  <2>5. QED
    BY <2>1, <2>4
<1>2. \A k \in 1 .. n : \A q \in Nat : h[<<k, q>>] = q + talk[n - k + 1].length + 1
  OBVIOUS
<1>3. Steps(h, Nat, 0, n)
  <2>1. \A x \in (1 .. n) \X Nat : x[2] + talk[n - x[1] + 1].length + 1 \in Nat
    BY <1>1
  <2>2. QED
    BY <1>1, <2>1 DEF Steps
<1> HIDE DEF h, n
<1>4. PICK f : Recurses(f, Nat, 0, n, h)
  BY <1>3, RecursionEnds
<1>5. f \in [0 .. n -> Nat] /\ f[0] = 0 /\ \A k \in 1 .. n : f[k] = f[k - 1] + talk[n - k + 1].length + 1
  <2>1. f \in [0 .. n -> Nat] /\ f[0] = 0 /\ \A k \in 1 .. n : f[k] = h[<<k, f[k - 1]>>]
    BY <1>4 DEF Recurses
  <2>2. \A k \in 1 .. n : f[k - 1] \in Nat
    BY <1>1, <2>1
  <2>3. QED
    BY <1>2, <2>1, <2>2
<1>6. f = [k \in 0 .. n |-> IF k = 0 THEN 0 ELSE f[k - 1] + talk[n - k + 1].length + 1]
  <2>1. \A k \in 0 .. n : k = 0 \/ k \in 1 .. n
    BY <1>1
  <2>2. \A k \in 0 .. n : f[k] = IF k = 0 THEN 0 ELSE f[k - 1] + talk[n - k + 1].length + 1
    BY <1>5, <2>1
  <2>3. f = [k \in 0 .. n |-> f[k]]
    BY <1>5
  <2>4. QED
    BY <2>2, <2>3
<1> HIDE DEF total
<1>7. total = [k \in 0 .. n |-> IF k = 0 THEN 0 ELSE total[k - 1] + talk[n - k + 1].length + 1]
  BY <1>6 DEF total
<1>8. total[0] = 0 /\ \A k \in 1 .. n : total[k] = total[k - 1] + talk[n - k + 1].length + 1
  <2>1. 0 \in 0 .. n /\ \A k \in 1 .. n : k \in 0 .. n /\ k # 0
    BY <1>1
  <2>2. QED
    BY <1>7, <2>1
<1> DEFINE P == {k \in Nat : k <= n => total[k] \in Nat}
<1>9. 0 \in P
  BY <1>8
<1>10. ASSUME NEW k \in P PROVE k + 1 \in P
  <2> SUFFICES ASSUME k + 1 <= n PROVE total[k + 1] \in Nat
    BY DEF P
  <2>1. k + 1 \in 1 .. n /\ (k + 1) - 1 = k /\ total[k] \in Nat
    BY <1>1
  <2>2. talk[n - (k + 1) + 1].length \in Nat
    BY <1>1, <2>1
  <2>3. total[k + 1] = total[k] + talk[n - (k + 1) + 1].length + 1
    BY <1>8, <2>1
  <2>4. QED
    BY <2>1, <2>2, <2>3
<1>11. P \in SUBSET Nat
  OBVIOUS
<1> HIDE DEF P
<1>12. P = Nat
  BY <1>9, <1>10, <1>11, EveryNumber
<1>13. Cost = total
  BY DEF Cost, total, n
<1>14. QED
  BY <1>12, <1>13 DEF P, n

(* The longest run of newest messages within the budget.                   *)
LEMMA LongestRun ==
  ASSUME NEW n \in Nat \ {0}, NEW B
  PROVE  \E k \in 1 .. n : /\ \A m \in 2 .. k : m \in B
                           /\ k < n => k + 1 \notin B
<1>1. CASE \A m \in 2 .. n : m \in B
  BY <1>1
<1>2. CASE ~ \A m \in 2 .. n : m \in B
  <2> DEFINE T == {m \in 2 .. n : m \notin B}
  <2>1. T \subseteq Nat /\ T # {}
    BY <1>2
  <2>2. IsWellFoundedOn(OpToRel(<, Nat), Nat)
    BY NatLessThanWellFounded
  <2>3. PICK m \in T : \A e \in T : ~ (<<e, m>> \in OpToRel(<, Nat))
    BY <2>1, <2>2, WFMin
  <2>4. \A e \in T : ~ (e < m)
    BY <2>1, <2>3 DEF OpToRel
  <2>5. m - 1 \in 1 .. n /\ (m - 1) + 1 = m /\ m \notin B
    OBVIOUS
  <2>6. \A e \in 2 .. m - 1 : e \in B
    BY <2>4
  <2>7. QED
    BY <2>5, <2>6
<1>3. QED
  BY <1>1, <1>2

LEMMA AdvisorSees == TalkInv => AdvisorSeesTheNewest
<1> SUFFICES ASSUME TalkInv, talk # <<>>
             PROVE  \E n \in 1 .. Len(talk) :
                      /\ Transcript = Len(talk) - n + 1 .. Len(talk)
                      /\ n > 1 => Cost[n] <= CharBudget
                      /\ n < Len(talk) => Cost[n + 1] > CharBudget
  BY DEF AdvisorSeesTheNewest
<1> DEFINE l == Len(talk)
           B == {m \in 0 .. l : Cost[m] <= CharBudget}
<1>1. l \in Nat \ {0} /\ DOMAIN talk = 1 .. l /\ CharBudget \in Nat
  BY TranscriptAssumption DEF TalkInv
<1>2. \A m \in 0 .. l : Cost[m] \in Nat
  BY CostsAreNumbers DEF TalkInv
<1>3. PICK n \in 1 .. l : (\A m \in 2 .. n : m \in B) /\ (n < l => n + 1 \notin B)
  BY <1>1, LongestRun
<1> HIDE DEF l
<1>4. \A k \in 1 .. l : InBudget(k) <=> k <= n
  <2>1. \A m \in 2 .. n : Cost[m] <= CharBudget
    BY <1>3
  <2>2. ASSUME NEW k \in 1 .. l, k <= n PROVE InBudget(k)
    <3>1. \A m \in 2 .. k : m \in 2 .. n
      BY <2>2
    <3>2. QED
      BY <2>1, <3>1 DEF InBudget
  <2>3. ASSUME NEW k \in 1 .. l, InBudget(k) PROVE k <= n
    <3>1. SUFFICES ASSUME k > n PROVE FALSE
      BY <1>1
    <3>2. n < l /\ n + 1 \in 2 .. k /\ n + 1 \in 0 .. l
      BY <1>1, <3>1
    <3>3. Cost[n + 1] <= CharBudget
      BY <2>3, <3>2 DEF InBudget
    <3>4. QED
      BY <1>3, <3>2, <3>3
  <2>4. QED
    BY <2>2, <2>3
<1>5. Transcript = l - n + 1 .. l
  <2>1. Transcript = {i \in 1 .. l : InBudget(l - i + 1)}
    BY <1>1 DEF Transcript, l
  <2>2. \A i \in 1 .. l : l - i + 1 \in 1 .. l /\ (l - i + 1 <= n <=> i \in l - n + 1 .. l)
    BY <1>1
  <2>3. l - n + 1 .. l \subseteq 1 .. l
    BY <1>1
  <2>4. \A i \in 1 .. l : InBudget(l - i + 1) <=> i \in l - n + 1 .. l
    BY <1>4, <2>2
  <2>5. QED
    BY <2>1, <2>3, <2>4
<1>6. n > 1 => Cost[n] <= CharBudget
  <2>1. n > 1 => n \in 2 .. n
    OBVIOUS
  <2>2. QED
    BY <1>3, <2>1
<1>7. n < l => Cost[n + 1] > CharBudget
  <2>1. SUFFICES ASSUME n < l PROVE Cost[n + 1] > CharBudget
    OBVIOUS
  <2>2. n + 1 \in 0 .. l
    BY <1>1, <2>1
  <2>3. ~(Cost[n + 1] <= CharBudget) /\ Cost[n + 1] \in Nat
    BY <1>2, <1>3, <2>1, <2>2
  <2>4. QED
    BY <1>1, <2>3
<1>8. QED
  BY <1>5, <1>6, <1>7 DEF l

(* Transcripts: what a judge, a router and an advisor read of the          *)
(* conversation is what they are to judge.                                 *)
THEOREM TranscriptsStayFit == TalkSpec => []TranscriptsFit
<1>1. TalkInit /\ [][TalkNext]_talkVars => []TalkInv
  BY TalkBegins, TalkStepKeeps, PTL
<1>2. TalkInv => TranscriptsFit
  BY RequestStays, SlotsGo, AdvisorSees DEF TranscriptsFit
<1>3. QED
  BY <1>1, <1>2, PTL DEF TalkSpec

-----------------------------------------------------------------------------
(* The parser of think tags (ThinkParser).                                 *)

Modes         == {"text", "thinking"}
Events(w)     == [k : Modes, i : 1 .. Len(w)]
ScanStates(w) == [mode : Modes, skip : Nat, out : Seq(Events(w))]

TagOf(m)      == IF m = "thinking" THEN CloseTag ELSE OpenTag

(* The byte at j-th place shows that the tag does not begin there.         *)
Broken(tag, j) == \E n \in 1 .. Len(tag) : j + n - 1 <= Len(whole) /\ whole[j + n - 1] # tag[n]

LEMMA Tags ==
  ASSUME NEW b \in Modes
  PROVE  /\ Len(TagOf(b)) \in 3 .. 4
         /\ \A n \in 1 .. Len(TagOf(b)) : TagOf(b)[n] \in Alphabet
         /\ \A n \in 2 .. Len(TagOf(b)) : TagOf(b)[n] # TagOf(b)[1]
<1>1. CASE b = "thinking"
  <2>1. TagOf(b) = <<"<", "/", "t", ">">>
    BY <1>1 DEF TagOf, CloseTag
  <2>2. Len(TagOf(b)) = 4
    BY <2>1
  <2>3. \A n \in 1 .. 4 : n = 1 \/ n = 2 \/ n = 3 \/ n = 4
    OBVIOUS
  <2>4. QED
    BY <2>1, <2>2, <2>3 DEF Alphabet
<1>2. CASE b # "thinking"
  <2>1. TagOf(b) = <<"<", "t", ">">>
    BY <1>2 DEF TagOf, OpenTag
  <2>2. Len(TagOf(b)) = 3
    BY <2>1
  <2>3. \A n \in 1 .. 3 : n = 1 \/ n = 2 \/ n = 3
    OBVIOUS
  <2>4. QED
    BY <2>1, <2>2, <2>3 DEF Alphabet
<1>3. QED
  BY <1>1, <1>2

(* One byte of the scan.                                                   *)
Skips(s, t)      == t.skip = s.skip - 1 /\ t.mode = s.mode /\ t.out = s.out
Enters(s, t)     == t.skip = 2 /\ t.mode = "thinking" /\ t.out = s.out
Leaves(s, t)     == t.skip = 3 /\ t.mode = "text" /\ t.out = s.out
Passes(s, t, j)  == /\ t.skip = 0 /\ t.mode = s.mode
                    /\ t.out = Append(s.out, [k |-> s.mode, i |-> j])

Moves(s, t, j, opens) ==
  /\ s.skip > 0 => Skips(s, t)
  /\ s.skip = 0 /\ s.mode = "text" /\ j \in opens => Enters(s, t)
  /\ s.skip = 0 /\ s.mode = "thinking" /\ Occurs(CloseTag, j) => Leaves(s, t)
  /\ s.skip = 0 /\ s.mode = "text" /\ j \notin opens => Passes(s, t, j)
  /\ s.skip = 0 /\ s.mode = "thinking" /\ ~Occurs(CloseTag, j) => Passes(s, t, j)

LEMMA ByteMoves ==
  ASSUME NEW w \in Seq(Alphabet), NEW s \in ScanStates(w), NEW j \in 1 .. Len(w), NEW opens
  PROVE  ScanByte(s, j, opens) \in ScanStates(w) /\ Moves(s, ScanByte(s, j, opens), j, opens)
<1>1. s.mode \in Modes /\ s.skip \in Nat /\ s.out \in Seq(Events(w))
      /\ s = [mode |-> s.mode, skip |-> s.skip, out |-> s.out]
  BY DEF ScanStates
<1> DEFINE e == [k |-> s.mode, i |-> j]
           t == ScanByte(s, j, opens)
<1>2. e \in Events(w) /\ Append(s.out, e) \in Seq(Events(w))
  BY <1>1 DEF Events, Modes
<1>3. Len(OpenTag) = 3 /\ Len(CloseTag) = 4
  BY DEF OpenTag, CloseTag
<1>4. CASE s.skip > 0
  <2>1. t = [s EXCEPT !.skip = @ - 1]
    BY <1>4 DEF ScanByte
  <2>2. t = [mode |-> s.mode, skip |-> s.skip - 1, out |-> s.out]
    BY <2>1, <1>1
  <2>3. s.skip - 1 \in Nat
    BY <1>1, <1>4
  <2>4. t \in ScanStates(w)
    BY <2>2, <2>3, <1>1 DEF ScanStates
  <2>5. QED
    BY <2>2, <2>4, <1>1, <1>4 DEF Moves, Skips
<1>5. CASE s.skip = 0 /\ s.mode = "text" /\ j \in opens
  <2>1. t = [mode |-> "thinking", skip |-> Len(OpenTag) - 1, out |-> s.out]
    BY <1>5 DEF ScanByte
  <2>2. t = [mode |-> "thinking", skip |-> 2, out |-> s.out]
    BY <2>1, <1>1, <1>3
  <2>4. t \in ScanStates(w)
    BY <2>2, <1>1 DEF ScanStates, Modes
  <2>5. QED
    BY <2>2, <2>4, <1>1, <1>5 DEF Moves, Enters
<1>6. CASE s.skip = 0 /\ s.mode = "thinking" /\ Occurs(CloseTag, j)
  <2>1. t = [mode |-> "text", skip |-> Len(CloseTag) - 1, out |-> s.out]
    BY <1>6 DEF ScanByte
  <2>2. t = [mode |-> "text", skip |-> 3, out |-> s.out]
    BY <2>1, <1>1, <1>3
  <2>4. t \in ScanStates(w)
    BY <2>2, <1>1 DEF ScanStates, Modes
  <2>5. QED
    BY <2>2, <2>4, <1>1, <1>6 DEF Moves, Leaves
<1>7. CASE s.skip = 0 /\ (s.mode = "thinking" => ~Occurs(CloseTag, j)) /\ (s.mode = "text" => j \notin opens)
  <2>1. t = [s EXCEPT !.out = Append(@, [k |-> s.mode, i |-> j])]
    BY <1>7 DEF ScanByte
  <2>2. t = [mode |-> s.mode, skip |-> 0, out |-> Append(s.out, e)]
    BY <2>1, <1>1, <1>7
  <2>4. t \in ScanStates(w)
    BY <2>2, <1>1, <1>2 DEF ScanStates
  <2>5. QED
    BY <2>2, <2>4, <1>1, <1>7 DEF Moves, Passes
<1>8. s.mode = "text" \/ s.mode = "thinking"
  BY <1>1 DEF Modes
<1>9. QED
  BY <1>1, <1>8, <1>4, <1>5, <1>6, <1>7

(* The scan is what its steps make of it.                                  *)
Scanned(f, opens) ==
  /\ f \in [0 .. Len(whole) -> ScanStates(whole)] /\ f[0] = Unscanned
  /\ \A j \in 1 .. Len(whole) : Moves(f[j - 1], f[j], j, opens)

LEMMA ScanIsScanned ==
  ASSUME whole \in Seq(Alphabet), NEW opens
  PROVE  Scanned(Scan(opens), opens)
<1> DEFINE L == Len(whole)
           A == ScanStates(whole)
           h == [x \in (1 .. L) \X A |-> ScanByte(x[2], x[1], opens)]
           f == Scan(opens)
           Is(g) == g = [j \in 0 .. L |-> IF j = 0 THEN Unscanned ELSE ScanByte(g[j - 1], j, opens)]
<1>1. L \in Nat /\ Unscanned \in A
  BY DEF Unscanned, ScanStates, Modes
<1>2. \A j \in 1 .. L, s \in A : ScanByte(s, j, opens) \in A
  BY ByteMoves
<1>3. h \in [(1 .. L) \X A -> A]
  BY <1>2
<1>4. \A j \in 1 .. L, s \in A : h[<<j, s>>] = ScanByte(s, j, opens)
  OBVIOUS
<1> HIDE DEF h, A
<1>5. Steps(h, A, Unscanned, L)
  BY <1>1, <1>3 DEF Steps
<1>6. PICK g : Recurses(g, A, Unscanned, L, h)
  BY <1>5, RecursionEnds
<1>7. \A j \in 1 .. L : g[j] = ScanByte(g[j - 1], j, opens)
  <2> SUFFICES ASSUME NEW j \in 1 .. L PROVE g[j] = ScanByte(g[j - 1], j, opens)
    OBVIOUS
  <2>1. j - 1 \in 0 .. L
    BY <1>1
  <2>2. g[j - 1] \in A /\ g[j] = h[<<j, g[j - 1]>>]
    BY <2>1, <1>6 DEF Recurses
  <2>3. QED
    BY <2>2, <1>4
<1>8. Is(g)
  BY <1>1, <1>6, <1>7 DEF Recurses
<1>9. f = CHOOSE x : Is(x)
  BY DEF Scan
<1>10. Is(f)
  BY <1>8, <1>9
<1>11. f = g
  <2> DEFINE P == {n \in Nat : n <= L => f[n] = g[n]}
  <2>1. 0 \in P
    BY <1>1, <1>8, <1>10
  <2>2. ASSUME NEW n \in P PROVE n + 1 \in P
    <3> SUFFICES ASSUME n + 1 <= L PROVE f[n + 1] = g[n + 1]
      OBVIOUS
    <3>1. n \in Nat /\ n + 1 \in 1 .. L /\ n + 1 \in 0 .. L /\ n + 1 # 0 /\ (n + 1) - 1 = n /\ n <= L
      BY <1>1
    <3>2. f[n] = g[n]
      BY <3>1
    <3>3. f[n + 1] = ScanByte(f[n], n + 1, opens)
      BY <1>10, <3>1
    <3>4. g[n + 1] = ScanByte(g[n], n + 1, opens)
      BY <1>7, <3>1
    <3>5. QED
      BY <3>2, <3>3, <3>4
  <2>3. P \in SUBSET Nat
    OBVIOUS
  <2> HIDE DEF P
  <2>4. P = Nat
    BY <2>1, <2>2, <2>3, EveryNumber
  <2>5. \A n \in 0 .. L : f[n] = g[n]
    BY <2>4 DEF P
  <2>6. DOMAIN g = 0 .. L /\ DOMAIN f = 0 .. L
    BY <1>8, <1>10
  <2>7. g = [n \in 0 .. L |-> g[n]] /\ f = [n \in 0 .. L |-> f[n]]
    BY <1>8, <1>10
  <2> HIDE DEF f
  <2>8. QED
    BY <2>5, <2>7
<1> HIDE DEF f
<1>12. \A j \in 1 .. L : Moves(f[j - 1], f[j], j, opens)
  <2> SUFFICES ASSUME NEW j \in 1 .. L PROVE Moves(f[j - 1], f[j], j, opens)
    OBVIOUS
  <2>1. j - 1 \in 0 .. L
    BY <1>1
  <2>2. g[j - 1] \in ScanStates(whole)
    BY <2>1, <1>6 DEF Recurses, A
  <2>3. QED
    BY <2>2, <1>7, <1>11, ByteMoves
<1>13. f \in [0 .. Len(whole) -> ScanStates(whole)] /\ f[0] = Unscanned
  BY <1>6, <1>11 DEF Recurses, A
<1>14. QED
  BY <1>12, <1>13 DEF Scanned, f

(* With every opener heeded, a state of the scan waits for one tag.        *)
Other(m) == IF m = "thinking" THEN "text" ELSE "thinking"
Turns(s, t) ==
  /\ t.skip = Len(TagOf(s.mode)) - 1 /\ t.out = s.out
  /\ t.mode = Other(s.mode)

Reading(s, t, j) ==
  /\ s.skip > 0 => Skips(s, t)
  /\ s.skip = 0 /\ Occurs(TagOf(s.mode), j) => Turns(s, t)
  /\ s.skip = 0 /\ ~Occurs(TagOf(s.mode), j) => Passes(s, t, j)

IsRead(f) ==
  /\ f \in [0 .. Len(whole) -> ScanStates(whole)] /\ f[0] = Unscanned
  /\ \A j \in 1 .. Len(whole) : Reading(f[j - 1], f[j], j)

LEMMA WholeIsRead == whole \in Seq(Alphabet) => IsRead(Scan(Openers))
<1> SUFFICES ASSUME whole \in Seq(Alphabet) PROVE IsRead(Scan(Openers))
  OBVIOUS
<1> DEFINE f == Scan(Openers)
<1>1. Scanned(f, Openers)
  BY ScanIsScanned
<1> HIDE DEF f
<1>2. ASSUME NEW j \in 1 .. Len(whole) PROVE Reading(f[j - 1], f[j], j)
  <2> DEFINE s == f[j - 1]
             t == f[j]
  <2>1. j - 1 \in 0 .. Len(whole)
    OBVIOUS
  <2>2. s \in ScanStates(whole) /\ Moves(s, t, j, Openers)
    BY <2>1, <1>1 DEF Scanned
  <2> HIDE DEF s, t
  <2>3. s.mode \in Modes
    BY <2>2 DEF ScanStates
  <2>4. j \in Openers <=> Occurs(OpenTag, j)
    BY DEF Openers
  <2>5. ASSUME s.mode = "thinking" PROVE Reading(s, t, j)
    <3>1. TagOf(s.mode) = CloseTag /\ Len(TagOf(s.mode)) = 4
      BY <2>5 DEF TagOf, CloseTag
    <3>2. QED
      BY <3>1, <2>5, <2>2 DEF Moves, Reading, Leaves, Turns, Other
  <2>6. ASSUME s.mode = "text" PROVE Reading(s, t, j)
    <3>1. TagOf(s.mode) = OpenTag /\ Len(TagOf(s.mode)) = 3
      BY <2>6 DEF TagOf, OpenTag
    <3>2. QED
      BY <3>1, <2>6, <2>2, <2>4 DEF Moves, Reading, Enters, Turns, Other
  <2>7. Reading(s, t, j)
    BY <2>3, <2>5, <2>6 DEF Modes
  <2>8. QED
    BY <2>7 DEF s, t
<1>3. QED
  BY <1>1, <1>2 DEF IsRead, Scanned, f

LEMMA NothingMore == ASSUME NEW E, NEW o \in Seq(E) PROVE o \o << >> = o /\ << >> \in Seq(E)
OBVIOUS

(* Bytes that are no tag's go out one after the other.                     *)
Run(k, c, m) == [n \in 1 .. m |-> [k |-> k, i |-> c + n]]

LEMMA RunGoesOn ==
  ASSUME NEW E, NEW o \in Seq(E), NEW k, NEW c \in Nat, NEW m \in Nat,
         Run(k, c, m) \in Seq(E), [k |-> k, i |-> c + m + 1] \in E
  PROVE  /\ Append(o \o Run(k, c, m), [k |-> k, i |-> c + m + 1]) = o \o Run(k, c, m + 1)
         /\ Run(k, c, m + 1) \in Seq(E)
<1> DEFINE r == Run(k, c, m)
           q == Run(k, c, m + 1)
           e == [k |-> k, i |-> c + m + 1]
<1>1. Len(r) = m /\ \A n \in 1 .. m : r[n] = [k |-> k, i |-> c + n]
  BY DEF Run
<1>2. \A n \in 1 .. m + 1 : n = m + 1 \/ n \in 1 .. m
  OBVIOUS
<1>3. q = [n \in 1 .. m + 1 |-> IF n = m + 1 THEN e ELSE r[n]]
  <2>1. ASSUME NEW n \in 1 .. m + 1 PROVE [k |-> k, i |-> c + n] = IF n = m + 1 THEN e ELSE r[n]
    <3>1. CASE n = m + 1
      <4>1. c + n = c + m + 1
        BY <3>1
      <4>2. QED
        BY <3>1, <4>1
    <3>2. CASE n # m + 1
      <4>1. r[n] = [k |-> k, i |-> c + n]
        BY <1>1, <1>2, <3>2
      <4>2. QED
        BY <3>2, <4>1
    <3>3. QED
      BY <3>1, <3>2
  <2>2. QED
    BY <2>1 DEF Run
<1> HIDE DEF r, q, e
<1>4. q = Append(r, e)
  BY <1>1, <1>3 DEF r
<1>5. q \in Seq(E)
  BY <1>4 DEF r, e
<1>6. Append(o \o r, e) = o \o Append(r, e)
  BY DEF r, e
<1>7. QED
  BY <1>4, <1>5, <1>6 DEF r, q, e

PassedTo(f, c, m) ==
  /\ f[c + m].skip = 0 /\ f[c + m].mode = f[c].mode
  /\ f[c + m].out = f[c].out \o Run(f[c].mode, c, m)
  /\ Run(f[c].mode, c, m) \in Seq(Events(whole))

LEMMA PassOver ==
  ASSUME NEW f, IsRead(f), whole \in Seq(Alphabet), NEW c \in Nat, NEW m \in Nat, c + m <= Len(whole),
         f[c].skip = 0, \A j \in c + 1 .. c + m : ~Occurs(TagOf(f[c].mode), j)
  PROVE  \A n \in 0 .. m : PassedTo(f, c, n)
<1> DEFINE P == {n \in Nat : n <= m => PassedTo(f, c, n)}
           b == f[c].mode
           S == ScanStates(whole)
<1>1. \A n \in 0 .. m : c + n \in 0 .. Len(whole) /\ f[c + n] \in S
  BY DEF IsRead
<1>2. c + 0 = c /\ f[c] \in S
  BY <1>1
<1>3. f[c].out \in Seq(Events(whole)) /\ b \in Modes
  BY <1>2 DEF ScanStates
<1>4. 0 \in P
  <2>1. Run(b, c, 0) = << >>
    BY DEF Run
  <2>2. f[c].out \o Run(b, c, 0) = f[c].out /\ Run(b, c, 0) \in Seq(Events(whole))
    BY <2>1, <1>3, NothingMore
  <2>3. PassedTo(f, c, 0)
    BY <2>2, <1>2 DEF PassedTo
  <2>4. QED
    BY <2>3
<1>5. ASSUME NEW n \in P PROVE n + 1 \in P
  <2> SUFFICES ASSUME n + 1 <= m PROVE PassedTo(f, c, n + 1)
    OBVIOUS
  <2>1. n \in Nat /\ n \in 0 .. m /\ n + 1 \in 0 .. m
    OBVIOUS
  <2>2. PassedTo(f, c, n)
    BY <2>1
  <2> DEFINE s == f[c + n]
             t == f[c + n + 1]
             e == [k |-> b, i |-> c + n + 1]
  <2>3. c + n + 1 \in 1 .. Len(whole) /\ (c + n + 1) - 1 = c + n /\ c + n + 1 \in c + 1 .. c + m
    BY <2>1
  <2>4. Reading(s, t, c + n + 1)
    BY <2>3 DEF IsRead
  <2>5. s.skip = 0 /\ s.mode = b /\ s.out = f[c].out \o Run(b, c, n)
    BY <2>2 DEF PassedTo
  <2>6. ~Occurs(TagOf(s.mode), c + n + 1)
    BY <2>3, <2>5
  <2>7. Passes(s, t, c + n + 1)
    BY <2>4, <2>5, <2>6 DEF Reading
  <2>8. e \in Events(whole)
    BY <2>3, <1>3 DEF Events, Modes
  <2>9. Run(b, c, n) \in Seq(Events(whole))
    BY <2>2 DEF PassedTo
  <2>10. /\ Append(f[c].out \o Run(b, c, n), e) = f[c].out \o Run(b, c, n + 1)
         /\ Run(b, c, n + 1) \in Seq(Events(whole))
    BY <2>8, <2>9, <2>1, <1>3, RunGoesOn
  <2>11. t.skip = 0 /\ t.mode = b /\ t.out = f[c].out \o Run(b, c, n + 1)
    BY <2>5, <2>7, <2>10 DEF Passes
  <2>12. c + n + 1 = c + (n + 1)
    BY <2>1
  <2> HIDE DEF e
  <2>13. QED
    BY <2>10, <2>11, <2>12 DEF PassedTo
<1>6. P \in SUBSET Nat
  OBVIOUS
<1> HIDE DEF P
<1>7. P = Nat
  BY <1>4, <1>5, <1>6, EveryNumber
<1>8. QED
  BY <1>7 DEF P

(* The least of some numbers, which an index is.                           *)
LEMMA LeastOf ==
  ASSUME NEW S \in SUBSET Nat, S # {}
  PROVE  \E i \in S : \A j \in S : i <= j
<1>1. IsWellFoundedOn(OpToRel(<, Nat), Nat)
  BY NatLessThanWellFounded
<1>2. PICK i \in S : \A j \in S : ~ (<<j, i>> \in OpToRel(<, Nat))
  BY <1>1, WFMin
<1>3. \A j \in S : ~ (j < i)
  BY <1>2 DEF OpToRel
<1>4. QED
  BY <1>3

NoneIn(bytes, tag, n) == \A i \in 1 .. n : ~Reads(bytes, i, tag)

LEMMA IndexFinds ==
  ASSUME NEW bytes \in Seq(Alphabet), NEW tag
  PROVE  \/ IndexOf(bytes, tag) = 0 /\ NoneIn(bytes, tag, Len(bytes))
         \/ /\ IndexOf(bytes, tag) \in 1 .. Len(bytes)
            /\ Reads(bytes, IndexOf(bytes, tag), tag) /\ NoneIn(bytes, tag, IndexOf(bytes, tag) - 1)
<1> DEFINE hits == {i \in 1 .. Len(bytes) : Reads(bytes, i, tag)}
           x == IndexOf(bytes, tag)
<1>1. x = IF hits = {} THEN 0 ELSE CHOOSE i \in hits : \A j \in hits : i <= j
  BY DEF IndexOf
<1>2. \A i \in 1 .. Len(bytes) : i \in hits <=> Reads(bytes, i, tag)
  OBVIOUS
<1>3. hits \subseteq 1 .. Len(bytes) /\ hits \in SUBSET Nat
  OBVIOUS
<1> HIDE DEF hits, x
<1>4. CASE hits = {}
  BY <1>1, <1>2, <1>4 DEF NoneIn, x
<1>5. CASE hits # {}
  <2>1. \E i \in hits : \A j \in hits : i <= j
    BY <1>3, <1>5, LeastOf
  <2>2. x \in hits /\ \A j \in hits : x <= j
    BY <2>1, <1>1, <1>5
  <2>3. x \in 1 .. Len(bytes) /\ Reads(bytes, x, tag)
    BY <2>2, <1>2, <1>3
  <2>4. ASSUME NEW i \in 1 .. x - 1 PROVE ~Reads(bytes, i, tag)
    <3>1. i \in 1 .. Len(bytes) /\ ~(x <= i)
      BY <2>3
    <3>2. QED
      BY <3>1, <2>2, <1>2
  <2>5. NoneIn(bytes, tag, x - 1)
    BY <2>4 DEF NoneIn
  <2>6. QED
    BY <2>3, <2>5 DEF x
<1>6. QED
  BY <1>4, <1>5

EndsLike(bytes, tag, n) == \A m \in 1 .. n : bytes[Len(bytes) - n + m] = tag[m]
NoEndLike(bytes, tag)   == \A n \in 1 .. Len(tag) - 1 : n <= Len(bytes) => ~EndsLike(bytes, tag, n)

LEMMA PrefixFinds ==
  ASSUME NEW bytes \in Seq(Alphabet), NEW tag, Len(tag) \in Nat
  PROVE  \/ TagPrefix(bytes, tag) = 0 /\ NoEndLike(bytes, tag)
         \/ /\ TagPrefix(bytes, tag) \in 1 .. Len(tag) - 1 /\ TagPrefix(bytes, tag) <= Len(bytes)
            /\ EndsLike(bytes, tag, TagPrefix(bytes, tag))
<1> DEFINE fits == {n \in 1 .. Len(tag) - 1 : n <= Len(bytes) /\ EndsLike(bytes, tag, n)}
           x == TagPrefix(bytes, tag)
<1>1. x = IF fits = {} THEN 0 ELSE CHOOSE n \in fits : \A m \in fits : n <= m
  BY DEF TagPrefix, EndsLike
<1>2. \A n \in 1 .. Len(tag) - 1 : n \in fits <=> n <= Len(bytes) /\ EndsLike(bytes, tag, n)
  OBVIOUS
<1>3. fits \subseteq 1 .. Len(tag) - 1 /\ fits \in SUBSET Nat
  OBVIOUS
<1> HIDE DEF fits, x
<1>4. CASE fits = {}
  BY <1>1, <1>2, <1>4 DEF NoEndLike, x
<1>5. CASE fits # {}
  <2>1. \E i \in fits : \A j \in fits : i <= j
    BY <1>3, <1>5, LeastOf
  <2>2. x \in fits
    BY <2>1, <1>1, <1>5
  <2>3. QED
    BY <2>2, <1>2, <1>3 DEF x
<1>6. QED
  BY <1>4, <1>5

(* The unparsed text is what of the content is left.                       *)
OnFrom(places, c) == places \in Seq(Nat) /\ \A n \in 1 .. Len(places) : places[n] = c + n

LEMMA ReadsThere ==
  ASSUME whole \in Seq(Alphabet), NEW c \in Nat, NEW places, OnFrom(places, c),
         c + Len(places) = Len(whole), NEW i \in 1 .. Len(places), NEW b \in Modes
  PROVE  /\ BytesAt(places) \in Seq(Alphabet) /\ Len(BytesAt(places)) = Len(places)
         /\ \A n \in 1 .. Len(places) : BytesAt(places)[n] = whole[c + n]
         /\ Reads(BytesAt(places), i, TagOf(b)) <=> Occurs(TagOf(b), c + i)
<1> DEFINE B == BytesAt(places)
           tag == TagOf(b)
<1>1. B = [n \in 1 .. Len(places) |-> whole[places[n]]] /\ Len(places) \in Nat
  BY DEF BytesAt, OnFrom
<1>2. \A n \in 1 .. Len(places) : places[n] = c + n /\ c + n \in 1 .. Len(whole)
  BY DEF OnFrom
<1> HIDE DEF B
<1>3. \A n \in 1 .. Len(places) : B[n] = whole[c + n] /\ B[n] \in Alphabet
  BY <1>1, <1>2
<1>4. B \in Seq(Alphabet) /\ Len(B) = Len(places)
  BY <1>1, <1>3
<1>5. Len(tag) \in 3 .. 4
  BY Tags
<1> HIDE DEF tag
<1>6. ASSUME NEW n \in 1 .. Len(tag), i + Len(tag) - 1 <= Len(places)
      PROVE  B[i + n - 1] = whole[c + i + n - 1]
  <2>1. i + n - 1 \in 1 .. Len(places) /\ c + (i + n - 1) = c + i + n - 1
    BY <1>5, <1>6, <1>1
  <2>2. QED
    BY <2>1, <1>3
<1>7. i + Len(tag) - 1 <= Len(B) <=> c + i + Len(tag) - 1 <= Len(whole)
  BY <1>4, <1>5, <1>1
<1>8. Reads(B, i, tag) <=> Occurs(tag, c + i)
  BY <1>4, <1>6, <1>7 DEF Reads, Occurs
<1>9. QED
  BY <1>3, <1>4, <1>8 DEF B, tag

(* A tag, from its first byte to the one after it.                         *)
LEMMA InTag ==
  ASSUME NEW f, IsRead(f), whole \in Seq(Alphabet), NEW d \in Nat, NEW b \in Modes, f[d].mode = b,
         f[d].skip = 0, Occurs(TagOf(b), d + 1), d + Len(TagOf(b)) <= Len(whole)
  PROVE  /\ f[d + Len(TagOf(b))].skip = 0 /\ f[d + Len(TagOf(b))].mode = Other(b)
         /\ f[d + Len(TagOf(b))].out = f[d].out
         /\ \A j \in d + 1 .. d + Len(TagOf(b)) - 1 : f[j].skip > 0
<1> DEFINE l == Len(TagOf(b))
<1>1. l = 3 \/ l = 4
  BY Tags
<1>2. \A n \in 1 .. l : d + n \in 1 .. Len(whole)
  BY <1>1
<1>3. \A n \in 1 .. l : Reading(f[d + n - 1], f[d + n], d + n)
  BY <1>2 DEF IsRead
<1> HIDE DEF l
<1>4. Reading(f[d], f[d + 1], d + 1)
  <2>1. 1 \in 1 .. l /\ d + 1 - 1 = d
    BY <1>1
  <2>2. QED
    BY <2>1, <1>3
<1>5. f[d + 1].skip = l - 1 /\ f[d + 1].mode = Other(b) /\ f[d + 1].out = f[d].out
  BY <1>4 DEF Reading, Turns, l
<1>6. ASSUME NEW n \in 1 .. l - 1, f[d + n].skip = l - n, f[d + n].mode = Other(b), f[d + n].out = f[d].out
      PROVE  f[d + n + 1].skip = l - (n + 1) /\ f[d + n + 1].mode = Other(b) /\ f[d + n + 1].out = f[d].out
  <2>1. n + 1 \in 1 .. l /\ d + (n + 1) - 1 = d + n /\ d + (n + 1) = d + n + 1 /\ l - n > 0 /\ (l - n) - 1 = l - (n + 1)
    BY <1>1
  <2>2. Reading(f[d + n], f[d + n + 1], d + n + 1)
    BY <2>1, <1>3
  <2>3. QED
    BY <2>1, <2>2, <1>6 DEF Reading, Skips
<1>7. f[d + 2].skip = l - 2 /\ f[d + 2].mode = Other(b) /\ f[d + 2].out = f[d].out
  <2>1. 1 \in 1 .. l - 1 /\ d + 1 + 1 = d + 2
    BY <1>1
  <2>2. QED
    BY <2>1, <1>5, <1>6
<1>8. f[d + 3].skip = l - 3 /\ f[d + 3].mode = Other(b) /\ f[d + 3].out = f[d].out
  <2>1. 2 \in 1 .. l - 1 /\ d + 2 + 1 = d + 3
    BY <1>1
  <2>2. QED
    BY <2>1, <1>7, <1>6
<1>9. CASE l = 3
  <2>1. \A j \in d + 1 .. d + l - 1 : j = d + 1 \/ j = d + 2
    BY <1>9
  <2>2. QED
    BY <2>1, <1>5, <1>7, <1>8, <1>9 DEF l
<1>10. CASE l = 4
  <2>1. 3 \in 1 .. l - 1 /\ d + 3 + 1 = d + 4
    BY <1>10
  <2>2. f[d + 4].skip = l - 4 /\ f[d + 4].mode = Other(b) /\ f[d + 4].out = f[d].out
    BY <2>1, <1>8, <1>6
  <2>3. \A j \in d + 1 .. d + l - 1 : j = d + 1 \/ j = d + 2 \/ j = d + 3
    BY <1>10
  <2>4. QED
    BY <2>2, <2>3, <1>5, <1>7, <1>8, <1>10 DEF l
<1>11. QED
  BY <1>1, <1>9, <1>10

(* What has been told apart stays so whatever comes after it.              *)
Decided(b, j)  == Occurs(TagOf(b), j) \/ Broken(TagOf(b), j)
Settled(f, c)  == \A j \in 1 .. c : f[j - 1].skip = 0 => Decided(f[j - 1].mode, j)

LEMMA SamePast ==
  ASSUME NEW f, NEW g, IsRead(f), IsRead(g)', NEW c \in Nat, c <= Len(whole), c <= Len(whole'),
         whole \in Seq(Alphabet), whole' \in Seq(Alphabet),
         \A j \in 1 .. c : f[j - 1].skip = 0 =>
           (Occurs(TagOf(f[j - 1].mode), j)' <=> Occurs(TagOf(f[j - 1].mode), j))
  PROVE  \A n \in 0 .. c : g[n] = f[n]
<1> DEFINE P == {n \in Nat : n <= c => g[n] = f[n]}
<1>1. 0 \in P
  BY DEF IsRead
<1>2. ASSUME NEW n \in P PROVE n + 1 \in P
  <2> SUFFICES ASSUME n + 1 <= c PROVE g[n + 1] = f[n + 1]
    OBVIOUS
  <2>1. n \in Nat /\ n + 1 \in 1 .. c /\ (n + 1) - 1 = n /\ n \in 0 .. Len(whole)
        /\ n + 1 \in 1 .. Len(whole) /\ n + 1 \in 1 .. Len(whole')
        /\ n + 1 \in 0 .. Len(whole) /\ n + 1 \in 0 .. Len(whole')
    OBVIOUS
  <2>2. g[n] = f[n]
    BY <2>1
  <2> DEFINE s == f[n]
             t == f[n + 1]
             u == g[n + 1]
  <2>3. Reading(s, t, n + 1)
    BY <2>1 DEF IsRead
  <2>4. Reading(s, u, n + 1)'
    BY <2>1, <2>2 DEF IsRead
  <2>5. s.skip = 0 => (Occurs(TagOf(s.mode), n + 1)' <=> Occurs(TagOf(s.mode), n + 1))
    BY <2>1
  <2>6. s \in ScanStates(whole) /\ t \in ScanStates(whole) /\ u \in ScanStates(whole')
    BY <2>1 DEF IsRead
  <2> HIDE DEF s, t, u
  <2>7. s.skip = 0 \/ s.skip > 0
    BY <2>6 DEF ScanStates
  <2>8. u.skip = t.skip /\ u.mode = t.mode /\ u.out = t.out
    BY <2>3, <2>4, <2>5, <2>7 DEF Reading, Skips, Turns, Passes
  <2>9. t = [mode |-> t.mode, skip |-> t.skip, out |-> t.out] /\ u = [mode |-> u.mode, skip |-> u.skip, out |-> u.out]
    BY <2>6 DEF ScanStates
  <2>10. u = t
    BY <2>8, <2>9
  <2>11. QED
    BY <2>10 DEF u, t
<1>3. P \in SUBSET Nat
  OBVIOUS
<1> HIDE DEF P
<1>4. P = Nat
  BY <1>1, <1>2, <1>3, EveryNumber
<1>5. QED
  BY <1>4 DEF P

LEMMA SameContent ==
  ASSUME NEW f, NEW g, IsRead(f), IsRead(g)', whole \in Seq(Alphabet), whole' = whole
  PROVE  g = f
<1>1. \A n \in 0 .. Len(whole) : g[n] = f[n]
  <2>1. Len(whole) \in Nat /\ whole' \in Seq(Alphabet)
    OBVIOUS
  <2>2. \A b \in Modes, j \in Nat : Occurs(TagOf(b), j)' <=> Occurs(TagOf(b), j)
    BY DEF Occurs
  <2>3. \A j \in 1 .. Len(whole) : f[j - 1].mode \in Modes
    <3>1. \A j \in 1 .. Len(whole) : j - 1 \in 0 .. Len(whole)
      OBVIOUS
    <3>2. QED
      BY <3>1 DEF IsRead, ScanStates
  <2>4. \A j \in 1 .. Len(whole) : Occurs(TagOf(f[j - 1].mode), j)' <=> Occurs(TagOf(f[j - 1].mode), j)
    BY <2>2, <2>3
  <2>5. QED
    BY <2>1, <2>4, SamePast
<1>2. f = [n \in 0 .. Len(whole) |-> f[n]] /\ g = [n \in 0 .. Len(whole) |-> g[n]]
  BY DEF IsRead
<1>3. QED
  BY <1>1, <1>2

(* The parser has told what the whole content says up to where it waits.   *)
Consumed == Len(whole) - Len(text) - Len(buf)

PlacesOK ==
  /\ whole \in Seq(Alphabet) /\ Len(whole) <= MaxBytes
  /\ inThink \in BOOLEAN /\ flushed \in BOOLEAN
  /\ Consumed \in Nat
  /\ OnFrom(text, Consumed) /\ OnFrom(buf, Consumed)
  /\ text = <<>> \/ buf = <<>>
  /\ flushed => text = <<>> /\ buf = <<>>

HeldBack == Len(buf) < Len(Awaited) /\ \A p \in 1 .. Len(buf) : whole[Consumed + p] = Awaited[p]

Told(f, c) == f[c].skip = 0 /\ f[c].mode = Mode /\ f[c].out = out

Followed(f) == Told(f, Consumed) /\ (~flushed => Settled(f, Consumed))

ParserInv == PlacesOK /\ HeldBack /\ Followed(Scan(Openers))

LEMMA ModeAwaits == Awaited = TagOf(Mode) /\ Mode \in Modes
BY DEF Awaited, TagOf, Mode, Modes

LEMMA AsIsRun ==
  ASSUME NEW places \in Seq(Nat), NEW c \in Nat, NEW m \in Nat, m <= Len(places), OnFrom(places, c), NEW k
  PROVE  As(k, SubSeq(places, 1, m)) = Run(k, c, m)
<1>1. SubSeq(places, 1, m) = [n \in 1 .. m |-> places[n]]
  OBVIOUS
<1>2. \A n \in 1 .. m : places[n] = c + n
  BY DEF OnFrom
<1>3. SubSeq(places, 1, m) = [n \in 1 .. m |-> c + n]
  BY <1>1, <1>2
<1>4. QED
  BY <1>3 DEF As, Run

(* Before a tag that is found nothing can still become one.                *)
LEMMA BrokenBefore ==
  ASSUME whole \in Seq(Alphabet), NEW b \in Modes, NEW j \in 1 .. Len(whole), ~Occurs(TagOf(b), j),
         j + Len(TagOf(b)) - 1 <= Len(whole)
  PROVE  Broken(TagOf(b), j)
<1>1. Len(TagOf(b)) \in Nat
  BY Tags
<1>2. ~ \A n \in 1 .. Len(TagOf(b)) : whole[j + n - 1] = TagOf(b)[n]
  BY DEF Occurs, Reads
<1>3. PICK n \in 1 .. Len(TagOf(b)) : whole[j + n - 1] # TagOf(b)[n]
  BY <1>2
<1>4. j + n - 1 <= Len(whole)
  <2>1. Len(whole) \in Nat /\ j \in Nat /\ n \in Nat /\ n <= Len(TagOf(b))
    BY <1>1
  <2> HIDE DEF Modes
  <2>2. QED
    BY <1>1, <2>1
<1>5. QED
  BY <1>3, <1>4 DEF Broken

LEMMA RestOf ==
  ASSUME NEW s \in Seq(Nat), NEW k \in Nat, k <= Len(s)
  PROVE  /\ Len(SubSeq(s, k + 1, Len(s))) = Len(s) - k
         /\ SubSeq(s, k + 1, Len(s)) \in Seq(Nat)
         /\ \A q \in 1 .. Len(s) - k : SubSeq(s, k + 1, Len(s))[q] = s[k + 1 + q - 1]
OBVIOUS

LEMMA CutStep ==
  ASSUME PlacesOK, HeldBack, NEW f, IsRead(f), Followed(f), CutAtTag
  PROVE  PlacesOK' /\ HeldBack' /\ Followed(f)'
<1> DEFINE c == Consumed
           b == Mode
           tag == TagOf(b)
           l == Len(tag)
           i == IndexOf(BytesAt(text), Awaited)
           d == c + i - 1
<1>1. whole \in Seq(Alphabet) /\ c \in Nat /\ OnFrom(text, c) /\ text \in Seq(Nat) /\ buf \in Seq(Nat)
  BY DEF PlacesOK, OnFrom
<1>2. b \in Modes /\ Awaited = tag /\ l \in 3 .. 4
  BY ModeAwaits, Tags
<1>3. i > 0 /\ out' = out \o As(b, SubSeq(text, 1, i - 1)) /\ text' = SubSeq(text, i + l, Len(text))
      /\ inThink' = ~inThink /\ whole' = whole /\ buf' = buf /\ flushed' = flushed
  BY <1>2 DEF CutAtTag
<1> HIDE DEF b, tag, c
<1>4. BytesAt(text) \in Seq(Alphabet)
  <2>1. \A n \in 1 .. Len(text) : text[n] \in 1 .. Len(whole)
    BY <1>1 DEF OnFrom, Consumed, c
  <2>2. BytesAt(text) = [n \in 1 .. Len(text) |-> whole[text[n]]] /\ Len(text) \in Nat
    BY <1>1 DEF BytesAt
  <2>3. \A n \in 1 .. Len(text) : whole[text[n]] \in Alphabet
    BY <2>1, <1>1
  <2>4. QED
    BY <2>2, <2>3
<1>5. /\ i \in 1 .. Len(BytesAt(text)) /\ Reads(BytesAt(text), i, tag)
      /\ NoneIn(BytesAt(text), tag, i - 1)
  BY <1>2, <1>3, <1>4, IndexFinds
<1>6. Len(BytesAt(text)) = Len(text)
  BY <1>1 DEF BytesAt
<1>7. text # <<>> /\ buf = <<>> /\ ~flushed
  BY <1>1, <1>5, <1>6 DEF PlacesOK
<1>8. c + Len(text) = Len(whole)
  BY <1>1, <1>7 DEF c, Consumed
<1> HIDE DEF i
<1>9. i \in 1 .. Len(text)
  BY <1>5, <1>6
<1>10. \A n \in 1 .. Len(text) : Reads(BytesAt(text), n, tag) <=> Occurs(tag, c + n)
  BY <1>1, <1>2, <1>8, ReadsThere DEF tag
<1>11. Occurs(tag, d + 1) /\ d \in Nat /\ d + l <= Len(whole)
  <2>1. Occurs(tag, c + i) /\ d + 1 = c + i /\ d \in Nat
    BY <1>5, <1>9, <1>10, <1>1
  <2>2. c + i + l - 1 <= Len(whole)
    BY <2>1 DEF Occurs, Reads
  <2>3. QED
    BY <2>1, <2>2, <1>1, <1>2, <1>9
<1>12. \A j \in c + 1 .. c + (i - 1) : ~Occurs(tag, j)
  <2> SUFFICES ASSUME NEW j \in c + 1 .. c + (i - 1) PROVE ~Occurs(tag, j)
    OBVIOUS
  <2>1. j - c \in 1 .. i - 1 /\ j - c \in 1 .. Len(text) /\ c + (j - c) = j
    BY <1>1, <1>9
  <2>2. QED
    BY <2>1, <1>5, <1>10 DEF NoneIn
<1>13. f[c].skip = 0 /\ f[c].mode = b /\ f[c].out = out /\ Settled(f, c)
  BY <1>7 DEF Followed, Told, b, c
<1>14. i - 1 \in Nat /\ c + (i - 1) <= Len(whole) /\ d = c + (i - 1)
  BY <1>1, <1>8, <1>9
<1>15. \A n \in 0 .. i - 1 : PassedTo(f, c, n)
  BY <1>1, <1>12, <1>13, <1>14, PassOver DEF tag
<1>16. f[d].skip = 0 /\ f[d].mode = b /\ f[d].out = out \o Run(b, c, i - 1)
  <2>1. PassedTo(f, c, i - 1)
    BY <1>14, <1>15
  <2>2. f[d] = f[c + (i - 1)]
    BY <1>14
  <2> HIDE DEF d
  <2>3. QED
    BY <2>1, <2>2, <1>13 DEF PassedTo
<1>17. /\ f[d + l].skip = 0 /\ f[d + l].mode = Other(b) /\ f[d + l].out = f[d].out
       /\ \A j \in d + 1 .. d + l - 1 : f[j].skip > 0
  BY <1>1, <1>2, <1>11, <1>16, InTag DEF tag
<1>18. Settled(f, d + l)
  <2> SUFFICES ASSUME NEW j \in 1 .. d + l, f[j - 1].skip = 0 PROVE Decided(f[j - 1].mode, j)
    BY DEF Settled
  <2>1. CASE j \in 1 .. c
    BY <2>1, <1>13 DEF Settled
  <2>2. CASE j \in c + 1 .. d
    <3>1. j - 1 - c \in 0 .. i - 1 /\ c + (j - 1 - c) = j - 1 /\ j \in c + 1 .. c + (i - 1)
      BY <2>2, <1>1, <1>9
    <3>2. f[j - 1].mode = b
      BY <3>1, <1>15, <1>13 DEF PassedTo
    <3>3. j \in 1 .. Len(whole) /\ j + l - 1 <= Len(whole)
      BY <2>2, <1>1, <1>2, <1>11
    <3>4. Broken(tag, j)
      BY <3>1, <3>3, <1>1, <1>2, <1>12, BrokenBefore DEF tag
    <3>5. QED
      BY <3>2, <3>4 DEF Decided, tag
  <2>3. CASE j = d + 1
    <3>1. j - 1 = d
      BY <2>3, <1>11
    <3>2. QED
      BY <3>1, <2>3, <1>11, <1>16 DEF Decided, tag
  <2>4. CASE j \in d + 2 .. d + l
    <3>1. j - 1 \in d + 1 .. d + l - 1
      BY <2>4, <1>11, <1>2
    <3>2. QED
      BY <3>1, <1>17
  <2>5. QED
    BY <2>1, <2>2, <2>3, <2>4, <1>1, <1>2, <1>11, <1>14
<1>19. As(b, SubSeq(text, 1, i - 1)) = Run(b, c, i - 1)
  <2>1. i - 1 <= Len(text)
    BY <1>1, <1>9
  <2>2. QED
    BY <2>1, <1>1, <1>14, AsIsRun
<1>20. out' = f[d + l].out
  BY <1>3, <1>16, <1>17, <1>19
<1>21. Len(text') = Len(text) - (i + l) + 1 /\ text' \in Seq(Nat)
       /\ \A n \in 1 .. Len(text') : text'[n] = text[i + l + n - 1]
  <2>1. i + l - 1 <= Len(text) /\ Len(text) \in Nat
    BY <1>1, <1>2, <1>8, <1>11, <1>9
  <2>2. i \in Nat /\ l \in Nat /\ i + l >= 1
    BY <1>9, <1>2
  <2>3. PICK k \in Nat : k = i + l - 1
    BY <2>2
  <2> HIDE DEF l
  <2>4. k <= Len(text) /\ i + l = k + 1 /\ Len(text) - k = Len(text) - (i + l) + 1
    BY <2>1, <2>2, <2>3
  <2>5. /\ Len(SubSeq(text, k + 1, Len(text))) = Len(text) - k
        /\ SubSeq(text, k + 1, Len(text)) \in Seq(Nat)
        /\ \A q \in 1 .. Len(text) - k : SubSeq(text, k + 1, Len(text))[q] = text[k + 1 + q - 1]
    BY <2>4, <1>1, RestOf
  <2>6. text' = SubSeq(text, k + 1, Len(text))
    BY <2>4, <1>3
  <2>7. QED
    BY <2>4, <2>5, <2>6
<1>22. Consumed' = d + l
  <2>1. Len(buf') = 0 /\ Len(whole') = Len(whole) /\ Len(whole) \in Nat /\ Len(text) \in Nat /\ i \in Nat /\ l \in Nat
    BY <1>1, <1>2, <1>3, <1>7, <1>9
  <2>2. Len(text') = Len(text) - (i + l) + 1
    BY <1>21
  <2> HIDE DEF l
  <2>3. Consumed' = Len(whole') - Len(text') - Len(buf')
    BY DEF Consumed
  <2>4. Consumed' = Len(whole) - (Len(text) - (i + l) + 1)
    BY <2>1, <2>2, <2>3
  <2>5. c \in Nat /\ c + Len(text) = Len(whole)
    BY <1>1, <1>8
  <2>6. Len(whole) - (Len(text) - (i + l) + 1) = c + i - 1 + l
    BY <2>1, <2>5
  <2>7. QED
    BY <2>4, <2>6
<1>23. OnFrom(text', d + l)
  <2> SUFFICES ASSUME NEW n \in 1 .. Len(text') PROVE text'[n] = d + l + n
    BY <1>21 DEF OnFrom
  <2>1. i + l + n - 1 \in 1 .. Len(text)
    BY <1>1, <1>2, <1>9, <1>21
  <2>2. text[i + l + n - 1] = c + (i + l + n - 1)
    BY <2>1, <1>1 DEF OnFrom
  <2>3. QED
    BY <2>2, <1>21, <1>1, <1>2, <1>9
<1>24. Mode' = Other(b)
  BY <1>3 DEF Mode, Other, b, PlacesOK
<1>25. PlacesOK'
  <2>1. OnFrom(buf', d + l)
    BY <1>3, <1>7 DEF OnFrom
  <2>2. d + l \in Nat
    BY <1>2, <1>11
  <2>3. inThink' \in BOOLEAN
    BY <1>3
  <2> HIDE DEF d, l
  <2>4. QED
    BY <2>1, <2>2, <2>3, <1>3, <1>7, <1>22, <1>23 DEF PlacesOK
<1>26. HeldBack'
  <2>1. Awaited' = TagOf(Mode') /\ Mode' \in Modes
    BY DEF Awaited, TagOf, Mode, Modes
  <2>2. Len(Awaited') \in 3 .. 4
    BY <2>1, Tags
  <2>3. Len(buf') = 0
    BY <1>3, <1>7
  <2>4. Len(buf') < Len(Awaited') /\ 1 .. Len(buf') = {}
    BY <2>2, <2>3
  <2>5. QED
    BY <2>4 DEF HeldBack
<1>27. Followed(f)'
  <2>1. PICK e \in Nat : e = d + l
    BY <1>2, <1>11
  <2>2. Settled(f, e)
    BY <2>1, <1>18
  <2>3. Settled(f, e)'
    BY <2>2, <1>3 DEF Settled, Decided, Occurs, Broken
  <2>4. Consumed' = e
    BY <2>1, <1>22
  <2>5. f[e].skip = 0 /\ f[e].mode = Mode' /\ f[e].out = out'
    BY <2>1, <1>17, <1>20, <1>24
  <2>6. QED
    BY <2>3, <2>4, <2>5 DEF Followed, Told
<1>28. QED
  BY <1>25, <1>26, <1>27

(* What the parser holds back is all that can still become a tag.          *)
LEMMA BrokenInside ==
  ASSUME whole \in Seq(Alphabet), NEW b \in Modes, NEW c \in Nat, NEW B \in Seq(Alphabet),
         c + Len(B) = Len(whole), \A q \in 1 .. Len(B) : B[q] = whole[c + q],
         NEW n \in Nat, n <= Len(B),
         n = 0 => NoEndLike(B, TagOf(b)), n > 0 => n < Len(TagOf(b)) /\ EndsLike(B, TagOf(b), n),
         NEW j \in c + 1 .. c + (Len(B) - n), ~Occurs(TagOf(b), j)
  PROVE  Broken(TagOf(b), j)
<1> DEFINE tag == TagOf(b)
           l == Len(tag)
           m == Len(whole) - j + 1
<1>1. l \in 3 .. 4 /\ \A q \in 2 .. l : tag[q] # tag[1]
  BY Tags
<1>2. j \in 1 .. Len(whole) /\ Len(B) \in Nat /\ Len(whole) \in Nat
  OBVIOUS
<1>3. CASE j + l - 1 <= Len(whole)
  BY <1>2, <1>3, BrokenBefore
<1>4. CASE ~(j + l - 1 <= Len(whole))
  <2> SUFFICES ASSUME ~Broken(tag, j) PROVE FALSE
    OBVIOUS
  <2> HIDE DEF tag
  <2>1. m \in 1 .. l - 1 /\ m > n /\ m <= Len(B)
    BY <1>1, <1>2, <1>4
  <2>2. ASSUME NEW q \in 1 .. m PROVE B[Len(B) - m + q] = tag[q]
    <3>1. q \in 1 .. l /\ j + q - 1 <= Len(whole)
      BY <2>1, <1>1, <1>2
    <3>2. whole[j + q - 1] = tag[q]
      BY <3>1 DEF Broken
    <3>3. Len(B) - m + q \in 1 .. Len(B) /\ c + (Len(B) - m + q) = j + q - 1
      BY <2>1, <1>2
    <3>4. QED
      BY <3>2, <3>3
  <2>3. CASE n = 0
    <3>1. EndsLike(B, tag, m)
      BY <2>2 DEF EndsLike
    <3>2. QED
      BY <3>1, <2>1, <2>3 DEF NoEndLike, tag
  <2>4. CASE n > 0
    <3>1. EndsLike(B, tag, n) /\ n < l
      BY <2>4 DEF tag
    <3>2. 1 \in 1 .. n
      BY <2>4
    <3>3. B[Len(B) - n + 1] = tag[1]
      BY <3>1, <3>2 DEF EndsLike
    <3>4. m - n + 1 \in 1 .. m /\ m - n + 1 \in 2 .. l /\ Len(B) - m + (m - n + 1) = Len(B) - n + 1
      BY <2>1, <2>4, <1>1, <1>2
    <3>5. B[Len(B) - n + 1] = tag[m - n + 1]
      BY <3>4, <2>2
    <3>6. QED
      BY <3>3, <3>4, <3>5, <1>1
  <2>5. QED
    BY <2>3, <2>4
<1>5. QED
  BY <1>3, <1>4

LEMMA PassStep ==
  ASSUME PlacesOK, HeldBack, NEW f, IsRead(f), Followed(f), PassOn
  PROVE  PlacesOK' /\ HeldBack' /\ Followed(f)'
<1> DEFINE c == Consumed
           b == Mode
           tag == TagOf(b)
           l == Len(tag)
           B == BytesAt(text)
           n == TagPrefix(B, Awaited)
           k == Len(text) - n
<1>1. whole \in Seq(Alphabet) /\ c \in Nat /\ OnFrom(text, c) /\ text \in Seq(Nat) /\ buf \in Seq(Nat)
  BY DEF PlacesOK, OnFrom
<1>2. b \in Modes /\ Awaited = tag /\ l \in 3 .. 4
  BY ModeAwaits, Tags
<1>3. text # <<>> /\ IndexOf(B, tag) = 0 /\ out' = out \o As(b, SubSeq(text, 1, k))
      /\ buf' = SubSeq(text, k + 1, Len(text)) /\ text' = <<>>
      /\ whole' = whole /\ inThink' = inThink /\ flushed' = flushed
  BY <1>2 DEF PassOn
<1> HIDE DEF b, tag, c
<1>4. buf = <<>> /\ ~flushed
  BY <1>3 DEF PlacesOK
<1>5. c + Len(text) = Len(whole) /\ Len(text) \in Nat \ {0}
  BY <1>1, <1>3, <1>4 DEF c, Consumed
<1>6. /\ B \in Seq(Alphabet) /\ Len(B) = Len(text)
      /\ \A q \in 1 .. Len(text) : B[q] = whole[c + q] /\ (Reads(B, q, tag) <=> Occurs(tag, c + q))
  <2>1. 1 \in 1 .. Len(text)
    BY <1>5
  <2>2. QED
    BY <2>1, <1>1, <1>2, <1>5, ReadsThere DEF tag
<1> HIDE DEF B
<1>7. \A j \in c + 1 .. Len(whole) : ~Occurs(tag, j)
  <2>1. NoneIn(B, tag, Len(B))
    BY <1>2, <1>3, <1>6, IndexFinds
  <2>2. ASSUME NEW j \in c + 1 .. Len(whole) PROVE ~Occurs(tag, j)
    <3>1. j - c \in 1 .. Len(text) /\ c + (j - c) = j
      BY <1>1, <1>5
    <3>2. QED
      BY <3>1, <2>1, <1>6 DEF NoneIn
  <2>3. QED
    BY <2>2
<1>8. /\ n \in Nat /\ n <= Len(text) /\ n < l
      /\ n = 0 => NoEndLike(B, tag)
      /\ n > 0 => EndsLike(B, tag, n)
  <2>1. Len(tag) \in Nat
    BY <1>2
  <2>2. \/ TagPrefix(B, tag) = 0 /\ NoEndLike(B, tag)
        \/ /\ TagPrefix(B, tag) \in 1 .. Len(tag) - 1 /\ TagPrefix(B, tag) <= Len(B)
           /\ EndsLike(B, tag, TagPrefix(B, tag))
    BY <2>1, <1>6, PrefixFinds
  <2>3. n = TagPrefix(B, tag)
    BY <1>2
  <2>4. Len(B) = Len(text) /\ Len(text) \in Nat /\ l \in 3 .. 4
    BY <1>2, <1>5, <1>6
  <2> HIDE DEF n
  <2>5. QED
    BY <2>2, <2>3, <2>4
<1> HIDE DEF n
<1>9. k \in Nat /\ k <= Len(text) /\ c + k <= Len(whole)
  BY <1>1, <1>5, <1>8
<1>10. f[c].skip = 0 /\ f[c].mode = b /\ f[c].out = out /\ Settled(f, c)
  BY <1>4 DEF Followed, Told, b, c
<1>11. \A q \in 0 .. k : PassedTo(f, c, q)
  <2>1. \A j \in c + 1 .. c + k : ~Occurs(TagOf(f[c].mode), j)
    BY <1>7, <1>9, <1>10, <1>1 DEF tag
  <2> HIDE DEF k
  <2>2. QED
    BY <2>1, <1>1, <1>9, <1>10, PassOver
<1>12. f[c + k].skip = 0 /\ f[c + k].mode = b /\ f[c + k].out = out \o Run(b, c, k)
  <2>1. PassedTo(f, c, k)
    BY <1>9, <1>11
  <2> HIDE DEF k
  <2>2. QED
    BY <2>1, <1>10 DEF PassedTo
<1>13. out' = f[c + k].out
  <2> HIDE DEF k
  <2>1. As(b, SubSeq(text, 1, k)) = Run(b, c, k)
    BY <1>1, <1>9, AsIsRun
  <2>2. QED
    BY <2>1, <1>3, <1>12
<1>14. Settled(f, c + k)
  <2> SUFFICES ASSUME NEW j \in 1 .. c + k, f[j - 1].skip = 0 PROVE Decided(f[j - 1].mode, j)
    BY DEF Settled
  <2>1. CASE j \in 1 .. c
    BY <2>1, <1>10 DEF Settled
  <2>2. CASE j \in c + 1 .. c + k
    <3>1. j - 1 - c \in 0 .. k /\ c + (j - 1 - c) = j - 1
      BY <2>2, <1>1, <1>9
    <3>2. PassedTo(f, c, j - 1 - c)
      BY <3>1, <1>11
    <3>3. f[j - 1].mode = b
      BY <3>1, <3>2, <1>10 DEF PassedTo
    <3>4. j \in c + 1 .. c + (Len(B) - n) /\ j \in c + 1 .. Len(whole)
      BY <2>2, <1>6, <1>9, <1>1
    <3>5. ~Occurs(tag, j)
      BY <3>4, <1>7
    <3>6. Broken(tag, j)
      BY <3>4, <3>5, <1>1, <1>2, <1>5, <1>6, <1>8, BrokenInside DEF tag
    <3>7. QED
      BY <3>3, <3>6 DEF Decided, tag
  <2>3. QED
    BY <2>1, <2>2, <1>1, <1>9
<1>15. Len(buf') = n /\ buf' \in Seq(Nat) /\ \A q \in 1 .. n : buf'[q] = c + k + q
  <2>1. k + 1 \in 1 .. Len(text) + 1 /\ Len(text) - (k + 1) + 1 = n
    BY <1>5, <1>8, <1>9
  <2>2. buf' \in Seq(Nat) /\ Len(buf') = n /\ \A q \in 1 .. n : buf'[q] = text[k + 1 + q - 1]
    <3> HIDE DEF k
    <3>1. /\ Len(SubSeq(text, k + 1, Len(text))) = Len(text) - k
          /\ SubSeq(text, k + 1, Len(text)) \in Seq(Nat)
          /\ \A q \in 1 .. Len(text) - k : SubSeq(text, k + 1, Len(text))[q] = text[k + 1 + q - 1]
      BY <1>1, <1>9, RestOf
    <3>2. Len(text) - k = n
      BY <2>1, <1>1, <1>9
    <3>3. QED
      BY <3>1, <3>2, <1>3
  <2>3. ASSUME NEW q \in 1 .. n PROVE buf'[q] = c + k + q
    <3>1. k + 1 + q - 1 \in 1 .. Len(text) /\ c + (k + 1 + q - 1) = c + k + q
      BY <1>1, <1>5, <1>8, <1>9
    <3>2. QED
      BY <3>1, <2>2, <1>1 DEF OnFrom
  <2>4. QED
    BY <2>2, <2>3
<1>16. Consumed' = c + k
  <2>1. Len(whole') = Len(whole) /\ Len(text') = 0 /\ Len(buf') = n /\ Len(whole) \in Nat
    BY <1>1, <1>3, <1>15
  <2>2. Consumed' = Len(whole) - 0 - n
    BY <2>1 DEF Consumed
  <2>3. QED
    BY <2>1, <2>2, <1>1, <1>5, <1>8
<1>17. PICK e \in Nat : e = c + k
  BY <1>1, <1>9
<1>18. PlacesOK'
  <2>1. OnFrom(text', e) /\ OnFrom(buf', e)
    BY <1>3, <1>15, <1>17 DEF OnFrom
  <2>2. Consumed' = e
    BY <1>16, <1>17
  <2>3. QED
    BY <2>1, <2>2, <1>3, <1>4, <1>17 DEF PlacesOK
<1>19. HeldBack'
  <2>1. Awaited' = tag
    BY <1>2, <1>3 DEF Awaited
  <2>2. ASSUME NEW q \in 1 .. n PROVE whole[e + q] = tag[q]
    <3>1. n > 0 /\ Len(B) - n + q \in 1 .. Len(text) /\ c + (Len(B) - n + q) = e + q
      BY <1>1, <1>5, <1>6, <1>8, <1>9, <1>17
    <3>2. B[Len(B) - n + q] = tag[q]
      BY <3>1, <1>8 DEF EndsLike
    <3>3. QED
      BY <3>1, <3>2, <1>6
  <2>3. Consumed' = e
    BY <1>16, <1>17
  <2>4. QED
    BY <2>1, <2>2, <2>3, <1>3, <1>8, <1>15 DEF HeldBack
<1>20. Followed(f)'
  <2>1. Settled(f, e)
    BY <1>14, <1>17
  <2>2. Settled(f, e)'
    BY <2>1, <1>3 DEF Settled, Decided, Occurs, Broken
  <2>3. Consumed' = e
    BY <1>16, <1>17
  <2>4. f[e].skip = 0 /\ f[e].mode = b /\ f[e].out = out'
    BY <1>12, <1>13, <1>17
  <2>5. Mode' = b
    BY <1>3 DEF Mode, b
  <2>6. QED
    BY <2>2, <2>3, <2>4, <2>5 DEF Followed, Told
<1>21. QED
  BY <1>18, <1>19, <1>20

(* What is held back is, for now, no tag: it would go out as it is.        *)
LEMMA BufferPasses ==
  ASSUME PlacesOK, HeldBack, NEW f, IsRead(f), Told(f, Consumed), text = <<>>
  PROVE  Told(f, Consumed) /\ f[Len(whole)].skip = 0 /\ f[Len(whole)].mode = Mode
         /\ f[Len(whole)].out = out \o As(Mode, buf)
<1> DEFINE c == Consumed
           b == Mode
           m == Len(buf)
<1>1. whole \in Seq(Alphabet) /\ c \in Nat /\ OnFrom(buf, c) /\ buf \in Seq(Nat) /\ m \in Nat
  BY DEF PlacesOK, OnFrom
<1>2. b \in Modes /\ Awaited = TagOf(b) /\ Len(TagOf(b)) \in 3 .. 4
  BY ModeAwaits, Tags
<1>3. c + m = Len(whole)
  <2>1. Len(text) = 0 /\ Len(whole) \in Nat
    BY <1>1
  <2>2. c = Len(whole) - Len(text) - m
    BY DEF Consumed
  <2> HIDE DEF c, m
  <2>3. QED
    BY <2>1, <2>2, <1>1
<1>4. m < Len(TagOf(b))
  BY <1>2 DEF HeldBack
<1>5. f[c].skip = 0 /\ f[c].mode = b /\ f[c].out = out
  BY DEF Told
<1> HIDE DEF c, b, m
<1>6. \A j \in c + 1 .. c + m : ~Occurs(TagOf(f[c].mode), j)
  <2> SUFFICES ASSUME NEW j \in c + 1 .. c + m, Occurs(TagOf(b), j) PROVE FALSE
    BY <1>5
  <2>1. j + Len(TagOf(b)) - 1 <= Len(whole)
    BY DEF Occurs, Reads
  <2>2. QED
    BY <2>1, <1>1, <1>2, <1>3, <1>4
<1>7. PassedTo(f, c, m)
  <2>1. \A n \in 0 .. m : PassedTo(f, c, n)
    <3>1. c + m <= Len(whole) /\ f[c].skip = 0
      BY <1>1, <1>3, <1>5
    <3>2. QED
      BY <3>1, <1>1, <1>5, <1>6, PassOver
  <2>2. QED
    BY <2>1, <1>1
<1>8. As(b, buf) = Run(b, c, m)
  <2>1. buf = [n \in 1 .. m |-> c + n]
    <3>1. buf = [n \in 1 .. m |-> buf[n]]
      BY <1>1 DEF m
    <3>2. \A n \in 1 .. m : buf[n] = c + n
      BY <1>1 DEF OnFrom, m
    <3>3. QED
      BY <3>1, <3>2
  <2>2. QED
    BY <2>1 DEF As, Run
<1>9. QED
  BY <1>3, <1>5, <1>7, <1>8 DEF PassedTo, b

LEMMA FlushStep ==
  ASSUME PlacesOK, HeldBack, NEW f, IsRead(f), Followed(f), Flush
  PROVE  PlacesOK' /\ HeldBack' /\ Followed(f)'
<1>1. text = <<>> /\ out' = out \o As(Mode, buf) /\ buf' = <<>> /\ flushed' = TRUE /\ whole' = whole
      /\ text' = <<>> /\ inThink' = inThink
  BY DEF Flush
<1>2. whole \in Seq(Alphabet) /\ Len(whole) \in Nat
  BY DEF PlacesOK
<1>3. f[Len(whole)].skip = 0 /\ f[Len(whole)].mode = Mode /\ f[Len(whole)].out = out \o As(Mode, buf)
  BY <1>1, BufferPasses DEF Followed
<1>4. Consumed' = Len(whole)
  <2>1. Len(whole') = Len(whole) /\ Len(text') = 0 /\ Len(buf') = 0
    BY <1>1
  <2>2. QED
    BY <2>1, <1>2 DEF Consumed
<1>5. PICK e \in Nat : e = Len(whole)
  BY <1>2
<1>6. Consumed' = e /\ flushed'
  BY <1>1, <1>4, <1>5
<1>7. PlacesOK'
  <2>1. OnFrom(text', e) /\ OnFrom(buf', e)
    BY <1>1 DEF OnFrom
  <2>2. QED
    BY <2>1, <1>1, <1>5, <1>6 DEF PlacesOK
<1>8. HeldBack'
  <2>1. Awaited' = TagOf(Mode) /\ Len(TagOf(Mode)) \in 3 .. 4
    <3>1. Awaited' = Awaited
      BY <1>1 DEF Awaited
    <3>2. QED
      BY <3>1, ModeAwaits, Tags
  <2>2. Len(buf') = 0
    BY <1>1
  <2>3. Len(buf') < Len(Awaited') /\ 1 .. Len(buf') = {}
    BY <2>1, <2>2
  <2>4. QED
    BY <2>3 DEF HeldBack
<1>9. Followed(f)'
  <2>1. Mode' = Mode
    BY <1>1 DEF Mode
  <2>2. f[e].skip = 0 /\ f[e].mode = Mode' /\ f[e].out = out'
    BY <2>1, <1>1, <1>3, <1>5
  <2>3. QED
    BY <2>2, <1>6 DEF Followed, Told
<1>10. QED
  BY <1>7, <1>8, <1>9

(* More content comes after what is held back.                             *)
LEMMA ChunkIsBytes ==
  ASSUME NEW chunk \in Chunks
  PROVE  chunk \in Seq(Alphabet)
<1>1. PICK n \in 1 .. MaxChunk : chunk \in [1 .. n -> Alphabet]
  BY DEF Chunks
<1>2. QED
  BY <1>1, ParserAssumption DEF ParserAssumption

LEMMA MoreOfTheSame ==
  ASSUME whole \in Seq(Alphabet), whole' \in Seq(Alphabet), Len(whole') >= Len(whole),
         \A n \in 1 .. Len(whole) : whole'[n] = whole[n],
         NEW b \in Modes, NEW j \in 1 .. Len(whole), Decided(b, j)
  PROVE  (Occurs(TagOf(b), j)' <=> Occurs(TagOf(b), j)) /\ Decided(b, j)'
<1> DEFINE tag == TagOf(b)
<1>1. Len(tag) \in 3 .. 4
  BY Tags
<1>2. (Occurs(tag, j) => Occurs(tag, j)') /\ (Broken(tag, j) => Broken(tag, j)' /\ ~Occurs(tag, j)' /\ ~Occurs(tag, j))
  <2> HIDE DEF tag
  <2>1. ASSUME Occurs(tag, j) PROVE Occurs(tag, j)'
    <3>1. j + Len(tag) - 1 <= Len(whole) /\ \A n \in 1 .. Len(tag) : whole[j + n - 1] = tag[n]
      BY <2>1 DEF Occurs, Reads
    <3>2. \A n \in 1 .. Len(tag) : j + n - 1 \in 1 .. Len(whole)
      BY <3>1, <1>1
    <3>3. j + Len(tag) - 1 <= Len(whole') /\ \A n \in 1 .. Len(tag) : whole'[j + n - 1] = tag[n]
      BY <3>1, <3>2, <1>1
    <3>4. QED
      BY <3>3 DEF Occurs, Reads
  <2>2. ASSUME Broken(tag, j) PROVE Broken(tag, j)' /\ ~Occurs(tag, j)' /\ ~Occurs(tag, j)
    <3>1. PICK n \in 1 .. Len(tag) : j + n - 1 <= Len(whole) /\ whole[j + n - 1] # tag[n]
      BY <2>2 DEF Broken
    <3>2. j + n - 1 \in 1 .. Len(whole) /\ j + n - 1 <= Len(whole')
      BY <3>1, <1>1
    <3>3. whole'[j + n - 1] # tag[n]
      BY <3>1, <3>2
    <3>4. QED
      BY <3>1, <3>2, <3>3 DEF Broken, Occurs, Reads
  <2>3. QED
    BY <2>1, <2>2
<1>3. QED
  BY <1>2 DEF Decided

LEMMA JoinsUp ==
  ASSUME NEW r \in Seq(Nat), NEW s \in Seq(Nat)
  PROVE  /\ r \o s \in Seq(Nat) /\ Len(r \o s) = Len(r) + Len(s)
         /\ \A n \in 1 .. Len(r) : (r \o s)[n] = r[n]
         /\ \A i \in 1 .. Len(s) : (r \o s)[Len(r) + i] = s[i]
OBVIOUS

LEMMA FeedStep ==
  ASSUME PlacesOK, HeldBack, NEW f, IsRead(f), Followed(f), NEW chunk \in Chunks, Feed(chunk),
         NEW g, IsRead(g)'
  PROVE  PlacesOK' /\ HeldBack' /\ Followed(g)'
<1> DEFINE c == Consumed
           more == [i \in 1 .. Len(chunk) |-> Len(whole) + i]
<1>1. whole \in Seq(Alphabet) /\ c \in Nat /\ OnFrom(buf, c) /\ buf \in Seq(Nat) /\ Len(whole) \in Nat /\ Len(buf) \in Nat
  BY DEF PlacesOK, OnFrom
<1>2. chunk \in Seq(Alphabet) /\ Len(chunk) \in Nat
  BY ChunkIsBytes
<1>3. /\ ~flushed /\ text = <<>> /\ Len(whole) + Len(chunk) <= MaxBytes
      /\ whole' = whole \o chunk /\ text' = buf \o more /\ buf' = <<>>
      /\ inThink' = inThink /\ out' = out /\ flushed' = flushed
  <2>1. DOMAIN chunk = 1 .. Len(chunk)
    BY <1>2
  <2>2. QED
    BY <2>1 DEF Feed
<1>4. /\ whole' \in Seq(Alphabet) /\ Len(whole') = Len(whole) + Len(chunk)
      /\ \A n \in 1 .. Len(whole) : whole'[n] = whole[n]
  BY <1>1, <1>2, <1>3
<1>5. more \in Seq(Nat) /\ Len(more) = Len(chunk)
  BY <1>1, <1>2
<1>6. \A i \in 1 .. Len(more) : more[i] = Len(whole) + i
  BY <1>5
<1> HIDE DEF c, more
<1>7. c + Len(buf) = Len(whole)
  <2>1. Len(text) = 0
    BY <1>3
  <2>2. c = Len(whole) - Len(text) - Len(buf)
    BY DEF Consumed, c
  <2>3. QED
    BY <2>1, <2>2, <1>1
<1>8. PICK e \in Nat : e = c
  BY <1>1
<1>9. /\ text' \in Seq(Nat) /\ Len(text') = Len(buf) + Len(chunk)
      /\ \A n \in 1 .. Len(text') : text'[n] = e + n
  <2>1. /\ text' \in Seq(Nat) /\ Len(text') = Len(buf) + Len(more)
        /\ \A n \in 1 .. Len(buf) : text'[n] = buf[n]
        /\ \A i \in 1 .. Len(more) : text'[Len(buf) + i] = more[i]
    BY <1>1, <1>3, <1>5, JoinsUp
  <2>0. Len(buf) \in Nat /\ Len(more) \in Nat /\ Len(whole) \in Nat /\ c \in Nat /\ c + Len(buf) = Len(whole) /\ e = c
    BY <1>1, <1>2, <1>5, <1>7, <1>8
  <2>2. ASSUME NEW n \in 1 .. Len(text') PROVE text'[n] = e + n
    <3>1. CASE n <= Len(buf)
      <4>1. n \in 1 .. Len(buf)
        BY <3>1, <1>1
      <4>2. QED
        BY <4>1, <3>1, <2>1, <1>1, <1>8 DEF OnFrom
    <3>2. CASE ~(n <= Len(buf))
      <4>1. PICK i \in 1 .. Len(more) : n = Len(buf) + i
        <5>1. n \in Nat /\ n <= Len(buf) + Len(more) /\ ~(n <= Len(buf))
          BY <3>2, <2>0, <2>1
        <5>2. n - Len(buf) \in 1 .. Len(more) /\ n = Len(buf) + (n - Len(buf))
          BY <5>1, <2>0
        <5>3. QED
          BY <5>2
      <4>2. Len(whole) + i = e + n
        BY <4>1, <2>0
      <4>3. text'[Len(buf) + i] = more[i]
        BY <2>1
      <4>4. more[i] = Len(whole) + i
        BY <1>6
      <4>5. QED
        BY <4>1, <4>2, <4>3, <4>4
    <3>3. QED
      BY <3>1, <3>2
  <2>3. QED
    BY <2>1, <2>2, <1>5
<1>10. Consumed' = e
  <2>1. Len(buf') = 0
    BY <1>3
  <2>2. Consumed' = Len(whole) + Len(chunk) - (Len(buf) + Len(chunk)) - 0
    BY <2>1, <1>4, <1>9 DEF Consumed
  <2>3. /\ Len(whole) \in Nat /\ Len(chunk) \in Nat /\ Len(buf) \in Nat /\ c \in Nat
        /\ c + Len(buf) = Len(whole) /\ e = c
    BY <1>1, <1>2, <1>7, <1>8
  <2>4. Len(whole) + Len(chunk) - (Len(buf) + Len(chunk)) - 0 = e
    BY <2>3
  <2>5. QED
    BY <2>2, <2>4
<1>11. PlacesOK'
  <2>1. OnFrom(text', e) /\ OnFrom(buf', e)
    BY <1>3, <1>9 DEF OnFrom
  <2>2. QED
    BY <2>1, <1>3, <1>4, <1>10 DEF PlacesOK
<1>12. HeldBack'
  <2>1. Awaited' = TagOf(Mode) /\ Len(TagOf(Mode)) \in 3 .. 4
    <3>1. Awaited' = Awaited
      BY <1>3 DEF Awaited
    <3>2. QED
      BY <3>1, ModeAwaits, Tags
  <2>2. Len(buf') = 0
    BY <1>3
  <2>3. Len(buf') < Len(Awaited') /\ 1 .. Len(buf') = {}
    BY <2>1, <2>2
  <2>4. QED
    BY <2>3 DEF HeldBack
<1>13. f[e].skip = 0 /\ f[e].mode = Mode /\ f[e].out = out /\ Settled(f, e)
  BY <1>3, <1>8 DEF Followed, Told, c
<1>14. e <= Len(whole) /\ e <= Len(whole')
  BY <1>1, <1>2, <1>4, <1>7, <1>8
<1>15. \A j \in 1 .. e : j \in 1 .. Len(whole) /\ f[j - 1].mode \in Modes
  <2>1. \A j \in 1 .. e : j \in 1 .. Len(whole) /\ j - 1 \in 0 .. Len(whole)
    BY <1>1, <1>14
  <2>2. QED
    BY <2>1 DEF IsRead, ScanStates
<1>16. ASSUME NEW j \in 1 .. e, f[j - 1].skip = 0
       PROVE  /\ Occurs(TagOf(f[j - 1].mode), j)' <=> Occurs(TagOf(f[j - 1].mode), j)
              /\ Decided(f[j - 1].mode, j)'
  <2>1. Decided(f[j - 1].mode, j)
    BY <1>13, <1>16 DEF Settled
  <2>2. Len(whole') >= Len(whole)
    BY <1>1, <1>2, <1>4
  <2> DEFINE b == f[j - 1].mode
  <2>3. b \in Modes /\ j \in 1 .. Len(whole)
    BY <1>15
  <2>4. Decided(b, j)
    BY <2>1
  <2> HIDE DEF b
  <2>5. (Occurs(TagOf(b), j)' <=> Occurs(TagOf(b), j)) /\ Decided(b, j)'
    BY <2>2, <2>3, <2>4, <1>1, <1>4, MoreOfTheSame
  <2>6. QED
    BY <2>5 DEF b
<1>17. \A n \in 0 .. e : g[n] = f[n]
  BY <1>1, <1>4, <1>14, <1>16, SamePast
<1>18. Followed(g)'
  <2>1. Settled(g, e)'
    <3> SUFFICES ASSUME NEW j \in 1 .. e, g[j - 1].skip = 0 PROVE Decided(g[j - 1].mode, j)'
      BY DEF Settled
    <3>1. j - 1 \in 0 .. e
      OBVIOUS
    <3>2. g[j - 1] = f[j - 1]
      BY <3>1, <1>17
    <3>3. QED
      BY <3>2, <1>16
  <2>2. Mode' = Mode
    BY <1>3 DEF Mode
  <2>3. e \in 0 .. e
    OBVIOUS
  <2>4. g[e].skip = 0 /\ g[e].mode = Mode' /\ g[e].out = out'
    BY <2>2, <2>3, <1>3, <1>13, <1>17
  <2>5. QED
    BY <2>1, <2>4, <1>10 DEF Followed, Told
<1>19. QED
  BY <1>11, <1>12, <1>18

LEMMA ParserBegins == ParserInit => ParserInv
<1> SUFFICES ASSUME ParserInit PROVE ParserInv
  OBVIOUS
<1>1. /\ whole = <<>> /\ text = <<>> /\ buf = <<>> /\ inThink = FALSE /\ out = <<>> /\ flushed = FALSE
      /\ Len(whole) = 0 /\ Len(text) = 0 /\ Len(buf) = 0 /\ whole \in Seq(Alphabet)
  BY DEF ParserInit
<1>2. Consumed = 0
  <2>1. Len(whole) = 0 /\ Len(text) = 0 /\ Len(buf) = 0
    BY <1>1
  <2>2. QED
    BY <2>1 DEF Consumed
<1>3. PlacesOK
  <2>1. Len(whole) <= MaxBytes
    BY <1>1, ParserAssumption DEF ParserAssumption
  <2>2. OnFrom(text, 0) /\ OnFrom(buf, 0)
    BY <1>1 DEF OnFrom
  <2>3. QED
    BY <2>1, <2>2, <1>1, <1>2 DEF PlacesOK
<1>4. HeldBack
  <2>1. Len(Awaited) \in 3 .. 4
    BY ModeAwaits, Tags
  <2>2. QED
    BY <2>1, <1>1 DEF HeldBack
<1>5. IsRead(Scan(Openers))
  BY <1>1, WholeIsRead
<1> DEFINE f == Scan(Openers)
<1> HIDE DEF f
<1>6. f[0] = Unscanned
  BY <1>5 DEF IsRead, f
<1>7. f[0].skip = 0 /\ f[0].mode = Mode /\ f[0].out = out
  BY <1>1, <1>6 DEF Unscanned, Mode
<1>8. Followed(f)
  BY <1>2, <1>7 DEF Followed, Told, Settled
<1>9. QED
  BY <1>3, <1>4, <1>8 DEF ParserInv, f

LEMMA ParserStepKeeps == ASSUME ParserInv, [ParserNext]_parserVars PROVE ParserInv'
<1>0. PICK f : f = Scan(Openers)
  OBVIOUS
<1>1. PlacesOK /\ HeldBack /\ Followed(f) /\ whole \in Seq(Alphabet)
  BY <1>0 DEF ParserInv, PlacesOK, Followed, Told, Settled
<1>2. IsRead(f)
  BY <1>0, <1>1, WholeIsRead DEF IsRead
<1>3. (whole \in Seq(Alphabet))' => IsRead(Scan(Openers))'
  BY WholeIsRead, PTL
<1>4. ASSUME NEW chunk \in Chunks, Feed(chunk) PROVE ParserInv'
  <2>1. whole' \in Seq(Alphabet)
    <3>1. chunk \in Seq(Alphabet) /\ whole' = whole \o chunk
      BY <1>4, ChunkIsBytes DEF Feed
    <3>2. QED
      BY <3>1, <1>1
  <2>2. PICK g : g = Scan(Openers)'
    OBVIOUS
  <2>5. IsRead(g)'
    BY <2>1, <2>2, <1>3 DEF IsRead
  <2>3. PlacesOK' /\ HeldBack' /\ Followed(g)'
    BY <1>1, <1>2, <1>4, <2>5, FeedStep
  <2>4. QED
    BY <2>2, <2>3 DEF ParserInv, Followed, Told, Settled
<1>5. ASSUME whole' = whole, PlacesOK' /\ HeldBack' /\ Followed(f)' PROVE ParserInv'
  <2>0. PICK g : g = Scan(Openers)'
    OBVIOUS
  <2>1. IsRead(g)'
    BY <2>0, <1>1, <1>3, <1>5 DEF IsRead
  <2>2. g = f
    BY <1>1, <1>2, <1>5, <2>1, SameContent
  <2>3. QED
    BY <1>5, <2>0, <2>2 DEF ParserInv, Followed, Told, Settled
<1>6. CASE CutAtTag
  <2>1. whole' = whole
    BY <1>6 DEF CutAtTag
  <2>2. QED
    BY <2>1, <1>1, <1>2, <1>5, <1>6, CutStep
<1>7. CASE PassOn
  <2>1. whole' = whole
    BY <1>7 DEF PassOn
  <2>2. QED
    BY <2>1, <1>1, <1>2, <1>5, <1>7, PassStep
<1>8. CASE Flush
  <2>1. whole' = whole
    BY <1>8 DEF Flush
  <2>2. QED
    BY <2>1, <1>1, <1>2, <1>5, <1>8, FlushStep
<1>9. CASE UNCHANGED parserVars
  <2>1. whole' = whole /\ text' = text /\ buf' = buf /\ inThink' = inThink /\ out' = out /\ flushed' = flushed
    BY <1>9 DEF parserVars
  <2>2. PlacesOK' /\ HeldBack'
    BY <1>1, <2>1 DEF PlacesOK, HeldBack, Consumed, Awaited, OnFrom
  <2>3. Followed(f)'
    <3>1. Consumed' = Consumed /\ Mode' = Mode
      BY <2>1 DEF Consumed, Mode
    <3>2. PICK e : e = Consumed
      OBVIOUS
    <3>3. ~flushed => Settled(f, e)
      BY <1>1, <3>2 DEF Followed
    <3>4. ~flushed => Settled(f, e)'
      BY <3>3, <2>1 DEF Settled, Decided, Occurs, Broken
    <3>5. Told(f, e)'
      BY <1>1, <2>1, <3>1, <3>2 DEF Followed, Told
    <3>6. QED
      BY <2>1, <3>1, <3>2, <3>4, <3>5 DEF Followed, Told, Settled
  <2>4. QED
    BY <2>1, <2>2, <2>3, <1>5
<1>10. QED
  BY <1>4, <1>6, <1>7, <1>8, <1>9 DEF ParserNext

LEMMA PlacesStayTyped == ParserInv => ParserTypeOK
<1> SUFFICES ASSUME ParserInv PROVE ParserTypeOK
  OBVIOUS
<1> DEFINE f == Scan(Openers)
           c == Consumed
<1>1. PlacesOK /\ f[c].out = out
  BY DEF ParserInv, Followed, Told
<1>2. IsRead(f)
  BY <1>1, WholeIsRead DEF PlacesOK
<1> HIDE DEF f
<1>3. whole \in Seq(Alphabet) /\ Len(whole) \in Nat /\ c \in Nat /\ Len(text) \in Nat /\ Len(buf) \in Nat
      /\ c = Len(whole) - Len(text) - Len(buf) /\ OnFrom(text, c) /\ OnFrom(buf, c)
  BY <1>1 DEF PlacesOK, OnFrom, Consumed
<1>4. DOMAIN whole = 1 .. Len(whole) /\ DOMAIN text = 1 .. Len(text) /\ DOMAIN buf = 1 .. Len(buf)
  BY <1>3 DEF OnFrom
<1> HIDE DEF c
<1>5. \A p \in DOMAIN text : text[p] \in DOMAIN whole
  BY <1>3, <1>4 DEF OnFrom
<1>6. \A p \in DOMAIN buf : buf[p] \in DOMAIN whole
  BY <1>3, <1>4 DEF OnFrom
<1>7. c \in 0 .. Len(whole)
  BY <1>3
<1>8. out \in Seq(Events(whole))
  BY <1>1, <1>2, <1>7 DEF IsRead, ScanStates
<1>9. \A p \in DOMAIN out : out[p].k \in {"text", "thinking"} /\ out[p].i \in DOMAIN whole
  <2>1. \A p \in DOMAIN out : out[p] \in Events(whole)
    BY <1>8
  <2>2. QED
    BY <2>1, <1>4 DEF Events, Modes
<1>10. QED
  BY <1>1, <1>5, <1>6, <1>9 DEF PlacesOK, ParserTypeOK

LEMMA CutsDoNotMatter == ParserInv => ChunksMakeNoDifference
<1> SUFFICES ASSUME ParserInv, text = <<>> PROVE ChunksMakeNoDifference
  BY DEF ChunksMakeNoDifference
<1> DEFINE f == Scan(Openers)
<1>1. PlacesOK /\ HeldBack /\ Told(f, Consumed)
  BY DEF ParserInv, Followed
<1>2. IsRead(f)
  BY <1>1, WholeIsRead DEF PlacesOK
<1> HIDE DEF f
<1>3. f[Len(whole)].out = out \o As(Mode, buf)
  BY <1>1, <1>2, BufferPasses
<1>4. \A p \in DOMAIN buf : whole[buf[p]] = Awaited[p]
  <2>1. OnFrom(buf, Consumed) /\ \A p \in 1 .. Len(buf) : whole[Consumed + p] = Awaited[p]
    BY <1>1 DEF PlacesOK, HeldBack
  <2>2. DOMAIN buf = 1 .. Len(buf) /\ \A p \in 1 .. Len(buf) : buf[p] = Consumed + p
    BY <2>1 DEF OnFrom
  <2>3. QED
    BY <2>1, <2>2
<1>5. QED
  BY <1>1, <1>3, <1>4 DEF ChunksMakeNoDifference, HeldBack, f

(* A tag that is opened and never closed leaves the scan in it.            *)
LEMMA StaysOpen ==
  ASSUME whole \in Seq(Alphabet), NEW f, Scanned(f, Openers), NEW j \in 1 .. Len(whole),
         f[j].mode = "thinking", f[j].skip = 2, ~ClosedAfter(j)
  PROVE  f[Len(whole)].mode = "thinking"
<1> DEFINE P == {m \in Nat : j + m <= Len(whole) =>
                   f[j + m].mode = "thinking" /\ (m < 2 => f[j + m].skip = 2 - m)}
<1>1. 0 \in P
  <2>1. j + 0 = j
    OBVIOUS
  <2>2. QED
    BY <2>1
<1>2. ASSUME NEW m \in P PROVE m + 1 \in P
  <2> SUFFICES ASSUME j + (m + 1) <= Len(whole)
               PROVE  f[j + (m + 1)].mode = "thinking" /\ (m + 1 < 2 => f[j + (m + 1)].skip = 2 - (m + 1))
    OBVIOUS
  <2> DEFINE k == j + (m + 1)
             s == f[j + m]
             t == f[k]
  <2>1. m \in Nat /\ k \in 1 .. Len(whole) /\ k - 1 = j + m /\ j + m \in 0 .. Len(whole)
    OBVIOUS
  <2>2. s.mode = "thinking" /\ (m < 2 => s.skip = 2 - m)
    BY <2>1
  <2>3. Moves(s, t, k, Openers) /\ s \in ScanStates(whole)
    BY <2>1 DEF Scanned
  <2> HIDE DEF s, t
  <2>4. s.skip = 0 \/ s.skip > 0
    BY <2>3 DEF ScanStates
  <2>5. CASE m < 2
    <3>1. s.skip > 0 /\ s.skip - 1 = 2 - (m + 1)
      BY <2>1, <2>2, <2>5
    <3>2. Skips(s, t)
      BY <3>1, <2>3 DEF Moves
    <3>3. QED
      BY <3>1, <3>2, <2>2 DEF Skips, t, k
  <2>6. CASE ~(m < 2)
    <3>1. k \in j + 3 .. Len(whole) /\ Len(OpenTag) = 3
      BY <2>1, <2>6 DEF OpenTag
    <3>2. ~Occurs(CloseTag, k)
      BY <3>1 DEF ClosedAfter
    <3>3. Skips(s, t) \/ Passes(s, t, k)
      BY <2>2, <2>3, <2>4, <3>2 DEF Moves
    <3>4. t.mode = "thinking"
      BY <3>3, <2>2 DEF Skips, Passes
    <3>5. ~(m + 1 < 2)
      BY <2>1, <2>6
    <3>6. QED
      BY <3>4, <3>5 DEF t, k
  <2>7. QED
    BY <2>5, <2>6
<1>3. P \in SUBSET Nat
  OBVIOUS
<1> HIDE DEF P
<1>4. P = Nat
  BY <1>1, <1>2, <1>3, EveryNumber
<1>5. Len(whole) - j \in Nat /\ j + (Len(whole) - j) = Len(whole) /\ Len(whole) \in Nat
  OBVIOUS
<1>6. Len(whole) - j \in P
  BY <1>4, <1>5
<1>7. QED
  BY <1>5, <1>6 DEF P

LEMMA OnlyClosedCount ==
  ASSUME whole \in Seq(Alphabet), NEW f, Scanned(f, Openers), NEW g, Scanned(g, Closed),
         f[Len(whole)].mode = "text"
  PROVE  g[Len(whole)] = f[Len(whole)]
<1> DEFINE P == {n \in Nat : n <= Len(whole) => g[n] = f[n]}
<1>1. 0 \in P
  BY DEF Scanned
<1>2. ASSUME NEW n \in P PROVE n + 1 \in P
  <2> SUFFICES ASSUME n + 1 <= Len(whole) PROVE g[n + 1] = f[n + 1]
    OBVIOUS
  <2>1. n \in Nat /\ n + 1 \in 1 .. Len(whole) /\ (n + 1) - 1 = n /\ n \in 0 .. Len(whole)
        /\ n + 1 \in 0 .. Len(whole)
    OBVIOUS
  <2>2. g[n] = f[n]
    BY <2>1
  <2> DEFINE s == f[n]
             t == f[n + 1]
             u == g[n + 1]
  <2>3. Moves(s, t, n + 1, Openers) /\ Moves(s, u, n + 1, Closed)
    BY <2>1, <2>2 DEF Scanned
  <2>4. s \in ScanStates(whole) /\ t \in ScanStates(whole) /\ u \in ScanStates(whole)
    BY <2>1 DEF Scanned
  <2>5. n + 1 \in Closed <=> n + 1 \in Openers /\ ClosedAfter(n + 1)
    BY DEF Closed
  <2>6. t.mode = "thinking" /\ t.skip = 2 => ClosedAfter(n + 1)
    BY <2>1, StaysOpen
  <2> HIDE DEF s, t, u
  <2>7. (s.skip = 0 \/ s.skip > 0) /\ (s.mode = "text" \/ s.mode = "thinking")
    BY <2>4 DEF ScanStates, Modes
  <2>8. u.skip = t.skip /\ u.mode = t.mode /\ u.out = t.out
    <3>1. CASE s.skip > 0
      BY <3>1, <2>3 DEF Moves, Skips
    <3>2. CASE s.skip = 0 /\ s.mode = "thinking"
      BY <3>2, <2>3 DEF Moves, Leaves, Passes
    <3>3. CASE s.skip = 0 /\ s.mode = "text" /\ n + 1 \in Openers
      <4>1. Enters(s, t)
        BY <3>3, <2>3 DEF Moves
      <4>2. n + 1 \in Closed
        BY <4>1, <3>3, <2>5, <2>6 DEF Enters
      <4>3. Enters(s, u)
        BY <4>2, <3>3, <2>3 DEF Moves
      <4>4. QED
        BY <4>1, <4>3 DEF Enters
    <3>4. CASE s.skip = 0 /\ s.mode = "text" /\ n + 1 \notin Openers
      <4>1. n + 1 \notin Closed
        BY <3>4, <2>5
      <4>2. QED
        BY <4>1, <3>4, <2>3 DEF Moves, Passes
    <3>5. QED
      BY <2>7, <3>1, <3>2, <3>3, <3>4
  <2>9. t = [mode |-> t.mode, skip |-> t.skip, out |-> t.out] /\ u = [mode |-> u.mode, skip |-> u.skip, out |-> u.out]
    BY <2>4 DEF ScanStates
  <2>10. u = t
    BY <2>8, <2>9
  <2>11. QED
    BY <2>10 DEF u, t
<1>3. P \in SUBSET Nat
  OBVIOUS
<1> HIDE DEF P
<1>4. P = Nat
  BY <1>1, <1>2, <1>3, EveryNumber
<1>5. QED
  BY <1>4 DEF P

LEMMA AnswerIsShown == ParserInv => ShownIsAnswer
<1> SUFFICES ASSUME ParserInv, flushed, ~inThink, ~BareCloser PROVE PlacesOf("text", out) = SplitText
  BY DEF ShownIsAnswer
<1> DEFINE f == Scan(Openers)
           g == Scan(Closed)
<1>1. PlacesOK /\ f[Consumed].mode = Mode /\ f[Consumed].out = out
  BY DEF ParserInv, Followed, Told
<1>2. whole \in Seq(Alphabet) /\ text = <<>> /\ buf = <<>>
  BY <1>1 DEF PlacesOK
<1>3. Consumed = Len(whole)
  BY <1>2 DEF Consumed
<1>4. Mode = "text"
  BY DEF Mode
<1>5. Scanned(f, Openers) /\ Scanned(g, Closed)
  BY <1>2, ScanIsScanned
<1> HIDE DEF f, g
<1>6. g[Len(whole)] = f[Len(whole)]
  BY <1>1, <1>2, <1>3, <1>4, <1>5, OnlyClosedCount
<1>7. Remaining = PlacesOf("text", out)
  <2>1. g[Len(whole)].out = out
    BY <1>1, <1>3, <1>6
  <2>2. Remaining = PlacesOf("text", g[Len(whole)].out)
    BY DEF Remaining, g
  <2>3. QED
    BY <2>1, <2>2
<1>8. QED
  BY <1>7 DEF SplitText

(* However a stream cuts its content into chunks, every byte outside a tag *)
(* is told once, in order, as what it is in the whole, only the beginning  *)
(* of a tag is held back, and what was shown is what is returned: for      *)
(* every content and every cut.                                            *)
THEOREM ParserStaysExact == ParserSpec => []ParserIsExact
<1>1. ParserInv => ParserIsExact
  BY PlacesStayTyped, CutsDoNotMatter, AnswerIsShown DEF ParserIsExact
<1>2. QED
  BY <1>1, ParserBegins, ParserStepKeeps, PTL DEF ParserSpec

-----------------------------------------------------------------------------
(* The session log (SessionLog).                                           *)

USE SessionLogAssumption

(* A length that is neither zero nor one.                                  *)
LEMMA AtLeastTwo ==
  ASSUME NEW n \in Nat, n >= 1, n # 1
  PROVE  n >= 2
OBVIOUS

(* What a write does to the lines, whatever its line is.                   *)
LEMMA BehindLines ==
  ASSUME file \in Seq(LogLine), ragged => file # <<>>, NEW line \in LogLine
  PROVE  /\ Behind(line) \in Seq(LogLine)
         /\ Behind(line) # <<>>
         /\ ragged  => /\ Len(Behind(line)) = Len(file)
                       /\ Behind(line)[Len(file)] = Scrap
                       /\ \A i \in 1 .. Len(file) - 1 : Behind(line)[i] = file[i]
         /\ ~ragged => /\ Len(Behind(line)) = Len(file) + 1
                       /\ Behind(line)[Len(file) + 1] = line
                       /\ \A i \in 1 .. Len(file) : Behind(line)[i] = file[i]
<1>1. Scrap \in LogLine BY DEF Scrap, LogLine
<1>2. CASE ragged
  <2>1. Len(file) \in 1 .. Len(file) BY <1>2
  <2> QED BY <1>1, <1>2, <2>1 DEF Behind
<1>3. CASE ~ragged BY <1>3 DEF Behind
<1> QED BY <1>2, <1>3

LEMMA LinesWritten ==
  ASSUME LogTypeOK
  PROVE  /\ Header \in LogLine /\ Scrap \in LogLine
         /\ ids < MaxEntries => Entry \in LogLine /\ Label \in LogLine /\ ids + 1 \in Ids
BY DEF LogTypeOK, Header, Scrap, Entry, Label, LogLine, Ids

LEMMA TypeInit == LogInit => LogTypeOK
<1> SUFFICES ASSUME LogInit PROVE LogTypeOK OBVIOUS
<1>1. file \in Seq(LogLine) /\ acked \in Seq(Ids) BY DEF LogInit
<1>2. ids \in 0 .. MaxEntries /\ tears \in 0 .. MaxTears BY DEF LogInit
<1> QED BY <1>1, <1>2 DEF LogInit, LogTypeOK

LEMMA TypeStep == LogTypeOK /\ [LogNext]_logVars => LogTypeOK'
<1> SUFFICES ASSUME LogTypeOK, [LogNext]_logVars PROVE LogTypeOK'
  OBVIOUS
<1> USE DEF LogTypeOK
<1>1. CASE Launch \/ Stop \/ Fail BY <1>1 DEF Launch, Stop, Fail
<1>2. CASE OpenNew BY <1>2, Zenon DEF OpenNew
<1>11. CASE OpenRefused BY <1>11, Zenon DEF OpenRefused
<1>3. CASE WriteHeader
  <2>1. Header \in LogLine BY LinesWritten
  <2>2. file' \in Seq(LogLine) /\ file' # <<>> BY <1>3, <2>1, BehindLines DEF WriteHeader
  <2> QED BY <1>3, <2>2 DEF WriteHeader
<1>4. CASE OpenResumed
  <2>1. lastID' \in Ids \cup {NoId}
    <3>1. CASE UNCHANGED lastID BY <3>1
    <3>2. CASE \E k \in 1 .. Len(file) : Carries(file[k]) /\ lastID' = file[k].id
      <4>1. PICK k \in 1 .. Len(file) : Carries(file[k]) /\ lastID' = file[k].id BY <3>2
      <4>2. file[k] \in LogLine OBVIOUS
      <4> QED BY <4>1, <4>2 DEF Carries, LogLine
    <3> QED BY <1>4, <3>1, <3>2 DEF OpenResumed
  <2> QED BY <1>4, <2>1 DEF OpenResumed
<1>5. CASE AppendEntry
  <2>1. Entry \in LogLine /\ ids + 1 \in Ids BY <1>5, LinesWritten DEF AppendEntry
  <2>2. file' \in Seq(LogLine) /\ file' # <<>> BY <1>5, <2>1, BehindLines DEF AppendEntry
  <2>3. ids' \in 0 .. MaxEntries BY <1>5 DEF AppendEntry
  <2>4. acked' \in Seq(Ids) BY <1>5, <2>1 DEF AppendEntry
  <2> QED BY <1>5, <2>1, <2>2, <2>3, <2>4 DEF AppendEntry
<1>6. CASE Rename
  <2>1. Label \in LogLine /\ ids + 1 \in Ids BY <1>6, LinesWritten DEF Rename
  <2>2. file' \in Seq(LogLine) /\ file' # <<>> BY <1>6, <2>1, BehindLines DEF Rename
  <2>3. ids' \in 0 .. MaxEntries BY <1>6 DEF Rename
  <2>4. acked' \in Seq(Ids) BY <1>6, <2>1 DEF Rename
  <2> QED BY <1>6, <2>1, <2>2, <2>3, <2>4 DEF Rename
<1>7. ASSUME NEW line \in LogLine, Tear(line), ids' \in 0 .. MaxEntries, exists
      PROVE  LogTypeOK'
  <2>1. Scrap \in LogLine BY LinesWritten
  <2>2. file' \in Seq(LogLine) /\ file' # <<>> BY <1>7, <2>1, BehindLines DEF Tear
  <2>3. tears' \in 0 .. MaxTears BY <1>7 DEF Tear
  <2> QED BY <1>7, <2>2, <2>3 DEF Tear
<1>8. CASE TearHeader BY <1>7, <1>8, LinesWritten DEF TearHeader
<1>9. CASE TearEntry
  <2>1. Entry \in LogLine BY <1>9, LinesWritten DEF TearEntry
  <2>2. ids' \in 0 .. MaxEntries BY <1>9 DEF TearEntry
  <2> QED BY <1>7, <1>9, <2>1, <2>2 DEF TearEntry
<1>10. CASE UNCHANGED logVars BY <1>10 DEF logVars
<1> QED
  BY <1>1, <1>2, <1>3, <1>4, <1>5, <1>6, <1>8, <1>9, <1>10, <1>11 DEF LogNext, StoreNext

(* Whatever was written, the variables have their types, and a store that  *)
(* writes has its file.                                                    *)
THEOREM TypeCorrect == LogSpec => []LogTypeOK
BY TypeInit, TypeStep, PTL DEF LogSpec
-----------------------------------------------------------------------------
(* The chain.  A line continues it if the store knows the id before it,    *)
(* which it does while every line is whole: a line that was joined to a    *)
(* torn one is behind everything that loads, and whatever is behind it     *)
(* makes the read fail.                                                    *)
Chained(lines) ==
  ~ReadFails(lines) =>
    \A k \in 2 .. Len(lines) :
      lines[k].kind = "entry" => Follows(lines, k, lines[k].parent)

Whole(lines) ==
  /\ lines # <<>> /\ lines[1].kind = "header"
  /\ \A k \in 2 .. Len(lines) : Carries(lines[k])

OneHeader(lines) ==
  lines # <<>> /\ lines[1].kind = "header" =>
    \A k \in 2 .. Len(lines) : lines[k].kind # "header"

HeaderInv ==
  /\ OneHeader(file)
  /\ store = "created" =>
       ~ragged /\ \A k \in 1 .. Len(file) : file[k].kind # "header"

LinkInv ==
  /\ store \in {"lazy", "created"} => lastID = NoId
  /\ store = "open" /\ Whole(file) => Follows(file, Len(file) + 1, lastID)

ChainInv == HeaderInv /\ LinkInv /\ Chained(file)

LEMMA FollowsPrefix ==
  ASSUME NEW f \in Seq(LogLine), NEW g \in Seq(LogLine), NEW k \in Nat, NEW p,
         \A i \in 1 .. k - 1 : g[i] = f[i],
         Follows(f, k, p)
  PROVE  Follows(g, k, p)
<1>1. CASE p = NoId /\ \A j \in 2 .. k - 1 : f[j].kind = "label"
  BY <1>1 DEF Follows
<1>2. CASE \E j \in 2 .. k - 1 :
             /\ Carries(f[j]) /\ f[j].id = p
             /\ \A m \in j + 1 .. k - 1 : f[m].kind = "label"
  <2>1. PICK j \in 2 .. k - 1 :
           /\ Carries(f[j]) /\ f[j].id = p
           /\ \A m \in j + 1 .. k - 1 : f[m].kind = "label"
    BY <1>2
  <2>2. g[j] = f[j] /\ \A m \in j + 1 .. k - 1 : g[m] = f[m] BY <2>1
  <2> QED BY <2>1, <2>2 DEF Follows
<1> QED BY <1>1, <1>2 DEF Follows

LEMMA OneLine ==
  ASSUME NEW f \in Seq(LogLine), f[1].kind = "header" => Len(f) = 1
  PROVE  OneHeader(f)
<1> SUFFICES ASSUME f[1].kind = "header", NEW k \in 2 .. Len(f) PROVE FALSE
  BY DEF OneHeader
<1>1. Len(f) = 1 OBVIOUS
<1>2. k >= 2 /\ k <= Len(f) BY <1>1
<1> QED BY <1>1, <1>2

(* Joining a torn last line spoils that line and no other.                 *)
LEMMA Joined ==
  ASSUME NEW f \in Seq(LogLine), NEW g \in Seq(LogLine), Len(g) = Len(f), f # <<>>,
         g[Len(f)] = Scrap, \A i \in 1 .. Len(f) - 1 : g[i] = f[i],
         Chained(f), OneHeader(f)
  PROVE  Chained(g) /\ OneHeader(g) /\ ~Whole(g)
<1>0. Len(f) \in Nat /\ Len(f) >= 1 OBVIOUS
<1>1. ~Whole(g) BY <1>0 DEF Whole, Carries, Scrap
<1>2. OneHeader(g) BY <1>0 DEF OneHeader, Scrap
<1>3. ASSUME ~ReadFails(g), NEW k \in 2 .. Len(g), g[k].kind = "entry"
      PROVE  Follows(g, k, g[k].parent)
  <2>1. k < Len(f) /\ g[k] = f[k] BY <1>0, <1>3 DEF Scrap
  <2>2. ~ReadFails(f) BY <1>0, <1>3, <2>1 DEF ReadFails
  <2>3. Follows(f, k, g[k].parent) BY <1>3, <2>1, <2>2 DEF Chained
  <2>4. \A i \in 1 .. k - 1 : g[i] = f[i] BY <2>1
  <2>5. k \in Nat BY <1>3
  <2> QED BY <2>3, <2>4, <2>5, FollowsPrefix
<1>4. Chained(g) BY <1>3 DEF Chained
<1> QED BY <1>1, <1>2, <1>4

(* A line that goes behind whole lines extends the chain.                  *)
LEMMA Extended ==
  ASSUME NEW f \in Seq(LogLine), NEW g \in Seq(LogLine), Len(g) = Len(f) + 1,
         \A i \in 1 .. Len(f) : g[i] = f[i],
         Chained(f), OneHeader(f),
         Whole(f) /\ g[Len(f) + 1].kind = "entry" =>
           Follows(f, Len(f) + 1, g[Len(f) + 1].parent)
  PROVE  Chained(g) /\ (Whole(g) /\ g[Len(g)].kind # "header" => Whole(f))
<1>0. Len(f) \in Nat OBVIOUS
<1>1. ASSUME Whole(g), g[Len(g)].kind # "header" PROVE Whole(f)
  BY <1>0, <1>1 DEF Whole
<1>2. ASSUME ~ReadFails(g), NEW k \in 2 .. Len(g), g[k].kind = "entry"
      PROVE  Follows(g, k, g[k].parent)
  <2>1. f # <<>> /\ f[1].kind = "header" BY <1>0, <1>2 DEF ReadFails
  <2>2. \A i \in 2 .. Len(f) : f[i].kind # "scrap" BY <1>0, <1>2 DEF ReadFails
  <2>3. ~ReadFails(f) BY <2>1, <2>2 DEF ReadFails
  <2>4. Follows(f, k, g[k].parent)
    <3>1. CASE k \in 2 .. Len(f)
      <4>1. g[k] = f[k] BY <3>1
      <4> QED BY <1>2, <2>3, <3>1, <4>1 DEF Chained
    <3>2. CASE k = Len(f) + 1
      <4>1. \A i \in 2 .. Len(f) : f[i] \in LogLine /\ f[i].kind # "header"
        BY <2>1 DEF OneHeader
      <4>2. \A i \in 2 .. Len(f) : Carries(f[i]) BY <2>2, <4>1 DEF Carries, LogLine
      <4>3. Whole(f) BY <2>1, <4>2 DEF Whole
      <4> QED BY <1>2, <3>2, <4>3
    <3> QED BY <1>0, <1>2, <3>1, <3>2
  <2>5. \A i \in 1 .. k - 1 : g[i] = f[i] BY <1>0, <1>2
  <2>6. k \in Nat BY <1>0, <1>2
  <2> QED BY <2>4, <2>5, <2>6, FollowsPrefix
<1>3. Chained(g) BY <1>2 DEF Chained
<1> QED BY <1>1, <1>3

LEMMA ChainBehind ==
  ASSUME LogTypeOK, HeaderInv, Chained(file), NEW line \in LogLine,
         Whole(file) /\ line.kind = "entry" => Follows(file, Len(file) + 1, line.parent)
  PROVE  /\ Chained(Behind(line))
         /\ line.kind # "header" => OneHeader(Behind(line))
         /\ Whole(Behind(line)) /\ line.kind # "header" => ~ragged /\ Whole(file)
<1> DEFINE g == Behind(line)
<1>1. file \in Seq(LogLine) /\ (ragged => file # <<>>) BY DEF LogTypeOK
<1>2. g \in Seq(LogLine) BY <1>1, BehindLines
<1>3. CASE ragged
  <2>1. Len(g) = Len(file) /\ g[Len(file)] = Scrap /\ \A i \in 1 .. Len(file) - 1 : g[i] = file[i]
    BY <1>1, <1>3, BehindLines
  <2> HIDE DEF g
  <2>2. Chained(g) /\ OneHeader(g) /\ ~Whole(g)
    BY <1>1, <1>2, <1>3, <2>1, Joined DEF HeaderInv
  <2> QED BY <2>2 DEF g
<1>4. CASE ~ragged
  <2>1. Len(g) = Len(file) + 1 /\ g[Len(file) + 1] = line /\ \A i \in 1 .. Len(file) : g[i] = file[i]
    BY <1>1, <1>4, BehindLines
  <2> HIDE DEF g
  <2>2. Chained(g) /\ (Whole(g) /\ g[Len(g)].kind # "header" => Whole(file))
    BY <1>1, <1>2, <2>1, Extended DEF HeaderInv
  <2>3. ASSUME line.kind # "header" PROVE OneHeader(g)
    BY <1>1, <2>1, <2>3 DEF HeaderInv, OneHeader
  <2> QED BY <1>4, <2>1, <2>2, <2>3 DEF g
<1> QED BY <1>3, <1>4

LEMMA ChainInit == LogInit => ChainInv
<1> SUFFICES ASSUME LogInit PROVE ChainInv OBVIOUS
<1>1. Len(file) = 0 /\ file = <<>> BY DEF LogInit
<1>2. HeaderInv BY <1>1 DEF LogInit, HeaderInv, OneHeader
<1>3. LinkInv BY DEF LogInit, LinkInv
<1>4. Chained(file) BY <1>1 DEF Chained
<1> QED BY <1>2, <1>3, <1>4 DEF ChainInv

LEMMA ChainStep == LogTypeOK /\ ChainInv /\ [LogNext]_logVars => ChainInv'
<1> SUFFICES ASSUME LogTypeOK, ChainInv, [LogNext]_logVars PROVE ChainInv'
  OBVIOUS
<1>0. HeaderInv /\ LinkInv /\ Chained(file) BY DEF ChainInv
<1>1. CASE Launch \/ Stop \/ Fail \/ OpenRefused \/ UNCHANGED logVars
  <2>1. file' = file /\ ragged' = ragged
    BY <1>1 DEF Launch, Stop, Fail, OpenRefused, logVars
  <2>2. HeaderInv' BY <1>0, <1>1, <2>1 DEF HeaderInv, Launch, Stop, Fail, OpenRefused, logVars
  <2>3. LinkInv' BY <1>0, <1>1, <2>1 DEF LinkInv, Launch, Stop, Fail, OpenRefused, logVars
  <2> QED BY <1>0, <2>1, <2>2, <2>3 DEF ChainInv
<1>2. CASE OpenNew
  <2>1. file' = file /\ file = <<>> /\ ~ragged' BY <1>2 DEF OpenNew, LogTypeOK
  <2>2. HeaderInv' BY <2>1 DEF HeaderInv, OneHeader
  <2>3. LinkInv' BY <1>0, <1>2 DEF LinkInv, OpenNew
  <2> QED BY <1>0, <2>1, <2>2, <2>3 DEF ChainInv
<1>3. CASE WriteHeader
  <2>1. file' = Behind(Header) /\ Header \in LogLine BY <1>3, LinesWritten DEF WriteHeader
  <2>2. Header.kind = "header" BY DEF Header
  <2>3. Chained(file') BY <1>0, <2>1, <2>2, ChainBehind
  <2>4. ~ragged /\ (\A k \in 1 .. Len(file) : file[k].kind # "header") /\ lastID = NoId
    BY <1>0, <1>3 DEF HeaderInv, LinkInv, WriteHeader
  <2>5. /\ file' \in Seq(LogLine) /\ Len(file') = Len(file) + 1 /\ file'[Len(file) + 1] = Header
        /\ \A i \in 1 .. Len(file) : file'[i] = file[i]
    BY <2>1, <2>4, BehindLines DEF LogTypeOK
  <2>6. Len(file) \in Nat BY DEF LogTypeOK
  <2>7. OneHeader(file')
    <3> DEFINE g == file'
    <3>1. g \in Seq(LogLine) /\ (g[1].kind = "header" => Len(g) = 1) BY <2>4, <2>5, <2>6
    <3> HIDE DEF g
    <3>2. OneHeader(g) BY <3>1, OneLine
    <3> QED BY <3>2 DEF g
  <2>8. Whole(file') => Len(file) = 0 BY <2>4, <2>5, <2>6 DEF Whole
  <2>9. Len(file) = 0 => Follows(file', Len(file') + 1, NoId) BY <2>5, <2>6 DEF Follows
  <2>10. HeaderInv' BY <1>3, <2>7 DEF HeaderInv, WriteHeader
  <2>11. LinkInv' BY <1>3, <2>4, <2>8, <2>9 DEF LinkInv, WriteHeader
  <2> QED BY <2>3, <2>10, <2>11 DEF ChainInv
<1>4. CASE OpenResumed
  <2>1. file' = file /\ ragged' = ragged BY <1>4 DEF OpenResumed
  <2>2. HeaderInv' BY <1>0, <1>4, <2>1 DEF HeaderInv, OpenResumed
  <2>3. ASSUME Whole(file) PROVE Follows(file, Len(file) + 1, lastID')
    <3>0. Len(file) \in Nat /\ Len(file) >= 1 BY <2>3 DEF Whole, LogTypeOK
    <3>1. CASE \A k \in 1 .. Len(file) : ~Carries(file[k])
      <4>1. lastID' = NoId BY <1>0, <1>4, <3>1 DEF LinkInv, OpenResumed
      <4>2. Len(file) = 1
        <5>1. ASSUME Len(file) # 1 PROVE FALSE
          <6>1. Len(file) >= 2 BY <3>0, <5>1, AtLeastTwo
          <6>2. 2 \in 2 .. Len(file) /\ 2 \in 1 .. Len(file) BY <3>0, <6>1
          <6> QED BY <2>3, <3>1, <6>2 DEF Whole
        <5> QED BY <5>1
      <4> QED BY <4>1, <4>2 DEF Follows
    <3>2. ASSUME NEW k \in 1 .. Len(file), Carries(file[k]),
                 \A m \in k + 1 .. Len(file) : ~Carries(file[m]), lastID' = file[k].id
          PROVE  Follows(file, Len(file) + 1, lastID')
      <4>1. k # 1 BY <2>3, <3>2 DEF Whole, Carries
      <4>2. k = Len(file) BY <2>3, <3>0, <3>2 DEF Whole
      <4> QED BY <3>0, <3>2, <4>1, <4>2 DEF Follows
    <3> QED BY <1>4, <3>1, <3>2 DEF OpenResumed
  <2>4. LinkInv' BY <1>4, <2>1, <2>3 DEF LinkInv, OpenResumed
  <2> QED BY <1>0, <2>1, <2>2, <2>4 DEF ChainInv
<1>5. CASE AppendEntry
  <2>1. file' = Behind(Entry) /\ Entry \in LogLine BY <1>5, LinesWritten DEF AppendEntry
  <2>2. Entry.kind = "entry" /\ Entry.parent = lastID /\ Entry.id = lastID' BY <1>5 DEF Entry, AppendEntry
  <2>3. Whole(file) => Follows(file, Len(file) + 1, lastID) BY <1>0, <1>5 DEF LinkInv, AppendEntry
  <2>4. /\ Chained(file') /\ OneHeader(file')
        /\ Whole(file') => ~ragged /\ Whole(file)
    BY <1>0, <2>1, <2>2, <2>3, ChainBehind
  <2>5. ASSUME Whole(file') PROVE Follows(file', Len(file') + 1, lastID')
    <3>1. Len(file') = Len(file) + 1 /\ file'[Len(file) + 1] = Entry
      BY <2>1, <2>4, <2>5, BehindLines DEF LogTypeOK
    <3>2. Len(file) \in Nat /\ Len(file) >= 1 BY <2>4, <2>5 DEF Whole, LogTypeOK
    <3> QED BY <2>2, <3>1, <3>2 DEF Follows, Carries
  <2>6. HeaderInv' BY <1>5, <2>4 DEF HeaderInv, AppendEntry
  <2>7. LinkInv' BY <1>5, <2>5 DEF LinkInv, AppendEntry
  <2> QED BY <2>4, <2>6, <2>7 DEF ChainInv
<1>6. CASE Rename
  <2>1. file' = Behind(Label) /\ Label \in LogLine BY <1>6, LinesWritten DEF Rename
  <2>2. Label.kind = "label" BY DEF Label
  <2>3. /\ Chained(file') /\ OneHeader(file')
        /\ Whole(file') => ~ragged /\ Whole(file)
    BY <1>0, <2>1, <2>2, ChainBehind
  <2>4. store = "created" => \A k \in 1 .. Len(file') : file'[k].kind # "header"
    <3>1. SUFFICES ASSUME store = "created"
                   PROVE  \A k \in 1 .. Len(file') : file'[k].kind # "header"
      OBVIOUS
    <3>2. ~ragged /\ \A k \in 1 .. Len(file) : file[k].kind # "header" BY <1>0, <3>1 DEF HeaderInv
    <3>3. /\ Len(file') = Len(file) + 1 /\ file'[Len(file) + 1] = Label
          /\ \A i \in 1 .. Len(file) : file'[i] = file[i]
      BY <2>1, <3>2, BehindLines DEF LogTypeOK
    <3>4. Len(file) \in Nat BY DEF LogTypeOK
    <3> QED BY <2>2, <3>2, <3>3, <3>4
  <2>5. HeaderInv' BY <1>6, <2>3, <2>4 DEF HeaderInv, Rename
  <2>6. ASSUME store = "open", Whole(file') PROVE Follows(file', Len(file') + 1, lastID)
    <3>1. /\ Len(file') = Len(file) + 1 /\ file'[Len(file) + 1] = Label
          /\ \A i \in 1 .. Len(file) : file'[i] = file[i]
      BY <2>1, <2>3, <2>6, BehindLines DEF LogTypeOK
    <3>2. Len(file) \in Nat BY DEF LogTypeOK
    <3>3. Follows(file, Len(file) + 1, lastID) BY <1>0, <2>3, <2>6 DEF LinkInv
    <3>4. CASE lastID = NoId /\ \A j \in 2 .. Len(file) : file[j].kind = "label"
      BY <2>2, <3>1, <3>2, <3>4 DEF Follows
    <3>5. ASSUME NEW j \in 2 .. Len(file), Carries(file[j]), file[j].id = lastID,
                 \A m \in j + 1 .. Len(file) : file[m].kind = "label"
          PROVE  Follows(file', Len(file') + 1, lastID)
      <4>1. j \in 2 .. Len(file') /\ file'[j] = file[j] BY <3>1, <3>2
      <4>2. \A m \in j + 1 .. Len(file') : file'[m].kind = "label" BY <2>2, <3>1, <3>2, <3>5
      <4> QED BY <3>1, <3>2, <3>5, <4>1, <4>2 DEF Follows
    <3> QED BY <3>2, <3>3, <3>4, <3>5 DEF Follows
  <2>7. LinkInv' BY <1>0, <1>6, <2>6 DEF LinkInv, Rename
  <2> QED BY <2>3, <2>5, <2>7 DEF ChainInv
<1>7. ASSUME NEW line \in LogLine, Tear(line), line.kind = "header" => \A k \in 1 .. Len(file) : file[k].kind # "header",
             line.kind = "entry" /\ Whole(file) => Follows(file, Len(file) + 1, line.parent)
      PROVE  ChainInv'
  <2>1. Scrap \in LogLine /\ Scrap.kind = "scrap" BY LinesWritten DEF Scrap
  <2>2. Chained(Behind(line)) /\ Chained(Behind(Scrap)) /\ OneHeader(Behind(Scrap))
    BY <1>0, <1>7, <2>1, ChainBehind
  <2>3. OneHeader(Behind(line))
    <3>1. CASE line.kind # "header" BY <1>0, <1>7, <3>1, ChainBehind
    <3>2. CASE line.kind = "header"
      <4> DEFINE g == Behind(line)
      <4>1. file \in Seq(LogLine) /\ Len(file) \in Nat /\ (ragged => file # <<>>) BY DEF LogTypeOK
      <4>2. \A k \in 1 .. Len(file) : file[k].kind # "header" BY <1>7, <3>2
      <4>3. CASE ragged
        <5>1. Len(g) = Len(file) /\ g[Len(file)] = Scrap /\ \A i \in 1 .. Len(file) - 1 : g[i] = file[i]
          BY <4>1, <4>3, BehindLines
        <5> HIDE DEF g
        <5>2. \A k \in 1 .. Len(g) : g[k].kind # "header" BY <2>1, <4>1, <4>2, <5>1
        <5>3. OneHeader(g) BY <4>1, <5>1, <5>2 DEF OneHeader
        <5> QED BY <5>3 DEF g
      <4>4. CASE ~ragged
        <5>1. Len(g) = Len(file) + 1 /\ \A i \in 1 .. Len(file) : g[i] = file[i]
          BY <4>1, <4>4, BehindLines
        <5> HIDE DEF g
        <5>2. OneHeader(g)
          <6> SUFFICES ASSUME g # <<>>, g[1].kind = "header", NEW k \in 2 .. Len(g)
                       PROVE  g[k].kind # "header"
            BY DEF OneHeader
          <6>1. Len(g) = 1 BY <4>1, <4>2, <5>1
          <6> QED BY <6>1
        <5> QED BY <5>2 DEF g
      <4> QED BY <4>3, <4>4
    <3> QED BY <3>1, <3>2
  <2>4. Chained(file') /\ OneHeader(file') BY <1>7, <2>2, <2>3 DEF Tear
  <2>5. HeaderInv' BY <1>7, <2>4 DEF HeaderInv, Tear
  <2>6. LinkInv' BY <1>7 DEF LinkInv, Tear
  <2> QED BY <2>4, <2>5, <2>6 DEF ChainInv
<1>8. CASE TearHeader
  <2>1. Header \in LogLine /\ Header.kind = "header" BY LinesWritten DEF Header
  <2>2. \A k \in 1 .. Len(file) : file[k].kind # "header" BY <1>0, <1>8 DEF HeaderInv, TearHeader
  <2> QED BY <1>7, <1>8, <2>1, <2>2 DEF TearHeader
<1>9. CASE TearEntry
  <2>1. Entry \in LogLine /\ Entry.kind = "entry" /\ Entry.parent = lastID
    BY <1>9, LinesWritten DEF TearEntry, Entry
  <2>2. Whole(file) => Follows(file, Len(file) + 1, Entry.parent)
    BY <1>0, <1>9, <2>1 DEF LinkInv, TearEntry
  <2> QED BY <1>7, <1>9, <2>1, <2>2 DEF TearEntry
<1> QED
  BY <1>1, <1>2, <1>3, <1>4, <1>5, <1>6, <1>8, <1>9 DEF LogNext, StoreNext

(* The entries of a file that loads form one chain, over any number of     *)
(* restarts, renames and torn writes.                                      *)
THEOREM EntriesAreChained == LogSpec => []OneChain
<1>1. ChainInv => OneChain BY DEF ChainInv, Chained, OneChain
<1> QED BY <1>1, TypeInit, TypeStep, ChainInit, ChainStep, PTL DEF LogSpec
-----------------------------------------------------------------------------
(* Acknowledged entries.  Until something is written behind a torn line,   *)
(* only the last line can be torn, and it was never acknowledged.          *)
Undamaged == tears = 0 \/ (tears = 1 /\ ragged)

Kept(lines, open, id) ==
  \E k \in 1 .. Len(lines) :
    /\ Carries(lines[k]) /\ lines[k].id = id
    /\ k = Len(lines) => ~open

AckInv ==
  /\ tears = 0 => ~ragged
  /\ Undamaged =>
       /\ \A k \in 1 .. Len(file) : file[k].kind = "scrap" => k = Len(file) /\ ragged
       /\ \A i \in 1 .. Len(acked) : Kept(file, ragged, acked[i])

LEMMA AckInit == LogInit => AckInv
<1> SUFFICES ASSUME LogInit PROVE AckInv OBVIOUS
<1>1. Len(file) = 0 /\ Len(acked) = 0 /\ ~ragged BY DEF LogInit
<1> QED BY <1>1 DEF AckInv

(* A line behind whole lines: what was kept is kept, whether or not the    *)
(* new line gets its end.                                                  *)
LEMMA KeptBehind ==
  ASSUME LogTypeOK, AckInv, tears = 0, NEW line \in LogLine
  PROVE  /\ Len(file) \in Nat
         /\ Len(Behind(line)) = Len(file) + 1 /\ Behind(line)[Len(file) + 1] = line
         /\ \A k \in 1 .. Len(file) : Behind(line)[k].kind # "scrap"
         /\ \A i \in 1 .. Len(acked), open \in BOOLEAN : Kept(Behind(line), open, acked[i])
<1> DEFINE g == Behind(line)
<1>1. ~ragged /\ Len(file) \in Nat /\ Undamaged BY DEF AckInv, LogTypeOK, Undamaged
<1>2. Len(g) = Len(file) + 1 /\ g[Len(file) + 1] = line /\ \A k \in 1 .. Len(file) : g[k] = file[k]
  BY <1>1, BehindLines DEF LogTypeOK
<1> HIDE DEF g
<1>3. \A k \in 1 .. Len(file) : g[k].kind # "scrap" BY <1>1, <1>2 DEF AckInv
<1>4. ASSUME NEW i \in 1 .. Len(acked), NEW open \in BOOLEAN PROVE Kept(g, open, acked[i])
  <2>1. PICK k \in 1 .. Len(file) : Carries(file[k]) /\ file[k].id = acked[i]
    BY <1>1 DEF AckInv, Kept
  <2>2. k \in 1 .. Len(g) /\ g[k] = file[k] /\ k # Len(g) BY <1>1, <1>2
  <2> QED BY <2>1, <2>2 DEF Kept
<1> QED BY <1>1, <1>2, <1>3, <1>4 DEF g

LEMMA AckStep == LogTypeOK /\ AckInv /\ [LogNext]_logVars => AckInv'
<1> SUFFICES ASSUME LogTypeOK, AckInv, [LogNext]_logVars PROVE AckInv'
  OBVIOUS
<1>1. CASE Launch \/ Stop \/ Fail \/ OpenNew \/ OpenResumed \/ OpenRefused \/ UNCHANGED logVars
  <2>1. UNCHANGED <<file, ragged, acked, tears>>
    BY <1>1 DEF Launch, Stop, Fail, OpenNew, OpenResumed, OpenRefused, logVars
  <2> QED BY <2>1 DEF AckInv, Undamaged
<1>2. ASSUME NEW line \in LogLine, file' = Behind(line), line.kind # "scrap", ragged' = FALSE, tears' = tears,
             \/ acked' = acked
             \/ Carries(line) /\ acked' = Append(acked, line.id)
      PROVE  AckInv'
  <2>1. SUFFICES ASSUME tears = 0
                 PROVE  /\ \A k \in 1 .. Len(file') : file'[k].kind # "scrap"
                        /\ \A i \in 1 .. Len(acked') : Kept(file', FALSE, acked'[i])
    BY <1>2 DEF AckInv, Undamaged
  <2>2. /\ Len(file) \in Nat
        /\ Len(file') = Len(file) + 1 /\ file'[Len(file) + 1] = line
        /\ \A k \in 1 .. Len(file) : file'[k].kind # "scrap"
        /\ \A i \in 1 .. Len(acked) : Kept(file', FALSE, acked[i])
    BY <1>2, <2>1, KeptBehind
  <2>3. \A k \in 1 .. Len(file') : file'[k].kind # "scrap" BY <1>2, <2>2
  <2>4. ASSUME NEW i \in 1 .. Len(acked') PROVE Kept(file', FALSE, acked'[i])
    <3>1. CASE acked' = acked BY <2>2, <2>4, <3>1
    <3>2. CASE Carries(line) /\ acked' = Append(acked, line.id)
      <4>1. acked \in Seq(Ids) /\ Len(acked) \in Nat BY DEF LogTypeOK
      <4>2. CASE i \in 1 .. Len(acked)
        <5>1. acked'[i] = acked[i] BY <3>2, <4>1, <4>2
        <5> QED BY <2>2, <4>2, <5>1
      <4>3. CASE i = Len(acked) + 1
        <5>1. acked'[i] = line.id BY <3>2, <4>1, <4>3
        <5>2. Len(file) + 1 \in 1 .. Len(file') BY <2>2
        <5> QED BY <2>2, <3>2, <5>1, <5>2 DEF Kept
      <4>4. Len(acked') = Len(acked) + 1 BY <3>2, <4>1
      <4>5. i \in 1 .. Len(acked) \/ i = Len(acked) + 1 BY <2>4, <4>1, <4>4
      <4> QED BY <4>2, <4>3, <4>5
    <3> QED BY <1>2, <3>1, <3>2
  <2> QED BY <2>3, <2>4
<1>3. ASSUME NEW line \in LogLine, Tear(line), line.kind # "scrap" PROVE AckInv'
  <2>1. ragged' = TRUE /\ tears' = tears + 1 /\ acked' = acked /\ tears \in Nat
    BY <1>3 DEF Tear, LogTypeOK
  <2>2. SUFFICES ASSUME tears = 0
                 PROVE  /\ \A k \in 1 .. Len(file') : file'[k].kind = "scrap" => k = Len(file')
                        /\ \A i \in 1 .. Len(acked) : Kept(file', ragged', acked[i])
    <3>1. tears' # 0 BY <2>1
    <3>2. Undamaged' => tears = 0 BY <2>1 DEF Undamaged
    <3> QED BY <2>1, <3>1, <3>2 DEF AckInv
  <2>3. ASSUME NEW piece \in {line, Scrap}
        PROVE  /\ Len(file) \in Nat /\ Len(Behind(piece)) = Len(file) + 1
               /\ \A k \in 1 .. Len(file) : Behind(piece)[k].kind # "scrap"
               /\ \A i \in 1 .. Len(acked) : Kept(Behind(piece), ragged', acked[i])
    <3>1. piece \in LogLine BY <2>3, LinesWritten
    <3>2. ragged' \in BOOLEAN BY <2>1
    <3> QED BY <2>2, <3>1, <3>2, KeptBehind
  <2>4. PICK piece \in {line, Scrap} : file' = Behind(piece) BY <1>3 DEF Tear
  <2>5. /\ Len(file) \in Nat /\ Len(file') = Len(file) + 1
        /\ \A k \in 1 .. Len(file) : file'[k].kind # "scrap"
        /\ \A i \in 1 .. Len(acked) : Kept(file', ragged', acked[i])
    BY <2>3, <2>4
  <2>6. ASSUME NEW k \in 1 .. Len(file'), file'[k].kind = "scrap" PROVE k = Len(file')
    <3>1. k \notin 1 .. Len(file) BY <2>5, <2>6
    <3> QED BY <2>5, <3>1
  <2> QED BY <2>5, <2>6
<1>4. CASE WriteHeader
  BY <1>2, <1>4, LinesWritten DEF WriteHeader, Header
<1>5. CASE AppendEntry
  <2>1. Entry \in LogLine /\ Carries(Entry) /\ Entry.kind # "scrap" /\ Entry.id = ids + 1
    BY <1>5, LinesWritten DEF AppendEntry, Entry, Carries
  <2> QED BY <1>2, <1>5, <2>1 DEF AppendEntry
<1>6. CASE Rename
  <2>1. Label \in LogLine /\ Carries(Label) /\ Label.kind # "scrap" /\ Label.id = ids + 1
    BY <1>6, LinesWritten DEF Rename, Label, Carries
  <2> QED BY <1>2, <1>6, <2>1 DEF Rename
<1>7. CASE TearHeader
  BY <1>3, <1>7, LinesWritten DEF TearHeader, Header
<1>8. CASE TearEntry
  <2>1. Entry \in LogLine /\ Entry.kind # "scrap" BY <1>8, LinesWritten DEF TearEntry, Entry
  <2> QED BY <1>3, <1>8, <2>1 DEF TearEntry
<1> QED
  BY <1>1, <1>4, <1>5, <1>6, <1>7, <1>8 DEF LogNext, StoreNext

(* Until something is written behind a torn line, every acknowledged entry *)
(* of a file with a header is loaded again.                                *)
THEOREM AcknowledgedEntriesLoad == LogSpec => []AckedSurvive
<1>1. ASSUME LogTypeOK, AckInv, Headed, Undamaged
      PROVE  ~ReadFails(file) /\ \A i \in 1 .. Len(acked) : acked[i] \in LoadedIds
  <2>1. Len(file) \in Nat BY DEF LogTypeOK
  <2>2. ~ReadFails(file) BY <1>1, <2>1 DEF AckInv, Headed, ReadFails
  <2>3. \A i \in 1 .. Len(acked) : acked[i] \in LoadedIds
    BY <1>1 DEF AckInv, Kept, LoadedIds
  <2> QED BY <2>2, <2>3
<1>2. LogTypeOK /\ AckInv => AckedSurvive BY <1>1 DEF AckedSurvive, Undamaged
<1> QED BY <1>2, TypeInit, TypeStep, AckInit, AckStep, PTL DEF LogSpec

(* Whatever was acknowledged survives any crash, in one chain.             *)
THEOREM LogSound == LogSpec => []LogIsSound
BY TypeCorrect, AcknowledgedEntriesLoad, EntriesAreChained, PTL DEF LogIsSound
-----------------------------------------------------------------------------
(* The plan (TodoPlan).                                                    *)

Waitable == ToSet(NewIds) \cup UNION {Prefixes(NewIds[i]) : i \in DOMAIN NewIds}

TaskRecords ==
  [id : ToSet(NewIds), status : Statuses \cup {"pending"}, dependsOn : Seq(Waitable),
   priority : Priorities \cup {item.priority : item \in Items} \cup {"medium"}]

(* Tasks have ids that were drawn, each its own.                           *)
PlanInv ==
  /\ tasks \in Seq(TaskRecords) /\ fresh \in 1 .. Len(NewIds) + 1
  /\ \A i \in DOMAIN tasks : \E k \in 1 .. fresh - 1 : tasks[i].id = NewIds[k]
  /\ \A i, j \in DOMAIN tasks : tasks[i].id = tasks[j].id => i = j

LEMMA NewTask ==
  ASSUME NEW id \in ToSet(NewIds), NEW deps \in Seq(Waitable),
         NEW p \in Priorities \cup {item.priority : item \in Items}
  PROVE  Task(id, p, deps) \in TaskRecords /\ Task(id, p, deps).id = id
BY DEF Task, TaskRecords

LEMMA PlanTypesHold == PlanSpec => []PlanInv
<1> USE PlanAssumption
<1>a. /\ Len(NewIds) \in Nat /\ DOMAIN NewIds = 1 .. Len(NewIds)
      /\ \A k \in 1 .. Len(NewIds) : NewIds[k] \in ToSet(NewIds) /\ NewIds[k] \in Waitable
  BY DEF ToSet, Waitable
<1>b. \A k, m \in 1 .. Len(NewIds) : NewIds[k] = NewIds[m] => k = m
  BY <1>a
<1>1. PlanInit => PlanInv
  BY <1>a DEF PlanInit, PlanInv
<1>2. PlanInv /\ [PlanNext]_planVars => PlanInv'
  <2> SUFFICES ASSUME PlanInv, [PlanNext]_planVars PROVE PlanInv'
    OBVIOUS
  <2> USE <1>a
  <2>a. tasks \in Seq(TaskRecords) /\ fresh \in 1 .. Len(NewIds) + 1
    BY DEF PlanInv
  <2>1. ASSUME NEW n \in 1 .. MaxWritten, NEW items \in [1 .. n -> Items], TodoWrite(items) PROVE PlanInv'
    <3> DEFINE new(i) == NewIds[fresh + i - 1]
               made == [i \in 1 .. n |-> Task(new(i), items[i].priority,
                             [k \in DOMAIN items[i].dependsOn |-> new(items[i].dependsOn[k] + 1)])]
    <3>1. items \in Seq(Items) /\ Len(items) = n /\ n \in Nat
      OBVIOUS
    <3>2. fresh' = fresh + n /\ fresh' \in 1 .. Len(NewIds) + 1
      <4>1. fresh + n - 1 <= Len(NewIds) /\ fresh' = fresh + n
        BY <2>1, <3>1 DEF TodoWrite
      <4>2. QED
        BY <4>1, <2>a, <3>1
    <3>3. CASE UNCHANGED tasks
      <4>1. \A i \in DOMAIN tasks : \E k \in 1 .. fresh' - 1 : tasks[i].id = NewIds[k]
        <5>1. 1 .. fresh - 1 \subseteq 1 .. fresh' - 1
          BY <2>a, <3>1, <3>2
        <5>2. QED
          BY <5>1 DEF PlanInv
      <4>2. QED
        BY <3>2, <3>3, <4>1 DEF PlanInv
    <3>4. CASE /\ \A i \in 1 .. n : \A d \in ToSet(items[i].dependsOn) : d \in (0 .. n - 1) \ {i - 1}
               /\ tasks' = made
      <4>1. \A i \in 1 .. n : new(i) \in ToSet(NewIds) /\ new(i) \in Waitable /\ fresh + i - 1 \in 1 .. fresh' - 1
        BY <2>a, <3>1, <3>2
      <4>2. ASSUME NEW i \in 1 .. n
            PROVE  made[i] \in TaskRecords /\ made[i].id = new(i)
        <5> DEFINE given == items[i].dependsOn
                   deps == [k \in DOMAIN given |-> new(given[k] + 1)]
        <5>1. given \in Seq(Int) /\ items[i] \in Items
          OBVIOUS
        <5>2. \A k \in DOMAIN given : given[k] + 1 \in 1 .. n
          <6>1. ASSUME NEW k \in DOMAIN given PROVE given[k] + 1 \in 1 .. n
            <7>1. given[k] \in ToSet(given)
              BY DEF ToSet
            <7>2. given[k] \in 0 .. n - 1
              BY <3>4, <7>1
            <7>3. QED
              BY <7>2, <3>1
          <6>2. QED
            BY <6>1
        <5>3. \A k \in DOMAIN given : new(given[k] + 1) \in Waitable
          BY <4>1, <5>2
        <5>4. deps \in Seq(Waitable)
          <6> HIDE DEF new, given
          <6>1. PICK m \in Nat : DOMAIN given = 1 .. m
            BY <5>1
          <6>2. deps \in [1 .. m -> Waitable]
            BY <5>3, <6>1
          <6> HIDE DEF deps
          <6>3. QED
            BY <6>1, <6>2
        <5>5. new(i) \in ToSet(NewIds)
          <6> HIDE DEF new
          <6>1. QED
            BY <4>1
        <5>6. made[i] = Task(new(i), items[i].priority, deps)
          OBVIOUS
        <5>7. items[i].priority \in Priorities \cup {item.priority : item \in Items}
          BY <5>1
        <5> HIDE DEF new, deps, made
        <5>8. QED
          BY <5>4, <5>5, <5>6, <5>7, NewTask
      <4>3. made \in Seq(TaskRecords) /\ DOMAIN made = 1 .. n
        <5>1. DOMAIN made = 1 .. n
          OBVIOUS
        <5>2. \A i \in 1 .. n : made[i] \in TaskRecords
          BY <4>2
        <5>3. made = [i \in 1 .. n |-> made[i]]
          OBVIOUS
        <5> HIDE DEF made
        <5>4. made \in [1 .. n -> TaskRecords]
          BY <5>2, <5>3
        <5>5. QED
          BY <5>1, <5>4, <3>1
      <4>4. \A i \in 1 .. n : made[i].id = NewIds[fresh + i - 1]
        BY <4>2
      <4> HIDE DEF made, new
      <4>5. \A i \in 1 .. n : \E k \in 1 .. fresh' - 1 : made[i].id = NewIds[k]
        BY <4>1, <4>4
      <4>6. \A i, j \in 1 .. n : made[i].id = made[j].id => i = j
        <5>1. ASSUME NEW i \in 1 .. n, NEW j \in 1 .. n, made[i].id = made[j].id PROVE i = j
          <6>1. fresh + i - 1 \in DOMAIN NewIds /\ fresh + j - 1 \in DOMAIN NewIds
            BY <2>a, <3>1, <3>2
          <6>2. fresh + i - 1 = fresh + j - 1
            BY <4>4, <5>1, <6>1, <1>a, <1>b
          <6>3. QED
            BY <6>2, <2>a, <3>1
        <5>2. QED
          BY <5>1
      <4>7. QED
        BY <3>2, <3>4, <4>3, <4>5, <4>6 DEF PlanInv
    <3>5. QED
      BY <2>1, <3>1, <3>3, <3>4 DEF TodoWrite
  <2>2. ASSUME NEW n \in 0 .. MaxWaits, NEW deps \in [1 .. n -> References], NEW p \in Priorities,
               TodoCreate(deps, p)
        PROVE  PlanInv'
    <3> DEFINE task == Task(NewIds[fresh], p, deps)
    <3>1. References \subseteq Waitable
      <4>1. ASSUME NEW i \in 1 .. fresh - 1 PROVE Prefixes(NewIds[i]) \subseteq Waitable
        <5>1. i \in DOMAIN NewIds
          BY <2>a
        <5>2. QED
          BY <5>1 DEF Waitable
      <4>2. QED
        BY <4>1 DEF References
    <3>2. deps \in Seq(Waitable)
      BY <3>1
    <3>3. fresh \in 1 .. Len(NewIds) /\ fresh' = fresh + 1 /\ tasks' = Append(tasks, task)
      BY <2>2, <2>a DEF TodoCreate
    <3>4. task \in TaskRecords /\ task.id = NewIds[fresh]
      BY <3>2, <3>3, NewTask
    <3> HIDE DEF task
    <3>5. tasks' \in Seq(TaskRecords) /\ Len(tasks') = Len(tasks) + 1
      BY <2>a, <3>3, <3>4
    <3>6. \A i \in DOMAIN tasks : \E k \in 1 .. fresh - 1 : tasks[i].id = NewIds[k]
      BY DEF PlanInv
    <3>7. ASSUME NEW i \in DOMAIN tasks' 
          PROVE  \/ i \in DOMAIN tasks /\ tasks'[i] = tasks[i]
                 \/ i = Len(tasks) + 1 /\ tasks'[i] = task
      BY <2>a, <3>3, <3>4
    <3>8. \A i \in DOMAIN tasks' : \E k \in 1 .. fresh' - 1 : tasks'[i].id = NewIds[k]
      <4>1. 1 .. fresh - 1 \subseteq 1 .. fresh' - 1 /\ fresh \in 1 .. fresh' - 1
        BY <3>3
      <4>2. QED
        BY <3>4, <3>6, <3>7, <4>1
    <3>9. \A i \in DOMAIN tasks : tasks[i].id # task.id
      <4>1. \A k \in 1 .. fresh - 1 : k \in DOMAIN NewIds /\ k # fresh /\ fresh \in DOMAIN NewIds
        BY <3>3
      <4>2. QED
        BY <3>4, <3>6, <4>1
    <3>10. \A i, j \in DOMAIN tasks' : tasks'[i].id = tasks'[j].id => i = j
      BY <3>7, <3>9 DEF PlanInv
    <3>11. fresh' \in 1 .. Len(NewIds) + 1
      BY <3>3
    <3>12. QED
      BY <3>5, <3>8, <3>10, <3>11 DEF PlanInv
  <2>3. ASSUME NEW r \in References, NEW s \in Statuses, TodoUpdate(r, s) PROVE PlanInv'
    <3>1. tasks' = Updated(r, s) /\ fresh' = fresh
      BY <2>3 DEF TodoUpdate
    <3>2. ASSUME NEW i \in DOMAIN tasks
          PROVE  Updated(r, s)[i] \in TaskRecords /\ Updated(r, s)[i].id = tasks[i].id
      <4>1. tasks[i] \in TaskRecords
        BY <2>a
      <4>2. QED
        BY <4>1 DEF Updated, TaskRecords
    <3>3. DOMAIN Updated(r, s) = DOMAIN tasks /\ DOMAIN tasks = 1 .. Len(tasks) /\ Len(tasks) \in Nat
      BY <2>a DEF Updated
    <3>4. Updated(r, s) \in [1 .. Len(tasks) -> TaskRecords]
      BY <3>2, <3>3 DEF Updated
    <3>5. Updated(r, s) \in Seq(TaskRecords)
      <4>1. \A n \in Nat : [1 .. n -> TaskRecords] \subseteq Seq(TaskRecords)
        OBVIOUS
      <4>2. QED
        BY <3>3, <3>4, <4>1
    <3>6. /\ \A i \in DOMAIN tasks : \E k \in 1 .. fresh - 1 : tasks[i].id = NewIds[k]
          /\ \A i, j \in DOMAIN tasks : tasks[i].id = tasks[j].id => i = j
      BY DEF PlanInv
    <3>7. \A i \in DOMAIN tasks' : \E k \in 1 .. fresh' - 1 : tasks'[i].id = NewIds[k]
      BY <3>1, <3>2, <3>3, <3>6
    <3>8. \A i, j \in DOMAIN tasks' : tasks'[i].id = tasks'[j].id => i = j
      BY <3>1, <3>2, <3>3, <3>6
    <3>9. tasks' \in Seq(TaskRecords) /\ fresh' \in 1 .. Len(NewIds) + 1
      BY <2>a, <3>1, <3>5
    <3>10. QED
      BY <3>7, <3>8, <3>9 DEF PlanInv
  <2>4. CASE UNCHANGED planVars
    BY <2>4 DEF PlanInv, planVars
  <2>5. QED
    BY <2>1, <2>2, <2>3, <2>4 DEF PlanNext
<1>3. QED
  BY <1>1, <1>2, PTL DEF PlanSpec

(* Where a full id leads.                                                  *)
LEMMA IdsLead ==
  ASSUME PlanInv
  PROVE  /\ \A i \in DOMAIN tasks : ById(tasks[i].id) = i
         /\ \A id : ById(id) \in DOMAIN tasks => tasks[ById(id)].id = id
<1>1. ASSUME NEW i \in DOMAIN tasks PROVE ById(tasks[i].id) = i
  BY DEF ById, TaskIds, PlanInv
<1>2. ASSUME NEW id, ById(id) \in DOMAIN tasks PROVE tasks[ById(id)].id = id
  <2>1. 0 \notin DOMAIN tasks
    BY DEF PlanInv
  <2>2. id \in TaskIds
    BY <1>2, <2>1 DEF ById
  <2>3. PICK i \in DOMAIN tasks : tasks[i].id = id
    BY <2>2 DEF TaskIds
  <2>4. QED
    BY <1>1, <2>3
<1>3. QED
  BY <1>1, <1>2

Sorts == [open : Seq(DOMAIN tasks), result : Seq(DOMAIN tasks)]

(* Between two visits: no task twice, each visit one for a dependency of   *)
(* the one below, and dependencies put in front unless there is a cycle.   *)
Once(sort) ==
  /\ \A k, m \in DOMAIN sort.open : sort.open[k] = sort.open[m] => k = m
  /\ \A k, m \in DOMAIN sort.result : sort.result[k] = sort.result[m] => k = m
  /\ ToSet(sort.open) \cap ToSet(sort.result) = {}

VisitsChained(sort) ==
  \A q \in 1 .. Len(sort.open) - 1 : DependsOn(sort.open[q], sort.open[q + 1])

Counted(sort, n) ==
  \/ 2 * Len(sort.result) + Len(sort.open) = n
  \/ sort.open = <<>> /\ ToSet(sort.result) = DOMAIN tasks

Ordered(sort) ==
  Acyclic => \A k \in DOMAIN sort.result, j \in DOMAIN tasks :
               DependsOn(sort.result[k], j) => \E q \in 1 .. k - 1 : sort.result[q] = j

Sorting(sort, n) ==
  sort \in Sorts /\ Once(sort) /\ VisitsChained(sort) /\ Counted(sort, n) /\ Ordered(sort)

LEMMA VisitSorts ==
  ASSUME PlanInv, NEW sort, NEW n \in Nat, Sorting(sort, n)
  PROVE  Sorting(Visit(sort), n + 1)
<1> DEFINE D == DOMAIN tasks
           open == sort.open
           result == sort.result
           wanted == Wanted(sort)
           new == {k \in DOMAIN wanted : ById(wanted[k]) \in D \ Seen(sort)}
           top == Last(open)
<1>1. /\ open \in Seq(D) /\ result \in Seq(D) /\ sort = [open |-> open, result |-> result]
      /\ Len(open) \in Nat /\ Len(result) \in Nat
      /\ DOMAIN open = 1 .. Len(open) /\ DOMAIN result = 1 .. Len(result)
  BY DEF Sorting, Sorts
<1>2. tasks \in Seq(TaskRecords)
  BY DEF PlanInv
<1>3. open # <<>> => Len(open) \in DOMAIN open /\ top = open[Len(open)] /\ top \in D /\ top \in ToSet(open)
  BY <1>1 DEF Last, ToSet
<1>4. /\ open = <<>> => DOMAIN wanted = D /\ \A i \in D : wanted[i] = tasks[i].id
      /\ open # <<>> => wanted = tasks[top].dependsOn
      /\ DOMAIN wanted \subseteq Nat
  <2>1. CASE open = <<>>
    BY <1>2, <2>1 DEF Wanted
  <2>2. CASE open # <<>>
    <3>1. tasks[top] \in TaskRecords
      BY <1>2, <1>3, <2>2
    <3>2. tasks[top].dependsOn \in Seq(Waitable)
      BY <3>1 DEF TaskRecords
    <3>3. QED
      BY <2>2, <3>2 DEF Wanted
  <2>3. QED
    BY <2>1, <2>2
<1>5. Once(sort) /\ VisitsChained(sort) /\ Counted(sort, n) /\ Ordered(sort)
  BY DEF Sorting
<1>6. CASE new # {}
  <2> DEFINE k == CHOOSE k \in new : \A m \in new : k <= m
             j == ById(wanted[k])
             s == [open |-> Append(open, j), result |-> result]
  <2>1. k \in new
    <3>1. new \in SUBSET Nat
      BY <1>4
    <3>2. \E x \in new : \A y \in new : x <= y
      <4> HIDE DEF new
      <4>1. QED
        BY <1>6, <3>1, LeastOf
    <3> HIDE DEF new
    <3>3. QED
      BY <3>2
  <2>2. Visit(sort) = s
    BY <1>1, <1>6 DEF Visit
  <2>3. j \in D /\ j \notin ToSet(open) /\ j \notin ToSet(result)
    BY <2>1 DEF Seen
  <2>4. open # <<>> => DependsOn(top, j)
    <3>1. ASSUME open # <<>> PROVE DependsOn(top, j)
      <4>1. tasks[j].id = wanted[k]
        BY <2>3, IdsLead
      <4>2. wanted[k] \in ToSet(tasks[top].dependsOn)
        BY <1>4, <2>1, <3>1 DEF ToSet
      <4>3. QED
        BY <4>1, <4>2 DEF DependsOn
    <3>2. QED
      BY <3>1
  <2> HIDE DEF k, j, new, wanted
  <2>5. /\ s.open = Append(open, j) /\ s.result = result /\ s \in Sorts
        /\ Len(s.open) = Len(open) + 1 /\ DOMAIN s.open = 1 .. Len(open) + 1
        /\ s.open[Len(open) + 1] = j /\ \A q \in 1 .. Len(open) : s.open[q] = open[q]
    BY <1>1, <2>3 DEF Sorts
  <2> HIDE DEF s
  <2>6. Once(s)
    <3>1. ASSUME NEW q \in DOMAIN s.open
          PROVE  \/ q \in DOMAIN open /\ s.open[q] = open[q] /\ open[q] # j
                 \/ q = Len(open) + 1 /\ s.open[q] = j
      <4>1. \A p \in DOMAIN open : open[p] # j
        BY <2>3 DEF ToSet
      <4>2. q \in 1 .. Len(open) \/ q = Len(open) + 1
        BY <1>1, <2>5
      <4>3. QED
        BY <1>1, <2>5, <4>1, <4>2
    <3>2. \A p, q \in DOMAIN s.open : s.open[p] = s.open[q] => p = q
      BY <1>5, <3>1 DEF Once
    <3>3. ToSet(s.open) \cap ToSet(result) = {}
      BY <1>5, <2>3, <3>1 DEF Once, ToSet
    <3>4. QED
      BY <1>5, <2>5, <3>2, <3>3 DEF Once
  <2>7. VisitsChained(s)
    <3>1. ASSUME NEW q \in 1 .. Len(s.open) - 1 PROVE DependsOn(s.open[q], s.open[q + 1])
      <4>1. CASE q = Len(open)
        <5>1. open # <<>> /\ top = open[Len(open)] /\ s.open[q] = open[q]
          BY <1>1, <1>3, <2>5, <4>1
        <5>2. QED
          BY <2>4, <2>5, <4>1, <5>1
      <4>2. CASE q # Len(open)
        <5>1. q \in 1 .. Len(open) - 1 /\ q \in 1 .. Len(open) /\ q + 1 \in 1 .. Len(open)
          BY <1>1, <2>5, <4>2
        <5>2. QED
          BY <1>5, <2>5, <5>1 DEF VisitsChained
      <4>3. QED
        BY <4>1, <4>2
    <3>2. QED
      BY <3>1 DEF VisitsChained
  <2>8. Counted(s, n + 1)
    <3>1. ToSet(result) # D
      BY <2>3
    <3>2. 2 * Len(result) + Len(open) = n
      BY <1>5, <3>1 DEF Counted
    <3>3. 2 * Len(s.result) + Len(s.open) = n + 1
      BY <1>1, <2>5, <3>2
    <3>4. QED
      BY <3>3 DEF Counted
  <2>9. Ordered(s)
    BY <1>5, <2>5 DEF Ordered
  <2>10. QED
    BY <2>2, <2>5, <2>6, <2>7, <2>8, <2>9 DEF Sorting
<1>7. CASE new = {} /\ open # <<>>
  <2> DEFINE s == [open |-> Front(open), result |-> Append(result, top)]
  <2>1. Visit(sort) = s
    BY <1>1, <1>7 DEF Visit
  <2>2. ASSUME NEW j \in D, DependsOn(top, j) PROVE j \in Seen(sort)
    <3>1. PICK k \in DOMAIN wanted : wanted[k] = tasks[j].id
      BY <1>4, <1>7, <2>2 DEF DependsOn, ToSet
    <3>2. ById(wanted[k]) = j
      BY <3>1, IdsLead
    <3>3. QED
      BY <1>7, <3>1, <3>2
  <2> HIDE DEF new, wanted
  <2>3. /\ s.open = Front(open) /\ s.result = Append(result, top) /\ s \in Sorts
        /\ Len(s.open) = Len(open) - 1 /\ DOMAIN s.open = 1 .. Len(open) - 1
        /\ \A q \in 1 .. Len(open) - 1 : s.open[q] = open[q]
        /\ Len(s.result) = Len(result) + 1 /\ DOMAIN s.result = 1 .. Len(result) + 1
        /\ s.result[Len(result) + 1] = top /\ \A q \in 1 .. Len(result) : s.result[q] = result[q]
    <3>1. Len(open) - 1 \in Nat /\ Len(open) \in 1 .. Len(open)
      BY <1>1, <1>3, <1>7
    <3>2. /\ Front(open) \in Seq(D) /\ Len(Front(open)) = Len(open) - 1 /\ DOMAIN Front(open) = 1 .. Len(open) - 1
          /\ \A q \in 1 .. Len(open) - 1 : Front(open)[q] = open[q]
      <4> DEFINE m == Len(open) - 1
      <4>1. Front(open) = [q \in 1 .. m |-> open[q]]
        BY <1>1, <3>1 DEF Front
      <4>2. \A q \in 1 .. m : open[q] \in D
        BY <1>1
      <4>3. m \in Nat
        BY <3>1
      <4> HIDE DEF m
      <4>4. Front(open) \in [1 .. m -> D]
        BY <4>1, <4>2
      <4>5. Front(open) \in Seq(D) /\ Len(Front(open)) = m
        BY <4>3, <4>4
      <4>6. QED
        BY <4>1, <4>5 DEF m
    <3>3. /\ Append(result, top) \in Seq(D) /\ Len(Append(result, top)) = Len(result) + 1
          /\ DOMAIN Append(result, top) = 1 .. Len(result) + 1
          /\ Append(result, top)[Len(result) + 1] = top
          /\ \A q \in 1 .. Len(result) : Append(result, top)[q] = result[q]
      BY <1>1, <1>3, <1>7
    <3>4. QED
      BY <3>2, <3>3 DEF Sorts
  <2> HIDE DEF s, top
  <2>4. top \notin ToSet(result)
    BY <1>3, <1>5, <1>7 DEF Once
  <2>5. Once(s)
    <3>1. \A q \in DOMAIN s.open : q \in DOMAIN open /\ s.open[q] = open[q] /\ q # Len(open)
      BY <1>1, <2>3
    <3>2. \A p, q \in DOMAIN s.open : s.open[p] = s.open[q] => p = q
      BY <1>5, <3>1 DEF Once
    <3>3. \A q \in DOMAIN s.result :
            \/ q \in DOMAIN result /\ s.result[q] = result[q] /\ result[q] # top
            \/ q = Len(result) + 1 /\ s.result[q] = top
      BY <1>1, <2>3, <2>4 DEF ToSet
    <3>4. \A p, q \in DOMAIN s.result : s.result[p] = s.result[q] => p = q
      BY <1>5, <3>3 DEF Once
    <3>5. \A q \in DOMAIN s.open : s.open[q] # top
      <4>1. \A q \in DOMAIN open : open[q] = open[Len(open)] => q = Len(open)
        BY <1>3, <1>5, <1>7 DEF Once
      <4>2. QED
        BY <1>3, <1>7, <3>1, <4>1
    <3>6. ToSet(s.open) \cap ToSet(s.result) = {}
      <4>1. \A p \in DOMAIN open, q \in DOMAIN result : open[p] # result[q]
        BY <1>5 DEF Once, ToSet
      <4>2. \A p \in DOMAIN s.open, q \in DOMAIN s.result : s.open[p] # s.result[q]
        BY <3>1, <3>3, <3>5, <4>1
      <4>3. QED
        BY <4>2 DEF ToSet
    <3>7. QED
      BY <3>2, <3>4, <3>6 DEF Once
  <2>6. VisitsChained(s)
    <3>1. \A q \in 1 .. Len(s.open) - 1 :
             q \in 1 .. Len(open) - 1 /\ q + 1 \in 1 .. Len(open) - 1
      BY <1>1, <2>3
    <3>2. QED
      BY <1>5, <2>3, <3>1 DEF VisitsChained
  <2>7. Counted(s, n + 1)
    <3>1. 2 * Len(result) + Len(open) = n
      BY <1>5, <1>7 DEF Counted
    <3>2. 2 * Len(s.result) + Len(s.open) = n + 1
      BY <1>1, <2>3, <3>1
    <3>3. QED
      BY <3>2 DEF Counted
  <2>8. Ordered(s)
    <3> SUFFICES ASSUME Acyclic, NEW k \in DOMAIN s.result, NEW j \in D, DependsOn(s.result[k], j)
                 PROVE  \E q \in 1 .. k - 1 : s.result[q] = j
      BY DEF Ordered
    <3>1. CASE k \in DOMAIN result
      <4>1. PICK q \in 1 .. k - 1 : result[q] = j
        BY <1>1, <1>5, <2>3, <3>1 DEF Ordered
      <4>2. q \in 1 .. Len(result)
        BY <1>1, <3>1
      <4>3. QED
        BY <2>3, <4>1, <4>2
    <3>2. CASE k = Len(result) + 1
      <4>1. DependsOn(top, j)
        BY <2>3, <3>2
      <4>2. j \notin ToSet(open)
        <5> SUFFICES ASSUME NEW p \in DOMAIN open, open[p] = j PROVE FALSE
          BY DEF ToSet
        <5> DEFINE S == {open[q] : q \in p .. Len(open)}
        <5>1. p .. Len(open) \subseteq DOMAIN open /\ p \in p .. Len(open)
          BY <1>1
        <5>2. S \in (SUBSET DOMAIN tasks) \ {{}} /\ j \in S
          <6>1. \A q \in p .. Len(open) : open[q] \in DOMAIN tasks
            BY <1>1, <5>1
          <6>2. open[p] \in S
            BY <5>1
          <6>3. QED
            BY <6>1, <6>2
        <5>3. PICK i \in S : \A m \in S : ~DependsOn(i, m)
          <6> HIDE DEF S
          <6>1. QED
            BY <5>2 DEF Acyclic
        <5>4. PICK q \in p .. Len(open) : i = open[q]
          BY <5>3
        <5>5. CASE q = Len(open)
          BY <1>3, <1>7, <4>1, <5>2, <5>3, <5>4, <5>5
        <5>6. CASE q # Len(open)
          <6>1. q \in 1 .. Len(open) - 1 /\ q + 1 \in p .. Len(open)
            BY <1>1, <5>6
          <6>2. DependsOn(open[q], open[q + 1]) /\ open[q + 1] \in S
            BY <1>5, <6>1 DEF VisitsChained
          <6>3. QED
            BY <5>3, <5>4, <6>2
        <5>7. QED
          BY <5>5, <5>6
      <4>3. j \in ToSet(result)
        BY <2>2, <4>1, <4>2 DEF Seen
      <4>4. PICK q \in DOMAIN result : result[q] = j
        BY <4>3 DEF ToSet
      <4>5. QED
        BY <1>1, <2>3, <3>2, <4>4
    <3>3. QED
      BY <1>1, <2>3, <3>1, <3>2
  <2>9. QED
    BY <2>1, <2>3, <2>5, <2>6, <2>7, <2>8 DEF Sorting
<1>8. CASE new = {} /\ open = <<>>
  <2>1. Visit(sort) = sort
    BY <1>1, <1>8 DEF Visit
  <2>2. D \subseteq ToSet(result)
    <3>1. ASSUME NEW i \in D PROVE i \in ToSet(result)
      <4>1. i \in DOMAIN wanted /\ ById(wanted[i]) = i
        BY <1>4, <1>8, IdsLead
      <4>2. i \in Seen(sort)
        BY <1>8, <4>1
      <4>3. QED
        BY <1>1, <1>8, <4>2 DEF Seen, ToSet
    <3>2. QED
      BY <3>1
  <2>3. ToSet(result) \subseteq D
    BY <1>1 DEF ToSet
  <2>4. Counted(sort, n + 1)
    BY <1>8, <2>2, <2>3 DEF Counted
  <2>5. QED
    BY <1>5, <2>1, <2>4 DEF Sorting
<1>9. QED
  BY <1>6, <1>7, <1>8

(* The sort comes to its end.                                              *)
LEMMA SortEnds ==
  ASSUME PlanInv
  PROVE  \E sort : Sorting(sort, 2 * Len(tasks)) /\ TopoSort = sort.result
<1> DEFINE n == 2 * Len(tasks)
           start == [open |-> <<>>, result |-> <<>>]
           A == {s \in Sorts : \E m \in Nat : Sorting(s, m)}
           h == [x \in (1 .. n) \X A |-> Visit(x[2])]
           upTo == CHOOSE f : f = [k \in 0 .. n |-> IF k = 0 THEN start ELSE Visit(f[k - 1])]
<1>1. n \in Nat
  BY DEF PlanInv
<1>2. Sorting(start, 0)
  <2>1. start \in Sorts
    BY DEF Sorts
  <2>2. start.open = <<>> /\ start.result = <<>> /\ Len(<<>>) = 0 /\ DOMAIN <<>> = {}
    OBVIOUS
  <2> HIDE DEF start
  <2>3. QED
    BY <2>1, <2>2 DEF Sorting, Once, VisitsChained, Counted, Ordered, ToSet
<1>3. start \in A
  BY <1>2 DEF Sorting
<1>4. \A s \in A : Visit(s) \in A
  <2>1. ASSUME NEW s \in Sorts, NEW m \in Nat, Sorting(s, m) PROVE Visit(s) \in A
    <3>1. Sorting(Visit(s), m + 1) /\ m + 1 \in Nat
      BY <2>1, VisitSorts
    <3>2. QED
      BY <3>1 DEF Sorting
  <2>2. QED
    BY <2>1
<1> HIDE DEF A, n, start
<1>5. h \in [(1 .. n) \X A -> A] /\ \A k \in 1 .. n : \A s \in A : h[<<k, s>>] = Visit(s)
  BY <1>4
<1> HIDE DEF h, upTo
<1>6. \E f : Recurses(f, A, start, n, h)
  <2>1. Steps(h, A, start, n)
    BY <1>1, <1>3, <1>5 DEF Steps
  <2>2. QED
    BY <2>1, RecursionEnds
<1>7. PICK f \in [0 .. n -> A] : f[0] = start /\ \A k \in 1 .. n : f[k] = h[<<k, f[k - 1]>>]
  BY <1>6 DEF Recurses
<1>8. f = [k \in 0 .. n |-> IF k = 0 THEN start ELSE Visit(f[k - 1])]
  <2>1. \A k \in 1 .. n : k - 1 \in 0 .. n /\ f[k - 1] \in A
    BY <1>1
  <2>2. \A k \in 0 .. n : k = 0 \/ k \in 1 .. n
    BY <1>1
  <2>3. \A k \in 0 .. n : f[k] = IF k = 0 THEN start ELSE Visit(f[k - 1])
    BY <1>5, <1>7, <2>1, <2>2
  <2>4. f = [k \in 0 .. n |-> f[k]]
    OBVIOUS
  <2>5. QED
    BY <2>3, <2>4
<1>9. upTo = [k \in 0 .. n |-> IF k = 0 THEN start ELSE Visit(upTo[k - 1])]
  BY <1>8 DEF upTo
<1>10. upTo[0] = start /\ \A k \in 1 .. n : upTo[k] = Visit(upTo[k - 1])
  <2>1. 0 \in 0 .. n /\ \A k \in 1 .. n : k \in 0 .. n /\ k # 0
    BY <1>1
  <2>2. QED
    BY <1>9, <2>1
<1>11. Sorting(upTo[n], n)
  <2> DEFINE P == {m \in Nat : m <= n => Sorting(upTo[m], m)}
  <2>1. 0 \in P
    BY <1>2, <1>10 DEF start
  <2>2. ASSUME NEW m \in P PROVE m + 1 \in P
    <3> SUFFICES ASSUME m + 1 <= n PROVE Sorting(upTo[m + 1], m + 1)
      OBVIOUS
    <3>1. m \in Nat /\ m <= n /\ m + 1 \in 1 .. n /\ (m + 1) - 1 = m
      BY <1>1
    <3>2. Sorting(upTo[m], m)
      BY <3>1
    <3>3. Sorting(Visit(upTo[m]), m + 1)
      BY <3>1, <3>2, VisitSorts
    <3>4. QED
      BY <1>10, <3>1, <3>3
  <2>3. P \in SUBSET Nat
    OBVIOUS
  <2> HIDE DEF P
  <2>4. n \in P
    BY <1>1, <2>1, <2>2, <2>3, EveryNumber
  <2>5. QED
    BY <2>4 DEF P
<1>12. TopoSort = upTo[n].result
  BY DEF TopoSort, upTo, n, start
<1>13. QED
  BY <1>11, <1>12 DEF n

(* The elements of a sequence without repetition are as many as it is long. *)
LEMMA AsManyAsLong ==
  ASSUME NEW s, NEW D, s \in Seq(D), \A k, m \in DOMAIN s : s[k] = s[m] => k = m
  PROVE  IsFiniteSet(ToSet(s)) /\ Cardinality(ToSet(s)) = Len(s)
<1>1. Len(s) \in Nat /\ DOMAIN s = 1 .. Len(s)
  OBVIOUS
<1>2. ToSet(s) = {s[k] : k \in 1 .. Len(s)}
  BY <1>1 DEF ToSet
<1>3. s \in Bijection(1 .. Len(s), ToSet(s))
  <2>1. s \in [1 .. Len(s) -> ToSet(s)]
    BY <1>1, <1>2
  <2>2. QED
    BY <1>1, <1>2, <2>1 DEF Bijection, Injection, Surjection, IsInjective
<1>4. ExistsBijection(1 .. Len(s), ToSet(s))
  BY <1>3 DEF ExistsBijection
<1>5. QED
  <2> DEFINE S == ToSet(s)
             m == Len(s)
  <2>1. m \in Nat /\ ExistsBijection(1 .. m, S)
    BY <1>1, <1>4
  <2> HIDE DEF S, m
  <2>2. Cardinality(S) = m /\ IsFiniteSet(S)
    BY <2>1, FS_CountingElements, FS_NatBijection
  <2>3. QED
    BY <2>2 DEF S, m

(* Twice what is sorted and once what is under way: all is sorted.         *)
LEMMA AllAreSorted ==
  ASSUME NEW n \in Nat, NEW O \in SUBSET (1 .. n), NEW R \in SUBSET (1 .. n), O \cap R = {},
         2 * Cardinality(R) + Cardinality(O) = 2 * n
  PROVE  R = 1 .. n /\ Cardinality(R) = n
<1>1. IsFiniteSet(1 .. n) /\ Cardinality(1 .. n) = n
  <2>1. 1 \in Int /\ n \in Int
    OBVIOUS
  <2>2. /\ IsFiniteSet(1 .. n)
        /\ Cardinality(1 .. n) = IF 1 > n THEN 0 ELSE n - 1 + 1
    BY <2>1, FS_Interval
  <2>3. QED
    BY <2>2
<1>2. IsFiniteSet(O) /\ IsFiniteSet(R)
  BY <1>1, FS_Subset
<1>3. Cardinality(O) \in Nat /\ Cardinality(R) \in Nat
  BY <1>2, FS_CardinalityType
<1>4. Cardinality(O \cup R) = Cardinality(O) + Cardinality(R) - Cardinality(O \cap R)
  BY <1>2, FS_Union
<1>5. Cardinality(O \cap R) = 0
  BY FS_EmptySet
<1>6. O \cup R \in SUBSET (1 .. n)
  OBVIOUS
<1>7. Cardinality(O \cup R) <= n
  BY <1>1, <1>6, FS_Subset
<1>8. Cardinality(O) + Cardinality(R) <= n
  BY <1>3, <1>4, <1>5, <1>7
<1>9. Cardinality(R) = n
  BY <1>3, <1>8
<1>10. QED
  BY <1>1, <1>9, FS_Subset

LEMMA ReminderHolds == PlanInv => ReminderIsThePlan
<1> SUFFICES ASSUME PlanInv PROVE ReminderIsThePlan
  OBVIOUS
<1> DEFINE n == Len(tasks)
<1>1. PICK sort : Sorting(sort, 2 * n) /\ TopoSort = sort.result
  BY SortEnds
<1> DEFINE open == sort.open
           sorted == sort.result
<1>2. /\ n \in Nat /\ DOMAIN tasks = 1 .. n
      /\ open \in Seq(1 .. n) /\ sorted \in Seq(1 .. n)
      /\ Len(open) \in Nat /\ Len(sorted) \in Nat
      /\ DOMAIN sorted = 1 .. Len(sorted) /\ DOMAIN open = 1 .. Len(open)
  BY <1>1 DEF PlanInv, Sorting, Sorts
<1>3. /\ Cardinality(ToSet(open)) = Len(open) /\ IsFiniteSet(ToSet(open))
      /\ Cardinality(ToSet(sorted)) = Len(sorted) /\ IsFiniteSet(ToSet(sorted))
      /\ ToSet(open) \cap ToSet(sorted) = {}
  BY <1>1, <1>2, AsManyAsLong DEF Sorting, Once
<1>4. ToSet(open) \subseteq 1 .. n /\ ToSet(sorted) \subseteq 1 .. n
  BY <1>2 DEF ToSet
<1>5. IsFiniteSet(1 .. n) /\ Cardinality(1 .. n) = n
  <2>1. 1 \in Int /\ n \in Int
    BY <1>2
  <2>2. /\ IsFiniteSet(1 .. n)
        /\ Cardinality(1 .. n) = IF 1 > n THEN 0 ELSE n - 1 + 1
    BY <2>1, FS_Interval
  <2> HIDE DEF n
  <2>3. QED
    BY <1>2, <2>2
<1>6. Len(sorted) = n /\ ToSet(sorted) = 1 .. n
  <2>1. CASE 2 * Len(sorted) + Len(open) = 2 * n
    <3> DEFINE O == ToSet(open)
               R == ToSet(sorted)
    <3>1. /\ n \in Nat /\ O \in SUBSET (1 .. n) /\ R \in SUBSET (1 .. n) /\ O \cap R = {}
          /\ 2 * Cardinality(R) + Cardinality(O) = 2 * n /\ Cardinality(R) = Len(sorted)
      BY <1>2, <1>3, <1>4, <2>1
    <3> HIDE DEF O, R, n, sorted
    <3>2. R = 1 .. n /\ Cardinality(R) = n
      BY <3>1, AllAreSorted
    <3>3. QED
      BY <3>1, <3>2 DEF R
  <2>2. CASE ToSet(sorted) = DOMAIN tasks
    BY <1>2, <1>3, <1>5, <2>2
  <2>3. QED
    BY <1>1, <2>1, <2>2 DEF Sorting, Counted
<1>7. ASSUME Acyclic, NEW k \in DOMAIN sorted, NEW m \in DOMAIN sorted, DependsOn(sorted[k], sorted[m])
      PROVE  m < k
  <2>1. sorted[m] \in DOMAIN tasks
    BY <1>2
  <2>2. PICK q \in 1 .. k - 1 : sorted[q] = sorted[m]
    BY <1>1, <1>7, <2>1 DEF Sorting, Ordered
  <2>3. q \in DOMAIN sorted
    BY <1>2
  <2>4. q = m
    BY <1>1, <2>2, <2>3 DEF Sorting, Once
  <2>5. QED
    BY <1>2, <2>4
<1>8. QED
  BY <1>1, <1>2, <1>6, <1>7 DEF ReminderIsThePlan

(* The first of the tasks of the best rank is one of them.                 *)
LEMMA NextIsReady ==
  ASSUME PlanInv, Ready # {}
  PROVE  NextTask \in Ready
<1>1. Ready \in SUBSET Nat
  BY DEF Ready, PlanInv
<1> DEFINE rank(i) == Rank(tasks[i].priority)
           ranks == {rank(i) : i \in Ready}
<1>2. \A p : Rank(p) \in Nat
  BY DEF Rank
<1>3. ranks \in SUBSET Nat /\ ranks # {}
  <2> HIDE DEF Ready
  <2>1. QED
    BY <1>2
<1>4. PICK r \in ranks : \A q \in ranks : r <= q
  <2> HIDE DEF ranks
  <2>1. QED
    BY <1>3, LeastOf
<1> DEFINE best == {i \in Ready : rank(i) = r}
<1>5. best \in SUBSET Nat /\ best # {}
  BY <1>1
<1>6. PICK i \in best : \A j \in best : i <= j
  <2> HIDE DEF best
  <2>1. QED
    BY <1>5, LeastOf
<1>7. ASSUME NEW j \in Ready
      PROVE  \/ rank(i) < rank(j)
             \/ rank(i) = rank(j) /\ i <= j
  <2>1. rank(i) = r /\ r <= rank(j) /\ rank(j) \in Nat /\ r \in Nat
    BY <1>2, <1>4, <1>6
  <2>2. CASE rank(j) = r
    BY <1>6, <2>1, <2>2
  <2>3. CASE rank(j) # r
    BY <2>1, <2>3
  <2>4. QED
    BY <2>2, <2>3
<1>8. i \in Ready
  OBVIOUS
<1> HIDE DEF Ready
<1>9. QED
  BY <1>7, <1>8 DEF NextTask

LEMMA PlanGoesOn == PlanInv => NeverStuck
<1> SUFFICES ASSUME PlanInv PROVE NeverStuck
  OBVIOUS
<1>1. ASSUME Exact, Acyclic, Left, ~Underway PROVE Ready # {}
  <2> DEFINE S == {i \in DOMAIN tasks : tasks[i].status = "pending"}
  <2>1. S \in (SUBSET DOMAIN tasks) \ {{}}
    BY <1>1 DEF Left
  <2>2. PICK i \in S : \A j \in S : ~DependsOn(i, j)
    <3> HIDE DEF S
    <3>1. QED
      BY <1>1, <2>1 DEF Acyclic
  <2>3. ASSUME NEW d \in ToSet(tasks[i].dependsOn) PROVE d \in DoneIds
    <3>1. PICK j \in DOMAIN tasks : tasks[j].id = d
      BY <1>1, <2>3 DEF Exact, TaskIds
    <3>2. j \notin S
      BY <2>2, <2>3, <3>1 DEF DependsOn
    <3>3. tasks[j].status = "done"
      BY <1>1, <3>2 DEF Underway
    <3>4. QED
      BY <3>1, <3>3 DEF DoneIds
  <2>4. i \in Ready
    BY <2>2, <2>3 DEF Ready, AllDependenciesDone
  <2>5. QED
    BY <2>4
<1>2. ASSUME Ready # {}, NEW j \in DOMAIN tasks, DependsOn(NextTask, j) PROVE tasks[j].status = "done"
  <2>1. NextTask \in Ready
    BY <1>2, NextIsReady
  <2>2. tasks[j].id \in DoneIds
    BY <1>2, <2>1 DEF Ready, AllDependenciesDone, DependsOn
  <2>3. PICK k \in DOMAIN tasks : tasks[k].status = "done" /\ tasks[k].id = tasks[j].id
    BY <2>2 DEF DoneIds
  <2>4. QED
    BY <2>3 DEF PlanInv
<1>3. QED
  BY <1>1, <1>2 DEF NeverStuck

(* The reminder lists every task once, behind those it depends on when     *)
(* there is no cycle, and TodoNext has a task to give whenever one is left *)
(* and nothing is under way, whatever plans are written, extended and      *)
(* worked on (PlanIsFollowed).                                             *)
THEOREM PlanStaysFollowed == PlanSpec => []PlanIsFollowed
<1>1. PlanInv => PlanTypeOK
  <2> SUFFICES ASSUME PlanInv PROVE PlanTypeOK
    OBVIOUS
  <2>1. \A i \in DOMAIN tasks : tasks[i] \in TaskRecords
    BY DEF PlanInv
  <2>2. QED
    BY <2>1 DEF PlanTypeOK, PlanInv, TaskRecords
<1>2. PlanInv => PlanIsFollowed
  BY <1>1, ReminderHolds, PlanGoesOn DEF PlanIsFollowed
<1>3. QED
  BY <1>2, PlanTypesHold, PTL
=============================================================================
