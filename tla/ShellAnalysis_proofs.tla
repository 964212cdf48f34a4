------------------------ MODULE ShellAnalysis_proofs ------------------------
(***************************************************************************)
(* Every command a command line would run is in the analysis of it, or the *)
(* analysis says that it does not know, for every tree of statements.  The *)
(* recursion is over the height of the statements and, in the classes,     *)
(* over the words: each function is first shown to be what its equation    *)
(* says, then what it gives is shown level by level.                       *)
(***************************************************************************)
EXTENDS ShellAnalysis, WellFoundedInduction, SequenceTheorems, FiniteSetTheorems, TLAPS

(* Induction over a set of numbers, and what a recursive function computes. *)
LEMMA EveryNumber ==
  ASSUME NEW P \in SUBSET Nat, 0 \in P, \A n \in P : n + 1 \in P
  PROVE  P = Nat
<1> SUFFICES ASSUME P # Nat PROVE FALSE
  OBVIOUS
<1> DEFINE T == Nat \ P
<1>1. T \subseteq Nat /\ T # {}
  OBVIOUS
<1>2. IsWellFoundedOn(OpToRel(<, Nat), Nat)
  BY NatLessThanWellFounded
<1>3. PICK x \in T : \A y \in T : ~ (<<y, x>> \in OpToRel(<, Nat))
  BY <1>1, <1>2, WFMin
<1>4. \A y \in T : ~ (y < x)
  BY <1>1, <1>3 DEF OpToRel
<1>5. x # 0 /\ x - 1 \in Nat /\ x - 1 < x
  BY <1>1
<1>6. x - 1 \in P
  BY <1>4, <1>5
<1>7. (x - 1) + 1 \in P
  BY <1>6
<1> QED
  BY <1>7, <1>1

Recurses(f, A, a, n, h) ==
  f \in [0 .. n -> A] /\ f[0] = a /\ \A k \in 1 .. n : f[k] = h[<<k, f[k - 1]>>]

Steps(h, A, a, n) == n \in Nat /\ a \in A /\ h \in [(1 .. n) \X A -> A]

LEMMA RecursionEnds ==
  ASSUME NEW A, NEW a, NEW n, NEW h, Steps(h, A, a, n)
  PROVE  \E f : Recurses(f, A, a, n, h)
<1> USE DEF Recurses, Steps
<1> DEFINE P == {m \in Nat : m <= n =>
                   \E f \in [0 .. m -> A] : f[0] = a /\ \A k \in 1 .. m : f[k] = h[<<k, f[k - 1]>>]}
<1>1. 0 \in P
  <2>1. [k \in 0 .. 0 |-> a] \in [0 .. 0 -> A] /\ [k \in 0 .. 0 |-> a][0] = a
    OBVIOUS
  <2>2. \A f : \A k \in 1 .. 0 : f[k] = h[<<k, f[k - 1]>>]
    OBVIOUS
  <2>3. QED
    BY <2>1, <2>2
<1>2. ASSUME NEW m \in P PROVE m + 1 \in P
  <2> SUFFICES ASSUME m + 1 <= n
               PROVE  \E g \in [0 .. m + 1 -> A] : g[0] = a /\ \A k \in 1 .. m + 1 : g[k] = h[<<k, g[k - 1]>>]
    OBVIOUS
  <2>1. m \in Nat /\ m <= n
    OBVIOUS
  <2>2. PICK f \in [0 .. m -> A] : f[0] = a /\ \A k \in 1 .. m : f[k] = h[<<k, f[k - 1]>>]
    BY <2>1
  <2> DEFINE g == [k \in 0 .. m + 1 |-> IF k = m + 1 THEN h[<<m + 1, f[m]>>] ELSE f[k]]
  <2>3. m \in 0 .. m /\ m + 1 \in 1 .. n
    BY <2>1
  <2>4. h[<<m + 1, f[m]>>] \in A
    BY <2>2, <2>3
  <2>5. g \in [0 .. m + 1 -> A]
    <3>1. \A k \in 0 .. m + 1 : k = m + 1 \/ k \in 0 .. m
      BY <2>1
    <3>2. QED
      BY <2>2, <2>4, <3>1
  <2>6. g[0] = a
    BY <2>1, <2>2
  <2>7. ASSUME NEW k \in 1 .. m + 1 PROVE g[k] = h[<<k, g[k - 1]>>]
    <3>1. k - 1 \in 0 .. m /\ k - 1 # m + 1 /\ k \in 0 .. m + 1 /\ k - 1 \in 0 .. m + 1
      BY <2>1
    <3>2. g[k - 1] = f[k - 1]
      BY <3>1
    <3>3. CASE k = m + 1
      <4>1. k - 1 = m
        BY <3>3, <2>1
      <4>2. QED
        BY <3>1, <3>2, <3>3, <4>1
    <3>4. CASE k # m + 1
      <4>1. k \in 1 .. m
        BY <3>4, <2>1
      <4>2. QED
        BY <2>2, <3>1, <3>2, <3>4, <4>1
    <3>5. QED
      BY <3>3, <3>4
  <2> HIDE DEF g
  <2>8. QED
    BY <2>5, <2>6, <2>7
<1>3. P \in SUBSET Nat
  OBVIOUS
<1> HIDE DEF P
<1>4. n \in P
  BY <1>1, <1>2, <1>3, EveryNumber
<1>5. QED
  BY <1>4 DEF P

-----------------------------------------------------------------------------
(* A path a sequence of segments tells of never, and exactly once.         *)
Untold(T, q)   == \A i \in DOMAIN T : T[i].path # q
ToldOnce(T, q) == \E i \in DOMAIN T : T[i].path = q /\ \A j \in DOMAIN T : T[j].path = q => j = i

(* Wherever it tells of a call that runs a script, it tells of the script's *)
(* call later on, or the class says that nothing is known.                 *)
Follows(T, x) ==
  \A i \in DOMAIN T :
    T[i].path = x[1] => "unknown" \in T[i].class \/ \E j \in DOMAIN T : i < j /\ T[j].path = x[2]

LEMMA TellTogether ==
  ASSUME NEW S, NEW A \in Seq(S), NEW B \in Seq(S), NEW q
  PROVE  /\ A \o B \in Seq(S)
         /\ Untold(A \o B, q) <=> Untold(A, q) /\ Untold(B, q)
         /\ ToldOnce(A, q) /\ Untold(B, q) => ToldOnce(A \o B, q)
         /\ Untold(A, q) /\ ToldOnce(B, q) => ToldOnce(A \o B, q)
<1> DEFINE C == A \o B
<1>1. /\ C \in Seq(S) /\ Len(A) \in Nat /\ Len(B) \in Nat /\ Len(C) = Len(A) + Len(B)
      /\ DOMAIN A = 1 .. Len(A) /\ DOMAIN B = 1 .. Len(B) /\ DOMAIN C = 1 .. Len(C)
  OBVIOUS
<1>2. \A i \in DOMAIN A : i \in DOMAIN C /\ C[i] = A[i]
  BY <1>1
<1>3. \A i \in DOMAIN B : i + Len(A) \in DOMAIN C /\ C[i + Len(A)] = B[i]
  BY <1>1
<1>4. \A i \in DOMAIN C : i \in DOMAIN A \/ (i - Len(A) \in DOMAIN B /\ (i - Len(A)) + Len(A) = i)
  BY <1>1
<1> HIDE DEF C
<1>5. Untold(C, q) <=> Untold(A, q) /\ Untold(B, q)
  BY <1>2, <1>3, <1>4 DEF Untold
<1>6. ASSUME ToldOnce(A, q), Untold(B, q) PROVE ToldOnce(C, q)
  <2>1. PICK i \in DOMAIN A : A[i].path = q /\ \A j \in DOMAIN A : A[j].path = q => j = i
    BY <1>6 DEF ToldOnce
  <2>2. i \in DOMAIN C /\ C[i].path = q
    BY <2>1, <1>2
  <2>3. ASSUME NEW j \in DOMAIN C, C[j].path = q PROVE j = i
    <3>1. j \in DOMAIN A
      BY <2>3, <1>3, <1>4, <1>6 DEF Untold
    <3>2. QED
      BY <3>1, <2>1, <2>3, <1>2
  <2>4. QED
    BY <2>2, <2>3 DEF ToldOnce
<1>7. ASSUME Untold(A, q), ToldOnce(B, q) PROVE ToldOnce(C, q)
  <2>1. PICK i \in DOMAIN B : B[i].path = q /\ \A j \in DOMAIN B : B[j].path = q => j = i
    BY <1>7 DEF ToldOnce
  <2>2. i + Len(A) \in DOMAIN C /\ C[i + Len(A)].path = q
    BY <2>1, <1>3
  <2>3. ASSUME NEW j \in DOMAIN C, C[j].path = q PROVE j = i + Len(A)
    <3>1. j - Len(A) \in DOMAIN B /\ (j - Len(A)) + Len(A) = j
      BY <2>3, <1>2, <1>4, <1>7 DEF Untold
    <3>2. B[j - Len(A)].path = q
      BY <3>1, <2>3, <1>3
    <3>3. j - Len(A) = i
      BY <3>1, <3>2, <2>1
    <3>4. QED
      BY <3>1, <3>3
  <2>4. QED
    BY <2>2, <2>3 DEF ToldOnce
<1>8. QED
  BY <1>1, <1>5, <1>6, <1>7 DEF C

LEMMA FollowTogether ==
  ASSUME NEW S, NEW A \in Seq(S), NEW B \in Seq(S), NEW x, Follows(A, x), Follows(B, x)
  PROVE  Follows(A \o B, x)
<1> DEFINE C == A \o B
<1>1. /\ Len(A) \in Nat /\ Len(B) \in Nat /\ Len(C) = Len(A) + Len(B)
      /\ DOMAIN A = 1 .. Len(A) /\ DOMAIN B = 1 .. Len(B) /\ DOMAIN C = 1 .. Len(C)
  OBVIOUS
<1>2. \A i \in DOMAIN A : i \in DOMAIN C /\ C[i] = A[i]
  BY <1>1
<1>3. \A i \in DOMAIN B : i + Len(A) \in DOMAIN C /\ C[i + Len(A)] = B[i]
  BY <1>1
<1>4. \A i \in DOMAIN C : i \in DOMAIN A \/ (i - Len(A) \in DOMAIN B /\ (i - Len(A)) + Len(A) = i)
  BY <1>1
<1> HIDE DEF C
<1>5. ASSUME NEW i \in DOMAIN C, C[i].path = x[1], "unknown" \notin C[i].class
      PROVE  \E j \in DOMAIN C : i < j /\ C[j].path = x[2]
  <2>1. CASE i \in DOMAIN A
    <3>1. PICK j \in DOMAIN A : i < j /\ A[j].path = x[2]
      BY <2>1, <1>2, <1>5 DEF Follows
    <3>2. QED
      BY <3>1, <1>2
  <2>2. CASE i - Len(A) \in DOMAIN B /\ (i - Len(A)) + Len(A) = i
    <3>1. B[i - Len(A)] = C[i]
      BY <2>2, <1>3
    <3>2. PICK j \in DOMAIN B : i - Len(A) < j /\ B[j].path = x[2]
      BY <2>2, <3>1, <1>5 DEF Follows
    <3>3. i < j + Len(A)
      BY <3>2, <1>1, <2>2
    <3>4. QED
      BY <3>2, <3>3, <1>3
  <2>3. QED
    BY <2>1, <2>2, <1>4
<1>6. QED
  BY <1>5 DEF Follows, C

(* The same of sequences strung together.                                  *)
LEMMA TellInARow ==
  ASSUME NEW S, NEW seqs \in Seq(Seq(S))
  PROVE  /\ FlattenSeq(seqs) \in Seq(S)
         /\ \A q : (\A i \in DOMAIN seqs : Untold(seqs[i], q)) <=> Untold(FlattenSeq(seqs), q)
         /\ \A x : (\A i \in DOMAIN seqs : Follows(seqs[i], x)) => Follows(FlattenSeq(seqs), x)
         /\ \A q : \A i \in DOMAIN seqs :
              ToldOnce(seqs[i], q) /\ (\A j \in DOMAIN seqs \ {i} : Untold(seqs[j], q))
                => ToldOnce(FlattenSeq(seqs), q)
<1> DEFINE n == Len(seqs)
           flatten == CHOOSE f : f = [i \in 1 .. n |-> IF i = 1 THEN seqs[i] ELSE f[i - 1] \o seqs[i]]
           Run(m) == \E f : f = [i \in 1 .. m + 1 |-> IF i = 1 THEN seqs[i] ELSE f[i - 1] \o seqs[i]]
           P == {m \in Nat : m < n => Run(m)}
<1>1. n \in Nat /\ DOMAIN seqs = 1 .. n /\ \A i \in 1 .. n : seqs[i] \in Seq(S)
  OBVIOUS
<1>2. CASE n = 0
  <2>1. seqs = <<>> /\ DOMAIN seqs = {} /\ FlattenSeq(seqs) = seqs
    BY <1>1, <1>2 DEF FlattenSeq
  <2>2. <<>> \in Seq(S)
    OBVIOUS
  <2>3. FlattenSeq(seqs) \in Seq(S) /\ DOMAIN FlattenSeq(seqs) = {}
    BY <2>1, <2>2
  <2>4. QED
    BY <2>1, <2>3 DEF Untold, Follows
<1>3. CASE n # 0
  <2>1. \E f : f = [i \in 1 .. n |-> IF i = 1 THEN seqs[i] ELSE f[i - 1] \o seqs[i]]
    <3>1. Run(0)
      <4> DEFINE f == [i \in 1 .. 0 + 1 |-> seqs[i]]
      <4>1. f = [i \in 1 .. 0 + 1 |-> IF i = 1 THEN seqs[i] ELSE f[i - 1] \o seqs[i]]
        OBVIOUS
      <4>2. QED
        BY <4>1
    <3>2. ASSUME NEW m \in Nat, Run(m) PROVE Run(m + 1)
      <4>1. m \in Nat
        OBVIOUS
      <4>2. PICK f : f = [i \in 1 .. m + 1 |-> IF i = 1 THEN seqs[i] ELSE f[i - 1] \o seqs[i]]
        BY <3>2
      <4> DEFINE g == [i \in 1 .. (m + 1) + 1 |-> IF i \in 1 .. m + 1 THEN f[i] ELSE f[m + 1] \o seqs[i]]
      <4>3. ASSUME NEW i \in 1 .. (m + 1) + 1
            PROVE  g[i] = IF i = 1 THEN seqs[i] ELSE g[i - 1] \o seqs[i]
        <5>1. CASE i = 1
          BY <5>1, <4>1, <4>2
        <5>2. CASE i # 1 /\ i \in 1 .. m + 1
          <6>1. i - 1 \in 1 .. m + 1 /\ i - 1 \in 1 .. (m + 1) + 1
            BY <5>2, <4>1
          <6>2. g[i] = f[i] /\ g[i - 1] = f[i - 1]
            BY <5>2, <6>1
          <6>3. f[i] = f[i - 1] \o seqs[i]
            BY <5>2, <4>2
          <6>4. QED
            BY <5>2, <6>2, <6>3
        <5>3. CASE i \notin 1 .. m + 1
          <6>1. i # 1 /\ i - 1 = m + 1 /\ m + 1 \in 1 .. m + 1 /\ i - 1 \in 1 .. (m + 1) + 1
            BY <5>3, <4>1
          <6>2. g[i] = f[m + 1] \o seqs[i] /\ g[i - 1] = f[m + 1]
            BY <5>3, <6>1
          <6>3. QED
            BY <6>1, <6>2
        <5>4. QED
          BY <5>1, <5>2, <5>3
      <4>4. g = [i \in 1 .. (m + 1) + 1 |-> g[i]]
        OBVIOUS
      <4> HIDE DEF g
      <4>5. g = [i \in 1 .. (m + 1) + 1 |-> IF i = 1 THEN seqs[i] ELSE g[i - 1] \o seqs[i]]
        BY <4>3, <4>4
      <4>6. QED
        BY <4>5
    <3> HIDE DEF Run
    <3>3. P \in SUBSET Nat /\ 0 \in P
      BY <3>1
    <3>4. ASSUME NEW m \in P PROVE m + 1 \in P
      <4>1. m \in Nat /\ m + 1 \in Nat /\ (m + 1 < n => m < n)
        BY <1>1
      <4>2. QED
        BY <4>1, <3>2
    <3> HIDE DEF P
    <3>5. n - 1 \in Nat /\ n - 1 < n /\ (n - 1) + 1 = n
      BY <1>1, <1>3
    <3>6. n - 1 \in P
      BY <3>3, <3>4, <3>5, EveryNumber
    <3>7. Run(n - 1)
      BY <3>5, <3>6 DEF P
    <3>8. QED
      BY <3>5, <3>7 DEF Run
  <2>2. flatten = [i \in 1 .. n |-> IF i = 1 THEN seqs[i] ELSE flatten[i - 1] \o seqs[i]]
    BY <2>1
  <2>3. FlattenSeq(seqs) = flatten[n]
    BY <1>3 DEF FlattenSeq
  <2> HIDE DEF flatten, P, Run
  <2>4. flatten[1] = seqs[1] /\ \A i \in 2 .. n : flatten[i] = flatten[i - 1] \o seqs[i]
    <3>1. 1 \in 1 .. n /\ \A i \in 2 .. n : i \in 1 .. n /\ i # 1
      BY <1>1, <1>3
    <3>2. QED
      BY <3>1, <2>2
  <2> DEFINE Row(m) ==
        /\ flatten[m] \in Seq(S)
        /\ \A q : (\A i \in 1 .. m : Untold(seqs[i], q)) <=> Untold(flatten[m], q)
        /\ \A x : (\A i \in 1 .. m : Follows(seqs[i], x)) => Follows(flatten[m], x)
        /\ \A q : \A i \in 1 .. m :
             ToldOnce(seqs[i], q) /\ (\A j \in (1 .. m) \ {i} : Untold(seqs[j], q)) => ToldOnce(flatten[m], q)
             R == {m \in Nat : m < n => Row(m + 1)}
  <2>5. 0 \in R
    <3>1. 1 \in 1 .. n /\ (1 .. 0 + 1) = {1} /\ 0 + 1 = 1
      BY <1>1, <1>3
    <3>2. QED
      BY <3>1, <2>4, <1>1
  <2>6. ASSUME NEW m \in R PROVE m + 1 \in R
    <3> SUFFICES ASSUME m + 1 < n PROVE Row((m + 1) + 1)
      BY <2>6
    <3> DEFINE k == m + 1
               l == k + 1
    <3>1. m \in Nat /\ k \in Nat /\ k \in 1 .. n /\ l \in 2 .. n /\ l - 1 = k /\ l \in 1 .. n
          /\ (1 .. l) = (1 .. k) \cup {l} /\ l \notin 1 .. k
      BY <1>1
    <3>2. Row(k)
      BY <3>1, <1>1
    <3> HIDE DEF k, l
    <3>3. flatten[l] = flatten[k] \o seqs[l] /\ flatten[k] \in Seq(S) /\ seqs[l] \in Seq(S)
      BY <3>1, <3>2, <2>4, <1>1
    <3>4. flatten[l] \in Seq(S)
      BY <3>3, TellTogether
    <3>5. ASSUME NEW q PROVE (\A i \in 1 .. l : Untold(seqs[i], q)) <=> Untold(flatten[l], q)
      <4>1. (\A i \in 1 .. k : Untold(seqs[i], q)) <=> Untold(flatten[k], q)
        BY <3>2
      <4>2. Untold(flatten[l], q) <=> Untold(flatten[k], q) /\ Untold(seqs[l], q)
        BY <3>3, TellTogether
      <4>3. QED
        BY <3>1, <4>1, <4>2
    <3>6. ASSUME NEW x, \A i \in 1 .. l : Follows(seqs[i], x) PROVE Follows(flatten[l], x)
      <4>1. Follows(flatten[k], x) /\ Follows(seqs[l], x)
        BY <3>1, <3>2, <3>6
      <4>2. QED
        BY <4>1, <3>3, FollowTogether
    <3>7. ASSUME NEW q, NEW i \in 1 .. l, ToldOnce(seqs[i], q),
                 \A j \in (1 .. l) \ {i} : Untold(seqs[j], q)
          PROVE  ToldOnce(flatten[l], q)
      <4>1. CASE i = l
        <5>1. \A j \in 1 .. k : Untold(seqs[j], q)
          BY <4>1, <3>1, <3>7
        <5>2. Untold(flatten[k], q)
          BY <5>1, <3>2
        <5>3. QED
          BY <4>1, <5>2, <3>3, <3>7, TellTogether
      <4>2. CASE i # l
        <5>1. i \in 1 .. k /\ Untold(seqs[l], q) /\ \A j \in (1 .. k) \ {i} : Untold(seqs[j], q)
          BY <4>2, <3>1, <3>7
        <5>2. ToldOnce(flatten[k], q)
          BY <5>1, <3>2, <3>7
        <5>3. QED
          BY <5>1, <5>2, <3>3, TellTogether
      <4>3. QED
        BY <4>1, <4>2
    <3>8. Row(l)
      BY <3>4, <3>5, <3>7, <3>6
    <3>9. QED
      BY <3>8 DEF l, k
  <2>7. R \in SUBSET Nat
    OBVIOUS
  <2> HIDE DEF R
  <2>8. n - 1 \in Nat /\ n - 1 < n /\ (n - 1) + 1 = n
    BY <1>1, <1>3
  <2>9. Row(n)
    <3>1. n - 1 \in R
      BY <2>5, <2>6, <2>7, <2>8, EveryNumber
    <3>2. QED
      BY <2>8, <3>1 DEF R
  <2>10. QED
    BY <2>9, <2>3, <1>1
<1>4. QED
  BY <1>2, <1>3

(* The paths from a path on, and those through one of some slots of it;    *)
(* the segments whose paths are such.                                      *)
PathsFrom(path) ==
  {q \in Paths : Len(q) >= Len(path) /\ \A j \in 1 .. Len(path) : q[j] = path[j]}

Through(path, slots) == UNION {PathsFrom(Append(path, slot)) : slot \in slots}

Classes       == {"fs:delete", "fs:write", "net", "vcs", "unknown"}
SegsAt(paths) == [path : paths, class : SUBSET Classes, depth : Nat]

(* The slots that some of the statements of one part have.                 *)
Parts == {"body", "arg", "redir"}
SlotsOf(part, ks) == {slot \in Slots : slot[1] = part /\ slot[2] \in ks}

LEMMA PathsPart ==
  ASSUME NEW path \in Paths, NEW slot \in Slots
  PROVE  /\ Append(path, slot) \in Paths /\ path \in PathsFrom(path)
         /\ PathsFrom(Append(path, slot)) \subseteq PathsFrom(path)
         /\ path \notin PathsFrom(Append(path, slot))
         /\ \A other \in Slots \ {slot} : PathsFrom(Append(path, slot)) \cap PathsFrom(Append(path, other)) = {}
<1> DEFINE n == Len(path)
<1> HIDE DEF Slots
<1>1. n \in Nat /\ path \in Seq(Slots)
  BY DEF Paths
<1>2. \A x \in Slots : /\ Append(path, x) \in Seq(Slots) /\ Len(Append(path, x)) = n + 1
                       /\ Append(path, x)[n + 1] = x
                       /\ \A j \in 1 .. n : Append(path, x)[j] = path[j]
  BY <1>1
<1> HIDE DEF n
<1>3. \A x \in Slots : \A q \in PathsFrom(Append(path, x)) :
        q \in Paths /\ Len(q) \in Nat /\ Len(q) >= n + 1 /\ q[n + 1] = x /\ \A j \in 1 .. n : q[j] = path[j]
  <2>1. ASSUME NEW x \in Slots, NEW q \in PathsFrom(Append(path, x))
        PROVE  q \in Paths /\ Len(q) \in Nat /\ Len(q) >= n + 1 /\ q[n + 1] = x
               /\ \A j \in 1 .. n : q[j] = path[j]
    <3>1. q \in Paths /\ Len(q) \in Nat /\ Len(q) >= n + 1
          /\ \A j \in 1 .. n + 1 : q[j] = Append(path, x)[j]
      BY <1>2 DEF PathsFrom, Paths
    <3>2. n + 1 \in 1 .. n + 1 /\ \A j \in 1 .. n : j \in 1 .. n + 1
      BY <1>1
    <3>3. q[n + 1] = Append(path, x)[n + 1] /\ \A j \in 1 .. n : q[j] = Append(path, x)[j]
      BY <3>1, <3>2
    <3>4. QED
      BY <3>1, <3>3, <1>2
  <2>2. QED
    BY <2>1
<1>4. path \in PathsFrom(path) /\ Append(path, slot) \in Paths
  BY <1>1, <1>2 DEF PathsFrom, Paths, n
<1>5. PathsFrom(Append(path, slot)) \subseteq PathsFrom(path)
  <2>1. ASSUME NEW q \in PathsFrom(Append(path, slot)) PROVE q \in PathsFrom(path)
    <3>1. q \in Paths /\ Len(q) \in Nat /\ Len(q) >= n + 1 /\ \A j \in 1 .. n : q[j] = path[j]
      BY <1>3
    <3>2. Len(q) >= n
      BY <3>1, <1>1
    <3>3. QED
      BY <3>1, <3>2 DEF PathsFrom, n
  <2>2. QED
    BY <2>1
<1>6. path \notin PathsFrom(Append(path, slot))
  <2>1. ~(Len(path) >= n + 1)
    BY <1>1 DEF n
  <2>2. QED
    BY <2>1, <1>3
<1>7. \A other \in Slots \ {slot} : PathsFrom(Append(path, slot)) \cap PathsFrom(Append(path, other)) = {}
  BY <1>3
<1>8. QED
  BY <1>4, <1>5, <1>6, <1>7

(* What holds of the paths through slots.                                  *)
LEMMA ThroughPart ==
  ASSUME NEW path \in Paths, NEW K \in SUBSET Slots
  PROVE  /\ Through(path, K) \subseteq PathsFrom(path) /\ path \notin Through(path, K)
         /\ \A slot \in K : PathsFrom(Append(path, slot)) \subseteq Through(path, K)
         /\ \A L \in SUBSET Slots : K \cap L = {} => Through(path, K) \cap Through(path, L) = {}
         /\ \A L \in SUBSET Slots : K \subseteq L => Through(path, K) \subseteq Through(path, L)
<1> HIDE DEF Slots
<1>1. \A slot \in Slots :
         /\ PathsFrom(Append(path, slot)) \subseteq PathsFrom(path)
         /\ path \notin PathsFrom(Append(path, slot))
         /\ \A other \in Slots \ {slot} : PathsFrom(Append(path, slot)) \cap PathsFrom(Append(path, other)) = {}
  BY PathsPart
<1> HIDE DEF PathsFrom
<1>2. Through(path, K) \subseteq PathsFrom(path) /\ path \notin Through(path, K)
  BY <1>1 DEF Through
<1>3. \A slot \in K : PathsFrom(Append(path, slot)) \subseteq Through(path, K)
  BY DEF Through
<1>4. ASSUME NEW L \in SUBSET Slots, K \cap L = {} PROVE Through(path, K) \cap Through(path, L) = {}
  <2>1. ASSUME NEW q \in Through(path, K), q \in Through(path, L) PROVE FALSE
    <3>1. PICK slot \in K : q \in PathsFrom(Append(path, slot))
      BY <2>1 DEF Through
    <3>2. PICK other \in L : q \in PathsFrom(Append(path, other))
      BY <2>1 DEF Through
    <3>3. other \in Slots \ {slot} /\ slot \in Slots
      BY <3>1, <3>2, <1>4
    <3>4. QED
      BY <1>1, <3>1, <3>2, <3>3
  <2>2. QED
    BY <2>1
<1>5. \A L \in SUBSET Slots : K \subseteq L => Through(path, K) \subseteq Through(path, L)
  BY DEF Through
<1>6. QED
  BY <1>2, <1>3, <1>4, <1>5

LEMMA SegsPart ==
  ASSUME NEW P, NEW Q, P \subseteq Q, NEW T \in Seq(SegsAt(P))
  PROVE  /\ T \in Seq(SegsAt(Q)) /\ \A q : q \notin P => Untold(T, q)
         /\ \A x : x[1] \notin P => Follows(T, x)
<1>1. SegsAt(P) \subseteq SegsAt(Q) /\ \A g \in SegsAt(P) : g.path \in P
  BY DEF SegsAt
<1>2. \A i \in DOMAIN T : T[i] \in SegsAt(P)
  OBVIOUS
<1>3. T \in Seq(SegsAt(Q))
  BY <1>1
<1>4. QED
  BY <1>1, <1>2, <1>3 DEF Untold, Follows
-----------------------------------------------------------------------------
(* W tells of the statements of S: each one's segments have paths from its *)
(* own on, each call that C finds in it has one of them, and each step     *)
(* into a script that D finds in it is followed.                           *)
Tells(W, C, D, S) ==
  \A s \in S, path \in Paths, depth \in Nat :
    /\ W[s][path][depth] \in Seq(SegsAt(PathsFrom(path)))
    /\ C[s][path] \subseteq PathsFrom(path)
    /\ \A q \in C[s][path] : ToldOnce(W[s][path][depth], q)
    /\ \A x \in D[s][path] : x[1] \in PathsFrom(path) /\ Follows(W[s][path][depth], x)

LEMMA StmtsTell ==
  ASSUME NEW W, NEW C, NEW D, NEW S, Tells(W, C, D, S), NEW ss \in Seq(S), NEW part \in Parts, NEW k \in Nat,
         NEW path \in Paths, NEW depth \in Nat
  PROVE  /\ Stmts(W, ss, part, k, path, depth) \in Seq(SegsAt(Through(path, SlotsOf(part, {k}))))
         /\ CallsOf(C, Held(ss, part, k), path) \subseteq Through(path, SlotsOf(part, {k}))
         /\ \A q \in CallsOf(C, Held(ss, part, k), path) : ToldOnce(Stmts(W, ss, part, k, path, depth), q)
         /\ \A x \in CallsOf(D, Held(ss, part, k), path) :
              /\ x[1] \in Through(path, SlotsOf(part, {k}))
              /\ Follows(Stmts(W, ss, part, k, path, depth), x)
<1> DEFINE slot(i) == <<part, k, i>>
           K == SlotsOf(part, {k})
           X == SegsAt(Through(path, K))
           told == [i \in DOMAIN ss |-> W[ss[i]][Append(path, slot(i))][depth]]
<1>1. \A i \in DOMAIN ss : i \in Nat /\ ss[i] \in S
  OBVIOUS
<1>2. \A i \in DOMAIN ss : slot(i) \in Slots /\ slot(i) \in K
  BY <1>1 DEF Slots, SlotsOf, Parts
<1>3. K \in SUBSET Slots
  BY DEF SlotsOf
<1>4. \A i, j \in DOMAIN ss : slot(i) = slot(j) => i = j
  OBVIOUS
<1> HIDE DEF slot, K, Slots, Paths
<1>5. \A i \in DOMAIN ss : /\ Append(path, slot(i)) \in Paths
                           /\ PathsFrom(Append(path, slot(i))) \subseteq Through(path, K)
  BY <1>2, <1>3, PathsPart, ThroughPart
<1>6. \A i \in DOMAIN ss :
        /\ told[i] = W[ss[i]][Append(path, slot(i))][depth]
        /\ told[i] \in Seq(SegsAt(PathsFrom(Append(path, slot(i)))))
        /\ C[ss[i]][Append(path, slot(i))] \subseteq PathsFrom(Append(path, slot(i)))
        /\ \A q \in C[ss[i]][Append(path, slot(i))] : ToldOnce(told[i], q)
        /\ \A x \in D[ss[i]][Append(path, slot(i))] :
             x[1] \in PathsFrom(Append(path, slot(i))) /\ Follows(told[i], x)
  BY <1>1, <1>5 DEF Tells
<1>7. DOMAIN told = 1 .. Len(ss) /\ DOMAIN ss = 1 .. Len(ss) /\ Len(ss) \in Nat
  OBVIOUS
<1>8. Stmts(W, ss, part, k, path, depth) = FlattenSeq(told)
  BY DEF Stmts, slot
<1> HIDE DEF told
<1>9. \A i \in DOMAIN ss : told[i] \in Seq(X)
  BY <1>5, <1>6, SegsPart
<1>10. told \in Seq(Seq(X))
  <2>1. told = [i \in 1 .. Len(ss) |-> told[i]]
    BY <1>7, <1>8 DEF told
  <2>2. QED
    BY <1>7, <1>9, <2>1
<1>11. \A h \in Held(ss, part, k) : \E i \in DOMAIN ss : h.stmt = ss[i] /\ h.slot = slot(i)
  BY DEF Held, slot
<1>12. ASSUME NEW q \in CallsOf(C, Held(ss, part, k), path)
       PROVE  q \in Through(path, K) /\ ToldOnce(FlattenSeq(told), q)
  <2>1. PICK i \in DOMAIN ss : q \in C[ss[i]][Append(path, slot(i))]
    <3>1. PICK h \in Held(ss, part, k) : q \in C[h.stmt][Append(path, h.slot)]
      BY <1>12 DEF CallsOf
    <3>2. QED
      BY <1>11, <3>1
  <2>2. q \in PathsFrom(Append(path, slot(i))) /\ ToldOnce(told[i], q)
    BY <2>1, <1>6
  <2>3. ASSUME NEW j \in DOMAIN ss \ {i} PROVE Untold(told[j], q)
    <3>1. slot(j) \in Slots \ {slot(i)} /\ slot(i) \in Slots
      BY <1>2, <1>4
    <3>2. q \notin PathsFrom(Append(path, slot(j)))
      BY <2>2, <3>1, PathsPart
    <3>3. QED
      BY <1>6, <3>2, SegsPart
  <2>4. QED
    BY <1>5, <1>7, <1>10, <2>2, <2>3, TellInARow
<1>13. ASSUME NEW x \in CallsOf(D, Held(ss, part, k), path)
       PROVE  x[1] \in Through(path, K) /\ Follows(FlattenSeq(told), x)
  <2>1. PICK i \in DOMAIN ss : x \in D[ss[i]][Append(path, slot(i))]
    <3>1. PICK h \in Held(ss, part, k) : x \in D[h.stmt][Append(path, h.slot)]
      BY <1>13 DEF CallsOf
    <3>2. QED
      BY <1>11, <3>1
  <2>2. x[1] \in PathsFrom(Append(path, slot(i))) /\ Follows(told[i], x)
    BY <2>1, <1>6
  <2>3. ASSUME NEW j \in DOMAIN ss \ {i} PROVE Follows(told[j], x)
    <3>1. slot(j) \in Slots \ {slot(i)} /\ slot(i) \in Slots
      BY <1>2, <1>4
    <3>2. x[1] \notin PathsFrom(Append(path, slot(j)))
      BY <2>2, <3>1, PathsPart
    <3>3. QED
      BY <1>6, <3>2, SegsPart
  <2>4. \A j \in DOMAIN told : Follows(told[j], x)
    BY <1>7, <2>2, <2>3
  <2>5. Follows(FlattenSeq(told), x)
    BY <1>10, <2>4, TellInARow
  <2>6. QED
    BY <1>5, <2>2, <2>5
<1>14. FlattenSeq(told) \in Seq(X)
  BY <1>10, TellInARow
<1>15. QED
  BY <1>8, <1>12, <1>13, <1>14 DEF K

(* Which words are static, or are not.                                     *)
Those(words, static) == {k \in DOMAIN words : words[k].static = static}

(* The substitutions of the words.                                         *)
LEMMA SubstsTell ==
  ASSUME NEW W, NEW C, NEW D, NEW S, Tells(W, C, D, S), NEW words \in Seq(ArgsOver(S)), NEW part \in Parts,
         NEW path \in Paths, NEW depth \in Nat
  PROVE  LET K == SlotsOf(part, Those(words, FALSE))
         IN  /\ Substs(W, words, part, path, depth) \in Seq(SegsAt(Through(path, K)))
             /\ CallsOf(C, HeldByWords(words, FALSE, part), path) \subseteq Through(path, K)
             /\ \A q \in CallsOf(C, HeldByWords(words, FALSE, part), path) :
                  ToldOnce(Substs(W, words, part, path, depth), q)
             /\ \A x \in CallsOf(D, HeldByWords(words, FALSE, part), path) :
                  x[1] \in Through(path, K) /\ Follows(Substs(W, words, part, path, depth), x)
<1> DEFINE open == Those(words, FALSE)
           K == SlotsOf(part, open)
           X == SegsAt(Through(path, K))
           of(k) == Stmts(W, words[k].stmts, part, k, path, depth + 1)
           told == [k \in DOMAIN words |-> IF words[k].static THEN <<>> ELSE of(k)]
<1>1. \A k \in DOMAIN words : k \in Nat /\ words[k].static \in BOOLEAN /\ words[k].stmts \in Seq(S)
  <2>1. \A k \in DOMAIN words : k \in Nat /\ words[k] \in ArgsOver(S)
    OBVIOUS
  <2>2. QED
    BY <2>1 DEF ArgsOver
<1>2. open \subseteq DOMAIN words /\ \A k \in DOMAIN words : ~words[k].static <=> k \in open
  BY <1>1 DEF Those
<1>3. \A k \in open : SlotsOf(part, {k}) \subseteq K
  BY DEF SlotsOf
<1>4. \A k, m : k # m => SlotsOf(part, {k}) \cap SlotsOf(part, {m}) = {}
  BY DEF SlotsOf
<1>5. K \in SUBSET Slots /\ \A k : SlotsOf(part, {k}) \in SUBSET Slots
  BY DEF SlotsOf
<1>6. depth + 1 \in Nat
  OBVIOUS
<1> DEFINE Here(k) == Through(path, SlotsOf(part, {k}))
<1>7. /\ \A k \in open : Here(k) \subseteq Through(path, K)
      /\ \A k, m : k # m => Here(k) \cap Here(m) = {}
  BY <1>3, <1>4, <1>5, ThroughPart
<1>8. \A k \in open :
        /\ of(k) \in Seq(SegsAt(Here(k)))
        /\ CallsOf(C, Held(words[k].stmts, part, k), path) \subseteq Here(k)
        /\ \A q \in CallsOf(C, Held(words[k].stmts, part, k), path) : ToldOnce(of(k), q)
        /\ \A x \in CallsOf(D, Held(words[k].stmts, part, k), path) : x[1] \in Here(k) /\ Follows(of(k), x)
  BY <1>1, <1>2, <1>6, StmtsTell
<1>9. DOMAIN told = 1 .. Len(words) /\ DOMAIN words = 1 .. Len(words) /\ Len(words) \in Nat
  OBVIOUS
<1>10. \A k \in DOMAIN words : /\ k \in open => told[k] = of(k)
                               /\ k \notin open => told[k] = <<>>
  BY <1>2
<1>11. Substs(W, words, part, path, depth) = FlattenSeq(told)
  BY DEF Substs
<1>12. told = [k \in 1 .. Len(words) |-> told[k]]
  BY <1>9
<1>13. HeldByWords(words, FALSE, part) = UNION {Held(words[k].stmts, part, k) : k \in open}
  BY DEF HeldByWords, Those
<1> HIDE DEF told, of, open, K, Here
<1>14. \A k \in DOMAIN words : told[k] \in Seq(X)
  <2>1. <<>> \in Seq(X)
    OBVIOUS
  <2>2. \A k \in open : of(k) \in Seq(X)
    BY <1>7, <1>8, SegsPart
  <2>3. QED
    BY <2>1, <2>2, <1>10
<1>15. told \in Seq(Seq(X))
  BY <1>9, <1>12, <1>14
<1>16. ASSUME NEW q \in CallsOf(C, HeldByWords(words, FALSE, part), path)
       PROVE  q \in Through(path, K) /\ ToldOnce(FlattenSeq(told), q)
  <2>1. PICK k \in open : q \in CallsOf(C, Held(words[k].stmts, part, k), path)
    <3>1. PICK h \in HeldByWords(words, FALSE, part) : q \in C[h.stmt][Append(path, h.slot)]
      BY <1>16 DEF CallsOf
    <3>2. PICK k \in open : h \in Held(words[k].stmts, part, k)
      BY <1>13, <3>1
    <3>3. q \in CallsOf(C, Held(words[k].stmts, part, k), path)
      BY <3>1, <3>2 DEF CallsOf
    <3>4. QED
      BY <3>3
  <2>2. q \in Here(k) /\ k \in DOMAIN words /\ ToldOnce(told[k], q)
    BY <2>1, <1>2, <1>8, <1>10
  <2>3. ASSUME NEW m \in DOMAIN words \ {k} PROVE Untold(told[m], q)
    <3>1. CASE m \in open
      <4>1. q \notin Here(m)
        BY <2>2, <1>7
      <4>2. QED
        BY <3>1, <4>1, <1>8, <1>10, SegsPart
    <3>2. CASE m \notin open
      <4>1. told[m] = <<>> /\ DOMAIN <<>> = {}
        BY <3>2, <1>10
      <4>2. QED
        BY <4>1 DEF Untold
    <3>3. QED
      BY <3>1, <3>2
  <2>4. QED
    BY <1>7, <1>9, <1>15, <2>2, <2>3, TellInARow
<1>17. ASSUME NEW x \in CallsOf(D, HeldByWords(words, FALSE, part), path)
       PROVE  x[1] \in Through(path, K) /\ Follows(FlattenSeq(told), x)
  <2>1. PICK k \in open : x \in CallsOf(D, Held(words[k].stmts, part, k), path)
    <3>1. PICK h \in HeldByWords(words, FALSE, part) : x \in D[h.stmt][Append(path, h.slot)]
      BY <1>17 DEF CallsOf
    <3>2. PICK k \in open : h \in Held(words[k].stmts, part, k)
      BY <1>13, <3>1
    <3>3. x \in CallsOf(D, Held(words[k].stmts, part, k), path)
      BY <3>1, <3>2 DEF CallsOf
    <3>4. QED
      BY <3>3
  <2>2. x[1] \in Here(k) /\ k \in DOMAIN words /\ Follows(told[k], x)
    BY <2>1, <1>2, <1>8, <1>10
  <2>3. ASSUME NEW m \in DOMAIN words \ {k} PROVE Follows(told[m], x)
    <3>1. CASE m \in open
      <4>1. x[1] \notin Here(m)
        BY <2>2, <1>7
      <4>2. QED
        BY <3>1, <4>1, <1>8, <1>10, SegsPart
    <3>2. CASE m \notin open
      <4>1. told[m] = <<>> /\ DOMAIN <<>> = {}
        BY <3>2, <1>10
      <4>2. QED
        BY <4>1 DEF Follows
    <3>3. QED
      BY <3>1, <3>2
  <2>4. \A m \in DOMAIN told : Follows(told[m], x)
    BY <1>9, <2>2, <2>3
  <2>5. Follows(FlattenSeq(told), x)
    BY <1>15, <2>4, TellInARow
  <2>6. QED
    BY <1>7, <2>2, <2>5
<1>18. FlattenSeq(told) \in Seq(X)
  BY <1>15, TellInARow
<1>19. QED
  BY <1>11, <1>16, <1>17, <1>18 DEF K, open
-----------------------------------------------------------------------------
(* Words that stand in argv behind its first `from`, and what the classes  *)
(* and the segments of scripts among them can be.                          *)
Placed(words, argv, from) ==
  /\ words \in Seq(ToSet(argv)) /\ from \in Nat
  /\ \A k \in DOMAIN words : from + k \in DOMAIN argv /\ words[k] = argv[from + k]

ScriptSegs(argv, path) == SegsAt(Through(path, SlotsOf("arg", Those(argv, TRUE))))

GoodSegs(D, argv, path) ==
  {T \in Seq(ScriptSegs(argv, path)) :
     \A x \in CallsOf(D, HeldByWords(argv, TRUE, "arg"), path) : Follows(T, x)}

Results(D, argv, path) == [class : SUBSET Classes, segs : GoodSegs(D, argv, path)]

LEMMA GoodTogether ==
  ASSUME NEW D, NEW argv, NEW path
  PROVE  LET Good == GoodSegs(D, argv, path)
         IN  /\ <<>> \in Good
             /\ \A A, B \in Good : A \o B \in Good
             /\ \A seqs \in Seq(Good) : FlattenSeq(seqs) \in Good
<1> DEFINE X == ScriptSegs(argv, path)
           steps == CallsOf(D, HeldByWords(argv, TRUE, "arg"), path)
           Good == GoodSegs(D, argv, path)
<1>1. \A T : T \in Good <=> T \in Seq(X) /\ \A x \in steps : Follows(T, x)
  BY DEF GoodSegs
<1> HIDE DEF X, steps, Good
<1>2. <<>> \in Good
  <2>1. <<>> \in Seq(X) /\ DOMAIN <<>> = {}
    OBVIOUS
  <2>2. QED
    BY <2>1, <1>1 DEF Follows
<1>3. ASSUME NEW A \in Good, NEW B \in Good PROVE A \o B \in Good
  <2>1. A \in Seq(X) /\ B \in Seq(X)
    BY <1>1
  <2>2. A \o B \in Seq(X)
    BY <2>1
  <2>3. \A x \in steps : Follows(A \o B, x)
    BY <1>1, <2>1, FollowTogether
  <2>4. QED
    BY <1>1, <2>2, <2>3
<1>4. ASSUME NEW seqs \in Seq(Good) PROVE FlattenSeq(seqs) \in Good
  <2>1. seqs \in Seq(Seq(X)) /\ \A i \in DOMAIN seqs : seqs[i] \in Good
    <3>1. Good \subseteq Seq(X)
      BY <1>1
    <3>2. QED
      BY <3>1
  <2>2. FlattenSeq(seqs) \in Seq(X)
    BY <2>1, TellInARow
  <2>3. ASSUME NEW x \in steps PROVE Follows(FlattenSeq(seqs), x)
    <3>1. \A i \in DOMAIN seqs : Follows(seqs[i], x)
      BY <1>1, <2>1
    <3>2. QED
      BY <2>1, <3>1, TellInARow
  <2>4. QED
    BY <1>1, <2>2, <2>3
<1>5. QED
  BY <1>2, <1>3, <1>4 DEF Good

LEMMA NoSegs ==
  ASSUME NEW D, NEW argv, NEW path, NEW class \in SUBSET Classes
  PROVE  Result(class, <<>>) \in Results(D, argv, path)
BY GoodTogether DEF Result, Results

LEMMA PlacedWords ==
  ASSUME NEW S, NEW argv \in Seq(ArgsOver(S)), NEW words, NEW from, Placed(words, argv, from)
  PROVE  /\ Len(words) \in Nat /\ DOMAIN words = 1 .. Len(words)
         /\ \A k \in DOMAIN words : /\ words[k] \in ArgsOver(S) /\ words[k].static \in BOOLEAN
                                    /\ words[k].stmts \in Seq(S) /\ from + k \in Nat
                                    /\ words[k].static => from + k \in Those(argv, TRUE)
<1>1. words \in Seq(ToSet(argv)) /\ ToSet(argv) \subseteq ArgsOver(S)
  BY DEF Placed, ToSet
<1>2. Len(words) \in Nat /\ DOMAIN words = 1 .. Len(words) /\ \A k \in DOMAIN words : words[k] \in ArgsOver(S)
  BY <1>1
<1>3. \A k \in DOMAIN words : words[k].static \in BOOLEAN /\ words[k].stmts \in Seq(S)
  BY <1>2 DEF ArgsOver
<1>4. \A k \in DOMAIN words : from + k \in DOMAIN argv /\ words[k] = argv[from + k] /\ from + k \in Nat
  BY <1>2 DEF Placed
<1>5. \A k \in DOMAIN words : words[k].static => from + k \in Those(argv, TRUE)
  BY <1>3, <1>4 DEF Those
<1>6. QED
  BY <1>2, <1>3, <1>4, <1>5

(* A part of placed words is placed.                                       *)
LEMMA PartPlaced ==
  ASSUME NEW S, NEW argv \in Seq(ArgsOver(S)), NEW words, NEW from, Placed(words, argv, from),
         NEW i \in 1 .. Len(words) + 1, NEW j \in Nat, j <= Len(words)
  PROVE  Placed(SubSeq(words, i, j), argv, from + (i - 1))
<1> DEFINE part == SubSeq(words, i, j)
           n == IF j < i THEN 0 ELSE (j - i) + 1
<1>1. /\ words \in Seq(ToSet(argv)) /\ from \in Nat /\ Len(words) \in Nat /\ DOMAIN words = 1 .. Len(words)
      /\ \A k \in DOMAIN words : from + k \in DOMAIN argv /\ words[k] = argv[from + k]
  BY DEF Placed
<1>2. \A k \in i .. j : k \in DOMAIN words /\ words[k] \in ToSet(argv)
  BY <1>1
<1>3. part = [k \in 1 .. n |-> words[(i + k) - 1]]
  <2>1. 1 .. n = 1 .. (j - i) + 1
    BY <1>1
  <2>2. QED
    BY <1>1, <2>1
<1>4. n \in Nat /\ DOMAIN part = 1 .. n
  BY <1>1, <1>3
<1>5. \A k \in 1 .. n : /\ (i + k) - 1 \in i .. j /\ (from + (i - 1)) + k = from + ((i + k) - 1)
                        /\ part[k] = words[(i + k) - 1]
  BY <1>1, <1>3
<1> HIDE DEF n
<1>6. part \in Seq(ToSet(argv))
  <2>1. \A k \in 1 .. n : words[(i + k) - 1] \in ToSet(argv)
    BY <1>2, <1>5
  <2>2. QED
    BY <1>3, <1>4, <2>1
<1>7. from + (i - 1) \in Nat
  BY <1>1
<1>8. \A k \in 1 .. n : (from + (i - 1)) + k \in DOMAIN argv /\ part[k] = argv[(from + (i - 1)) + k]
  BY <1>1, <1>2, <1>5
<1>9. QED
  BY <1>4, <1>6, <1>7, <1>8 DEF Placed

LEMMA NestedTells ==
  ASSUME NEW W, NEW C, NEW D, NEW S, Tells(W, C, D, S), NEW argv \in Seq(ArgsOver(S)), NEW words, NEW from,
         Placed(words, argv, from), NEW which, which \subseteq Those(words, TRUE),
         NEW path \in Paths, NEW depth \in Nat
  PROVE  Nested(W, words, which, from, path, depth) \in Results(D, argv, path)
<1> DEFINE of(k) == Stmts(W, words[k].stmts, "arg", from + k, path, depth + 1)
           told == [k \in DOMAIN words |-> IF k \in which THEN of(k) ELSE <<>>]
           X == ScriptSegs(argv, path)
           Good == GoodSegs(D, argv, path)
           here(k) == SlotsOf("arg", {from + k})
           all == SlotsOf("arg", Those(argv, TRUE))
<1>1. depth + 1 \in Nat /\ "arg" \in Parts /\ Read \in SUBSET Classes /\ Unknown \in SUBSET Classes
  BY DEF Parts, Read, Unknown, Classes
<1>2. /\ Len(words) \in Nat /\ DOMAIN words = 1 .. Len(words)
      /\ \A k \in which : /\ k \in DOMAIN words /\ words[k].stmts \in Seq(S)
                          /\ from + k \in Nat /\ from + k \in Those(argv, TRUE)
  BY PlacedWords DEF Those
<1>3. all \in SUBSET Slots /\ \A k \in which : here(k) \in SUBSET Slots /\ here(k) \subseteq all
  BY <1>2 DEF SlotsOf
<1>4. \A k \in which : Through(path, here(k)) \subseteq Through(path, all)
  <2>1. ASSUME NEW k \in which PROVE Through(path, here(k)) \subseteq Through(path, all)
    <3>1. here(k) \in SUBSET Slots /\ all \in SUBSET Slots /\ here(k) \subseteq all
      BY <1>3
    <3> HIDE DEF here, all
    <3>2. QED
      BY <3>1, ThroughPart
  <2>2. QED
    BY <2>1
<1>5. \A k \in which :
        /\ of(k) \in Seq(SegsAt(Through(path, here(k))))
        /\ \A x \in CallsOf(D, Held(words[k].stmts, "arg", from + k), path) : Follows(of(k), x)
  <2>1. ASSUME NEW k \in which
        PROVE  /\ of(k) \in Seq(SegsAt(Through(path, here(k))))
               /\ \A x \in CallsOf(D, Held(words[k].stmts, "arg", from + k), path) : Follows(of(k), x)
    BY <1>1, <1>2, StmtsTell
  <2>2. QED
    BY <2>1
<1>6. \A k \in which : of(k) \in Good
  <2>1. X = SegsAt(Through(path, all))
    BY DEF ScriptSegs
  <2>2. argv \in Seq(ArgsOver(S)) /\ \A m \in DOMAIN argv : m \in Nat /\ argv[m].stmts \in Seq(S)
    <3>1. \A m \in DOMAIN argv : m \in Nat /\ argv[m] \in ArgsOver(S)
      OBVIOUS
    <3>2. QED
      BY <3>1 DEF ArgsOver
  <2>3. ASSUME NEW k \in which, NEW x \in CallsOf(D, HeldByWords(argv, TRUE, "arg"), path)
        PROVE  Follows(of(k), x)
    <3>1. PICK h \in HeldByWords(argv, TRUE, "arg") : x \in D[h.stmt][Append(path, h.slot)]
      BY <2>3 DEF CallsOf
    <3>2. PICK m \in DOMAIN argv : h \in Held(argv[m].stmts, "arg", m)
      BY <3>1 DEF HeldByWords
    <3>3. x \in CallsOf(D, Held(argv[m].stmts, "arg", m), path)
      BY <3>1, <3>2 DEF CallsOf
    <3>4. CASE m = from + k
      <4>1. words[k].stmts = argv[m].stmts
        BY <1>2, <3>4 DEF Placed
      <4>2. QED
        BY <1>5, <3>3, <3>4, <4>1
    <3>5. CASE m # from + k
      <4>1. x[1] \in Through(path, SlotsOf("arg", {m}))
        BY <1>1, <2>2, <3>3, StmtsTell
      <4>2. SlotsOf("arg", {m}) \cap SlotsOf("arg", {from + k}) = {}
        BY <3>5 DEF SlotsOf
      <4>3. SlotsOf("arg", {m}) \in SUBSET Slots /\ here(k) \in SUBSET Slots
        BY DEF SlotsOf
      <4>4. x[1] \notin Through(path, here(k))
        <5> DEFINE there == SlotsOf("arg", {m})
        <5>1. there \in SUBSET Slots /\ here(k) \in SUBSET Slots /\ there \cap here(k) = {}
          BY <4>2, <4>3
        <5>2. x[1] \in Through(path, there)
          BY <4>1
        <5> HIDE DEF here, there
        <5>3. Through(path, there) \cap Through(path, here(k)) = {}
          BY <5>1, ThroughPart
        <5>4. QED
          BY <5>2, <5>3
      <4> HIDE DEF of, here
      <4>5. of(k) \in Seq(SegsAt(Through(path, here(k))))
        BY <1>5
      <4>6. QED
        BY <4>4, <4>5, SegsPart
    <3>6. QED
      BY <3>4, <3>5
  <2> HIDE DEF of, here, all, X
  <2>4. ASSUME NEW k \in which PROVE of(k) \in Seq(X)
    <3>1. of(k) \in Seq(SegsAt(Through(path, here(k)))) /\ Through(path, here(k)) \subseteq Through(path, all)
      BY <1>4, <1>5
    <3>2. QED
      BY <2>1, <3>1, SegsPart
  <2>5. QED
    BY <2>3, <2>4 DEF GoodSegs, X
<1>7. Nested(W, words, which, from, path, depth) =
        IF depth + 1 > MaxDepth THEN Result(Unknown, <<>>) ELSE Result(Read, FlattenSeq(told))
  BY DEF Nested
<1>8. told \in Seq(Good)
  <2>1. <<>> \in Good
    BY GoodTogether
  <2> HIDE DEF of, Good
  <2>2. \A k \in DOMAIN words : told[k] \in Good
    BY <1>6, <2>1
  <2>3. told = [k \in 1 .. Len(words) |-> told[k]]
    BY <1>2
  <2> HIDE DEF told
  <2>4. QED
    BY <1>2, <2>2, <2>3
<1>9. FlattenSeq(told) \in Good
  BY <1>8, GoodTogether
<1> HIDE DEF told
<1>10. Result(Read, FlattenSeq(told)) \in Results(D, argv, path)
  BY <1>1, <1>9 DEF Result, Results
<1>11. QED
  BY <1>1, <1>7, <1>10, NoSegs

LEMMA EvalTells ==
  ASSUME NEW W, NEW C, NEW D, NEW S, Tells(W, C, D, S), NEW argv \in Seq(ArgsOver(S)), NEW words, NEW from,
         Placed(words, argv, from), NEW path \in Paths, NEW depth \in Nat
  PROVE  Eval(W, words, from, path, depth) \in Results(D, argv, path)
<1>1. Unknown \in SUBSET Classes
  BY DEF Unknown, Classes
<1>2. CASE \E k \in 2 .. Len(words) : ~words[k].static
  BY <1>1, <1>2, NoSegs DEF Eval
<1>3. CASE ~ \E k \in 2 .. Len(words) : ~words[k].static
  <2>1. \A k \in 2 .. Len(words) : k \in DOMAIN words /\ words[k].static = TRUE
    <3>1. \A k \in 2 .. Len(words) : k \in 1 .. Len(words)
      BY PlacedWords
    <3>2. QED
      BY <3>1, <1>3, PlacedWords
  <2>2. 2 .. Len(words) \subseteq Those(words, TRUE)
    BY <2>1 DEF Those
  <2>3. Eval(W, words, from, path, depth) = Nested(W, words, 2 .. Len(words), from, path, depth)
    BY <1>3 DEF Eval
  <2>4. QED
    BY <2>2, <2>3, NestedTells
<1>4. QED
  BY <1>2, <1>3

(* Where the script of a shell stands.                                     *)
LEMMA ScriptPlace ==
  ASSUME NEW args, NEW X, args \in Seq(X), ScriptAt(args) # 0
  PROVE  ScriptAt(args) \in DOMAIN args /\ args[ScriptAt(args)].static
<1> DEFINE opaque(i) == ~args[i].static \/ args[i].value = "--" \/ ~IsFlag(args[i])
           asks(i)   == args[i].static /\ args[i].value \in {"-c", "-lc"}
           at        == {i \in DOMAIN args : asks(i) /\ \A j \in 1 .. i - 1 : ~opaque(j) /\ ~asks(j)}
           i         == CHOOSE k \in at : TRUE
<1>1. ScriptAt(args) = IF at = {} THEN 0
                       ELSE IF i + 1 <= Len(args) /\ args[i + 1].static THEN i + 1 ELSE 0
  BY DEF ScriptAt
<1>2. at # {} /\ i + 1 <= Len(args) /\ args[i + 1].static /\ ScriptAt(args) = i + 1
  BY <1>1
<1>3. i \in at /\ at \subseteq DOMAIN args
  BY <1>2
<1> HIDE DEF i, at
<1>4. i \in 1 .. Len(args) /\ Len(args) \in Nat /\ DOMAIN args = 1 .. Len(args)
  BY <1>3
<1>5. i + 1 \in DOMAIN args
  BY <1>2, <1>4
<1>6. QED
  BY <1>2, <1>5

LEMMA SomeLeast ==
  ASSUME NEW T \in SUBSET Nat, T # {}
  PROVE  \E x \in T : \A y \in T : x <= y
<1>1. IsWellFoundedOn(OpToRel(<, Nat), Nat)
  BY NatLessThanWellFounded
<1>2. PICK x \in T : \A y \in T : ~ (<<y, x>> \in OpToRel(<, Nat))
  BY <1>1, WFMin
<1>3. \A y \in T : ~ (y < x)
  BY <1>2 DEF OpToRel
<1>4. QED
  BY <1>3

(* What a table, a redirect and a wrapper without a command give.          *)
LEMMA ClassesOf ==
  /\ \A bin, args : Lookup(bin, args) \in SUBSET Classes
  /\ \A redirs : RedirectsClass(redirs) \in SUBSET Classes
  /\ \A bin : EmptyClass(bin) \in SUBSET Classes
  /\ {Read, Unknown, {"fs:delete"}, {"fs:write"}} \subseteq SUBSET Classes
<1>1. {Read, Unknown, {"fs:delete"}, {"fs:write"}} \subseteq SUBSET Classes
  BY DEF Read, Unknown, Classes
<1>2. \A key \in DOMAIN Table : Table[key] \subseteq Classes
  BY DEF Table, Classes, Read
<1>3. ASSUME NEW bin, NEW args PROVE Lookup(bin, args) \in SUBSET Classes
  <2> DEFINE split == SplitArgs(bin, args)
             sub   == IF split.subs = <<>> THEN "" ELSE split.subs[1]
             sub2  == IF Len(split.subs) < 2 THEN "" ELSE split.subs[2]
             hits  == {key \in {<<bin, f>> : f \in split.flags} \cup {<<bin, sub, f>> : f \in split.flags} :
                         key \in DOMAIN Table}
             rows  == <<<<bin, sub, sub2>>, <<bin, sub>>, <<bin>>>>
             found == {i \in 1 .. 3 : rows[i] \in DOMAIN Table}
  <2>1. Lookup(bin, args) = IF hits # {} THEN UNION {Table[key] : key \in hits}
                            ELSE IF found = {} THEN Unknown
                            ELSE Table[rows[CHOOSE i \in found : \A j \in found : i <= j]]
    BY DEF Lookup
  <2>2. \A key \in hits : key \in DOMAIN Table
    OBVIOUS
  <2>3. found \subseteq 1 .. 3 /\ \A i \in found : rows[i] \in DOMAIN Table
    OBVIOUS
  <2> HIDE DEF hits, found, rows
  <2>4. ASSUME found # {} PROVE \E i \in found : \A j \in found : i <= j
    <3>1. found \in SUBSET Nat
      BY <2>3
    <3>2. QED
      BY <3>1, <2>4, SomeLeast
  <2>5. UNION {Table[key] : key \in hits} \subseteq Classes
    BY <2>2, <1>2
  <2>6. found # {} => Table[rows[CHOOSE i \in found : \A j \in found : i <= j]] \subseteq Classes
    BY <2>3, <2>4, <1>2
  <2>7. QED
    BY <2>1, <2>5, <2>6, <1>1
<1>4. ASSUME NEW redirs PROVE RedirectsClass(redirs) \in SUBSET Classes
  <2>1. \A r : RedirectClass(r) \subseteq Classes
    BY <1>1 DEF RedirectClass
  <2>2. QED
    BY <2>1 DEF RedirectsClass
<1>5. \A bin : EmptyClass(bin) \in SUBSET Classes
  BY <1>1 DEF EmptyClass
<1>6. QED
  BY <1>1, <1>3, <1>4, <1>5

(* The scan that looks for where the inner command of a wrapper begins.    *)
SearchStates == [mode : {"found", "opaque", "value", "own"}, at : Nat, duration : BOOLEAN]

LEMMA UnwrapScan ==
  ASSUME NEW bin, NEW args, NEW X, args \in Seq(X), \A x \in X : x.static \in BOOLEAN
  PROVE  \E search \in [0 .. Len(args) -> SearchStates] :
           /\ search[0] = Searching("own", Len(args) + 1, FALSE)
           /\ \A i \in 1 .. Len(args) : search[i] = Looks(bin, args, search[i - 1], i)
           /\ Unwrap(bin, args) = search[Len(args)].at
<1> DEFINE n == Len(args)
           start == Searching("own", n + 1, FALSE)
           A == SearchStates
           h == [x \in (1 .. n) \X A |-> Looks(bin, args, x[2], x[1])]
           search == CHOOSE f : f = [i \in 0 .. n |-> IF i = 0 THEN start ELSE Looks(bin, args, f[i - 1], i)]
<1>1. n \in Nat /\ DOMAIN args = 1 .. n /\ \A i \in 1 .. n : args[i].static \in BOOLEAN /\ i \in Nat
  OBVIOUS
<1>2. start \in A
  BY <1>1 DEF Searching, SearchStates
<1>3. ASSUME NEW i \in 1 .. n, NEW s \in A PROVE Looks(bin, args, s, i) \in A
  <2>1. i \in Nat /\ i + 1 \in Nat /\ 0 \in Nat
    BY <1>1
  <2>2. CASE s.mode \in {"found", "opaque"}
    BY <2>2 DEF Looks, SearchStates
  <2>3. CASE s.mode = "value"
    BY <2>3 DEF Looks, SearchStates
  <2>4. CASE s.mode = "own" /\ ~args[i].static
    BY <2>1, <2>4 DEF Looks, Searching, SearchStates
  <2>5. CASE s.mode = "own" /\ args[i].static
    BY <2>1, <2>5 DEF Looks, Searching, SearchStates
  <2>6. QED
    BY <1>1, <2>2, <2>3, <2>4, <2>5 DEF SearchStates
<1> HIDE DEF A, n, start
<1>4. h \in [(1 .. n) \X A -> A] /\ \A i \in 1 .. n : \A s \in A : h[<<i, s>>] = Looks(bin, args, s, i)
  BY <1>3
<1> HIDE DEF h, search
<1>5. \E f : Recurses(f, A, start, n, h)
  <2>1. Steps(h, A, start, n)
    BY <1>1, <1>2, <1>4 DEF Steps
  <2>2. QED
    BY <2>1, RecursionEnds
<1>6. PICK f \in [0 .. n -> A] : f[0] = start /\ \A k \in 1 .. n : f[k] = h[<<k, f[k - 1]>>]
  BY <1>5 DEF Recurses
<1>7. f = [i \in 0 .. n |-> IF i = 0 THEN start ELSE Looks(bin, args, f[i - 1], i)]
  <2>1. \A k \in 1 .. n : k - 1 \in 0 .. n /\ f[k - 1] \in A
    BY <1>1
  <2>2. \A k \in 0 .. n : k = 0 \/ k \in 1 .. n
    BY <1>1
  <2>3. \A k \in 0 .. n : f[k] = IF k = 0 THEN start ELSE Looks(bin, args, f[k - 1], k)
    BY <1>4, <1>6, <2>1, <2>2
  <2>4. f = [k \in 0 .. n |-> f[k]]
    OBVIOUS
  <2>5. QED
    BY <2>3, <2>4
<1>8. search = [i \in 0 .. n |-> IF i = 0 THEN start ELSE Looks(bin, args, search[i - 1], i)]
  BY <1>7 DEF search
<1> DEFINE P == {m \in Nat : m <= n => search[m] \in A}
<1>9. 0 \in P
  <2>1. 0 \in 0 .. n
    BY <1>1
  <2>2. search[0] = start
    BY <1>8, <2>1
  <2>3. QED
    BY <2>2, <1>2
<1>10. ASSUME NEW m \in P PROVE m + 1 \in P
  <2>1. m \in Nat /\ m + 1 \in Nat /\ (m + 1 <= n => m <= n)
    BY <1>1
  <2>2. ASSUME m + 1 <= n PROVE search[m + 1] \in A
    <3>1. m + 1 \in 1 .. n /\ m + 1 \in 0 .. n /\ m + 1 # 0 /\ (m + 1) - 1 = m
      BY <1>1, <2>1, <2>2
    <3>2. search[m] \in A
      BY <2>1, <2>2
    <3>3. search[m + 1] = Looks(bin, args, search[m], m + 1)
      BY <1>8, <3>1
    <3>4. QED
      BY <1>3, <3>1, <3>2, <3>3
  <2>3. QED
    BY <2>1, <2>2
<1>11. P \in SUBSET Nat
  OBVIOUS
<1> HIDE DEF P
<1>12. \A m \in 0 .. n : search[m] \in A
  <2>1. P = Nat
    BY <1>9, <1>10, <1>11, EveryNumber
  <2>2. QED
    BY <2>1, <1>1 DEF P
<1>13. search \in [0 .. n -> A]
  <2>1. search = [i \in 0 .. n |-> search[i]]
    BY <1>8
  <2>2. QED
    BY <2>1, <1>12
<1>14. Unwrap(bin, args) = search[n].at
  BY DEF Unwrap, search, n, start
<1>15. search[0] = start /\ \A i \in 1 .. n : search[i] = Looks(bin, args, search[i - 1], i)
  <2>1. 0 \in 0 .. n /\ \A i \in 1 .. n : i \in 0 .. n /\ i # 0
    BY <1>1
  <2>2. QED
    BY <2>1, <1>8
<1>16. QED
  BY <1>13, <1>14, <1>15 DEF A, n, start

(* It is a place, or behind the last one, or nowhere.                      *)
LEMMA UnwrapPlace ==
  ASSUME NEW bin, NEW args, NEW X, args \in Seq(X), \A x \in X : x.static \in BOOLEAN
  PROVE  Unwrap(bin, args) \in Nat
<1>1. PICK search \in [0 .. Len(args) -> SearchStates] : Unwrap(bin, args) = search[Len(args)].at
  BY UnwrapScan
<1>2. Len(args) \in 0 .. Len(args)
  OBVIOUS
<1>3. QED
  BY <1>1, <1>2 DEF SearchStates

Closing(word) == Spells(word, {";"})

LEMMA ClauseEnds ==
  ASSUME NEW words, NEW X, words \in Seq(X), NEW i \in 1 .. Len(words)
  PROVE  /\ ClauseEnd(words, i) \in i + 1 .. Len(words) + 1
         /\ ClauseEnd(words, i) <= Len(words) => Closing(words[ClauseEnd(words, i)])
<1> DEFINE ends == {j \in i + 1 .. Len(words) : words[j].static /\ words[j].value = ";"}
<1>1. Len(words) \in Nat /\ i \in Nat
  OBVIOUS
<1>2. ends \subseteq i + 1 .. Len(words)
  OBVIOUS
<1>3. ClauseEnd(words, i) = IF ends = {} THEN Len(words) + 1 ELSE CHOOSE j \in ends : \A m \in ends : j <= m
  BY DEF ClauseEnd
<1> HIDE DEF ends
<1>4. CASE ends = {}
  <2>1. ClauseEnd(words, i) = Len(words) + 1
    BY <1>3, <1>4
  <2>2. ClauseEnd(words, i) \in i + 1 .. Len(words) + 1 /\ ~(ClauseEnd(words, i) <= Len(words))
    BY <1>1, <2>1
  <2>3. QED
    BY <2>2
<1>5. CASE ends # {}
  <2>1. \E j \in ends : \A m \in ends : j <= m
    <3>1. ends \in SUBSET Nat
      BY <1>1, <1>2
    <3>2. QED
      BY <3>1, <1>5, SomeLeast
  <2>2. ClauseEnd(words, i) \in ends
    BY <1>3, <1>5, <2>1
  <2>3. Closing(words[ClauseEnd(words, i)])
    BY <2>2 DEF ends, Closing, Spells
  <2>4. QED
    <3>1. ClauseEnd(words, i) \in i + 1 .. Len(words)
      BY <1>2, <2>2
    <3>2. \A j \in i + 1 .. Len(words) : j \in i + 1 .. Len(words) + 1
      BY <1>1
    <3>3. QED
      BY <2>3, <3>1, <3>2
<1>6. QED
  BY <1>4, <1>5

(* What the words of an inner command give stays among the scripts.        *)
InnerTells(inner, D, argv, path) ==
  \A words \in Seq(ToSet(argv)), from \in Nat :
    Placed(words, argv, from) => inner[words][from] \in Results(D, argv, path)

(* The scan that looks for find's clauses.                                 *)
FindStates(D, argv, path) == [next : Nat, class : SUBSET Classes, segs : GoodSegs(D, argv, path)]

FindsBy(found, inner, words, from) ==
  /\ found[1] = [next |-> 2, class |-> Read, segs |-> <<>>]
  /\ \A i \in 2 .. Len(words) : found[i] = Finds(inner, words, from, found[i - 1], i)
  /\ Find(inner, words, from) = Result(found[Len(words)].class, found[Len(words)].segs)

LEMMA FindScan ==
  ASSUME NEW inner, NEW D, NEW S, NEW argv \in Seq(ArgsOver(S)), NEW words, NEW from,
         Placed(words, argv, from), words # <<>>, NEW path, InnerTells(inner, D, argv, path)
  PROVE  \E found \in [1 .. Len(words) -> FindStates(D, argv, path)] : FindsBy(found, inner, words, from)
<1> DEFINE X == GoodSegs(D, argv, path)
           n == Len(words)
           start == [next |-> 2, class |-> Read, segs |-> <<>>]
           A == [next : Nat, class : SUBSET Classes, segs : X]
           found == CHOOSE f : f = [i \in 1 .. n |-> IF i = 1 THEN start ELSE Finds(inner, words, from, f[i - 1], i)]
           P == {m \in Nat : m < n => \E f \in [1 .. m + 1 -> A] :
                   f = [i \in 1 .. m + 1 |-> IF i = 1 THEN start ELSE Finds(inner, words, from, f[i - 1], i)]}
<1>1. /\ n \in Nat /\ n # 0 /\ from \in Nat /\ words \in Seq(ToSet(argv)) /\ DOMAIN words = 1 .. n
      /\ \A i \in 1 .. n : words[i].static \in BOOLEAN
  <2>1. words \in Seq(ToSet(argv)) /\ from \in Nat
    BY DEF Placed
  <2>2. n \in Nat /\ n # 0
    BY <2>1
  <2>3. QED
    BY <2>1, <2>2, PlacedWords
<1>2. start \in A
  <2>1. <<>> \in X /\ Read \in SUBSET Classes
    BY ClassesOf, GoodTogether
  <2>2. QED
    BY <2>1
<1>3. ASSUME NEW i \in 1 .. n, NEW s \in A PROVE Finds(inner, words, from, s, i) \in A
  <2> DEFINE end == ClauseEnd(words, i)
             part == SubSeq(words, i + 1, end - 1)
             clause == inner[part][from + i]
  <2>1. end \in i + 1 .. n + 1 /\ i \in Nat /\ i + 1 \in 1 .. n + 1
    <3>1. end \in i + 1 .. n + 1
      BY <1>1, ClauseEnds, Zenon
    <3>2. QED
      BY <1>1, <3>1
  <2>2. end - 1 \in Nat /\ end - 1 <= n /\ end + 1 \in Nat /\ from + ((i + 1) - 1) = from + i
    BY <1>1, <2>1
  <2>3. Placed(part, argv, from + i)
    BY <2>1, <2>2, PartPlaced
  <2>4. clause \in Results(D, argv, path)
    BY <2>3 DEF InnerTells, Placed
  <2>5. clause.class \in SUBSET Classes /\ clause.segs \in X
    BY <2>4 DEF Results
  <2>6. s.class \in SUBSET Classes /\ s.segs \in X /\ s.next \in Nat
        /\ s = [next |-> s.next, class |-> s.class, segs |-> s.segs]
    OBVIOUS
  <2> HIDE DEF end, X
  <2>7. [next |-> end + 1, class |-> s.class \cup clause.class, segs |-> s.segs \o clause.segs] \in A
    <3>1. s.segs \o clause.segs \in X
      BY <2>5, <2>6, GoodTogether DEF X
    <3>2. QED
      BY <2>2, <2>5, <2>6, <3>1
  <2>8. /\ [s EXCEPT !.class = s.class \cup {"fs:delete"}] \in A
        /\ [s EXCEPT !.class = s.class \cup {"fs:write"}] \in A
    <3>1. s.class \cup {"fs:delete"} \in SUBSET Classes /\ s.class \cup {"fs:write"} \in SUBSET Classes
      BY <2>6 DEF Classes
    <3>2. QED
      BY <3>1
  <2>9. CASE i < s.next \/ ~words[i].static
    BY <2>9 DEF Finds
  <2>10. CASE i >= s.next /\ words[i].static
    <3>1. ~(i < s.next \/ ~words[i].static)
      BY <2>1, <2>6, <2>10
    <3>2. Finds(inner, words, from, s, i) =
            CASE words[i].value = "-exec" ->
                   [next |-> end + 1, class |-> s.class \cup clause.class, segs |-> s.segs \o clause.segs]
              [] words[i].value = "-delete" -> [s EXCEPT !.class = s.class \cup {"fs:delete"}]
              [] words[i].value = "-fls"    -> [s EXCEPT !.class = s.class \cup {"fs:write"}]
              [] OTHER                      -> s
      BY <2>10, <3>1 DEF Finds, end
    <3> HIDE DEF A, clause
    <3>3. QED
      BY <2>7, <2>8, <3>2
  <2>11. QED
    BY <1>1, <2>1, <2>6, <2>9, <2>10
<1> HIDE DEF A, n, start, found
<1>4. 0 \in P
  <2> DEFINE f == [i \in 1 .. 0 + 1 |-> start]
  <2>1. f = [i \in 1 .. 0 + 1 |-> IF i = 1 THEN start ELSE Finds(inner, words, from, f[i - 1], i)]
    OBVIOUS
  <2>2. f \in [1 .. 0 + 1 -> A]
    BY <1>2
  <2> HIDE DEF f
  <2>3. QED
    BY <2>1, <2>2
<1>5. ASSUME NEW m \in P PROVE m + 1 \in P
  <2> SUFFICES ASSUME m + 1 < n
               PROVE  \E g \in [1 .. (m + 1) + 1 -> A] :
                        g = [i \in 1 .. (m + 1) + 1 |-> IF i = 1 THEN start ELSE Finds(inner, words, from, g[i - 1], i)]
    OBVIOUS
  <2>1. m \in Nat /\ m < n
    BY <1>1
  <2>2. PICK f \in [1 .. m + 1 -> A] :
          f = [i \in 1 .. m + 1 |-> IF i = 1 THEN start ELSE Finds(inner, words, from, f[i - 1], i)]
    BY <2>1
  <2> DEFINE last == Finds(inner, words, from, f[m + 1], (m + 1) + 1)
             g == [i \in 1 .. (m + 1) + 1 |-> IF i \in 1 .. m + 1 THEN f[i] ELSE last]
  <2>3. (m + 1) + 1 \in 1 .. n /\ m + 1 \in 1 .. m + 1
    BY <1>1, <2>1
  <2>4. last \in A
    BY <1>3, <2>2, <2>3
  <2>5. g \in [1 .. (m + 1) + 1 -> A]
    BY <2>2, <2>4
  <2>6. ASSUME NEW i \in 1 .. (m + 1) + 1
        PROVE  g[i] = IF i = 1 THEN start ELSE Finds(inner, words, from, g[i - 1], i)
    <3>1. CASE i = 1
      BY <3>1, <2>1, <2>2
    <3>2. CASE i # 1 /\ i \in 1 .. m + 1
      <4>1. i - 1 \in 1 .. m + 1 /\ i - 1 \in 1 .. (m + 1) + 1
        BY <3>2, <2>1
      <4>2. g[i] = f[i] /\ g[i - 1] = f[i - 1]
        BY <3>2, <4>1
      <4>3. f[i] = Finds(inner, words, from, f[i - 1], i)
        BY <3>2, <2>2
      <4>4. QED
        BY <3>2, <4>2, <4>3
    <3>3. CASE i \notin 1 .. m + 1
      <4>1. i # 1 /\ i = (m + 1) + 1 /\ i - 1 = m + 1 /\ i - 1 \in 1 .. (m + 1) + 1
        BY <3>3, <2>1
      <4>2. g[i] = last /\ g[i - 1] = f[m + 1]
        BY <3>3, <4>1, <2>3
      <4>3. QED
        BY <4>1, <4>2
    <3>4. QED
      BY <3>1, <3>2, <3>3
  <2>7. g = [i \in 1 .. (m + 1) + 1 |-> g[i]]
    OBVIOUS
  <2> HIDE DEF g
  <2>8. g = [i \in 1 .. (m + 1) + 1 |-> IF i = 1 THEN start ELSE Finds(inner, words, from, g[i - 1], i)]
    BY <2>6, <2>7
  <2>9. QED
    BY <2>5, <2>8
<1>6. P \in SUBSET Nat
  OBVIOUS
<1>7. n - 1 \in Nat /\ n - 1 < n /\ (n - 1) + 1 = n
  BY <1>1
<1>8. \E f \in [1 .. n -> A] :
        f = [i \in 1 .. n |-> IF i = 1 THEN start ELSE Finds(inner, words, from, f[i - 1], i)]
  <2> HIDE DEF P
  <2>1. n - 1 \in P
    BY <1>4, <1>5, <1>6, <1>7, EveryNumber
  <2>2. QED
    BY <1>7, <2>1 DEF P
<1> HIDE DEF P
<1>9. PICK f \in [1 .. n -> A] :
        f = [i \in 1 .. n |-> IF i = 1 THEN start ELSE Finds(inner, words, from, f[i - 1], i)]
  BY <1>8
<1>10. found = [i \in 1 .. n |-> IF i = 1 THEN start ELSE Finds(inner, words, from, found[i - 1], i)]
  BY <1>9 DEF found
<1> DEFINE Q == {m \in Nat : m < n => found[m + 1] \in A}
<1>11. 0 \in Q
  <2>1. 0 + 1 = 1 /\ 1 \in 1 .. n
    BY <1>1
  <2>2. found[1] = start
    BY <1>10, <2>1
  <2>3. QED
    BY <1>2, <2>1, <2>2
<1>12. ASSUME NEW m \in Q PROVE m + 1 \in Q
  <2>1. m \in Nat /\ m + 1 \in Nat /\ (m + 1 < n => m < n)
    BY <1>1
  <2>2. ASSUME m + 1 < n PROVE found[(m + 1) + 1] \in A
    <3>1. (m + 1) + 1 \in 1 .. n /\ (m + 1) + 1 # 1 /\ ((m + 1) + 1) - 1 = m + 1
      BY <1>1, <2>1, <2>2
    <3>2. found[(m + 1) + 1] = Finds(inner, words, from, found[m + 1], (m + 1) + 1)
      BY <1>10, <3>1
    <3>3. QED
      BY <1>3, <2>1, <2>2, <3>1, <3>2
  <2>3. QED
    BY <2>1, <2>2
<1>13. Q \in SUBSET Nat
  OBVIOUS
<1> HIDE DEF Q
<1>14. Q = Nat
  BY <1>11, <1>12, <1>13, EveryNumber
<1>15. found \in [1 .. n -> A]
  <2>1. ASSUME NEW m \in 1 .. n PROVE found[m] \in A
    <3>1. m - 1 \in Nat /\ m - 1 < n /\ (m - 1) + 1 = m
      BY <1>1
    <3>2. m - 1 \in Q
      BY <1>14, <3>1
    <3>3. QED
      BY <3>1, <3>2 DEF Q
  <2>2. found = [i \in 1 .. n |-> found[i]]
    BY <1>10
  <2>3. QED
    BY <2>1, <2>2
<1>16. Find(inner, words, from) = Result(found[n].class, found[n].segs)
  BY DEF Find, found, n, start
<1>17. found[1] = start /\ \A i \in 2 .. n : found[i] = Finds(inner, words, from, found[i - 1], i)
  <2>1. 1 \in 1 .. n /\ \A i \in 2 .. n : i \in 1 .. n /\ i # 1
    BY <1>1
  <2>2. QED
    BY <2>1, <1>10
<1>18. QED
  BY <1>15, <1>16, <1>17 DEF A, X, n, start, FindStates, FindsBy

LEMMA FindTells ==
  ASSUME NEW inner, NEW D, NEW S, NEW argv \in Seq(ArgsOver(S)), NEW words, NEW from,
         Placed(words, argv, from), words # <<>>, NEW path, InnerTells(inner, D, argv, path)
  PROVE  Find(inner, words, from) \in Results(D, argv, path)
<1>1. PICK found \in [1 .. Len(words) -> FindStates(D, argv, path)] : FindsBy(found, inner, words, from)
  BY FindScan
<1>2. Len(words) \in 1 .. Len(words)
  BY DEF Placed
<1>3. found[Len(words)].class \in SUBSET Classes /\ found[Len(words)].segs \in GoodSegs(D, argv, path)
  BY <1>1, <1>2 DEF FindStates
<1>4. QED
  BY <1>1, <1>3 DEF FindsBy, Result, Results

LEMMA ClassOfTells ==
  ASSUME NEW W, NEW C, NEW D, NEW S, Tells(W, C, D, S), NEW argv \in Seq(ArgsOver(S)), NEW words, NEW from,
         Placed(words, argv, from), words # <<>>, NEW path \in Paths, NEW depth \in Nat,
         NEW inner, InnerTells(inner, D, argv, path)
  PROVE  ClassOf(W, inner, words, from, path, depth) \in Results(D, argv, path)
<1> DEFINE bin  == words[1].value
           args == Tail(words)
           at   == Unwrap(bin, args)
           R    == Results(D, argv, path)
<1>1. /\ words \in Seq(ToSet(argv)) /\ ToSet(argv) \subseteq ArgsOver(S)
      /\ \A x \in ToSet(argv) : x.static \in BOOLEAN
  <2>1. words \in Seq(ToSet(argv)) /\ ToSet(argv) \subseteq ArgsOver(S)
    BY DEF Placed, ToSet
  <2>2. QED
    BY <2>1 DEF ArgsOver
<1>2. /\ Len(words) \in Nat \ {0} /\ args \in Seq(ToSet(argv)) /\ Len(args) = Len(words) - 1
      /\ DOMAIN args = 1 .. Len(args) /\ \A k \in 1 .. Len(args) : args[k] = words[k + 1]
  BY <1>1
<1>3. /\ Result(Unknown, <<>>) \in R /\ Result(Read, <<>>) \in R /\ Result({"fs:write"}, <<>>) \in R
      /\ Result(EmptyClass(bin), <<>>) \in R /\ Result(Lookup(bin, args), <<>>) \in R
  BY ClassesOf, NoSegs
<1>4. ASSUME ScriptAt(args) # 0
      PROVE  Nested(W, words, {ScriptAt(args) + 1}, from, path, depth) \in R
  <2>1. ScriptAt(args) \in DOMAIN args /\ args[ScriptAt(args)].static
    BY <1>2, <1>4, ScriptPlace
  <2>2. ScriptAt(args) + 1 \in DOMAIN words /\ words[ScriptAt(args) + 1].static
    <3>1. ScriptAt(args) + 1 \in 1 .. Len(words)
      BY <1>2, <2>1
    <3>2. QED
      BY <1>2, <2>1, <3>1, PlacedWords
  <2>3. {ScriptAt(args) + 1} \subseteq Those(words, TRUE)
    BY <2>2, PlacedWords DEF Those
  <2>4. QED
    BY <2>3, NestedTells
<1>5. Eval(W, words, from, path, depth) \in R
  BY EvalTells
<1>6. Find(inner, words, from) \in R
  BY FindTells
<1>7. at \in Nat
  BY <1>1, <1>2, UnwrapPlace
<1>8. ASSUME at # 0, at <= Len(args) PROVE inner[Rest(args, at)][from + at] \in R
  <2>1. at + 1 \in 1 .. Len(words) + 1 /\ Len(words) \in Nat /\ from + ((at + 1) - 1) = from + at
    BY <1>2, <1>7, <1>8 DEF Placed
  <2>2. Placed(SubSeq(words, at + 1, Len(words)), argv, from + at)
    BY <2>1, PartPlaced
  <2>3. Rest(args, at) = SubSeq(words, at + 1, Len(words))
    <3>1. Rest(args, at) = [k \in 1 .. (Len(args) - at) + 1 |-> args[(at + k) - 1]]
      <4>1. Rest(args, at) = SubSeq(args, at, Len(args)) /\ Len(args) \in Nat
        BY <1>2 DEF Rest
      <4> HIDE DEF args, at
      <4>2. QED
        BY <1>2, <1>7, <4>1
    <3>2. SubSeq(words, at + 1, Len(words)) = [k \in 1 .. (Len(words) - (at + 1)) + 1 |-> words[((at + 1) + k) - 1]]
      BY <1>1, <1>2, <1>7, <1>8
    <3>3. (Len(args) - at) + 1 = (Len(words) - (at + 1)) + 1
      BY <1>2, <1>7
    <3>4. \A k \in 1 .. (Len(args) - at) + 1 : args[(at + k) - 1] = words[((at + 1) + k) - 1]
      <4>1. \A k \in 1 .. (Len(args) - at) + 1 : /\ (at + k) - 1 \in 1 .. Len(args)
                                                 /\ ((at + k) - 1) + 1 = ((at + 1) + k) - 1
        BY <1>2, <1>7, <1>8
      <4>2. QED
        BY <1>2, <4>1
    <3>5. QED
      BY <3>1, <3>2, <3>3, <3>4
  <2>4. QED
    BY <2>2, <2>3 DEF InnerTells, Placed
<1>9. ClassOf(W, inner, words, from, path, depth) =
        IF ~words[1].static \/ bin = "./ls" THEN Result(Unknown, <<>>)
        ELSE IF bin \in StringShells
             THEN IF ScriptAt(args) = 0 THEN Result(Unknown, <<>>)
                  ELSE Nested(W, words, {ScriptAt(args) + 1}, from, path, depth)
        ELSE IF bin = "eval" THEN Eval(W, words, from, path, depth)
        ELSE IF bin = "find" THEN Find(inner, words, from)
        ELSE IF bin = "sudo" /\ LeadingFlag(args, {"-e"}) THEN Result({"fs:write"}, <<>>)
        ELSE IF bin = "command" /\ LeadingFlag(args, {"-v"}) THEN Result(Read, <<>>)
        ELSE IF bin \in Wrappers
             THEN IF at = 0 THEN Result(Unknown, <<>>)
                  ELSE IF at > Len(args) THEN Result(EmptyClass(bin), <<>>)
                  ELSE inner[Rest(args, at)][from + at]
        ELSE Result(Lookup(bin, args), <<>>)
  BY DEF ClassOf
<1>10. Len(args) \in Nat
  BY <1>2
<1> HIDE DEF at, args, bin, R
<1>11. ~(at > Len(args)) => at <= Len(args)
  BY <1>7, <1>10
<1>12. QED
  BY <1>3, <1>4, <1>5, <1>6, <1>8, <1>9, <1>11 DEF R

(* The words of inner commands, taken as often as argv is long.            *)
ClassifiesBy(class, W, argv, path, depth) ==
  /\ Classify(W, argv, path, depth) = class[Len(argv)][argv][0]
  /\ \A m \in 0 .. Len(argv), words \in Seq(ToSet(argv)), from \in Nat :
       class[m][words][from] = IF m = 0 \/ words = <<>> THEN Result(Read, <<>>)
                               ELSE ClassOf(W, class[m - 1], words, from, path, depth)

LEMMA ClassifyLevels ==
  ASSUME NEW W, NEW S, NEW argv \in Seq(ArgsOver(S)), NEW path, NEW depth
  PROVE  \E class : ClassifiesBy(class, W, argv, path, depth)
<1> DEFINE n == Len(argv)
           Inputs == Seq(ToSet(argv))
           Level(m, inner) ==
             [words \in Inputs |-> [from \in Nat |->
               IF m = 0 \/ words = <<>> THEN Result(Read, <<>>)
               ELSE ClassOf(W, inner, words, from, path, depth)]]
           Run(m) == \E f : f = [i \in 0 .. m |-> Level(i, f[i - 1])]
           class == CHOOSE f : f = [i \in 0 .. n |-> Level(i, f[i - 1])]
           P == {m \in Nat : Run(m)}
<1>1. n \in Nat /\ argv \in Inputs /\ 0 \in Nat
  BY DEF ToSet
<1>2. \A x, y : Level(0, x) = Level(0, y)
  OBVIOUS
<1>3. Classify(W, argv, path, depth) = class[n][argv][0]
  BY DEF Classify
<1> HIDE DEF n, Inputs, Level
<1>4. Run(0)
  <2> DEFINE f == [i \in 0 .. 0 |-> Level(i, 0)]
  <2>1. \A i \in 0 .. 0 : f[i] = Level(i, f[i - 1])
    BY <1>2
  <2>2. f = [i \in 0 .. 0 |-> f[i]]
    OBVIOUS
  <2> HIDE DEF f
  <2>3. f = [i \in 0 .. 0 |-> Level(i, f[i - 1])]
    BY <2>1, <2>2
  <2>4. QED
    BY <2>3
<1>5. ASSUME NEW m \in Nat, Run(m) PROVE Run(m + 1)
  <2>1. PICK f : f = [i \in 0 .. m |-> Level(i, f[i - 1])]
    BY <1>5
  <2> DEFINE g == [i \in 0 .. m + 1 |-> IF i \in 0 .. m THEN f[i] ELSE Level(i, f[m])]
  <2>2. ASSUME NEW i \in 0 .. m + 1 PROVE g[i] = Level(i, g[i - 1])
    <3>1. CASE i = 0
      <4>1. g[i] = f[i] /\ f[i] = Level(0, f[i - 1])
        BY <3>1, <2>1
      <4>2. QED
        BY <3>1, <4>1, <1>2
    <3>2. CASE i # 0 /\ i \in 0 .. m
      <4>1. i - 1 \in 0 .. m /\ i - 1 \in 0 .. m + 1
        BY <3>2
      <4>2. g[i] = f[i] /\ g[i - 1] = f[i - 1]
        BY <3>2, <4>1
      <4>3. f[i] = Level(i, f[i - 1])
        BY <3>2, <2>1
      <4>4. QED
        BY <4>2, <4>3
    <3>3. CASE i \notin 0 .. m
      <4>1. i - 1 = m /\ m \in 0 .. m /\ m \in 0 .. m + 1
        BY <3>3
      <4>2. g[i] = Level(i, f[m]) /\ g[m] = f[m]
        BY <3>3, <4>1
      <4>3. QED
        BY <4>1, <4>2
    <3>4. QED
      BY <3>1, <3>2, <3>3
  <2>3. g = [i \in 0 .. m + 1 |-> g[i]]
    OBVIOUS
  <2> HIDE DEF g
  <2>4. g = [i \in 0 .. m + 1 |-> Level(i, g[i - 1])]
    BY <2>2, <2>3
  <2>5. QED
    BY <2>4
<1> HIDE DEF Run
<1>6. Run(n)
  <2>1. P \in SUBSET Nat /\ 0 \in P /\ \A m \in P : m + 1 \in P
    BY <1>4, <1>5
  <2> HIDE DEF P
  <2>2. n \in P
    BY <1>1, <2>1, EveryNumber
  <2>3. QED
    BY <2>2 DEF P
<1>7. class = [i \in 0 .. n |-> Level(i, class[i - 1])]
  BY <1>6 DEF Run
<1> HIDE DEF class
<1>8. \A m \in 0 .. n, words \in Inputs, from \in Nat :
        class[m][words][from] = IF m = 0 \/ words = <<>> THEN Result(Read, <<>>)
                                ELSE ClassOf(W, class[m - 1], words, from, path, depth)
  <2>1. ASSUME NEW m \in 0 .. n, NEW words \in Inputs, NEW from \in Nat
        PROVE  class[m][words][from] = IF m = 0 \/ words = <<>> THEN Result(Read, <<>>)
                                       ELSE ClassOf(W, class[m - 1], words, from, path, depth)
    <3>1. class[m] = Level(m, class[m - 1])
      BY <1>7
    <3>2. QED
      BY <3>1 DEF Level
  <2>2. QED
    BY <2>1
<1>9. QED
  BY <1>3, <1>8 DEF n, Inputs, ClassifiesBy

LEMMA LevelsTell ==
  ASSUME NEW W, NEW C, NEW D, NEW S, Tells(W, C, D, S), NEW argv \in Seq(ArgsOver(S)),
         NEW path \in Paths, NEW depth \in Nat
  PROVE  \E class : /\ ClassifiesBy(class, W, argv, path, depth)
                    /\ \A m \in 0 .. Len(argv) : InnerTells(class[m], D, argv, path)
<1> DEFINE n == Len(argv)
           Inputs == Seq(ToSet(argv))
<1>1. n \in Nat /\ argv \in Inputs /\ 0 \in Nat
  BY DEF ToSet
<1>2. PICK class : ClassifiesBy(class, W, argv, path, depth)
  BY ClassifyLevels
<1>3. /\ Classify(W, argv, path, depth) = class[n][argv][0]
      /\ \A m \in 0 .. n, words \in Inputs, from \in Nat :
           class[m][words][from] = IF m = 0 \/ words = <<>> THEN Result(Read, <<>>)
                                   ELSE ClassOf(W, class[m - 1], words, from, path, depth)
  BY <1>2 DEF ClassifiesBy
<1> HIDE DEF n, Inputs
<1> DEFINE Q == {m \in Nat : m <= n => InnerTells(class[m], D, argv, path)}
<1>4. 0 \in Q
  <2>1. 0 \in 0 .. n
    BY <1>1
  <2>2. \A words \in Inputs, from \in Nat : class[0][words][from] = Result(Read, <<>>)
    BY <1>3, <2>1
  <2>3. Result(Read, <<>>) \in Results(D, argv, path)
    BY ClassesOf, NoSegs
  <2>4. InnerTells(class[0], D, argv, path)
    BY <2>2, <2>3 DEF InnerTells, Inputs
  <2>5. QED
    BY <2>4
<1>5. ASSUME NEW m \in Q PROVE m + 1 \in Q
  <2>1. m \in Nat /\ m + 1 \in Nat /\ (m + 1 <= n => m <= n)
    BY <1>1
  <2>2. ASSUME m + 1 <= n PROVE InnerTells(class[m + 1], D, argv, path)
    <3>1. m + 1 \in 0 .. n /\ (m + 1) - 1 = m
      BY <1>1, <2>1, <2>2
    <3>2. InnerTells(class[m], D, argv, path)
      BY <2>1, <2>2
    <3>3. ASSUME NEW words \in Inputs, NEW from \in Nat, Placed(words, argv, from)
          PROVE  class[m + 1][words][from] \in Results(D, argv, path)
      <4>1. class[m + 1][words][from] = IF m + 1 = 0 \/ words = <<>> THEN Result(Read, <<>>)
                                        ELSE ClassOf(W, class[m], words, from, path, depth)
        BY <1>3, <3>1
      <4>2. CASE words = <<>>
        BY <4>1, <4>2, ClassesOf, NoSegs
      <4>3. CASE words # <<>>
        <5>1. ClassOf(W, class[m], words, from, path, depth) \in Results(D, argv, path)
          BY <3>2, <3>3, <4>3, ClassOfTells
        <5>2. QED
          BY <4>1, <4>3, <5>1, <2>1
      <4>4. QED
        BY <4>2, <4>3
    <3>4. QED
      BY <3>3 DEF InnerTells, Inputs
  <2>3. QED
    BY <2>1, <2>2
<1>6. Q \in SUBSET Nat
  OBVIOUS
<1> HIDE DEF Q
<1>7. Q = Nat
  BY <1>4, <1>5, <1>6, EveryNumber
<1>8. \A m \in 0 .. n : InnerTells(class[m], D, argv, path)
  BY <1>1, <1>7 DEF Q
<1>9. QED
  BY <1>2, <1>8 DEF n

LEMMA ClassifyTells ==
  ASSUME NEW W, NEW C, NEW D, NEW S, Tells(W, C, D, S), NEW argv \in Seq(ArgsOver(S)),
         NEW path \in Paths, NEW depth \in Nat
  PROVE  Classify(W, argv, path, depth) \in Results(D, argv, path)
<1>1. PICK class : /\ ClassifiesBy(class, W, argv, path, depth)
                   /\ \A m \in 0 .. Len(argv) : InnerTells(class[m], D, argv, path)
  BY LevelsTell
<1>2. Len(argv) \in 0 .. Len(argv) /\ argv \in Seq(ToSet(argv)) /\ 0 \in Nat
  BY DEF ToSet
<1>3. Placed(argv, argv, 0)
  <2>1. \A k \in DOMAIN argv : 0 + k = k
    OBVIOUS
  <2>2. QED
    BY <1>2, <2>1 DEF Placed
<1>4. Classify(W, argv, path, depth) = class[Len(argv)][argv][0] /\ InnerTells(class[Len(argv)], D, argv, path)
  BY <1>1, <1>2 DEF ClassifiesBy
<1>5. QED
  BY <1>2, <1>3, <1>4 DEF InnerTells

(* A result that says that nothing is known, or tells of the call q.       *)
Hits(r, q) == "unknown" \in r.class \/ ~Untold(r.segs, q)

(* The word at k is handed over by the shell, or the eval, at p.           *)
RunAt(argv, p, k) ==
  /\ k \in DOMAIN argv /\ p \in 1 .. k - 1 /\ Spells(argv[k], {"script"})
  /\ Leads(argv, p) /\ RunBy(argv, p, k)

LEMMA NotClosing ==
  ASSUME NEW word
  PROVE  /\ Spells(word, StringShells \cup {"eval"}) => ~Closing(word)
         /\ (word.static => word.value \in Flags \cup {"script"}) => ~Closing(word)
<1>1. \A f \in StringShells \cup {"eval"} \cup Flags \cup {"script"} : f # ";"
  BY Zenon DEF StringShells, Flags
<1>2. QED
  BY <1>1, Zenon DEF Spells, Closing

LEMMA WordsBetween ==
  ASSUME NEW S, NEW argv \in Seq(ArgsOver(S)), NEW p, NEW k, RunAt(argv, p, k)
  PROVE  /\ k \in Nat /\ p \in Nat /\ 1 <= p /\ p < k /\ k <= Len(argv)
         /\ Spells(argv[p], StringShells \cup {"eval"}) /\ Spells(argv[k], {"script"})
         /\ \A j \in p + 1 .. k : argv[j].static => argv[j].value \in Flags \cup {"script"}
         /\ ~Spells(argv[k - 1], {"-u", "-C", "-S", "-n"})
         /\ \A j \in p .. k : ~Closing(argv[j])
<1>1. k \in Nat /\ p \in Nat /\ 1 <= p /\ p < k /\ k <= Len(argv) /\ Len(argv) \in Nat
  BY DEF RunAt
<1>2. Spells(argv[k], {"script"}) /\ RunBy(argv, p, k)
  BY DEF RunAt
<1>3. Spells(argv[p], StringShells \cup {"eval"})
  BY <1>2 DEF RunBy, Spells
<1>4. \A j \in p + 1 .. k : argv[j].static => argv[j].value \in Flags \cup {"script"}
  <2>1. CASE Spells(argv[p], StringShells) /\ p < k - 1 /\ Spells(argv[k - 1], {"-c", "-lc"})
             /\ \A j \in p + 1 .. k - 2 : argv[j].static => argv[j].value \in Flags \ {"-c", "-lc"}
    <3>1. \A j \in p + 1 .. k : j \in p + 1 .. k - 2 \/ j = k - 1 \/ j = k
      BY <1>1
    <3>2. QED
      BY <1>2, <2>1, <3>1 DEF Spells, Flags
  <2>2. CASE \A j \in p + 1 .. k - 1 : argv[j].static => argv[j].value = "script"
    <3>1. \A j \in p + 1 .. k : j \in p + 1 .. k - 1 \/ j = k
      BY <1>1
    <3>2. QED
      BY <1>2, <2>2, <3>1 DEF Spells
  <2>3. QED
    BY <1>2, <2>1, <2>2 DEF RunBy
<1>5. ~Spells(argv[k - 1], {"-u", "-C", "-S", "-n"})
  <2>1. CASE Spells(argv[k - 1], {"-c", "-lc"})
    BY <2>1 DEF Spells
  <2>2. CASE Spells(argv[p], {"eval"}) /\ \A j \in p + 1 .. k - 1 : argv[j].static => argv[j].value = "script"
    <3>1. k - 1 = p \/ k - 1 \in p + 1 .. k - 1
      BY <1>1
    <3>2. QED
      BY <2>2, <3>1 DEF Spells
  <2>3. QED
    BY <1>2, <2>1, <2>2 DEF RunBy
<1>6. \A j \in p .. k : ~Closing(argv[j])
  <2>1. \A j \in p .. k : j = p \/ j \in p + 1 .. k
    BY <1>1
  <2>2. QED
    BY <1>3, <1>4, <2>1, NotClosing
<1>7. QED
  BY <1>1, <1>2, <1>3, <1>4, <1>5, <1>6

(* A script that is nested is told of, or nothing is known.                *)
LEMMA NestedHits ==
  ASSUME NEW W, NEW C, NEW D, NEW S, Tells(W, C, D, S), NEW argv \in Seq(ArgsOver(S)), NEW words, NEW from,
         Placed(words, argv, from), NEW which, which \subseteq Those(words, TRUE), NEW j \in which,
         NEW path \in Paths, NEW depth \in Nat,
         NEW q, q \in CallsOf(C, Held(words[j].stmts, "arg", from + j), path)
  PROVE  Hits(Nested(W, words, which, from, path, depth), q)
<1> DEFINE of(k) == Stmts(W, words[k].stmts, "arg", from + k, path, depth + 1)
           told == [k \in DOMAIN words |-> IF k \in which THEN of(k) ELSE <<>>]
           here(k) == SlotsOf("arg", {from + k})
           X == SegsAt(PathsFrom(path))
<1>1. depth + 1 \in Nat /\ "arg" \in Parts
  BY DEF Parts
<1>2. /\ Len(words) \in Nat /\ DOMAIN words = 1 .. Len(words)
      /\ \A k \in which : k \in DOMAIN words /\ words[k].stmts \in Seq(S) /\ from + k \in Nat
  BY PlacedWords DEF Those
<1>3. ASSUME NEW k \in which
      PROVE  /\ of(k) \in Seq(X)
             /\ \A x \in CallsOf(C, Held(words[k].stmts, "arg", from + k), path) : ToldOnce(of(k), x)
  <2>1. /\ of(k) \in Seq(SegsAt(Through(path, here(k))))
        /\ \A x \in CallsOf(C, Held(words[k].stmts, "arg", from + k), path) : ToldOnce(of(k), x)
    BY <1>1, <1>2, StmtsTell
  <2>2. here(k) \in SUBSET Slots
    BY DEF SlotsOf
  <2> HIDE DEF of, here
  <2>3. Through(path, here(k)) \subseteq PathsFrom(path)
    BY <2>2, ThroughPart
  <2>4. of(k) \in Seq(X)
    BY <2>1, <2>3, SegsPart
  <2>5. QED
    BY <2>1, <2>4
<1> HIDE DEF of, X
<1>4. told \in Seq(Seq(X))
  <2>1. <<>> \in Seq(X)
    OBVIOUS
  <2>2. \A k \in DOMAIN words : told[k] \in Seq(X)
    BY <1>3, <2>1
  <2>3. told = [k \in 1 .. Len(words) |-> told[k]]
    BY <1>2
  <2> HIDE DEF told
  <2>4. QED
    BY <1>2, <2>2, <2>3
<1>5. j \in DOMAIN told /\ told[j] = of(j)
  BY <1>2
<1>6. ~Untold(told[j], q)
  <2>1. ToldOnce(of(j), q)
    BY <1>3
  <2>2. QED
    BY <1>5, <2>1 DEF ToldOnce, Untold
<1>7. ~Untold(FlattenSeq(told), q)
  <2> HIDE DEF told
  <2>1. QED
    BY <1>4, <1>5, <1>6, TellInARow
<1>8. Nested(W, words, which, from, path, depth) =
        IF depth + 1 > MaxDepth THEN Result(Unknown, <<>>) ELSE Result(Read, FlattenSeq(told))
  BY DEF Nested, of
<1> HIDE DEF told
<1>9. QED
  BY <1>7, <1>8 DEF Hits, Result, Unknown

(* The shell finds its script.                                             *)
LEMMA ScriptFound ==
  ASSUME NEW args, NEW X, args \in Seq(X), NEW k \in 2 .. Len(args), args[k].static,
         Spells(args[k - 1], {"-c", "-lc"}),
         \A j \in 1 .. k - 2 : args[j].static => args[j].value \in Flags \ {"-c", "-lc"}
  PROVE  ScriptAt(args) \in {0, k}
<1> DEFINE opaque(i) == ~args[i].static \/ args[i].value = "--" \/ ~IsFlag(args[i])
           asks(i)   == args[i].static /\ args[i].value \in {"-c", "-lc"}
           at        == {i \in DOMAIN args : asks(i) /\ \A j \in 1 .. i - 1 : ~opaque(j) /\ ~asks(j)}
           i         == CHOOSE x \in at : TRUE
<1>1. ScriptAt(args) = IF at = {} THEN 0
                       ELSE IF i + 1 <= Len(args) /\ args[i + 1].static THEN i + 1 ELSE 0
  BY DEF ScriptAt
<1>2. Len(args) \in Nat /\ DOMAIN args = 1 .. Len(args) /\ k \in Nat /\ k - 1 \in 1 .. Len(args)
  OBVIOUS
<1>3. asks(k - 1) /\ \A j \in 1 .. k - 2 : ~asks(j)
  BY DEF Spells
<1>4. \A x \in at : x = k - 1
  <2>1. ASSUME NEW x \in at PROVE x = k - 1
    <3>1. x \in 1 .. Len(args) /\ asks(x) /\ \A j \in 1 .. x - 1 : ~asks(j)
      BY <1>2
    <3>2. x \notin 1 .. k - 2
      BY <3>1, <1>3
    <3>3. k - 1 \notin 1 .. x - 1
      BY <3>1, <1>3
    <3> HIDE DEF asks, at
    <3>4. QED
      BY <1>2, <3>1, <3>2, <3>3
  <2>2. QED
    BY <2>1
<1>5. at # {} => i = k - 1
  BY <1>4
<1> HIDE DEF at, i
<1>6. QED
  BY <1>1, <1>2, <1>5

(* A program the table does not know.                                      *)
LEMMA LookupKnows ==
  ASSUME NEW bin, NEW args, bin \notin {key[1] : key \in DOMAIN Table}
  PROVE  Lookup(bin, args) = Unknown
<1> DEFINE split == SplitArgs(bin, args)
           sub   == IF split.subs = <<>> THEN "" ELSE split.subs[1]
           sub2  == IF Len(split.subs) < 2 THEN "" ELSE split.subs[2]
           keys  == {<<bin, f>> : f \in split.flags} \cup {<<bin, sub, f>> : f \in split.flags}
           hits  == {key \in keys : key \in DOMAIN Table}
           rows  == <<<<bin, sub, sub2>>, <<bin, sub>>, <<bin>>>>
           found == {i \in 1 .. 3 : rows[i] \in DOMAIN Table}
<1>1. Lookup(bin, args) = IF hits # {} THEN UNION {Table[key] : key \in hits}
                          ELSE IF found = {} THEN Unknown
                          ELSE Table[rows[CHOOSE i \in found : \A j \in found : i <= j]]
  BY DEF Lookup
<1>2. \A key \in keys : key[1] = bin
  <2>1. \A f : <<bin, f>>[1] = bin /\ <<bin, sub, f>>[1] = bin
    OBVIOUS
  <2> HIDE DEF sub, split
  <2>2. QED
    BY <2>1
<1> HIDE DEF keys
<1>3. hits = {}
  BY <1>2
<1>4. \A i \in 1 .. 3 : rows[i][1] = bin
  <2>1. \A i \in 1 .. 3 : i = 1 \/ i = 2 \/ i = 3
    OBVIOUS
  <2>2. rows[1][1] = bin /\ rows[2][1] = bin /\ rows[3][1] = bin
    OBVIOUS
  <2> HIDE DEF rows
  <2>3. QED
    BY <2>1, <2>2
<1> HIDE DEF rows
<1>5. found = {}
  BY <1>4
<1>6. QED
  BY <1>1, <1>3, <1>5

(* A wrapper's inner command begins before the script of the shell at p,   *)
(* or nowhere: its own flags, their values, assignments and a duration end *)
(* there.                                                                  *)
Searched(bin, args, p, k, i, s) ==
  /\ s.mode = "opaque" => s.at = 0
  /\ s.mode = "found" => s.at <= k
  /\ s.mode = "value" => bin # "timeout" /\ i # 0 /\ Spells(args[i], {"-u", "-C", "-S", "-n"})
  /\ bin = "timeout" /\ i >= p /\ s.mode = "own" => s.duration
  /\ i >= k => s.mode \in {"found", "opaque"}

LEMMA LooksOn ==
  ASSUME NEW bin, NEW args, NEW p \in Nat, NEW k \in Nat, p < k, NEW i \in Nat, 1 <= i,
         \A j \in {i, k, p} : args[j].static \in BOOLEAN,
         Spells(args[k], {"script"}), Spells(args[p], StringShells \cup {"eval"}),
         ~Spells(args[k - 1], {"-u", "-C", "-S", "-n"}),
         NEW s \in SearchStates, Searched(bin, args, p, k, i - 1, s)
  PROVE  Searched(bin, args, p, k, i, Looks(bin, args, s, i))
<1> DEFINE t == Looks(bin, args, s, i)
<1>1. i - 1 \in Nat /\ s.at \in Nat /\ s.duration \in BOOLEAN /\ s.mode \in {"found", "opaque", "value", "own"}
      /\ s = [mode |-> s.mode, at |-> s.at, duration |-> s.duration]
  BY DEF SearchStates
<1>2. /\ s.mode = "opaque" => s.at = 0
      /\ s.mode = "found" => s.at <= k
      /\ s.mode = "value" => bin # "timeout" /\ Spells(args[i - 1], {"-u", "-C", "-S", "-n"})
      /\ bin = "timeout" /\ i - 1 >= p /\ s.mode = "own" => s.duration
      /\ i - 1 >= k => s.mode \in {"found", "opaque"}
  BY DEF Searched
<1>3. args[k].static /\ args[k].value = "script" /\ ~IsFlag(args[k])
  BY DEF Spells, IsFlag, Flags
<1>4. ~IsFlag(args[p])
  BY DEF Spells, IsFlag, Flags, StringShells
<1>5. /\ i - 1 >= k <=> (i >= k /\ i # k)
      /\ i - 1 >= p <=> (i >= p /\ i # p)
      /\ i - 1 = k - 1 <=> i = k
      /\ i = k => i >= p /\ i # p
  BY <1>1
<1>6. CASE s.mode \in {"found", "opaque"}
  <2>1. t = s
    BY <1>6 DEF Looks
  <2>2. s.mode # "value" /\ s.mode # "own"
    BY <1>6
  <2> HIDE DEF t
  <2>3. QED
    BY <1>2, <1>6, <2>1, <2>2 DEF Searched, t
<1>7. CASE s.mode = "value"
  <2>1. t.mode = "own"
    BY <1>1, <1>7 DEF Looks
  <2>2. bin # "timeout" /\ Spells(args[i - 1], {"-u", "-C", "-S", "-n"})
    BY <1>2, <1>7
  <2>3. ~(i >= k)
    <3>1. i # k
      BY <2>2, <1>5
    <3>2. QED
      BY <1>2, <1>5, <1>7, <3>1
  <2> HIDE DEF t
  <2>4. QED
    BY <2>1, <2>2, <2>3 DEF Searched, t
<1>8. CASE s.mode = "own" /\ ~args[i].static
  <2>1. t.mode = "opaque" /\ t.at = 0
    BY <1>8 DEF Looks, Searching
  <2> HIDE DEF t
  <2>2. QED
    BY <2>1 DEF Searched, t
<1>9. CASE s.mode = "own" /\ args[i].static
  <2>1. ~(i - 1 >= k) /\ ~(i >= k /\ i # k)
    BY <1>2, <1>5, <1>9
  <2>2. t = IF args[i].value = "--" THEN Searching("found", i + 1, s.duration)
            ELSE IF IsFlag(args[i])
            THEN [s EXCEPT !.mode = IF args[i].value \in ValueFlags(bin) THEN "value" ELSE "own"]
            ELSE IF bin = "env" /\ args[i].value = "K=v" THEN s
            ELSE IF bin = "timeout" /\ ~s.duration THEN [s EXCEPT !.duration = TRUE]
            ELSE Searching("found", i, s.duration)
    BY <1>9 DEF Looks
  <2>3. CASE args[i].value = "--"
    <3>1. i # k
      BY <1>3, <2>3
    <3>2. i + 1 <= k /\ ~(i >= k)
      BY <2>1, <3>1
    <3>3. t.mode = "found" /\ t.at = i + 1
      BY <2>2, <2>3 DEF Searching
    <3> HIDE DEF t
    <3>4. QED
      BY <3>2, <3>3 DEF Searched, t
  <2>4. CASE args[i].value # "--" /\ IsFlag(args[i])
    <3>1. i # k /\ i # p
      BY <1>3, <1>4, <2>4
    <3>2. ~(i >= k)
      BY <2>1, <3>1
    <3>3. t = [s EXCEPT !.mode = IF args[i].value \in ValueFlags(bin) THEN "value" ELSE "own"]
      BY <2>2, <2>4
    <3>4. t.mode = (IF args[i].value \in ValueFlags(bin) THEN "value" ELSE "own") /\ t.duration = s.duration
      BY <1>1, <3>3
    <3> HIDE DEF t
    <3>5. CASE args[i].value \in ValueFlags(bin)
      <4>1. bin # "timeout" /\ Spells(args[i], {"-u", "-C", "-S", "-n"})
        BY <1>9, <3>5 DEF ValueFlags, Spells
      <4>2. t.mode = "value" /\ i # 0
        BY <3>4, <3>5
      <4>3. QED
        BY <3>2, <4>1, <4>2 DEF Searched, t
    <3>6. CASE args[i].value \notin ValueFlags(bin)
      <4>1. t.mode = "own"
        BY <3>4, <3>6
      <4>2. bin = "timeout" /\ i >= p => t.duration
        BY <1>2, <1>5, <1>9, <3>1, <3>4
      <4>3. QED
        BY <3>2, <4>1, <4>2 DEF Searched, t
    <3>7. QED
      BY <3>5, <3>6
  <2>5. CASE args[i].value # "--" /\ ~IsFlag(args[i]) /\ bin = "env" /\ args[i].value = "K=v"
    <3>1. i # k
      BY <1>3, <2>5
    <3>2. ~(i >= k)
      BY <2>1, <3>1
    <3>3. t = s
      BY <2>2, <2>5
    <3>4. bin # "timeout"
      BY <2>5
    <3> HIDE DEF t
    <3>5. QED
      BY <1>9, <3>2, <3>3, <3>4 DEF Searched, t
  <2>6. CASE args[i].value # "--" /\ ~IsFlag(args[i]) /\ bin = "timeout" /\ ~s.duration
    <3>1. i # k
      BY <1>2, <1>5, <1>9, <2>6
    <3>2. ~(i >= k)
      BY <2>1, <3>1
    <3>3. t = [s EXCEPT !.duration = TRUE]
      BY <2>2, <2>6
    <3>4. t.mode = "own" /\ t.duration
      BY <1>1, <1>9, <3>3
    <3> HIDE DEF t
    <3>5. QED
      BY <3>2, <3>4 DEF Searched, t
  <2>7. CASE /\ args[i].value # "--" /\ ~IsFlag(args[i])
             /\ ~(bin = "env" /\ args[i].value = "K=v") /\ ~(bin = "timeout" /\ ~s.duration)
    <3>1. t.mode = "found" /\ t.at = i
      BY <2>2, <2>7 DEF Searching
    <3>2. i <= k
      BY <2>1
    <3> HIDE DEF t
    <3>3. QED
      BY <3>1, <3>2 DEF Searched, t
  <2>8. QED
    BY <2>3, <2>4, <2>5, <2>6, <2>7
<1>10. QED
  BY <1>1, <1>6, <1>7, <1>8, <1>9

LEMMA UnwrapReaches ==
  ASSUME NEW bin, NEW args, NEW X, args \in Seq(X), \A x \in X : x.static \in BOOLEAN,
         NEW p \in DOMAIN args, NEW k \in DOMAIN args, p < k,
         Spells(args[k], {"script"}), Spells(args[p], StringShells \cup {"eval"}),
         ~Spells(args[k - 1], {"-u", "-C", "-S", "-n"})
  PROVE  Unwrap(bin, args) <= k
<1> DEFINE n == Len(args)
<1>1. n \in Nat /\ DOMAIN args = 1 .. n /\ p \in Nat /\ k \in Nat /\ 1 <= p /\ k <= n
      /\ \A i \in 1 .. n : args[i].static \in BOOLEAN
  OBVIOUS
<1>2. PICK search \in [0 .. n -> SearchStates] :
        /\ search[0] = Searching("own", n + 1, FALSE)
        /\ \A i \in 1 .. n : search[i] = Looks(bin, args, search[i - 1], i)
        /\ Unwrap(bin, args) = search[n].at
  BY UnwrapScan
<1> DEFINE P == {m \in Nat : m <= n => Searched(bin, args, p, k, m, search[m])}
<1> HIDE DEF n
<1>3. 0 \in P
  <2>1. search[0].mode = "own" /\ ~(0 >= p) /\ ~(0 >= k)
    BY <1>1, <1>2 DEF Searching
  <2>2. QED
    BY <2>1 DEF Searched
<1>4. ASSUME NEW m \in P PROVE m + 1 \in P
  <2>1. m \in Nat /\ m + 1 \in Nat /\ (m + 1 <= n => m <= n) /\ (m + 1) - 1 = m /\ 1 <= m + 1
    BY <1>1
  <2>2. ASSUME m + 1 <= n PROVE Searched(bin, args, p, k, m + 1, search[m + 1])
    <3>1. m + 1 \in 1 .. n /\ m \in 0 .. n
      BY <1>1, <2>1, <2>2
    <3>2. search[m + 1] = Looks(bin, args, search[m], m + 1) /\ search[m] \in SearchStates
      BY <1>2, <2>1, <3>1
    <3>3. Searched(bin, args, p, k, m, search[m])
      BY <2>1, <2>2
    <3>4. \A j \in {m + 1, k, p} : args[j].static \in BOOLEAN
      BY <1>1, <3>1
    <3>5. Searched(bin, args, p, k, (m + 1) - 1, search[m])
      BY <2>1, <3>3
    <3> DEFINE i == m + 1
               s == search[m]
    <3>6. i \in Nat /\ 1 <= i /\ s \in SearchStates /\ Searched(bin, args, p, k, i - 1, s)
          /\ \A j \in {i, k, p} : args[j].static \in BOOLEAN
      BY <2>1, <3>2, <3>4, <3>5
    <3>7. search[i] = Looks(bin, args, s, i)
      BY <3>2
    <3> HIDE DEF i, s
    <3>8. Searched(bin, args, p, k, i, Looks(bin, args, s, i))
      BY <1>1, <3>6, LooksOn
    <3>9. QED
      BY <3>7, <3>8 DEF i
  <2>3. QED
    BY <2>1, <2>2
<1>5. P \in SUBSET Nat
  OBVIOUS
<1> HIDE DEF P
<1>6. n \in P
  BY <1>1, <1>3, <1>4, <1>5, EveryNumber
<1>7. Searched(bin, args, p, k, n, search[n]) /\ search[n] \in SearchStates
  BY <1>1, <1>2, <1>6 DEF P
<1>8. QED
  BY <1>1, <1>2, <1>7 DEF Searched

(* Of at most m words with the script at k among them, an inner command    *)
(* says that nothing is known or tells of the script's call.               *)
InnerHits(inner, argv, k, q, m) ==
  \A words \in Seq(ToSet(argv)), from \in Nat :
    Placed(words, argv, from) /\ from < k /\ k <= from + Len(words) /\ Len(words) <= m
      => Hits(inner[words][from], q)

LEMMA HitsStay ==
  ASSUME NEW X, NEW c, NEW d, NEW A \in Seq(X), NEW B \in Seq(X), NEW q
  PROVE  /\ Hits(Result(c, A), q) => Hits(Result(c \cup d, A \o B), q) /\ Hits(Result(c \cup d, A), q)
         /\ Hits(Result(d, B), q) => Hits(Result(c \cup d, A \o B), q)
BY TellTogether DEF Hits, Result

LEMMA FindHits ==
  ASSUME NEW inner, NEW D, NEW S, NEW argv \in Seq(ArgsOver(S)), NEW words, NEW from,
         Placed(words, argv, from), words # <<>>, NEW path, InnerTells(inner, D, argv, path),
         NEW q, NEW k \in Nat, from < k, k <= from + Len(words),
         NEW m \in Nat, Len(words) - 1 <= m, InnerHits(inner, argv, k, q, m),
         NEW e \in Nat, 1 < e, from + e < k, Spells(words[e], {"-exec"}),
         \A j \in e .. k - from : ~Closing(words[j])
  PROVE  Hits(Find(inner, words, from), q)
<1> DEFINE n == Len(words)
           G == GoodSegs(D, argv, path)
           X == ScriptSegs(argv, path)
<1>1. /\ n \in Nat /\ n # 0 /\ from \in Nat /\ words \in Seq(ToSet(argv)) /\ DOMAIN words = 1 .. n
      /\ \A i \in 1 .. n : words[i].static \in BOOLEAN
  <2>1. words \in Seq(ToSet(argv)) /\ from \in Nat
    BY DEF Placed
  <2>2. n \in Nat /\ n # 0
    BY <2>1
  <2>3. QED
    BY <2>1, <2>2, PlacedWords
<1>2. e < n /\ k - from \in Nat /\ e < k - from /\ k - from <= n
  BY <1>1
<1>3. PICK found \in [1 .. n -> FindStates(D, argv, path)] : FindsBy(found, inner, words, from)
  BY FindScan
<1>4. /\ found[1] = [next |-> 2, class |-> Read, segs |-> <<>>]
      /\ \A i \in 2 .. n : found[i] = Finds(inner, words, from, found[i - 1], i)
      /\ Find(inner, words, from) = Result(found[n].class, found[n].segs)
  BY <1>3 DEF FindsBy
<1>5. G \subseteq Seq(X)
  BY DEF GoodSegs
<1> DEFINE Hit(s) == Hits(Result(s.class, s.segs), q)
           Near(i) == Hit(found[i]) \/ (i < e /\ found[i].next <= e)
           P == {i \in Nat : i < n => Near(i + 1)}
<1> HIDE DEF n, G, X
<1>6. 0 \in P
  <2>1. found[0 + 1].next = 2 /\ 0 + 1 < e /\ 2 <= e
    BY <1>4
  <2>2. QED
    BY <2>1
<1>7. ASSUME NEW i \in 2 .. n, Near(i - 1) PROVE Near(i)
  <2> DEFINE s == found[i - 1]
             t == Finds(inner, words, from, s, i)
             end == ClauseEnd(words, i)
             part == SubSeq(words, i + 1, end - 1)
             clause == inner[part][from + i]
  <2>1. i - 1 \in 1 .. n /\ i \in Nat /\ i \in 1 .. n /\ found[i] = t
    BY <1>1, <1>4
  <2>2. s.next \in Nat /\ s.segs \in Seq(X) /\ s.class \in SUBSET Classes
        /\ s = [next |-> s.next, class |-> s.class, segs |-> s.segs]
    BY <1>3, <1>5, <2>1 DEF FindStates, G
  <2>3. end \in i + 1 .. n + 1
    BY <1>1, <2>1, ClauseEnds, Zenon DEF n
  <2>4. end <= n => Closing(words[end])
    BY <1>1, <2>1, ClauseEnds, Zenon DEF n
  <2>5. end - 1 \in Nat /\ end - 1 <= n /\ end + 1 \in Nat /\ from + ((i + 1) - 1) = from + i /\ i + 1 \in 1 .. n + 1
        /\ from + i \in Nat
    <3> HIDE DEF end
    <3>1. n \in Nat /\ i \in Nat /\ i <= n /\ from \in Nat
      BY <1>1, <2>1
    <3>2. QED
      BY <3>1, <2>3
  <2>6. Placed(part, argv, from + i)
    BY <2>5, PartPlaced DEF n
  <2>7. clause.segs \in Seq(X) /\ clause = [class |-> clause.class, segs |-> clause.segs]
    <3>1. clause \in Results(D, argv, path)
      BY <2>6 DEF InnerTells, Placed
    <3>2. QED
      BY <3>1, <1>5 DEF Results, G
  <2>8. ASSUME end > k - from, i <= e PROVE Hit(clause)
    <3>1. Len(part) = (end - 1) - i
      <4>1. words \in Seq(ToSet(argv)) /\ i + 1 \in Nat /\ end - 1 \in Nat
        BY <1>1, <2>1, <2>5
      <4>2. part = [x \in 1 .. ((end - 1) - (i + 1)) + 1 |-> words[((i + 1) + x) - 1]]
        BY <4>1
      <4>3. ((end - 1) - (i + 1)) + 1 = (end - 1) - i /\ (end - 1) - i \in Nat
        BY <2>1, <2>3
      <4> HIDE DEF part, end
      <4>4. QED
        BY <4>2, <4>3
    <3>2. from + i < k /\ k <= (from + i) + ((end - 1) - i) /\ (end - 1) - i <= m
      <4>1. from \in Nat /\ i \in Nat /\ end \in Nat /\ k \in Nat /\ n \in Nat /\ m \in Nat /\ e \in Nat
        BY <1>1, <2>1, <2>3
      <4>2. from + e < k /\ n - 1 <= m /\ end <= n + 1 /\ 2 <= i
        BY <2>3, <1>1 DEF n
      <4> HIDE DEF end
      <4>3. QED
        BY <4>1, <4>2, <2>8
    <3>3. part \in Seq(ToSet(argv))
      BY <2>6 DEF Placed
    <3> HIDE DEF part, end
    <3>4. Hits(clause, q)
      BY <3>1, <3>2, <3>3, <2>5, <2>6 DEF InnerHits
    <3>5. QED
      BY <3>4, <2>7 DEF Result
  <2>9. ASSUME end <= k - from, i <= e PROVE i < e /\ end < e
    <3>1. Closing(words[end])
      BY <2>3, <2>4, <2>9, <1>1, <1>2
    <3>2. end \notin e .. k - from
      BY <3>1
    <3> HIDE DEF end
    <3>3. i \in Nat /\ n \in Nat /\ end \in Nat /\ i < end /\ k - from \in Nat
      <4>1. n \in Nat /\ i \in Nat /\ k - from \in Nat
        BY <1>1, <1>2, <2>1
      <4>2. QED
        BY <4>1, <2>3
    <3>4. end <= k - from /\ i <= e
      BY <2>9
    <3>5. ~(e <= end)
      BY <3>2, <3>3, <3>4
    <3>6. QED
      BY <3>3, <3>4, <3>5
  <2>10. CASE i < s.next \/ ~words[i].static
    <3>1. t = s
      <4> HIDE DEF s, t, end, part, clause, Near, Hit
      <4>1. Finds(inner, words, from, s, i) = s
        <5>1. ~(i >= s.next /\ words[i].static)
          BY <2>1, <2>2, <2>10
        <5>2. QED
          BY <2>10, <5>1 DEF Finds
      <4>2. QED
        BY <4>1 DEF t
    <3>2. ASSUME ~Hit(s) PROVE i < e /\ t.next <= e
      <4>1. i - 1 < e /\ s.next <= e
        BY <1>7, <3>2
      <4>2. i # e
        BY <4>1, <2>10, <2>2, <2>1 DEF Spells
      <4>3. QED
        BY <4>1, <4>2, <3>1, <2>1
    <3> HIDE DEF t, s, Hit
    <3>3. QED
      BY <2>1, <3>1, <3>2
  <2>11. CASE i >= s.next /\ words[i].static
    <3>1. ~(i < s.next \/ ~words[i].static)
      BY <2>1, <2>2, <2>11
    <3>2. t = CASE words[i].value = "-exec" ->
                     [next |-> end + 1, class |-> s.class \cup clause.class, segs |-> s.segs \o clause.segs]
                [] words[i].value = "-delete" -> [s EXCEPT !.class = s.class \cup {"fs:delete"}]
                [] words[i].value = "-fls"    -> [s EXCEPT !.class = s.class \cup {"fs:write"}]
                [] OTHER                      -> s
      BY <2>11, <3>1 DEF Finds
    <3>3. CASE words[i].value = "-exec"
      <4>1. t = [next |-> end + 1, class |-> s.class \cup clause.class, segs |-> s.segs \o clause.segs]
        BY <3>2, <3>3
      <4> HIDE DEF t, s, clause, end, part
      <4>2. t.next = end + 1 /\ t.class = s.class \cup clause.class /\ t.segs = s.segs \o clause.segs
        BY <4>1
      <4>3. Hit(s) => Hit(t)
        BY <4>2, <2>2, <2>7, HitsStay
      <4>4. Hit(clause) => Hit(t)
        BY <4>2, <2>2, <2>7, HitsStay
      <4>5. ASSUME ~Hit(t) PROVE i < e /\ t.next <= e
        <5>1. i - 1 < e /\ i <= e
          BY <1>7, <4>3, <4>5, <2>1 DEF s
        <5>2. end <= k - from
          <6>1. ~(end > k - from)
            BY <5>1, <2>8, <4>4, <4>5
          <6>2. QED
            BY <6>1, <2>3, <2>1, <1>1, <1>2
        <5>3. i < e /\ end < e
          BY <5>1, <5>2, <2>9
        <5>4. QED
          BY <5>3, <4>2, <2>3, <2>1
      <4> HIDE DEF Hit
      <4>6. QED
        BY <4>5, <2>1
    <3>4. CASE words[i].value # "-exec"
      <4>1. \/ t = [s EXCEPT !.class = s.class \cup {"fs:delete"}]
            \/ t = [s EXCEPT !.class = s.class \cup {"fs:write"}]
            \/ t = s
        BY <3>2, <3>4
      <4>2. t.next = s.next /\ t.segs = s.segs /\ \E d : t.class = s.class \cup d
        <5>1. s.class = s.class \cup {}
          OBVIOUS
        <5> HIDE DEF t, s
        <5>2. QED
          BY <4>1, <2>2, <5>1
      <4> HIDE DEF t, s
      <4>3. Hit(s) => Hit(t)
        BY <4>2, <2>2, HitsStay
      <4>4. i # e
        BY <3>4 DEF Spells
      <4>5. ASSUME ~Hit(t) PROVE i < e /\ t.next <= e
        <5>1. i - 1 < e /\ s.next <= e
          BY <1>7, <4>3, <4>5 DEF s
        <5>2. QED
          BY <5>1, <4>2, <4>4, <2>1
      <4> HIDE DEF Hit
      <4>6. QED
        BY <4>5, <2>1
    <3>5. QED
      BY <3>3, <3>4
  <2>12. QED
    BY <1>1, <2>1, <2>2, <2>10, <2>11
<1>8. ASSUME NEW i \in P PROVE i + 1 \in P
  <2>1. i \in Nat /\ i + 1 \in Nat /\ (i + 1 < n => i < n)
    BY <1>1
  <2>2. ASSUME i + 1 < n PROVE Near((i + 1) + 1)
    <3>1. (i + 1) + 1 \in 2 .. n /\ ((i + 1) + 1) - 1 = i + 1
      BY <1>1, <2>1, <2>2
    <3>2. Near(((i + 1) + 1) - 1)
      <4>1. Near(i + 1)
        BY <2>1, <2>2
      <4> HIDE DEF Near
      <4>2. QED
        BY <3>1, <4>1
    <3> HIDE DEF Near
    <3>3. QED
      BY <3>1, <3>2, <1>7
  <2> HIDE DEF Near
  <2>3. QED
    BY <2>1, <2>2
<1>9. P \in SUBSET Nat
  OBVIOUS
<1> HIDE DEF P
<1>10. n - 1 \in Nat /\ n - 1 < n /\ (n - 1) + 1 = n
  BY <1>1
<1>11. n - 1 \in P
  BY <1>6, <1>8, <1>9, <1>10, EveryNumber
<1>12. Near(n)
  BY <1>10, <1>11 DEF P
<1>13. QED
  BY <1>1, <1>2, <1>4, <1>12

LEMMA RestPlaced ==
  ASSUME NEW S, NEW argv \in Seq(ArgsOver(S)), NEW words, NEW from, Placed(words, argv, from), words # <<>>,
         NEW at \in Nat, at # 0, at <= Len(words) - 1
  PROVE  /\ Placed(Rest(Tail(words), at), argv, from + at)
         /\ Len(Rest(Tail(words), at)) = Len(words) - at
<1> DEFINE args == Tail(words)
           part == SubSeq(words, at + 1, Len(words))
<1>1. words \in Seq(ToSet(argv)) /\ from \in Nat
  BY DEF Placed
<1>2. /\ Len(words) \in Nat \ {0} /\ args \in Seq(ToSet(argv)) /\ Len(args) = Len(words) - 1
      /\ DOMAIN args = 1 .. Len(args) /\ \A k \in 1 .. Len(args) : args[k] = words[k + 1]
  BY <1>1
<1>3. at + 1 \in 1 .. Len(words) + 1 /\ Len(words) \in Nat /\ from + ((at + 1) - 1) = from + at
  BY <1>1, <1>2
<1>4. Placed(part, argv, from + at)
  BY <1>3, PartPlaced
<1>5. Rest(args, at) = [k \in 1 .. (Len(args) - at) + 1 |-> args[(at + k) - 1]]
  <2>1. Rest(args, at) = SubSeq(args, at, Len(args)) /\ Len(args) \in Nat
    BY <1>2 DEF Rest
  <2> HIDE DEF args
  <2>2. QED
    BY <1>2, <2>1
<1>6. part = [k \in 1 .. (Len(words) - (at + 1)) + 1 |-> words[((at + 1) + k) - 1]]
  BY <1>1, <1>2
<1>7. (Len(args) - at) + 1 = (Len(words) - (at + 1)) + 1 /\ (Len(words) - (at + 1)) + 1 = Len(words) - at
      /\ Len(words) - at \in Nat
  <2> HIDE DEF args
  <2>1. QED
    BY <1>2
<1>8. \A k \in 1 .. (Len(args) - at) + 1 : args[(at + k) - 1] = words[((at + 1) + k) - 1]
  <2> HIDE DEF args
  <2>1. \A k \in 1 .. (Len(args) - at) + 1 : /\ (at + k) - 1 \in 1 .. Len(args)
                                             /\ ((at + k) - 1) + 1 = ((at + 1) + k) - 1
    BY <1>2
  <2>2. QED
    BY <1>2, <2>1
<1>9. Rest(args, at) = part
  BY <1>5, <1>6, <1>7, <1>8
<1>10. Len(part) = Len(words) - at
  <2> HIDE DEF part
  <2>1. part = [k \in 1 .. Len(words) - at |-> words[((at + 1) + k) - 1]]
    BY <1>6, <1>7
  <2>2. QED
    BY <1>7, <2>1
<1>11. QED
  BY <1>4, <1>9, <1>10

LEMMA TableKeys == {key[1] : key \in DOMAIN Table} \subseteq {"ls", "trap", "echo", "cat", "rm", "curl", "sed", "git"}
<1>1. DOMAIN Table = {<<"ls">>, <<"trap">>, <<"echo">>, <<"cat">>, <<"rm">>, <<"curl">>, <<"sed">>, <<"sed", "-i">>,
            <<"git", "log">>, <<"git", "push">>, <<"git", "stash", "list">>, <<"git", "stash">>}
  BY DEF Table
<1>2. QED
  BY <1>1

(* What a command line runs at k through the shell at p is told of, or     *)
(* nothing is known of the command.                                        *)
LEMMA ClassOfHits ==
  ASSUME NEW W, NEW C, NEW D, NEW S, Tells(W, C, D, S), NEW argv \in Seq(ArgsOver(S)), NEW words, NEW from,
         Placed(words, argv, from), words # <<>>, NEW path \in Paths, NEW depth \in Nat,
         NEW inner, InnerTells(inner, D, argv, path),
         NEW p, NEW k, RunAt(argv, p, k), from < k, k <= from + Len(words),
         NEW q, q \in CallsOf(C, Held(argv[k].stmts, "arg", k), path),
         NEW m \in Nat, Len(words) - 1 <= m, InnerHits(inner, argv, k, q, m)
  PROVE  Hits(ClassOf(W, inner, words, from, path, depth), q)
<1> DEFINE bin  == words[1].value
           args == Tail(words)
           at   == Unwrap(bin, args)
           n    == Len(words)
           own  == ClassOf(W, inner, words, from, path, depth)
<1> SUFFICES Hits(own, q)
  OBVIOUS
<1>1. /\ words \in Seq(ToSet(argv)) /\ ToSet(argv) \subseteq ArgsOver(S) /\ from \in Nat
      /\ \A x \in ToSet(argv) : x.static \in BOOLEAN
  <2>1. words \in Seq(ToSet(argv)) /\ ToSet(argv) \subseteq ArgsOver(S) /\ from \in Nat
    BY DEF Placed, ToSet
  <2>2. QED
    BY <2>1 DEF ArgsOver
<1>2. /\ n \in Nat \ {0} /\ args \in Seq(ToSet(argv)) /\ Len(args) = n - 1
      /\ DOMAIN args = 1 .. Len(args) /\ \A j \in 1 .. Len(args) : args[j] = words[j + 1]
  BY <1>1
<1>3. \A j \in 1 .. n : words[j] = argv[from + j] /\ words[j].static \in BOOLEAN
  <2>1. \A j \in DOMAIN words : words[j] = argv[from + j] /\ words[j].static \in BOOLEAN
    <3>1. \A j \in DOMAIN words : words[j] = argv[from + j]
      BY DEF Placed
    <3>2. \A j \in DOMAIN words : words[j].static \in BOOLEAN
      BY PlacedWords, Zenon
    <3>3. QED
      BY <3>1, <3>2
  <2>2. DOMAIN words = 1 .. n
    BY <1>1
  <2>3. QED
    BY <2>1, <2>2
<1>4. /\ k \in Nat /\ p \in Nat /\ 1 <= p /\ p < k /\ k <= Len(argv)
      /\ Spells(argv[p], StringShells \cup {"eval"}) /\ Spells(argv[k], {"script"})
      /\ \A j \in p + 1 .. k : argv[j].static => argv[j].value \in Flags \cup {"script"}
      /\ ~Spells(argv[k - 1], {"-u", "-C", "-S", "-n"})
      /\ \A j \in p .. k : ~Closing(argv[j])
  BY WordsBetween
<1>5. Hits(Result(Unknown, <<>>), q)
  BY DEF Hits, Result, Unknown
<1>6. own = IF ~words[1].static \/ bin = "./ls" THEN Result(Unknown, <<>>)
            ELSE IF bin \in StringShells
                 THEN IF ScriptAt(args) = 0 THEN Result(Unknown, <<>>)
                      ELSE Nested(W, words, {ScriptAt(args) + 1}, from, path, depth)
            ELSE IF bin = "eval" THEN Eval(W, words, from, path, depth)
            ELSE IF bin = "find" THEN Find(inner, words, from)
            ELSE IF bin = "sudo" /\ LeadingFlag(args, {"-e"}) THEN Result({"fs:write"}, <<>>)
            ELSE IF bin = "command" /\ LeadingFlag(args, {"-v"}) THEN Result(Read, <<>>)
            ELSE IF bin \in Wrappers
                 THEN IF at = 0 THEN Result(Unknown, <<>>)
                      ELSE IF at > Len(args) THEN Result(EmptyClass(bin), <<>>)
                      ELSE inner[Rest(args, at)][from + at]
            ELSE Result(Lookup(bin, args), <<>>)
  BY DEF ClassOf
<1>7. \A j \in 1 .. Len(args) : args[j] = argv[(from + 1) + j] /\ j + 1 \in 1 .. n
  <2> HIDE DEF args, n
  <2>1. \A j \in 1 .. Len(args) : j + 1 \in 1 .. n /\ from + (j + 1) = (from + 1) + j
    BY <1>1, <1>2
  <2>2. QED
    BY <1>2, <1>3, <2>1
<1>8. /\ 1 \in 1 .. n /\ words[1] = argv[from + 1] /\ k - from \in 1 .. n /\ words[k - from] = argv[k]
      /\ from + (k - from) = k
  <2> HIDE DEF n
  <2>1. 1 \in 1 .. n /\ k - from \in 1 .. n /\ from + (k - from) = k
    BY <1>1, <1>2, <1>4 DEF n
  <2>2. QED
    BY <1>3, <2>1
<1> HIDE DEF args, at, own, n, bin
<1>9. /\ from \in Nat /\ n \in Nat /\ k \in Nat /\ p \in Nat /\ n # 0 /\ Len(args) = n - 1
       /\ 1 <= p /\ p < k /\ from < k /\ k <= from + n /\ n - 1 <= m
  BY <1>1, <1>2, <1>4 DEF n
<1>10. words[k - from].static = TRUE
  BY <1>3, <1>4, <1>8 DEF Spells
<1>11. ASSUME words[1].static, bin \notin StringShells, bin # "eval", bin # "find", bin \notin Wrappers,
              bin \notin {key[1] : key \in DOMAIN Table}
       PROVE  Hits(own, q)
  <2>1. bin # "sudo" /\ bin # "command"
    BY <1>11 DEF Wrappers
  <2>2. Lookup(bin, args) = Unknown
    BY <1>11, LookupKnows
  <2>3. own = Result(Unknown, <<>>)
    BY <1>6, <1>11, <2>1, <2>2
  <2>4. QED
    BY <2>3, <1>5
<1>12. CASE p < from + 1
  <2>1. from + 1 \in p + 1 .. k
    BY <1>1, <1>4, <1>12
  <2>2. words[1].static => bin \in Flags \cup {"script"}
    BY <2>1, <1>4, <1>8 DEF bin
  <2>3. CASE ~words[1].static
    BY <2>3, <1>5, <1>6
  <2>4. CASE words[1].static
    <3>1. bin \notin StringShells /\ bin # "eval" /\ bin # "find" /\ bin \notin Wrappers
      BY <2>2, <2>4, Zenon DEF Flags, StringShells, Wrappers
    <3>2. bin \notin {key[1] : key \in DOMAIN Table}
      <4>1. bin \notin {"ls", "trap", "echo", "cat", "rm", "curl", "sed", "git"}
        BY <2>2, <2>4, Zenon DEF Flags
      <4>2. QED
        BY <4>1, TableKeys
    <3>3. QED
      BY <2>4, <3>1, <3>2, <1>11
  <2>5. QED
    BY <2>3, <2>4
<1>13. CASE p = from + 1
  <2>1. words[1] = argv[p] /\ words[1].static /\ \A j \in 1 .. Len(args) : args[j] = argv[p + j]
    BY <1>4, <1>7, <1>8, <1>13 DEF Spells
  <2>2. RunBy(argv, p, k)
    BY DEF RunAt
  <2>3. CASE /\ Spells(argv[p], StringShells) /\ p < k - 1 /\ Spells(argv[k - 1], {"-c", "-lc"})
             /\ \A j \in p + 1 .. k - 2 : argv[j].static => argv[j].value \in Flags \ {"-c", "-lc"}
    <3> DEFINE x == k - p
    <3>1. x \in 2 .. Len(args) /\ p + x = k /\ p + (x - 1) = k - 1 /\ x - 1 \in 1 .. Len(args)
          /\ x + 1 = k - from
      BY <1>9, <1>13, <2>3
    <3>2. args[x] = argv[k] /\ args[x - 1] = argv[k - 1]
      <4>1. x \in 1 .. Len(args)
        BY <3>1, <1>9
      <4> HIDE DEF x
      <4>2. QED
        BY <4>1, <2>1, <3>1
    <3>3. \A j \in 1 .. x - 2 : p + j \in p + 1 .. k - 2 /\ args[j] = argv[p + j]
      <4> HIDE DEF x
      <4>1. \A j \in 1 .. x - 2 : p + j \in p + 1 .. k - 2 /\ j \in 1 .. Len(args)
        BY <3>1, <1>9
      <4>2. QED
        BY <2>1, <4>1
    <3>4. args[x].static /\ Spells(args[x - 1], {"-c", "-lc"})
          /\ \A j \in 1 .. x - 2 : args[j].static => args[j].value \in Flags \ {"-c", "-lc"}
      BY <1>4, <2>3, <3>2, <3>3 DEF Spells
    <3> HIDE DEF x
    <3>5. ScriptAt(args) \in {0, x}
      BY <1>2, <3>1, <3>4, ScriptFound
    <3>6. Hits(Nested(W, words, {x + 1}, from, path, depth), q)
      <4> DEFINE j == x + 1
                 which == {x + 1}
      <4>1. j \in which /\ which \subseteq Those(words, TRUE)
        BY <1>2, <1>8, <1>10, <3>1, PlacedWords DEF Those, n
      <4>2. q \in CallsOf(C, Held(words[j].stmts, "arg", from + j), path)
        BY <1>8, <3>1
      <4> HIDE DEF j, which
      <4>3. Hits(Nested(W, words, which, from, path, depth), q)
        BY <4>1, <4>2, NestedHits
      <4>4. QED
        BY <4>3 DEF which
    <3>7. bin \in StringShells /\ bin # "./ls"
      BY <2>1, <2>3 DEF Spells, StringShells, bin
    <3>8. own = IF ScriptAt(args) = 0 THEN Result(Unknown, <<>>)
                ELSE Nested(W, words, {ScriptAt(args) + 1}, from, path, depth)
      BY <1>6, <2>1, <3>7
    <3>9. x # 0
      BY <3>1
    <3>10. QED
      BY <1>5, <3>5, <3>6, <3>8
  <2>4. CASE Spells(argv[p], {"eval"})
    <3>1. bin = "eval" /\ bin # "./ls" /\ bin \notin StringShells
      BY <2>1, <2>4 DEF Spells, StringShells, bin
    <3>2. own = Eval(W, words, from, path, depth)
      <4>1. QED
        BY <1>6, <2>1, <3>1
    <3>3. CASE \E j \in 2 .. Len(words) : ~words[j].static
      BY <3>2, <3>3, <1>5 DEF Eval
    <3>4. CASE ~ \E j \in 2 .. Len(words) : ~words[j].static
      <4> DEFINE j == k - from
                 which == 2 .. Len(words)
      <4>1. \A i \in which : i \in 1 .. n /\ words[i].static = TRUE
        BY <1>2, <1>3, <3>4 DEF n
      <4>2. which \subseteq Those(words, TRUE)
        BY <4>1, PlacedWords DEF Those, n
      <4>3. j \in which
        BY <1>1, <1>4, <1>8, <1>13 DEF n
      <4>4. q \in CallsOf(C, Held(words[j].stmts, "arg", from + j), path)
        BY <1>8
      <4>5. Eval(W, words, from, path, depth) = Nested(W, words, which, from, path, depth)
        BY <3>4 DEF Eval
      <4> HIDE DEF j, which
      <4>6. Hits(Nested(W, words, which, from, path, depth), q)
        BY <4>2, <4>3, <4>4, NestedHits
      <4>7. QED
        BY <3>2, <4>5, <4>6
    <3>5. QED
      BY <3>3, <3>4
  <2>5. QED
    BY <2>2, <2>3, <2>4 DEF RunBy
<1>14. CASE from + 1 < p
  <2>1. /\ from + 1 \in 1 .. p - 1
        /\ ~Spells(argv[from + 1], Keepers)
        /\ Spells(argv[from + 1], {"find"}) =>
             \E e \in (from + 1) + 1 .. p - 1 :
               Spells(argv[e], {"-exec"}) /\ \A j \in e .. p : ~Spells(argv[j], {";"})
    <3>1. from + 1 \in 1 .. p - 1
      BY <1>1, <1>4, <1>14
    <3>2. Leads(argv, p)
      BY DEF RunAt
    <3>3. QED
      BY <3>1, <3>2, Zenon DEF Leads
  <2>2. CASE ~words[1].static
    BY <2>2, <1>5, <1>6
  <2>3. CASE words[1].static /\ bin = "find"
    <3>1. PICK e \in (from + 1) + 1 .. p - 1 : Spells(argv[e], {"-exec"}) /\ \A j \in e .. p : ~Closing(argv[j])
      <4>1. Spells(argv[from + 1], {"find"})
        BY <2>3, <1>8 DEF Spells, bin
      <4>2. QED
        BY <2>1, <4>1, Zenon DEF Closing
    <3> DEFINE y == e - from
    <3>2. y \in Nat /\ 1 < y /\ from + y < k /\ y \in 1 .. n /\ words[y] = argv[e]
      <4>1. y \in Nat /\ 1 < y /\ from + y < k /\ y \in 1 .. n /\ from + y = e
        BY <1>9
      <4>2. QED
        BY <4>1, <1>3
    <3>3. \A j \in y .. k - from : ~Closing(words[j])
      <4>1. ASSUME NEW j \in y .. k - from PROVE ~Closing(words[j])
        <5>1. j \in 1 .. n /\ from + j \in e .. k /\ (from + j \in e .. p \/ from + j \in p .. k)
          BY <1>9, <3>2
        <5>2. ~Closing(argv[from + j])
          BY <5>1, <3>1, <1>4
        <5>3. QED
          BY <5>1, <5>2, <1>3
      <4>2. QED
        BY <4>1
    <3>4. Spells(words[y], {"-exec"})
      BY <3>1, <3>2
    <3> HIDE DEF y
    <3>5. Hits(Find(inner, words, from), q)
      BY <1>4, <3>2, <3>3, <3>4, FindHits
    <3>6. own = Find(inner, words, from)
      <4>1. bin \notin StringShells /\ bin # "eval" /\ bin # "./ls"
        BY <2>3 DEF StringShells
      <4>2. QED
        BY <1>6, <2>3, <4>1
    <3>7. QED
      BY <3>5, <3>6
  <2>4. CASE words[1].static /\ bin # "find"
    <3>1. bin \notin Keepers
      BY <2>1, <2>4, <1>8 DEF Spells, bin
    <3>2. bin \notin StringShells /\ bin # "eval" /\ bin \notin {key[1] : key \in DOMAIN Table}
      BY <3>1, Zenon DEF Keepers
    <3> DEFINE v == (p - from) - 1
               x == (k - from) - 1
    <3>3. v \in DOMAIN args /\ x \in DOMAIN args /\ v < x /\ args[v] = argv[p] /\ args[x] = argv[k]
          /\ x \in Nat /\ x <= Len(args) /\ v \in Nat /\ 1 <= v
      <4>1. v \in 1 .. Len(args) /\ x \in 1 .. Len(args) /\ v < x /\ (from + 1) + v = p /\ (from + 1) + x = k
        BY <1>9, <1>14
      <4>2. x \in Nat /\ x <= Len(args) /\ v \in Nat /\ 1 <= v
        BY <4>1
      <4> HIDE DEF x, v
      <4>3. QED
        BY <4>1, <4>2, <1>7, <1>2
    <3>4. args[x - 1] = argv[k - 1]
      <4>1. x - 1 \in 1 .. Len(args) /\ (from + 1) + (x - 1) = k - 1
        BY <3>3, <1>9
      <4> HIDE DEF x
      <4>2. QED
        BY <4>1, <1>7
    <3>5. ASSUME NEW wants, wants \subseteq {"-e", "-v"} PROVE ~LeadingFlag(args, wants)
      <4> SUFFICES ASSUME NEW i \in DOMAIN args, args[i].value \in wants, \A j \in 1 .. i : IsFlag(args[j])
                   PROVE  FALSE
        BY DEF LeadingFlag
      <4>1. i \in 1 .. Len(args) /\ i \in 1 .. i /\ i \in Nat
        BY <1>2
      <4>2. Spells(args[i], Keepers)
        BY <4>1, <3>5 DEF IsFlag, Spells, Keepers
      <4>3. CASE (from + 1) + i < p
        <5>1. (from + 1) + i \in 1 .. p - 1
          <6>1. p \in Nat /\ from \in Nat /\ i \in Nat /\ 1 <= i
            BY <4>1, <1>9
          <6>2. QED
            BY <6>1, <4>3
        <5>2. ~Spells(argv[(from + 1) + i], Keepers)
          BY <5>1, Zenon DEF RunAt, Leads
        <5>3. QED
          BY <4>1, <4>2, <5>2, <1>7
      <4>4. CASE ~((from + 1) + i < p)
        <5>1. v \in 1 .. i
          BY <4>1, <4>4, <1>9, <1>14
        <5>2. IsFlag(argv[p])
          BY <5>1, <3>3
        <5>3. QED
          BY <5>2, <1>4 DEF IsFlag, Spells, Flags, StringShells
      <4>5. QED
        BY <4>3, <4>4
    <3>6. CASE bin \in Wrappers
      <4>1. at <= x
        <5>1. Spells(args[x], {"script"}) /\ Spells(args[v], StringShells \cup {"eval"})
              /\ ~Spells(args[x - 1], {"-u", "-C", "-S", "-n"})
          BY <1>4, <3>3, <3>4
        <5> HIDE DEF x, v
        <5>2. QED
          BY <1>1, <1>2, <3>3, <5>1, UnwrapReaches DEF at
      <4>2. at \in Nat
        <5>1. QED
          BY <1>1, <1>2, UnwrapPlace DEF at
      <4>3. own = IF at = 0 THEN Result(Unknown, <<>>)
                  ELSE IF at > Len(args) THEN Result(EmptyClass(bin), <<>>)
                  ELSE inner[Rest(args, at)][from + at]
        <5>1. ~LeadingFlag(args, {"-e"}) /\ ~LeadingFlag(args, {"-v"})
          BY <3>5
        <5>2. ~(bin = "sudo" /\ LeadingFlag(args, {"-e"})) /\ ~(bin = "command" /\ LeadingFlag(args, {"-v"}))
          BY <5>1
        <5>3. ~(~words[1].static \/ bin = "./ls")
          BY <2>4, <3>6 DEF Wrappers
        <5>4. own = IF bin = "sudo" /\ LeadingFlag(args, {"-e"}) THEN Result({"fs:write"}, <<>>)
                    ELSE IF bin = "command" /\ LeadingFlag(args, {"-v"}) THEN Result(Read, <<>>)
                    ELSE IF bin \in Wrappers
                         THEN IF at = 0 THEN Result(Unknown, <<>>)
                              ELSE IF at > Len(args) THEN Result(EmptyClass(bin), <<>>)
                              ELSE inner[Rest(args, at)][from + at]
                    ELSE Result(Lookup(bin, args), <<>>)
          BY <1>6, <2>4, <3>2, <5>3
        <5>5. QED
          BY <3>6, <5>2, <5>4
      <4>4. CASE at = 0
        BY <4>3, <4>4, <1>5
      <4>5. CASE at # 0
        <5>1. at <= n - 1 /\ from + at < k /\ ~(at > Len(args))
          BY <4>1, <4>2, <4>5, <3>3, <1>9
        <5>2. Placed(Rest(args, at), argv, from + at) /\ Len(Rest(args, at)) = n - at
          BY <4>2, <4>5, <5>1, RestPlaced DEF n, args
        <5>3. k <= (from + at) + (n - at) /\ n - at <= m /\ from + at \in Nat
          BY <4>2, <4>5, <5>1, <1>9
        <5>4. Rest(args, at) \in Seq(ToSet(argv))
          BY <5>2 DEF Placed
        <5>5. Hits(inner[Rest(args, at)][from + at], q)
          BY <5>1, <5>2, <5>3, <5>4 DEF InnerHits
        <5>6. QED
          BY <4>3, <4>5, <5>1, <5>5, <1>5
      <4>6. QED
        BY <4>4, <4>5
    <3>7. CASE bin \notin Wrappers
      BY <2>4, <3>2, <3>7, <1>11
    <3>8. QED
      BY <3>6, <3>7
  <2>5. QED
    BY <2>2, <2>3, <2>4
<1>15. QED
  BY <1>9, <1>12, <1>13, <1>14

LEMMA ClassifyHits ==
  ASSUME NEW W, NEW C, NEW D, NEW S, Tells(W, C, D, S), NEW argv \in Seq(ArgsOver(S)),
         NEW path \in Paths, NEW depth \in Nat, NEW k \in HandedOver(argv),
         NEW q, q \in CallsOf(C, Held(argv[k].stmts, "arg", k), path)
  PROVE  Hits(Classify(W, argv, path, depth), q)
<1> DEFINE n == Len(argv)
           Inputs == Seq(ToSet(argv))
<1>1. n \in Nat /\ argv \in Inputs /\ 0 \in Nat /\ k \in 1 .. n /\ k \in Nat
  BY DEF ToSet, HandedOver
<1>2. PICK p : RunAt(argv, p, k)
  BY DEF HandedOver, RunAt
<1>3. PICK class : /\ ClassifiesBy(class, W, argv, path, depth)
                   /\ \A m \in 0 .. Len(argv) : InnerTells(class[m], D, argv, path)
  BY LevelsTell
<1>4. /\ Classify(W, argv, path, depth) = class[n][argv][0]
      /\ \A m \in 0 .. n, words \in Inputs, from \in Nat :
           class[m][words][from] = IF m = 0 \/ words = <<>> THEN Result(Read, <<>>)
                                   ELSE ClassOf(W, class[m - 1], words, from, path, depth)
  BY <1>3 DEF ClassifiesBy
<1> DEFINE P == {m \in Nat : m <= n => InnerHits(class[m], argv, k, q, m)}
<1>5. \A words \in Inputs : Len(words) \in Nat /\ (words = <<>> => Len(words) = 0)
  OBVIOUS
<1>6. \A m \in 0 .. n : InnerTells(class[m], D, argv, path)
  BY <1>3
<1> HIDE DEF n, Inputs
<1>7. 0 \in P
  <2>1. ASSUME NEW words \in Inputs, NEW from \in Nat, from < k, k <= from + Len(words), Len(words) <= 0
        PROVE  FALSE
    BY <2>1, <1>1, <1>5
  <2>2. InnerHits(class[0], argv, k, q, 0)
    BY <2>1 DEF InnerHits, Inputs
  <2>3. QED
    BY <2>2
<1>8. ASSUME NEW m \in P PROVE m + 1 \in P
  <2>1. m \in Nat /\ m + 1 \in Nat /\ (m + 1 <= n => m <= n)
    BY <1>1
  <2>2. ASSUME m + 1 <= n PROVE InnerHits(class[m + 1], argv, k, q, m + 1)
    <3>1. m + 1 \in 0 .. n /\ m \in 0 .. n /\ (m + 1) - 1 = m /\ m + 1 # 0
      BY <1>1, <2>1, <2>2
    <3>2. InnerHits(class[m], argv, k, q, m) /\ InnerTells(class[m], D, argv, path)
      BY <1>6, <2>1, <2>2, <3>1
    <3>3. ASSUME NEW words \in Inputs, NEW from \in Nat, Placed(words, argv, from), from < k,
                 k <= from + Len(words), Len(words) <= m + 1
          PROVE  Hits(class[m + 1][words][from], q)
      <4>1. words # <<>> /\ Len(words) - 1 <= m
        BY <1>1, <1>5, <2>1, <3>3
      <4>2. class[m + 1][words][from] = ClassOf(W, class[m], words, from, path, depth)
        BY <1>4, <3>1, <4>1
      <4> DEFINE inner == class[m]
      <4>3. InnerHits(inner, argv, k, q, m) /\ InnerTells(inner, D, argv, path)
        BY <3>2
      <4> HIDE DEF inner
      <4>4. Hits(ClassOf(W, inner, words, from, path, depth), q)
        BY <1>2, <2>1, <3>3, <4>1, <4>3, ClassOfHits
      <4>5. QED
        BY <4>2, <4>4 DEF inner
    <3>4. QED
      BY <3>3 DEF InnerHits, Inputs
  <2>3. QED
    BY <2>1, <2>2
<1>9. P \in SUBSET Nat
  OBVIOUS
<1> HIDE DEF P
<1>10. n \in P
  BY <1>1, <1>7, <1>8, <1>9, EveryNumber
<1>11. InnerHits(class[n], argv, k, q, n)
  BY <1>1, <1>10 DEF P
<1>12. Placed(argv, argv, 0)
  <2>1. \A j \in DOMAIN argv : 0 + j = j
    OBVIOUS
  <2>2. QED
    BY <1>1, <2>1 DEF Placed, Inputs
<1>13. 0 < k /\ k <= 0 + Len(argv) /\ Len(argv) <= n
  BY <1>1 DEF n
<1>14. QED
  BY <1>1, <1>4, <1>11, <1>12, <1>13 DEF InnerHits, Inputs

(* Segments that start with one of a path, of at least a class, and have   *)
(* no other of that path.                                                  *)
Heads(T, y, class) ==
  /\ 1 \in DOMAIN T /\ T[1].path = y /\ class \subseteq T[1].class
  /\ \A i \in DOMAIN T : T[i].path = y => i = 1

LEMMA HeadsStay ==
  ASSUME NEW S, NEW A \in Seq(S), NEW B \in Seq(S), NEW y, NEW class, Heads(A, y, class), Untold(B, y)
  PROVE  Heads(A \o B, y, class)
<1> DEFINE C == A \o B
<1>1. /\ Len(A) \in Nat /\ Len(B) \in Nat /\ Len(C) = Len(A) + Len(B)
      /\ DOMAIN A = 1 .. Len(A) /\ DOMAIN B = 1 .. Len(B) /\ DOMAIN C = 1 .. Len(C)
  OBVIOUS
<1>2. \A i \in DOMAIN A : i \in DOMAIN C /\ C[i] = A[i]
  BY <1>1
<1>3. \A i \in DOMAIN B : C[i + Len(A)] = B[i]
  BY <1>1
<1>4. \A i \in DOMAIN C : i \in DOMAIN A \/ (i - Len(A) \in DOMAIN B /\ (i - Len(A)) + Len(A) = i)
  BY <1>1
<1> HIDE DEF C
<1>5. 1 \in DOMAIN C /\ C[1].path = y /\ class \subseteq C[1].class
  BY <1>2 DEF Heads
<1>6. ASSUME NEW i \in DOMAIN C, C[i].path = y PROVE i = 1
  <2>1. i \in DOMAIN A
    <3>1. ASSUME i - Len(A) \in DOMAIN B, (i - Len(A)) + Len(A) = i PROVE FALSE
      <4>1. B[i - Len(A)] = C[i]
        BY <1>3, <3>1
      <4>2. QED
        BY <1>6, <3>1, <4>1 DEF Untold
    <3>2. QED
      BY <1>4, <3>1
  <2>2. QED
    BY <1>2, <1>6, <2>1 DEF Heads
<1>7. QED
  BY <1>5, <1>6 DEF Heads, C

LEMMA HeadFollows ==
  ASSUME NEW S, NEW T \in Seq(S), NEW x, NEW class, Heads(T, x[1], class), x[1] # x[2],
         "unknown" \in class \/ ~Untold(T, x[2])
  PROVE  Follows(T, x)
<1> SUFFICES ASSUME NEW i \in DOMAIN T, T[i].path = x[1], "unknown" \notin T[i].class
             PROVE  \E j \in DOMAIN T : i < j /\ T[j].path = x[2]
  BY DEF Follows
<1>1. i = 1 /\ "unknown" \notin class
  BY DEF Heads
<1>2. PICK j \in DOMAIN T : T[j].path = x[2]
  BY <1>1 DEF Untold
<1>3. j # 1
  BY <1>2 DEF Heads
<1>4. j \in Nat /\ 1 <= j
  OBVIOUS
<1>5. QED
  BY <1>1, <1>2, <1>3, <1>4

(* A statement whose parts are told of is told of: its parts have slots of *)
(* their own, its substitutions are in words that are not static, and what *)
(* Classify adds is in words that are.                                     *)
LEMMA StmtTells ==
  ASSUME NEW W, NEW C, NEW D, NEW S, Tells(W, C, D, S), NEW s \in StatementsOver(S),
         NEW path \in Paths, NEW depth \in Nat
  PROVE  LET calls == (IF s.kind = "call" THEN {path} ELSE {}) \cup CallsOf(C, Inside(s), path)
             steps == (IF s.kind = "call" THEN {path} \X CallsOf(C, Scripts(s), path) ELSE {})
                        \cup CallsOf(D, Inside(s) \cup Scripts(s), path)
         IN  /\ Stmt(W, s, path, depth) \in Seq(SegsAt(PathsFrom(path)))
             /\ calls \subseteq PathsFrom(path)
             /\ \A q \in calls : ToldOnce(Stmt(W, s, path, depth), q)
             /\ \A x \in steps : x[1] \in PathsFrom(path) /\ Follows(Stmt(W, s, path, depth), x)
<1> DEFINE words  == RedirectWords(s.redirs)
           own    == Classify(W, s.argv, path, depth)
           Kb == SlotsOf("body", {0})
           Ka == SlotsOf("arg", Those(s.argv, FALSE))
           Ks == SlotsOf("arg", Those(s.argv, TRUE))
           Kr == SlotsOf("redir", Those(words, FALSE))
           body   == Stmts(W, s.body, "body", 0, path, depth)
           args   == Substs(W, s.argv, "arg", path, depth)
           redirs == Substs(W, words, "redir", path, depth)
           Cb == CallsOf(C, Held(s.body, "body", 0), path)
           Ca == CallsOf(C, HeldByWords(s.argv, FALSE, "arg"), path)
           Cr == CallsOf(C, HeldByWords(words, FALSE, "redir"), path)
           Db == CallsOf(D, Held(s.body, "body", 0), path)
           Da == CallsOf(D, HeldByWords(s.argv, FALSE, "arg"), path)
           Dr == CallsOf(D, HeldByWords(words, FALSE, "redir"), path)
           Ds == CallsOf(D, Scripts(s), path)
           run == CallsOf(C, Scripts(s), path)
           Q == PathsFrom(path)
           Y == SegsAt(Q)
           B == Through(path, Kb)
           A == Through(path, Ka)
           T == Through(path, Ks)
           R == Through(path, Kr)
<1>1. /\ s.kind \in {"call", "group"} /\ s.argv \in Seq(ArgsOver(S)) /\ s.redirs \in Seq(RedirectsOver(S))
      /\ s.kind = "call" => s.body = <<>>
      /\ s.kind = "group" => s.body \in Seq(S)
  BY DEF StatementsOver
<1>2. s.body \in Seq(S)
  <2>1. <<>> \in Seq(S)
    OBVIOUS
  <2>2. QED
    BY <1>1, <2>1
<1>3. words \in Seq(ArgsOver(S))
  <2>1. Len(s.redirs) \in Nat /\ DOMAIN s.redirs = 1 .. Len(s.redirs)
        /\ \A i \in DOMAIN s.redirs : s.redirs[i] \in RedirectsOver(S)
    BY <1>1
  <2>2. \A i \in DOMAIN s.redirs : s.redirs[i].word \in ArgsOver(S)
    BY <2>1 DEF RedirectsOver
  <2>3. words = [i \in 1 .. Len(s.redirs) |-> s.redirs[i].word]
    BY <2>1 DEF RedirectWords
  <2>4. QED
    BY <2>1, <2>2, <2>3
<1>4. {"body", "arg", "redir"} \subseteq Parts /\ 0 \in Nat
  BY DEF Parts
<1>5. /\ body \in Seq(SegsAt(B)) /\ Cb \subseteq B /\ \A q \in Cb : ToldOnce(body, q)
      /\ \A x \in Db : x[1] \in B /\ Follows(body, x)
  BY <1>2, <1>4, StmtsTell
<1>6. /\ args \in Seq(SegsAt(A)) /\ Ca \subseteq A /\ \A q \in Ca : ToldOnce(args, q)
      /\ \A x \in Da : x[1] \in A /\ Follows(args, x)
  BY <1>1, <1>4, SubstsTell
<1>7. /\ redirs \in Seq(SegsAt(R)) /\ Cr \subseteq R /\ \A q \in Cr : ToldOnce(redirs, q)
      /\ \A x \in Dr : x[1] \in R /\ Follows(redirs, x)
  BY <1>3, <1>4, SubstsTell
<1>8. /\ own.class \in SUBSET Classes /\ own.segs \in Seq(SegsAt(T))
      /\ \A x \in CallsOf(D, HeldByWords(s.argv, TRUE, "arg"), path) : Follows(own.segs, x)
  <2>1. own \in Results(D, s.argv, path)
    BY <1>1, ClassifyTells
  <2> HIDE DEF own
  <2>2. own.class \in SUBSET Classes /\ own.segs \in GoodSegs(D, s.argv, path)
    BY <2>1 DEF Results
  <2>3. QED
    BY <2>2 DEF GoodSegs, ScriptSegs
<1>9. \A k \in HandedOver(s.argv) :
         /\ k \in Those(s.argv, TRUE) /\ k \in Nat /\ s.argv[k].stmts \in Seq(S)
         /\ CallsOf(D, Held(s.argv[k].stmts, "arg", k), path) \subseteq
              CallsOf(D, HeldByWords(s.argv, TRUE, "arg"), path)
  <2>1. \A k \in DOMAIN s.argv : k \in Nat /\ s.argv[k] \in ArgsOver(S)
    BY <1>1
  <2>2. \A k \in DOMAIN s.argv : k \in Nat /\ s.argv[k].static \in BOOLEAN /\ s.argv[k].stmts \in Seq(S)
    BY <2>1 DEF ArgsOver
  <2>3. \A k \in HandedOver(s.argv) : k \in DOMAIN s.argv /\ s.argv[k].static
    BY DEF HandedOver, Spells
  <2>4. \A k \in HandedOver(s.argv) : k \in Those(s.argv, TRUE)
    BY <2>2, <2>3 DEF Those
  <2>5. \A k \in Those(s.argv, TRUE) : Held(s.argv[k].stmts, "arg", k) \subseteq HeldByWords(s.argv, TRUE, "arg")
    BY DEF HeldByWords, Those
  <2>6. QED
    BY <2>2, <2>3, <2>4, <2>5 DEF CallsOf
<1>10. \A x \in Ds : x[1] \in T /\ Follows(own.segs, x)
  <2>1. ASSUME NEW x \in Ds PROVE x[1] \in T /\ Follows(own.segs, x)
    <3>1. PICK h \in Scripts(s) : x \in D[h.stmt][Append(path, h.slot)]
      BY <2>1 DEF CallsOf
    <3>2. PICK k \in HandedOver(s.argv) : h \in Held(s.argv[k].stmts, "arg", k)
      BY <3>1 DEF Scripts
    <3>3. x \in CallsOf(D, Held(s.argv[k].stmts, "arg", k), path)
      BY <3>1, <3>2 DEF CallsOf
    <3>4. Follows(own.segs, x)
      BY <3>3, <1>8, <1>9
    <3> DEFINE K == SlotsOf("arg", {k})
    <3>5. x[1] \in Through(path, K)
      BY <1>4, <1>9, <3>3, StmtsTell
    <3>6. K \in SUBSET Slots /\ Ks \in SUBSET Slots /\ K \subseteq Ks
      BY <1>9 DEF SlotsOf
    <3> HIDE DEF K, Ks
    <3>7. Through(path, K) \subseteq Through(path, Ks)
      BY <3>6, ThroughPart
    <3>8. QED
      BY <3>4, <3>5, <3>7
  <2>2. QED
    BY <2>1
<1>11. \A q \in run : Hits(own, q) /\ q \in T
  <2>1. ASSUME NEW q \in run PROVE Hits(own, q) /\ q \in T
    <3>1. PICK h \in Scripts(s) : q \in C[h.stmt][Append(path, h.slot)]
      BY <2>1 DEF CallsOf
    <3>2. PICK k \in HandedOver(s.argv) : h \in Held(s.argv[k].stmts, "arg", k)
      BY <3>1 DEF Scripts
    <3>3. q \in CallsOf(C, Held(s.argv[k].stmts, "arg", k), path)
      BY <3>1, <3>2 DEF CallsOf
    <3>4. Hits(own, q)
      BY <1>1, <3>3, ClassifyHits
    <3> DEFINE K == SlotsOf("arg", {k})
    <3>5. q \in Through(path, K)
      BY <1>4, <1>9, <3>3, StmtsTell
    <3>6. K \in SUBSET Slots /\ Ks \in SUBSET Slots /\ K \subseteq Ks
      BY <1>9 DEF SlotsOf
    <3> HIDE DEF K, Ks
    <3>7. Through(path, K) \subseteq Through(path, Ks)
      BY <3>6, ThroughPart
    <3>8. QED
      BY <3>4, <3>5, <3>7
  <2>2. QED
    BY <2>1
<1>12. /\ B \subseteq Q /\ A \subseteq Q /\ T \subseteq Q /\ R \subseteq Q
      /\ path \notin B /\ path \notin A /\ path \notin T /\ path \notin R
      /\ B \cap A = {} /\ B \cap T = {} /\ B \cap R = {} /\ A \cap T = {} /\ A \cap R = {} /\ T \cap R = {}
  <2>1. Kb \in SUBSET Slots /\ Ka \in SUBSET Slots /\ Ks \in SUBSET Slots /\ Kr \in SUBSET Slots
    BY DEF SlotsOf
  <2>2. Those(s.argv, TRUE) \cap Those(s.argv, FALSE) = {}
    BY DEF Those
  <2>3. /\ Kb \cap Ka = {} /\ Kb \cap Ks = {} /\ Kb \cap Kr = {}
        /\ Ka \cap Kr = {} /\ Ks \cap Kr = {} /\ Ka \cap Ks = {}
    BY <2>2 DEF SlotsOf
  <2> HIDE DEF Kb, Ka, Ks, Kr
  <2>4. B \subseteq Q /\ path \notin B /\ A \subseteq Q /\ path \notin A
    BY <2>1, ThroughPart
  <2>5. T \subseteq Q /\ path \notin T /\ R \subseteq Q /\ path \notin R
    BY <2>1, ThroughPart
  <2>6. B \cap A = {} /\ B \cap T = {} /\ B \cap R = {}
    BY <2>1, <2>3, ThroughPart
  <2>7. A \cap T = {} /\ A \cap R = {}
    BY <2>1, <2>3, ThroughPart
  <2>8. T \cap R = {}
    BY <2>1, <2>3, ThroughPart
  <2>9. QED
    BY <2>4, <2>5, <2>6, <2>7, <2>8
<1>13. path \in Q
  <2>1. <<"body", 0, 0>> \in Slots
    BY DEF Slots
  <2>2. QED
    BY <2>1, PathsPart
<1>14. /\ CallsOf(C, Inside(s), path) = Cb \cup Ca \cup Cr
       /\ CallsOf(D, Inside(s) \cup Scripts(s), path) = Db \cup Da \cup Dr \cup Ds
  BY DEF CallsOf, Inside
<1>15. Those(words, FALSE) \subseteq DOMAIN words
  BY DEF Those
<1> DEFINE writes == WriteSegment(s, path, depth)
           first == <<ShellSegment(path, own.class \cup RedirectsClass(s.redirs), depth)>>
<1>16. RedirectsClass(s.redirs) \in SUBSET Classes
  BY ClassesOf
<1>17. first \in Seq(SegsAt({path})) /\ ToldOnce(first, path) /\ Heads(first, path, own.class)
  <2> DEFINE g == ShellSegment(path, own.class \cup RedirectsClass(s.redirs), depth)
  <2>1. g \in SegsAt({path}) /\ g.path = path /\ own.class \subseteq g.class
    BY <1>8, <1>16 DEF SegsAt, ShellSegment
  <2> HIDE DEF g
  <2>2. <<g>> \in Seq(SegsAt({path})) /\ DOMAIN <<g>> = {1} /\ <<g>>[1] = g
    BY <2>1
  <2>3. ToldOnce(<<g>>, path)
    BY <2>1, <2>2 DEF ToldOnce
  <2>4. Heads(<<g>>, path, own.class)
    BY <2>1, <2>2 DEF Heads
  <2>5. QED
    BY <2>2, <2>3, <2>4 DEF g
<1>18. writes \in Seq(SegsAt({path}))
  <2>1. ShellSegment(path, RedirectsClass(s.redirs), depth) \in SegsAt({path})
    BY <1>16 DEF SegsAt, ShellSegment
  <2>2. <<>> \in Seq(SegsAt({path}))
        /\ <<ShellSegment(path, RedirectsClass(s.redirs), depth)>> \in Seq(SegsAt({path}))
    BY <2>1
  <2>3. QED
    BY <2>2 DEF WriteSegment
<1> HIDE DEF words, own, body, args, redirs, Cb, Ca, Cr, Db, Da, Dr, Ds, run, Q, Y, B, A, T, R, writes, first
<1>19. /\ body \in Seq(Y) /\ args \in Seq(Y) /\ redirs \in Seq(Y) /\ own.segs \in Seq(Y)
       /\ first \in Seq(Y) /\ writes \in Seq(Y)
  <2>1. {path} \subseteq Q
    BY <1>13
  <2>2. body \in Seq(Y) /\ args \in Seq(Y) /\ redirs \in Seq(Y)
    BY <1>5, <1>6, <1>7, <1>12, SegsPart DEF Y
  <2>3. own.segs \in Seq(Y) /\ first \in Seq(Y) /\ writes \in Seq(Y)
    BY <1>8, <1>12, <1>17, <1>18, <2>1, SegsPart DEF Y
  <2>4. QED
    BY <2>2, <2>3
<1>20. /\ \A q : q \notin B => Untold(body, q)
       /\ \A q : q \notin A => Untold(args, q)
       /\ \A q : q \notin R => Untold(redirs, q)
       /\ \A q : q \notin T => Untold(own.segs, q)
       /\ \A q : q # path => Untold(first, q) /\ Untold(writes, q)
  <2>1. \A q : q \notin {path} => Untold(first, q) /\ Untold(writes, q)
    BY <1>17, <1>18, SegsPart
  <2>2. QED
    BY <1>5, <1>6, <1>7, <1>8, <2>1, SegsPart
<1>21. \A P, x : Untold(P, x[1]) => Follows(P, x)
  BY DEF Untold, Follows
<1>22. \A x \in Db \cup Da \cup Dr \cup Ds :
         /\ x[1] \in Q /\ Follows(body, x) /\ Follows(args, x) /\ Follows(redirs, x)
         /\ Follows(own.segs, x) /\ Follows(first, x) /\ Follows(writes, x)
  <2>1. \A x \in Db : x[1] \in B /\ Follows(body, x) /\ x[1] # path
                      /\ x[1] \notin A /\ x[1] \notin R /\ x[1] \notin T
    BY <1>5, <1>12
  <2>2. \A x \in Da : x[1] \in A /\ Follows(args, x) /\ x[1] # path
                      /\ x[1] \notin B /\ x[1] \notin R /\ x[1] \notin T
    BY <1>6, <1>12
  <2>3. \A x \in Dr : x[1] \in R /\ Follows(redirs, x) /\ x[1] # path
                      /\ x[1] \notin B /\ x[1] \notin A /\ x[1] \notin T
    BY <1>7, <1>12
  <2>4. \A x \in Ds : x[1] \in T /\ Follows(own.segs, x) /\ x[1] # path
                      /\ x[1] \notin B /\ x[1] \notin A /\ x[1] \notin R
    BY <1>10, <1>12
  <2>5. QED
    BY <1>12, <1>20, <1>21, <2>1, <2>2, <2>3, <2>4
<1>23. \A q \in Cb : q # path /\ q \notin A /\ q \notin R /\ q \notin T
  BY <1>5, <1>12
<1>24. \A q \in Ca : q # path /\ q \notin B /\ q \notin R /\ q \notin T
  BY <1>6, <1>12
<1>25. \A q \in Cr : q # path /\ q \notin B /\ q \notin A /\ q \notin T
  BY <1>7, <1>12
<1>26. CASE s.kind = "call"
  <2> DEFINE one == first \o args
             two == one \o own.segs
             all == two \o redirs
  <2>1. Stmt(W, s, path, depth) = all
    BY <1>26 DEF Stmt, CallSegments, first, own, args, redirs, words
  <2>2. one \in Seq(Y) /\ two \in Seq(Y) /\ all \in Seq(Y)
    <3>1. one \in Seq(Y)
      BY <1>19, TellTogether
    <3> HIDE DEF one
    <3>2. two \in Seq(Y)
      BY <1>19, <3>1, TellTogether
    <3> HIDE DEF two
    <3>3. all \in Seq(Y)
      BY <1>19, <3>2, TellTogether
    <3>4. QED
      BY <3>1, <3>2, <3>3
  <2>3. Cb = {}
    <3>1. Held(s.body, "body", 0) = {}
      BY <1>1, <1>26 DEF Held
    <3>2. QED
      BY <3>1 DEF Cb, CallsOf
  <2>4. ToldOnce(all, path)
    <3>1. ToldOnce(one, path)
      BY <1>12, <1>17, <1>19, <1>20, TellTogether
    <3> HIDE DEF one
    <3>2. ToldOnce(two, path)
      BY <1>12, <1>19, <1>20, <2>2, <3>1, TellTogether
    <3> HIDE DEF two
    <3>3. QED
      BY <1>12, <1>19, <1>20, <2>2, <3>2, TellTogether
  <2>5. ASSUME NEW q \in Ca PROVE ToldOnce(all, q)
    <3>1. ToldOnce(one, q)
      BY <1>6, <1>19, <1>20, <1>24, TellTogether
    <3> HIDE DEF one
    <3>2. ToldOnce(two, q)
      BY <1>19, <1>20, <1>24, <2>2, <3>1, TellTogether
    <3> HIDE DEF two
    <3>3. QED
      BY <1>19, <1>20, <1>24, <2>2, <3>2, TellTogether
  <2>6. ASSUME NEW q \in Cr PROVE ToldOnce(all, q)
    <3>1. Untold(one, q)
      BY <1>19, <1>20, <1>25, TellTogether
    <3> HIDE DEF one
    <3>2. Untold(two, q)
      BY <1>19, <1>20, <1>25, <2>2, <3>1, TellTogether
    <3> HIDE DEF two
    <3>3. QED
      BY <1>7, <1>19, <2>2, <3>2, TellTogether
  <2>7. ASSUME NEW x \in Db \cup Da \cup Dr \cup Ds PROVE x[1] \in Q /\ Follows(all, x)
    <3>1. Follows(one, x)
      BY <1>19, <1>22, FollowTogether
    <3> HIDE DEF one
    <3>2. Follows(two, x)
      BY <1>19, <1>22, <2>2, <3>1, FollowTogether
    <3> HIDE DEF two
    <3>3. QED
      BY <1>19, <1>22, <2>2, <3>2, FollowTogether
  <2>8. ASSUME NEW x \in {path} \X run PROVE x[1] \in Q /\ Follows(all, x)
    <3>1. x[1] = path /\ x[2] \in run
      BY <2>8
    <3>2. x[2] \in T /\ Hits(own, x[2]) /\ x[1] # x[2]
      BY <1>12, <1>11, <3>1
    <3>3. Heads(one, path, own.class)
      BY <1>12, <1>17, <1>19, <1>20, HeadsStay
    <3>4. ~Untold(own.segs, x[2]) => ~Untold(two, x[2])
      <4> HIDE DEF one
      <4>1. QED
        BY <1>19, <2>2, TellTogether
    <3> HIDE DEF one
    <3>5. Heads(two, path, own.class)
      BY <1>12, <1>19, <1>20, <2>2, <3>3, HeadsStay
    <3> HIDE DEF two
    <3>6. Heads(all, path, own.class)
      BY <1>12, <1>19, <1>20, <2>2, <3>5, HeadsStay
    <3>7. ~Untold(own.segs, x[2]) => ~Untold(all, x[2])
      BY <1>19, <2>2, <3>4, TellTogether
    <3> HIDE DEF all
    <3>8. "unknown" \in own.class \/ ~Untold(all, x[2])
      BY <3>2, <3>7 DEF Hits
    <3>9. Heads(all, x[1], own.class)
      BY <3>1, <3>6
    <3>10. Follows(all, x)
      BY <2>2, <3>2, <3>8, <3>9, HeadFollows
    <3>11. QED
      BY <1>13, <3>1, <3>10
  <2> HIDE DEF all
  <2>9. \A q \in {path} \cup CallsOf(C, Inside(s), path) : q \in Q /\ ToldOnce(all, q)
    BY <1>6, <1>7, <1>12, <1>13, <1>14, <2>3, <2>4, <2>5, <2>6
  <2>10. \A x \in ({path} \X CallsOf(C, Scripts(s), path)) \cup CallsOf(D, Inside(s) \cup Scripts(s), path) :
           x[1] \in Q /\ Follows(all, x)
    BY <1>14, <2>7, <2>8 DEF run
  <2>11. QED
    BY <1>26, <2>1, <2>2, <2>9, <2>10 DEF Q, Y
<1>27. CASE s.kind = "group"
  <2> DEFINE one == args \o body
             two == one \o redirs
             all == two \o writes
  <2>1. Stmt(W, s, path, depth) = all
    BY <1>27 DEF Stmt, GroupSegments, writes, body, args, redirs, words
  <2>2. one \in Seq(Y) /\ two \in Seq(Y) /\ all \in Seq(Y)
    <3>1. one \in Seq(Y)
      BY <1>19, TellTogether
    <3> HIDE DEF one
    <3>2. two \in Seq(Y)
      BY <1>19, <3>1, TellTogether
    <3> HIDE DEF two
    <3>3. all \in Seq(Y)
      BY <1>19, <3>2, TellTogether
    <3>4. QED
      BY <3>1, <3>2, <3>3
  <2>3. ASSUME NEW q \in Ca PROVE ToldOnce(all, q)
    <3>1. ToldOnce(one, q)
      BY <1>6, <1>19, <1>20, <1>24, TellTogether
    <3> HIDE DEF one
    <3>2. ToldOnce(two, q)
      BY <1>19, <1>20, <1>24, <2>2, <3>1, TellTogether
    <3> HIDE DEF two
    <3>3. QED
      BY <1>19, <1>20, <1>24, <2>2, <3>2, TellTogether
  <2>4. ASSUME NEW q \in Cb PROVE ToldOnce(all, q)
    <3>1. ToldOnce(one, q)
      BY <1>5, <1>19, <1>20, <1>23, TellTogether
    <3> HIDE DEF one
    <3>2. ToldOnce(two, q)
      BY <1>19, <1>20, <1>23, <2>2, <3>1, TellTogether
    <3> HIDE DEF two
    <3>3. QED
      BY <1>19, <1>20, <1>23, <2>2, <3>2, TellTogether
  <2>5. ASSUME NEW q \in Cr PROVE ToldOnce(all, q)
    <3>1. Untold(one, q)
      BY <1>19, <1>20, <1>25, TellTogether
    <3> HIDE DEF one
    <3>2. ToldOnce(two, q)
      BY <1>7, <1>19, <2>2, <3>1, TellTogether
    <3> HIDE DEF two
    <3>3. QED
      BY <1>19, <1>20, <1>25, <2>2, <3>2, TellTogether
  <2>6. ASSUME NEW x \in Db \cup Da \cup Dr \cup Ds PROVE x[1] \in Q /\ Follows(all, x)
    <3>1. Follows(one, x)
      BY <1>19, <1>22, FollowTogether
    <3> HIDE DEF one
    <3>2. Follows(two, x)
      BY <1>19, <1>22, <2>2, <3>1, FollowTogether
    <3> HIDE DEF two
    <3>3. QED
      BY <1>19, <1>22, <2>2, <3>2, FollowTogether
  <2> HIDE DEF all
  <2>7. \A q \in CallsOf(C, Inside(s), path) : q \in Q /\ ToldOnce(all, q)
    BY <1>5, <1>6, <1>7, <1>12, <1>14, <2>3, <2>4, <2>5
  <2>8. \A x \in CallsOf(D, Inside(s) \cup Scripts(s), path) : x[1] \in Q /\ Follows(all, x)
    BY <1>14, <2>6
  <2>9. QED
    BY <1>27, <2>1, <2>2, <2>7, <2>8 DEF Q, Y
<1>28. QED
  BY <1>1, <1>26, <1>27
-----------------------------------------------------------------------------
(* The statements, the walk and the calls of every height.                 *)

WalkOver(W, S) == [s \in S |-> [path \in Paths |-> [depth \in Nat |-> Stmt(W, s, path, depth)]]]

CallsOver(C, S) ==
  [s \in S |-> [path \in Paths |->
     (IF s.kind = "call" THEN {path} ELSE {}) \cup CallsOf(C, Inside(s), path)]]

StepsOver(D, C, S) ==
  [s \in S |-> [path \in Paths |->
     (IF s.kind = "call" THEN {path} \X CallsOf(C, Scripts(s), path) ELSE {})
       \cup CallsOf(D, Inside(s) \cup Scripts(s), path)]]

LEMMA StatementsAre ==
  ASSUME ShellAssumption
  PROVE  /\ Statements[0] = {}
         /\ \A n \in 1 .. Height : Statements[n] = StatementsOver(Statements[n - 1])
<1> DEFINE Run(m) == \E f : f = [n \in 0 .. m |-> IF n = 0 THEN {} ELSE StatementsOver(f[n - 1])]
           P == {m \in Nat : Run(m)}
<1>1. Height \in Nat
  BY DEF ShellAssumption
<1>2. Run(0)
  <2> DEFINE f == [n \in 0 .. 0 |-> {}]
  <2>1. f = [n \in 0 .. 0 |-> IF n = 0 THEN {} ELSE StatementsOver(f[n - 1])]
    OBVIOUS
  <2>2. QED
    BY <2>1
<1>3. ASSUME NEW m \in Nat, Run(m) PROVE Run(m + 1)
  <2>1. PICK f : f = [n \in 0 .. m |-> IF n = 0 THEN {} ELSE StatementsOver(f[n - 1])]
    BY <1>3
  <2> DEFINE g == [n \in 0 .. m + 1 |-> IF n \in 0 .. m THEN f[n] ELSE StatementsOver(f[m])]
  <2>2. ASSUME NEW n \in 0 .. m + 1 PROVE g[n] = IF n = 0 THEN {} ELSE StatementsOver(g[n - 1])
    <3>1. CASE n = 0
      BY <3>1, <2>1
    <3>2. CASE n # 0 /\ n \in 0 .. m
      <4>1. n - 1 \in 0 .. m /\ n - 1 \in 0 .. m + 1
        BY <3>2
      <4>2. g[n] = f[n] /\ g[n - 1] = f[n - 1]
        BY <3>2, <4>1
      <4>3. f[n] = StatementsOver(f[n - 1])
        BY <3>2, <2>1
      <4>4. QED
        BY <3>2, <4>2, <4>3
    <3>3. CASE n \notin 0 .. m
      <4>1. n # 0 /\ n - 1 = m /\ m \in 0 .. m /\ m \in 0 .. m + 1
        BY <3>3
      <4>2. g[n] = StatementsOver(f[m]) /\ g[m] = f[m]
        BY <3>3, <4>1
      <4>3. QED
        BY <4>1, <4>2
    <3>4. QED
      BY <3>1, <3>2, <3>3
  <2>3. g = [n \in 0 .. m + 1 |-> g[n]]
    OBVIOUS
  <2> HIDE DEF g
  <2>4. g = [n \in 0 .. m + 1 |-> IF n = 0 THEN {} ELSE StatementsOver(g[n - 1])]
    BY <2>2, <2>3
  <2>5. QED
    BY <2>4
<1> HIDE DEF Run
<1>4. Run(Height)
  <2>1. P \in SUBSET Nat /\ 0 \in P /\ \A m \in P : m + 1 \in P
    BY <1>2, <1>3
  <2> HIDE DEF P
  <2>2. Height \in P
    BY <1>1, <2>1, EveryNumber
  <2>3. QED
    BY <2>2 DEF P
<1>5. Statements = [n \in 0 .. Height |-> IF n = 0 THEN {} ELSE StatementsOver(Statements[n - 1])]
  BY <1>4 DEF Run, Statements
<1> HIDE DEF P
<1>6. 0 \in 0 .. Height /\ \A n \in 1 .. Height : n \in 0 .. Height /\ n # 0
  BY <1>1
<1>7. QED
  BY <1>5, <1>6

LEMMA WalkIs ==
  ASSUME ShellAssumption
  PROVE  \A n \in 1 .. Height : Walk[n] = WalkOver(Walk[n - 1], Statements[n])
<1> DEFINE Run(m) == \E f : f = [n \in 0 .. m |-> WalkOver(f[n - 1], Statements[n])]
           P == {m \in Nat : Run(m)}
<1>1. Height \in Nat
  BY DEF ShellAssumption
<1>2. \A V, W : WalkOver(V, Statements[0]) = WalkOver(W, Statements[0])
  BY StatementsAre DEF WalkOver
<1>3. Run(0)
  <2> DEFINE f == [n \in 0 .. 0 |-> WalkOver(0, Statements[n])]
  <2>1. \A n \in 0 .. 0 : f[n] = WalkOver(f[n - 1], Statements[n])
    <3>1. f[0] = WalkOver(f[0 - 1], Statements[0])
      BY <1>2
    <3>2. QED
      BY <3>1
  <2>2. f = [n \in 0 .. 0 |-> f[n]]
    OBVIOUS
  <2> HIDE DEF f
  <2>3. f = [n \in 0 .. 0 |-> WalkOver(f[n - 1], Statements[n])]
    BY <2>1, <2>2
  <2>4. QED
    BY <2>3
<1>4. ASSUME NEW m \in Nat, Run(m) PROVE Run(m + 1)
  <2>1. PICK f : f = [n \in 0 .. m |-> WalkOver(f[n - 1], Statements[n])]
    BY <1>4
  <2> DEFINE g == [n \in 0 .. m + 1 |-> IF n \in 0 .. m THEN f[n] ELSE WalkOver(f[m], Statements[n])]
  <2>2. ASSUME NEW n \in 0 .. m + 1 PROVE g[n] = WalkOver(g[n - 1], Statements[n])
    <3>1. CASE n = 0
      <4>1. g[n] = f[n] /\ f[n] = WalkOver(f[n - 1], Statements[0])
        BY <3>1, <2>1
      <4>2. WalkOver(f[n - 1], Statements[0]) = WalkOver(g[n - 1], Statements[0])
        BY <1>2
      <4>3. QED
        BY <3>1, <4>1, <4>2
    <3>2. CASE n # 0 /\ n \in 0 .. m
      <4>1. n - 1 \in 0 .. m /\ n - 1 \in 0 .. m + 1
        BY <3>2
      <4>2. g[n] = f[n] /\ g[n - 1] = f[n - 1]
        BY <3>2, <4>1
      <4>3. f[n] = WalkOver(f[n - 1], Statements[n])
        BY <3>2, <2>1
      <4>4. QED
        BY <4>2, <4>3
    <3>3. CASE n \notin 0 .. m
      <4>1. n - 1 = m /\ m \in 0 .. m /\ m \in 0 .. m + 1
        BY <3>3
      <4>2. g[n] = WalkOver(f[m], Statements[n]) /\ g[m] = f[m]
        BY <3>3, <4>1
      <4>3. QED
        BY <4>1, <4>2
    <3>4. QED
      BY <3>1, <3>2, <3>3
  <2>3. g = [n \in 0 .. m + 1 |-> g[n]]
    OBVIOUS
  <2> HIDE DEF g
  <2>4. g = [n \in 0 .. m + 1 |-> WalkOver(g[n - 1], Statements[n])]
    BY <2>2, <2>3
  <2>5. QED
    BY <2>4
<1> HIDE DEF Run
<1>5. Run(Height)
  <2>1. P \in SUBSET Nat /\ 0 \in P /\ \A m \in P : m + 1 \in P
    BY <1>3, <1>4
  <2> HIDE DEF P
  <2>2. Height \in P
    BY <1>1, <2>1, EveryNumber
  <2>3. QED
    BY <2>2 DEF P
<1>6. Walk = [n \in 0 .. Height |-> WalkOver(Walk[n - 1], Statements[n])]
  BY <1>5 DEF Run, Walk, WalkOver
<1> HIDE DEF P
<1>7. \A n \in 1 .. Height : n \in 0 .. Height
  BY <1>1
<1>8. QED
  BY <1>6, <1>7

LEMMA CallsAre ==
  ASSUME ShellAssumption
  PROVE  \A n \in 1 .. Height : Calls[n] = CallsOver(Calls[n - 1], Statements[n])
<1> DEFINE Run(m) == \E f : f = [n \in 0 .. m |-> CallsOver(f[n - 1], Statements[n])]
           P == {m \in Nat : Run(m)}
<1>1. Height \in Nat
  BY DEF ShellAssumption
<1>2. \A V, W : CallsOver(V, Statements[0]) = CallsOver(W, Statements[0])
  BY StatementsAre DEF CallsOver
<1>3. Run(0)
  <2> DEFINE f == [n \in 0 .. 0 |-> CallsOver(0, Statements[n])]
  <2>1. \A n \in 0 .. 0 : f[n] = CallsOver(f[n - 1], Statements[n])
    <3>1. f[0] = CallsOver(f[0 - 1], Statements[0])
      BY <1>2
    <3>2. QED
      BY <3>1
  <2>2. f = [n \in 0 .. 0 |-> f[n]]
    OBVIOUS
  <2> HIDE DEF f
  <2>3. f = [n \in 0 .. 0 |-> CallsOver(f[n - 1], Statements[n])]
    BY <2>1, <2>2
  <2>4. QED
    BY <2>3
<1>4. ASSUME NEW m \in Nat, Run(m) PROVE Run(m + 1)
  <2>1. PICK f : f = [n \in 0 .. m |-> CallsOver(f[n - 1], Statements[n])]
    BY <1>4
  <2> DEFINE g == [n \in 0 .. m + 1 |-> IF n \in 0 .. m THEN f[n] ELSE CallsOver(f[m], Statements[n])]
  <2>2. ASSUME NEW n \in 0 .. m + 1 PROVE g[n] = CallsOver(g[n - 1], Statements[n])
    <3>1. CASE n = 0
      <4>1. g[n] = f[n] /\ f[n] = CallsOver(f[n - 1], Statements[0])
        BY <3>1, <2>1
      <4>2. CallsOver(f[n - 1], Statements[0]) = CallsOver(g[n - 1], Statements[0])
        BY <1>2
      <4>3. QED
        BY <3>1, <4>1, <4>2
    <3>2. CASE n # 0 /\ n \in 0 .. m
      <4>1. n - 1 \in 0 .. m /\ n - 1 \in 0 .. m + 1
        BY <3>2
      <4>2. g[n] = f[n] /\ g[n - 1] = f[n - 1]
        BY <3>2, <4>1
      <4>3. f[n] = CallsOver(f[n - 1], Statements[n])
        BY <3>2, <2>1
      <4>4. QED
        BY <4>2, <4>3
    <3>3. CASE n \notin 0 .. m
      <4>1. n - 1 = m /\ m \in 0 .. m /\ m \in 0 .. m + 1
        BY <3>3
      <4>2. g[n] = CallsOver(f[m], Statements[n]) /\ g[m] = f[m]
        BY <3>3, <4>1
      <4>3. QED
        BY <4>1, <4>2
    <3>4. QED
      BY <3>1, <3>2, <3>3
  <2>3. g = [n \in 0 .. m + 1 |-> g[n]]
    OBVIOUS
  <2> HIDE DEF g
  <2>4. g = [n \in 0 .. m + 1 |-> CallsOver(g[n - 1], Statements[n])]
    BY <2>2, <2>3
  <2>5. QED
    BY <2>4
<1> HIDE DEF Run
<1>5. Run(Height)
  <2>1. P \in SUBSET Nat /\ 0 \in P /\ \A m \in P : m + 1 \in P
    BY <1>3, <1>4
  <2> HIDE DEF P
  <2>2. Height \in P
    BY <1>1, <2>1, EveryNumber
  <2>3. QED
    BY <2>2 DEF P
<1>6. Calls = [n \in 0 .. Height |-> CallsOver(Calls[n - 1], Statements[n])]
  BY <1>5 DEF Run, Calls, CallsOver
<1> HIDE DEF P
<1>7. \A n \in 1 .. Height : n \in 0 .. Height
  BY <1>1
<1>8. QED
  BY <1>6, <1>7

LEMMA StepsAre ==
  ASSUME ShellAssumption
  PROVE  \A n \in 1 .. Height : StepsInto[n] = StepsOver(StepsInto[n - 1], Calls[n - 1], Statements[n])
<1> DEFINE Run(m) == \E f : f = [n \in 0 .. m |-> StepsOver(f[n - 1], Calls[n - 1], Statements[n])]
           P == {m \in Nat : Run(m)}
<1>1. Height \in Nat
  BY DEF ShellAssumption
<1>2. \A V, W : StepsOver(V, Calls[0 - 1], Statements[0]) = StepsOver(W, Calls[0 - 1], Statements[0])
  BY StatementsAre DEF StepsOver
<1>3. Run(0)
  <2> DEFINE f == [n \in 0 .. 0 |-> StepsOver(0, Calls[n - 1], Statements[n])]
  <2>1. \A n \in 0 .. 0 : f[n] = StepsOver(f[n - 1], Calls[n - 1], Statements[n])
    <3>1. f[0] = StepsOver(f[0 - 1], Calls[0 - 1], Statements[0])
      BY <1>2
    <3>2. QED
      BY <3>1
  <2>2. f = [n \in 0 .. 0 |-> f[n]]
    OBVIOUS
  <2> HIDE DEF f
  <2>3. f = [n \in 0 .. 0 |-> StepsOver(f[n - 1], Calls[n - 1], Statements[n])]
    BY <2>1, <2>2
  <2>4. QED
    BY <2>3
<1>4. ASSUME NEW m \in Nat, Run(m) PROVE Run(m + 1)
  <2>1. PICK f : f = [n \in 0 .. m |-> StepsOver(f[n - 1], Calls[n - 1], Statements[n])]
    BY <1>4
  <2> DEFINE g == [n \in 0 .. m + 1 |-> IF n \in 0 .. m THEN f[n] ELSE StepsOver(f[m], Calls[n - 1], Statements[n])]
  <2>2. ASSUME NEW n \in 0 .. m + 1 PROVE g[n] = StepsOver(g[n - 1], Calls[n - 1], Statements[n])
    <3>1. CASE n = 0
      <4>1. g[n] = f[n] /\ f[n] = StepsOver(f[n - 1], Calls[0 - 1], Statements[0])
        BY <3>1, <2>1
      <4>2. StepsOver(f[n - 1], Calls[0 - 1], Statements[0]) = StepsOver(g[n - 1], Calls[0 - 1], Statements[0])
        BY <1>2
      <4>3. QED
        BY <3>1, <4>1, <4>2
    <3>2. CASE n # 0 /\ n \in 0 .. m
      <4>1. n - 1 \in 0 .. m /\ n - 1 \in 0 .. m + 1
        BY <3>2
      <4>2. g[n] = f[n] /\ g[n - 1] = f[n - 1]
        BY <3>2, <4>1
      <4>3. f[n] = StepsOver(f[n - 1], Calls[n - 1], Statements[n])
        BY <3>2, <2>1
      <4>4. QED
        BY <4>2, <4>3
    <3>3. CASE n \notin 0 .. m
      <4>1. n - 1 = m /\ m \in 0 .. m /\ m \in 0 .. m + 1
        BY <3>3
      <4>2. g[n] = StepsOver(f[m], Calls[n - 1], Statements[n]) /\ g[m] = f[m]
        BY <3>3, <4>1
      <4>3. QED
        BY <4>1, <4>2
    <3>4. QED
      BY <3>1, <3>2, <3>3
  <2>3. g = [n \in 0 .. m + 1 |-> g[n]]
    OBVIOUS
  <2> HIDE DEF g
  <2>4. g = [n \in 0 .. m + 1 |-> StepsOver(g[n - 1], Calls[n - 1], Statements[n])]
    BY <2>2, <2>3
  <2>5. QED
    BY <2>4
<1> HIDE DEF Run
<1>5. Run(Height)
  <2>1. P \in SUBSET Nat /\ 0 \in P /\ \A m \in P : m + 1 \in P
    BY <1>3, <1>4
  <2> HIDE DEF P
  <2>2. Height \in P
    BY <1>1, <2>1, EveryNumber
  <2>3. QED
    BY <2>2 DEF P
<1>6. StepsInto = [n \in 0 .. Height |-> StepsOver(StepsInto[n - 1], Calls[n - 1], Statements[n])]
  BY <1>5 DEF Run, StepsInto, StepsOver
<1> HIDE DEF P
<1>7. \A n \in 1 .. Height : n \in 0 .. Height
  BY <1>1
<1>8. QED
  BY <1>6, <1>7

(* For every height, what the walk gives and what stands in the statements *)
(* fit together.                                                           *)
LEMMA WalkTells ==
  ASSUME ShellAssumption, NEW n \in 0 .. Height
  PROVE  Tells(Walk[n], Calls[n], StepsInto[n], Statements[n])
<1> DEFINE P == {m \in Nat : m <= Height => Tells(Walk[m], Calls[m], StepsInto[m], Statements[m])}
<1>1. Height \in Nat
  BY DEF ShellAssumption
<1>2. 0 \in P
  BY StatementsAre DEF Tells
<1>3. ASSUME NEW m \in P PROVE m + 1 \in P
  <2>1. m \in Nat /\ m + 1 \in Nat /\ (m + 1 <= Height => m <= Height)
    BY <1>1
  <2>2. ASSUME m + 1 <= Height PROVE Tells(Walk[m + 1], Calls[m + 1], StepsInto[m + 1], Statements[m + 1])
    <3> DEFINE W == Walk[m]
               C == Calls[m]
               D == StepsInto[m]
               S == Statements[m]
               T == Statements[m + 1]
    <3>1. m + 1 \in 1 .. Height /\ (m + 1) - 1 = m
      BY <1>1, <2>1, <2>2
    <3>2. T = StatementsOver(S)
      BY <3>1, StatementsAre
    <3>3. /\ Walk[m + 1] = WalkOver(W, T) /\ Calls[m + 1] = CallsOver(C, T)
          /\ StepsInto[m + 1] = StepsOver(D, C, T)
      BY <3>1, WalkIs, CallsAre, StepsAre
    <3>4. Tells(W, C, D, S)
      BY <2>1, <2>2
    <3> HIDE DEF W, C, D, S, T
    <3>5. ASSUME NEW s \in T, NEW path \in Paths, NEW depth \in Nat
          PROVE  /\ WalkOver(W, T)[s][path][depth] \in Seq(SegsAt(PathsFrom(path)))
                 /\ CallsOver(C, T)[s][path] \subseteq PathsFrom(path)
                 /\ \A q \in CallsOver(C, T)[s][path] : ToldOnce(WalkOver(W, T)[s][path][depth], q)
                 /\ \A x \in StepsOver(D, C, T)[s][path] :
                      x[1] \in PathsFrom(path) /\ Follows(WalkOver(W, T)[s][path][depth], x)
      <4> DEFINE told == Stmt(W, s, path, depth)
                 calls == (IF s.kind = "call" THEN {path} ELSE {}) \cup CallsOf(C, Inside(s), path)
                 steps == (IF s.kind = "call" THEN {path} \X CallsOf(C, Scripts(s), path) ELSE {})
                            \cup CallsOf(D, Inside(s) \cup Scripts(s), path)
      <4>1. WalkOver(W, T)[s][path][depth] = told
        BY DEF WalkOver
      <4>2. CallsOver(C, T)[s][path] = calls
        BY DEF CallsOver
      <4>3. StepsOver(D, C, T)[s][path] = steps
        BY DEF StepsOver
      <4>4. s \in StatementsOver(S)
        BY <3>2
      <4>5. /\ told \in Seq(SegsAt(PathsFrom(path))) /\ calls \subseteq PathsFrom(path)
            /\ \A q \in calls : ToldOnce(told, q)
            /\ \A x \in steps : x[1] \in PathsFrom(path) /\ Follows(told, x)
        BY <3>4, <4>4, StmtTells
      <4> HIDE DEF told, calls, steps
      <4>6. QED
        BY <4>1, <4>2, <4>3, <4>5
    <3>6. Tells(WalkOver(W, T), CallsOver(C, T), StepsOver(D, C, T), T)
      BY <3>5 DEF Tells
    <3>7. QED
      BY <3>3, <3>6 DEF T
  <2>3. QED
    BY <2>1, <2>2
<1>4. P \in SUBSET Nat
  OBVIOUS
<1> HIDE DEF P
<1>5. P = Nat
  BY <1>2, <1>3, <1>4, EveryNumber
<1>6. n \in P
  BY <1>1, <1>5
<1>7. QED
  BY <1>1, <1>6 DEF P

(* Before a line is parsed there are no calls; then the segments are those *)
(* of the line.                                                            *)
ShellInv ==
  \/ parsed = <<>> /\ segments = <<>>
  \/ parsed \in CommandLines /\ segments = Stmts(Walk[Height], parsed, "body", 0, <<>>, 0)

(* No command that a line would run is missing from its segments, whatever *)
(* the line and however deep its statements stand in each other: walk.go   *)
(* and wrappers.go give every call of a body, a substitution or a          *)
(* redirect's word one segment, and every call of a script that a shell or *)
(* an eval is handed as plain text a later one, unless the call that runs  *)
(* it is of the class that nobody is taken to have allowed.  What the      *)
(* analysis overlooks (Overlooked) is not claimed.                         *)
THEOREM ShellStaysSeen == ShellSpec => []ShellIsSeen
<1> USE ShellAssumption
<1>1. ShellInit => ShellInv
  BY DEF ShellInit, ShellInv
<1>2. ShellInv /\ [Analyze]_<<parsed, segments>> => ShellInv'
  BY DEF ShellInv, Analyze
<1>3. ShellInv => ShellIsSeen
  <2> SUFFICES ASSUME ShellInv PROVE EveryCallHasItsSegment /\ ScriptsAreSeenOrUnknown
    BY DEF ShellIsSeen
  <2>1. CASE parsed = <<>> /\ segments = <<>>
    <3>1. Held(parsed, "body", 0) = {}
      BY <2>1 DEF Held
    <3>2. CallsIn(parsed) = {} /\ StepsIn(parsed) = {}
      BY <3>1 DEF CallsIn, StepsIn, CallsOf
    <3>3. QED
      BY <3>2 DEF EveryCallHasItsSegment, ScriptsAreSeenOrUnknown
  <2>2. CASE parsed \in CommandLines /\ segments = Stmts(Walk[Height], parsed, "body", 0, <<>>, 0)
    <3>1. parsed \in Seq(Statements[Height]) /\ Height \in 0 .. Height /\ "body" \in Parts
      BY <2>2 DEF ShellAssumption, Parts
    <3>2. <<>> \in Paths
      BY DEF Paths
    <3>3. Tells(Walk[Height], Calls[Height], StepsInto[Height], Statements[Height])
      BY <3>1, WalkTells
    <3>4. \A q \in CallsIn(parsed) : ToldOnce(segments, q)
      BY <2>2, <3>1, <3>2, <3>3, StmtsTell DEF CallsIn
    <3>5. \A x \in StepsIn(parsed) : Follows(segments, x)
      BY <2>2, <3>1, <3>2, <3>3, StmtsTell DEF StepsIn
    <3>6. ASSUME NEW q \in CallsIn(parsed) PROVE \E i \in DOMAIN segments : SegmentsOf(q) = {i}
      <4>1. PICK i \in DOMAIN segments :
              segments[i].path = q /\ \A j \in DOMAIN segments : segments[j].path = q => j = i
        BY <3>4 DEF ToldOnce
      <4>2. SegmentsOf(q) = {i}
        BY <4>1 DEF SegmentsOf
      <4>3. QED
        BY <4>2
    <3>7. ASSUME NEW x \in StepsIn(parsed), NEW i \in SegmentsOf(x[1])
          PROVE  "unknown" \in segments[i].class \/ \E j \in SegmentsOf(x[2]) : i < j
      BY <3>5 DEF Follows, SegmentsOf
    <3>8. QED
      BY <3>6, <3>7 DEF EveryCallHasItsSegment, ScriptsAreSeenOrUnknown
  <2>3. QED
    BY <2>1, <2>2 DEF ShellInv
<1>4. QED
  BY <1>1, <1>2, <1>3, PTL DEF ShellSpec
=============================================================================
