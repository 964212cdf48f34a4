--------------------------- MODULE ShellAnalysis ---------------------------
(***************************************************************************)
(* How a bash command line is split into the simple commands it runs       *)
(* (internal/features/permissions/shell: walk.go, wrappers.go and the      *)
(* lookup of table.go).  The parser is external: its syntax tree is the    *)
(* input.  A statement is                                                  *)
(*   a call      [kind "call", argv : Seq(Arg), redirs : Seq(Redirect)]    *)
(*   a compound  [kind "group", argv, redirs, body : Seq(statement)]       *)
(* where a compound stands for if, while, for, case, blocks, subshells,    *)
(* pipelines, functions, time and coproc, and for assignments when its     *)
(* body is empty; argv are the words it holds.  An Arg that is not static  *)
(* holds the statements of its substitutions; a static one may spell a     *)
(* script, and then holds what the parser makes of its text.  A statement  *)
(* is named by its path from the line: the slots, one in the other, that   *)
(* hold it.                                                                *)
(***************************************************************************)
EXTENDS Naturals, Sequences, SequencesExt

CONSTANTS
  MaxDepth,     \* maxDepth: how deep scripts are followed
  Height,       \* bound: how deep statements stand in each other
  CommandLines  \* the syntax trees to analyse

ArgsOver(S)      == [static : BOOLEAN, value : STRING, stmts : Seq(S)]
RedirectsOver(S) == [op : STRING, word : ArgsOver(S)]

(* The statements whose words and bodies hold statements of S.             *)
StatementsOver(S) ==
  [kind : {"call"}, argv : Seq(ArgsOver(S)), redirs : Seq(RedirectsOver(S)), body : {<<>>}]
    \cup [kind : {"group"}, argv : Seq(ArgsOver(S)), redirs : Seq(RedirectsOver(S)), body : Seq(S)]

Statements[n \in 0 .. Height] == IF n = 0 THEN {} ELSE StatementsOver(Statements[n - 1])

ASSUME ShellAssumption ==
  /\ MaxDepth \in Nat \ {0} /\ Height \in Nat
  /\ CommandLines \subseteq Seq(Statements[Height])

(* The slot of a statement: a part of what holds it, which of them, and    *)
(* its place there.                                                        *)
Slots == {"body", "arg", "redir"} \X Nat \X Nat
Paths == Seq(Slots)

VARIABLES
  parsed,    \* the tree being analysed
  segments   \* its segments, in order

Read    == {}
Unknown == {"unknown"}

(* static: plain and quoted text is a word's value.  So is the text of     *)
(* $'...', escapes and all: its statements are those of a text that the    *)
(* shell does not run, and what it runs is not in the tree.                *)
Word(value)      == [static |-> TRUE, value |-> value, stmts |-> <<>>]
Script(stmts)    == [static |-> TRUE, value |-> "script", stmts |-> stmts]
Escaped(stmts)   == [static |-> TRUE, value |-> "escaped", stmts |-> stmts]
Expansion(stmts) == [static |-> FALSE, value |-> "", stmts |-> stmts]

Call(argv, redirs)        == [kind |-> "call", argv |-> argv, redirs |-> redirs, body |-> <<>>]
Group(argv, redirs, body) == [kind |-> "group", argv |-> argv, redirs |-> redirs, body |-> body]

(* A redirect: its operator and its word.                                  *)
Redirect(op, word) == [op |-> op, word |-> word]

Flags == {"-u", "-n", "-c", "-lc", "-e", "-v", "-i", "-C", "-S", "--", "-exec", "-delete", "-fls", "--norc"}
IsFlag(arg) == arg.static /\ arg.value \in Flags
-----------------------------------------------------------------------------
(* Table.Lookup over the rows the model knows, keyed by the words they     *)
(* spell.  A flag that hits replaces the class of the words.               *)
Table ==
  [key \in {<<"ls">>, <<"trap">>, <<"echo">>, <<"cat">>, <<"rm">>, <<"curl">>, <<"sed">>, <<"sed", "-i">>,
            <<"git", "log">>, <<"git", "push">>, <<"git", "stash", "list">>, <<"git", "stash">>} |->
     CASE key \in {<<"rm">>}                 -> {"fs:delete"}
       [] key \in {<<"curl">>}               -> {"net"}
       [] key \in {<<"sed", "-i">>}          -> {"fs:write"}
       [] key \in {<<"git", "push">>}        -> {"net", "vcs"}
       [] key \in {<<"git", "stash">>}       -> {"vcs"}
       [] OTHER                              -> Read]

TakesValue(bin, flag) == flag.static /\ <<bin, flag.value>> \in {<<"git", "-C">>, <<"git", "-c">>}

(* splitArgs: the positional words, past flags and their values; a word    *)
(* only known at run time keeps its place.                                 *)
SplitArgs(bin, args) ==
  LET stop  == {i \in DOMAIN args : args[i].static /\ args[i].value = "--"}
      upTo  == IF stop = {} THEN Len(args) ELSE (CHOOSE i \in stop : \A j \in stop : i <= j) - 1
      value == [i \in 0 .. upTo |-> i > 1 /\ TakesValue(bin, args[i - 1])]
      own   == {i \in 1 .. upTo : ~value[i]}
      words == SelectSeq([i \in 1 .. upTo |-> i], LAMBDA i : i \in own /\ ~IsFlag(args[i]))
  IN  [subs  |-> [i \in 1 .. Len(words) |-> IF args[words[i]].static THEN args[words[i]].value ELSE ""],
       flags |-> {args[i].value : i \in {j \in own : IsFlag(args[j])}}]

Lookup(bin, args) ==
  LET split == SplitArgs(bin, args)
      sub   == IF split.subs = <<>> THEN "" ELSE split.subs[1]
      sub2  == IF Len(split.subs) < 2 THEN "" ELSE split.subs[2]
      hits  == {key \in {<<bin, f>> : f \in split.flags} \cup {<<bin, sub, f>> : f \in split.flags} :
                  key \in DOMAIN Table}
      rows  == <<<<bin, sub, sub2>>, <<bin, sub>>, <<bin>>>>
      found == {i \in 1 .. 3 : rows[i] \in DOMAIN Table}
  IN  IF hits # {} THEN UNION {Table[key] : key \in hits}
      ELSE IF found = {} THEN Unknown
      ELSE Table[rows[CHOOSE i \in found : \A j \in found : i <= j]]
-----------------------------------------------------------------------------
(* wrappers.go                                                             *)

StringShells == {"bash", "sh"}

Wrappers == {"sudo", "env", "nohup", "xargs", "timeout", "command"}
ValueFlags(bin) ==
  CASE bin = "sudo"  -> {"-u", "-C"}
    [] bin = "env"   -> {"-u", "-C", "-S"}
    [] bin = "xargs" -> {"-n"}
    [] OTHER         -> {}
EmptyClass(bin) == IF bin \in {"sudo", "nohup", "timeout"} THEN Unknown ELSE Read

(* unwrap: where the inner command begins, past the wrapper's own flags,   *)
(* their values, env's assignments and timeout's duration; 0 when they are *)
(* not all static.                                                         *)
Searching(mode, at, duration) == [mode |-> mode, at |-> at, duration |-> duration]

Looks(bin, args, search, i) ==
  LET arg == args[i]
  IN  CASE search.mode \in {"found", "opaque"} -> search
        [] search.mode = "value" -> [search EXCEPT !.mode = "own"]
        [] search.mode = "own" /\ ~arg.static -> Searching("opaque", 0, search.duration)
        [] search.mode = "own" /\ arg.static ->
             IF arg.value = "--" THEN Searching("found", i + 1, search.duration)
             ELSE IF IsFlag(arg)
             THEN [search EXCEPT !.mode = IF arg.value \in ValueFlags(bin) THEN "value" ELSE "own"]
             ELSE IF bin = "env" /\ arg.value = "K=v" THEN search
             ELSE IF bin = "timeout" /\ ~search.duration THEN [search EXCEPT !.duration = TRUE]
             ELSE Searching("found", i, search.duration)

Unwrap(bin, args) ==
  LET search[i \in 0 .. Len(args)] ==
        IF i = 0 THEN Searching("own", Len(args) + 1, FALSE) ELSE Looks(bin, args, search[i - 1], i)
  IN  search[Len(args)].at

Rest(args, i) == SubSeq(args, i, Len(args))

LeadingFlag(args, wants) ==
  \E i \in DOMAIN args : args[i].value \in wants /\ \A j \in 1 .. i : IsFlag(args[j])

(* stringShell: where the script of -c stands, 0 when there is none that   *)
(* can be read.  Any short cluster with a c in it asks for one.            *)
ScriptAt(args) ==
  LET opaque(i) == ~args[i].static \/ args[i].value = "--" \/ ~IsFlag(args[i])
      asks(i)   == args[i].static /\ args[i].value \in {"-c", "-lc"}
      at        == {i \in DOMAIN args : asks(i) /\ \A j \in 1 .. i - 1 : ~opaque(j) /\ ~asks(j)}
  IN  IF at = {} THEN 0
      ELSE LET i == CHOOSE k \in at : TRUE
           IN  IF i + 1 <= Len(args) /\ args[i + 1].static THEN i + 1 ELSE 0

Result(class, segs) == [class |-> class, segs |-> segs]

(* What a step of the recursion is given: W analyses the statements one    *)
(* level down, and inner the words of an inner command.                    *)

Stmts(W, ss, part, k, path, depth) ==
  FlattenSeq([i \in DOMAIN ss |-> W[ss[i]][Append(path, <<part, k, i>>)][depth]])

(* nested: a literal script is analysed one level deeper, and its segments *)
(* carry the classes; too deep, nothing is known of it.  The scripts are   *)
(* the words at the places of which.                                       *)
Nested(W, words, which, from, path, depth) ==
  IF depth + 1 > MaxDepth THEN Result(Unknown, <<>>)
  ELSE Result(Read, FlattenSeq([k \in DOMAIN words |->
         IF k \in which THEN Stmts(W, words[k].stmts, "arg", from + k, path, depth + 1) ELSE <<>>]))

(* eval's arguments make one script.                                       *)
Eval(W, words, from, path, depth) ==
  IF \E k \in 2 .. Len(words) : ~words[k].static THEN Result(Unknown, <<>>)
  ELSE Nested(W, words, 2 .. Len(words), from, path, depth)

(* find: each -exec clause is a command of its own.                        *)
ClauseEnd(words, i) ==
  LET ends == {j \in i + 1 .. Len(words) : words[j].static /\ words[j].value = ";"}
  IN  IF ends = {} THEN Len(words) + 1 ELSE CHOOSE j \in ends : \A m \in ends : j <= m

Finds(inner, words, from, found, i) ==
  LET end    == ClauseEnd(words, i)
      clause == inner[SubSeq(words, i + 1, end - 1)][from + i]
      adds(class) == [found EXCEPT !.class = @ \cup class]
  IN  CASE i < found.next \/ ~words[i].static -> found
        [] i >= found.next /\ words[i].static ->
             CASE words[i].value = "-exec" ->
                    [next |-> end + 1, class |-> found.class \cup clause.class, segs |-> found.segs \o clause.segs]
               [] words[i].value = "-delete" -> adds({"fs:delete"})
               [] words[i].value = "-fls"    -> adds({"fs:write"})
               [] OTHER                      -> found

Find(inner, words, from) ==
  LET found[i \in 1 .. Len(words)] ==
        IF i = 1 THEN [next |-> 2, class |-> Read, segs |-> <<>>]
        ELSE Finds(inner, words, from, found[i - 1], i)
  IN  Result(found[Len(words)].class, found[Len(words)].segs)

(* classifyVia, of the words that follow the first `from` of a call.       *)
ClassOf(W, inner, words, from, path, depth) ==
  LET bin  == words[1].value
      args == Tail(words)
      at   == Unwrap(bin, args)
  IN  IF ~words[1].static \/ bin = "./ls" THEN Result(Unknown, <<>>)
      ELSE IF bin \in StringShells
           THEN IF ScriptAt(args) = 0 THEN Result(Unknown, <<>>)
                ELSE Nested(W, words, {ScriptAt(args) + 1}, from, path, depth)
      ELSE IF bin = "eval" THEN Eval(W, words, from, path, depth)
      ELSE IF bin = "find" THEN Find(inner, words, from)
      ELSE IF bin = "sudo" /\ LeadingFlag(args, {"-e"}) THEN Result({"fs:write"}, <<>>)
      ELSE IF bin = "command" /\ LeadingFlag(args, {"-v"}) THEN Result(Read, <<>>)
      ELSE IF bin \in Wrappers
           THEN IF at = 0 THEN Result(Unknown, <<>>)
                ELSE IF at > Len(args) THEN Result(EmptyClass(bin), <<>>)
                ELSE inner[Rest(args, at)][from + at]
      ELSE Result(Lookup(bin, args), <<>>)

Classify(W, argv, path, depth) ==
  LET class[m \in 0 .. Len(argv)] ==
        [words \in Seq(ToSet(argv)) |-> [from \in Nat |->
           IF m = 0 \/ words = <<>> THEN Result(Read, <<>>)
           ELSE ClassOf(W, class[m - 1], words, from, path, depth)]]
  IN  class[Len(argv)][argv][0]
-----------------------------------------------------------------------------
(* walk.go                                                                 *)

(* redirect: which class one adds.  A descriptor copy and an input read;   *)
(* a sink writes nothing new.                                              *)
RedirectClass(r) ==
  IF \/ r.op \in {"<", "<<"}
     \/ r.op = ">&" /\ r.word.static /\ r.word.value \in {"-", "1"}
     \/ r.word.static /\ r.word.value = "/dev/null"
  THEN Read ELSE {"fs:write"}

RedirectsClass(redirs) == UNION {RedirectClass(redirs[i]) : i \in DOMAIN redirs}
RedirectWords(redirs)  == [i \in DOMAIN redirs |-> redirs[i].word]

(* Substitutions are followed one level deeper; a static word has none.    *)
Substs(W, words, part, path, depth) ==
  FlattenSeq([k \in DOMAIN words |->
    IF words[k].static THEN <<>> ELSE Stmts(W, words[k].stmts, part, k, path, depth + 1)])

ShellSegment(path, class, depth) == [path |-> path, class |-> class, depth |-> depth]

WriteSegment(s, path, depth) ==
  IF RedirectsClass(s.redirs) = Read THEN <<>>
  ELSE <<ShellSegment(path, RedirectsClass(s.redirs), depth)>>

(* Mutant: a compound's own words are not walked.                          *)
GroupSegmentsBodyOnly(W, s, path, depth) ==
  Stmts(W, s.body, "body", 0, path, depth)
    \o Substs(W, RedirectWords(s.redirs), "redir", path, depth) \o WriteSegment(s, path, depth)

(* command: a compound is walked; a write redirect on it is a segment.     *)
GroupSegments(W, s, path, depth) ==
  Substs(W, s.argv, "arg", path, depth) \o Stmts(W, s.body, "body", 0, path, depth)
    \o Substs(W, RedirectWords(s.redirs), "redir", path, depth) \o WriteSegment(s, path, depth)

(* stmt: the enclosing command goes in front of what its words run.        *)
CallSegments(W, s, path, depth) ==
  LET own == Classify(W, s.argv, path, depth)
  IN  <<ShellSegment(path, own.class \cup RedirectsClass(s.redirs), depth)>>
        \o Substs(W, s.argv, "arg", path, depth) \o own.segs
        \o Substs(W, RedirectWords(s.redirs), "redir", path, depth)

Stmt(W, s, path, depth) ==
  IF s.kind = "call" THEN CallSegments(W, s, path, depth) ELSE GroupSegments(W, s, path, depth)

Walk[n \in 0 .. Height] ==
  [s \in Statements[n] |-> [path \in Paths |-> [depth \in Nat |-> Stmt(Walk[n - 1], s, path, depth)]]]

ShellInit == parsed = <<>> /\ segments = <<>>

(* Analyze                                                                 *)
Analyze ==
  \E line \in CommandLines :
    /\ parsed = <<>>
    /\ parsed' = line /\ segments' = Stmts(Walk[Height], line, "body", 0, <<>>, 0)

ShellSpec == ShellInit /\ [][Analyze]_<<parsed, segments>>
-----------------------------------------------------------------------------
(* What the tree says by itself: the calls whose text stands in it, and    *)
(* the scripts handed to something that runs them.                         *)
Held(stmts, part, k) == {[stmt |-> stmts[i], slot |-> <<part, k, i>>] : i \in DOMAIN stmts}

HeldByWords(words, static, part) ==
  UNION {Held(words[k].stmts, part, k) : k \in {k \in DOMAIN words : words[k].static = static}}

(* What stands in a statement: in its body, its words and its redirects.   *)
Inside(s) ==
  Held(s.body, "body", 0) \cup HeldByWords(s.argv, FALSE, "arg")
    \cup HeldByWords(RedirectWords(s.redirs), FALSE, "redir")

(* Programs that keep the words behind them to themselves, and the flags   *)
(* with which a wrapper runs nothing.                                      *)
Spells(word, values) == word.static /\ word.value \in values
Keepers == {key[1] : key \in DOMAIN Table} \cup StringShells \cup {"eval", "-e", "-v"}

(* What stands at p is run by what stands before it, find's clauses        *)
(* included.                                                               *)
Leads(argv, p) ==
  \A i \in 1 .. p - 1 :
    /\ ~Spells(argv[i], Keepers)
    /\ Spells(argv[i], {"find"}) =>
         \E e \in i + 1 .. p - 1 :
           Spells(argv[e], {"-exec"}) /\ \A j \in e .. p : ~Spells(argv[j], {";"})

(* The word at k is a script of the shell, or of the eval, at p: right     *)
(* behind the flag that asks for one, or among eval's own words.           *)
RunBy(argv, p, k) ==
  \/ /\ Spells(argv[p], StringShells) /\ p < k - 1 /\ Spells(argv[k - 1], {"-c", "-lc"})
     /\ \A j \in p + 1 .. k - 2 : argv[j].static => argv[j].value \in Flags \ {"-c", "-lc"}
  \/ /\ Spells(argv[p], {"eval"})
     /\ \A j \in p + 1 .. k - 1 : argv[j].static => argv[j].value = "script"

(* The scripts that are there to be read: nothing before them is escaped.  *)
HandedOver(argv) ==
  {k \in DOMAIN argv : Spells(argv[k], {"script"}) /\ \E p \in 1 .. k - 1 : Leads(argv, p) /\ RunBy(argv, p, k)}

Scripts(s) == UNION {Held(s.argv[k].stmts, "arg", k) : k \in HandedOver(s.argv)}

(* The calls that stand in statements, by their paths.                     *)
CallsOf(C, held, path) == UNION {C[h.stmt][Append(path, h.slot)] : h \in held}

Calls[n \in 0 .. Height] ==
  [s \in Statements[n] |-> [path \in Paths |->
     (IF s.kind = "call" THEN {path} ELSE {}) \cup CallsOf(Calls[n - 1], Inside(s), path)]]

(* Pairs of a call that runs a script and a call of that script.           *)
StepsInto[n \in 0 .. Height] ==
  [s \in Statements[n] |-> [path \in Paths |->
     (IF s.kind = "call" THEN {path} \X CallsOf(Calls[n - 1], Scripts(s), path) ELSE {})
       \cup CallsOf(StepsInto[n - 1], Inside(s) \cup Scripts(s), path)]]

CallsIn(line) == CallsOf(Calls[Height], Held(line, "body", 0), <<>>)
StepsIn(line) == CallsOf(StepsInto[Height], Held(line, "body", 0), <<>>)

SegmentsOf(path) == {i \in DOMAIN segments : segments[i].path = path}

(* No command hides in another one's words: every call that stands in a    *)
(* body, a substitution or the word of a redirect has one segment.         *)
EveryCallHasItsSegment ==
  \A path \in CallsIn(parsed) : \E i \in DOMAIN segments : SegmentsOf(path) = {i}

(* What the analysis makes a word of: a text in $'...', where one is run,  *)
(* the string env -S splits and runs, and what a trap runs.                *)
Overlooked(argv) ==
  {k \in DOMAIN argv :
     \E p \in 1 .. k - 1 :
       /\ Leads(argv, p)
       /\ \/ Spells(argv[k], {"escaped"}) /\ RunBy(argv, p, k)
          \/ /\ Spells(argv[k], {"escaped", "script"})
             /\ \/ Spells(argv[p], {"env"}) /\ p < k - 1 /\ Spells(argv[k - 1], {"-S"})
                     /\ \A j \in p + 1 .. k - 1 : IsFlag(argv[j])
                \/ Spells(argv[p], {"trap"}) /\ p = k - 1}

(* A script that a shell or an eval is handed as plain text is either      *)
(* split up like the line itself, behind the command that runs it, or the  *)
(* command that runs it is of a class nobody is taken to have allowed:     *)
(* through sudo, env and timeout, in eval and find -exec, and past the     *)
(* depth the analysis follows.  Of what is overlooked nothing is said.     *)
ScriptsAreSeenOrUnknown ==
  \A step \in StepsIn(parsed) :
    \A i \in SegmentsOf(step[1]) :
      \/ "unknown" \in segments[i].class
      \/ \E j \in SegmentsOf(step[2]) : i < j

(* Not so of this code: who hands over what is overlooked may be of class  *)
(* read, and the scripts it runs have no segment.                          *)
OverlookedIsUnknown ==
  \A k \in DOMAIN parsed :
    parsed[k].kind = "call" /\ Overlooked(parsed[k].argv) # {} =>
      \A i \in SegmentsOf(<<<<"body", 0, k>>>>) : "unknown" \in segments[i].class

(* No command that stands in a line is missing from its segments, however  *)
(* it is wrapped, and no plain script that a shell or an eval in it runs,  *)
(* unless the line is marked as not understood.                            *)
ShellIsSeen == EveryCallHasItsSegment /\ ScriptsAreSeenOrUnknown
=============================================================================
