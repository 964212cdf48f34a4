---------------------------- MODULE ApprovalDesk ----------------------------
(***************************************************************************)
(* Bash calls that wait for a human (api/approvals.go, api/approvals,      *)
(* internal/app/bashallow.go, core/approval.go): the hook's verdict, the   *)
(* registry the event forwarder fills, the handlers that answer -- each    *)
(* request a goroutine of its own -- and the allow list that is kept both  *)
(* in memory and in the settings file.  First what the permission policy   *)
(* says of one tool call (internal/features/permissions): the lists of     *)
(* names, the globs and categories for bash commands, and the glob         *)
(* proposed to the human.                                                  *)
(*                                                                         *)
(* A command is the sequence of segments shell.Analyze split it into, or a *)
(* parse error.  A glob is told by what it spells: a binary, a binary with *)
(* its next word, a binary with the directory of a redirect, one exact     *)
(* line, or an assignment in front.                                        *)
(***************************************************************************)
EXTENDS Naturals, Sequences, FiniteSets

CONSTANTS
  DeskCalls,      \* the calls of the run
  WriteCalls,     \* those of them that are of another tool than bash
  Handlers,       \* POST /approve requests
  Commands,       \* what the calls may run
  EditedGlobs,    \* globs a user types in place of the suggestion
  FirstRules,     \* the rules read at start-up
  Sections,       \* the permissions sections tenzing.yaml may have
  MaxRestarts,    \* bound: restarts of the process
  NoHandler

IsSequence(s) == s \in Seq({s[i] : i \in DOMAIN s})

IsRules(r) ==
  r = [allow |-> r.allow, session |-> r.session, deny |-> r.deny,
       catAllow |-> r.catAllow, catDeny |-> r.catDeny]

ASSUME DeskAssumption ==
  /\ NoHandler \notin Handlers /\ WriteCalls \subseteq DeskCalls
  /\ MaxRestarts \in Nat
  /\ IsRules(FirstRules)
  /\ \A command \in Commands :
       /\ IsSequence(command.segs)
       /\ \A i \in DOMAIN command.segs : IsSequence(command.segs[i].writes)
-----------------------------------------------------------------------------
(* Class: the resources a command changes; read is the empty set.          *)
Classes == {"fs:write", "fs:delete", "net", "vcs", "unknown"}

(* core.Decision, from the laxest.                                         *)
DecisionAllow   == 0
DecisionAskUser == 1
DecisionDeny    == 2

Runtime == "runtime"   \* a word or a target only known when it runs
NoWord  == "none"

(* Segment.  quoted: the printed text spells the command word differently  *)
(* from its value; writes: the targets of its write redirects in order;    *)
(* assigned: Raw carries an assignment that Text does not.                 *)
RuleSegment(bin, next, class, writes, quoted, assigned) ==
  [bin |-> bin, next |-> next, class |-> class, writes |-> writes,
   quoted |-> quoted, assigned |-> assigned]

(* Analysis                                                                *)
Splits(segs) == [err |-> FALSE, segs |-> segs]
Unparsed     == [err |-> TRUE, segs |-> <<>>]

NoGlob == [kind |-> "none"]
BinaryGlob(bin)          == [kind |-> "binary", bin |-> bin]
SubcommandGlob(bin, sub) == [kind |-> "sub", bin |-> bin, sub |-> sub]
RedirectGlob(bin, dir)   == [kind |-> "redirect", bin |-> bin, dir |-> dir]
ExactGlob(seg)           == [kind |-> "exact", seg |-> [seg EXCEPT !.assigned = FALSE]]
AssignmentGlob           == [kind |-> "assignment"]
RawTextGlob              == [kind |-> "rawtext"]   \* matches what did not parse
-----------------------------------------------------------------------------
(* globMatches on Segment.Text; the trailing " *" also covers no argument. *)
Matches(glob, seg) ==
  CASE glob.kind = "binary"   -> ~seg.quoted /\ glob.bin = seg.bin
    [] glob.kind = "sub"      -> ~seg.quoted /\ glob.bin = seg.bin /\ glob.sub = seg.next
    [] glob.kind = "redirect" -> /\ ~seg.quoted /\ glob.bin = seg.bin
                                 /\ \E i \in DOMAIN seg.writes : seg.writes[i] = glob.dir
    [] glob.kind = "exact"    -> glob.seg = [seg EXCEPT !.assigned = FALSE]
    [] OTHER                  -> FALSE

(* ... and on Segment.Raw, whose text starts with its assignments.         *)
MatchesRaw(glob, seg) ==
  IF seg.assigned THEN glob.kind = "assignment" ELSE Matches(glob, seg)

(* strings.Contains(glob, ">")                                             *)
SpellsRedirect(glob) ==
  \/ glob.kind = "redirect"
  \/ glob.kind = "exact" /\ glob.seg.writes # <<>>

WritesViaRedirect(seg) == seg.writes # <<>>

(* BashRules.snapshot: both allow lists, one view of them.                 *)
RulesInForce(rules) == rules.allow \cup rules.session

GlobAllowed(rules, seg) == \E g \in RulesInForce(rules) : Matches(g, seg)

(* snapshot.covered: no bit of the class is left over, or a glob covers    *)
(* the segment -- a redirect write only if the glob spells one.            *)
Covered(rules, seg) ==
  \/ seg.class \subseteq rules.catAllow
  \/ \E g \in RulesInForce(rules) :
       /\ Matches(g, seg)
       /\ WritesViaRedirect(seg) /\ "fs:write" \notin rules.catAllow => SpellsRedirect(g)

Denied(rules, seg) ==
  \/ \E g \in rules.deny : Matches(g, seg) \/ MatchesRaw(g, seg)
  \/ ~GlobAllowed(rules, seg) /\ seg.class \cap rules.catDeny # {}

(* BashRules.Verdict.  Silent stands for ok = false: a command that runs   *)
(* nothing keeps the decision made for the tool's name.                    *)
Silent == 3

Verdict(rules, command) ==
  LET segs == {command.segs[i] : i \in DOMAIN command.segs}
  IN  IF command.err THEN IF RawTextGlob \in rules.deny THEN DecisionDeny ELSE DecisionAskUser
      ELSE IF segs = {} THEN Silent
      ELSE IF \E s \in segs : Denied(rules, s) THEN DecisionDeny
      ELSE IF \E s \in segs : ~Covered(rules, s) THEN DecisionAskUser
      ELSE DecisionAllow
-----------------------------------------------------------------------------
(* Suggest: one glob, for the first segment that would still prompt.       *)

SubcommandTools == {"git", "sudo"}
FlagTools       == {"sed"}

FirstLiteral(writes) ==
  LET literal == {i \in DOMAIN writes : writes[i] # Runtime}
  IN  IF literal = {} THEN Runtime
      ELSE writes[CHOOSE i \in literal : \A j \in literal : i <= j]

(* redirectGlob                                                            *)
GlobForRedirect(seg) ==
  IF seg.bin = Runtime \/ FirstLiteral(seg.writes) = Runtime
  THEN NoGlob
  ELSE RedirectGlob(seg.bin, FirstLiteral(seg.writes))

(* globFor                                                                 *)
IsOption(word) == word = "-n"

GlobForBinary(seg) ==
  LET keepsNext == /\ seg.next \notin {NoWord, Runtime}
                   /\ \/ seg.bin \in SubcommandTools /\ ~IsOption(seg.next)
                      \/ seg.bin \in FlagTools /\ IsOption(seg.next)
  IN  IF seg.bin = Runtime THEN NoGlob
      ELSE IF keepsNext THEN SubcommandGlob(seg.bin, seg.next)
      ELSE BinaryGlob(seg.bin)

IsTee(seg) == seg.bin = "tee" /\ "fs:write" \in seg.class

GlobFor(seg) ==
  IF WritesViaRedirect(seg) THEN GlobForRedirect(seg)
  ELSE IF IsTee(seg) THEN ExactGlob(seg)
  ELSE GlobForBinary(seg)

FirstUncovered(rules, command) ==
  LET open == {i \in DOMAIN command.segs : ~Covered(rules, command.segs[i])}
  IN  IF open = {} THEN 0 ELSE CHOOSE i \in open : \A j \in open : i <= j

Suggest(rules, command) ==
  IF command.err \/ FirstUncovered(rules, command) = 0
  THEN NoGlob
  ELSE GlobFor(command.segs[FirstUncovered(rules, command)])
-----------------------------------------------------------------------------
(* The policy over names.  Policy is [allow, deny, ask : SUBSET names,     *)
(* origins : SUBSET prefixes, default]; name-level lists outrank origins.  *)
NameDecision(policy, name, origin) ==
  IF name \in policy.deny THEN DecisionDeny
  ELSE IF name \in policy.ask THEN DecisionAskUser
  ELSE IF name \in policy.allow THEN DecisionAllow
  ELSE IF origin \in policy.origins THEN DecisionAskUser
  ELSE policy.default

(* Ext.OnToolCall: the command's verdict replaces the decision made for    *)
(* the name unless that is Deny, and the result only ever escalates.       *)
OnToolCall(policy, rules, earlier, name, origin, command) ==
  LET named   == NameDecision(policy, name, origin)
      spoken  == Verdict(rules, command)
      refined == IF name = "bash" /\ named # DecisionDeny /\ spoken # Silent THEN spoken ELSE named
  IN  IF refined > earlier THEN refined ELSE earlier

(* DefaultPolicy, of the names the models use.                             *)
DefaultPolicy ==
  [allow |-> {}, deny |-> {}, ask |-> {"bash", "write"}, origins |-> {"mcp:"},
   default |-> DecisionAllow]

(* merge: a name another list claims is dropped from base and add alike.   *)
Merge(base, add, others) == (base \cup add) \ others

(* permissionPolicy: tenzing.yaml's section over the default policy.       *)
PermissionPolicy(section) ==
  LET p == DefaultPolicy
  IN  [allow   |-> Merge(p.allow, section.allow, section.deny \cup section.ask),
       deny    |-> Merge(p.deny, section.deny, section.allow \cup section.ask),
       ask     |-> Merge(p.ask, section.ask, section.allow \cup section.deny),
       origins |-> IF section.origins # {} THEN section.origins ELSE p.origins,
       default |-> p.default]
-----------------------------------------------------------------------------
VARIABLES
  section,   \* tenzing.yaml's permissions section, read once
  rules,     \* BashRules
  settings,  \* the settings file: whole or torn, and permissions.bash.allow
  up,        \* the process runs
  call,      \* call |-> what it runs, where it stands and its channel
  registry,  \* approvals.Registry: calls that can be answered
  handler,   \* request |-> its goroutine
  storeLock, \* BashAllowStore.mu
  life,      \* history: starts after the first
  kept,      \* history: globs reported as allowed always
  wanted     \* history: globs some answer asked to keep

deskVars ==
  <<section, rules, settings, up, call, registry, handler, storeLock, life, kept, wanted>>
deskHistory  == <<section, up, life, kept, wanted>>

(* The file as it is read: malformed JSON is an error to every reader,     *)
(* whatever it holds of the lists.                                         *)
WholeFile(allow) == [whole |-> TRUE, allow |-> allow]
TornFile         == [whole |-> FALSE, allow |-> {}]

(* A call: the stage of the loop's goroutine, whether the bus still has    *)
(* the request's event, and the channel Respond feeds.                     *)
NewCall == [stage |-> "none", command |-> Unparsed, event |-> FALSE, answer |-> "none"]

NewRequest == [pc |-> "none", call |-> NoHandler, kind |-> "no", glob |-> NoGlob,
               proposedFor |-> NoGlob, lists |-> {}]

ToolOf(c) == IF c \in WriteCalls THEN "write" ELSE "bash"

DeskInit ==
  /\ section \in Sections
  /\ rules = FirstRules /\ settings = WholeFile(FirstRules.allow) /\ up = TRUE
  /\ call = [c \in DeskCalls |-> NewCall]
  /\ registry = {}
  /\ handler = [h \in Handlers |-> NewRequest]
  /\ storeLock = NoHandler
  /\ life = 0 /\ kept = {} /\ wanted = {}
-----------------------------------------------------------------------------
(* The loop.                                                               *)

DeskJudged(c, command) ==
  OnToolCall(PermissionPolicy(section), rules, DecisionAllow, ToolOf(c), "", command)

(* The decision phase; requestApproval emits the event when it must ask.   *)
DeskIssue(c) ==
  /\ up /\ call[c].stage = "none"
  /\ \E command \in IF c \in WriteCalls THEN {Splits(<<>>)} ELSE Commands :
       call' = [call EXCEPT ![c] =
         [@ EXCEPT !.command = command,
                   !.event = DeskJudged(c, command) = DecisionAskUser,
                   !.stage = CASE DeskJudged(c, command) = DecisionAllow   -> "run"
                               [] DeskJudged(c, command) = DecisionAskUser -> "asked"
                               [] OTHER                        -> "denied"]]
  /\ UNCHANGED <<rules, settings, registry, handler, storeLock, deskHistory>>

(* observe: the forwarder enters the request, however late.                *)
DeskRegister(c) ==
  /\ call[c].event
  /\ call' = [call EXCEPT ![c].event = FALSE]
  /\ registry' = registry \cup {c}
  /\ UNCHANGED <<rules, settings, handler, storeLock, deskHistory>>

(* Emit: the forwarder's buffer is full and the event is lost.             *)
DropRequest(c) ==
  /\ call[c].event
  /\ call' = [call EXCEPT ![c].event = FALSE]
  /\ UNCHANGED <<rules, settings, registry, handler, storeLock, deskHistory>>

(* waitApproval.                                                           *)
DeskAwait(c) ==
  /\ call[c].stage = "asked" /\ call[c].answer # "none"
  /\ call' = [call EXCEPT ![c].stage = IF call[c].answer = "yes" THEN "run" ELSE "denied"]
  /\ UNCHANGED <<rules, settings, registry, handler, storeLock, deskHistory>>

ApprovalTimeout(c) ==
  /\ call[c].stage = "asked"
  /\ call' = [call EXCEPT ![c].stage = "timedout"]
  /\ UNCHANGED <<rules, settings, registry, handler, storeLock, deskHistory>>
-----------------------------------------------------------------------------
(* A request.  kind is "yes" or "no" for a plain answer, "always" or       *)
(* "session" for an allow answer.                                          *)

Plain(h) == handler[h].kind \in {"yes", "no"}

Moves(h, pc) == handler' = [handler EXCEPT ![h].pc = pc]

(* What takePending finds.  An allow answer is for bash calls only.        *)
Found(h, c, kind, glob, proposedFor) ==
  handler' = [handler EXCEPT ![h] =
    [@ EXCEPT !.pc = IF c \notin registry \/ (kind \in {"always", "session"} /\ ToolOf(c) # "bash")
                     THEN "refused"
                     ELSE IF kind \in {"yes", "no"} THEN "removed" ELSE kind,
              !.call = c, !.kind = kind, !.glob = glob, !.proposedFor = proposedFor]]

(* takePending: a plain answer removes the entry at once, an allow answer  *)
(* only looks; without an entry the request is refused.                    *)
TakePending(h, c, kind, glob, proposedFor) ==
  /\ Found(h, c, kind, glob, proposedFor)
  /\ registry' = IF kind \in {"yes", "no"} THEN registry \ {c} ELSE registry

(* The glob is the one /suggest proposes, or one the user typed; proposedFor *)
(* is the segment it was proposed for.                                     *)
Approve(h, c) ==
  /\ up /\ handler[h].pc = "none" /\ call[c].stage # "none"
  /\ \/ \E kind \in {"yes", "no"} : TakePending(h, c, kind, NoGlob, NoGlob)
     \/ \E kind \in {"always", "session"} :
          \/ /\ Suggest(rules, call[c].command) # NoGlob
             /\ TakePending(h, c, kind, Suggest(rules, call[c].command),
                  call[c].command.segs[FirstUncovered(rules, call[c].command)])
          \/ \E glob \in EditedGlobs : TakePending(h, c, kind, glob, NoGlob)
  /\ wanted' = wanted \cup {g \in {handler'[h].glob} : handler'[h].kind = "always"}
  /\ UNCHANGED <<section, rules, settings, up, call, storeLock, life, kept>>

(* AllowPatternSession: memory only.                                       *)
AllowSession(h) ==
  /\ handler[h].pc = "session"
  /\ rules' = [rules EXCEPT !.session =
                 IF handler[h].glob \in rules.allow THEN @ ELSE @ \cup {handler[h].glob}]
  /\ Moves(h, "granted")
  /\ UNCHANGED <<settings, call, registry, storeLock, deskHistory>>

(* Mutant: the read-modify-write is not serialized.                        *)
AddListsUnlocked(h) ==
  /\ handler[h].pc = "always"
  /\ storeLock' = h
  /\ handler' = [handler EXCEPT ![h].pc = "listed", ![h].lists = rules.allow]
  /\ UNCHANGED <<rules, settings, call, registry, deskHistory>>

(* BashAllowStore.Add: the persisted lists are read ...                    *)
AddLists(h) ==
  /\ handler[h].pc = "always" /\ storeLock = NoHandler
  /\ storeLock' = h
  /\ handler' = [handler EXCEPT ![h].pc = "listed", ![h].lists = rules.allow]
  /\ UNCHANGED <<rules, settings, call, registry, deskHistory>>

(* ... the file is truncated, in place ...                                 *)
AddOpens(h) ==
  /\ handler[h].pc = "listed" /\ settings.whole
  /\ settings' = TornFile
  /\ Moves(h, "opened")
  /\ UNCHANGED <<rules, call, registry, storeLock, deskHistory>>

(* ... and the section written with the glob among them ...                *)
AddWrites(h) ==
  /\ handler[h].pc = "opened"
  /\ settings' = WholeFile(handler[h].lists \cup {handler[h].glob})
  /\ Moves(h, "written")
  /\ UNCHANGED <<rules, call, registry, storeLock, deskHistory>>

(* ... or not all of it, or all and an error still: the request fails with *)
(* the entry pending and the rules as they were ...                        *)
AddBreaks(h) ==
  /\ handler[h].pc = "opened"
  /\ settings' \in {TornFile, WholeFile(handler[h].lists \cup {handler[h].glob})}
  /\ storeLock' = NoHandler
  /\ Moves(h, "refused")
  /\ UNCHANGED <<rules, call, registry, deskHistory>>

(* ... or nothing is written, as the file cannot be opened, or cannot be   *)
(* read as JSON: a torn one refuses every later answer of this kind.       *)
AddFails(h) ==
  /\ handler[h].pc = "listed"
  /\ storeLock' = NoHandler
  /\ Moves(h, "refused")
  /\ UNCHANGED <<rules, settings, call, registry, deskHistory>>

(* Mutant: the list is rebuilt from what was read.                         *)
AddAppliesStale(h) ==
  /\ handler[h].pc = "written"
  /\ rules' = [rules EXCEPT !.allow = {handler[h].glob}]
  /\ storeLock' = NoHandler
  /\ Moves(h, "granted")
  /\ UNCHANGED <<settings, call, registry, deskHistory>>

(* AllowPattern, and the lock is released.                                 *)
AddApplies(h) ==
  /\ handler[h].pc = "written"
  /\ rules' = [rules EXCEPT !.allow = @ \cup {handler[h].glob}]
  /\ storeLock' = NoHandler
  /\ Moves(h, "granted")
  /\ UNCHANGED <<settings, call, registry, deskHistory>>

DeskRemove(h) ==
  /\ handler[h].pc = "granted"
  /\ registry' = registry \ {handler[h].call}
  /\ Moves(h, "removed")
  /\ UNCHANGED <<rules, settings, call, storeLock, deskHistory>>

(* Respond is idempotent: the first answer counts.  The status goes back.  *)
DeskRespond(h) ==
  /\ handler[h].pc = "removed"
  /\ call' = [call EXCEPT ![handler[h].call].answer =
                IF @ # "none" THEN @ ELSE IF handler[h].kind = "no" THEN "no" ELSE "yes"]
  /\ kept' = IF handler[h].kind = "always" THEN kept \cup {handler[h].glob} ELSE kept
  /\ Moves(h, "replied")
  /\ UNCHANGED <<section, rules, settings, up, registry, storeLock, life, wanted>>

(* The process dies, be it in the middle of a write: calls and requests    *)
(* are gone.                                                               *)
CrashDesk ==
  /\ up /\ up' = FALSE
  /\ call' = [c \in DeskCalls |-> IF call[c].stage = "none" THEN call[c]
                                  ELSE [NewCall EXCEPT !.stage = "lost"]]
  /\ handler' = [h \in Handlers |-> IF handler[h].pc = "none" THEN handler[h]
                                    ELSE [NewRequest EXCEPT !.pc = "refused"]]
  /\ registry' = {} /\ storeLock' = NoHandler
  /\ UNCHANGED <<section, rules, settings, life, kept, wanted>>

(* It comes back: loadSettingsFile and applyBashRules read the file again, *)
(* session grants are gone.  A torn file is an error, and nothing starts.  *)
Start ==
  /\ ~up /\ up' = TRUE
  /\ life < MaxRestarts /\ life' = life + 1
  /\ settings.whole
  /\ rules' = [rules EXCEPT !.allow = settings.allow, !.session = {}]
  /\ UNCHANGED <<section, settings, call, registry, handler, storeLock, kept, wanted>>

LoopDoes(c) ==
  \/ DeskIssue(c) \/ DeskRegister(c) \/ DropRequest(c) \/ DeskAwait(c) \/ ApprovalTimeout(c)
HandlerDoes(h) ==
  \/ AllowSession(h) \/ AddLists(h) \/ AddOpens(h) \/ AddWrites(h) \/ AddBreaks(h)
  \/ AddFails(h) \/ AddApplies(h) \/ DeskRemove(h) \/ DeskRespond(h)

DeskNext ==
  \/ \E c \in DeskCalls : LoopDoes(c)
  \/ \E h \in Handlers, c \in DeskCalls : Approve(h, c)
  \/ \E h \in Handlers : HandlerDoes(h)
  \/ CrashDesk \/ Start

DeskSpec == DeskInit /\ [][DeskNext]_deskVars
-----------------------------------------------------------------------------
DeskTypeOK ==
  /\ DOMAIN rules = DOMAIN FirstRules /\ settings.whole \in BOOLEAN
  /\ section \in Sections
  /\ \A c \in DeskCalls :
       /\ call[c].stage \in {"none", "asked", "run", "denied", "timedout", "lost"}
       /\ call[c].answer \in {"none", "yes", "no"}
       /\ call[c].event => call[c].stage \in {"asked", "timedout"}
  /\ registry \subseteq DeskCalls
  /\ \A h \in Handlers :
       /\ handler[h].pc \in {"none", "refused", "session", "always", "listed", "opened",
                              "written", "granted", "removed", "replied"}
       /\ handler[h].pc \in {"listed", "opened", "written"} => storeLock = h
  /\ storeLock \in Handlers \cup {NoHandler}

(* permissionPolicy: a tool named in one list is out of the others, so     *)
(* that a default of asking for it cannot outrank a configured allow: a    *)
(* call of a denied tool neither asks nor runs whatever its command, one   *)
(* of an allowed tool never waits for a human, one of an asked tool runs   *)
(* only if a human said so.  A tool two lists name is in none of them, and *)
(* nothing is said of it.                                                  *)
OnlyIn(list, others) == list \ others

ConfiguredWins ==
  \A c \in DeskCalls :
    /\ ToolOf(c) \in OnlyIn(section.deny, section.allow \cup section.ask) =>
         call[c].stage \in {"none", "denied", "lost"}
    /\ ToolOf(c) \in OnlyIn(section.allow, section.deny \cup section.ask) /\ c \in WriteCalls =>
         call[c].stage \in {"none", "run", "lost"}
    /\ ToolOf(c) \in OnlyIn(section.ask, section.deny \cup section.allow) /\ c \in WriteCalls
         /\ call[c].stage = "run" => call[c].answer = "yes"

(* "A failed write leaves the session's rules untouched rather than        *)
(* silently diverging": whatever the live list allows for good is in the   *)
(* file, through concurrent answers, failed writes and restarts, as long   *)
(* as the file can be read at all.                                         *)
LiveRulesOnDisk == up /\ settings.whole => rules.allow \subseteq settings.allow

(* A glob reported as allowed always is in force from then on: no other    *)
(* answer's read-modify-write and no restart loses it, and it is in every  *)
(* file that can be read.                                                  *)
AllowedIsKept ==
  /\ up => kept \subseteq rules.allow
  /\ settings.whole => kept \subseteq settings.allow

(* "Session-only grants ... never reach the file": what the file gained,   *)
(* somebody asked to be kept.                                              *)
SessionStaysInMemory == settings.allow \subseteq FirstRules.allow \cup wanted

(* Not so of this code: the file is written in place, so a write that      *)
(* fails half way or a crash beside it leaves one that no start reads and  *)
(* no later answer mends.                                                  *)
FileStaysWhole == settings.whole \/ \E h \in Handlers : handler[h].pc = "opened"

(* The glob Suggest proposed covers the segment it was proposed for, so a  *)
(* chained command needs one answer for each of its segments at most.      *)
SuggestionCovers ==
  \A h \in Handlers :
    /\ handler[h].pc \in {"granted", "removed", "replied"} /\ ~Plain(h)
    /\ handler[h].proposedFor # NoGlob /\ ~handler[h].proposedFor.quoted
    => Covered(rules, handler[h].proposedFor)

(* Answers only ever loosen: while the process lives, no answer turns an   *)
(* allowed command into an asked or a denied one, or an asked one into a   *)
(* denied one.                                                             *)
AnswersOnlyLoosen ==
  [][life' = life => \A command \in Commands :
       Verdict(rules', command) <= Verdict(rules, command)]_deskVars

(* Of two plain answers to one call one is refused; as long as nobody      *)
(* answered with an allow, what the other was told is what the call got,   *)
(* unless it had timed out by then.                                        *)
ToldIsTrue ==
  \A h \in Handlers :
    LET c == handler[h].call
    IN  /\ handler[h].pc = "replied" /\ Plain(h)
        /\ \A g \in Handlers : handler[g].call = c => Plain(g)
        => \/ call[c].answer = handler[h].kind
           \/ call[c].stage = "lost"

(* What a client is told of a plain answer is what happens, what it        *)
(* allowed stays allowed and in every file that can be read, the           *)
(* configured rules win, and a suggestion covers the call it was made for. *)
DeskIsSound ==
  /\ DeskTypeOK /\ ToldIsTrue /\ ConfiguredWins /\ LiveRulesOnDisk
  /\ AllowedIsKept /\ SessionStaysInMemory /\ SuggestionCovers
=============================================================================
