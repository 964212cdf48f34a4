--------------------------- MODULE Guards_proofs ---------------------------
(***************************************************************************)
(* What guards a tool call and a model call, for any number of sessions,   *)
(* clients, goroutines, children, commands and rules: the file tools never *)
(* write over what their session has not seen, the desk asks, keeps and    *)
(* answers as its rules say and matches their patterns right, the limiter  *)
(* gives what its options allow, and the judge and the advisor gate keep   *)
(* to what they promise.                                                   *)
(***************************************************************************)
EXTENDS ApprovalDesk, FileTools, RateLimiter, SystemOne, GlobMatch,
        WellFoundedInduction, SequenceTheorems, FiniteSetTheorems, TLAPS

(* The file tools (FileTools).                                             *)

(* What a file can hold once somebody has written it.                      *)
Contents == (SUBSET Nat) \ {{}}

Writing == {"locked", "stat", "writing", "synced", "renamed"}

(* Every variable of the file tools, of its type.                          *)
FileTypes ==
  /\ content \in Contents \cup {NoFile} /\ changes \in Nat
  /\ temp \in [Sessions -> Contents \cup {NoFile, Torn}]
  /\ seen \in [Sessions -> Contents \cup {Unread}]
  /\ shown \in [Sessions -> SUBSET Contents]
  /\ op \in [Sessions -> {"none", "Read", "Edit", "Write"}]
  /\ step \in [Sessions -> Writing \cup {"idle", "read"}]
  /\ data \in [Sessions -> Contents \cup {NoFile}]
  /\ updated \in [Sessions -> Contents \cup {NoFile}]

(* Who is past a step has what the step was for: contents are the ones     *)
(* shown, a synced temporary file is whole, and while the lock is held     *)
(* nobody but a program outside changes what was read.                     *)
StepsLeave ==
  \A s \in Sessions :
    /\ seen[s] # Unread => seen[s] \in shown[s]
    /\ step[s] = "read" => data[s] \in Contents
    /\ step[s] \in Writing => updated[s] \in Contents
    /\ step[s] = "synced" => temp[s] = updated[s]
    /\ step[s] \in {"stat", "writing", "synced"} =>
         /\ content = data[s] \/ outside
         /\ data[s] = NoFile \/ data[s] \in shown[s]

FilesInv == FileTypes /\ StepsLeave /\ FilesAreSafe
-----------------------------------------------------------------------------
(* A content is none of the marks for a file, a temporary or a session     *)
(* that has none.                                                          *)
LEMMA ContentsAreProper ==
  /\ NoFile \notin Contents /\ Torn \notin Contents /\ Unread \notin Contents
  /\ NoFile # Torn /\ NoFile # Unread
  /\ {0} \in Contents
  /\ \A n \in Nat : {n + 1} \in Contents
  /\ \A c, d \in Contents : c \cup d \in Contents
<1>1. -1 \notin Nat /\ -2 \notin Nat /\ -3 \notin Nat /\ -1 # -2 /\ -1 # -3
  OBVIOUS
<1>2. ~({-1} \subseteq Nat) /\ ~({-2} \subseteq Nat) /\ ~({-3} \subseteq Nat)
  BY <1>1
<1>3. {-1} # {-2} /\ {-1} # {-3}
  BY <1>1
<1>4. \A n \in Nat : n + 1 \in Nat
  OBVIOUS
<1>5. QED
  BY <1>2, <1>3, <1>4 DEF Contents, NoFile, Torn, Unread

(* No session has anything open at the start.                              *)
LEMMA FilesBegin == FilesInit => FilesInv
<1> SUFFICES ASSUME FilesInit PROVE FilesInv
  OBVIOUS
<1> USE ContentsAreProper DEF FilesInit
<1>1. FileTypes
  BY DEF FileTypes
<1>2. StepsLeave
  BY DEF StepsLeave, Writing
<1>3. FilesAreSafe
  BY FilesAssumption DEF FilesAreSafe, FilesTypeOK, NoUpdateLost, NeverTorn, NothingReplacedUnseen
<1>4. QED
  BY <1>1, <1>2, <1>3 DEF FilesInv

(* The steps that leave the file and the lock alone.                       *)
LEMMA QuietStep ==
  ASSUME FilesInv, NEW s \in Sessions,
         ReadFile(s) \/ ReadRecord(s) \/ Load(s) \/ WriteTemp(s) \/ SyncTemp(s)
  PROVE  FilesInv'
<1> USE ContentsAreProper, FilesAssumption DEF At, Learns, Forgets, onDisk, fileHistory
<1>i. FileTypes /\ StepsLeave /\ FilesAreSafe
  BY DEF FilesInv
<1>1. CASE ReadFile(s)
  <2>1. FileTypes'
    BY <1>1, <1>i DEF ReadFile, FileTypes
  <2>2. StepsLeave'
    BY <1>1, <1>i DEF ReadFile, FileTypes, StepsLeave, Writing
  <2>3. FilesAreSafe'
    BY <1>1, <1>i DEF ReadFile, FileTypes, FilesAreSafe, FilesTypeOK, NoUpdateLost, NeverTorn,
                      NothingReplacedUnseen
  <2>4. QED
    BY <2>1, <2>2, <2>3 DEF FilesInv
<1>2. CASE ReadRecord(s)
  <2>1. FileTypes'
    BY <1>2, <1>i DEF ReadRecord, FileTypes, StepsLeave
  <2>2. StepsLeave'
    BY <1>2, <1>i DEF ReadRecord, FileTypes, StepsLeave, Writing
  <2>3. FilesAreSafe'
    BY <1>2, <1>i DEF ReadRecord, FileTypes, FilesAreSafe, FilesTypeOK, NoUpdateLost, NeverTorn,
                      NothingReplacedUnseen
  <2>4. QED
    BY <2>1, <2>2, <2>3 DEF FilesInv
<1>3. CASE Load(s)
  <2>1. FileTypes'
    BY <1>3, <1>i DEF Load, FileTypes, StepsLeave, Writing, Verified
  <2>2. StepsLeave'
    BY <1>3, <1>i DEF Load, FileTypes, StepsLeave, Writing, Verified
  <2>3. FilesAreSafe'
    BY <1>3, <1>i DEF Load, FileTypes, FilesAreSafe, FilesTypeOK, NoUpdateLost, NeverTorn,
                      NothingReplacedUnseen
  <2>4. QED
    BY <2>1, <2>2, <2>3 DEF FilesInv
<1>4. CASE WriteTemp(s) \/ SyncTemp(s)
  <2>1. FileTypes'
    BY <1>4, <1>i DEF WriteTemp, SyncTemp, FileTypes, Writing
  <2>2. StepsLeave'
    BY <1>4, <1>i DEF WriteTemp, SyncTemp, FileTypes, StepsLeave, Writing
  <2>3. FilesAreSafe'
    BY <1>4, <1>i DEF WriteTemp, SyncTemp, FileTypes, FilesAreSafe, FilesTypeOK, NoUpdateLost,
       NeverTorn,
                      NothingReplacedUnseen
  <2>4. QED
    BY <2>1, <2>2, <2>3 DEF FilesInv
<1>5. QED
  BY <1>1, <1>2, <1>3, <1>4

(* The steps that take the lock or give it back.                           *)
LEMMA LockStep ==
  ASSUME FilesInv, NEW s \in Sessions,
         (\E tool \in {"Edit", "Write"} : Lock(s, tool)) \/ Refused(s) \/ WriteFails(s) \/ WriteRecord(s)
  PROVE  FilesInv'
<1> USE ContentsAreProper, FilesAssumption DEF At, Learns, Forgets, onDisk, fileHistory, Unlock
<1>i. FileTypes /\ StepsLeave /\ FilesAreSafe
  BY DEF FilesInv
<1>1. ASSUME NEW tool \in {"Edit", "Write"}, Lock(s, tool) PROVE FilesInv'
  <2>1. FileTypes'
    BY <1>1, <1>i DEF Lock, FileTypes, Writing
  <2>2. StepsLeave'
    BY <1>1, <1>i DEF Lock, FileTypes, StepsLeave, Writing
  <2>3. FilesAreSafe'
    BY <1>1, <1>i DEF Lock, FileTypes, FilesAreSafe, FilesTypeOK, NoUpdateLost, NeverTorn,
                      NothingReplacedUnseen
  <2>4. QED
    BY <2>1, <2>2, <2>3 DEF FilesInv
<1>2. CASE Refused(s) \/ WriteFails(s)
  <2>1. FileTypes'
    BY <1>2, <1>i DEF Refused, WriteFails, FileTypes, Writing
  <2>2. StepsLeave'
    BY <1>2, <1>i DEF Refused, WriteFails, FileTypes, StepsLeave, Writing
  <2>3. FilesAreSafe'
    BY <1>2, <1>i DEF Refused, WriteFails, FileTypes, FilesAreSafe, FilesTypeOK, NoUpdateLost,
                      NeverTorn, NothingReplacedUnseen
  <2>4. QED
    BY <2>1, <2>2, <2>3 DEF FilesInv
<1>3. CASE WriteRecord(s)
  <2>1. FileTypes'
    BY <1>3, <1>i DEF WriteRecord, FileTypes, StepsLeave, Writing
  <2>2. StepsLeave'
    BY <1>3, <1>i DEF WriteRecord, FileTypes, StepsLeave, Writing
  <2>3. FilesAreSafe'
    BY <1>3, <1>i DEF WriteRecord, FileTypes, FilesAreSafe, FilesTypeOK, NoUpdateLost, NeverTorn,
                      NothingReplacedUnseen
  <2>4. QED
    BY <2>1, <2>2, <2>3 DEF FilesInv
<1>4. QED
  BY <1>1, <1>2, <1>3

(* The steps that change the file, and the end of the process.             *)
LEMMA DiskStep ==
  ASSUME FilesInv, (\E s \in Sessions : RenameTemp(s)) \/ Outsider \/ CrashTools
  PROVE  FilesInv'
<1> USE ContentsAreProper, FilesAssumption DEF At
<1>i. FileTypes /\ StepsLeave /\ FilesAreSafe
  BY DEF FilesInv
<1>1. ASSUME NEW s \in Sessions, RenameTemp(s) PROVE FilesInv'
  <2>0. /\ step[s] = "synced" /\ owner = s
        /\ temp[s] \in Contents
        /\ \A r \in Sessions : r # s => step[r] \notin Writing
    BY <1>1, <1>i DEF RenameTemp, FileTypes, StepsLeave, FilesAreSafe, FilesTypeOK, Writing
  <2>1. FileTypes'
    BY <1>1, <1>i, <2>0 DEF RenameTemp, FileTypes, Writing
  <2>2. StepsLeave'
    BY <1>1, <1>i, <2>0 DEF RenameTemp, FileTypes, StepsLeave, Writing
  <2>3. FilesTypeOK' /\ NeverTorn'
    BY <1>1, <1>i, <2>0 DEF RenameTemp, FileTypes, FilesAreSafe, FilesTypeOK, NeverTorn
  <2>4. NoUpdateLost' /\ NothingReplacedUnseen'
    BY <1>1, <1>i, <2>0 DEF RenameTemp, StepsLeave, FilesAreSafe, NoUpdateLost,
       NothingReplacedUnseen
  <2>5. QED
    BY <2>1, <2>2, <2>3, <2>4 DEF FilesInv, FilesAreSafe
<1>2. CASE Outsider
  <2>0. content \in Contents /\ changes \in Nat /\ {changes + 1} \in Contents
    BY <1>2, <1>i DEF Outsider, FileTypes
  <2>1. FileTypes'
    BY <1>2, <1>i, <2>0 DEF Outsider, FileTypes
  <2>2. StepsLeave'
    BY <1>2, <1>i DEF Outsider, FileTypes, StepsLeave
  <2>3. FilesAreSafe'
    BY <1>2, <1>i, <2>1 DEF Outsider, FileTypes, FilesAreSafe, FilesTypeOK, NoUpdateLost,
       NeverTorn,
                      NothingReplacedUnseen
  <2>4. QED
    BY <2>1, <2>2, <2>3 DEF FilesInv
<1>3. CASE CrashTools
  <2>1. FileTypes'
    BY <1>3, <1>i DEF CrashTools, FileTypes
  <2>2. StepsLeave'
    BY <1>3, <1>i DEF CrashTools, FileTypes, StepsLeave, Writing
  <2>3. FilesAreSafe'
    BY <1>3, <1>i DEF CrashTools, FilesAreSafe, FilesTypeOK, NoUpdateLost, NeverTorn,
                      NothingReplacedUnseen
  <2>4. QED
    BY <2>1, <2>2, <2>3 DEF FilesInv
<1>4. QED
  BY <1>1, <1>2, <1>3

(* A file is whole, holds every update and is only replaced by who has     *)
(* seen what it held, for any number of sessions, changes and crashes.     *)
THEOREM FilesStaySafe == FilesSpec => []FilesAreSafe
<1>1. FilesInv /\ [FilesNext]_fileVars => FilesInv'
  <2> SUFFICES ASSUME FilesInv, [FilesNext]_fileVars PROVE FilesInv'
    OBVIOUS
  <2>1. ASSUME NEW s \in Sessions,
               \/ ReadFile(s) \/ ReadRecord(s) \/ Lock(s, "Edit") \/ Lock(s, "Write")
               \/ Refused(s) \/ Load(s) \/ WriteTemp(s) \/ SyncTemp(s) \/ WriteFails(s)
               \/ RenameTemp(s) \/ WriteRecord(s)
        PROVE  FilesInv'
    BY <2>1, QuietStep, LockStep, DiskStep
  <2>2. CASE Outsider \/ CrashTools
    BY <2>2, DiskStep
  <2>3. CASE UNCHANGED fileVars
    BY <2>3 DEF fileVars, FilesInv, FileTypes, StepsLeave, FilesAreSafe, FilesTypeOK,
       NoUpdateLost,
                NeverTorn, NothingReplacedUnseen
  <2>4. QED
    BY <2>1, <2>2, <2>3 DEF FilesNext
<1>2. FilesInv => FilesAreSafe
  BY DEF FilesInv
<1>3. QED
  BY FilesBegin, <1>1, <1>2, PTL DEF FilesSpec
-----------------------------------------------------------------------------
(* The desk (ApprovalDesk).                                                *)

(* A set of numbers with a member has a least one.                         *)
LEMMA LeastNat ==
  ASSUME NEW T \in SUBSET Nat, T # {}
  PROVE  \E x \in T : \A y \in T : x <= y
<1> DEFINE R == OpToRel(<, Nat)
<1>1. IsWellFoundedOn(R, Nat)
  BY NatLessThanWellFounded
<1>2. \E x \in T : \A y \in T : ~ (<<y, x>> \in R)
  <2> HIDE DEF R
  <2>1. QED
    BY <1>1, WFMin
<1>3. \A x, y \in Nat : y < x => <<y, x>> \in R
  BY DEF OpToRel
<1> HIDE DEF R
<1>4. PICK x \in T : \A y \in T : ~ (<<y, x>> \in R)
  BY <1>2
<1>5. \A y \in T : x \in Nat /\ y \in Nat /\ ~ (y < x)
  BY <1>3, <1>4
<1>6. QED
  BY <1>5

(* What FirstLiteral and FirstUncovered choose is a place of the sequence. *)
LEMMA FirstPlace ==
  ASSUME NEW s, IsSequence(s), NEW P \in SUBSET DOMAIN s, P # {}
  PROVE  (CHOOSE i \in P : \A j \in P : i <= j) \in P
<1>1. DOMAIN s \subseteq Nat
  BY DEF IsSequence
<1>2. QED
  BY <1>1, LeastNat

(* A pattern spans a segment: it matches, and names the redirect if there is. *)
Spans(pattern, seg) ==
  /\ Matches(pattern, seg)
  /\ WritesViaRedirect(seg) => SpellsRedirect(pattern)

(* A glob in force covers the segments it spans.                           *)
LEMMA SpannedIsCovered ==
  ASSUME NEW r, NEW seg, NEW pattern \in RulesInForce(r), Spans(pattern, seg)
  PROVE  Covered(r, seg)
BY DEF Spans, Covered

(* The pattern proposed for a segment spans it.                               *)
LEMMA GlobForSpans ==
  ASSUME NEW seg, IsSequence(seg.writes), GlobFor(seg) # NoGlob, ~seg.quoted
  PROVE  Spans(GlobFor(seg), seg)
<1>1. CASE WritesViaRedirect(seg)
  <2> DEFINE literal == {i \in DOMAIN seg.writes : seg.writes[i] # Runtime}
  <2>1. /\ GlobFor(seg) = RedirectGlob(seg.bin, FirstLiteral(seg.writes))
        /\ FirstLiteral(seg.writes) # Runtime
    BY <1>1 DEF GlobFor, GlobForRedirect
  <2>2. literal # {}
    BY <2>1 DEF FirstLiteral
  <2>3. (CHOOSE i \in literal : \A j \in literal : i <= j) \in literal
    BY <2>2, FirstPlace
  <2>3a. FirstLiteral(seg.writes) = seg.writes[CHOOSE i \in literal : \A j \in literal : i <= j]
    BY <2>2 DEF FirstLiteral
  <2>4. \E i \in DOMAIN seg.writes : seg.writes[i] = FirstLiteral(seg.writes)
    BY <2>3, <2>3a
  <2>5. QED
    BY <2>1, <2>4 DEF Spans, Matches, SpellsRedirect, RedirectGlob
<1>2. CASE ~WritesViaRedirect(seg) /\ IsTee(seg)
  BY <1>2 DEF GlobFor, Spans, Matches, ExactGlob
<1>3. CASE ~WritesViaRedirect(seg) /\ ~IsTee(seg)
  <2>1. GlobFor(seg) \in {SubcommandGlob(seg.bin, seg.next), BinaryGlob(seg.bin)}
    BY <1>3 DEF GlobFor, GlobForBinary
  <2>2. QED
    BY <1>3, <2>1 DEF Spans, Matches, SubcommandGlob, BinaryGlob
<1>4. QED
  BY <1>1, <1>2, <1>3

(* What Suggest proposes is the pattern of a segment of the command.          *)
LEMMA SuggestFinds ==
  ASSUME NEW r, NEW command, IsSequence(command.segs), Suggest(r, command) # NoGlob
  PROVE  /\ FirstUncovered(r, command) \in DOMAIN command.segs
         /\ Suggest(r, command) = GlobFor(command.segs[FirstUncovered(r, command)])
<1> DEFINE uncovered == {i \in DOMAIN command.segs : ~Covered(r, command.segs[i])}
<1>1. /\ FirstUncovered(r, command) # 0
      /\ Suggest(r, command) = GlobFor(command.segs[FirstUncovered(r, command)])
  BY DEF Suggest
<1>2. uncovered # {}
  BY <1>1 DEF FirstUncovered
<1>3. (CHOOSE i \in uncovered : \A j \in uncovered : i <= j) \in uncovered
  BY <1>2, FirstPlace
<1>4. QED
  BY <1>1, <1>2, <1>3 DEF FirstUncovered

(* Rules that allow more never judge a command more strictly.              *)
LEMMA MoreRulesLoosen ==
  ASSUME NEW r, NEW s, RulesInForce(r) \subseteq RulesInForce(s),
         s.deny = r.deny, s.catAllow = r.catAllow, s.catDeny = r.catDeny
  PROVE  /\ \A seg : Covered(r, seg) => Covered(s, seg)
         /\ \A command : Verdict(s, command) <= Verdict(r, command)
<1>1. \A seg : Covered(r, seg) => Covered(s, seg)
  BY DEF Covered
<1>2. \A seg : Denied(s, seg) => Denied(r, seg)
  BY DEF Denied, GlobAllowed
<1>3. ASSUME NEW command PROVE Verdict(s, command) <= Verdict(r, command)
  BY <1>1, <1>2 DEF Verdict, DecisionAllow, DecisionAskUser, DecisionDeny, Silent
<1>4. QED
  BY <1>1, <1>3
-----------------------------------------------------------------------------
Segments == UNION {{command.segs[i] : i \in DOMAIN command.segs} : command \in Commands}
Globs    == {NoGlob} \cup EditedGlobs \cup FirstRules.allow \cup {GlobFor(seg) : seg \in Segments}

CallRecords ==
  [stage : {"none", "asked", "run", "denied", "timedout", "lost"},
   command : Commands \cup {Unparsed, Splits(<<>>)}, event : BOOLEAN, answer : {"none", "yes", "no"}]

RequestRecords ==
  [pc : {"none", "refused", "session", "always", "listed", "opened", "written",
         "granted", "removed", "replied"},
   call : DeskCalls \cup {NoHandler}, kind : {"yes", "no", "always", "session"}, glob : Globs,
   proposedFor : Segments \cup {NoGlob}, lists : SUBSET Globs]

DeskShape ==
  /\ section \in Sections /\ life \in Nat /\ up \in BOOLEAN
  /\ IsRules(rules) /\ rules.deny = FirstRules.deny
  /\ rules.catAllow = FirstRules.catAllow /\ rules.catDeny = FirstRules.catDeny
  /\ rules.allow \subseteq Globs /\ settings \in [whole : BOOLEAN, allow : SUBSET Globs]
  /\ call \in [DeskCalls -> CallRecords] /\ handler \in [Handlers -> RequestRecords]
  /\ registry \subseteq DeskCalls /\ storeLock \in Handlers \cup {NoHandler}

(* Who holds the lock of the store has the list that is in memory, what an *)
(* allow answer was given for is where it was to go, and nobody is at work *)
(* in a process that is down.                                              *)
Settled == {"granted", "removed", "replied"}

LiveRulesAsked == rules.allow \subseteq FirstRules.allow \cup wanted

StoreInv ==
  /\ \A h \in Handlers :
       /\ handler[h].pc \notin {"none", "refused"} => up
       /\ handler[h].pc \in {"always", "listed", "opened", "written"} => handler[h].kind = "always"
       /\ handler[h].pc = "session" => handler[h].kind = "session"
       /\ handler[h].pc \in {"listed", "opened", "written"} => storeLock = h
       /\ handler[h].pc \in {"listed", "opened"} => handler[h].lists = rules.allow
       /\ handler[h].pc = "written" => handler[h].glob \in settings.allow
       /\ handler[h].pc # "none" /\ handler[h].kind = "always" => handler[h].glob \in wanted
       /\ handler[h].pc \in Settled /\ handler[h].kind = "always" => handler[h].glob \in rules.allow
       /\ handler[h].pc \in Settled /\ handler[h].kind = "session" =>
            handler[h].glob \in RulesInForce(rules)
       /\ handler[h].proposedFor # NoGlob /\ ~handler[h].proposedFor.quoted =>
            Spans(handler[h].glob, handler[h].proposedFor)
  /\ LiveRulesOnDisk /\ AllowedIsKept /\ SessionStaysInMemory /\ LiveRulesAsked

(* A call can be answered once its event was taken, and only one plain     *)
(* answer finds its entry.                                                 *)
Unanswered(c) ==
  /\ c \notin registry /\ call[c].answer = "none"
  /\ \A h \in Handlers : handler[h].call = c => handler[h].pc \in {"none", "refused"}

Answers(h) == Plain(h) /\ handler[h].pc \in {"removed", "replied"}

AnswerInv ==
  /\ \A c \in DeskCalls :
       /\ call[c].event => call[c].stage \in {"asked", "timedout"} /\ Unanswered(c)
       /\ call[c].stage = "none" => Unanswered(c)
       /\ call[c].answer # "none" => \E h \in Handlers : handler[h].call = c /\ handler[h].pc = "replied"
       /\ c \in registry => \A h \in Handlers : handler[h].call = c => ~Answers(h)
  /\ \A h \in Handlers :
       /\ handler[h].pc \notin {"none", "refused"} => handler[h].call \in DeskCalls
       /\ handler[h].pc = "none" => Plain(h)
       /\ Plain(h) => handler[h].pc \in {"none", "refused", "removed", "replied"}
       /\ \A g \in Handlers : Answers(h) /\ Answers(g) /\ handler[h].call = handler[g].call => h = g
  /\ ToldIsTrue

DeskInv == DeskShape /\ StoreInv /\ AnswerInv /\ ConfiguredWins
-----------------------------------------------------------------------------
(* What the invariant says of the desk.                                    *)
LEMMA DeskInvIsSound == DeskInv => DeskIsSound
<1> SUFFICES ASSUME DeskInv PROVE DeskIsSound
  OBVIOUS
<1>i. DeskShape /\ StoreInv /\ AnswerInv /\ ConfiguredWins
  BY DEF DeskInv
<1>1. DeskTypeOK
  <2>1. DOMAIN rules = DOMAIN FirstRules
    BY <1>i, DeskAssumption DEF DeskShape, IsRules
  <2>2. \A c \in DeskCalls : call[c] \in CallRecords
    BY <1>i DEF DeskShape
  <2>3. \A h \in Handlers : handler[h] \in RequestRecords
    BY <1>i DEF DeskShape
  <2>4. QED
    BY <1>i, <2>1, <2>2, <2>3 DEF DeskTypeOK, DeskShape, StoreInv, AnswerInv, CallRecords,
       RequestRecords
<1>2. SuggestionCovers
  <2> SUFFICES ASSUME NEW h \in Handlers, handler[h].pc \in Settled, ~Plain(h),
                      handler[h].proposedFor # NoGlob, ~handler[h].proposedFor.quoted
               PROVE  Covered(rules, handler[h].proposedFor)
    BY DEF SuggestionCovers, Settled
  <2>1. handler[h].kind \in {"always", "session"}
    BY <1>i DEF DeskShape, RequestRecords, Plain
  <2>2. handler[h].glob \in RulesInForce(rules)
    BY <1>i, <2>1 DEF StoreInv, RulesInForce
  <2>3. Spans(handler[h].glob, handler[h].proposedFor)
    BY <1>i DEF StoreInv
  <2>4. QED
    BY <2>2, <2>3, SpannedIsCovered
<1>3. QED
  BY <1>i, <1>1, <1>2 DEF DeskIsSound, StoreInv, AnswerInv

(* Nothing is asked or answered at the start.                              *)
LEMMA DeskBegins == DeskInit => DeskInv
<1> SUFFICES ASSUME DeskInit PROVE DeskInv
  OBVIOUS
<1>c. \A c \in DeskCalls : call[c] = NewCall
  BY DEF DeskInit
<1>h. \A h \in Handlers : handler[h] = NewRequest
  BY DEF DeskInit
<1>r. NewRequest.pc = "none" /\ NewRequest.kind = "no" /\ NewRequest.proposedFor = NoGlob
  BY DEF NewRequest
<1>1. DeskShape
  <2>1. NewCall \in CallRecords
    BY DEF NewCall, CallRecords
  <2>2. NewRequest \in RequestRecords
    BY DEF NewRequest, RequestRecords, Globs
  <2>3. QED
    BY <2>1, <2>2, DeskAssumption DEF DeskInit, DeskShape, Globs, WholeFile
<1>2. StoreInv
  BY <1>h, <1>r DEF DeskInit, StoreInv, LiveRulesOnDisk, AllowedIsKept, SessionStaysInMemory, LiveRulesAsked,
     Settled, WholeFile
<1>3. AnswerInv
  <2>1. NewCall.stage = "none" /\ ~NewCall.event /\ NewCall.answer = "none"
    BY DEF NewCall
  <2>2. ToldIsTrue
    BY <1>h, <1>r DEF ToldIsTrue
  <2>3. registry = {}
    BY DEF DeskInit
  <2>4. QED
    BY <1>c, <1>h, <1>r, <2>1, <2>2, <2>3 DEF AnswerInv, Unanswered, Answers, Plain
<1>4. ConfiguredWins
  BY <1>c DEF ConfiguredWins, NewCall
<1>5. QED
  BY <1>1, <1>2, <1>3, <1>4 DEF DeskInv
-----------------------------------------------------------------------------
(* A name in one list of the section only gets that list's decision.       *)
LEMMA ConfiguredDecides ==
  ASSUME NEW c \in DeskCalls, NEW command
  PROVE  /\ ToolOf(c) \in OnlyIn(section.deny, section.allow \cup section.ask) =>
              DeskJudged(c, command) = DecisionDeny
         /\ ToolOf(c) \in OnlyIn(section.allow, section.deny \cup section.ask) /\ c \in WriteCalls =>
              DeskJudged(c, command) = DecisionAllow
         /\ ToolOf(c) \in OnlyIn(section.ask, section.deny \cup section.allow) /\ c \in WriteCalls =>
              DeskJudged(c, command) = DecisionAskUser
<1> DEFINE named == NameDecision(PermissionPolicy(section), ToolOf(c), "")
<1>1. /\ ToolOf(c) \in OnlyIn(section.deny, section.allow \cup section.ask) => named = DecisionDeny
      /\ ToolOf(c) \in OnlyIn(section.allow, section.deny \cup section.ask) => named = DecisionAllow
      /\ ToolOf(c) \in OnlyIn(section.ask, section.deny \cup section.allow) => named = DecisionAskUser
  BY DEF OnlyIn, NameDecision, PermissionPolicy, Merge, DefaultPolicy
<1>2. c \in WriteCalls => ToolOf(c) # "bash"
  BY DEF ToolOf
<1>3. named = DecisionDeny \/ ToolOf(c) # "bash" =>
        DeskJudged(c, command) = IF named > DecisionAllow THEN named ELSE DecisionAllow
  BY DEF DeskJudged, OnToolCall
<1>4. 2 > 0 /\ 1 > 0 /\ ~(0 > 0)
  OBVIOUS
<1> HIDE DEF named
<1>5. QED
  BY <1>1, <1>2, <1>3, <1>4 DEF DecisionAllow, DecisionAskUser, DecisionDeny

(* A step of the loop changes one call and perhaps the registry.           *)
LEMMA LoopStep ==
  ASSUME DeskInv, NEW c \in DeskCalls, LoopDoes(c)
  PROVE  DeskInv'
<1> USE DEF deskHistory
<1>i. DeskShape /\ StoreInv /\ AnswerInv /\ ConfiguredWins
  BY DEF DeskInv
<1>u. UNCHANGED <<rules, settings, up, handler, storeLock, section, life, kept, wanted>>
  BY DEF LoopDoes, DeskIssue, DeskRegister, DropRequest, DeskAwait, ApprovalTimeout
<1>s. StoreInv'
  BY <1>i, <1>u DEF StoreInv, LiveRulesOnDisk, AllowedIsKept, SessionStaysInMemory, LiveRulesAsked
<1>c. call \in [DeskCalls -> CallRecords] /\ call[c] \in CallRecords
  BY <1>i DEF DeskShape
<1>1. ASSUME /\ registry' \subseteq registry \cup {c}
             /\ registry' # registry => call[c].event
             /\ call' = [call EXCEPT ![c] = call'[c]] /\ call'[c] \in CallRecords
             /\ call'[c].answer = call[c].answer
             /\ call'[c].stage # "none"
             /\ call[c].stage = "lost" => call'[c].stage = "lost"
             /\ call'[c].event => /\ call'[c].stage \in {"asked", "timedout"} /\ registry' = registry
                                  /\ call[c].event \/ call[c].stage = "none"
             /\ ConfiguredWins'
      PROVE  DeskInv'
  <2>1. DeskShape'
    BY <1>i, <1>u, <1>c, <1>1 DEF DeskShape
  <2>2. \A d \in DeskCalls : d # c => call'[d] = call[d] /\ (d \in registry' => d \in registry)
    BY <1>c, <1>1
  <2>3. AnswerInv'
    <3>1. ToldIsTrue'
      BY <1>i, <1>u, <1>1, <2>2 DEF ToldIsTrue, AnswerInv, Plain
    <3>2. QED
      BY <1>i, <1>u, <1>1, <2>2, <3>1 DEF AnswerInv, Unanswered, Answers, Plain
  <2>4. QED
    BY <1>1, <1>s, <2>1, <2>3 DEF DeskInv
<1>2. CASE DeskIssue(c)
  <2>1. PICK command \in Commands \cup {Splits(<<>>)} :
          call' = [call EXCEPT ![c] =
            [@ EXCEPT !.command = command,
                      !.event = DeskJudged(c, command) = DecisionAskUser,
                      !.stage = CASE DeskJudged(c, command) = DecisionAllow   -> "run"
                                  [] DeskJudged(c, command) = DecisionAskUser -> "asked"
                                  [] OTHER                        -> "denied"]]
    BY <1>2 DEF DeskIssue
  <2> DEFINE asks == DeskJudged(c, command) = DecisionAskUser
  <2>1a. asks \in BOOLEAN
    OBVIOUS
  <2>2. /\ call'[c] \in CallRecords /\ call'[c].answer = call[c].answer
        /\ call' = [call EXCEPT ![c] = call'[c]]
        /\ call'[c].event = asks
        /\ call'[c].stage = CASE DeskJudged(c, command) = DecisionAllow   -> "run"
                              [] DeskJudged(c, command) = DecisionAskUser -> "asked"
                              [] OTHER                        -> "denied"
    <3> HIDE DEF asks
    <3>1. call'[c] = [call[c] EXCEPT !.command = command, !.event = asks,
                        !.stage = CASE DeskJudged(c, command) = DecisionAllow   -> "run"
                              [] DeskJudged(c, command) = DecisionAskUser -> "asked"
                              [] OTHER                        -> "denied"]
      BY <1>c, <2>1 DEF asks
    <3>2. QED
      BY <1>c, <2>1, <2>1a, <3>1 DEF CallRecords
  <2> DEFINE verdict == DeskJudged(c, command)
  <2>d. DecisionAllow # DecisionAskUser /\ DecisionAllow # DecisionDeny /\ DecisionAskUser # DecisionDeny
    BY DEF DecisionAllow, DecisionAskUser, DecisionDeny
  <2>2a. /\ call'[c].stage \in {"run", "asked", "denied"}
         /\ call'[c].stage = "run" <=> verdict = DecisionAllow
         /\ call'[c].stage = "asked" <=> verdict = DecisionAskUser
         /\ call'[c].event <=> verdict = DecisionAskUser
    <3> HIDE DEF verdict
    <3>1. call'[c].stage = CASE verdict = DecisionAllow   -> "run"
                             [] verdict = DecisionAskUser -> "asked"
                             [] OTHER                     -> "denied"
      BY <2>2 DEF verdict
    <3>2. call'[c].event <=> verdict = DecisionAskUser
      BY <2>2 DEF verdict
    <3>3. QED
      BY <3>1, <3>2, <2>d
  <2>3. call[c].stage = "none" /\ registry' = registry
    BY <1>2 DEF DeskIssue
  <2>4. ConfiguredWins'
    <3>1. ASSUME NEW d \in DeskCalls, d # c PROVE call'[d] = call[d]
      BY <1>c, <2>2, <3>1
    <3>2. QED
      BY <1>i, <1>u, <2>2a, <2>d, <3>1, ConfiguredDecides DEF ConfiguredWins
  <2>5. QED
    BY <1>1, <2>2, <2>2a, <2>3, <2>4
<1>3. CASE DeskRegister(c) \/ DropRequest(c)
  <2>0. /\ call' = [call EXCEPT ![c].event = FALSE] /\ call[c].event
        /\ registry' \in {registry, registry \cup {c}}
    BY <1>3 DEF DeskRegister, DropRequest
  <2>1. /\ call'[c] \in CallRecords /\ call' = [call EXCEPT ![c] = call'[c]]
        /\ call'[c].answer = call[c].answer /\ call'[c].stage = call[c].stage
        /\ call'[c].event = FALSE
    BY <2>0, <1>c DEF CallRecords
  <2>2. call[c].stage # "none"
    BY <1>i, <2>0 DEF AnswerInv
  <2>3. ConfiguredWins'
    BY <1>i, <1>u, <1>c, <2>1 DEF ConfiguredWins
  <2>4. QED
    BY <1>1, <2>0, <2>1, <2>2, <2>3
<1>4. CASE DeskAwait(c) \/ ApprovalTimeout(c)
  <2>1. /\ call'[c] \in CallRecords /\ call' = [call EXCEPT ![c] = call'[c]]
        /\ call'[c].answer = call[c].answer /\ call'[c].event = call[c].event
        /\ registry' = registry /\ call[c].stage = "asked"
        /\ \/ call'[c].stage = "timedout"
           \/ call'[c].stage \in {"run", "denied"} /\ call[c].answer # "none"
        /\ call'[c].stage = "run" => call[c].answer = "yes"
    BY <1>4, <1>c DEF DeskAwait, ApprovalTimeout, CallRecords
  <2>2. call[c].event => call'[c].stage = "timedout"
    BY <1>i, <2>1 DEF AnswerInv, Unanswered
  <2>3. ConfiguredWins'
    BY <1>i, <1>u, <1>c, <2>1 DEF ConfiguredWins
  <2>4. QED
    BY <1>1, <2>1, <2>2, <2>3
<1>5. QED
  BY <1>2, <1>3, <1>4 DEF LoopDoes

(* The pattern a request comes with, and the segment it was proposed for.     *)
LEMMA ProposalSpans ==
  ASSUME DeskInv, NEW c \in DeskCalls, Suggest(rules, call[c].command) # NoGlob
  PROVE  LET pattern == Suggest(rules, call[c].command)
             seg  == call[c].command.segs[FirstUncovered(rules, call[c].command)]
         IN  pattern \in Globs /\ seg \in Segments /\ (~seg.quoted => Spans(pattern, seg))
<1> DEFINE command == call[c].command
<1> DEFINE seg == command.segs[FirstUncovered(rules, command)]
<1>1. command \in Commands \cup {Unparsed, Splits(<<>>)}
  BY DEF DeskInv, DeskShape, CallRecords
<1>2. Suggest(rules, Unparsed) = NoGlob
  BY DEF Suggest, Unparsed
<1>3. Suggest(rules, Splits(<<>>)) = NoGlob
  <2>1. FirstUncovered(rules, Splits(<<>>)) = 0
    <3>1. DOMAIN Splits(<<>>).segs = {}
      BY DEF Splits
    <3>2. QED
      BY <3>1 DEF FirstUncovered
  <2>2. QED
    BY <2>1 DEF Suggest
<1>4. command \in Commands
  BY <1>1, <1>2, <1>3
<1>5. /\ FirstUncovered(rules, command) \in DOMAIN command.segs
      /\ Suggest(rules, command) = GlobFor(seg)
  BY <1>4, SuggestFinds, DeskAssumption
<1>6. seg \in Segments /\ IsSequence(seg.writes)
  BY <1>4, <1>5, DeskAssumption DEF Segments
<1>7. GlobFor(seg) \in Globs
  BY <1>6 DEF Globs
<1>8. ~seg.quoted => Spans(GlobFor(seg), seg)
  BY <1>5, <1>6, GlobForSpans
<1>9. QED
  BY <1>5, <1>6, <1>7, <1>8

(* A request looks its call up, and leaves with a suggestion, an edited    *)
(* glob or an error.                                                       *)
LEMMA ApproveStep ==
  ASSUME DeskInv, NEW h \in Handlers, NEW c \in DeskCalls, Approve(h, c)
  PROVE  DeskInv'
<1>i. DeskShape /\ StoreInv /\ AnswerInv /\ ConfiguredWins
  BY DEF DeskInv
<1>u. UNCHANGED <<section, rules, settings, up, call, storeLock, life, kept>>
  BY DEF Approve
<1>f. handler \in [Handlers -> RequestRecords] /\ handler[h] \in RequestRecords
  BY <1>i DEF DeskShape
<1>1. PICK kind \in {"yes", "no", "always", "session"}, pattern \in Globs,
           proposedFor \in Segments \cup {NoGlob} :
        /\ TakePending(h, c, kind, pattern, proposedFor)
        /\ proposedFor # NoGlob /\ ~proposedFor.quoted => Spans(pattern, proposedFor)
  <2>1. CASE \E kind \in {"yes", "no"} : TakePending(h, c, kind, NoGlob, NoGlob)
    BY <2>1 DEF Globs
  <2>2. ASSUME NEW kind \in {"always", "session"}, NEW pattern \in EditedGlobs,
               TakePending(h, c, kind, pattern, NoGlob)
        PROVE  \E k \in {"yes", "no", "always", "session"}, g \in Globs,
                  p \in Segments \cup {NoGlob} :
                 TakePending(h, c, k, g, p) /\ (p # NoGlob /\ ~p.quoted => Spans(g, p))
    BY <2>2 DEF Globs
  <2>3. ASSUME NEW kind \in {"always", "session"},
               Suggest(rules, call[c].command) # NoGlob,
               TakePending(h, c, kind, Suggest(rules, call[c].command),
                 call[c].command.segs[FirstUncovered(rules, call[c].command)])
        PROVE  \E k \in {"yes", "no", "always", "session"}, g \in Globs,
                  p \in Segments \cup {NoGlob} :
                 TakePending(h, c, k, g, p) /\ (p # NoGlob /\ ~p.quoted => Spans(g, p))
    BY <2>3, ProposalSpans
  <2>4. QED
    BY <2>1, <2>2, <2>3 DEF Approve
<1>2. /\ handler' = [handler EXCEPT ![h] = handler'[h]]
      /\ handler'[h] \in RequestRecords
      /\ handler'[h].pc = IF c \notin registry \/ (kind \in {"always", "session"} /\ ToolOf(c) # "bash")
                          THEN "refused" ELSE IF kind \in {"yes", "no"} THEN "removed" ELSE kind
      /\ handler'[h].call = c /\ handler'[h].kind = kind /\ handler'[h].glob = pattern
      /\ handler'[h].proposedFor = proposedFor
  BY <1>f, <1>1 DEF TakePending, Found, RequestRecords
<1>3. \A g \in Handlers : g # h => handler'[g] = handler[g]
  BY <1>f, <1>2
<1>4. /\ up /\ handler[h].pc = "none" /\ call[c].stage # "none"
      /\ registry' = IF kind \in {"yes", "no"} THEN registry \ {c} ELSE registry
      /\ wanted' = wanted \cup {g \in {handler'[h].glob} : handler'[h].kind = "always"}
  BY <1>1 DEF Approve, TakePending
<1>5. DeskShape'
  BY <1>i, <1>u, <1>f, <1>2, <1>4 DEF DeskShape
<1>6. StoreInv'
  <2>1. kind = "always" => pattern \in wanted'
    BY <1>2, <1>4
  <2>2. wanted \subseteq wanted'
    BY <1>4
  <2>3. SessionStaysInMemory' /\ LiveRulesAsked' /\ LiveRulesOnDisk' /\ AllowedIsKept'
    BY <1>i, <1>u, <2>2 DEF StoreInv, LiveRulesOnDisk, AllowedIsKept, SessionStaysInMemory, LiveRulesAsked
  <2>4. ASSUME NEW g \in Handlers PROVE
         /\ handler'[g].pc \notin {"none", "refused"} => up'
         /\ handler'[g].pc \in {"always", "listed", "opened", "written"} => handler'[g].kind = "always"
         /\ handler'[g].pc = "session" => handler'[g].kind = "session"
         /\ handler'[g].pc \in {"listed", "opened", "written"} => storeLock' = g
         /\ handler'[g].pc \in {"listed", "opened"} => handler'[g].lists = rules'.allow
         /\ handler'[g].pc = "written" => handler'[g].glob \in settings'.allow
         /\ handler'[g].pc # "none" /\ handler'[g].kind = "always" => handler'[g].glob \in wanted'
         /\ handler'[g].pc \in Settled /\ handler'[g].kind = "always" => handler'[g].glob \in rules'.allow
         /\ handler'[g].pc \in Settled /\ handler'[g].kind = "session" =>
              handler'[g].glob \in RulesInForce(rules')
         /\ handler'[g].proposedFor # NoGlob /\ ~handler'[g].proposedFor.quoted =>
              Spans(handler'[g].glob, handler'[g].proposedFor)
    <3>1. CASE g = h
      BY <3>1, <1>u, <1>1, <1>2, <1>4, <2>1 DEF Settled
    <3>2. CASE g # h
      BY <3>2, <1>i, <1>u, <1>3, <2>2 DEF StoreInv
    <3>3. QED
      BY <3>1, <3>2
  <2>5. QED
    BY <2>3, <2>4 DEF StoreInv
<1>7. AnswerInv'
  <2>1. /\ \A d \in DeskCalls : d \in registry' => d \in registry
        /\ Plain(h) /\ ~Answers(h)
        /\ Answers(h)' => c \in registry /\ c \notin registry'
        /\ handler'[h].call = c
        /\ c \notin registry => handler'[h].pc = "refused"
    BY <1>i, <1>2, <1>4 DEF AnswerInv, Answers, Plain
  <2>2. \A g \in Handlers : g # h => (Plain(g)' <=> Plain(g)) /\ (Answers(g)' <=> Answers(g))
    BY <1>3 DEF Plain, Answers
  <2>3. ToldIsTrue'
    <3> SUFFICES ASSUME NEW g \in Handlers, handler'[g].pc = "replied", Plain(g)',
                        \A k \in Handlers : handler'[k].call = handler'[g].call => Plain(k)'
                 PROVE  call'[handler'[g].call].answer = handler'[g].kind
                          \/ call'[handler'[g].call].stage = "lost"
      BY DEF ToldIsTrue
    <3>1. g # h
      BY <1>2
    <3>2. \A k \in Handlers : handler[k].call = handler[g].call => Plain(k)
      BY <1>3, <2>1, <2>2, <3>1
    <3>3. QED
      BY <1>i, <1>u, <1>3, <2>2, <3>1, <3>2 DEF AnswerInv, ToldIsTrue
  <2>4. \A d \in DeskCalls : Unanswered(d) /\ (call[d].event \/ d # c) => Unanswered(d)'
    BY <1>u, <1>2, <1>3, <2>1 DEF Unanswered
  <2>5. ASSUME NEW d \in DeskCalls PROVE
         /\ call'[d].event => call'[d].stage \in {"asked", "timedout"} /\ Unanswered(d)'
         /\ call'[d].stage = "none" => Unanswered(d)'
         /\ call'[d].answer # "none" =>
              \E g \in Handlers : handler'[g].call = d /\ handler'[g].pc = "replied"
         /\ d \in registry' => \A g \in Handlers : handler'[g].call = d => ~Answers(g)'
    BY <1>i, <1>u, <1>3, <1>4, <2>1, <2>2, <2>4 DEF AnswerInv
  <2>6. ASSUME NEW g \in Handlers PROVE
         /\ handler'[g].pc \notin {"none", "refused"} => handler'[g].call \in DeskCalls
         /\ handler'[g].pc = "none" => Plain(g)'
         /\ Plain(g)' => handler'[g].pc \in {"none", "refused", "removed", "replied"}
         /\ \A k \in Handlers : Answers(g)' /\ Answers(k)' /\ handler'[g].call = handler'[k].call => g = k
    <3>1. handler'[h].pc # "none" /\ (Plain(h)' => handler'[h].pc \in {"refused", "removed"})
      BY <1>2 DEF Plain
    <3>2. QED
      BY <1>i, <1>3, <2>1, <2>2, <3>1 DEF AnswerInv
  <2>7. QED
    BY <2>3, <2>5, <2>6 DEF AnswerInv
<1>8. ConfiguredWins'
  BY <1>i, <1>u DEF ConfiguredWins
<1>9. QED
  BY <1>5, <1>6, <1>7, <1>8 DEF DeskInv

(* An allow answer that is being carried out concerns nobody's answers.    *)
LEMMA AllowStepKeepsAnswers ==
  ASSUME DeskInv, NEW h \in Handlers, ~Plain(h),
         UNCHANGED <<call, section>>, registry' \subseteq registry,
         handler' = [handler EXCEPT ![h] = handler'[h]],
         handler'[h].call = handler[h].call, handler'[h].kind = handler[h].kind,
         handler'[h].pc # "none", handler[h].pc \notin {"none", "refused", "replied"}
  PROVE  AnswerInv' /\ ConfiguredWins'
<1>i. DeskShape /\ AnswerInv /\ ConfiguredWins
  BY DEF DeskInv
<1>1. \A g \in Handlers : g # h => handler'[g] = handler[g]
  BY <1>i DEF DeskShape
<1>2. ~Answers(h) /\ ~Answers(h)' /\ ~Plain(h)'
  BY DEF Answers, Plain
<1>3. \A g \in Handlers : (Plain(g)' <=> Plain(g)) /\ (Answers(g)' <=> Answers(g))
                           /\ handler'[g].call = handler[g].call
  BY <1>1, <1>2 DEF Plain, Answers
<1>4. ToldIsTrue'
  BY <1>i, <1>1, <1>2, <1>3 DEF AnswerInv, ToldIsTrue
<1>5. \A d \in DeskCalls : Unanswered(d) => Unanswered(d)'
  BY <1>1 DEF Unanswered
<1>6. ASSUME NEW d \in DeskCalls, call'[d].answer # "none"
      PROVE  \E g \in Handlers : handler'[g].call = d /\ handler'[g].pc = "replied"
  BY <1>i, <1>1, <1>6 DEF AnswerInv
<1>7. AnswerInv'
  BY <1>i, <1>1, <1>2, <1>3, <1>4, <1>5, <1>6 DEF AnswerInv
<1>8. QED
  BY <1>i, <1>7 DEF ConfiguredWins

(* What a reader finds in a whole file and in a torn one.                  *)
LEMMA FileHolds ==
  /\ TornFile \in [whole : BOOLEAN, allow : SUBSET Globs] /\ ~TornFile.whole /\ TornFile.allow = {}
  /\ \A g \in SUBSET Globs : WholeFile(g) \in [whole : BOOLEAN, allow : SUBSET Globs]
  /\ \A g : WholeFile(g).whole /\ WholeFile(g).allow = g
<1>1. TornFile \in [whole : BOOLEAN, allow : SUBSET Globs] /\ ~TornFile.whole /\ TornFile.allow = {}
  BY DEF TornFile
<1>2. \A g \in SUBSET Globs : WholeFile(g) \in [whole : BOOLEAN, allow : SUBSET Globs]
  BY DEF WholeFile
<1>3. \A g : WholeFile(g).whole /\ WholeFile(g).allow = g
  BY DEF WholeFile
<1>4. QED
  BY <1>1, <1>2, <1>3

(* The steps of an allow answer, from the store's lock to the live list.   *)
LEMMA AllowStep ==
  ASSUME DeskInv, NEW h \in Handlers,
         \/ AllowSession(h) \/ AddLists(h) \/ AddOpens(h) \/ AddWrites(h) \/ AddBreaks(h)
         \/ AddFails(h) \/ AddApplies(h)
  PROVE  DeskInv'
<1> USE DEF deskHistory, Moves
<1>i. DeskShape /\ StoreInv /\ AnswerInv /\ ConfiguredWins
  BY DEF DeskInv
<1>f. handler \in [Handlers -> RequestRecords] /\ handler[h] \in RequestRecords
  BY <1>i DEF DeskShape
<1>r. IsRules(rules) /\ rules.allow \subseteq Globs
  BY <1>i DEF DeskShape
<1>u. /\ UNCHANGED <<section, up, call, registry, life, kept, wanted>>
      /\ handler' = [handler EXCEPT ![h] = handler'[h]]
      /\ handler'[h] \in RequestRecords
      /\ handler'[h].call = handler[h].call /\ handler'[h].kind = handler[h].kind
      /\ handler'[h].glob = handler[h].glob /\ handler'[h].proposedFor = handler[h].proposedFor
      /\ handler[h].pc \in {"session", "always", "listed", "opened", "written"}
      /\ handler'[h].pc \in {"listed", "opened", "written", "granted", "refused"}
  BY <1>f, <1>r DEF AllowSession, AddLists, AddOpens, AddWrites, AddBreaks, AddFails, AddApplies,
     RequestRecords
<1>up. up
  BY <1>i, <1>u DEF StoreInv
<1>o. \A g \in Handlers : g # h => handler'[g] = handler[g]
  BY <1>f, <1>u
<1>p. ~Plain(h)
  BY <1>i, <1>u DEF AnswerInv
<1>a. AnswerInv' /\ ConfiguredWins'
  BY <1>p, <1>u, AllowStepKeepsAnswers
<1>g. rules' = rules \/ (IsRules(rules') /\ rules'.deny = rules.deny /\ rules'.catAllow = rules.catAllow
                           /\ rules'.catDeny = rules.catDeny /\ rules.allow \subseteq rules'.allow
                           /\ RulesInForce(rules) \subseteq RulesInForce(rules')
                           /\ rules'.allow \subseteq rules.allow \cup {handler[h].glob}
                           /\ handler[h].glob \in RulesInForce(rules'))
  BY <1>r DEF AllowSession, AddLists, AddOpens, AddWrites, AddBreaks, AddFails, AddApplies, IsRules,
     RulesInForce
<1>1. DeskShape'
  <2>1. storeLock' \in Handlers \cup {NoHandler}
    BY <1>i DEF AllowSession, AddLists, AddOpens, AddWrites, AddBreaks, AddFails, AddApplies,
       DeskShape
  <2>2. handler[h].glob \in Globs /\ handler[h].lists \subseteq Globs
    BY <1>f DEF RequestRecords
  <2>3. settings' \in [whole : BOOLEAN, allow : SUBSET Globs]
    <3>1. UNCHANGED settings \/ settings' \in {TornFile, WholeFile(handler[h].lists \cup {handler[h].glob})}
      BY DEF AllowSession, AddLists, AddOpens, AddWrites, AddBreaks, AddFails, AddApplies
    <3>2. handler[h].lists \cup {handler[h].glob} \in SUBSET Globs
      BY <2>2
    <3>3. QED
      BY <1>i, <3>1, <3>2, FileHolds DEF DeskShape
  <2>4. QED
    BY <1>i, <1>u, <1>f, <1>g, <2>1, <2>2, <2>3 DEF DeskShape
<1>k. /\ \A g \in Handlers : handler[g].pc \in {"listed", "opened", "written"} => storeLock = g
      /\ NoHandler \notin Handlers
  BY <1>i, DeskAssumption DEF StoreInv
<1>2. CASE AllowSession(h)
  <2>1. /\ handler'[h].pc = "granted" /\ handler[h].pc = "session"
        /\ UNCHANGED <<settings, storeLock>> /\ rules'.allow = rules.allow
        /\ handler[h].glob \in RulesInForce(rules') /\ RulesInForce(rules) \subseteq RulesInForce(rules')
    BY <1>2, <1>f, <1>r DEF AllowSession, IsRules, RulesInForce, RequestRecords
  <2>2. handler[h].kind # "always"
    BY <1>2, <1>i DEF StoreInv, AllowSession
  <2>3. LiveRulesOnDisk' /\ AllowedIsKept' /\ SessionStaysInMemory' /\ LiveRulesAsked'
    BY <1>i, <1>u, <2>1 DEF StoreInv, LiveRulesOnDisk, AllowedIsKept, SessionStaysInMemory, LiveRulesAsked
  <2>4. StoreInv'
    BY <1>i, <1>u, <1>o, <2>1, <2>2, <2>3 DEF StoreInv, Settled
  <2>5. QED
    BY <1>1, <1>a, <2>4 DEF DeskInv
<1>3. CASE AddLists(h)
  <2>1. /\ handler'[h].pc = "listed" /\ handler[h].pc = "always" /\ handler'[h].lists = rules.allow
        /\ UNCHANGED <<settings, rules>> /\ storeLock' = h /\ storeLock = NoHandler
    BY <1>3, <1>f DEF AddLists, RequestRecords
  <2>2. LiveRulesOnDisk' /\ AllowedIsKept' /\ SessionStaysInMemory' /\ LiveRulesAsked'
    BY <1>i, <1>u, <2>1 DEF StoreInv, LiveRulesOnDisk, AllowedIsKept, SessionStaysInMemory, LiveRulesAsked
  <2>3. StoreInv'
    BY <1>i, <1>u, <1>o, <1>k, <2>1, <2>2 DEF StoreInv, Settled
  <2>4. QED
    BY <1>1, <1>a, <2>3 DEF DeskInv
<1>w. ASSUME storeLock = h
      PROVE  \A g \in Handlers : g # h => handler[g].pc \notin {"listed", "opened", "written"}
  BY <1>k, <1>w
<1>4. CASE AddOpens(h)
  <2>1. /\ handler'[h].pc = "opened" /\ handler[h].pc = "listed" /\ ~settings'.whole
        /\ handler'[h].lists = handler[h].lists /\ settings'.allow = {}
        /\ UNCHANGED <<rules, storeLock>> /\ storeLock = h /\ handler[h].kind = "always"
    BY <1>4, <1>f, <1>i, FileHolds DEF AddOpens, RequestRecords, StoreInv
  <2>2. LiveRulesOnDisk' /\ AllowedIsKept' /\ SessionStaysInMemory' /\ LiveRulesAsked'
    BY <1>i, <1>u, <2>1 DEF StoreInv, LiveRulesOnDisk, AllowedIsKept, SessionStaysInMemory, LiveRulesAsked
  <2>3. StoreInv'
    BY <1>i, <1>u, <1>up, <1>o, <1>w, <2>1, <2>2 DEF StoreInv, Settled
  <2>4. QED
    BY <1>1, <1>a, <2>3 DEF DeskInv
<1>5. CASE AddWrites(h) \/ AddBreaks(h)
  <2>1. /\ \/ handler'[h].pc = "written" /\ handler[h].glob \in settings'.allow
               /\ storeLock' = storeLock
           \/ handler'[h].pc = "refused" /\ storeLock' = NoHandler
        /\ handler[h].pc = "opened" /\ UNCHANGED rules
        /\ \/ settings'.allow = {} /\ ~settings'.whole
           \/ settings'.allow = rules.allow \cup {handler[h].glob}
        /\ handler[h].glob \in wanted /\ handler[h].kind = "always" /\ storeLock = h
    BY <1>5, <1>f, <1>i, FileHolds DEF AddWrites, AddBreaks, RequestRecords, StoreInv
  <2>2. LiveRulesOnDisk' /\ AllowedIsKept' /\ SessionStaysInMemory' /\ LiveRulesAsked'
    BY <1>i, <1>u, <1>up, <2>1 DEF StoreInv, LiveRulesOnDisk, AllowedIsKept,
       SessionStaysInMemory, LiveRulesAsked
  <2>3. StoreInv'
    BY <1>i, <1>u, <1>up, <1>o, <1>w, <2>1, <2>2 DEF StoreInv, Settled
  <2>4. QED
    BY <1>1, <1>a, <2>3 DEF DeskInv
<1>6. CASE AddFails(h)
  <2>1. /\ handler'[h].pc = "refused" /\ handler[h].pc = "listed"
        /\ UNCHANGED <<rules, settings>> /\ storeLock = h /\ handler[h].kind = "always"
    BY <1>6, <1>f, <1>i DEF AddFails, RequestRecords, StoreInv
  <2>2. LiveRulesOnDisk' /\ AllowedIsKept' /\ SessionStaysInMemory' /\ LiveRulesAsked'
    BY <1>i, <1>u, <2>1 DEF StoreInv, LiveRulesOnDisk, AllowedIsKept, SessionStaysInMemory, LiveRulesAsked
  <2>3. StoreInv'
    BY <1>i, <1>u, <1>o, <1>w, <2>1, <2>2 DEF StoreInv, Settled
  <2>4. QED
    BY <1>1, <1>a, <2>3 DEF DeskInv
<1>7. CASE AddApplies(h)
  <2>1. /\ handler'[h].pc = "granted" /\ handler[h].pc = "written" /\ UNCHANGED settings
        /\ storeLock = h /\ handler[h].kind = "always" /\ handler[h].glob \in settings.allow
        /\ rules'.allow = rules.allow \cup {handler[h].glob} /\ handler[h].glob \in wanted
        /\ RulesInForce(rules) \subseteq RulesInForce(rules')
    BY <1>7, <1>f, <1>i, <1>r DEF AddApplies, RequestRecords, StoreInv, IsRules, RulesInForce
  <2>2. LiveRulesOnDisk' /\ AllowedIsKept' /\ SessionStaysInMemory' /\ LiveRulesAsked'
    BY <1>i, <1>u, <1>up, <2>1 DEF StoreInv, LiveRulesOnDisk, AllowedIsKept, SessionStaysInMemory, LiveRulesAsked
  <2>3. StoreInv'
    BY <1>i, <1>u, <1>up, <1>o, <1>w, <2>1, <2>2 DEF StoreInv, Settled
  <2>4. QED
    BY <1>1, <1>a, <2>3 DEF DeskInv
<1>8. QED
  BY <1>2, <1>3, <1>4, <1>5, <1>6, <1>7

(* An answer leaves the registry, and reaches the call it was given to.    *)
LEMMA AnswerStep ==
  ASSUME DeskInv, NEW h \in Handlers, DeskRemove(h) \/ DeskRespond(h)
  PROVE  DeskInv'
<1> USE DEF deskHistory, Moves
<1>i. DeskShape /\ StoreInv /\ AnswerInv /\ ConfiguredWins
  BY DEF DeskInv
<1>f. handler \in [Handlers -> RequestRecords] /\ handler[h] \in RequestRecords
  BY <1>i DEF DeskShape
<1>u. /\ UNCHANGED <<section, rules, settings, up, storeLock, life, wanted>>
      /\ handler' = [handler EXCEPT ![h] = handler'[h]]
      /\ handler'[h] \in RequestRecords
      /\ handler'[h].call = handler[h].call /\ handler'[h].kind = handler[h].kind
      /\ handler'[h].glob = handler[h].glob /\ handler'[h].proposedFor = handler[h].proposedFor
      /\ handler[h].pc \in {"granted", "removed"} /\ handler'[h].pc \in {"removed", "replied"}
  BY <1>f DEF DeskRemove, DeskRespond, RequestRecords
<1>o. \A g \in Handlers : g # h => handler'[g] = handler[g]
  BY <1>f, <1>u
<1>p. up
  BY <1>i, <1>u DEF StoreInv
<1>s. ASSUME kept' \subseteq rules.allow PROVE StoreInv'
  <2>1. LiveRulesOnDisk' /\ AllowedIsKept' /\ SessionStaysInMemory' /\ LiveRulesAsked'
    BY <1>i, <1>p, <1>u, <1>s DEF StoreInv, LiveRulesOnDisk, AllowedIsKept, SessionStaysInMemory, LiveRulesAsked
  <2>2. QED
    BY <1>i, <1>u, <1>o, <2>1 DEF StoreInv, Settled
<1>1. CASE DeskRemove(h)
  <2>1. ~Plain(h) /\ UNCHANGED <<call,
                                 kept>> /\ registry' \subseteq registry /\ handler[h].pc = "granted"
    BY <1>1, <1>i DEF DeskRemove, AnswerInv
  <2>2. AnswerInv' /\ ConfiguredWins'
    BY <1>u, <2>1, AllowStepKeepsAnswers
  <2>3. DeskShape'
    BY <1>i, <1>u, <1>f, <2>1 DEF DeskShape
  <2>4. StoreInv'
    BY <1>i, <1>p, <1>s, <2>1 DEF StoreInv, AllowedIsKept
  <2>5. QED
    BY <2>2, <2>3, <2>4 DEF DeskInv
<1>2. CASE DeskRespond(h)
  <2> DEFINE c == handler[h].call
  <2>1. c \in DeskCalls /\ call[c] \in CallRecords /\ call \in [DeskCalls -> CallRecords]
    BY <1>i, <1>u DEF AnswerInv, DeskShape
  <2>2. /\ call' = [call EXCEPT ![c].answer =
                      IF @ # "none" THEN @ ELSE IF handler[h].kind = "no" THEN "no" ELSE "yes"]
        /\ handler[h].pc = "removed" /\ handler'[h].pc = "replied" /\ registry' = registry
        /\ kept' \subseteq kept \cup {g \in {handler[h].glob} : handler[h].kind = "always"}
    BY <1>2, <1>f DEF DeskRespond, RequestRecords
  <2>3. /\ call' = [call EXCEPT ![c] = call'[c]] /\ call'[c] \in CallRecords
        /\ call'[c].stage = call[c].stage /\ call'[c].event = call[c].event
        /\ call'[c].answer = IF call[c].answer # "none" THEN call[c].answer
                             ELSE IF handler[h].kind = "no" THEN "no" ELSE "yes"
    BY <2>1, <2>2 DEF CallRecords
  <2>4. \A d \in DeskCalls : d # c => call'[d] = call[d]
    BY <2>1, <2>3
  <2>5. DeskShape'
    BY <1>i, <1>u, <1>f, <2>1, <2>2, <2>3 DEF DeskShape
  <2>6. StoreInv'
    BY <1>i, <1>p, <1>s, <2>2 DEF StoreInv, AllowedIsKept, Settled
  <2>7. ConfiguredWins'
    <3>1. \A d \in DeskCalls : /\ call'[d].stage = call[d].stage
                               /\ call[d].answer = "yes" => call'[d].answer = "yes"
      BY <2>3, <2>4
    <3>2. QED
      BY <1>i, <1>u, <3>1 DEF ConfiguredWins
  <2>8. \A g \in Handlers : (Plain(g)' <=> Plain(g)) /\ (Answers(g)' <=> Answers(g))
                             /\ handler'[g].call = handler[g].call
    BY <1>o, <1>u, <2>2 DEF Plain, Answers
  <2>9. ToldIsTrue'
    <3> SUFFICES ASSUME NEW g \in Handlers, handler'[g].pc = "replied", Plain(g),
                        \A k \in Handlers : handler[k].call = handler[g].call => Plain(k)
                 PROVE  call'[handler[g].call].answer = handler[g].kind
                          \/ call'[handler[g].call].stage = "lost"
      BY <1>o, <1>u, <2>8 DEF ToldIsTrue
    <3>1. CASE g = h
      <4>1. call[c].answer = "none"
        <5> SUFFICES ASSUME call[c].answer # "none" PROVE FALSE
          OBVIOUS
        <5>1. PICK k \in Handlers : handler[k].call = c /\ handler[k].pc = "replied"
          BY <1>i, <2>1 DEF AnswerInv
        <5>2. Answers(k) /\ Answers(h)
          BY <3>1, <5>1, <2>2 DEF Answers
        <5>3. QED
          BY <1>i, <2>2, <5>1, <5>2 DEF AnswerInv
      <4>2. QED
        BY <3>1, <4>1, <2>3 DEF Plain
    <3>2. CASE g # h
      <4>1. handler[g].pc = "replied" /\ handler[g].call \in DeskCalls
        BY <1>i, <1>o, <3>2 DEF AnswerInv
      <4>2. call[handler[g].call].answer = handler[g].kind \/ call[handler[g].call].stage = "lost"
        BY <1>i, <4>1 DEF AnswerInv, ToldIsTrue
      <4>3. handler[g].kind \in {"yes", "no"}
        BY DEF Plain
      <4>4. QED
        BY <4>1, <4>2, <4>3, <2>3, <2>4
    <3>3. QED
      BY <3>1, <3>2
  <2>10. \A d \in DeskCalls : Unanswered(d) => d # c /\ Unanswered(d)'
    BY <1>u, <1>o, <2>2, <2>4 DEF Unanswered
  <2>11. ASSUME NEW d \in DeskCalls PROVE
         /\ call'[d].event => call'[d].stage \in {"asked", "timedout"} /\ Unanswered(d)'
         /\ call'[d].stage = "none" => Unanswered(d)'
         /\ call'[d].answer # "none" =>
              \E g \in Handlers : handler'[g].call = d /\ handler'[g].pc = "replied"
         /\ d \in registry' => \A g \in Handlers : handler'[g].call = d => ~Answers(g)'
    <3>1. call'[d].stage = call[d].stage /\ call'[d].event = call[d].event
      BY <2>3, <2>4
    <3>2. call'[d].answer # "none" =>
              \E g \in Handlers : handler'[g].call = d /\ handler'[g].pc = "replied"
      <4>1. CASE d = c
        BY <4>1, <1>u, <2>2
      <4>2. CASE d # c
        BY <4>2, <1>i, <1>o, <2>4, <2>2 DEF AnswerInv
      <4>3. QED
        BY <4>1, <4>2
    <3>3. QED
      BY <1>i, <2>2, <2>8, <2>10, <3>1, <3>2 DEF AnswerInv
  <2>12. ASSUME NEW g \in Handlers PROVE
         /\ handler'[g].pc \notin {"none", "refused"} => handler'[g].call \in DeskCalls
         /\ handler'[g].pc = "none" => Plain(g)'
         /\ Plain(g)' => handler'[g].pc \in {"none", "refused", "removed", "replied"}
         /\ \A k \in Handlers : Answers(g)' /\ Answers(k)' /\ handler'[g].call = handler'[k].call => g = k
    BY <1>i, <1>o, <1>u, <2>1, <2>2, <2>8 DEF AnswerInv
  <2>13. QED
    <3>1. AnswerInv'
      BY <2>9, <2>11, <2>12 DEF AnswerInv
    <3>2. QED
      BY <2>5, <2>6, <2>7, <3>1 DEF DeskInv
<1>3. QED
  BY <1>1, <1>2

(* Whoever answered or asked is gone with the process.                     *)
LEMMA CrashStep ==
  ASSUME DeskInv, CrashDesk
  PROVE  DeskInv'
<1>i. DeskShape /\ StoreInv /\ AnswerInv /\ ConfiguredWins
  BY DEF DeskInv
<1>r. /\ registry' = {} /\ storeLock' = NoHandler /\ ~up' /\ up' \in BOOLEAN
      /\ UNCHANGED <<section, rules, settings, life, kept, wanted>>
  BY DEF CrashDesk
<1>c. \A c \in DeskCalls :
        \/ call[c].stage = "none" /\ call'[c] = call[c]
        \/ call'[c].stage = "lost" /\ call'[c].answer = "none" /\ call'[c].event = FALSE
             /\ call'[c] \in CallRecords
  BY DEF CrashDesk, NewCall, CallRecords
<1>h. \A h \in Handlers :
        \/ handler[h].pc = "none" /\ handler'[h] = handler[h]
        \/ handler'[h].pc = "refused" /\ handler'[h].kind = "no" /\ handler'[h].proposedFor = NoGlob
             /\ handler'[h] \in RequestRecords
  BY DEF CrashDesk, NewRequest, RequestRecords, Globs
<1>d. DOMAIN call' = DeskCalls /\ DOMAIN handler' = Handlers
       /\ call' = [c \in DeskCalls |-> call'[c]] /\ handler' = [h \in Handlers |-> handler'[h]]
  BY DEF CrashDesk
<1>1. DeskShape'
  BY <1>i, <1>r, <1>c, <1>h, <1>d DEF DeskShape
<1>2. StoreInv'
  BY <1>i, <1>r, <1>h DEF StoreInv, LiveRulesOnDisk, AllowedIsKept, SessionStaysInMemory,
     LiveRulesAsked, Settled
<1>3. AnswerInv'
  BY <1>i, <1>r, <1>c, <1>h DEF AnswerInv, Unanswered, Answers, Plain, ToldIsTrue
<1>4. ConfiguredWins'
  BY <1>i, <1>r, <1>c DEF ConfiguredWins
<1>5. QED
  BY <1>1, <1>2, <1>3, <1>4 DEF DeskInv

(* What an answer promised is in any file the next process starts from.    *)
LEMMA StartStep ==
  ASSUME DeskInv, Start
  PROVE  DeskInv'
<1>i. DeskShape /\ StoreInv /\ AnswerInv /\ ConfiguredWins
  BY DEF DeskInv
<1>r. /\ rules' = [rules EXCEPT !.allow = settings.allow, !.session = {}]
      /\ ~up /\ settings.whole /\ up' = TRUE /\ life' = life + 1
      /\ UNCHANGED <<section, settings, call, registry, handler, storeLock, kept, wanted>>
  BY DEF Start
<1>g. IsRules(rules') /\ rules'.allow = settings.allow /\ rules'.deny = rules.deny
      /\ rules'.catAllow = rules.catAllow /\ rules'.catDeny = rules.catDeny
  BY <1>i, <1>r DEF DeskShape, IsRules
<1>h. \A h \in Handlers : handler[h].pc \in {"none", "refused"}
  BY <1>i, <1>r DEF StoreInv
<1>1. DeskShape'
  BY <1>i, <1>r, <1>g DEF DeskShape
<1>2. StoreInv'
  BY <1>i, <1>r, <1>g, <1>h DEF StoreInv, LiveRulesOnDisk, AllowedIsKept, SessionStaysInMemory,
     LiveRulesAsked, Settled
<1>3. AnswerInv'
  BY <1>i, <1>r DEF AnswerInv, Unanswered, Answers, Plain, ToldIsTrue
<1>4. ConfiguredWins'
  BY <1>i, <1>r DEF ConfiguredWins
<1>5. QED
  BY <1>1, <1>2, <1>3, <1>4 DEF DeskInv

(* Every step of the desk, by who takes it.                                *)
LEMMA DeskStep == DeskInv /\ [DeskNext]_deskVars => DeskInv'
<1> SUFFICES ASSUME DeskInv, [DeskNext]_deskVars PROVE DeskInv'
  OBVIOUS
<1>1. ASSUME NEW c \in DeskCalls, LoopDoes(c) PROVE DeskInv'
  BY <1>1, LoopStep
<1>2. ASSUME NEW h \in Handlers, NEW c \in DeskCalls, Approve(h, c) PROVE DeskInv'
  BY <1>2, ApproveStep
<1>3. ASSUME NEW h \in Handlers, HandlerDoes(h) PROVE DeskInv'
  BY <1>3, AllowStep, AnswerStep DEF HandlerDoes
<1>4. CASE CrashDesk \/ Start
  BY <1>4, CrashStep, StartStep
<1>5. CASE UNCHANGED deskVars
  BY <1>5 DEF deskVars, DeskInv, DeskShape, StoreInv, AnswerInv, ConfiguredWins, Unanswered,
     Answers, Plain,
              ToldIsTrue, LiveRulesOnDisk, AllowedIsKept, SessionStaysInMemory, LiveRulesAsked
<1>6. QED
  BY <1>1, <1>2, <1>3, <1>4, <1>5 DEF DeskNext

(* What a client is told of a plain answer is what happens, what it        *)
(* allowed for good is in force from then on and in every settings file    *)
(* that can be read -- a write that is cut short leaves none --, a         *)
(* session's grants never reach the file, the configured rules win, and a  *)
(* suggestion covers the segment it was made for: for any calls, clients,  *)
(* commands and rules.                                                     *)
THEOREM DeskStaysSound == DeskSpec => []DeskIsSound
<1>1. QED
  BY DeskBegins, DeskStep, DeskInvIsSound, PTL DEF DeskSpec

(* No answer makes the verdict on any command stricter while the process   *)
(* lives.                                                                  *)
THEOREM AnswersLoosen == DeskSpec => AnswersOnlyLoosen
<1> DEFINE Loosens == life' = life => \A command \in Commands :
                        Verdict(rules', command) <= Verdict(rules, command)
<1>1. ASSUME DeskInv, [DeskNext]_deskVars, life' = life
      PROVE  \A command \in Commands : Verdict(rules', command) <= Verdict(rules, command)
  <2>1. life \in Nat /\ IsRules(rules)
    BY <1>1 DEF DeskInv, DeskShape
  <2>2. ~Start
    BY <1>1, <2>1 DEF Start
  <2>3. /\ RulesInForce(rules) \subseteq RulesInForce(rules')
        /\ rules'.deny = rules.deny /\ rules'.catAllow = rules.catAllow
        /\ rules'.catDeny = rules.catDeny
    <3>1. CASE UNCHANGED rules
      BY <3>1
    <3>2. ASSUME NEW h \in Handlers, AllowSession(h) \/ AddApplies(h)
          PROVE  /\ RulesInForce(rules) \subseteq RulesInForce(rules')
                 /\ rules'.deny = rules.deny /\ rules'.catAllow = rules.catAllow
                 /\ rules'.catDeny = rules.catDeny
      BY <3>2, <2>1 DEF AllowSession, AddApplies, IsRules, RulesInForce
    <3>3. UNCHANGED rules \/ \E h \in Handlers : AllowSession(h) \/ AddApplies(h)
      BY <1>1, <2>2 DEF DeskNext, deskVars, LoopDoes, HandlerDoes, DeskIssue, DeskRegister,
         DropRequest,
           DeskAwait, ApprovalTimeout, Approve, AddLists, AddOpens, AddWrites,
         AddBreaks, AddFails, DeskRemove, DeskRespond, CrashDesk
    <3>4. QED
      BY <3>1, <3>2, <3>3
  <2>4. QED
    BY <2>3, MoreRulesLoosen
<1>2. DeskInv /\ [DeskNext]_deskVars => [Loosens]_deskVars
  BY <1>1
<1>3. QED
  BY DeskBegins, DeskStep, <1>2, PTL DEF DeskSpec, AnswersOnlyLoosen
-----------------------------------------------------------------------------
(* The limiter (RateLimiter).                                              *)

(* The least of two numbers, as the limiter's Min takes it.                *)
LEMMA LesserOf ==
  ASSUME NEW a \in Int, NEW b \in Int
  PROVE  Min({a, b}) = IF a <= b THEN a ELSE b
<1>1. \A x \in {a, b} : (\A y \in {a, b} : x <= y) => x = IF a <= b THEN a ELSE b
  OBVIOUS
<1>2. (IF a <= b THEN a ELSE b) \in {a, b} /\ \A y \in {a, b} : (IF a <= b THEN a ELSE b) <= y
  OBVIOUS
<1>3. QED
  BY <1>1, <1>2 DEF Min

(* The greatest of two numbers.                                            *)
LEMMA GreaterOf ==
  ASSUME NEW a \in Int, NEW b \in Int
  PROVE  Max({a, b}) = IF a >= b THEN a ELSE b
<1>1. \A x \in {a, b} : (\A y \in {a, b} : x >= y) => x = IF a >= b THEN a ELSE b
  OBVIOUS
<1>2. (IF a >= b THEN a ELSE b) \in {a, b} /\ \A y \in {a, b} : (IF a >= b THEN a ELSE b) >= y
  OBVIOUS
<1>3. QED
  BY <1>1, <1>2 DEF Max

Holders == {a \in Askers : place[a] \in {"tokens", "sending"}}

LimiterTypes ==
  /\ limits \in [rate : Nat, burst : Nat, parallel : Nat]
  /\ place \in [Askers -> {"idle", "refused", "slot", "tokens", "sending"}]
  /\ cost \in [Askers -> Nat]
  /\ tokens \in 0 .. limits.burst /\ elapsed \in 0 .. limits.burst
  /\ slots \in Nat /\ meter \in Nat /\ hungUp \subseteq Askers

(* A request waits for what its client's kind makes it wait for.           *)
WaitsOfKind ==
  /\ open = {a \in Askers : place[a] # "idle"}
  /\ \A a \in Askers : /\ place[a] = "slot" => Bounded
                       /\ place[a] = "tokens" => Kind = "bucket"

SlotsInv == Bounded => slots + Cardinality(Holders) = limits.parallel

(* What the meter holds and what the bucket would grant now fit together   *)
(* in the burst.                                                           *)
MeterInv == Kind = "bucket" => meter + Refilled <= limits.burst

LimiterInv == LimiterTypes /\ WaitsOfKind /\ SlotsInv /\ MeterInv
-----------------------------------------------------------------------------
(* The bucket after the refill is never above the burst.                   *)
LEMMA RefilledFacts ==
  ASSUME LimiterTypes
  PROVE  /\ Refilled \in 0 .. limits.burst
         /\ tokens \in Nat /\ elapsed \in Nat /\ limits.burst \in Nat
         /\ Refilled = IF tokens + elapsed <= limits.burst THEN tokens + elapsed ELSE limits.burst
<1>1. tokens \in Nat /\ elapsed \in Nat /\ limits.burst \in Nat
  BY DEF LimiterTypes
<1>2. QED
  BY <1>1, LesserOf DEF Refilled

(* The slots when a goroutine takes one, gives one back or does neither.   *)
LEMMA HoldersMove ==
  ASSUME LimiterTypes, NEW a \in Askers, NEW where \in {"idle", "refused", "slot", "tokens", "sending"},
         Goes(a, where)
  PROVE  /\ IsFiniteSet(Holders) /\ Cardinality(Holders) \in Nat /\ Cardinality(Holders') \in Nat
         /\ place[a] \in {"tokens", "sending"} /\ where \in {"tokens", "sending"} =>
              Cardinality(Holders') = Cardinality(Holders)
         /\ place[a] \notin {"tokens", "sending"} /\ where \notin {"tokens", "sending"} =>
              Cardinality(Holders') = Cardinality(Holders)
         /\ place[a] \notin {"tokens", "sending"} /\ where \in {"tokens", "sending"} =>
              Cardinality(Holders') = Cardinality(Holders) + 1
         /\ place[a] \in {"tokens", "sending"} /\ where \notin {"tokens", "sending"} =>
              Cardinality(Holders') = Cardinality(Holders) - 1
<1>1. IsFiniteSet(Holders) /\ Cardinality(Holders) \in Nat
  BY LimiterAssumption, FS_Subset, FS_CardinalityType DEF Holders
<1>2. place' = [place EXCEPT ![a] = where] /\ place \in [Askers -> {"idle", "refused", "slot", "tokens", "sending"}]
  BY DEF Goes, LimiterTypes
<1>3. CASE where \in {"tokens", "sending"}
  <2>1. Holders' = Holders \cup {a} /\ (a \in Holders <=> place[a] \in {"tokens", "sending"})
    BY <1>2, <1>3 DEF Holders
  <2>2. Cardinality(Holders \cup {a}) = IF a \in Holders THEN Cardinality(Holders) ELSE Cardinality(Holders) + 1
    BY <1>1, FS_AddElement
  <2>3. Cardinality(Holders') = IF a \in Holders THEN Cardinality(Holders) ELSE Cardinality(Holders) + 1
    BY <2>1, <2>2
  <2>4. QED
    BY <1>1, <1>3, <2>1, <2>3
<1>4. CASE where \notin {"tokens", "sending"}
  <2>1. Holders' = Holders \ {a} /\ (a \in Holders <=> place[a] \in {"tokens", "sending"})
    BY <1>2, <1>4 DEF Holders
  <2>2. a \in Holders => Cardinality(Holders \ {a}) = Cardinality(Holders) - 1
    BY <1>1, FS_RemoveElement
  <2>3. a \notin Holders => Holders \ {a} = Holders
    OBVIOUS
  <2>4. Cardinality(Holders') \in Nat
    BY <1>1, <2>1, FS_Subset, FS_CardinalityType
  <2>5. QED
    BY <1>1, <1>4, <2>1, <2>2, <2>3, <2>4
<1>5. QED
  BY <1>3, <1>4

(* What the invariant says of the limiter.                                 *)
LEMMA LimiterInvIsFair == LimiterInv => LimiterIsFair
<1> SUFFICES ASSUME LimiterInv PROVE LimiterIsFair
  OBVIOUS
<1>1. Those("tokens") \cup Those("sending") = Holders
  BY DEF Those, Holders
<1>2. Askers \ Those("idle") = {a \in Askers : place[a] # "idle"}
  BY DEF Those
<1>3. LimiterTypeOK
  BY <1>2 DEF LimiterInv, LimiterTypes, WaitsOfKind, LimiterTypeOK
<1>4. SlotsAreConserved
  BY <1>1 DEF LimiterInv, SlotsInv, SlotsAreConserved
<1>5. NeverOverdrawn
  <2>1. Kind = "bucket" => meter + Refilled <= limits.burst
    BY DEF LimiterInv, MeterInv
  <2>2. Refilled \in Nat /\ meter \in Nat /\ limits.burst \in Nat
    BY RefilledFacts DEF LimiterInv, LimiterTypes
  <2>3. QED
    BY <2>1, <2>2 DEF NeverOverdrawn
<1>6. QED
  BY <1>3, <1>4, <1>5 DEF LimiterIsFair

(* The bucket starts full and every slot free.                             *)
LEMMA LimiterBegins == LimiterInit => LimiterInv
<1> SUFFICES ASSUME LimiterInit PROVE LimiterInv
  OBVIOUS
<1>1. limits \in [rate : Nat, burst : Nat, parallel : Nat]
  BY LimiterAssumption DEF LimiterInit
<1>2. LimiterTypes
  BY <1>1, LimiterAssumption DEF LimiterInit, LimiterTypes
<1>3. WaitsOfKind
  BY DEF LimiterInit, WaitsOfKind
<1>4. Holders = {}
  BY DEF LimiterInit, Holders
<1>5. SlotsInv
  BY <1>1, <1>4, FS_EmptySet DEF LimiterInit, SlotsInv
<1>6. MeterInv
  BY <1>2, RefilledFacts DEF LimiterInit, MeterInv
<1>7. QED
  BY <1>2, <1>3, <1>5, <1>6 DEF LimiterInv

(* The options are those the client was built with.                        *)
LEMMA SameKind ==
  ASSUME UNCHANGED limits
  PROVE  Kind' = Kind /\ (Bounded' <=> Bounded)
BY DEF Kind, KindOf, Bounded

(* Steps that do not touch the bucket.                                     *)
LEMMA BucketRests ==
  ASSUME LimiterInv, UNCHANGED <<limits, tokens, elapsed, meter>>
  PROVE  MeterInv'
BY SameKind DEF LimiterInv, MeterInv, Refilled

(* Wait is called.                                                         *)
LEMMA AskStep ==
  ASSUME LimiterInv, NEW a \in Askers, NEW n \in Costs, Ask(a, n)
  PROVE  LimiterInv'
<1>i. LimiterTypes /\ WaitsOfKind /\ SlotsInv
  BY DEF LimiterInv
<1>k. Kind' = Kind /\ (Bounded' <=> Bounded)
  BY SameKind DEF Ask
<1>1. Charged(n) \in Nat
  BY <1>i, LimiterAssumption, LesserOf DEF Charged, LimiterTypes
<1>2. PICK where \in {"slot", "tokens", "sending"} :
        /\ Goes(a, where) /\ (where = "slot" <=> Bounded) /\ (where = "tokens" => Kind = "bucket")
  BY DEF Ask
<1>3. place' = [place EXCEPT ![a] = where] /\ place[a] = "idle"
  BY <1>2 DEF Ask, Goes
<1>4. LimiterTypes'
  BY <1>i, <1>1, <1>3 DEF Ask, LimiterTypes
<1>5. WaitsOfKind'
  BY <1>i, <1>k, <1>2, <1>3 DEF Ask, WaitsOfKind, LimiterTypes
<1>6. SlotsInv'
  <2>1. Bounded => Cardinality(Holders') = Cardinality(Holders)
    BY <1>i, <1>2, <1>3, HoldersMove
  <2>2. QED
    BY <2>1, <1>i, <1>k DEF Ask, SlotsInv
<1>7. QED
  BY <1>4, <1>5, <1>6, BucketRests DEF Ask, LimiterInv

(* A goroutine takes its slot, or learns that its context is done.         *)
LEMMA SlotStep ==
  ASSUME LimiterInv, NEW a \in Askers, TakeSlot(a)
  PROVE  LimiterInv'
<1>i. LimiterTypes /\ WaitsOfKind /\ SlotsInv
  BY DEF LimiterInv
<1>k. Kind' = Kind /\ (Bounded' <=> Bounded)
  BY SameKind DEF TakeSlot
<1>2. PICK where \in {"tokens", "sending"} : Goes(a, where) /\ (where = "tokens" => Kind = "bucket")
  BY DEF TakeSlot
<1>3. place' = [place EXCEPT ![a] = where] /\ place[a] = "slot" /\ slots > 0 /\ slots' = slots - 1
  BY <1>2 DEF TakeSlot, Goes
<1>4. LimiterTypes'
  BY <1>i, <1>3 DEF TakeSlot, LimiterTypes
<1>5. WaitsOfKind'
  BY <1>i, <1>k, <1>2, <1>3 DEF TakeSlot, WaitsOfKind, LimiterTypes
<1>6. SlotsInv'
  <2>1. Cardinality(Holders') = Cardinality(Holders) + 1 /\ Cardinality(Holders) \in Nat
    BY <1>i, <1>2, <1>3, HoldersMove
  <2>2. QED
    BY <2>1, <1>3, <1>i, <1>k DEF TakeSlot, SlotsInv, LimiterTypes
<1>7. QED
  BY <1>4, <1>5, <1>6, BucketRests DEF TakeSlot, LimiterInv

(* The tokens are refilled up to the burst and charged by the cost, a cost *)
(* above the burst counting as the burst.                                  *)
LEMMA ChargeStep ==
  ASSUME LimiterInv, NEW a \in Askers, TakeTokens(a)
  PROVE  LimiterInv'
<1>i. LimiterTypes /\ WaitsOfKind /\ SlotsInv /\ MeterInv
  BY DEF LimiterInv
<1>k. Kind' = Kind /\ (Bounded' <=> Bounded)
  BY SameKind DEF TakeTokens
<1>r. /\ Refilled \in Nat /\ Refilled <= limits.burst /\ meter \in Nat /\ cost[a] \in Nat
      /\ limits.burst \in Nat /\ limits' = limits /\ elapsed' = 0
  BY <1>i, RefilledFacts DEF LimiterTypes, TakeTokens
<1>1. CASE Refilled >= cost[a]
  <2>1. /\ tokens' = Refilled - cost[a] /\ meter' = meter + cost[a]
        /\ place' = [place EXCEPT ![a] = "sending"] /\ place[a] = "tokens"
    BY <1>1 DEF TakeTokens, Goes
  <2>2. LimiterTypes'
    BY <1>i, <1>1, <1>r, <2>1 DEF TakeTokens, LimiterTypes
  <2>3. WaitsOfKind'
    BY <1>i, <1>k, <2>1 DEF TakeTokens, WaitsOfKind, LimiterTypes
  <2>4. SlotsInv'
    <3>1. Cardinality(Holders') = Cardinality(Holders)
      BY <1>i, <2>1, HoldersMove DEF Goes
    <3>2. QED
      BY <3>1, <1>i, <1>k DEF TakeTokens, SlotsInv
  <2>5. MeterInv'
    <3>0. tokens' + elapsed' = Refilled - cost[a] /\ Refilled - cost[a] \in Int /\ Refilled - cost[a] <= limits.burst
      BY <1>1, <1>r, <2>1
    <3>1. Refilled' = Refilled - cost[a]
      <4>1. Refilled' = Min({Refilled - cost[a], limits.burst})
        BY <3>0, <1>r DEF Refilled
      <4>2. QED
        BY <3>0, <4>1, <1>r, LesserOf
    <3>2. QED
      BY <3>1, <1>i, <1>k, <1>r, <2>1 DEF MeterInv
  <2>6. QED
    BY <2>2, <2>3, <2>4, <2>5 DEF LimiterInv
<1>2. CASE ~(Refilled >= cost[a])
  <2>1. tokens' = Refilled /\ UNCHANGED <<meter, place>>
    BY <1>2 DEF TakeTokens
  <2>2. LimiterTypes'
    BY <1>i, <1>r, <2>1 DEF TakeTokens, LimiterTypes
  <2>3. WaitsOfKind' /\ SlotsInv'
    BY <1>i, <1>k, <2>1 DEF TakeTokens, WaitsOfKind, SlotsInv, Holders
  <2>4. MeterInv'
    <3>1. Refilled' = Refilled
      BY <1>r, <2>1, LesserOf DEF Refilled
    <3>2. QED
      BY <3>1, <1>i, <1>k, <1>r, <2>1 DEF MeterInv
  <2>5. QED
    BY <2>2, <2>3, <2>4 DEF LimiterInv
<1>3. QED
  BY <1>1, <1>2

(* A goroutine gives up waiting, or its request returns: either way its    *)
(* slot is free again, and what a wait that gives up had reserved is put   *)
(* back.                                                                   *)
LEMMA EndOfAskStep ==
  ASSUME LimiterInv, NEW a \in Askers, StopWaiting(a) \/ Return(a)
  PROVE  LimiterInv'
<1>i. LimiterTypes /\ WaitsOfKind /\ SlotsInv
  BY DEF LimiterInv
<1>u. /\ UNCHANGED <<limits, cost, tokens, elapsed, hungUp, meter>> /\ Goes(a, "idle") /\ place[a] # "idle"
      /\ open' = open \ {a}
      /\ slots' = IF place[a] \in {"tokens", "sending"} /\ Bounded THEN slots + 1 ELSE slots
  BY DEF StopWaiting, Waits, Return
<1>k. Kind' = Kind /\ (Bounded' <=> Bounded)
  BY <1>u, SameKind
<1>1. place' = [place EXCEPT ![a] = "idle"]
  BY <1>u DEF Goes
<1>2. LimiterTypes'
  BY <1>i, <1>u, <1>1 DEF LimiterTypes
<1>3. WaitsOfKind'
  BY <1>i, <1>k, <1>u, <1>1 DEF WaitsOfKind, LimiterTypes
<1>4. SlotsInv'
  <2>1. CASE place[a] \in {"tokens", "sending"}
    <3>1. Cardinality(Holders') = Cardinality(Holders) - 1 /\ Cardinality(Holders) \in Nat
      BY <1>i, <1>u, <2>1, HoldersMove
    <3>2. QED
      BY <3>1, <2>1, <1>i, <1>k, <1>u DEF SlotsInv, LimiterTypes
  <2>2. CASE place[a] \notin {"tokens", "sending"}
    <3>1. Cardinality(Holders') = Cardinality(Holders)
      BY <1>i, <1>u, <2>2, HoldersMove
    <3>2. QED
      BY <3>1, <2>2, <1>i, <1>k, <1>u DEF SlotsInv
  <2>3. QED
    BY <2>1, <2>2
<1>5. QED
  BY <1>2, <1>3, <1>4, <1>u, BucketRests DEF LimiterInv

(* A cost that cannot be computed, and a context that is done.             *)
LEMMA RefusalStep ==
  ASSUME LimiterInv, NEW a \in Askers, CostFails(a) \/ HangUp(a)
  PROVE  LimiterInv'
<1>i. LimiterTypes /\ WaitsOfKind /\ SlotsInv
  BY DEF LimiterInv
<1>u. UNCHANGED <<limits, cost, tokens, elapsed, slots, meter>>
  BY DEF CostFails, HangUp
<1>k. Kind' = Kind /\ (Bounded' <=> Bounded)
  BY <1>u, SameKind
<1>1. CASE CostFails(a)
  <2>1. place' = [place EXCEPT ![a] = "refused"] /\ place[a] = "idle"
    BY <1>1 DEF CostFails, Goes
  <2>2. LimiterTypes'
    BY <1>i, <1>1, <2>1 DEF CostFails, LimiterTypes
  <2>3. WaitsOfKind'
    BY <1>i, <1>k, <1>1, <2>1 DEF CostFails, WaitsOfKind, LimiterTypes
  <2>4. Cardinality(Holders') = Cardinality(Holders)
    BY <1>i, <1>1, <2>1, HoldersMove DEF CostFails
  <2>5. SlotsInv'
    BY <2>4, <1>i, <1>k, <1>u DEF SlotsInv
  <2>6. QED
    BY <2>2, <2>3, <2>5, <1>u, BucketRests DEF LimiterInv
<1>2. CASE HangUp(a)
  <2>1. LimiterTypes'
    BY <1>i, <1>2 DEF HangUp, LimiterTypes
  <2>2. WaitsOfKind' /\ SlotsInv'
    BY <1>i, <1>2, <1>k DEF HangUp, WaitsOfKind, SlotsInv, Holders
  <2>3. QED
    BY <2>1, <2>2, <1>u, BucketRests DEF LimiterInv
<1>3. QED
  BY <1>1, <1>2

(* Time passes.                                                            *)
LEMMA TickStep ==
  ASSUME LimiterInv, Tick
  PROVE  LimiterInv'
<1>i. LimiterTypes /\ WaitsOfKind /\ SlotsInv /\ MeterInv
  BY DEF LimiterInv
<1>k. Kind' = Kind /\ (Bounded' <=> Bounded)
  BY SameKind DEF Tick
<1>u. /\ UNCHANGED <<limits, place, cost, tokens, slots, hungUp, open>>
      /\ tokens \in Nat /\ elapsed \in Nat /\ limits.burst \in Nat /\ meter \in Nat
      /\ tokens <= limits.burst /\ elapsed <= limits.burst
      /\ elapsed' = IF elapsed + 1 <= limits.burst THEN elapsed + 1 ELSE limits.burst
      /\ meter' = IF meter - 1 >= 0 THEN meter - 1 ELSE 0
  BY <1>i, LesserOf, GreaterOf DEF Tick, LimiterTypes
<1>1. LimiterTypes'
  BY <1>i, <1>u DEF LimiterTypes
<1>2. WaitsOfKind' /\ SlotsInv'
  BY <1>i, <1>u, <1>k DEF WaitsOfKind, SlotsInv, Holders
<1>3. MeterInv'
  <2>1. Refilled' = IF tokens + elapsed' <= limits.burst THEN tokens + elapsed' ELSE limits.burst
    BY <1>1, <1>u, RefilledFacts, LesserOf DEF Refilled
  <2>2. Refilled = IF tokens + elapsed <= limits.burst THEN tokens + elapsed ELSE limits.burst
    BY <1>i, RefilledFacts
  <2>3. QED
    BY <2>1, <2>2, <1>i, <1>u, <1>k DEF MeterInv
<1>4. QED
  BY <1>1, <1>2, <1>3 DEF LimiterInv

(* Every step of the limiter.                                              *)
LEMMA LimiterStep == LimiterInv /\ [LimiterNext]_limiterVars => LimiterInv'
<1> SUFFICES ASSUME LimiterInv, [LimiterNext]_limiterVars PROVE LimiterInv'
  OBVIOUS
<1>1. ASSUME NEW a \in Askers, AskerStep(a) \/ CostFails(a) \/ HangUp(a)
      PROVE  LimiterInv'
  BY <1>1, SlotStep, ChargeStep, EndOfAskStep, RefusalStep DEF AskerStep
<1>2. ASSUME NEW a \in Askers, NEW n \in Costs, Ask(a, n)
      PROVE  LimiterInv'
  BY <1>2, AskStep
<1>3. CASE Tick
  BY <1>3, TickStep
<1>4. CASE UNCHANGED limiterVars
  <2>1. UNCHANGED <<limits, place, cost, tokens, elapsed, slots, hungUp, open, meter>>
    BY <1>4 DEF limiterVars
  <2>2. Kind' = Kind /\ (Bounded' <=> Bounded) /\ Holders' = Holders
    BY <2>1, SameKind DEF Holders
  <2>3. QED
    BY <2>1, <2>2, BucketRests DEF LimiterInv, LimiterTypes, WaitsOfKind, SlotsInv
<1>5. QED
  BY <1>1, <1>2, <1>3, <1>4 DEF LimiterNext

(* The limiter of a client (protocols/ratelimit) never has more requests in*)
(* the air than its option allows, loses no slot, and never lets through   *)
(* more than the burst and what time has added to it, for any options,     *)
(* goroutines and costs.                                                   *)
THEOREM LimiterStaysFair == LimiterSpec => []LimiterIsFair
<1>1. LimiterInit => LimiterInv
  BY LimiterBegins
<1>2. LimiterInv /\ [LimiterNext]_limiterVars => LimiterInv'
  BY LimiterStep
<1>3. LimiterInv => LimiterIsFair
  BY LimiterInvIsFair
<1>4. QED
  BY <1>1, <1>2, <1>3, PTL DEF LimiterSpec
-----------------------------------------------------------------------------
(* The glob matcher (GlobMatch).                                           *)

(* A text without an asterisk of its own.                                  *)
PlainText == \A k \in 1 .. Len(text) : text[k] # Star

(* The last star stands before what has been matched, and the pattern up   *)
(* to it describes the text up to what it was given.                       *)
StarInv ==
  star >= 0 => /\ star < pi /\ mark <= si
               /\ glob[star + 1] = Star
               /\ Describes(star + 1, mark)

(* Where the text has no star of its own: up to the first star bytes stand *)
(* for bytes, and every way to cut the text up gives the last star at      *)
(* least what the loop has given it, and the bytes after it one each.      *)
GreedyInv ==
  PlainText =>
    \A c \in Cuts(Len(glob), Len(text)) :
      IF star < 0 THEN c[pi] = si
      ELSE c[star + 1] >= mark /\ c[pi] - c[star + 1] = si - mark

GlobInv ==
  /\ GlobTypeOK
  /\ matched = "begin" => glob = <<>> /\ text = <<>> /\ pi = 0 /\ si = 0 /\ star = -1 /\ mark = 0
  /\ Describes(pi, si) /\ StarInv /\ GreedyInv
  /\ matched = "yes" => Fits
  /\ matched = "no" /\ PlainText => ~Fits
(* A cut is continued by one more piece.                                   *)
LEMMA ExtendCut ==
  ASSUME Len(text) \in Nat, NEW i \in Nat, NEW j \in 0 .. Len(text), NEW k \in 0 .. Len(text),
         Describes(i, j), Piece(i + 1, j, k)
  PROVE  Describes(i + 1, k)
<1>1. PICK c \in [0 .. i -> 0 .. Len(text)] :
        c[0] = 0 /\ c[i] = j /\ \A x \in 1 .. i : Piece(x, c[x - 1], c[x])
  BY DEF Describes, Cuts
<1> DEFINE d == [x \in 0 .. i + 1 |-> IF x = i + 1 THEN k ELSE c[x]]
<1>2. d \in [0 .. i + 1 -> 0 .. Len(text)] /\ d[0] = 0 /\ d[i] = j /\ d[i + 1] = k
  BY <1>1
<1>3. ASSUME NEW x \in 1 .. i + 1 PROVE Piece(x, d[x - 1], d[x])
  <2>1. CASE x = i + 1
    <3>1. x - 1 = i
      BY <2>1
    <3>2. QED
      BY <1>2, <2>1, <3>1
  <2>2. CASE x # i + 1
    <3>1. x \in 1 .. i /\ x - 1 \in 0 .. i /\ x \in 0 .. i
      BY <2>2
    <3>2. d[x] = c[x] /\ d[x - 1] = c[x - 1]
      BY <3>1
    <3>3. QED
      BY <1>1, <3>1, <3>2
  <2>3. QED
    BY <2>1, <2>2
<1>4. d \in Cuts(i + 1, k)
  <2> HIDE DEF d
  <2>1. QED
    BY <1>2, <1>3 DEF Cuts
<1>5. QED
  BY <1>4 DEF Describes

(* A star stands for one byte more.                                        *)
LEMMA StretchStar ==
  ASSUME Len(text) \in Nat, NEW i \in Nat \ {0}, NEW j \in Nat, j < Len(text),
         glob[i] = Star, Describes(i, j)
  PROVE  Describes(i, j + 1)
<1>1. PICK c \in [0 .. i -> 0 .. Len(text)] :
        c[0] = 0 /\ c[i] = j /\ \A x \in 1 .. i : Piece(x, c[x - 1], c[x])
  BY DEF Describes, Cuts
<1> DEFINE d == [x \in 0 .. i |-> IF x = i THEN j + 1 ELSE c[x]]
<1>2. d \in [0 .. i -> 0 .. Len(text)] /\ d[0] = 0 /\ d[i] = j + 1 /\ d[i - 1] = c[i - 1]
  BY <1>1
<1>3. ASSUME NEW x \in 1 .. i PROVE Piece(x, d[x - 1], d[x])
  <2>1. CASE x = i
    <3>1. c[i - 1] <= j /\ c[i - 1] \in Nat
      BY <1>1 DEF Piece
    <3>2. c[i - 1] <= j + 1
      BY <3>1
    <3>3. QED
      BY <1>2, <2>1, <3>2 DEF Piece
  <2>2. CASE x # i
    <3>1. x - 1 \in 0 .. i /\ x \in 0 .. i /\ x - 1 # i
      BY <2>2
    <3>2. d[x] = c[x] /\ d[x - 1] = c[x - 1]
      BY <2>2, <3>1
    <3>3. QED
      BY <1>1, <3>2
  <2>3. QED
    BY <2>1, <2>2
<1>4. d \in Cuts(i, j + 1)
  <2> HIDE DEF d
  <2>1. QED
    BY <1>2, <1>3 DEF Cuts
<1>5. QED
  BY <1>4 DEF Describes

(* Stars that are left over stand for nothing.                             *)
LEMMA LeftOverStars ==
  ASSUME Len(text) \in Nat, Len(glob) \in Nat, NEW i \in 0 .. Len(glob),
         Describes(i, Len(text)), \A x \in i + 1 .. Len(glob) : glob[x] = Star
  PROVE  Fits
<1>1. PICK c \in [0 .. i -> 0 .. Len(text)] :
        c[0] = 0 /\ c[i] = Len(text) /\ \A x \in 1 .. i : Piece(x, c[x - 1], c[x])
  BY DEF Describes, Cuts
<1> DEFINE d == [x \in 0 .. Len(glob) |-> IF x <= i THEN c[x] ELSE Len(text)]
<1>2. d \in [0 .. Len(glob) -> 0 .. Len(text)] /\ d[0] = 0 /\ d[Len(glob)] = Len(text)
  BY <1>1
<1>3. ASSUME NEW x \in 1 .. Len(glob) PROVE Piece(x, d[x - 1], d[x])
  <2>1. CASE x <= i
    <3>1. x - 1 \in 0 .. i /\ x \in 1 .. i
      BY <2>1
    <3>2. d[x] = c[x] /\ d[x - 1] = c[x - 1]
      BY <2>1, <3>1
    <3>3. QED
      BY <1>1, <3>1, <3>2
  <2>2. CASE ~(x <= i)
    <3>1. x \in i + 1 .. Len(glob) /\ x - 1 \in 0 .. Len(glob)
      BY <2>2
    <3>2. d[x] = Len(text) /\ d[x - 1] = Len(text)
      BY <1>1, <2>2, <3>1
    <3>3. QED
      BY <3>1, <3>2 DEF Piece
  <2>3. QED
    BY <2>1, <2>2
<1>4. d \in Cuts(Len(glob), Len(text))
  <2> HIDE DEF d
  <2>1. QED
    BY <1>2, <1>3 DEF Cuts
<1>5. QED
  BY <1>4 DEF Describes, Fits

(* What a cut of the whole text is made of.                                *)
LEMMA CutIs ==
  ASSUME Len(text) \in Nat, Len(glob) \in Nat, NEW c \in Cuts(Len(glob), Len(text))
  PROVE  /\ \A x \in 0 .. Len(glob) : c[x] \in 0 .. Len(text)
         /\ c[0] = 0 /\ c[Len(glob)] = Len(text)
         /\ \A x \in 0 .. Len(glob) - 1 :
              IF glob[x + 1] = Star THEN c[x] <= c[x + 1]
              ELSE c[x + 1] = c[x] + 1 /\ glob[x + 1] \in {AnyByte, text[c[x] + 1]}
<1>1. /\ c \in [0 .. Len(glob) -> 0 .. Len(text)] /\ c[0] = 0 /\ c[Len(glob)] = Len(text)
      /\ \A x \in 1 .. Len(glob) : Piece(x, c[x - 1], c[x])
  BY DEF Cuts
<1>2. ASSUME NEW x \in 0 .. Len(glob) - 1 PROVE Piece(x + 1, c[x], c[x + 1])
  <2>1. x + 1 \in 1 .. Len(glob) /\ (x + 1) - 1 = x
    OBVIOUS
  <2>2. QED
    BY <1>1, <2>1
<1>3. QED
  BY <1>1, <1>2 DEF Piece

(* Once a cut has reached the end of the text, only stars follow.          *)
LEMMA OnlyStarsFollow ==
  ASSUME Len(text) \in Nat, Len(glob) \in Nat, NEW c \in Cuts(Len(glob), Len(text)),
         NEW i \in 0 .. Len(glob), c[i] >= Len(text)
  PROVE  \A x \in i + 1 .. Len(glob) : glob[x] = Star
<1> DEFINE Short == {x \in Nat : x >= i /\ x <= Len(glob) /\ c[x] < Len(text)}
<1>1. Short = {}
  <2> SUFFICES ASSUME Short # {} PROVE FALSE
    OBVIOUS
  <2>1. PICK x \in Short : \A y \in Short : x <= y
    <3>1. Short \in SUBSET Nat
      OBVIOUS
    <3>2. QED
      BY <3>1, LeastNat
  <2>2. x \in Nat /\ x > i /\ x <= Len(glob) /\ c[x] < Len(text)
    <3>1. x \in Nat /\ x >= i /\ x <= Len(glob) /\ c[x] < Len(text)
      BY <2>1
    <3>2. c[i] \in Nat
      BY CutIs
    <3>3. x # i
      BY <3>1, <3>2
    <3>4. QED
      BY <3>1, <3>3
  <2>3. x - 1 \in Nat /\ x - 1 >= i /\ x - 1 <= Len(glob) /\ x - 1 \in 0 .. Len(glob) - 1 /\ (x - 1) + 1 = x
    BY <2>2
  <2>4. ~(c[x - 1] < Len(text))
    BY <2>1, <2>3
  <2>5. c[x - 1] <= c[x] \/ c[x] = c[x - 1] + 1
    BY <2>3, CutIs
  <2>6. c[x - 1] \in Nat /\ c[x] \in Nat
    BY <2>2, <2>3, CutIs
  <2>7. QED
    BY <2>2, <2>4, <2>5, <2>6
<1>2. SUFFICES ASSUME NEW x \in i + 1 .. Len(glob), glob[x] # Star PROVE FALSE
  OBVIOUS
<1>3. x - 1 \in 0 .. Len(glob) - 1 /\ x - 1 >= i /\ (x - 1) + 1 = x /\ x \in 0 .. Len(glob) /\ x >= i
  BY <1>2
<1>4. c[x] = c[x - 1] + 1
  BY <1>2, <1>3, CutIs
<1>5. c[x] \in 0 .. Len(text) /\ c[x - 1] \in 0 .. Len(text)
  BY <1>3, CutIs
<1>6. ~(c[x - 1] < Len(text))
  BY <1>1, <1>3
<1>7. QED
  BY <1>4, <1>5, <1>6
-----------------------------------------------------------------------------
(* Nothing is called at the start.                                         *)
LEMMA GlobBegins == GlobInit => GlobInv
<1> SUFFICES ASSUME GlobInit PROVE GlobInv
  OBVIOUS
<1>1. glob = <<>> /\ text = <<>> /\ pi = 0 /\ si = 0 /\ star = -1 /\ mark = 0 /\ matched = "begin"
  BY DEF GlobInit
<1>2. Len(glob) = 0 /\ Len(text) = 0 /\ glob \in Seq(Bytes) /\ text \in Seq(Bytes)
  BY <1>1
<1>3. GlobTypeOK
  BY <1>1, <1>2 DEF GlobTypeOK
<1>4. Describes(pi, si)
  <2>1. [x \in 0 .. 0 |-> 0] \in Cuts(0, 0)
    BY <1>2 DEF Cuts
  <2>2. QED
    BY <1>1, <2>1 DEF Describes
<1>5. GreedyInv
  BY <1>1 DEF GreedyInv, Cuts
<1>6. QED
  BY <1>1, <1>3, <1>4, <1>5 DEF GlobInv, StarInv

(* Any pattern and any text: nothing is matched of them yet.               *)
LEMMA CallStep == GlobInv /\ GlobCalled => GlobInv'
<1> SUFFICES ASSUME GlobInv, GlobCalled PROVE GlobInv'
  OBVIOUS
<1>1. pi' = 0 /\ si' = 0 /\ star' = -1 /\ mark' = 0 /\ matched' = "loop"
  BY DEF GlobInv, GlobCalled
<1>2. glob' \in Seq(Bytes) /\ text' \in Seq(Bytes)
  BY GlobAssumption DEF GlobCalled, Strings
<1>3. Len(glob') \in Nat /\ Len(text') \in Nat
  BY <1>2
<1>4. GlobTypeOK'
  BY <1>1, <1>2, <1>3 DEF GlobTypeOK
<1>5. Describes(pi, si)'
  <2>1. [x \in 0 .. 0 |-> 0] \in Cuts(0, 0)'
    BY <1>3 DEF Cuts
  <2>2. QED
    BY <1>1, <2>1 DEF Describes
<1>6. GreedyInv'
  BY <1>1 DEF GreedyInv, Cuts
<1>7. QED
  BY <1>1, <1>4, <1>5, <1>6 DEF GlobInv, StarInv

(* The strings stay as they are, and so does all that is said of them.     *)
SameStrings == glob' = glob /\ text' = text

(* What is said of the strings stays when they do.                         *)
LEMMA CutsStay == SameStrings => /\ PlainText' = PlainText /\ Fits' = Fits
                                 /\ \A i, j : Describes(i, j)' = Describes(i, j)
                                 /\ Cuts(Len(glob), Len(text))' = Cuts(Len(glob), Len(text))
BY DEF SameStrings, PlainText, Fits, Describes, Cuts, Piece

(* A byte stands for itself or for any.                                    *)
LEMMA TakeByteStep == GlobInv /\ TakeByte => GlobInv'
<1> SUFFICES ASSUME GlobInv, TakeByte PROVE GlobInv'
  OBVIOUS
<1>u. /\ matched = "loop" /\ si < Len(text) /\ pi < Len(glob) /\ glob[pi + 1] \in {AnyByte, text[si + 1]}
      /\ pi' = pi + 1 /\ si' = si + 1
      /\ glob' = glob /\ text' = text /\ star' = star /\ mark' = mark /\ matched' = matched
  BY DEF TakeByte, InLoop, SameByte
<1>t. /\ Len(text) \in Nat /\ Len(glob) \in Nat /\ pi \in 0 .. Len(glob) /\ si \in 0 .. Len(text)
      /\ star \in -1 .. Len(glob) - 1 /\ mark \in 0 .. Len(text)
  BY DEF GlobInv, GlobTypeOK
<1>s. SameStrings
  BY <1>u DEF SameStrings
<1>1. GlobTypeOK'
  BY <1>u, <1>t DEF GlobInv, GlobTypeOK
<1>2. Describes(pi, si)'
  <2>1. Piece(pi + 1, si, si + 1)
    BY <1>u, <1>t DEF Piece
  <2>2. Describes(pi + 1, si + 1)
    BY <2>1, <1>u, <1>t, ExtendCut DEF GlobInv
  <2>3. QED
    BY <2>2, <1>u, <1>s, CutsStay
<1>3. StarInv'
  BY <1>u, <1>t, <1>s, CutsStay DEF GlobInv, StarInv
<1>4. GreedyInv'
  <2>1. SUFFICES ASSUME PlainText, NEW c \in Cuts(Len(glob), Len(text))
                 PROVE  IF star < 0 THEN c[pi + 1] = si + 1
                        ELSE c[star + 1] >= mark /\ c[pi + 1] - c[star + 1] = (si + 1) - mark
    BY <1>u, <1>s, CutsStay DEF GreedyInv
  <2>2. IF star < 0 THEN c[pi] = si ELSE c[star + 1] >= mark /\ c[pi] - c[star + 1] = si - mark
    BY <2>1 DEF GlobInv, GreedyInv
  <2>3. glob[pi + 1] # Star
    BY <2>1, <1>u, <1>t DEF PlainText, Star, AnyByte
  <2>4. c[pi + 1] = c[pi] + 1
    BY <1>u, <1>t, <2>3, CutIs
  <2>5. c[pi] \in Nat /\ (star >= 0 => c[star + 1] \in Nat)
    BY <1>t, CutIs
  <2>6. QED
    BY <1>t, <2>2, <2>4, <2>5
<1>5. QED
  BY <1>u, <1>1, <1>2, <1>3, <1>4 DEF GlobInv

(* A star is given nothing yet.                                            *)
LEMMA TakeStarStep == GlobInv /\ TakeStar => GlobInv'
<1> SUFFICES ASSUME GlobInv, TakeStar PROVE GlobInv'
  OBVIOUS
<1>u. /\ matched = "loop" /\ si < Len(text) /\ pi < Len(glob) /\ glob[pi + 1] = Star
      /\ star' = pi /\ mark' = si /\ pi' = pi + 1
      /\ glob' = glob /\ text' = text /\ si' = si /\ matched' = matched
  BY DEF TakeStar, InLoop, AtStar
<1>t. /\ Len(text) \in Nat /\ Len(glob) \in Nat /\ pi \in 0 .. Len(glob) /\ si \in 0 .. Len(text)
      /\ star \in -1 .. Len(glob) - 1 /\ mark \in 0 .. Len(text)
  BY DEF GlobInv, GlobTypeOK
<1>s. SameStrings
  BY <1>u DEF SameStrings
<1>1. GlobTypeOK'
  BY <1>u, <1>t DEF GlobInv, GlobTypeOK
<1>2. Describes(pi + 1, si)
  <2>1. Piece(pi + 1, si, si)
    BY <1>u, <1>t DEF Piece
  <2>2. QED
    BY <2>1, <1>u, <1>t, ExtendCut DEF GlobInv
<1>3. Describes(pi, si)' /\ StarInv'
  BY <1>2, <1>u, <1>t, <1>s, CutsStay DEF StarInv
<1>4. GreedyInv'
  <2>1. SUFFICES ASSUME PlainText, NEW c \in Cuts(Len(glob), Len(text))
                 PROVE  IF pi < 0 THEN c[pi + 1] = si
                        ELSE c[pi + 1] >= si /\ c[pi + 1] - c[pi + 1] = si - si
    BY <1>u, <1>s, CutsStay DEF GreedyInv
  <2>2. IF star < 0 THEN c[pi] = si ELSE c[star + 1] >= mark /\ c[pi] - c[star + 1] = si - mark
    BY <2>1 DEF GlobInv, GreedyInv
  <2>3. c[pi] <= c[pi + 1]
    BY <1>u, <1>t, CutIs
  <2>4. c[pi] \in Nat /\ c[pi + 1] \in Nat /\ (star >= 0 => c[star + 1] \in Nat)
    BY <1>u, <1>t, CutIs
  <2>5. QED
    BY <1>t, <2>2, <2>3, <2>4
<1>5. QED
  BY <1>u, <1>1, <1>3, <1>4 DEF GlobInv

(* Where no byte fits, a cut of the whole text is not where the loop is.   *)
LEMMA NotHere ==
  ASSUME GlobInv, InLoop, ~SameByte, ~AtStar, NEW c \in Cuts(Len(glob), Len(text))
  PROVE  c[pi] # si
<1>t. /\ Len(text) \in Nat /\ Len(glob) \in Nat /\ pi \in 0 .. Len(glob) /\ si \in 0 .. Len(text)
      /\ si < Len(text)
  BY DEF GlobInv, GlobTypeOK, InLoop
<1> SUFFICES ASSUME c[pi] = si PROVE FALSE
  OBVIOUS
<1>1. CASE pi = Len(glob)
  BY <1>1, <1>t, CutIs
<1>2. CASE pi < Len(glob)
  <2>1. pi \in 0 .. Len(glob) - 1
    BY <1>2, <1>t
  <2>2. glob[pi + 1] # Star /\ glob[pi + 1] \notin {AnyByte, text[si + 1]}
    BY <1>2 DEF SameByte, AtStar
  <2>3. glob[pi + 1] \in {AnyByte, text[c[pi] + 1]}
    BY <2>1, <2>2, <1>t, CutIs
  <2>4. QED
    BY <2>2, <2>3
<1>3. QED
  BY <1>t, <1>1, <1>2

(* The last star is given one byte more.                                   *)
LEMMA BacktrackStep == GlobInv /\ Backtrack => GlobInv'
<1> SUFFICES ASSUME GlobInv, Backtrack PROVE GlobInv'
  OBVIOUS
<1>u. /\ matched = "loop" /\ si < Len(text) /\ star >= 0
      /\ mark' = mark + 1 /\ pi' = star + 1 /\ si' = mark + 1
      /\ glob' = glob /\ text' = text /\ star' = star /\ matched' = matched
  BY DEF Backtrack, InLoop
<1>g. InLoop /\ ~SameByte /\ ~AtStar
  BY DEF Backtrack
<1>t. /\ Len(text) \in Nat /\ Len(glob) \in Nat /\ pi \in 0 .. Len(glob) /\ si \in 0 .. Len(text)
      /\ star \in 0 .. Len(glob) - 1 /\ mark \in 0 .. Len(text)
      /\ star < pi /\ mark <= si /\ glob[star + 1] = Star
  BY <1>u DEF GlobInv, GlobTypeOK, StarInv
<1>s. SameStrings
  BY <1>u DEF SameStrings
<1>1. GlobTypeOK'
  BY <1>u, <1>t DEF GlobInv, GlobTypeOK
<1>2. Describes(star + 1, mark + 1)
  <2>1. mark < Len(text) /\ mark \in Nat /\ star + 1 \in Nat \ {0}
    BY <1>u, <1>t
  <2>2. Describes(star + 1, mark)
    BY <1>u DEF GlobInv, StarInv
  <2>3. QED
    BY <1>t, <2>1, <2>2, StretchStar
<1>3. Describes(pi, si)' /\ StarInv'
  BY <1>2, <1>u, <1>t, <1>s, CutsStay DEF StarInv
<1>4. GreedyInv'
  <2>1. SUFFICES ASSUME PlainText, NEW c \in Cuts(Len(glob), Len(text))
                 PROVE  IF star < 0 THEN c[star + 1] = mark + 1
                        ELSE c[star + 1] >= mark + 1 /\ c[star + 1] - c[star + 1] = (mark + 1) - (mark + 1)
    BY <1>u, <1>s, CutsStay DEF GreedyInv
  <2>2. c[star + 1] >= mark /\ c[pi] - c[star + 1] = si - mark
    BY <2>1, <1>u, <1>t DEF GlobInv, GreedyInv
  <2>3. c[pi] # si
    BY <1>g, NotHere
  <2>4. c[pi] \in Nat /\ c[star + 1] \in Nat
    BY <1>t, CutIs
  <2>5. QED
    BY <1>t, <2>2, <2>3, <2>4
<1>5. QED
  BY <1>u, <1>1, <1>3, <1>4 DEF GlobInv

(* No star can be given more: the pattern does not describe the text.      *)
LEMMA NoMatchStep == GlobInv /\ NoMatch => GlobInv'
<1> SUFFICES ASSUME GlobInv, NoMatch PROVE GlobInv'
  OBVIOUS
<1>u. /\ InLoop /\ ~SameByte /\ ~AtStar /\ star < 0 /\ matched' = "no"
      /\ glob' = glob /\ text' = text /\ pi' = pi /\ si' = si /\ star' = star /\ mark' = mark
  BY DEF NoMatch
<1>s. SameStrings
  BY <1>u DEF SameStrings
<1>1. PlainText => ~Fits
  <2>1. SUFFICES ASSUME PlainText, NEW c \in Cuts(Len(glob), Len(text)) PROVE FALSE
    BY DEF Fits, Describes
  <2>2. c[pi] = si
    BY <1>u, <2>1 DEF GlobInv, GreedyInv
  <2>3. QED
    BY <1>u, <2>2, NotHere
<1>2. GlobTypeOK'
  BY <1>u DEF GlobInv, GlobTypeOK
<1>3. StarInv' /\ Describes(pi, si)' /\ GreedyInv'
  BY <1>u, <1>s, CutsStay DEF GlobInv, StarInv, GreedyInv
<1>4. QED
  BY <1>u, <1>s, <1>1, <1>2, <1>3, CutsStay DEF GlobInv

(* The text is at its end: what is left of the pattern decides.            *)
LEMMA TextEndsStep == GlobInv /\ TextEnds => GlobInv'
<1> SUFFICES ASSUME GlobInv, TextEnds PROVE GlobInv'
  OBVIOUS
<1> DEFINE leftOver == \A i \in pi + 1 .. Len(glob) : glob[i] = Star
<1>u. /\ si = Len(text) /\ matched' = IF leftOver THEN "yes" ELSE "no"
      /\ glob' = glob /\ text' = text /\ pi' = pi /\ si' = si /\ star' = star /\ mark' = mark
  BY DEF TextEnds
<1>t. /\ Len(text) \in Nat /\ Len(glob) \in Nat /\ pi \in 0 .. Len(glob) /\ si \in 0 .. Len(text)
      /\ star \in -1 .. Len(glob) - 1 /\ mark \in 0 .. Len(text)
  BY DEF GlobInv, GlobTypeOK
<1>s. SameStrings
  BY <1>u DEF SameStrings
<1>1. leftOver => Fits
  BY <1>u, <1>t, LeftOverStars DEF GlobInv
<1>2. ~leftOver /\ PlainText => ~Fits
  <2>1. SUFFICES ASSUME PlainText, NEW c \in Cuts(Len(glob), Len(text)) PROVE leftOver
    BY DEF Fits, Describes
  <2>2. IF star < 0 THEN c[pi] = si ELSE c[star + 1] >= mark /\ c[pi] - c[star + 1] = si - mark
    BY <2>1 DEF GlobInv, GreedyInv
  <2>3. c[pi] \in Nat /\ (star >= 0 => c[star + 1] \in Nat)
    BY <1>t, CutIs
  <2>4. c[pi] >= Len(text)
    BY <1>u, <1>t, <2>2, <2>3
  <2>5. QED
    BY <1>t, <2>4, OnlyStarsFollow
<1>3. GlobTypeOK'
  BY <1>u DEF GlobInv, GlobTypeOK
<1>4. StarInv' /\ Describes(pi, si)' /\ GreedyInv'
  BY <1>u, <1>s, CutsStay DEF GlobInv, StarInv, GreedyInv
<1>5. matched' = "yes" \/ matched' = "no"
  BY <1>u
<1>6. (matched' = "yes" => leftOver) /\ (matched' = "no" => ~leftOver)
  BY <1>u
<1> HIDE DEF leftOver
<1>7. QED
  BY <1>s, <1>1, <1>2, <1>3, <1>4, <1>5, <1>6, CutsStay DEF GlobInv

(* Every step of the matcher.                                              *)
LEMMA GlobStepKeeps == GlobInv /\ [GlobNext]_globVars => GlobInv'
<1> SUFFICES ASSUME GlobInv, [GlobNext]_globVars PROVE GlobInv'
  OBVIOUS
<1>1. CASE UNCHANGED globVars
  <2>1. /\ glob' = glob /\ text' = text /\ pi' = pi /\ si' = si /\ star' = star /\ mark' = mark
        /\ matched' = matched
    BY <1>1 DEF globVars
  <2>2. SameStrings
    BY <2>1 DEF SameStrings
  <2>3. QED
    BY <2>1, <2>2, CutsStay DEF GlobInv, GlobTypeOK, StarInv, GreedyInv
<1>2. QED
  BY <1>1, CallStep, TakeByteStep, TakeStarStep, BacktrackStep, NoMatchStep, TextEndsStep
     DEF GlobNext, GlobStep

(* The loop of matchGlob (internal/features/permissions/bash.go) answers   *)
(* yes only for a command its pattern describes, and no only for one it    *)
(* does not describe, unless the command has an asterisk of its own, for   *)
(* any alphabet and any length of either.                                  *)
THEOREM GlobStaysRight == GlobSpec => []GlobIsRight
<1>1. GlobInv => GlobIsRight
  <2>1. matched = "no" /\ Fits /\ GlobInv => \E i \in DOMAIN text : text[i] = Star
    BY DEF GlobInv, GlobTypeOK, PlainText
  <2>2. QED
    BY <2>1 DEF GlobInv, GlobIsRight, MatchesWhatItSays
<1>2. QED
  BY <1>1, GlobBegins, GlobStepKeeps, PTL DEF GlobSpec
-----------------------------------------------------------------------------
(* The judge and the advisor gate (SystemOne).                             *)

Decisions  == {Lenient, Human, Denial}
JudgeCalls == [kind : CallKinds, outside : BOOLEAN, decision : Decisions]
Children3  == {"none", "asking", "done"}

(* Every variable of the judge and the gate, of its type.                  *)
JudgeTypes ==
  /\ judge \in [armed : BOOLEAN, failures : Nat, current : Candidates]
  /\ gate \in [consulted : BOOLEAN, calls : 0 .. MaxConsults, writes : Nat, iters : Nat]
  /\ stage \in {"idle", "batchA", "decided", "batchB", "unanswered", "answered", "gating", "running"}
  /\ iteration \in 0 .. MaxIterations /\ turns \in 0 .. MaxTurns
  /\ calls \in Seq(JudgeCalls) /\ gated \in Nat
  /\ child \in [Children -> Children3]
  /\ serving \in Candidates /\ due \in BOOLEAN /\ paid \in Nat
  /\ advised \in {"no", "fresh", "stale", "unasked"}

Before == {"batchB", "unanswered", "answered"}
Gating == Before \cup {"gating"}
Issued == Gating \cup {"running"}

(* How far the iteration is.                                               *)
RoundInv ==
  /\ gate.iters <= iteration
  /\ stage # "idle" => iteration >= 1
  /\ stage \in Gating => gated < Len(calls)
  /\ stage = "running" => gated = Len(calls)
  /\ stage \in {"gating", "running"} => gated \in 1 .. Len(calls)

InAsking == {c \in Children : child[c] = "asking"}
Slack    == IF Children = {} THEN 0 ELSE Cardinality(Children) - 1

(* Who may still fail: the children that have asked.                       *)
BreakerInv ==
  /\ paid = judge.failures
  /\ stage # "running" => InAsking = {}
  /\ stage = "batchA" => ~Tripped
  /\ judge.failures + Cardinality(InAsking) <= MaxFailures + Slack

(* What the block has made of the batch, from its issue on.                *)
HoldInv ==
  /\ judge.armed = due
  /\ stage \in Issued /\ Consults(calls) => ~due
  /\ stage \in Issued /\ due =>
       \A i \in DOMAIN calls : calls[i].kind \notin {"advisor", "read"} => calls[i].decision = Denial
  /\ stage \in {"batchB", "unanswered"} =>
       \A i \in DOMAIN calls :
         calls[i].decision =
           IF due /\ calls[i].kind \notin {"advisor", "read"} THEN Denial
           ELSE IF calls[i].outside THEN Human ELSE Lenient

(* What the gate remembers of the advice that was taken.                   *)
AdviceInv ==
  /\ advised # "unasked"
  /\ gate.consulted => advised # "no"
  /\ gate.consulted /\ gate.writes = 0 => advised = "fresh"
  /\ stage \in {"gating", "running"} /\ calls[gated].kind = "advisor" =>
       gate.consulted /\ gate.writes = 0 /\ gate.iters = 0

JudgeInv == JudgeTypes /\ RoundInv /\ BreakerInv /\ HoldInv /\ AdviceInv
-----------------------------------------------------------------------------
USE SystemOneAssumption

(* What the invariant says of the judge and of the advice.                 *)
LEMMA JudgeInvIsSound ==
  JudgeInv => JudgeTypeOK /\ BreakerBoundsTheStall /\ SilenceChangesNothing /\ AdviceIsHeeded
<1> SUFFICES ASSUME JudgeInv
             PROVE  JudgeTypeOK /\ BreakerBoundsTheStall /\ SilenceChangesNothing /\ AdviceIsHeeded
  OBVIOUS
<1>i. JudgeTypes /\ RoundInv /\ BreakerInv /\ HoldInv /\ AdviceInv
  BY DEF JudgeInv
<1>c. DOMAIN calls = 1 .. Len(calls) /\ Len(calls) \in Nat /\ (calls # <<>> => Len(calls) # 0)
  BY <1>i, LenProperties, EmptySeq DEF JudgeTypes
<1>1. JudgeTypeOK
  BY <1>i DEF JudgeTypes, RoundInv, JudgeTypeOK, Children3
<1>2. BreakerBoundsTheStall
  <2>1. Cardinality(InAsking) \in Nat /\ Cardinality(Children) \in Nat
    BY FS_Subset, FS_CardinalityType DEF InAsking
  <2>2. QED
    BY <1>i, <2>1 DEF BreakerInv, BreakerBoundsTheStall, Slack, JudgeTypes
<1>3. SilenceChangesNothing
  BY <1>i DEF HoldInv, SilenceChangesNothing
<1>4. DueConsultBlocks
  BY <1>i DEF HoldInv, DueConsultBlocks, Issued
<1>5. AdviceComesFirst
  BY <1>i DEF AdviceInv, AdviceComesFirst
<1>6. AdviceOpensTheWay
  <2> SUFFICES ASSUME stage = "running", calls # <<>>, calls[Len(calls)].kind = "advisor"
               PROVE  /\ ~judge.armed
                      /\ \A kind \in CallKinds \ {"advisor"} : ~GateDenies(gate, kind)
    BY DEF AdviceOpensTheWay
  <2>1. gate.consulted /\ gate.writes = 0 /\ gate.iters = 0
    BY <1>i DEF RoundInv, AdviceInv
  <2>2. Consults(calls)
    BY <1>c DEF Consults
  <2>3. ~judge.armed
    BY <1>i, <2>2 DEF HoldInv, Issued, JudgeTypes
  <2>4. ~CadenceDue(gate)
    BY <2>1 DEF CadenceDue
  <2>5. QED
    BY <2>1, <2>3, <2>4 DEF GateDenies, CallKinds
<1>7. QED
  BY <1>1, <1>2, <1>3, <1>4, <1>5, <1>6 DEF AdviceIsHeeded

(* Nothing is judged and nobody asks at the start.                         *)
LEMMA JudgeBegins == JudgeInit => JudgeInv
<1> SUFFICES ASSUME JudgeInit PROVE JudgeInv
  OBVIOUS
<1>1. calls = <<>> /\ calls \in Seq(JudgeCalls) /\ DOMAIN calls = {}
  BY EmptySeq, LenProperties DEF JudgeInit
<1>2. InAsking = {} /\ Cardinality(InAsking) = 0 /\ Cardinality(Children) \in Nat
  BY FS_EmptySet, FS_CardinalityType DEF JudgeInit, InAsking
<1>3. Slack \in Nat
  BY <1>2, FS_EmptySet, FS_CardinalityType DEF Slack
<1>u. /\ judge = [armed |-> FALSE, failures |-> 0, current |-> FirstModel]
      /\ gate = [consulted |-> FALSE, calls |-> 0, writes |-> 0, iters |-> 0]
      /\ stage = "idle" /\ iteration = 0 /\ turns = 0 /\ gated = 0
      /\ child = [c \in Children |-> "none"] /\ serving = FirstModel
      /\ due = FALSE /\ paid = 0 /\ advised = "no"
  BY DEF JudgeInit, FreshGate
<1>4. JudgeTypes
  <2>1. judge \in [armed : BOOLEAN, failures : Nat, current : Candidates]
    BY <1>u
  <2>2. gate \in [consulted : BOOLEAN, calls : 0 .. MaxConsults, writes : Nat, iters : Nat]
    BY <1>u
  <2>3. iteration \in 0 .. MaxIterations /\ turns \in 0 .. MaxTurns
    BY <1>u
  <2>4. QED
    BY <1>u, <1>1, <2>1, <2>2, <2>3 DEF JudgeTypes, Children3
<1>5a. RoundInv
  BY <1>u DEF RoundInv, Gating, Before
<1>5b. HoldInv
  BY <1>u DEF HoldInv, Issued, Gating, Before
<1>5c. AdviceInv
  BY <1>u DEF AdviceInv
<1>6. BreakerInv
  BY <1>2, <1>3 DEF JudgeInit, BreakerInv, Tripped
<1>7. QED
  BY <1>4, <1>5a, <1>5b, <1>5c, <1>6 DEF JudgeInv

(* The children that ask, when one of them starts or stops asking.         *)
LEMMA AskersMove ==
  ASSUME JudgeTypes, NEW c \in Children, NEW what \in Children3,
         child' = [child EXCEPT ![c] = what]
  PROVE  /\ Cardinality(InAsking) \in Nat /\ Cardinality(InAsking') \in Nat
         /\ Cardinality(InAsking') <= Cardinality(Children)
         /\ child[c] = "asking" /\ what # "asking" =>
              Cardinality(InAsking') = Cardinality(InAsking) - 1
<1>1. IsFiniteSet(InAsking) /\ IsFiniteSet(InAsking')
  BY FS_Subset DEF InAsking
<1>2. Cardinality(InAsking) \in Nat /\ Cardinality(InAsking') \in Nat
  BY <1>1, FS_CardinalityType
<1>3. Cardinality(InAsking') <= Cardinality(Children)
  BY FS_Subset DEF InAsking
<1>4. ASSUME child[c] = "asking", what # "asking"
      PROVE  Cardinality(InAsking') = Cardinality(InAsking) - 1
  <2>1. InAsking' = InAsking \ {c} /\ c \in InAsking
    BY <1>4 DEF InAsking, JudgeTypes
  <2>2. QED
    BY <2>1, <1>1, FS_RemoveElement
<1>5. QED
  BY <1>2, <1>3, <1>4

(* Nobody asks once the children are reset.                                *)
LEMMA NoAskers ==
  ASSUME \A c \in Children : child'[c] # "asking"
  PROVE  InAsking' = {} /\ Cardinality(InAsking') = 0
BY FS_EmptySet DEF InAsking

(* How far the children may overshoot the breaker.                         *)
LEMMA SlackIsNat == Slack \in Nat
<1>1. Cardinality(Children) \in Nat /\ (Children # {} => Cardinality(Children) # 0)
  BY FS_CardinalityType, FS_EmptySet
<1>2. QED
  BY <1>1 DEF Slack

(* Between the calls: a turn begins, goes on or ends.                      *)
LEMMA RoundStep ==
  ASSUME JudgeInv, BeginTurn \/ NextIteration \/ EndTurn
  PROVE  JudgeInv'
<1>i. JudgeTypes /\ RoundInv /\ BreakerInv /\ HoldInv /\ AdviceInv
  BY DEF JudgeInv
<1>e. <<>> \in Seq(JudgeCalls) /\ Len(<<>>) = 0
  BY EmptySeq
<1>1. CASE BeginTurn
  <2>u. /\ stage = "idle" /\ stage' = "batchA" /\ turns < MaxTurns /\ turns' = turns + 1
        /\ iteration' = 1 /\ judge' = [judge EXCEPT !.armed = FALSE, !.failures = 0]
        /\ gate' = [consulted |-> FALSE, calls |-> 0, writes |-> 0, iters |-> 0]
        /\ due' = FALSE /\ paid' = 0 /\ advised' = "no" /\ UNCHANGED <<calls, gated, child,
                                                                       serving>>
    BY <1>1 DEF BeginTurn, BeforeIteration, FreshGate
  <2>1. /\ judge' \in [armed : BOOLEAN, failures : Nat, current : Candidates]
        /\ judge'.armed = FALSE /\ judge'.failures = 0
    BY <1>i, <2>u DEF JudgeTypes
  <2>2. gate' \in [consulted : BOOLEAN, calls : 0 .. MaxConsults, writes : Nat, iters : Nat]
    BY <2>u
  <2>3. turns' \in 0 .. MaxTurns /\ iteration' \in 0 .. MaxIterations
    BY <1>i, <2>u DEF JudgeTypes
  <2>4. JudgeTypes'
    BY <1>i, <2>u, <2>1, <2>2, <2>3 DEF JudgeTypes
  <2>5. RoundInv'
    BY <2>u DEF RoundInv, Gating, Before
  <2>6. BreakerInv'
    <3>1. InAsking' = {}
      BY <1>i, <2>u DEF BreakerInv, InAsking
    <3>2. Cardinality(InAsking') = 0 /\ Slack \in Nat
      BY <3>1, FS_EmptySet, SlackIsNat
    <3>3. QED
      BY <2>u, <2>1, <3>1, <3>2 DEF BreakerInv, Tripped, Slack
  <2>7. HoldInv'
    BY <2>u, <2>1 DEF HoldInv, Issued, Gating, Before
  <2>8. AdviceInv'
    BY <2>u DEF AdviceInv
  <2>9. QED
    BY <2>4, <2>5, <2>6, <2>7, <2>8 DEF JudgeInv
<1>2. CASE NextIteration
  <2>u. /\ stage = "running" /\ stage' \in {"decided", "batchA"} /\ (stage' = "batchA" => ~Tripped)
        /\ iteration < MaxIterations /\ iteration' = iteration + 1
        /\ gate' = BeforeIteration(gate, iteration + 1)
        /\ child' = [c \in Children |-> "none"] /\ calls' = <<>> /\ gated' = 0
        /\ UNCHANGED <<judge, turns, serving, due, paid, advised>>
    BY <1>2 DEF NextIteration
  <2>g. gate' = [gate EXCEPT !.iters = @ + 1]
    BY <1>i, <2>u DEF BeforeIteration, RoundInv, JudgeTypes
  <2>h. /\ gate' \in [consulted : BOOLEAN, calls : 0 .. MaxConsults, writes : Nat, iters : Nat]
        /\ gate'.consulted = gate.consulted /\ gate'.writes = gate.writes
        /\ gate'.iters = gate.iters + 1 /\ gate.iters \in Nat
    BY <1>i, <2>g DEF JudgeTypes
  <2>3. iteration \in Nat /\ iteration' \in 0 .. MaxIterations
    BY <1>i, <2>u DEF JudgeTypes
  <2>4. JudgeTypes'
    BY <1>i, <1>e, <2>u, <2>h, <2>3 DEF JudgeTypes, Children3
  <2>5. RoundInv'
    BY <1>i, <2>u, <2>h, <2>3 DEF RoundInv, Gating, Before
  <2>6. BreakerInv'
    <3>1. InAsking' = {} /\ Cardinality(InAsking') = 0
      BY <2>u, NoAskers
    <3>2. Cardinality(InAsking) \in Nat /\ Slack \in Nat
      BY SlackIsNat, FS_Subset, FS_CardinalityType DEF InAsking
    <3>3. QED
      BY <1>i, <2>u, <3>1, <3>2 DEF BreakerInv, Tripped, Slack, JudgeTypes
  <2>7. HoldInv'
    BY <1>i, <2>u DEF HoldInv, Issued, Gating, Before
  <2>8. AdviceInv'
    BY <1>i, <2>u, <2>h DEF AdviceInv
  <2>9. QED
    BY <2>4, <2>5, <2>6, <2>7, <2>8 DEF JudgeInv
<1>3. CASE EndTurn
  <2>u. /\ stage \in {"decided", "running"} /\ stage' = "idle"
        /\ child' = [c \in Children |-> "none"] /\ calls' = <<>> /\ gated' = 0
        /\ UNCHANGED <<judge, gate, iteration, turns, serving, due, paid, advised>>
    BY <1>3 DEF EndTurn
  <2>4. JudgeTypes'
    BY <1>i, <1>e, <2>u DEF JudgeTypes, Children3
  <2>5. RoundInv'
    BY <1>i, <2>u DEF RoundInv, Gating, Before
  <2>6. BreakerInv'
    <3>1. InAsking' = {} /\ Cardinality(InAsking') = 0
      BY <2>u, NoAskers
    <3>2. Cardinality(InAsking) \in Nat /\ Slack \in Nat
      BY SlackIsNat, FS_Subset, FS_CardinalityType DEF InAsking
    <3>3. QED
      BY <1>i, <2>u, <3>1, <3>2 DEF BreakerInv, Tripped, Slack, JudgeTypes
  <2>7. HoldInv'
    BY <1>i, <2>u DEF HoldInv, Issued, Gating, Before
  <2>8. AdviceInv'
    BY <1>i, <2>u DEF AdviceInv
  <2>9. QED
    BY <2>4, <2>5, <2>6, <2>7, <2>8 DEF JudgeInv
<1>4. QED
  BY <1>1, <1>2, <1>3

(* Batch A is answered or not, and the user switches models.               *)
LEMMA BatchAStep ==
  ASSUME JudgeInv, BatchAFails \/ BatchAAnswers \/ \E m \in Candidates : UserSwitches(m)
  PROVE  JudgeInv'
<1>i. JudgeTypes /\ RoundInv /\ BreakerInv /\ HoldInv /\ AdviceInv
  BY DEF JudgeInv
<1>a. stage # "running" => InAsking = {} /\ Cardinality(InAsking) = 0
  BY <1>i, FS_EmptySet DEF BreakerInv
<1>s. Slack \in Nat
  BY SlackIsNat
<1>1. CASE BatchAFails
  <2>u. /\ stage = "batchA" /\ stage' = "decided"
        /\ judge' = [judge EXCEPT !.failures = @ + 1] /\ paid' = paid + 1
        /\ UNCHANGED <<gate, iteration, turns, calls, gated, child, serving, due, advised>>
    BY <1>1 DEF BatchAFails, Failed
  <2>1. /\ judge' \in [armed : BOOLEAN, failures : Nat, current : Candidates]
        /\ judge'.armed = judge.armed /\ judge'.failures = judge.failures + 1 /\ judge.failures \in Nat
    <3>1. judge \in [armed : BOOLEAN, failures : Nat, current : Candidates]
      BY <1>i DEF JudgeTypes
    <3>2. judge' = [judge EXCEPT !.failures = judge.failures + 1]
      BY <2>u
    <3>3. judge.failures + 1 \in Nat
      BY <3>1
    <3>4. QED
      BY <3>1, <3>2, <3>3
  <2>4. JudgeTypes'
    BY <1>i, <2>u, <2>1 DEF JudgeTypes
  <2>5. RoundInv' /\ HoldInv' /\ AdviceInv'
    BY <1>i, <2>u, <2>1 DEF RoundInv, HoldInv, AdviceInv, Issued, Gating, Before
  <2>6. BreakerInv'
    BY <1>i, <1>a, <1>s, <2>u, <2>1 DEF BreakerInv, Tripped, InAsking, Slack
  <2>9. QED
    BY <2>4, <2>5, <2>6 DEF JudgeInv
<1>2. CASE BatchAAnswers
  <2>1. PICK needed \in BOOLEAN, m \in Candidates, k \in Candidates :
          /\ judge' = [[judge EXCEPT !.failures = 0] EXCEPT !.armed = @ \/ needed, !.current = k]
          /\ due' = (due \/ needed) /\ serving' = m
    BY <1>2, <1>i DEF BatchAAnswers, Succeeded, Routed, JudgeTypes
  <2>u. /\ stage = "batchA" /\ stage' = "decided" /\ paid' = 0
        /\ UNCHANGED <<gate, iteration, turns, calls, gated, child, advised>>
    BY <1>2 DEF BatchAAnswers
  <2>2. /\ judge' \in [armed : BOOLEAN, failures : Nat, current : Candidates]
        /\ judge'.armed = (judge.armed \/ needed) /\ judge'.failures = 0
    BY <1>i, <2>1 DEF JudgeTypes
  <2>3. due' \in BOOLEAN /\ judge'.armed = due'
    BY <1>i, <2>1, <2>2 DEF HoldInv, JudgeTypes
  <2>4. JudgeTypes'
    BY <1>i, <2>u, <2>1, <2>2, <2>3 DEF JudgeTypes
  <2>5. RoundInv' /\ AdviceInv'
    BY <1>i, <2>u DEF RoundInv, AdviceInv, Gating, Before
  <2>6. HoldInv'
    BY <2>u, <2>3 DEF HoldInv, Issued, Gating, Before
  <2>7. BreakerInv'
    BY <1>i, <1>a, <1>s, <2>u, <2>2 DEF BreakerInv, Tripped, InAsking, Slack
  <2>9. QED
    BY <2>4, <2>5, <2>6, <2>7 DEF JudgeInv
<1>3. ASSUME NEW m \in Candidates, UserSwitches(m) PROVE JudgeInv'
  <2>u. /\ serving' = m
        /\ UNCHANGED <<judge, gate, stage, iteration, turns, calls, gated, child, due, paid,
                       advised>>
    BY <1>3 DEF UserSwitches
  <2>4. JudgeTypes'
    BY <1>i, <2>u DEF JudgeTypes
  <2>5. RoundInv' /\ HoldInv' /\ AdviceInv' /\ BreakerInv'
    BY <1>i, <2>u DEF RoundInv, HoldInv, AdviceInv, BreakerInv, InAsking, Slack, Tripped
  <2>9. QED
    BY <2>4, <2>5 DEF JudgeInv
<1>4. QED
  BY <1>1, <1>2, <1>3

(* Two sequences with one domain have one length.                          *)
LEMMA SameLength ==
  ASSUME NEW S, NEW s \in Seq(S), NEW t \in Seq(S), DOMAIN s = DOMAIN t
  PROVE  Len(s) = Len(t)
<1>1. Len(s) \in Nat /\ Len(t) \in Nat /\ 1 .. Len(s) = 1 .. Len(t)
  BY LenProperties
<1>2. QED
  BY <1>1

(* What becomes of one call of a batch before it is judged.                *)
LEMMA IssuedFacts ==
  ASSUME NEW one \in [kind : CallKinds, outside : BOOLEAN, decision : {Lenient}], NEW armed \in BOOLEAN
  PROVE  LET placed == Placed(Blocked(one, armed))
         IN  /\ placed \in JudgeCalls /\ placed.kind = one.kind
             /\ placed.decision = IF armed /\ one.kind \notin {"advisor", "read"} THEN Denial
                                  ELSE IF placed.outside THEN Human ELSE Lenient
<1> DEFINE b == Blocked(one, armed)
<1>1. /\ b \in JudgeCalls /\ b.kind = one.kind /\ b.outside = one.outside
      /\ b.decision = IF armed /\ one.kind \notin {"advisor", "read"} THEN Denial ELSE Lenient
  BY DEF Blocked, Escalate, Lenient, Human, Denial, JudgeCalls, Decisions
<1>2. /\ Placed(b) \in JudgeCalls /\ Placed(b).kind = b.kind /\ Placed(b).outside = b.outside
      /\ Placed(b).decision = IF b.outside /\ b.decision = Lenient THEN Human ELSE b.decision
  <2> HIDE DEF b
  <2>1. QED
    BY <1>1 DEF Placed, Escalate, Lenient, Human, Denial, JudgeCalls, Decisions
<1>3. QED
  BY <1>1, <1>2 DEF Lenient, Human, Denial

(* A batch is issued.                                                      *)
LEMMA IssueStep ==
  ASSUME JudgeInv, Issue
  PROVE  JudgeInv'
<1>i. JudgeTypes /\ RoundInv /\ BreakerInv /\ HoldInv /\ AdviceInv
  BY DEF JudgeInv
<1>1. PICK issued \in Batches :
        /\ calls' = [i \in DOMAIN issued |-> Placed(Blocked(issued[i], judge.armed /\ ~Consults(issued)))]
        /\ judge' = [judge EXCEPT !.armed = judge.armed /\ ~Consults(issued)]
        /\ due' = (due /\ ~Consults(issued))
  BY DEF Issue
<1>u. /\ stage = "decided" /\ stage' = "batchB" /\ gated' = 0
      /\ UNCHANGED <<gate, iteration, turns, child, serving, paid, advised>>
  BY DEF Issue
<1> DEFINE armed == judge.armed /\ ~Consults(issued)
           raw   == [kind : CallKinds, outside : BOOLEAN, decision : {Lenient}]
<1>2. issued \in Seq(raw) /\ issued # <<>>
  BY BatchesAssumption
<1>3. Len(issued) \in Nat \ {0} /\ DOMAIN issued = 1 .. Len(issued) /\ \A i \in DOMAIN issued : issued[i] \in raw
  BY <1>2, LenProperties, EmptySeq, ElementOfSeq
<1>4. armed \in BOOLEAN /\ judge'.armed = armed /\ due' = armed /\ due' \in BOOLEAN
      /\ judge'.failures = judge.failures
      /\ judge' \in [armed : BOOLEAN, failures : Nat, current : Candidates]
  BY <1>i, <1>1 DEF JudgeTypes, HoldInv
<1>5. ASSUME NEW i \in DOMAIN issued
      PROVE  /\ calls'[i] \in JudgeCalls /\ calls'[i].kind = issued[i].kind
             /\ calls'[i].decision = IF armed /\ issued[i].kind \notin {"advisor", "read"} THEN Denial
                                     ELSE IF calls'[i].outside THEN Human ELSE Lenient
  <2>1. calls'[i] = Placed(Blocked(issued[i], armed)) /\ issued[i] \in raw
    BY <1>1, <1>3
  <2> HIDE DEF armed
  <2>2. QED
    BY <2>1, <1>4, IssuedFacts
<1>6. calls' \in Seq(JudgeCalls) /\ DOMAIN calls' = DOMAIN issued
  BY <1>1, <1>3, <1>5, SeqDef
<1>7. Len(calls') \in Nat /\ 0 < Len(calls')
  <2>1. 1 \in DOMAIN calls'
    BY <1>3, <1>6
  <2>2. QED
    BY <2>1, <1>6, LenProperties
<1>8. Consults(calls') <=> Consults(issued)
  BY <1>5, <1>6 DEF Consults
<1>9. JudgeTypes'
  BY <1>i, <1>u, <1>4, <1>6 DEF JudgeTypes
<1>10. RoundInv'
  BY <1>i, <1>u, <1>7 DEF RoundInv, Gating, Before
<1>11. BreakerInv'
  BY <1>i, <1>u, <1>4 DEF BreakerInv, InAsking, Slack, Tripped
<1>12. HoldInv'
  <2>1. Consults(calls') => ~due'
    BY <1>4, <1>8
  <2>2. \A i \in DOMAIN calls' :
          calls'[i].decision = IF due' /\ calls'[i].kind \notin {"advisor", "read"} THEN Denial
                               ELSE IF calls'[i].outside THEN Human ELSE Lenient
    BY <1>4, <1>5, <1>6
  <2>3. QED
    BY <1>u, <1>4, <2>1, <2>2 DEF HoldInv
<1>13. AdviceInv'
  BY <1>i, <1>u DEF AdviceInv
<1>14. QED
  BY <1>9, <1>10, <1>11, <1>12, <1>13 DEF JudgeInv

(* The judge is passed over, fails or answers.                             *)
LEMMA BatchBStep ==
  ASSUME JudgeInv, BatchBSkipped \/ BatchBFails \/ BatchBAnswers
  PROVE  JudgeInv'
<1>i. JudgeTypes /\ RoundInv /\ BreakerInv /\ HoldInv /\ AdviceInv
  BY DEF JudgeInv
<1>s. Slack \in Nat
  BY SlackIsNat
<1>1. CASE BatchBSkipped
  <2>u. /\ stage = "batchB" /\ stage' = "unanswered"
        /\ UNCHANGED <<judge, gate, iteration, turns, calls, gated, child, serving, due, paid,
                       advised>>
    BY <1>1 DEF BatchBSkipped
  <2>1. JudgeTypes' /\ RoundInv' /\ AdviceInv'
    BY <1>i, <2>u DEF JudgeTypes, RoundInv, AdviceInv, Gating, Before
  <2>2. BreakerInv' /\ HoldInv'
    BY <1>i, <2>u DEF BreakerInv, HoldInv, Issued, Gating, Before, InAsking, Slack, Tripped,
       Consults
  <2>3. QED
    BY <2>1, <2>2 DEF JudgeInv
<1>2. CASE BatchBFails
  <2>u. /\ stage = "batchB" /\ stage' = "unanswered" /\ ~Tripped
        /\ judge' = [judge EXCEPT !.failures = @ + 1] /\ paid' = paid + 1
        /\ UNCHANGED <<gate, iteration, turns, calls, gated, child, serving, due, advised>>
    BY <1>2 DEF BatchBFails, Failed
  <2>1. /\ judge' \in [armed : BOOLEAN, failures : Nat, current : Candidates]
        /\ judge'.armed = judge.armed /\ judge'.failures = judge.failures + 1 /\ judge.failures \in Nat
    <3>1. judge \in [armed : BOOLEAN, failures : Nat, current : Candidates]
      BY <1>i DEF JudgeTypes
    <3>2. judge' = [judge EXCEPT !.failures = @ + 1]
      BY <2>u
    <3>3. QED
      BY <3>1, <3>2
  <2>2. InAsking = {} /\ InAsking' = {} /\ Cardinality(InAsking') = 0
    BY <1>i, <2>u, FS_EmptySet DEF BreakerInv, InAsking
  <2>3. JudgeTypes'
    BY <1>i, <2>u, <2>1 DEF JudgeTypes
  <2>4. RoundInv' /\ AdviceInv'
    BY <1>i, <2>u DEF RoundInv, AdviceInv, Gating, Before
  <2>5. HoldInv'
    BY <1>i, <2>u, <2>1 DEF HoldInv, Issued, Gating, Before, Consults
  <2>6. BreakerInv'
    BY <1>i, <1>s, <2>u, <2>1, <2>2 DEF BreakerInv, Tripped, Slack
  <2>7. QED
    BY <2>3, <2>4, <2>5, <2>6 DEF JudgeInv
<1>3. CASE BatchBAnswers
  <2>1. PICK flagged \in SUBSET Judged :
          calls' = [i \in DOMAIN calls |-> IF i \in flagged THEN Escalate(calls[i], Human) ELSE calls[i]]
    BY <1>3 DEF BatchBAnswers
  <2>u. /\ stage = "batchB" /\ stage' = "answered"
        /\ judge' = [judge EXCEPT !.failures = 0] /\ paid' = 0
        /\ UNCHANGED <<gate, iteration, turns, gated, child, serving, due, advised>>
    BY <1>3 DEF BatchBAnswers, Succeeded
  <2>2. /\ judge' \in [armed : BOOLEAN, failures : Nat, current : Candidates]
        /\ judge'.armed = judge.armed /\ judge'.failures = 0
    BY <1>i, <2>u DEF JudgeTypes
  <2>3. DOMAIN calls = 1 .. Len(calls) /\ Len(calls) \in Nat /\ \A i \in DOMAIN calls : calls[i] \in JudgeCalls
    BY <1>i, LenProperties, ElementOfSeq DEF JudgeTypes
  <2>4. ASSUME NEW i \in DOMAIN calls
        PROVE  /\ calls'[i] \in JudgeCalls /\ calls'[i].kind = calls[i].kind
               /\ calls[i].decision = Denial => calls'[i].decision = Denial
    <3>1. calls[i].decision = Denial => i \notin flagged
      BY DEF Judged
    <3>2. QED
      BY <2>1, <2>3, <3>1 DEF Escalate, JudgeCalls, Decisions, Human
  <2>5. calls' \in Seq(JudgeCalls) /\ DOMAIN calls' = DOMAIN calls
    BY <2>1, <2>3, <2>4, SeqDef
  <2>6. Len(calls') = Len(calls)
    BY <1>i, <2>5, SameLength DEF JudgeTypes
  <2>7. Consults(calls') => Consults(calls)
    BY <2>4, <2>5 DEF Consults
  <2>8. InAsking = {} /\ InAsking' = {} /\ Cardinality(InAsking') = 0
    BY <1>i, <2>u, FS_EmptySet DEF BreakerInv, InAsking
  <2>9. JudgeTypes'
    BY <1>i, <2>u, <2>2, <2>5 DEF JudgeTypes
  <2>10. RoundInv'
    BY <1>i, <2>u, <2>6 DEF RoundInv, Gating, Before
  <2>11. AdviceInv'
    BY <1>i, <2>u DEF AdviceInv
  <2>12. HoldInv'
    BY <1>i, <2>u, <2>2, <2>4, <2>5, <2>7 DEF HoldInv, Issued, Gating, Before
  <2>13. BreakerInv'
    BY <1>s, <2>u, <2>2, <2>8 DEF BreakerInv, Slack
  <2>14. QED
    BY <2>9, <2>10, <2>11, <2>12, <2>13 DEF JudgeInv
<1>4. QED
  BY <1>1, <1>2, <1>3

(* What the gate remembers after one more call.                            *)
LEMMA CountedFacts ==
  ASSUME NEW g \in [consulted : BOOLEAN, calls : 0 .. MaxConsults, writes : Nat, iters : Nat],
         NEW kind \in CallKinds
  PROVE  /\ GateCounts(g, kind) \in
              [consulted : BOOLEAN, calls : 0 .. MaxConsults, writes : Nat, iters : Nat]
         /\ GateCounts(g, kind).iters <= g.iters
         /\ kind = "advisor" => /\ GateCounts(g, kind).consulted /\ GateCounts(g, kind).writes = 0
                                /\ GateCounts(g, kind).iters = 0
         /\ kind = "write" =>
              /\ GateCounts(g, kind).consulted = g.consulted
              /\ GateCounts(g, kind).writes = IF GateDenies(g, kind) THEN g.writes ELSE g.writes + 1
         /\ kind \notin {"advisor", "write"} => GateCounts(g, kind) = g
<1>1. CASE kind = "advisor"
  <2> DEFINE n == IF Capped(g) THEN g.calls ELSE g.calls + 1
  <2>1. GateCounts(g, kind) = [consulted |-> TRUE, writes |-> 0, iters |-> 0, calls |-> n]
    BY <1>1 DEF GateCounts
  <2>2. n \in 0 .. MaxConsults
    BY DEF Capped
  <2> HIDE DEF n
  <2>3. g.iters \in Nat
    OBVIOUS
  <2>4. /\ GateCounts(g, kind).consulted = TRUE /\ GateCounts(g, kind).writes = 0
        /\ GateCounts(g, kind).iters = 0
        /\ GateCounts(g, kind) \in
             [consulted : BOOLEAN, calls : 0 .. MaxConsults, writes : Nat, iters : Nat]
    BY <2>1, <2>2
  <2>5. QED
    BY <1>1, <2>3, <2>4
<1>2. CASE kind = "write"
  <2>1. CASE GateDenies(g, kind)
    <3>1. GateCounts(g, kind) = g
      BY <1>2, <2>1 DEF GateCounts
    <3>2. QED
      BY <1>2, <2>1, <3>1
  <2>2. CASE ~GateDenies(g, kind)
    <3>1. GateCounts(g, kind) = [g EXCEPT !.writes = @ + 1]
      BY <1>2, <2>2 DEF GateCounts
    <3>2. QED
      BY <1>2, <2>2, <3>1
  <2>3. QED
    BY <2>1, <2>2
<1>3. CASE kind \notin {"advisor", "write"}
  <2>1. GateCounts(g, kind) = g
    BY <1>3 DEF GateCounts
  <2>2. QED
    BY <1>3, <2>1
<1>4. QED
  BY <1>1, <1>2, <1>3

(* The call after the ones seen is one of the batch.                       *)
LEMMA NextBelow ==
  ASSUME NEW g \in Nat, NEW n \in Nat, g < n
  PROVE  g + 1 \in 1 .. n /\ g + 1 \in Nat /\ (g + 1 # n => g + 1 < n)
OBVIOUS

(* The next call passes the gate or not.                                   *)
LEMMA PerCallStep ==
  ASSUME JudgeInv, PerCall
  PROVE  JudgeInv'
<1>i. JudgeTypes /\ RoundInv /\ BreakerInv /\ HoldInv /\ AdviceInv
  BY DEF JudgeInv
<1> DEFINE next == gated + 1
           one  == calls[next]
<1>u. /\ stage \in {"unanswered", "answered", "gating"} /\ gate' = GateCounts(gate, one.kind)
      /\ calls' = [calls EXCEPT ![next] = GateOne(one)] /\ advised' = Heard(one) /\ gated' = next
      /\ stage' = IF next = Len(calls) THEN "running" ELSE "gating"
      /\ UNCHANGED <<judge, iteration, turns, child, serving, due, paid>>
  BY DEF PerCall
<1>0. DOMAIN calls = 1 .. Len(calls) /\ Len(calls) \in Nat /\ gated \in Nat /\ gated < Len(calls)
  BY <1>i, <1>u, LenProperties DEF JudgeTypes, RoundInv, Gating, Before
<1>r. next \in 1 .. Len(calls) /\ next \in Nat /\ (next # Len(calls) => next < Len(calls))
  BY <1>0, NextBelow
<1>1. DOMAIN calls = 1 .. Len(calls) /\ Len(calls) \in Nat /\ next \in 1 .. Len(calls) /\ next \in Nat
  BY <1>0, <1>r
<1>2. one \in JudgeCalls /\ one.kind \in CallKinds
  <2>1. \A i \in 1 .. Len(calls) : calls[i] \in JudgeCalls
    BY <1>i, ElementOfSeq DEF JudgeTypes
  <2>2. QED
    BY <2>1, <1>1 DEF JudgeCalls
<1> HIDE DEF next, one
<1>3. /\ GateOne(one) \in JudgeCalls /\ GateOne(one).kind = one.kind
      /\ GateOne(one) = one \/ GateOne(one).decision = Denial
      /\ GateDenies(gate, one.kind) => GateOne(one).decision = Denial
  BY <1>2 DEF GateOne, Escalate, JudgeCalls, Decisions, Lenient, Human, Denial
<1>4. /\ calls' \in Seq(JudgeCalls) /\ Len(calls') = Len(calls) /\ DOMAIN calls' = 1 .. Len(calls)
      /\ \A i \in DOMAIN calls : calls'[i] = IF i = next THEN GateOne(one) ELSE calls[i]
  BY <1>i, <1>u, <1>1, <1>3, ExceptSeq, LenProperties DEF JudgeTypes
<1>5. /\ calls'[next].kind = one.kind
      /\ \A i \in DOMAIN calls : /\ calls'[i].kind = calls[i].kind
                                 /\ calls[i].decision = Denial => calls'[i].decision = Denial
  BY <1>1, <1>3, <1>4 DEF one
<1>6. gate \in [consulted : BOOLEAN, calls : 0 .. MaxConsults, writes : Nat, iters : Nat]
  BY <1>i DEF JudgeTypes
<1>7. /\ gate' \in [consulted : BOOLEAN, calls : 0 .. MaxConsults, writes : Nat, iters : Nat]
      /\ gate'.iters <= gate.iters
      /\ one.kind = "advisor" => gate'.consulted /\ gate'.writes = 0 /\ gate'.iters = 0
      /\ one.kind = "write" =>
           /\ gate'.consulted = gate.consulted
           /\ gate'.writes = IF GateDenies(gate, one.kind) THEN gate.writes ELSE gate.writes + 1
      /\ one.kind \notin {"advisor", "write"} => gate' = gate
  BY <1>u, <1>2, <1>6, CountedFacts
<1>8. /\ advised' \in {"no", "fresh", "stale", "unasked"} /\ advised' # "unasked"
      /\ gate'.consulted => advised' # "no"
      /\ gate'.consulted /\ gate'.writes = 0 => advised' = "fresh"
  <2>a. /\ advised \in {"no", "fresh", "stale"} /\ (gate.consulted => advised # "no")
        /\ gate.consulted /\ gate.writes = 0 => advised = "fresh"
    BY <1>i DEF AdviceInv, JudgeTypes
  <2>1. CASE one.kind = "advisor"
    BY <1>u, <2>1 DEF Heard
  <2>2. CASE one.kind = "write" /\ GateOne(one).decision # Denial
    <3>1. ~GateDenies(gate, "write")
      BY <1>3, <2>2
    <3>2. gate.consulted
      BY <3>1 DEF GateDenies
    <3>3. advised' = "stale"
      BY <1>u, <2>a, <2>2, <3>2 DEF Heard
    <3>4. gate'.writes = gate.writes + 1 /\ gate.writes \in Nat
      BY <1>6, <1>7, <2>2, <3>1
    <3>5. QED
      BY <3>3, <3>4
  <2>3. CASE one.kind = "write" /\ GateOne(one).decision = Denial
    <3>1. advised' = advised
      BY <1>u, <2>3 DEF Heard
    <3>2. gate'.consulted = gate.consulted /\ (gate'.writes = 0 => gate.writes = 0)
      BY <1>6, <1>7, <2>3
    <3>3. QED
      BY <2>a, <3>1, <3>2
  <2>4. CASE one.kind = "plan" /\ GateOne(one).decision # Denial
    <3>1. ~GateDenies(gate, "plan")
      BY <1>3, <2>4
    <3>2. gate.consulted /\ gate.writes = 0
      BY <1>6, <3>1 DEF GateDenies
    <3>3. advised' = advised
      BY <1>u, <2>a, <2>4, <3>2 DEF Heard
    <3>4. QED
      BY <1>7, <2>a, <2>4, <3>3
  <2>5. CASE one.kind \notin {"advisor", "write"} /\ ~(one.kind = "plan" /\ GateOne(one).decision # Denial)
    <3>1. advised' = advised
      BY <1>u, <2>5 DEF Heard
    <3>2. QED
      BY <1>7, <2>a, <2>5, <3>1
  <2>6. QED
    BY <2>1, <2>2, <2>3, <2>4, <2>5
<1>9. JudgeTypes'
  BY <1>i, <1>u, <1>1, <1>4, <1>7, <1>8 DEF JudgeTypes
<1>10. RoundInv'
  <2>1. gate'.iters <= iteration
    BY <1>i, <1>6, <1>7 DEF RoundInv, JudgeTypes
  <2>3. stage # "idle" /\ iteration >= 1
    BY <1>i, <1>u DEF RoundInv
  <2>4. gated' = next /\ Len(calls') = Len(calls) /\ next \in 1 .. Len(calls)
    BY <1>1, <1>u, <1>4
  <2>5. stage' \in {"running", "gating"} /\ (stage' = "running" <=> next = Len(calls))
    BY <1>u
  <2>6. QED
    BY <1>u, <1>r, <2>1, <2>3, <2>4, <2>5 DEF RoundInv, Gating, Before
<1>11. BreakerInv'
  BY <1>i, <1>u DEF BreakerInv, InAsking, Slack, Tripped
<1>12. HoldInv'
  <2>1. Consults(calls') => Consults(calls)
    BY <1>1, <1>4, <1>5 DEF Consults
  <2>2. QED
    BY <1>i, <1>u, <1>1, <1>4, <1>5, <2>1 DEF HoldInv, Issued, Gating, Before
<1>13. AdviceInv'
  BY <1>u, <1>5, <1>7, <1>8 DEF AdviceInv
<1>14. QED
  BY <1>9, <1>10, <1>11, <1>12, <1>13 DEF JudgeInv

(* A child asks, fails or is answered.                                     *)
LEMMA ChildAskStep ==
  ASSUME JudgeInv, NEW c \in Children, ChildStep(c)
  PROVE  JudgeInv'
<1>i. JudgeTypes /\ RoundInv /\ BreakerInv /\ HoldInv /\ AdviceInv
  BY DEF JudgeInv
<1>u. /\ stage' = stage /\ judge' \in [armed : BOOLEAN, failures : Nat, current : Candidates]
      /\ judge'.armed = judge.armed /\ paid' = judge'.failures
      /\ UNCHANGED <<gate, iteration, turns, calls, gated, serving, due, advised>>
  <2>1. judge \in [armed : BOOLEAN, failures : Nat, current : Candidates] /\ paid = judge.failures
    BY <1>i DEF JudgeTypes, BreakerInv
  <2>2. CASE ChildAsks(c)
    BY <2>1, <2>2 DEF ChildAsks
  <2>3. CASE ChildFails(c)
    BY <2>1, <2>3 DEF ChildFails, Failed
  <2>4. CASE ChildAnswered(c)
    BY <2>1, <2>4 DEF ChildAnswered, Succeeded
  <2>5. QED
    BY <2>2, <2>3, <2>4 DEF ChildStep
<1>k. Cardinality(Children) \in Nat /\ Slack = Cardinality(Children) - 1 /\ Cardinality(InAsking) \in Nat
  <2>1. Children # {} /\ Cardinality(Children) \in Nat
    BY FS_CardinalityType
  <2>2. Cardinality(InAsking) \in Nat
    BY FS_Subset, FS_CardinalityType DEF InAsking
  <2>3. QED
    BY <2>1, <2>2 DEF Slack
<1>n. judge.failures \in Nat /\ judge'.failures \in Nat
      /\ judge.failures + Cardinality(InAsking) <= MaxFailures + Slack
  BY <1>i, <1>u DEF JudgeTypes, BreakerInv
<1>1. /\ child' \in [Children -> Children3] /\ stage = "running"
      /\ judge'.failures + Cardinality(InAsking') <= MaxFailures + Slack
  <2>1. CASE ChildAsks(c)
    <3>1. stage = "running" /\ child' = [child EXCEPT ![c] = "asking"] /\ judge' = judge
          /\ judge.failures < MaxFailures
      BY <1>n, <2>1 DEF ChildAsks, Tripped
    <3>2. Cardinality(InAsking') \in Nat /\ Cardinality(InAsking') <= Cardinality(Children)
      BY <1>i, <3>1, AskersMove DEF Children3
    <3>3. judge'.failures + Cardinality(InAsking') <= MaxFailures + Slack
      BY <1>k, <1>n, <3>1, <3>2
    <3>4. QED
      BY <1>i, <3>1, <3>3 DEF JudgeTypes, Children3
  <2>2. CASE ChildFails(c)
    <3>1. child[c] = "asking" /\ child' = [child EXCEPT ![c] = "none"]
          /\ judge'.failures = judge.failures + 1
      BY <1>i, <2>2 DEF ChildFails, Failed, JudgeTypes
    <3>2. /\ Cardinality(InAsking') \in Nat
          /\ Cardinality(InAsking') = Cardinality(InAsking) - 1
      BY <1>i, <3>1, AskersMove DEF Children3
    <3>3. judge'.failures + Cardinality(InAsking') <= MaxFailures + Slack
      BY <1>k, <1>n, <3>1, <3>2
    <3>4. stage = "running"
      BY <1>i, <3>1 DEF BreakerInv, InAsking
    <3>5. QED
      BY <1>i, <3>1, <3>3, <3>4 DEF JudgeTypes, Children3
  <2>3. CASE ChildAnswered(c)
    <3>1. child[c] = "asking" /\ child' = [child EXCEPT ![c] = "done"] /\ judge'.failures = 0
      BY <1>i, <2>3 DEF ChildAnswered, Succeeded, JudgeTypes
    <3>2. /\ Cardinality(InAsking') \in Nat
          /\ Cardinality(InAsking') = Cardinality(InAsking) - 1
      BY <1>i, <3>1, AskersMove DEF Children3
    <3>3. judge'.failures + Cardinality(InAsking') <= MaxFailures + Slack
      BY <1>k, <1>n, <3>1, <3>2
    <3>4. stage = "running"
      BY <1>i, <3>1 DEF BreakerInv, InAsking
    <3>5. QED
      BY <1>i, <3>1, <3>3, <3>4 DEF JudgeTypes, Children3
  <2>4. QED
    BY <2>1, <2>2, <2>3 DEF ChildStep
<1>2. JudgeTypes'
  BY <1>i, <1>u, <1>1 DEF JudgeTypes
<1>3. RoundInv' /\ AdviceInv'
  BY <1>i, <1>u DEF RoundInv, AdviceInv, Gating, Before
<1>4. HoldInv'
  BY <1>i, <1>u DEF HoldInv, Issued, Gating, Before, Consults
<1>5. BreakerInv'
  BY <1>u, <1>1 DEF BreakerInv, Slack
<1>6. QED
  BY <1>2, <1>3, <1>4, <1>5 DEF JudgeInv

(* Every step of the judge and the gate.                                   *)
LEMMA JudgeStep == JudgeInv /\ [JudgeNext]_judgeVars => JudgeInv'
<1> SUFFICES ASSUME JudgeInv, [JudgeNext]_judgeVars PROVE JudgeInv'
  OBVIOUS
<1>1. CASE UNCHANGED judgeVars
  BY <1>1 DEF judgeVars, JudgeInv, JudgeTypes, RoundInv, BreakerInv, HoldInv, AdviceInv, InAsking,
     Slack, Tripped, Consults
<1>2. CASE JudgeNext
  BY <1>2, RoundStep, BatchAStep, IssueStep, BatchBStep, PerCallStep, ChildAskStep DEF JudgeNext
<1>3. QED
  BY <1>1, <1>2

(* The invariant of the judge and the gate holds throughout.               *)
LEMMA JudgeStaysSound == JudgeSpec => []JudgeInv
BY JudgeBegins, JudgeStep, PTL DEF JudgeSpec

(* The decision model (internal/features/systemone) costs a turn no more   *)
(* time-outs than its breaker allows, leaves every call alone when it does *)
(* not answer, and knows the model it routed to, for any number of         *)
(* children, iterations and turns and any batches.                         *)
THEOREM JudgeKeepsOut == JudgeSpec => JudgeStaysOut
<1>1. JudgeInv => JudgeTypeOK /\ BreakerBoundsTheStall /\ SilenceChangesNothing
  BY JudgeInvIsSound
<1>2. JudgeInv /\ [JudgeNext]_judgeVars =>
        [serving = judge.current /\ stage # "idle" => serving' = judge'.current]_judgeVars
  <2> SUFFICES ASSUME JudgeInv, JudgeNext, serving = judge.current, stage # "idle"
               PROVE  serving' = judge'.current
    OBVIOUS
  <2>1. CASE BatchAAnswers
    <3>1. PICK choice \in Candidates, go \in BOOLEAN, applied \in BOOLEAN, needed \in BOOLEAN :
            /\ judge' = [Succeeded(judge) EXCEPT !.armed = @ \/ needed,
                                                !.current = Routed(choice, go, applied).current]
            /\ serving' = Routed(choice, go, applied).model
      BY <2>1 DEF BatchAAnswers
    <3>2. Routed(choice, go, applied).current = Routed(choice, go, applied).model
      BY DEF Routed
    <3>3. judge \in [armed : BOOLEAN, failures : Nat, current : Candidates]
      BY DEF JudgeInv, JudgeTypes
    <3>4. judge'.current = Routed(choice, go, applied).current
      BY <3>1, <3>3 DEF Succeeded
    <3>5. QED
      BY <3>1, <3>2, <3>4
  <2>2. CASE ~BatchAAnswers
    <3>1. judge \in [armed : BOOLEAN, failures : Nat, current : Candidates]
      BY DEF JudgeInv, JudgeTypes
    <3>2. UNCHANGED serving
      BY <2>2 DEF JudgeNext, BeginTurn, NextIteration, EndTurn, BatchAFails, UserSwitches,
         Issue, BatchBSkipped, BatchBFails, BatchBAnswers, PerCall, ChildStep, ChildAsks,
         ChildFails, ChildAnswered
    <3>3. judge'.current = judge.current
      <4>1. \/ judge' = judge
            \/ \E b \in BOOLEAN : judge' = [judge EXCEPT !.armed = b]
            \/ judge' = [judge EXCEPT !.armed = FALSE, !.failures = 0]
            \/ judge' = [judge EXCEPT !.failures = @ + 1]
            \/ judge' = [judge EXCEPT !.failures = 0]
        BY <2>2, <3>1 DEF JudgeNext, BeginTurn, NextIteration, EndTurn, BatchAFails, UserSwitches,
           Issue, BatchBSkipped, BatchBFails, BatchBAnswers, PerCall, ChildStep, ChildAsks,
           ChildFails, ChildAnswered, Failed, Succeeded
      <4>2. QED
        BY <3>1, <4>1
    <3>4. QED
      BY <3>2, <3>3
  <2>3. QED
    BY <2>1, <2>2
<1>3. QED
  BY <1>1, <1>2, JudgeStaysSound, PTL DEF JudgeSpec, JudgeStaysOut, RoutingKnowsTheModel

(* A consult that was judged due holds up every change until an advisor    *)
(* call is issued and no longer, the first write and the checkpoints of a  *)
(* turn come after one, and behind it every kind of call gets through, for *)
(* any cadence, cap, batches and children.                                 *)
THEOREM AdviceStaysHeeded == JudgeSpec => []AdviceIsHeeded
BY JudgeStaysSound, JudgeInvIsSound, PTL
=============================================================================
