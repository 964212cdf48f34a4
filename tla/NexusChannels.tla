--------------------------- MODULE NexusChannels ---------------------------
(***************************************************************************)
(* The nexus's channels (internal/app/nexus: config.go, nexus.go,          *)
(* channel.go, buffer.go, source_webhook.go) and the tools that read them. *)
(* What a source does inside is FileTail and CommandSource, what an error  *)
(* line sets off NexusWake.                                                *)
(***************************************************************************)
EXTENDS Integers, Sequences, SequencesExt, FiniteSetsExt

CONSTANTS
  Files,        \* the nexus.yaml contents to choose from, sequences of channels
  DefaultSize,  \* DefaultBufferSize
  DefaultLast,  \* the tools' defaultLastN
  MaxIngested   \* bound: messages of one channel

(* A channel as it is written down, right or wrong.                        *)
Entry == [name : STRING, type : STRING, target : BOOLEAN, pattern : STRING, size : Int]

ASSUME ChannelsAssumption ==
  /\ Files \subseteq Seq(Entry)
  /\ DefaultSize \in Nat \ {0} /\ DefaultLast \in Nat \ {0} /\ MaxIngested \in Nat

ValidNames == {"app", "worker"}
Types      == {"file-tail", "command", "webhook"}
Texts      == {"fine", "failed"}    \* the error pattern matches "failed"

VARIABLES
  yaml,     \* the file
  nexus,    \* none, refused, built, running, stopping or stopped
  channels, \* the accepted configuration
  ring,     \* of each channel, by its place in the configuration
  source,   \* its goroutine
  status,
  log       \* history: everything ingested

channelVars == <<yaml, nexus, channels, ring, source, status, log>>

ChannelsInit ==
  /\ yaml \in Files /\ nexus = "none"
  /\ channels = <<>> /\ ring = <<>> /\ source = <<>> /\ status = <<>> /\ log = <<>>
-----------------------------------------------------------------------------
(* LoadConfig.                                                             *)
Acceptable(ch) ==
  /\ ch.name \in ValidNames
  /\ \/ ch.type \in {"file-tail", "command"} /\ ch.target
     \/ ch.type = "webhook"
  /\ ch.pattern # "invalid" /\ ch.size >= 0

WithDefaults(ch) == [ch EXCEPT !.size = IF @ = 0 THEN DefaultSize ELSE @]

LoadConfig ==
  /\ nexus = "none"
  /\ IF \A i, j \in DOMAIN yaml : Acceptable(yaml[i]) /\ (yaml[i].name = yaml[j].name => i = j)
     THEN nexus' = "loaded" /\ channels' = [i \in DOMAIN yaml |-> WithDefaults(yaml[i])]
     ELSE nexus' = "refused" /\ UNCHANGED channels
  /\ UNCHANGED <<yaml, ring, source, status, log>>

NewRing(size) ==
  [entries |-> [i \in 0 .. size - 1 |-> <<>>], size |-> size,
   start |-> 0, count |-> 0, nextSeq |-> 0, errCount |-> 0]

New ==
  /\ nexus = "loaded" /\ nexus' = "built"
  /\ ring' = [i \in DOMAIN channels |-> NewRing(channels[i].size)]
  /\ source' = [i \in DOMAIN channels |-> "off"]
  /\ status' = [i \in DOMAIN channels |-> "stopped"]
  /\ log' = [i \in DOMAIN channels |-> <<>>]
  /\ UNCHANGED <<yaml, channels>>

HasSource(i) == channels[i].type # "webhook"

(* Every source gets a goroutine, which says itself that it runs.          *)
StartSources ==
  /\ nexus = "built" /\ nexus' = "running"
  /\ source' = [i \in DOMAIN channels |-> IF HasSource(i) THEN "starting" ELSE "off"]
  /\ status' = [i \in DOMAIN channels |-> IF HasSource(i) THEN status[i] ELSE "running"]
  /\ UNCHANGED <<yaml, channels, ring, log>>

SourceRuns(i) ==
  /\ source[i] \in {"starting", "waiting"}
  /\ source' = [source EXCEPT ![i] = "working"]
  /\ status' = [status EXCEPT ![i] = "running"]
  /\ UNCHANGED <<yaml, nexus, channels, ring, log>>

SourceRestarts(i) ==
  /\ source[i] = "working" /\ channels[i].type = "command" /\ nexus = "running"
  /\ source' = [source EXCEPT ![i] = "waiting"]
  /\ status' = [status EXCEPT ![i] = "restarting"]
  /\ UNCHANGED <<yaml, nexus, channels, ring, log>>

SourceEnds(i) ==
  /\ nexus = "stopping" /\ source[i] \in {"working", "waiting"}
  /\ source' = [source EXCEPT ![i] = "ended"]
  /\ status' = [status EXCEPT ![i] = "stopped"]
  /\ UNCHANGED <<yaml, nexus, channels, ring, log>>

(* Stop cancels the sources and waits for them.                            *)
StopSources ==
  /\ nexus = "running" /\ nexus' = "stopping"
  /\ UNCHANGED <<yaml, channels, ring, source, status, log>>

StopReturns ==
  /\ nexus = "stopping" /\ \A i \in DOMAIN channels : source[i] \in {"off", "ended"}
  /\ nexus' = "stopped"
  /\ status' = [i \in DOMAIN channels |-> IF HasSource(i) THEN status[i] ELSE "stopped"]
  /\ UNCHANGED <<yaml, channels, ring, source, log>>
-----------------------------------------------------------------------------
(* Mutant: the evicted entry is counted for ever.                          *)
EvictedCounted(r) == 0

EvictedError(r) == IF r.count = r.size /\ r.entries[r.start].isError THEN 1 ELSE 0

(* Ring.Append.                                                            *)
Appended(r, text, isError) ==
  LET e == [seq |-> r.nextSeq, text |-> text, isError |-> isError]
  IN  [r EXCEPT !.entries[(r.start + IF r.count = r.size THEN 0 ELSE r.count) % r.size] = e,
                !.start = IF r.count = r.size THEN (@ + 1) % r.size ELSE @,
                !.count = IF @ = r.size THEN @ ELSE @ + 1,
                !.nextSeq = @ + 1,
                !.errCount = @ - EvictedError(r) + (IF isError THEN 1 ELSE 0)]

IngestText(i, text) ==
  /\ Len(log[i]) < MaxIngested
  /\ ring' = [ring EXCEPT ![i] = Appended(@, text, text = "failed")]
  /\ log' = [log EXCEPT ![i] = Append(@, text)]
  /\ UNCHANGED <<yaml, nexus, channels, source, status>>

SourceIngests(i, text) == source[i] = "working" /\ IngestText(i, text)

(* The webhook handler is not told of a stop.                              *)
Post(i, text) == nexus # "built" /\ ~HasSource(i) /\ IngestText(i, text)

ChannelsNext ==
  \/ LoadConfig \/ New \/ StartSources \/ StopSources \/ StopReturns
  \/ \E i \in DOMAIN ring :
       \/ SourceRuns(i) \/ SourceRestarts(i) \/ SourceEnds(i)
       \/ \E text \in Texts : SourceIngests(i, text) \/ Post(i, text)

ChannelsSpec == ChannelsInit /\ [][ChannelsNext]_channelVars
-----------------------------------------------------------------------------
Snapshot(r) == [k \in 1 .. r.count |-> r.entries[(r.start + k - 1) % r.size]]

(* Ring.Last: from the newest entry back, then turned round.               *)
LastEntries(r, n, errorsOnly) ==
  LET back == [k \in 1 .. r.count |-> r.entries[(r.start + r.count - k) % r.size]]
      kept == SelectSeq(back, LAMBDA e : errorsOnly => e.isError)
  IN  Reverse(SubSeq(kept, 1, Min({Max({n, 0}), Len(kept)})))

Newest(s, n) == SubSeq(s, Len(s) - n + 1, Len(s))

(* Nexus.Search, the pattern given as the set of texts that match it.      *)
Search(r, pattern, limit) ==
  LET matches == SelectSeq(Snapshot(r), LAMBDA e : e.text \in pattern)
  IN  IF limit > 0 /\ Len(matches) > limit THEN Newest(matches, limit) ELSE matches

Limit(lastN) == IF lastN > 0 THEN lastN ELSE DefaultLast

(* The tools; a last_n that is not given is 0.                             *)
ReadChannelTool(i, lastN, errorsOnly) == LastEntries(ring[i], Limit(lastN), errorsOnly)

SearchChannelTool(i, pattern, lastN) == Search(ring[i], pattern, Limit(lastN))

ChannelInfo(i) ==
  [name |-> channels[i].name, type |-> channels[i].type, status |-> status[i],
   count |-> ring[i].count, errorCount |-> ring[i].errCount]
-----------------------------------------------------------------------------
ChannelsTypeOK ==
  /\ nexus \in {"none", "refused", "loaded", "built", "running", "stopping", "stopped"}
  /\ \A i \in DOMAIN ring : /\ ring[i].start \in 0 .. ring[i].size - 1
                            /\ ring[i].count \in 0 .. ring[i].size
                            /\ ring[i].errCount \in 0 .. ring[i].count

(* What is accepted can run: every ring holds something, and no two        *)
(* channels share a name.                                                  *)
AcceptedConfigRuns ==
  \A i \in DOMAIN channels :
    /\ channels[i].size > 0 /\ channels[i].type \in Types
    /\ \A j \in DOMAIN channels : channels[i].name = channels[j].name => i = j

Buffered(i) == Newest(log[i], Min({channels[i].size, Len(log[i])}))
Failures(s) == SelectSeq(s, LAMBDA t : t = "failed")
Failed(s)   == {k \in DOMAIN s : s[k] = "failed"}
TextsOf(entries) == [k \in DOMAIN entries |-> entries[k].text]

(* A ring holds the newest messages of its channel in their order, knows   *)
(* how many are errors, and its sequence numbers have no gap.              *)
RingKeepsNewest ==
  \A i \in DOMAIN ring :
    LET held == Snapshot(ring[i])
    IN  /\ TextsOf(held) = Buffered(i)
        /\ ChannelInfo(i).errorCount = Cardinality(Failed(Buffered(i)))
        /\ \A k \in DOMAIN held : held[k].seq = Len(log[i]) - Len(held) + k - 1

(* The tools answer with the newest messages that match, in their order,   *)
(* however many of them are asked for.                                     *)
AnswersAreNewest ==
  \A i \in DOMAIN ring : \A n \in {-1, 0, 1, 2} :
    LET wanted(s) == Newest(s, Min({Limit(n), Len(s)}))
    IN  /\ TextsOf(ReadChannelTool(i, n, TRUE)) = wanted(Failures(Buffered(i)))
        /\ TextsOf(ReadChannelTool(i, n, FALSE)) = wanted(Buffered(i))
        /\ TextsOf(SearchChannelTool(i, {"failed"}, n)) = wanted(Failures(Buffered(i)))

(* When Stop has returned no source feeds a channel any more, and every    *)
(* channel says so.                                                        *)
StopIsTheEnd ==
  nexus = "stopped" => \A i \in DOMAIN channels : status[i] = "stopped" /\ source[i] \in {"off", "ended"}

(* A configuration that is accepted runs, a ring holds the newest, and a   *)
(* stop is the end of every source.                                        *)
ChannelsAreSound == ChannelsTypeOK /\ AcceptedConfigRuns /\ RingKeepsNewest /\ StopIsTheEnd
=============================================================================
