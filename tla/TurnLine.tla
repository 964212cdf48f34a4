------------------------------ MODULE TurnLine ------------------------------
(***************************************************************************)
(* What the turn queue promises, without locks, goroutines or events: the  *)
(* accepted requests stand in one line, the first of them is the turn that *)
(* runs, turns are served in the order they were accepted, and a request   *)
(* leaves the line early only when everything behind the running turn is   *)
(* dropped.                                                                *)
(***************************************************************************)
EXTENDS Sequences

CONSTANT Requests

VARIABLES
  line,     \* the running turn, then the requests waiting behind it
  served,   \* requests whose turn is over
  shut      \* no request joins any more

vars == <<line, served, shut>>

Init == line = <<>> /\ served = {} /\ shut = FALSE

Standing == {line[i] : i \in DOMAIN line}

Join(r) ==
  /\ ~shut /\ r \notin served /\ r \notin Standing
  /\ line' = Append(line, r)
  /\ UNCHANGED <<served, shut>>

Serve ==
  /\ line # <<>>
  /\ served' = served \cup {Head(line)}
  /\ line' = Tail(line)
  /\ UNCHANGED shut

(* Cancel and Close: only the turn already running keeps its place.        *)
Drop ==
  /\ line' = IF line = <<>> THEN <<>> ELSE <<Head(line)>>
  /\ shut' \in {shut, TRUE}
  /\ UNCHANGED served

Next == (\E r \in Requests : Join(r)) \/ Serve \/ Drop

SafeSpec == Init /\ [][Next]_vars

(* Whoever stands at the head for good is served.                          *)
MovesOn == WF_vars(Serve)

Spec == SafeSpec /\ MovesOn
=============================================================================
