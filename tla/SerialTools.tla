---------------------------- MODULE SerialTools ----------------------------
(***************************************************************************)
(* What running a batch of tool calls promises, whatever runs in parallel: *)
(* every call sees the world as if the calls had run one after another in  *)
(* the order the model issued them.  A call that may change the world      *)
(* starts only when all earlier ones are over, and no later call starts    *)
(* before it is over.                                                      *)
(***************************************************************************)
EXTENDS Naturals

CONSTANT N            \* the calls are 1 .. N, in issue order

VARIABLES
  readOnly,  \* the calls that change nothing
  inside,    \* calls being run
  over       \* calls that are over, run or refused

vars == <<readOnly, inside, over>>

Init == readOnly \subseteq 1 .. N /\ inside = {} /\ over = {}

Conflict(i, j) == ~({i, j} \subseteq readOnly)

Enter(i) ==
  /\ i \notin inside \cup over
  /\ \A j \in 1 .. i - 1 : Conflict(i, j) => j \in over
  /\ \A j \in inside : ~Conflict(i, j)
  /\ inside' = inside \cup {i}
  /\ UNCHANGED <<readOnly, over>>

Leave(i) ==
  /\ i \in inside
  /\ inside' = inside \ {i}
  /\ over' = over \cup {i}
  /\ UNCHANGED readOnly

(* A call that is not allowed to run changes nothing.                      *)
Refuse(i) ==
  /\ i \notin inside \cup over
  /\ over' = over \cup {i}
  /\ UNCHANGED <<readOnly, inside>>

Next == \E i \in 1 .. N : Enter(i) \/ Leave(i) \/ Refuse(i)

SafeSpec == Init /\ [][Next]_vars
=============================================================================
