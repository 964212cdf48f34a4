------------------------------ MODULE TodoPlan ------------------------------
(***************************************************************************)
(* The agent's plan (internal/features/todo): the store and the five tools *)
(* over it.  An id is a pair whose first half is what the reminder shows   *)
(* of it; the agent may refer to a task by any prefix.                     *)
(***************************************************************************)
EXTENDS Integers, Sequences, SequencesExt

CONSTANTS
  NewIds,      \* the ids that randomID returns, in that order
  Items,       \* what TodoWrite may be given for a task
  Priorities,  \* any string: the tools do not check it
  Statuses,    \* any string: the tool names three and does not check it
  MaxWritten,  \* bound: tasks of one TodoWrite
  MaxWaits     \* bound: dependencies of one TodoCreate

ASSUME PlanAssumption ==
  /\ NewIds \in Seq(Nat \X Nat)
  /\ \A i, j \in DOMAIN NewIds : i # j => NewIds[i] # NewIds[j]
  /\ \A item \in Items : item.dependsOn \in Seq(Int)
  /\ {MaxWritten, MaxWaits} \subseteq Nat

VARIABLES
  tasks,
  fresh     \* the next id

planVars == <<tasks, fresh>>

PlanInit == tasks = <<>> /\ fresh = 1

References   == UNION {Prefixes(NewIds[i]) \ {<<>>} : i \in 1 .. fresh - 1}
TaskIds      == {tasks[i].id : i \in DOMAIN tasks}

Refers(ref, id) == IsPrefix(ref, id)

Task(id, priority, deps) ==
  [id |-> id, status |-> "pending", dependsOn |-> deps,
   priority |-> IF priority = "" THEN "medium" ELSE priority]
-----------------------------------------------------------------------------
(* TodoWrite replaces the plan; a dependency is an index in the list, and  *)
(* a bad one refuses it all.                                               *)
TodoWrite(items) ==
  LET n == Len(items)
      new(i) == NewIds[fresh + i - 1]
  IN  /\ n > 0 /\ fresh + n - 1 <= Len(NewIds)
      /\ fresh' = fresh + n
      /\ IF \A i \in 1 .. n : \A d \in ToSet(items[i].dependsOn) : d \in (0 .. n - 1) \ {i - 1}
         THEN tasks' = [i \in 1 .. n |-> Task(new(i), items[i].priority,
                             [k \in DOMAIN items[i].dependsOn |-> new(items[i].dependsOn[k] + 1)])]
         ELSE UNCHANGED tasks

TodoCreate(deps, priority) ==
  /\ fresh <= Len(NewIds)
  /\ \A d \in ToSet(deps) : \E id \in TaskIds : Refers(d, id)
  /\ tasks' = Append(tasks, Task(NewIds[fresh], priority, deps))
  /\ fresh' = fresh + 1

(* Every task the prefix fits is updated.                                  *)
Updated(ref, status) ==
  [i \in DOMAIN tasks |->
     IF Refers(ref, tasks[i].id) THEN [tasks[i] EXCEPT !.status = status] ELSE tasks[i]]

TodoUpdate(ref, status) ==
  /\ \E id \in TaskIds : Refers(ref, id)
  /\ tasks' = Updated(ref, status)
  /\ UNCHANGED fresh

PlanNext ==
  \/ \E n \in 1 .. MaxWritten : \E items \in [1 .. n -> Items] : TodoWrite(items)
  \/ \E n \in 0 .. MaxWaits : \E deps \in [1 .. n -> References], p \in Priorities : TodoCreate(deps, p)
  \/ \E r \in References, s \in Statuses : TodoUpdate(r, s)

PlanSpec == PlanInit /\ [][PlanNext]_planVars
-----------------------------------------------------------------------------
(* A priority the map does not hold counts as the highest.                 *)
Rank(priority) == CASE priority = "medium" -> 1 [] priority = "low" -> 2 [] OTHER -> 0

DoneIds == {tasks[i].id : i \in {k \in DOMAIN tasks : tasks[k].status = "done"}}

(* Mutant: one dependency that is done is enough.                          *)
AnyDependencyDone(t) ==
  t.dependsOn = <<>> \/ \E d \in ToSet(t.dependsOn) : d \in DoneIds

AllDependenciesDone(t) == \A d \in ToSet(t.dependsOn) : d \in DoneIds

Ready == {i \in DOMAIN tasks : tasks[i].status = "pending" /\ AllDependenciesDone(tasks[i])}

(* NextTask: a stable sort by rank, and the first of it.                   *)
NextTask ==
  CHOOSE i \in Ready : \A j \in Ready :
    \/ Rank(tasks[i].priority) < Rank(tasks[j].priority)
    \/ Rank(tasks[i].priority) = Rank(tasks[j].priority) /\ i <= j

(* topoSort.  A sort has visits under way, each for a dependency of the    *)
(* one below, and the tasks it has put behind those they depend on; all as *)
(* places in the plan.                                                     *)
Seen(sort) == ToSet(sort.open) \cup ToSet(sort.result)

(* What the visit on top goes through, or the whole of it.                 *)
Wanted(sort) ==
  IF sort.open = <<>> THEN [i \in DOMAIN tasks |-> tasks[i].id] ELSE tasks[Last(sort.open)].dependsOn

(* Where a dependency leads, 0 when it is no task's full id.               *)
ById(id) ==
  IF id \in TaskIds THEN CHOOSE i \in DOMAIN tasks : tasks[i].id = id ELSE 0

(* The next visit: the first task wanted that was not visited; without one *)
(* the visit on top ends.  A cycle is cut where it is entered.             *)
Visit(sort) ==
  LET wanted == Wanted(sort)
      new    == {k \in DOMAIN wanted : ById(wanted[k]) \in DOMAIN tasks \ Seen(sort)}
  IN  IF new # {}
      THEN [sort EXCEPT !.open = Append(@, ById(wanted[CHOOSE k \in new : \A m \in new : k <= m]))]
      ELSE IF sort.open # <<>>
      THEN [open |-> Front(sort.open), result |-> Append(sort.result, Last(sort.open))]
      ELSE sort

(* Every task is visited, and left, once.                                  *)
TopoSort ==
  LET steps == 2 * Len(tasks)
      sort[n \in 0 .. steps] == IF n = 0 THEN [open |-> <<>>, result |-> <<>>] ELSE Visit(sort[n - 1])
  IN  sort[steps].result
-----------------------------------------------------------------------------
DependsOn(i, j) == tasks[j].id \in ToSet(tasks[i].dependsOn)

(* However some tasks are picked, one of them depends on none of them.     *)
Acyclic ==
  \A S \in (SUBSET DOMAIN tasks) \ {{}} : \E i \in S : \A j \in S : ~DependsOn(i, j)

PlanTypeOK ==
  /\ \A i, j \in DOMAIN tasks : tasks[i].id = tasks[j].id => i = j
  /\ \A i \in DOMAIN tasks : tasks[i].status \in Statuses \cup {"pending"}

(* The reminder lists every task once, and in a plan without a cycle each  *)
(* behind those it depends on.                                             *)
ReminderIsThePlan ==
  LET sorted == TopoSort
  IN  /\ Len(sorted) = Len(tasks) /\ ToSet(sorted) = DOMAIN tasks
      /\ Acyclic =>
           \A k, m \in DOMAIN sorted : DependsOn(sorted[k], sorted[m]) => m < k

Underway == \E i \in DOMAIN tasks : tasks[i].status \notin {"pending", "done"}
Left     == \E i \in DOMAIN tasks : tasks[i].status = "pending"
Exact    == \A i \in DOMAIN tasks : ToSet(tasks[i].dependsOn) \subseteq TaskIds

(* A plan cannot get stuck: as long as something is pending and nothing is *)
(* under way, TodoNext has a task to give, and never one that waits for    *)
(* another.  Dependencies are full ids of the plan, without a cycle.       *)
NeverStuck ==
  /\ Exact /\ Acyclic /\ Left /\ ~Underway => Ready # {}
  /\ Ready # {} =>
       \A j \in DOMAIN tasks : DependsOn(NextTask, j) => tasks[j].status = "done"

(* "Returns the highest-priority pending task whose dependencies are all   *)
(* done": so too when the agent names a dependency by what the reminder    *)
(* shows of its id, as TodoCreate lets it.                                 *)
NextKnowsDependencies ==
  \A i \in DOMAIN tasks :
    /\ tasks[i].status = "pending"
    /\ \A d \in ToSet(tasks[i].dependsOn) :
         \E j \in DOMAIN tasks : Refers(d, tasks[j].id) /\ tasks[j].status = "done"
    => Ready # {}

(* The plan an agent is reminded of is the plan it is led through.         *)
PlanIsFollowed == PlanTypeOK /\ ReminderIsThePlan /\ NeverStuck
=============================================================================
