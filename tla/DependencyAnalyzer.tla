-------------------------- MODULE DependencyAnalyzer --------------------------
(***************************************************************************)
(* The first half of ConfirmOrder: the tasks and dependencies of an order  *)
(* are computed from the recipes, before anything is written.  The loops   *)
(* of order_service.go and inferRecipeTaskDeps are the steps; a run works  *)
(* on one order, over every menu built from the recipes in Recipe.         *)
(***************************************************************************)
EXTENDS Integers, FiniteSets

CONSTANTS
    Item,           \* keys of the items of the request
    Step,           \* step_order
    Machine, None,  \* machine ids, and NULL
    MachineCap,     \* machines.capacity
    Recipe,         \* the rows recipe_steps and recipe_step_dependencies may hold for an item
    MaxQty          \* bound of the model

\* A recipe: its active steps, the machine of each, which descriptions are
\* assembly-like (isAssemblyLike), and the explicit dependencies, <<step,
\* depends_on_step>>.  These may name inactive steps: only their foreign key
\* to recipe_steps is checked, and the query does not filter on is_active.
ASSUME RecipeRows ==
    /\ Step \subseteq Nat \ {0} /\ MaxQty \in Nat
    /\ MachineCap \in [Machine -> Nat]
    /\ \A r \in Recipe :
          /\ r.active \subseteq Step
          /\ \A s \in r.active : r.machine[s] \in Machine \cup {None}
          /\ r.assembly \subseteq Step
          /\ r.explicit \subseteq Step \X Step

VARIABLES
    menu,           \* the recipe of each item, as the queries return it
    qty,            \* the request
    pc,
    todo,           \* items the outer loop has not reached
    item, unit,     \* item and i of the loops
    left,           \* steps the loop over stepOrders has not reached
    previous,       \* previousByMachine, 0 where it has no entry
    tasks,          \* taskRows, as <<item, unit, step>>
    links           \* depLinks, as <<task, the task it depends on>>

request == <<menu, qty>>
vars == <<request, pc, todo, item, unit, left, previous, tasks, links>>

TaskRow == Item \X (1..MaxQty) \X Step
Failed == {"no recipe", "no machine", "self dependency", "no tasks"}

TypeOK ==
    /\ menu \in [Item -> Recipe] /\ qty \in [Item -> 0..MaxQty]
    /\ pc \in {"items", "unit", "explicit", "fan in", "serialize", "next", "ok"} \cup Failed
    /\ todo \subseteq Item /\ item \in Item \cup {None} /\ unit \in 0..MaxQty
    /\ left \subseteq Step /\ previous \in [Machine -> Step \cup {0}]
    /\ tasks \subseteq TaskRow
    /\ links \subseteq tasks \X tasks

Init ==
    /\ menu \in [Item -> Recipe] /\ qty \in [Item -> 0..MaxQty]
    /\ pc = "items" /\ todo = Item /\ item = None /\ unit = 0
    /\ left = {} /\ previous = [m \in Machine |-> 0]
    /\ tasks = {} /\ links = {}

-----------------------------------------------------------------------------
Active(i) == menu[i].active

\* for item, qty := range req.Items
NextItem(i) ==
    /\ pc = "items" /\ i \in todo
    /\ todo' = todo \ {i}
    /\ IF Active(i) = {} THEN pc' = "no recipe" /\ UNCHANGED <<item, unit>>
       ELSE IF qty[i] = 0 THEN UNCHANGED <<pc, item, unit>>
       ELSE pc' = "unit" /\ item' = i /\ unit' = 1
    /\ UNCHANGED <<request, left, previous, tasks, links>>

\* The task of step s in the unit at hand (stepToTaskIdx).
UnitTask(s) == <<item, unit, s>>

\* One task per step; then inferRecipeTaskDeps, with explicit rows or without.
AddUnit ==
    /\ pc = "unit"
    /\ IF \E s \in Active(item) : menu[item].machine[s] = None
       THEN pc' = "no machine" /\ UNCHANGED tasks
       ELSE /\ tasks' = tasks \cup {UnitTask(s) : s \in Active(item)}
            /\ pc' = IF menu[item].explicit # {} THEN "explicit" ELSE "fan in"
    /\ UNCHANGED <<request, todo, item, unit, left, previous, links>>

\* Mutants of AddEdge: steps without a task are not skipped; a step may
\* depend on itself.
AddEdgeUnknown(s, d) == IF s # d THEN {<<UnitTask(s), UnitTask(d)>>} ELSE {}
AddEdgeSelf(s, d) ==
    IF {s, d} \subseteq Active(item) THEN {<<UnitTask(s), UnitTask(d)>>} ELSE {}

\* addEdge: the link for steps s and d, unless one has no task or they are
\* the same.
AddEdge(s, d) ==
    IF {s, d} \subseteq Active(item) /\ s # d THEN {<<UnitTask(s), UnitTask(d)>>} ELSE {}

ExplicitEdges ==
    /\ pc = "explicit"
    /\ links' = links \cup UNION {AddEdge(e[1], e[2]) : e \in menu[item].explicit}
    /\ pc' = "next"
    /\ UNCHANGED <<request, todo, item, unit, left, previous, tasks>>

\* Mutant of FanIn: assembly steps depend on all other steps.
FanInOnAll(a) == Active(item) \ {a}

\* Prior steps that assembly step a waits for.
FanIn(a) == {s \in Active(item) : s < a /\ s \notin menu[item].assembly}

AssemblyEdges ==
    /\ pc = "fan in"
    /\ links' = links \cup UNION {UNION {AddEdge(a, s) : s \in FanIn(a)} :
                                  a \in Active(item) \cap menu[item].assembly}
    /\ left' = Active(item)
    /\ previous' = [m \in Machine |-> 0]
    /\ pc' = "serialize"
    /\ UNCHANGED <<request, todo, item, unit, tasks>>

\* Mutant of Serialized: no step waits when the machine has room for one.
SerializedBelowOne(m) == MachineCap[m] < 1

Serialized(m) == MachineCap[m] <= 1

\* The loop over the sorted stepOrders that fills previousByMachine.
SerializeStep(s) ==
    LET m == menu[item].machine[s] IN
    /\ pc = "serialize" /\ s \in left /\ \A r \in left : s <= r
    /\ links' = IF Serialized(m) /\ previous[m] # 0
                THEN links \cup AddEdge(s, previous[m]) ELSE links
    /\ previous' = [previous EXCEPT ![m] = s]
    /\ left' = left \ {s}
    /\ pc' = IF left = {s} THEN "next" ELSE "serialize"
    /\ UNCHANGED <<request, todo, item, unit, tasks>>

NextUnit ==
    /\ pc = "next"
    /\ IF unit < qty[item]
       THEN pc' = "unit" /\ unit' = unit + 1 /\ UNCHANGED item
       ELSE pc' = "items" /\ unit' = 0 /\ item' = None
    /\ UNCHANGED <<request, todo, left, previous, tasks, links>>

\* Mutant of Validate: an order without tasks is created.
ValidateEmpty ==
    /\ pc = "items" /\ todo = {}
    /\ pc' = IF \E l \in links : l[1] = l[2] THEN "self dependency" ELSE "ok"
    /\ UNCHANGED <<request, todo, item, unit, left, previous, tasks, links>>

\* The checks before CreateOrderWithTasks.
Validate ==
    /\ pc = "items" /\ todo = {}
    /\ pc' = IF \E l \in links : l[1] = l[2] THEN "self dependency"
             ELSE IF tasks = {} THEN "no tasks" ELSE "ok"
    /\ UNCHANGED <<request, todo, item, unit, left, previous, tasks, links>>

Next ==
    \/ \E i \in Item : NextItem(i)
    \/ AddUnit
    \/ ExplicitEdges
    \/ AssemblyEdges
    \/ \E s \in Step : SerializeStep(s)
    \/ NextUnit
    \/ Validate

Spec == Init /\ [][Next]_vars

-----------------------------------------------------------------------------
(* Properties of the order ConfirmOrder goes on to create                   *)

\* ConfirmOrder links a task only to another task of the same unit of the
\* same item, whatever the explicit rows name: no link is rejected as a self
\* dependency after addEdge, and the scheduler's assumption about recipes
\* holds.
LinksWithinUnit ==
    /\ pc # "self dependency"
    /\ \A l \in links : l[1][1] = l[2][1] /\ l[1][2] = l[2][2] /\ l[1] # l[2]

\* u can only start after t: every set of tasks with u that is closed under
\* dependencies holds t.
StartsAfter(u, t) ==
    \A S \in SUBSET tasks :
        u \in S /\ (\A l \in links : l[1] \in S => l[2] \in S) => t \in S

\* The fallback analysis yields an order that can be worked off: no tasks
\* wait for each other in a circle, although fan-in and serialization add
\* their links independently of each other.
FallbackDrains ==
    pc = "ok" => ~ \E S \in SUBSET {t \in tasks : menu[t[1]].explicit = {}} :
                      S # {} /\ \A t \in S : \E d \in S : <<t, d>> \in links

\* Tasks of one unit of the fallback analysis on a machine with one slot, t
\* for the earlier step.
ShareSlot(t, u) ==
    LET r == menu[t[1]] IN
    /\ t[1] = u[1] /\ t[2] = u[2] /\ t[3] < u[3]
    /\ r.explicit = {} /\ r.machine[t[3]] = r.machine[u[3]]
    /\ MachineCap[r.machine[t[3]]] <= 1

\* Comment of the fallback analyzer: "Steps sharing a single-capacity machine
\* are serialized."  Of two such steps of a unit the later can only start
\* after the earlier, though only neighbours are linked.
SharedMachineSerialized ==
    pc = "ok" => \A t, u \in tasks : ShareSlot(t, u) => StartsAfter(u, t)

\* The tasks that a task of the order waits for, as rows of task_dependencies.
DependsOn(t) == {l[2] : l \in {k \in links : k[1] = t}}

\* What Kitchen assumes of an order (its assumption Recipes): it has a task, and
\* its tasks depend on other tasks of it.
KitchenCanTakeIt ==
    pc = "ok" => tasks # {} /\ \A t \in tasks : DependsOn(t) \subseteq tasks \ {t}

-----------------------------------------------------------------------------
(* The inductive invariant of LinksWithinUnit, FallbackDrains and           *)
(* SharedMachineSerialized                                                  *)

\* The unit at hand is one of the request; once added it has all its tasks.
UnitAtHand ==
    /\ pc \in {"unit", "explicit", "fan in", "serialize", "next"} =>
          item \in Item /\ unit \in 1..qty[item]
    /\ pc \in {"explicit", "fan in", "serialize", "next"} =>
          \A s \in Active(item) : UnitTask(s) \in tasks
    /\ pc = "explicit" => menu[item].explicit # {}
    /\ pc \in {"fan in", "serialize"} => menu[item].explicit = {}

TasksOfSteps == \A t \in tasks : t[3] \in Active(t[1]) /\ menu[t[1]].machine[t[3]] \in Machine

\* Links stay within a unit and, without explicit rows, lead to earlier steps.
LinksDescend ==
    \A l \in links :
        /\ l[1][1] = l[2][1] /\ l[1][2] = l[2][2] /\ l[1] # l[2]
        /\ menu[l[1][1]].explicit = {} => l[2][3] < l[1][3]

\* previousByMachine holds the latest of the steps that the loop over the
\* sorted stepOrders has passed.
PreviousIsLatest ==
    LET done == Active(item) \ left IN
    pc = "serialize" =>
        /\ left \subseteq Active(item)
        /\ \A s \in done, r \in left : s < r
        /\ \A s \in done : s <= previous[menu[item].machine[s]]
        /\ \A m \in Machine : previous[m] # 0 =>
              previous[m] \in done /\ menu[item].machine[previous[m]] = m

\* The analysis of t's unit has come past t.
Settled(t) ==
    ~ /\ t[1] = item /\ t[2] = unit
      /\ \/ pc \in {"unit", "explicit", "fan in", "no machine"}
         \/ pc = "serialize" /\ t[3] \in left

\* A settled task waits for a neighbour on the machine, which is t or a task
\* between t and it.
Chained ==
    \A t, u \in tasks : Settled(u) /\ ShareSlot(t, u) =>
        \E d \in tasks : <<u, d>> \in links /\ (d = t \/ ShareSlot(t, d))

AnalyzerInv ==
    /\ TypeOK /\ pc # "self dependency"
    /\ UnitAtHand /\ TasksOfSteps /\ LinksDescend /\ PreviousIsLatest /\ Chained

=============================================================================
