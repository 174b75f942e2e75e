----------------------- MODULE DependencyAnalyzerProofs -----------------------
(***************************************************************************)
(* Proofs about the dependency analyzer, for every menu and request.       *)
(* AnalyzerInv is inductive; that what it says of single links holds along *)
(* chains of links too follows from the well-foundedness of < on the steps.*)
(***************************************************************************)
EXTENDS DependencyAnalyzer, WellFoundedInduction, TLAPS

-----------------------------------------------------------------------------
(* Lemmas                                                                   *)

\* A non-empty set of steps has a least one.
LEMMA LeastStep ==
    ASSUME NEW S \in SUBSET Nat, S # {}
    PROVE  \E x \in S : \A y \in S : x <= y
<1> DEFINE Less == {ss \in Nat \X Nat : ss[1] < ss[2]}
<1>1. IsWellFoundedOn(Less, Nat)
  BY NatLessThanWellFounded DEF OpToRel
<1>2. PICK x \in S : \A y \in S : <<y, x>> \notin Less
  <2> HIDE DEF Less
  <2> QED BY <1>1, WFMin
<1>3. \A y \in S : ~ (y < x)
  BY <1>2
<1> QED BY <1>2, <1>3

-----------------------------------------------------------------------------
(* Type correctness and the inductive invariant                             *)

\* What the tables hold for an item of the request.
LEMMA MenuType ==
    ASSUME TypeOK, NEW i \in Item
    PROVE  /\ menu[i] \in Recipe /\ Active(i) \subseteq Step
           /\ \A s \in Active(i) : menu[i].machine[s] \in Machine \cup {None}
<1>1. menu[i] \in Recipe
  BY DEF TypeOK
<1> QED BY <1>1, RecipeRows DEF Active

\* An interval of units.
LEMMA Units ==
    ASSUME NEW n \in Nat
    PROVE  /\ \A x \in 1..n : x \in Nat /\ 1 <= x /\ x <= n
           /\ n # 0 => 1 \in 1..n
OBVIOUS

LEMMA StepNumbers == \A x \in Step : x \in Nat /\ 0 < x
<1>1. \A n \in Nat \ {0} : 0 < n
  OBVIOUS
<1> QED BY <1>1, RecipeRows

LEMMA QtyType ==
    ASSUME TypeOK, NEW i \in Item
    PROVE  qty[i] \in Nat /\ qty[i] <= MaxQty /\ MaxQty \in Nat
<1>1. qty[i] \in 0..MaxQty
  BY DEF TypeOK
<1> QED BY <1>1, RecipeRows

\* The item and the unit at hand are in the request.
LEMMA UnitType ==
    ASSUME TypeOK, UnitAtHand, pc \in {"unit", "explicit", "fan in", "serialize", "next"}
    PROVE  /\ item \in Item /\ Active(item) \subseteq Step
           /\ unit \in Nat /\ 1 <= unit /\ unit <= qty[item]
           /\ \A s \in Active(item) : menu[item].machine[s] \in Machine \cup {None}
<1>1. item \in Item /\ unit \in 1..qty[item]
  BY DEF UnitAtHand
<1>2. qty[item] \in Nat
  BY <1>1, QtyType
<1>3. unit \in Nat /\ 1 <= unit /\ unit <= qty[item]
  BY <1>1, <1>2, Units
<1> QED BY <1>1, <1>3, MenuType

\* addEdge links tasks that exist.
LEMMA AddEdgeTasks ==
    ASSUME UnitAtHand, pc \in {"explicit", "fan in", "serialize"}, NEW s, NEW d,
           NEW l \in AddEdge(s, d)
    PROVE  /\ l = <<UnitTask(s), UnitTask(d)>> /\ s # d
           /\ s \in Active(item) /\ d \in Active(item)
           /\ UnitTask(s) \in tasks /\ UnitTask(d) \in tasks
<1>1. \A r \in Active(item) : UnitTask(r) \in tasks
  BY DEF UnitAtHand
<1>2. {s, d} \subseteq Active(item) /\ s # d /\ l = <<UnitTask(s), UnitTask(d)>>
  BY DEF AddEdge
<1> QED BY <1>1, <1>2

\* A step adds links only through addEdge, for a step that waits and one it
\* waits for as the explicit rows, fan-in or serialization name them.
LEMMA NewLinks ==
    ASSUME TypeOK, UnitAtHand, Next, NEW l \in links', l \notin links
    PROVE  \E s, d :
              /\ l \in AddEdge(s, d) /\ tasks' = tasks /\ menu' = menu
              /\ \/ ExplicitEdges /\ <<s, d>> \in menu[item].explicit
                 \/ AssemblyEdges /\ d \in FanIn(s)
                 \/ SerializeStep(s) /\ d = previous[menu[item].machine[s]] /\ d # 0
<1>1. ASSUME ExplicitEdges
      PROVE  \E s, d : l \in AddEdge(s, d) /\ <<s, d>> \in menu[item].explicit
  <2>1. l \in UNION {AddEdge(e[1], e[2]) : e \in menu[item].explicit}
    BY <1>1 DEF ExplicitEdges
  <2>2. PICK e \in menu[item].explicit : l \in AddEdge(e[1], e[2])
    BY <2>1
  <2>3. e = <<e[1], e[2]>>
    BY <1>1, UnitType, MenuType, RecipeRows DEF ExplicitEdges
  <2> QED BY <2>2, <2>3
<1>2. ASSUME AssemblyEdges
      PROVE  \E s, d : l \in AddEdge(s, d) /\ d \in FanIn(s)
  <2>1. PICK a \in Active(item) \cap menu[item].assembly :
           l \in UNION {AddEdge(a, s) : s \in FanIn(a)}
    BY <1>2 DEF AssemblyEdges
  <2>2. PICK s \in FanIn(a) : l \in AddEdge(a, s)
    BY <2>1
  <2> QED BY <2>2
<1>3. ASSUME NEW s \in Step, SerializeStep(s)
      PROVE  /\ l \in AddEdge(s, previous[menu[item].machine[s]])
             /\ previous[menu[item].machine[s]] # 0
             /\ tasks' = tasks /\ menu' = menu
  BY <1>3 DEF SerializeStep, request
<1>4. ExplicitEdges \/ AssemblyEdges => tasks' = tasks /\ menu' = menu
  BY DEF ExplicitEdges, AssemblyEdges, request
<1>5. ~ (\E i \in Item : NextItem(i)) /\ ~ AddUnit /\ ~ NextUnit /\ ~ Validate
  BY DEF NextItem, AddUnit, NextUnit, Validate
<1>6. ExplicitEdges \/ AssemblyEdges \/ \E s \in Step : SerializeStep(s)
  BY <1>5 DEF Next
<1> QED BY <1>1, <1>2, <1>3, <1>4, <1>6

LEMMA InitType == ASSUME Init PROVE TypeOK
BY RecipeRows DEF Init, TypeOK

LEMMA StepType ==
    ASSUME TypeOK, UnitAtHand, Next
    PROVE  TypeOK'
<1>1. ASSUME NEW i \in Item, NextItem(i) PROVE TypeOK'
  <2>1. qty[i] = 0 \/ 1 \in 0..MaxQty
    BY QtyType
  <2> QED BY <1>1, <2>1 DEF NextItem, request, TypeOK, Failed
<1>2. CASE AddUnit
  <2>0. pc = "unit"
    BY <1>2 DEF AddUnit
  <2>1. item \in Item /\ unit \in 1..MaxQty /\ Active(item) \subseteq Step
    BY <2>0, UnitType, QtyType
  <2>2. \A s \in Active(item) : UnitTask(s) \in TaskRow
    BY <2>1 DEF TaskRow, UnitTask
  <2>3. tasks' = tasks \/ tasks' = tasks \cup {UnitTask(s) : s \in Active(item)}
    BY <1>2 DEF AddUnit
  <2>4. tasks \subseteq TaskRow
    BY DEF TypeOK
  <2>5. tasks' \subseteq TaskRow /\ tasks \subseteq tasks'
    BY <2>2, <2>3, <2>4
  <2> QED BY <1>2, <2>5 DEF AddUnit, request, TypeOK, Failed
<1>3. CASE ExplicitEdges
  <2>1. links' \subseteq tasks \X tasks
    BY <1>3, AddEdgeTasks DEF ExplicitEdges, TypeOK
  <2> QED BY <1>3, <2>1 DEF ExplicitEdges, request, TypeOK
<1>4. CASE AssemblyEdges
  <2>0. pc = "fan in"
    BY <1>4 DEF AssemblyEdges
  <2>1. ASSUME NEW l \in links', l \notin links PROVE l \in tasks \X tasks
    <3>1. PICK s, d : l \in AddEdge(s, d)
      BY <2>1, NewLinks
    <3>2. l = <<UnitTask(s), UnitTask(d)>> /\ UnitTask(s) \in tasks /\ UnitTask(d) \in tasks
      BY <2>0, <3>1, AddEdgeTasks
    <3> QED BY <3>2
  <2>2. links' \subseteq tasks \X tasks
    BY <2>1 DEF TypeOK
  <2>3. Active(item) \subseteq Step
    BY <2>0, UnitType
  <2> QED BY <1>4, <2>2, <2>3 DEF AssemblyEdges, request, TypeOK
<1>5. ASSUME NEW s \in Step, SerializeStep(s) PROVE TypeOK'
  <2>1. links' \subseteq tasks \X tasks
    BY <1>5, AddEdgeTasks DEF SerializeStep, TypeOK
  <2> QED BY <1>5, <2>1 DEF SerializeStep, request, TypeOK
<1>6. CASE NextUnit
  <2>1. unit < qty[item] => unit + 1 \in 0..MaxQty
    BY <1>6, UnitType, QtyType DEF NextUnit
  <2>2. 0 \in 0..MaxQty
    BY RecipeRows
  <2>3. unit' \in 0..MaxQty /\ item' \in Item \cup {None} /\ pc' \in {"unit", "items"}
    BY <1>6, <2>1, <2>2, UnitType DEF NextUnit
  <2> QED BY <1>6, <2>3 DEF NextUnit, request, TypeOK
<1>7. CASE Validate
  BY <1>7 DEF Validate, request, TypeOK, Failed
<1> QED BY <1>1, <1>2, <1>3, <1>4, <1>5, <1>6, <1>7 DEF Next

LEMMA StepUnit ==
    ASSUME TypeOK, UnitAtHand, Next
    PROVE  UnitAtHand'
<1> USE DEF UnitAtHand, Active, UnitTask
<1>1. ASSUME NEW i \in Item, NextItem(i) PROVE UnitAtHand'
  <2>1. qty[i] # 0 => 1 \in 1..qty[i]
    BY QtyType, Units
  <2>2. /\ pc' \in {"items", "unit", "no recipe"}
        /\ pc' = "unit" => item' = i /\ unit' = 1 /\ qty[i] # 0
    BY <1>1 DEF NextItem
  <2> QED BY <1>1, <2>1, <2>2 DEF NextItem, request
<1>2. CASE AddUnit
  BY <1>2 DEF AddUnit, request
<1>3. CASE ExplicitEdges
  BY <1>3 DEF ExplicitEdges, request
<1>4. CASE AssemblyEdges
  BY <1>4 DEF AssemblyEdges, request
<1>5. ASSUME NEW s \in Step, SerializeStep(s) PROVE UnitAtHand'
  BY <1>5 DEF SerializeStep, request
<1>6. CASE NextUnit
  <2>1. unit < qty[item] => unit + 1 \in 1..qty[item]
    BY <1>6, UnitType, QtyType DEF NextUnit
  <2> QED BY <1>6, <2>1 DEF NextUnit, request
<1>7. CASE Validate
  BY <1>7 DEF Validate, request
<1> QED BY <1>1, <1>2, <1>3, <1>4, <1>5, <1>6, <1>7 DEF Next

LEMMA StepTasks ==
    ASSUME TypeOK, UnitAtHand, TasksOfSteps, Next
    PROVE  TasksOfSteps'
<1> USE DEF TasksOfSteps, Active
<1>1. CASE AddUnit
  <2>1. \A s \in Active(item) : menu[item].machine[s] # None => menu[item].machine[s] \in Machine
    BY <1>1, UnitType DEF AddUnit
  <2>2. ASSUME NEW t \in tasks'
        PROVE  \/ t \in tasks
               \/ \E s \in Active(item) : t = <<item, unit, s>> /\ menu[item].machine[s] # None
    BY <1>1, <2>2 DEF AddUnit, UnitTask
  <2>3. menu' = menu
    BY <1>1 DEF AddUnit, request
  <2> QED BY <2>1, <2>2, <2>3
<1>2. CASE ~ AddUnit
  BY <1>2 DEF Next, NextItem, ExplicitEdges, AssemblyEdges, SerializeStep, NextUnit, Validate,
              request
<1> QED BY <1>1, <1>2

\* The request stays as it is; tasks and links are never taken back.
LEMMA OnlyAdds ==
    ASSUME Next
    PROVE  menu' = menu /\ tasks \subseteq tasks' /\ links \subseteq links'
BY DEF Next, NextItem, AddUnit, ExplicitEdges, AssemblyEdges, SerializeStep, NextUnit, Validate,
       request

\* A step whose machine the loop looks up has one.
LEMMA MachineOfStep ==
    ASSUME UnitAtHand, TasksOfSteps, pc = "serialize", NEW s \in Active(item)
    PROVE  menu[item].machine[s] \in Machine
BY DEF UnitAtHand, TasksOfSteps, UnitTask

LEMMA StepLinks ==
    ASSUME TypeOK, UnitAtHand, TasksOfSteps, LinksDescend, PreviousIsLatest, Next
    PROVE  LinksDescend'
<1> SUFFICES ASSUME NEW l \in links'
             PROVE  /\ l[1][1] = l[2][1] /\ l[1][2] = l[2][2] /\ l[1] # l[2]
                    /\ menu[l[1][1]].explicit = {} => l[2][3] < l[1][3]
  BY OnlyAdds DEF LinksDescend
<1>1. CASE l \in links
  BY <1>1 DEF LinksDescend
<1>2. CASE l \notin links
  <2>1. PICK s, d :
           /\ l \in AddEdge(s, d)
           /\ \/ ExplicitEdges /\ <<s, d>> \in menu[item].explicit
              \/ AssemblyEdges /\ d \in FanIn(s)
              \/ SerializeStep(s) /\ d = previous[menu[item].machine[s]] /\ d # 0
    BY <1>2, NewLinks
  <2>2. l = <<UnitTask(s), UnitTask(d)>> /\ s # d /\ s \in Active(item)
    BY <2>1, AddEdgeTasks DEF ExplicitEdges, AssemblyEdges, SerializeStep
  <2>3. menu[item].explicit = {} => d < s
    <3>1. CASE AssemblyEdges /\ d \in FanIn(s)
      BY <3>1 DEF FanIn
    <3>2. CASE SerializeStep(s) /\ d = previous[menu[item].machine[s]] /\ d # 0
      <4>1. pc = "serialize" /\ s \in left
        BY <3>2 DEF SerializeStep
      <4>2. menu[item].machine[s] \in Machine
        BY <2>2, <4>1, MachineOfStep
      <4> QED BY <3>2, <4>1, <4>2 DEF PreviousIsLatest
    <3> QED BY <2>1, <3>1, <3>2
  <2> QED BY <2>2, <2>3 DEF UnitTask
<1> QED BY <1>1, <1>2

LEMMA StepPrevious ==
    ASSUME TypeOK, UnitAtHand, TasksOfSteps, PreviousIsLatest, Next
    PROVE  PreviousIsLatest'
<1>1. CASE AssemblyEdges
  <2>1. left' = Active(item) /\ Active(item)' = Active(item)
    BY <1>1 DEF AssemblyEdges, Active, request
  <2>2. \A m \in Machine : previous'[m] = 0
    BY <1>1 DEF AssemblyEdges
  <2> QED BY <2>1, <2>2 DEF PreviousIsLatest
<1>2. ASSUME NEW s \in Step, SerializeStep(s) PROVE PreviousIsLatest'
  <2> DEFINE done == Active(item) \ left
             m == menu[item].machine[s]
  <2>1. /\ pc = "serialize" /\ s \in left /\ \A r \in left : s <= r
        /\ left' = left \ {s} /\ previous' = [previous EXCEPT ![m] = s]
        /\ item' = item /\ menu' = menu
    BY <1>2 DEF SerializeStep, request
  <2>2. /\ left \subseteq Active(item)
        /\ \A x \in done, r \in left : x < r
        /\ \A x \in done : x <= previous[menu[item].machine[x]]
        /\ \A n \in Machine : previous[n] # 0 =>
              previous[n] \in done /\ menu[item].machine[previous[n]] = n
    BY <2>1 DEF PreviousIsLatest
  <2>3. m \in Machine /\ \A x \in done : menu[item].machine[x] \in Machine
    BY <2>1, <2>2, MachineOfStep
  <2>4. Active(item) \subseteq Nat
    BY <2>1, UnitType, RecipeRows
  <2>5. \A n \in Machine : previous'[n] = IF n = m THEN s ELSE previous[n]
    BY <2>1 DEF TypeOK
  <2>6. Active(item)' = Active(item) /\ (Active(item) \ left') = done \cup {s}
    BY <2>1, <2>2 DEF Active
  <2>7. \A x \in done \cup {s}, r \in left' : x < r
    BY <2>1, <2>2, <2>4
  <2>8. \A x \in done \cup {s} : x <= previous'[menu[item].machine[x]]
    BY <2>1, <2>2, <2>3, <2>4, <2>5
  <2>9. \A n \in Machine : previous'[n] # 0 =>
           previous'[n] \in done \cup {s} /\ menu[item].machine[previous'[n]] = n
    BY <2>2, <2>5
  <2> HIDE DEF done, m
  <2> QED BY <2>1, <2>2, <2>6, <2>7, <2>8, <2>9 DEF PreviousIsLatest
<1>3. CASE pc' # "serialize"
  BY <1>3 DEF PreviousIsLatest
<1> QED
  BY <1>1, <1>2, <1>3 DEF Next, NextItem, AddUnit, ExplicitEdges, NextUnit, Validate, TypeOK, Failed

\* The step of the loop that comes to s: its task then waits for the latest
\* earlier one on a machine with one slot.
LEMMA SerializedTask ==
    ASSUME TypeOK, UnitAtHand, TasksOfSteps, PreviousIsLatest, NEW s \in Step, SerializeStep(s),
           NEW t \in tasks, ShareSlot(t, UnitTask(s))
    PROVE  \E d \in tasks : <<UnitTask(s), d>> \in links' /\ (d = t \/ ShareSlot(t, d))
<1> DEFINE m == menu[item].machine[s]
           p == previous[m]
<1>1. /\ pc = "serialize" /\ s \in left /\ \A r \in left : s <= r
      /\ links' = IF Serialized(m) /\ p # 0 THEN links \cup AddEdge(s, p) ELSE links
  BY DEF SerializeStep
<1>2. /\ t[1] = item /\ t[2] = unit /\ t[3] < s /\ menu[item].explicit = {}
      /\ menu[item].machine[t[3]] = m /\ Serialized(m)
  BY DEF ShareSlot, UnitTask, Serialized
<1>3. /\ left \subseteq Active(item)
      /\ \A x \in Active(item) \ left : x <= previous[menu[item].machine[x]]
      /\ \A n \in Machine : previous[n] # 0 =>
            previous[n] \in Active(item) \ left /\ menu[item].machine[previous[n]] = n
      /\ \A x \in Active(item) \ left, r \in left : x < r
  BY <1>1 DEF PreviousIsLatest
<1>4. Active(item) \subseteq Step /\ Step \subseteq Nat \ {0} /\ t \in TaskRow
  BY <1>1, UnitType, RecipeRows DEF TypeOK
<1>5. t[3] \in Active(item) \ left /\ t[3] \in Nat /\ 0 < t[3]
  <2>1. t[3] \in Active(item) \ left
    BY <1>1, <1>2, <1>3, <1>4 DEF TasksOfSteps
  <2>2. t[3] \in Step
    BY <1>4, <2>1
  <2> QED BY <2>1, <2>2, StepNumbers
<1>6. m \in Machine
  BY <1>1, <1>3, MachineOfStep
<1>7. t[3] <= p /\ p \in Nat
  <2>1. p \in Step \cup {0}
    BY <1>6 DEF TypeOK
  <2>2. t[3] <= p
    BY <1>2, <1>3, <1>5
  <2> HIDE DEF p
  <2> QED BY <1>4, <2>1, <2>2
<1>8. p # 0 /\ p \in Active(item) /\ menu[item].machine[p] = m /\ p < s
  <2>1. p # 0
    <3> HIDE DEF p
    <3> QED BY <1>5, <1>7
  <2>2. p \in Active(item) \ left /\ menu[item].machine[p] = m
    BY <1>3, <1>6, <2>1
  <2>3. p < s
    BY <1>1, <1>3, <2>2
  <2> QED BY <2>1, <2>2, <2>3
<1>9. <<UnitTask(s), UnitTask(p)>> \in links' /\ UnitTask(p) \in tasks
  <2>1. s \in Active(item) /\ s # p
    BY <1>1, <1>3, <1>4, <1>8
  <2>2. AddEdge(s, p) = {<<UnitTask(s), UnitTask(p)>>}
    BY <1>8, <2>1 DEF AddEdge
  <2>3. UnitTask(p) \in tasks
    BY <1>1, <1>8 DEF UnitAtHand
  <2> HIDE DEF p
  <2> QED BY <1>1, <1>2, <1>8, <2>2, <2>3
<1>10. CASE p = t[3]
  <2>1. t = UnitTask(p)
    BY <1>2, <1>4, <1>10 DEF TaskRow, UnitTask
  <2> QED BY <1>9, <2>1
<1>11. CASE p # t[3]
  <2>1. t[3] < p
    BY <1>4, <1>5, <1>7, <1>11
  <2>2. ShareSlot(t, UnitTask(p))
    BY <1>2, <1>8, <2>1 DEF ShareSlot, UnitTask, Serialized
  <2> QED BY <1>9, <2>2
<1> QED BY <1>10, <1>11

LEMMA StepChained ==
    ASSUME TypeOK, UnitAtHand, TasksOfSteps, PreviousIsLatest, Chained, Next
    PROVE  Chained'
<1> SUFFICES ASSUME NEW t \in tasks', NEW u \in tasks', Settled(u)', ShareSlot(t, u)
             PROVE  \E d \in tasks' : <<u, d>> \in links' /\ (d = t \/ ShareSlot(t, d))
  <2>1. \A t, u : ShareSlot(t, u)' <=> ShareSlot(t, u)
    BY OnlyAdds DEF ShareSlot
  <2> QED BY <2>1 DEF Chained
<1>0. t[1] = u[1] /\ t[2] = u[2] /\ menu[u[1]].explicit = {}
  BY DEF ShareSlot
<1>1. CASE AddUnit /\ ~ {t, u} \subseteq tasks
  <2>1. pc' \in {"explicit", "fan in"} /\ item' = item /\ unit' = unit
        /\ \A x \in tasks' : x \in tasks \/ \E s \in Active(item) : x = UnitTask(s)
    <3>1. tasks' = tasks \cup {UnitTask(s) : s \in Active(item)} /\ pc' \in {"explicit", "fan in"}
      <4>1. tasks' # tasks
        BY <1>1
      <4> QED BY <1>1, <4>1 DEF AddUnit
    <3> QED BY <1>1, <3>1 DEF AddUnit
  <2>2. u[1] = item /\ u[2] = unit
    <3>1. \A x \in tasks' : x \in tasks \/ (x[1] = item /\ x[2] = unit)
      <4>1. \A s : UnitTask(s)[1] = item /\ UnitTask(s)[2] = unit
        BY DEF UnitTask
      <4> QED BY <2>1, <4>1
    <3> QED BY <1>0, <1>1, <3>1
  <2> QED BY <2>1, <2>2 DEF Settled
<1>2. CASE ~ AddUnit /\ ~ {t, u} \subseteq tasks
  <2>1. tasks' = tasks
    BY <1>2 DEF Next, NextItem, ExplicitEdges, AssemblyEdges, SerializeStep, NextUnit, Validate
  <2> QED BY <1>2, <2>1
<1>3. CASE t \in tasks /\ u \in tasks /\ Settled(u)
  BY <1>3, OnlyAdds DEF Chained
<1>4. CASE t \in tasks /\ u \in tasks /\ ~ Settled(u)
  <2>1. /\ u[1] = item /\ u[2] = unit /\ u[3] \in Active(item)
        /\ \/ pc \in {"unit", "explicit", "fan in", "no machine"}
           \/ pc = "serialize" /\ u[3] \in left
    BY <1>4 DEF Settled, TasksOfSteps
  <2>2. ~ AddUnit
    BY <2>1 DEF AddUnit, Settled
  <2>3. ~ ExplicitEdges
    BY <1>0, <2>1 DEF ExplicitEdges, UnitAtHand
  <2>4. ~ AssemblyEdges
    BY <2>1 DEF AssemblyEdges, Settled
  <2>5. PICK s \in Step : SerializeStep(s)
    BY <2>1, <2>2, <2>3, <2>4 DEF Next, NextItem, NextUnit, Validate
  <2>6. u[3] = s
    BY <2>1, <2>5 DEF SerializeStep, Settled
  <2>7. u = UnitTask(s)
    <3>1. u \in TaskRow
      BY <1>4 DEF TypeOK
    <3>2. u = <<u[1], u[2], u[3]>>
      BY <3>1 DEF TaskRow
    <3> QED BY <2>1, <2>6, <3>2 DEF UnitTask
  <2> QED BY <1>4, <2>5, <2>7, SerializedTask, OnlyAdds
<1> QED BY <1>1, <1>2, <1>3, <1>4

\* AnalyzerInv is inductive.
THEOREM AnalyzerInvariance == Spec => []AnalyzerInv
<1>1. Init => AnalyzerInv
  BY InitType DEF Init, AnalyzerInv, UnitAtHand, TasksOfSteps, LinksDescend, PreviousIsLatest,
                  Chained
<1>2. ASSUME AnalyzerInv, Next PROVE AnalyzerInv'
  <2>1. pc # "self dependency" /\ \A l \in links : l[1] # l[2]
    BY <1>2 DEF AnalyzerInv, LinksDescend
  <2>2. pc' # "self dependency"
    <3>1. Validate => pc' # "self dependency"
      BY <2>1 DEF Validate
    <3>2. ~ Validate => pc' # "self dependency"
      BY <1>2, <2>1 DEF Next, NextItem, AddUnit, ExplicitEdges, AssemblyEdges, SerializeStep,
                        NextUnit
    <3> QED BY <3>1, <3>2
  <2> QED BY <1>2, <2>2, StepType, StepUnit, StepTasks, StepLinks, StepPrevious, StepChained
          DEF AnalyzerInv
<1>3. ASSUME AnalyzerInv, UNCHANGED vars PROVE AnalyzerInv'
  <2> USE <1>3 DEF vars, request, AnalyzerInv
  <2>1. TypeOK' /\ UnitAtHand' /\ TasksOfSteps' /\ LinksDescend' /\ PreviousIsLatest'
    BY DEF TypeOK, UnitAtHand, TasksOfSteps, LinksDescend, PreviousIsLatest, Active, UnitTask
  <2>2. Chained'
    <3>1. \A t, u : (ShareSlot(t, u)' <=> ShareSlot(t, u)) /\ (Settled(u)' <=> Settled(u))
      BY DEF Settled, ShareSlot
    <3> QED BY <3>1 DEF Chained
  <2> QED BY <2>1, <2>2
<1> QED BY <1>1, <1>2, <1>3, PTL DEF Spec

\* TypeOK: no step works on an item, unit or step the request does not have.
THEOREM AnalyzerTypeCorrect == Spec => []TypeOK
BY AnalyzerInvariance, PTL DEF AnalyzerInv

-----------------------------------------------------------------------------
(* The order ConfirmOrder goes on to create                                 *)

\* LinksWithinUnit for every menu: whatever rows recipe_step_dependencies
\* holds, no order is rejected as self-dependent after addEdge, and what the
\* scheduler's assumption Recipes says of links is so.
THEOREM LinksCorrect == Spec => []LinksWithinUnit
<1>1. AnalyzerInv => LinksWithinUnit
  BY DEF AnalyzerInv, LinksDescend, LinksWithinUnit
<1> QED BY <1>1, AnalyzerInvariance, PTL

\* FallbackDrains for every menu: in a set of tasks each of which waits for
\* another, the one of the least step waits for one of an even lesser step.
THEOREM FallbackCorrect == Spec => []FallbackDrains
<1>1. ASSUME AnalyzerInv PROVE FallbackDrains
  <2> SUFFICES ASSUME NEW S \in SUBSET {t \in tasks : menu[t[1]].explicit = {}}, S # {},
                      \A t \in S : \E d \in S : <<t, d>> \in links
               PROVE  FALSE
    BY DEF FallbackDrains
  <2>1. \A t \in S : t[3] \in Nat
    BY <1>1, RecipeRows DEF AnalyzerInv, TypeOK, TaskRow
  <2>2. {t[3] : t \in S} \in SUBSET Nat /\ {t[3] : t \in S} # {}
    BY <2>1
  <2>3. PICK n \in {t[3] : t \in S} : \A y \in {t[3] : t \in S} : n <= y
    BY <2>2, LeastStep
  <2>4. PICK t \in S : t[3] = n
    OBVIOUS
  <2>5. PICK d \in S : <<t, d>> \in links
    OBVIOUS
  <2>6. d[3] < t[3]
    BY <1>1, <2>5 DEF AnalyzerInv, LinksDescend
  <2>7. n <= d[3]
    BY <2>3
  <2> QED BY <2>1, <2>4, <2>6, <2>7
<1> QED BY <1>1, AnalyzerInvariance, PTL

\* SharedMachineSerialized for every menu: the chain of neighbours leads from
\* the later step to the earlier.
THEOREM SerializationCorrect == Spec => []SharedMachineSerialized
<1>1. ASSUME AnalyzerInv PROVE SharedMachineSerialized
  <2> SUFFICES ASSUME pc = "ok", NEW t \in tasks, NEW u \in tasks, ShareSlot(t, u),
                      NEW S \in SUBSET tasks, u \in S, t \notin S,
                      \A l \in links : l[1] \in S => l[2] \in S
               PROVE  FALSE
    BY DEF SharedMachineSerialized, StartsAfter
  <2> DEFINE B == {x \in S : ShareSlot(t, x)}
  <2>1. \A x \in B : x[3] \in Nat
    BY <1>1, RecipeRows DEF AnalyzerInv, TypeOK, TaskRow
  <2>2. {x[3] : x \in B} \in SUBSET Nat /\ {x[3] : x \in B} # {}
    BY <2>1
  <2>3. PICK n \in {x[3] : x \in B} : \A y \in {x[3] : x \in B} : n <= y
    BY <2>2, LeastStep
  <2>4. PICK x \in B : x[3] = n
    OBVIOUS
  <2>5. PICK d \in tasks : <<x, d>> \in links /\ (d = t \/ ShareSlot(t, d))
    BY <1>1, <2>4 DEF AnalyzerInv, Chained, Settled
  <2>6. d \in B
    BY <2>4, <2>5
  <2>7. d[3] < x[3]
    BY <1>1, <2>4, <2>5 DEF AnalyzerInv, LinksDescend, ShareSlot
  <2> QED BY <2>1, <2>3, <2>4, <2>6, <2>7
<1> QED BY <1>1, AnalyzerInvariance, PTL

\* Every order that passes the checks of ConfirmOrder, whatever the menu and the
\* explicit rows, is one the proofs about the scheduler speak of: this is their
\* assumption Recipes.
THEOREM RecipesCorrect == Spec => []KitchenCanTakeIt
<1> DEFINE HasTask == pc = "ok" => tasks # {}
<1>1. Init => HasTask
  BY DEF Init
<1>2. ASSUME HasTask, [Next]_vars PROVE HasTask'
  BY <1>2 DEF Next, NextItem, AddUnit, ExplicitEdges, AssemblyEdges, SerializeStep, NextUnit,
     Validate, vars
<1>3. ASSUME AnalyzerInv, HasTask PROVE KitchenCanTakeIt
  <2>1. ASSUME NEW t \in tasks, NEW d \in DependsOn(t) PROVE d \in tasks \ {t}
    <3>1. PICK l \in links : l[1] = t /\ l[2] = d
      BY <2>1 DEF DependsOn
    <3>2. l[2] \in tasks /\ l[1] # l[2]
      BY <1>3 DEF AnalyzerInv, TypeOK, LinksDescend
    <3> QED BY <3>1, <3>2
  <2> QED BY <1>3, <2>1 DEF KitchenCanTakeIt
<1> HIDE DEF HasTask
<1> QED BY <1>1, <1>2, <1>3, AnalyzerInvariance, PTL DEF Spec

=============================================================================
