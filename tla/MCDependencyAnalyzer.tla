------------------------- MODULE MCDependencyAnalyzer -------------------------
(***************************************************************************)
(* Instances of the analyzer for TLC: every recipe of up to four steps on  *)
(* two machines, one with a single slot, and orders of two units.          *)
(***************************************************************************)
EXTENDS DependencyAnalyzer, TLC

CONSTANTS m1, m2, a

FourSteps == 1..4
SingleAndDouble == (m1 :> 1) @@ (m2 :> 2)

\* Without explicit rows, for the fallback analysis.
AllRecipes ==
    {[active |-> A, machine |-> [s \in Step |-> IF s \in A \cap B THEN m1 ELSE m2],
      assembly |-> C, explicit |-> {}] : A \in SUBSET Step, B \in SUBSET Step, C \in SUBSET Step}

\* With explicit rows of all kinds, also next to inactive steps, and with a
\* step without a machine.
ExplicitRecipes ==
    [active : {{1, 2}, {1, 2, 3}}, machine : {[s \in Step |-> m1]}, assembly : {{2}},
     explicit : SUBSET {<<1, 2>>, <<2, 1>>, <<2, 3>>, <<2, 2>>}]
NoMachine == [active |-> {1}, machine |-> [s \in Step |-> None], assembly |-> {}, explicit |-> {}]

EveryRecipe == AllRecipes \cup ExplicitRecipes \cup {NoMachine}
=============================================================================
