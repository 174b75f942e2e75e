---------------------------- MODULE StaffSelection ----------------------------
(***************************************************************************)
(* Whom AllocateOnce picks, and what CompleteTask learns about them:       *)
(* FindEligibleStaff, pickStaff and staffScore, and the statistics that    *)
(* UpdateStaffEfficiencyAndActive keeps.  Kitchen leaves the choice open.  *)
(*                                                                         *)
(* Efficiency is in thousandths, the scale of the column; the scores are   *)
(* compared as fractions.  A task is a slot that is used again.            *)
(***************************************************************************)
EXTENDS Integers, FiniteSets

CONSTANTS
    Staff, Task, Proc,
    None,
    Estimates,          \* values of tasks.estimate_secs
    ShiftStart,         \* staff.shift_start; may lie before time 0
    MaxParallel,
    MaxEfficiency,      \* what NUMERIC(6,3) holds: below 1000000
    MaxTime, MaxCompletions     \* bounds of the model

ASSUME StaffConstants ==
    /\ IsFiniteSet(Staff) /\ None \notin Staff
    /\ Estimates \subseteq Nat
    /\ ShiftStart \in [Staff -> Int] /\ \A s \in Staff : ShiftStart[s] <= 0
    /\ MaxParallel \in [Staff -> Nat]
    /\ MaxEfficiency \in Nat /\ MaxEfficiency > 1000
    /\ MaxTime \in Nat /\ MaxCompletions \in Nat

VARIABLES
    now,
    active,             \* staff.active_tasks
    seconds,            \* staff.active_seconds
    eff,                \* staff.efficiency_multiplier
    view,               \* rows of staff a transaction of AllocateOnce has read
    holder,             \* tasks.assigned_staff_id
    startedAt,          \* tasks.started_at; -1 for NULL
    estimate,           \* tasks.estimate_secs
    completions         \* so far

vars == <<now, active, seconds, eff, view, holder, startedAt, estimate, completions>>

TypeOK ==
    /\ now \in 0..MaxTime
    /\ active \in [Staff -> Nat] /\ seconds \in [Staff -> Nat]
    /\ eff \in [Staff -> 0..MaxEfficiency - 1]
    /\ holder \in [Task -> Staff \cup {None}]
    /\ startedAt \in [Task -> -1..MaxTime]
    /\ estimate \in [Task -> Estimates]
    /\ completions \in 0..MaxCompletions
    /\ \A p \in Proc : DOMAIN view[p] \subseteq Staff
    /\ \A t \in Task : startedAt[t] # -1 => holder[t] # None /\ active[holder[t]] > 0

Init ==
    /\ now = 0
    /\ active = [s \in Staff |-> 0]
    /\ seconds = [s \in Staff |-> 0]
    /\ eff = [s \in Staff |-> 1000]
    /\ view = [p \in Proc |-> [s \in {} |-> 0]]
    /\ holder = [t \in Task |-> None]
    /\ startedAt = [t \in Task |-> -1]
    /\ estimate \in [Task -> Estimates]
    /\ completions = 0

-----------------------------------------------------------------------------
Tick ==
    /\ now < MaxTime /\ now' = now + 1
    /\ UNCHANGED <<active, seconds, eff, view, holder, startedAt, estimate, completions>>

\* Skill, break and shift may leave out anyone.
FindEligibleStaff(p) ==
    /\ DOMAIN view[p] = {}
    /\ \E E \in SUBSET {s \in Staff : active[s] < MaxParallel[s]} :
          /\ E # {}
          /\ view' = [view EXCEPT ![p] =
                 [s \in E |-> [load |-> active[s], secs |-> seconds[s], eff |-> eff[s]]]]
    /\ UNCHANGED <<now, active, seconds, eff, holder, startedAt, estimate, completions>>

ShiftSecs(s) == IF now - ShiftStart[s] > 1 THEN now - ShiftStart[s] ELSE 1

\* In tenths.
WeightLoad == 12
WeightUtil == 9
WeightEff == 11

\* Mutant of Score: the efficiency is a cost.
ScoreWrongSign(s, row) ==
    (1000 * WeightLoad * row.load + WeightEff * row.eff) * ShiftSecs(s)
        + 1000 * WeightUtil * row.secs

\* 10000 times the score, times the seconds of the shift that it divides by.
Score(s, row) ==
    (1000 * WeightLoad * row.load - WeightEff * row.eff) * ShiftSecs(s)
        + 1000 * WeightUtil * row.secs

\* Those of the rows v with the lowest score: the query has no ORDER BY, so
\* any of them may come first.
Best(v) == {s \in DOMAIN v : \A r \in DOMAIN v :
                Score(s, v[s]) * ShiftSecs(r) <= Score(r, v[r]) * ShiftSecs(s)}

PickStaff(p, t) ==
    /\ holder[t] = None
    /\ \E s \in Best(view[p]) :
          /\ holder' = [holder EXCEPT ![t] = s]
          /\ active' = [active EXCEPT ![s] = @ + 1]
    /\ view' = [view EXCEPT ![p] = [s \in {} |-> 0]]
    /\ UNCHANGED <<now, seconds, eff, startedAt, estimate, completions>>

\* Mutant of StartTask: an unassigned task is started.
StartUnassigned(t) ==
    /\ startedAt[t] = -1
    /\ startedAt' = [startedAt EXCEPT ![t] = now]
    /\ UNCHANGED <<now, active, seconds, eff, view, holder, estimate, completions>>

StartTask(t) ==
    /\ holder[t] # None /\ startedAt[t] = -1
    /\ startedAt' = [startedAt EXCEPT ![t] = now]
    /\ UNCHANGED <<now, active, seconds, eff, view, holder, estimate, completions>>

ActualSecs(t) == IF now - startedAt[t] > 0 THEN now - startedAt[t] ELSE 1

\* Mutant of NewEfficiency: the new performance is not weighted.
NewEfficiencyUnweighted(e, est, secs) == (85 * e * secs + 100000 * est) \div (100 * secs)

\* 0.85 e + 0.15 est/secs, rounded to the scale of the column.
NewEfficiency(e, est, secs) ==
    (2 * (85 * e * secs + 15 * 1000 * est) + 100 * secs) \div (200 * secs)

\* CompleteTask.  A value the column does not hold is an error, and the
\* transaction is rolled back.
Completed(t) == NewEfficiency(eff[holder[t]], estimate[t], ActualSecs(t))

CompleteTask(t) ==
    LET s == holder[t] IN
    /\ startedAt[t] # -1 /\ Completed(t) < MaxEfficiency
    /\ completions < MaxCompletions /\ completions' = completions + 1
    /\ eff' = [eff EXCEPT ![s] = Completed(t)]
    /\ seconds' = [seconds EXCEPT ![s] = @ + ActualSecs(t)]
    /\ active' = [active EXCEPT ![s] = IF @ > 0 THEN @ - 1 ELSE 0]
    /\ holder' = [holder EXCEPT ![t] = None]
    /\ startedAt' = [startedAt EXCEPT ![t] = -1]
    /\ \E e \in Estimates : estimate' = [estimate EXCEPT ![t] = e]
    /\ UNCHANGED <<now, view>>

-----------------------------------------------------------------------------
Next ==
    \/ Tick
    \/ \E p \in Proc : FindEligibleStaff(p) \/ \E t \in Task : PickStaff(p, t)
    \/ \E t \in Task : StartTask(t) \/ CompleteTask(t)

Spec == Init /\ [][Next]_vars

-----------------------------------------------------------------------------
(* Properties                                                               *)

\* r beats s in every respect the score weighs.
Beats(v, r, s) ==
    /\ v[r].load < v[s].load
    /\ v[r].secs * ShiftSecs(s) < v[s].secs * ShiftSecs(r)
    /\ v[r].eff > v[s].eff

\* pickStaff never takes anyone while it has read of another one who has
\* fewer tasks, has been used less of the shift and is more efficient,
\* whatever the weights make of lengths of shifts and accumulated seconds.
NeverPicksTheWorse ==
    [][\A p \in Proc, t \in Task, s \in Staff :
           holder[t] = None /\ holder'[t] = s /\ view'[p] # view[p] =>
               \A r \in DOMAIN view[p] : ~ Beats(view[p], r, s)]_vars

\* However fast tasks are completed, and how often, the statistics CompleteTask
\* writes fit their column, so that no started task is stuck for it; this
\* needs estimates below 1000 seconds.
EfficiencyFits == \A t \in Task : startedAt[t] # -1 => Completed(t) < MaxEfficiency

\* A task that took its estimate or longer, as every one the Temporal timer
\* completes, never takes its staff above 1 or further above it.
OnTimeEarnsNothing ==
    [][\A t \in Task : startedAt[t] # -1 /\ startedAt'[t] = -1
           /\ now - startedAt[t] >= estimate[t] /\ estimate[t] > 0 =>
              eff'[holder[t]] <= eff[holder[t]] \/ eff'[holder[t]] <= 1000]_vars
-----------------------------------------------------------------------------
(* The inductive invariant behind TypeOK and the other properties           *)

\* The slots of s whose tasks count as active.
HeldBy(s) == {t \in Task : holder[t] = s}

ActiveCounts == \A s \in Staff : IsFiniteSet(HeldBy(s)) /\ active[s] = Cardinality(HeldBy(s))

StartedIsHeld == \A t \in Task : startedAt[t] # -1 => holder[t] # None

Row == [load : Nat, secs : Nat, eff : Nat]

RowsRead ==
    /\ DOMAIN view = Proc
    /\ \A p \in Proc : \A s \in DOMAIN view[p] : view[p][s] \in Row

StaffInv == TypeOK /\ ActiveCounts /\ StartedIsHeld /\ RowsRead

=============================================================================
