------------------------- MODULE StaffSelectionProofs -------------------------
(***************************************************************************)
(* Proofs about the choice of staff and their statistics, for all staff,   *)
(* shifts and estimates, and any number of transactions and tasks.         *)
(*                                                                         *)
(* The argument: active_tasks counts the tasks a person holds              *)
(* (ActiveCounts), so that of a started task is above zero.  The weights   *)
(* of staffScore are positive, so a row that is better in all three        *)
(* respects has a lower score on any lengths of shifts (BetterScoresLower).*)
(* And 0.85 e + 0.15 p is between e and p: the efficiency e stays below    *)
(* any bound that the performances p keep (DivBelow, RoundedMean).         *)
(* Scores are compared like numbers, so one is lowest (BestExists).        *)
(***************************************************************************)
EXTENDS StaffSelection, TLAPS, FiniteSetTheorems, WellFoundedInduction

\* Products keep an order.
LEMMA ProductMonotone ==
  ASSUME NEW k \in Nat, NEW x \in Int, NEW y \in Int, x <= y
  PROVE  k * x <= k * y
<1>1. PICK d \in Nat : y = x + d
  BY y - x \in Nat
<1>2. k * y = k * x + k * d /\ k * d \in Nat
  BY <1>1
<1> QED BY <1>2

LEMMA ProductType ==
  ASSUME NEW x \in Int, NEW y \in Int
  PROVE  x * y \in Int /\ x * y = y * x /\ (x \in Nat /\ y \in Nat => x * y \in Nat)
OBVIOUS

\* A quotient is below what the numerator is below.
LEMMA DivBelow ==
  ASSUME NEW a \in Int, NEW b \in Nat, b > 0, NEW m \in Int, a < b * m
  PROVE  a \div b < m
<1> DEFINE q == a \div b
<1>1. q \in Int /\ b * q <= a
  OBVIOUS
<1> HIDE DEF q
<1> SUFFICES ASSUME m <= q PROVE FALSE
  BY <1>1 DEF q
<1>2. b * m <= b * q
  BY <1>1, ProductMonotone
<1>3. b * m \in Int /\ b * q \in Int
  BY <1>1, ProductType
<1> QED BY <1>1, <1>2, <1>3

LEMMA DivNat ==
  ASSUME NEW a \in Nat, NEW b \in Nat, b > 0
  PROVE  a \div b \in Nat
OBVIOUS

\* p, in thousandths, bounds the performance of a task of est seconds done in
\* secs, and 0.85 e + 0.15 p + 0.5 is below m.
Performs(est, secs, p) == 1000 * est <= p * secs
MeanBelow(e, p, m) == 170 * e + 30 * p + 100 < 200 * m

\* The new efficiency is the rounded mean of the old and the performance.
LEMMA RoundedMean ==
  ASSUME NEW e \in Nat, NEW est \in Nat, NEW secs \in Nat, secs > 0,
         NEW m \in Nat, NEW p \in Nat, Performs(est, secs, p), MeanBelow(e, p, m)
  PROVE  NewEfficiency(e, est, secs) \in Nat /\ NewEfficiency(e, est, secs) < m
<1> DEFINE a == 2 * (85 * e * secs + 15 * 1000 * est) + 100 * secs
<1>1. e * secs \in Nat /\ p * secs \in Nat /\ m * secs \in Nat
  BY ProductType
<1>2. a = 170 * (e * secs) + 30000 * est + 100 * secs /\ a \in Nat
  BY <1>1
<1>3. a <= 170 * (e * secs) + 30 * (p * secs) + 100 * secs
  BY <1>1, <1>2 DEF Performs
<1>4. 170 * (e * secs) + 30 * (p * secs) + 100 * secs = secs * (170 * e + 30 * p + 100)
  BY <1>1
<1>5. secs * (170 * e + 30 * p + 100) < secs * (200 * m)
  <2>1. 170 * e + 30 * p + 100 <= 200 * m - 1
    BY DEF MeanBelow
  <2>2. secs * (170 * e + 30 * p + 100) <= secs * (200 * m - 1)
    BY <2>1, ProductMonotone
  <2>3. secs * (200 * m - 1) = secs * (200 * m) - secs
    OBVIOUS
  <2> QED BY <1>1, <2>2, <2>3
<1>6. secs * (200 * m) = (200 * secs) * m
  OBVIOUS
<1> HIDE DEF a
<1>7. a < (200 * secs) * m /\ 200 * secs \in Nat /\ 200 * secs > 0
  BY <1>1, <1>2, <1>3, <1>4, <1>5, <1>6
<1>8. a \div (200 * secs) < m /\ a \div (200 * secs) \in Nat
  BY <1>2, <1>7, DivBelow, DivNat
<1> QED BY <1>8 DEF a, NewEfficiency
\* A task that took its estimate or longer is a performance of at most 1.
LEMMA OnTimeMean ==
  ASSUME NEW e \in Nat, NEW est \in Nat, NEW secs \in Nat, secs > 0, est <= secs,
         NEW m \in Nat, MeanBelow(e, 1000, m)
  PROVE  NewEfficiency(e, est, secs) \in Nat /\ NewEfficiency(e, est, secs) < m
<1>1. Performs(est, secs, 1000) /\ MeanBelow(e, 1000, m) /\ 1000 \in Nat
  BY DEF Performs, MeanBelow
<1> QED BY <1>1, RoundedMean

LEMMA ShiftSecsType ==
  ASSUME TypeOK, NEW s \in Staff
  PROVE  ShiftSecs(s) \in Nat /\ ShiftSecs(s) > 0
BY StaffConstants DEF TypeOK, ShiftSecs

LEMMA ActualSecsType ==
  ASSUME TypeOK, NEW t \in Task
  PROVE  /\ ActualSecs(t) \in Nat /\ ActualSecs(t) > 0
         /\ now - startedAt[t] <= ActualSecs(t)
BY StaffConstants DEF TypeOK, ActualSecs

\* What is better in each respect is better in the sum, over a common
\* denominator of the two lengths of shifts.
LEMMA BetterSum ==
  ASSUME NEW w1 \in Int, NEW w2 \in Int, w1 <= w2,
         NEW d1 \in Nat, NEW d2 \in Nat, NEW u1 \in Nat, NEW u2 \in Nat,
         u1 * d2 < u2 * d1
  PROVE  (w1 * d1 + 9000 * u1) * d2 < (w2 * d2 + 9000 * u2) * d1
<1>1. d1 * d2 \in Nat /\ u1 * d2 \in Nat /\ u2 * d1 \in Nat
  BY ProductType
<1>2. (d1 * d2) * w1 <= (d1 * d2) * w2
  BY <1>1, ProductMonotone
<1>3. /\ (w1 * d1 + 9000 * u1) * d2 = (d1 * d2) * w1 + 9000 * (u1 * d2)
      /\ (w2 * d2 + 9000 * u2) * d1 = (d1 * d2) * w2 + 9000 * (u2 * d1)
  OBVIOUS
<1>4. (d1 * d2) * w1 \in Int /\ (d1 * d2) * w2 \in Int
  BY <1>1, ProductType
<1> QED BY <1>1, <1>2, <1>3, <1>4

LEMMA BetterScoresLower ==
  ASSUME TypeOK, NEW v, NEW r \in Staff, NEW s \in Staff, v[r] \in Row, v[s] \in Row,
         Beats(v, r, s)
  PROVE  ~ Score(s, v[s]) * ShiftSecs(r) <= Score(r, v[r]) * ShiftSecs(s)
<1> DEFINE W(row) == 1000 * WeightLoad * row.load - WeightEff * row.eff
<1>1. /\ v[r].load \in Nat /\ v[s].load \in Nat /\ v[r].secs \in Nat /\ v[s].secs \in Nat
      /\ v[r].eff \in Nat /\ v[s].eff \in Nat
  BY DEF Row
<1>2. W(v[r]) \in Int /\ W(v[s]) \in Int /\ W(v[r]) <= W(v[s])
  BY <1>1 DEF Beats, WeightLoad, WeightEff
<1>3. ShiftSecs(r) \in Nat /\ ShiftSecs(s) \in Nat
  BY ShiftSecsType
<1>4. v[r].secs * ShiftSecs(s) < v[s].secs * ShiftSecs(r)
  BY DEF Beats
<1>5. /\ Score(r, v[r]) = W(v[r]) * ShiftSecs(r) + 9000 * v[r].secs
      /\ Score(s, v[s]) = W(v[s]) * ShiftSecs(s) + 9000 * v[s].secs
  BY <1>1, <1>2, <1>3 DEF Score, WeightUtil
<1> HIDE DEF W
<1>6. Score(r, v[r]) * ShiftSecs(s) < Score(s, v[s]) * ShiftSecs(r)
  BY <1>1, <1>2, <1>3, <1>4, <1>5, BetterSum
<1>7. Score(r, v[r]) * ShiftSecs(s) \in Int /\ Score(s, v[s]) * ShiftSecs(r) \in Int
  <2>1. W(v[r]) * ShiftSecs(r) \in Int /\ W(v[s]) * ShiftSecs(s) \in Int
    BY <1>2, <1>3, ProductType
  <2>2. Score(r, v[r]) \in Int /\ Score(s, v[s]) \in Int
    BY <1>1, <1>5, <2>1
  <2> QED BY <1>3, <2>2, ProductType
<1> QED BY <1>6, <1>7

-----------------------------------------------------------------------------

\* What CompleteTask writes is no negative number.
LEMMA CompletedType ==
  ASSUME StaffInv, NEW t \in Task, startedAt[t] # -1
  PROVE  /\ holder[t] \in Staff
         /\ eff[holder[t]] \in Nat /\ eff[holder[t]] < MaxEfficiency
         /\ estimate[t] \in Nat
         /\ Completed(t) \in Nat
<1>1. /\ holder[t] \in Staff /\ eff[holder[t]] \in 0..MaxEfficiency - 1
      /\ estimate[t] \in Nat
  BY StaffConstants DEF StaffInv, TypeOK, StartedIsHeld
<1>2. ActualSecs(t) \in Nat /\ ActualSecs(t) > 0
  BY ActualSecsType DEF StaffInv
<1>3. MaxEfficiency \in Nat
  BY StaffConstants
<1>4. \A e, est, secs \in Nat : secs > 0 => NewEfficiency(e, est, secs) \in Nat
  <2> SUFFICES ASSUME NEW e \in Nat, NEW est \in Nat, NEW secs \in Nat, secs > 0
               PROVE  NewEfficiency(e, est, secs) \in Nat
    OBVIOUS
  <2>1. 85 * e * secs \in Nat /\ 15 * 1000 * est \in Nat
    BY 85 * e \in Nat, ProductType
  <2>2. 2 * (85 * e * secs + 15 * 1000 * est) + 100 * secs \in Nat
    BY <2>1
  <2>3. 200 * secs \in Nat /\ 200 * secs > 0
    OBVIOUS
  <2> QED BY <2>2, <2>3, DivNat DEF NewEfficiency
<1>5. eff[holder[t]] \in Nat /\ eff[holder[t]] < MaxEfficiency
  BY <1>1, <1>3
<1>6. Completed(t) \in Nat
  BY <1>1, <1>2, <1>4, <1>5 DEF Completed
<1> QED BY <1>1, <1>5, <1>6

\* Steps that assign and complete nothing leave the counts right.
LEMMA HeldStep ==
  ASSUME ActiveCounts, UNCHANGED <<holder, active>>
  PROVE  ActiveCounts'
<1>1. \A s \in Staff : HeldBy(s)' = HeldBy(s)
  BY DEF HeldBy
<1> QED BY <1>1 DEF ActiveCounts

\* The active tasks of whoever holds a task are not zero.
LEMMA HolderActive ==
  ASSUME ActiveCounts, NEW t \in Task, holder[t] \in Staff
  PROVE  active[holder[t]] > 0
<1> DEFINE S == HeldBy(holder[t])
<1>1. t \in S
  BY DEF HeldBy
<1>2. IsFiniteSet(S) /\ active[holder[t]] = Cardinality(S)
  BY DEF ActiveCounts
<1> HIDE DEF S
<1>3. Cardinality(S) \in Nat /\ Cardinality(S) # 0
  BY <1>1, <1>2, FS_CardinalityType, FS_EmptySet
<1> QED BY <1>2, <1>3

LEMMA PickStep ==
  ASSUME StaffInv, NEW p \in Proc, NEW t \in Task, PickStaff(p, t)
  PROVE  StaffInv'
<1> USE DEF StaffInv
<1>1. PICK s \in Best(view[p]) : /\ holder' = [holder EXCEPT ![t] = s]
                                 /\ active' = [active EXCEPT ![s] = @ + 1]
  BY DEF PickStaff
<1>2. s \in Staff
  BY DEF Best, TypeOK
<1>3. /\ holder[t] = None /\ view' = [view EXCEPT ![p] = [r \in {} |-> 0]]
      /\ UNCHANGED <<now, seconds, eff, startedAt, estimate, completions>>
  BY DEF PickStaff
<1>4. ActiveCounts'
  <2>1. /\ HeldBy(s)' = HeldBy(s) \cup {t} /\ t \notin HeldBy(s)
        /\ \A r \in Staff \ {s} : HeldBy(r)' = HeldBy(r)
    BY <1>1, <1>2, <1>3, StaffConstants DEF HeldBy, TypeOK
  <2>2. active'[s] = active[s] + 1 /\ \A r \in Staff \ {s} : active'[r] = active[r]
    BY <1>1, <1>2 DEF TypeOK
  <2>3. /\ IsFiniteSet(HeldBy(s) \cup {t})
        /\ Cardinality(HeldBy(s) \cup {t}) = Cardinality(HeldBy(s)) + 1
    BY <1>2, <2>1, FS_AddElement DEF ActiveCounts
  <2> QED BY <2>1, <2>2, <2>3 DEF ActiveCounts
<1>5. holder' \in [Task -> Staff \cup {None}] /\ active' \in [Staff -> Nat]
  BY <1>1, <1>2 DEF TypeOK
<1>6. StartedIsHeld'
  BY <1>1, <1>2, <1>3, StaffConstants DEF StartedIsHeld, TypeOK
<1>7. RowsRead'
  BY <1>3 DEF RowsRead
<1>8. \A q \in Proc : DOMAIN view'[q] \subseteq Staff
  BY <1>3 DEF TypeOK, RowsRead
<1>9. ASSUME NEW u \in Task, startedAt'[u] # -1 PROVE holder'[u] # None /\ active'[holder'[u]] > 0
  <2>1. startedAt[u] # -1 /\ holder[u] \in Staff
    BY <1>3, <1>9 DEF StartedIsHeld, TypeOK
  <2>2. holder'[u] = holder[u]
    BY <1>1, <1>3, <2>1, StaffConstants DEF TypeOK
  <2>3. active[holder[u]] > 0 /\ active[holder[u]] \in Nat
    BY <2>1, HolderActive DEF TypeOK
  <2> QED BY <1>1, <1>2, <2>1, <2>2, <2>3, StaffConstants DEF TypeOK
<1>10. TypeOK'
  BY <1>3, <1>5, <1>8, <1>9 DEF TypeOK
<1> QED BY <1>4, <1>6, <1>7, <1>10

LEMMA CompleteStep ==
  ASSUME StaffInv, NEW t \in Task, CompleteTask(t)
  PROVE  StaffInv'
<1> USE DEF StaffInv
<1>0. PICK s \in Staff : s = holder[t]
  BY CompletedType DEF CompleteTask
<1>1. /\ startedAt[t] # -1 /\ Completed(t) < MaxEfficiency
      /\ completions < MaxCompletions /\ completions' = completions + 1
      /\ eff' = [eff EXCEPT ![s] = Completed(t)]
      /\ seconds' = [seconds EXCEPT ![s] = @ + ActualSecs(t)]
      /\ active' = [active EXCEPT ![s] = IF @ > 0 THEN @ - 1 ELSE 0]
      /\ holder' = [holder EXCEPT ![t] = None]
      /\ startedAt' = [startedAt EXCEPT ![t] = -1]
      /\ \E e \in Estimates : estimate' = [estimate EXCEPT ![t] = e]
      /\ UNCHANGED <<now, view>>
  BY <1>0 DEF CompleteTask
<1>2. s = holder[t] /\ Completed(t) \in 0..MaxEfficiency - 1 /\ active[s] > 0 /\ active[s] \in Nat
  BY <1>0, <1>1, CompletedType, StaffConstants, HolderActive DEF TypeOK
<1>3. ActualSecs(t) \in Nat
  BY ActualSecsType
<1>4. /\ eff' \in [Staff -> 0..MaxEfficiency - 1] /\ seconds' \in [Staff -> Nat]
      /\ completions' \in 0..MaxCompletions /\ holder' \in [Task -> Staff \cup {None}]
  BY <1>1, <1>2, <1>3, StaffConstants DEF TypeOK
<1>5. /\ active'[s] = active[s] - 1 /\ \A r \in Staff \ {s} : active'[r] = active[r]
      /\ active' \in [Staff -> Nat]
  BY <1>1, <1>2 DEF TypeOK
<1>6. estimate' \in [Task -> Estimates] /\ startedAt' \in [Task -> -1..MaxTime]
  BY <1>1, StaffConstants DEF TypeOK
<1>7. ActiveCounts'
  <2>1. /\ HeldBy(s)' = HeldBy(s) \ {t} /\ t \in HeldBy(s)
        /\ \A r \in Staff \ {s} : HeldBy(r)' = HeldBy(r)
    BY <1>1, <1>2, StaffConstants DEF HeldBy, TypeOK
  <2>2. IsFiniteSet(HeldBy(s)) /\ active[s] = Cardinality(HeldBy(s))
    BY <1>2 DEF ActiveCounts
  <2>3. /\ IsFiniteSet(HeldBy(s) \ {t})
        /\ Cardinality(HeldBy(s) \ {t}) = Cardinality(HeldBy(s)) - 1
    BY <2>1, <2>2, FS_RemoveElement
  <2> QED BY <1>5, <2>1, <2>2, <2>3 DEF ActiveCounts
<1>8. StartedIsHeld'
  BY <1>1 DEF StartedIsHeld, TypeOK
<1>9. RowsRead'
  BY <1>1 DEF RowsRead
<1>10. ASSUME NEW r \in Staff, NEW u \in Task, holder'[u] = r PROVE active'[r] > 0
  <2>1. u \in HeldBy(r)'
    BY <1>10 DEF HeldBy
  <2>2. IsFiniteSet(HeldBy(r)') /\ active'[r] = Cardinality(HeldBy(r)')
    BY <1>7 DEF ActiveCounts
  <2>3. Cardinality(HeldBy(r)') \in Nat /\ Cardinality(HeldBy(r)') # 0
    BY <2>1, <2>2, FS_CardinalityType, FS_EmptySet
  <2> QED BY <2>2, <2>3
<1>11. TypeOK'
  BY <1>1, <1>4, <1>5, <1>6, <1>8, <1>10 DEF TypeOK, StartedIsHeld
<1> QED BY <1>7, <1>8, <1>9, <1>11

LEMMA FindStep ==
  ASSUME StaffInv, NEW p \in Proc, FindEligibleStaff(p)
  PROVE  StaffInv'
<1> USE DEF StaffInv
<1>1. UNCHANGED <<now, active, seconds, eff, holder, startedAt, estimate, completions>>
  BY DEF FindEligibleStaff
<1>2. PICK E \in SUBSET Staff :
         view' = [view EXCEPT ![p] =
                    [s \in E |-> [load |-> active[s], secs |-> seconds[s], eff |-> eff[s]]]]
  BY DEF FindEligibleStaff
<1>3. \A s \in Staff : active[s] \in Nat /\ seconds[s] \in Nat /\ eff[s] \in Nat
  BY StaffConstants DEF TypeOK
<1>4. RowsRead'
  <2>1. DOMAIN view' = Proc
    BY <1>2 DEF RowsRead
  <2>2. ASSUME NEW q \in Proc, NEW s \in DOMAIN view'[q] PROVE view'[q][s] \in Row
    <3>1. CASE q = p
      <4>1. /\ s \in E
            /\ view'[q][s] = [load |-> active[s], secs |-> seconds[s], eff |-> eff[s]]
        BY <1>2, <2>2, <3>1 DEF RowsRead
      <4> QED BY <1>3, <4>1 DEF Row
    <3>2. CASE q # p
      BY <1>2, <2>2, <3>2 DEF RowsRead
    <3> QED BY <3>1, <3>2
  <2> QED BY <2>1, <2>2 DEF RowsRead
<1>5. \A q \in Proc : DOMAIN view'[q] \subseteq Staff
  BY <1>2 DEF RowsRead, TypeOK
<1>6. TypeOK' /\ StartedIsHeld'
  BY <1>1, <1>5 DEF TypeOK, StartedIsHeld
<1> QED BY <1>1, <1>4, <1>6, HeldStep

LEMMA InitStaff == Init => StaffInv
<1> SUFFICES ASSUME Init PROVE StaffInv
  OBVIOUS
<1>1. TypeOK
  BY StaffConstants DEF Init, TypeOK
<1>2. ASSUME NEW s \in Staff
      PROVE  IsFiniteSet(HeldBy(s)) /\ active[s] = Cardinality(HeldBy(s))
  <2>1. HeldBy(s) = {} /\ active[s] = 0
    BY StaffConstants DEF Init, HeldBy
  <2> QED BY <2>1, FS_EmptySet
<1>3. StartedIsHeld /\ RowsRead
  BY DEF Init, StartedIsHeld, RowsRead
<1> QED BY <1>1, <1>2, <1>3 DEF StaffInv, ActiveCounts

LEMMA NextStaff == StaffInv /\ [Next]_vars => StaffInv'
<1> SUFFICES ASSUME StaffInv, [Next]_vars PROVE StaffInv'
  OBVIOUS
<1>1. CASE Tick
  <2>1. now' \in 0..MaxTime
    BY <1>1, StaffConstants DEF Tick, StaffInv, TypeOK
  <2> QED BY <1>1, <2>1, HeldStep DEF Tick, StaffInv, TypeOK, StartedIsHeld, RowsRead
<1>2. ASSUME NEW t \in Task, StartTask(t) PROVE StaffInv'
  <2>1. /\ holder[t] # None /\ startedAt' = [startedAt EXCEPT ![t] = now]
        /\ UNCHANGED <<now, active, seconds, eff, view, holder, estimate, completions>>
    BY <1>2 DEF StartTask
  <2>2. startedAt' \in [Task -> -1..MaxTime]
    BY <2>1, StaffConstants DEF StaffInv, TypeOK
  <2>3. StartedIsHeld' /\ RowsRead' /\ ActiveCounts'
    BY <2>1, HeldStep DEF StaffInv, StartedIsHeld, RowsRead, TypeOK
  <2>4. \A u \in Task : startedAt'[u] # -1 => holder'[u] # None /\ active'[holder'[u]] > 0
    BY <2>1, <2>3, HolderActive DEF StaffInv, StartedIsHeld, TypeOK
  <2> QED BY <2>1, <2>2, <2>3, <2>4 DEF StaffInv, TypeOK
<1>3. CASE UNCHANGED vars
  BY <1>3, HeldStep DEF vars, StaffInv, TypeOK, StartedIsHeld, RowsRead
<1> QED BY <1>1, <1>2, <1>3, FindStep, PickStep, CompleteStep DEF Next

\* The strengthening that makes the properties below inductive.
THEOREM StaffInvariance == Spec => []StaffInv
BY InitStaff, NextStaff, PTL DEF Spec

\* The statistics stay well typed, and UpdateStaffEfficiencyAndActive never
\* finds active_tasks at zero for the staff of a task it completes.
THEOREM StaffTypeCorrect == Spec => []TypeOK
<1>1. StaffInv => TypeOK
  BY DEF StaffInv
<1> QED BY <1>1, StaffInvariance, PTL

\* CompleteTask never overflows the column of the efficiency if the greatest
\* performance, an estimate done in one second, fits the column.
THEOREM EfficiencyCorrect ==
  ASSUME \A est \in Estimates : 1000 * est < MaxEfficiency
  PROVE  Spec => []EfficiencyFits
<1>1. StaffInv => EfficiencyFits
  <2> SUFFICES ASSUME StaffInv, NEW t \in Task, startedAt[t] # -1
               PROVE  Completed(t) < MaxEfficiency
    BY DEF EfficiencyFits
  <2> DEFINE e == eff[holder[t]]
             secs == ActualSecs(t)
             p == 1000 * estimate[t]
  <2>1. /\ e \in Nat /\ e < MaxEfficiency /\ estimate[t] \in Nat
        /\ estimate[t] \in Estimates /\ MaxEfficiency \in Nat
    BY CompletedType, StaffConstants DEF StaffInv, TypeOK
  <2>2. secs \in Nat /\ secs > 0
    BY ActualSecsType DEF StaffInv
  <2>3. p \in Nat /\ p < MaxEfficiency
    BY <2>1
  <2> HIDE DEF e, secs
  <2>4. Performs(estimate[t], secs, p)
    <3>1. p * 1 <= p * secs
      BY <2>2, <2>3, ProductMonotone
    <3> QED BY <2>3, <3>1 DEF Performs
  <2> HIDE DEF p
  <2>5. MeanBelow(e, p, MaxEfficiency)
    BY <2>1, <2>3 DEF MeanBelow
  <2> QED BY <2>1, <2>2, <2>3, <2>4, <2>5, RoundedMean DEF Completed, e, secs
<1> QED BY <1>1, StaffInvariance, PTL

\* pickStaff never takes someone when it has read of another one who is better
\* in all respects, whatever the shifts and whatever others write meanwhile.
THEOREM PickCorrect == Spec => NeverPicksTheWorse
<1>1. ASSUME StaffInv, [Next]_vars, NEW p \in Proc, NEW t \in Task, NEW s \in Staff,
             holder[t] = None, holder'[t] = s, view'[p] # view[p]
      PROVE  \A r \in DOMAIN view[p] : ~ Beats(view[p], r, s)
  <2>1. PickStaff(p, t)
    <3>1. ASSUME NEW q \in Proc, NEW u \in Task, PickStaff(q, u) PROVE q = p /\ u = t
      BY <1>1, <3>1, StaffConstants DEF PickStaff, StaffInv, TypeOK, RowsRead
    <3>2. ~ UNCHANGED holder /\ ~ UNCHANGED view
      BY <1>1, StaffConstants
    <3> QED BY <1>1, <3>1, <3>2 DEF Next, Tick, FindEligibleStaff, StartTask, CompleteTask, vars
  <2>2. s \in Best(view[p])
    BY <1>1, <2>1 DEF PickStaff, StaffInv, TypeOK
  <2>3. ASSUME NEW r \in DOMAIN view[p] PROVE ~ Beats(view[p], r, s)
    <3>1. /\ r \in Staff /\ view[p][r] \in Row /\ view[p][s] \in Row
          /\ Score(s, view[p][s]) * ShiftSecs(r) <= Score(r, view[p][r]) * ShiftSecs(s)
      BY <1>1, <2>2 DEF Best, StaffInv, TypeOK, RowsRead
    <3> QED BY <1>1, <3>1, BetterScoresLower DEF StaffInv
  <2> QED BY <2>3
<1>2. StaffInv /\ [Next]_vars =>
        \A p \in Proc, t \in Task, s \in Staff :
           holder[t] = None /\ holder'[t] = s /\ view'[p] # view[p] =>
               \A r \in DOMAIN view[p] : ~ Beats(view[p], r, s)
  BY <1>1
<1> QED BY <1>2, StaffInvariance, PTL DEF Spec, NeverPicksTheWorse

\* A task that took at least its estimate earns no efficiency above 1.
THEOREM OnTimeCorrect == Spec => OnTimeEarnsNothing
<1> DEFINE Earned(t) == eff'[holder[t]] <= eff[holder[t]] \/ eff'[holder[t]] <= 1000
<1>1. ASSUME StaffInv, [Next]_vars, NEW t \in Task, startedAt[t] # -1, startedAt'[t] = -1,
             now - startedAt[t] >= estimate[t], estimate[t] > 0
      PROVE  Earned(t)
  <2>1. CompleteTask(t)
    <3>1. ASSUME NEW u \in Task, StartTask(u) PROVE FALSE
      BY <1>1, <3>1, StaffConstants DEF StartTask, StaffInv, TypeOK
    <3>2. ASSUME NEW u \in Task, CompleteTask(u) PROVE u = t
      BY <1>1, <3>2 DEF CompleteTask, StaffInv, TypeOK
    <3> QED BY <1>1, <3>1, <3>2 DEF Next, Tick, FindEligibleStaff, PickStaff, vars
  <2> DEFINE e == eff[holder[t]]
             secs == ActualSecs(t)
  <2>2. holder[t] \in Staff /\ e \in Nat /\ estimate[t] \in Nat
    BY <1>1, CompletedType
  <2>3. secs \in Nat /\ secs > 0 /\ estimate[t] <= secs
    BY <1>1, <2>2, ActualSecsType DEF StaffInv, TypeOK
  <2>4. eff'[holder[t]] = NewEfficiency(e, estimate[t], secs)
    BY <1>1, <2>1, <2>2 DEF CompleteTask, Completed, StaffInv, TypeOK
  <2> HIDE DEF e, secs
  <2>5. ASSUME NEW m \in Nat, MeanBelow(e, 1000, m)
        PROVE  eff'[holder[t]] \in Nat /\ eff'[holder[t]] < m
    BY <2>2, <2>3, <2>4, <2>5, OnTimeMean
  <2>6. CASE e <= 1000
    <3>1. MeanBelow(e, 1000, 1001) /\ 1001 \in Nat
      BY <2>2, <2>6 DEF MeanBelow
    <3>2. eff'[holder[t]] \in Nat /\ eff'[holder[t]] < 1001
      BY <2>5, <3>1
    <3> QED BY <3>2
  <2>7. CASE e > 1000
    <3>1. MeanBelow(e, 1000, e + 1) /\ e + 1 \in Nat
      BY <2>2, <2>7 DEF MeanBelow
    <3>2. eff'[holder[t]] \in Nat /\ eff'[holder[t]] < e + 1
      BY <2>5, <3>1
    <3> QED BY <2>2, <3>2 DEF e
  <2> QED BY <2>2, <2>6, <2>7
<1>2. StaffInv /\ [Next]_vars =>
        \A t \in Task : startedAt[t] # -1 /\ startedAt'[t] = -1
           /\ now - startedAt[t] >= estimate[t] /\ estimate[t] > 0 => Earned(t)
  BY <1>1
<1> QED BY <1>2, StaffInvariance, PTL DEF Spec, OnTimeEarnsNothing

-----------------------------------------------------------------------------
(* pickStaff always finds someone                                           *)

\* Fractions are compared like numbers: a/x <= b/y and b/y <= c/z.
LEMMA FractionsTransitive ==
  ASSUME NEW a \in Int, NEW b \in Int, NEW c \in Int,
         NEW x \in Nat, NEW y \in Nat, NEW z \in Nat, y > 0,
         a * y <= b * x, b * z <= c * y
  PROVE  a * z <= c * x
<1>1. a * y \in Int /\ b * x \in Int /\ b * z \in Int /\ c * y \in Int
  BY ProductType
<1>2. z * (a * y) <= z * (b * x) /\ x * (b * z) <= x * (c * y)
  BY <1>1, ProductMonotone
<1>3. z * (a * y) = y * (a * z) /\ z * (b * x) = x * (b * z) /\ x * (c * y) = y * (c * x)
  OBVIOUS
<1>4. a * z \in Int /\ c * x \in Int
  BY ProductType
<1>5. y * (a * z) <= y * (c * x)
  <2>1. y * (a * z) \in Int /\ x * (b * z) \in Int /\ y * (c * x) \in Int
    BY <1>1, <1>4, ProductType
  <2> QED BY <1>2, <1>3, <2>1
<1>6. ASSUME c * x < a * z PROVE FALSE
  <2>1. c * x + 1 <= a * z
    BY <1>4, <1>6
  <2>2. y * (c * x + 1) <= y * (a * z)
    BY <1>4, <2>1, ProductMonotone
  <2>3. y * (c * x + 1) = y * (c * x) + y
    BY <1>4
  <2>4. y * (c * x) \in Int
    BY <1>4, ProductType
  <2> QED BY <1>4, <1>5, <2>2, <2>3, <2>4
<1> QED BY <1>4, <1>6

\* A non-empty set of numbers has a least one.
LEMMA LeastNumber ==
  ASSUME NEW S \in SUBSET Nat, S # {}
  PROVE  \E x \in S : \A y \in S : x <= y
<1> DEFINE Less == {ss \in Nat \X Nat : ss[1] < ss[2]}
<1>1. IsWellFoundedOn(Less, Nat)
  BY NatLessThanWellFounded DEF OpToRel
<1>2. PICK x \in S : \A y \in S : <<y, x>> \notin Less
  <2> HIDE DEF Less
  <2> QED BY <1>1, WFMin
<1>3. \A y \in S : ~ (y < x)
  BY <1>2
<1> QED BY <1>2, <1>3

\* Of finitely many, one is no worse than any: the one that is no worse than
\* most.
LEMMA BestExists ==
  ASSUME TypeOK, NEW v, DOMAIN v \subseteq Staff, DOMAIN v # {},
         \A s \in DOMAIN v : v[s] \in Row
  PROVE  Best(v) # {}
<1> DEFINE NoWorse(s, r) == Score(s, v[s]) * ShiftSecs(r) <= Score(r, v[r]) * ShiftSecs(s)
           Under(s) == {r \in DOMAIN v : NoWorse(s, r)}
           Rest(s) == Cardinality(DOMAIN v) - Cardinality(Under(s))
           S == {Rest(s) : s \in DOMAIN v}
<1>1. ASSUME NEW s \in DOMAIN v PROVE Score(s, v[s]) \in Int
  <2>1. ShiftSecs(s) \in Int /\ v[s].load \in Int /\ v[s].eff \in Int /\ v[s].secs \in Int
    BY <1>1, ShiftSecsType DEF Row
  <2>2. /\ 1000 * WeightLoad * v[s].load - WeightEff * v[s].eff \in Int
        /\ 1000 * WeightUtil * v[s].secs \in Int
    BY <2>1 DEF WeightLoad, WeightEff, WeightUtil
  <2>3. (1000 * WeightLoad * v[s].load - WeightEff * v[s].eff) * ShiftSecs(s) \in Int
    BY <2>1, <2>2, ProductType
  <2> QED BY <2>2, <2>3 DEF Score
<1>2. \A s \in DOMAIN v : ShiftSecs(s) \in Nat /\ ShiftSecs(s) > 0
  BY ShiftSecsType
<1>3. \A s, r \in DOMAIN v : NoWorse(s, r) \/ NoWorse(r, s)
  <2> SUFFICES ASSUME NEW s \in DOMAIN v, NEW r \in DOMAIN v PROVE NoWorse(s, r) \/ NoWorse(r, s)
    OBVIOUS
  <2>1. Score(s, v[s]) * ShiftSecs(r) \in Int /\ Score(r, v[r]) * ShiftSecs(s) \in Int
    BY <1>1, <1>2, ProductType
  <2> QED BY <2>1
<1>4. \A s, r, q \in DOMAIN v : NoWorse(s, r) /\ NoWorse(r, q) => NoWorse(s, q)
  BY <1>1, <1>2, FractionsTransitive
<1> HIDE DEF NoWorse
<1>5. IsFiniteSet(DOMAIN v)
  BY StaffConstants, FS_Subset
<1>6. ASSUME NEW s \in DOMAIN v
      PROVE  IsFiniteSet(Under(s)) /\ Cardinality(Under(s)) \in Nat /\ Rest(s) \in Nat
  <2>1. Under(s) \subseteq DOMAIN v
    OBVIOUS
  <2> HIDE DEF Under
  <2>2. /\ IsFiniteSet(Under(s)) /\ Cardinality(Under(s)) <= Cardinality(DOMAIN v)
        /\ Cardinality(Under(s)) \in Nat /\ Cardinality(DOMAIN v) \in Nat
    BY <1>5, <2>1, FS_Subset, FS_CardinalityType
  <2> QED BY <2>2
<1>7. PICK s \in DOMAIN v : \A r \in DOMAIN v : Rest(s) <= Rest(r)
  <2>1. S \in SUBSET Nat /\ S # {}
    <3> HIDE DEF Rest
    <3> QED BY <1>6
  <2>2. PICK x \in S : \A y \in S : x <= y
    <3> HIDE DEF S
    <3> QED BY <2>1, LeastNumber
  <2> HIDE DEF Rest
  <2> QED BY <2>2
<1>8. ASSUME NEW r \in DOMAIN v, ~ NoWorse(s, r) PROVE FALSE
  <2>1. NoWorse(r, s) /\ NoWorse(r, r)
    BY <1>3, <1>8
  <2>2. Under(s) \cup {r} \subseteq Under(r) /\ r \notin Under(s)
    BY <1>4, <1>8, <2>1
  <2> HIDE DEF Under
  <2>3. /\ IsFiniteSet(Under(s) \cup {r})
        /\ Cardinality(Under(s) \cup {r}) = Cardinality(Under(s)) + 1
    BY <1>6, <2>2, FS_AddElement
  <2>4. Cardinality(Under(s)) + 1 <= Cardinality(Under(r))
    BY <1>6, <2>2, <2>3, FS_Subset
  <2>5. Cardinality(DOMAIN v) \in Nat
    BY <1>5, FS_CardinalityType
  <2> QED BY <1>6, <1>7, <2>4, <2>5
<1>9. s \in Best(v)
  BY <1>8 DEF Best, NoWorse
<1> QED BY <1>9

\* pickStaff finds someone whenever there are eligible staff, on any lengths of
\* shifts, so that Kitchen may let the choice be any of them.
SomeoneIsPicked == \A p \in Proc : DOMAIN view[p] # {} => Best(view[p]) # {}

\* SomeoneIsPicked for any staff and any shifts.
THEOREM SomeonePickedCorrect == Spec => []SomeoneIsPicked
<1>1. StaffInv => SomeoneIsPicked
  BY BestExists DEF StaffInv, TypeOK, RowsRead, SomeoneIsPicked
<1> QED BY <1>1, StaffInvariance, PTL

=============================================================================
