-------------------------------- MODULE Lab_proof --------------------------------
(***************************************************************************)
(* Proofs about the three seeding scripts and the score, for every number  *)
(* of runs, cases, workflows, fixtures and enrichments.                    *)
(*                                                                         *)
(* Each script has two invariants.  One holds whoever runs at once: what a *)
(* run has seen in the service or written there survives the steps of the  *)
(* others, for nothing is ever taken away.  The other holds until two runs *)
(* overlap: what the only run has found missing is still missing when it   *)
(* adds it, so that nothing is added twice.                                *)
(***************************************************************************)
EXTENDS MCLab, FiniteSetTheorems, WellFoundedInduction, TLAPS

------------------------------------------------------------------------------
(* scoring.py.                                                               *)

LEMMA RuleRange == ASSUME NEW level \in Nat PROVE RulePoints(level) \in 0..60
BY DEF RulePoints, Capped

LEMMA IntelligenceRange ==
  ASSUME NEW confidence \in 0..100 PROVE IntelligencePoints(confidence) \in 0..30
BY DEF IntelligencePoints

LEMMA IndicatorRange == ASSUME NEW count \in Nat PROVE IndicatorPoints(count) \in 0..10
BY DEF IndicatorPoints, Capped

\* score_alert caps the sum at 100, but the sum of the capped factors cannot exceed it:
\* what the analyst is shown as factors always adds up to the score, which is a percentage.
THEOREM FactorsAddUp ==
  ASSUME NEW level \in Nat, NEW confidence \in 0..100, NEW count \in Nat
  PROVE  /\ Score(level, confidence, count) = FactorSum(level, confidence, count)
         /\ Score(level, confidence, count) \in 0..100
<1> DEFINE rule == RulePoints(level)
<1> DEFINE intelligence == IntelligencePoints(confidence)
<1> DEFINE indicators == IndicatorPoints(count)
<1>1. rule \in 0..60 /\ intelligence \in 0..30 /\ indicators \in 0..10
  BY RuleRange, IntelligenceRange, IndicatorRange
<1>2. FactorSum(level, confidence, count) = rule + intelligence + indicators BY DEF FactorSum
<1> HIDE DEF rule, intelligence, indicators
<1>3. FactorSum(level, confidence, count) \in 0..100 BY <1>1, <1>2
<1>4. QED BY <1>3 DEF Score, Capped

\* A higher rule level, more confident intelligence or more indicators never lower the
\* score, through the rounding and the caps.
THEOREM ScoreIsMonotone ==
  ASSUME NEW l1 \in Nat, NEW l2 \in Nat, NEW c1 \in 0..100, NEW c2 \in 0..100,
         NEW n1 \in Nat, NEW n2 \in Nat, l1 <= l2, c1 <= c2, n1 <= n2
  PROVE  Score(l1, c1, n1) <= Score(l2, c2, n2)
<1>1. RulePoints(l1) <= RulePoints(l2) BY DEF RulePoints, Capped
<1>2. IntelligencePoints(c1) <= IntelligencePoints(c2) BY DEF IntelligencePoints
<1>3. IndicatorPoints(n1) <= IndicatorPoints(n2) BY DEF IndicatorPoints, Capped
<1>4. FactorSum(l1, c1, n1) <= FactorSum(l2, c2, n2)
  <2>1. RulePoints(l1) \in 0..60 /\ RulePoints(l2) \in 0..60 BY RuleRange
  <2>2. IntelligencePoints(c1) \in 0..30 /\ IntelligencePoints(c2) \in 0..30
    BY IntelligenceRange
  <2>3. IndicatorPoints(n1) \in 0..10 /\ IndicatorPoints(n2) \in 0..10 BY IndicatorRange
  <2>4. \A a, b \in 0..60 : \A c, d \in 0..30 : \A e, f \in 0..10 :
          a <= b /\ c <= d /\ e <= f => a + c + e <= b + d + f
    OBVIOUS
  <2>5. QED BY <1>1, <1>2, <1>3, <2>1, <2>2, <2>3, <2>4 DEF FactorSum
<1>5. QED BY <1>4, FactorsAddUp

\* A higher score never has a lower severity, nor a case of lower severity.
THEOREM SeverityIsMonotone ==
  ASSUME NEW low \in 0..100, NEW high \in 0..100, low <= high
  PROVE  /\ Rank[Severity(low)] <= Rank[Severity(high)]
         /\ TheHiveSeverity(Severity(low)) <= TheHiveSeverity(Severity(high))
BY DEF Rank, Severity, TheHiveSeverity

------------------------------------------------------------------------------
(* seed_case.py: the case that the state file names has everything.          *)

\* From here on a run holds a case.
Holding == {"observables", "observing", "tasking", "patching", "writing"}

Has(k, X) == \A x \in X : cases[k].has[x] > 0

\* What a run knows of its case.
Knows(r) ==
  /\ At(r, "finding") \/ At(r, "creating") => ~caseRuns[r].commented
  /\ At(r, "observing") => Has(Held(r), Observables \ caseRuns[r].left)
  /\ At(r, "tasking") => Has(Held(r), Observables) /\ Has(Held(r), Tasks \ caseRuns[r].left)
  /\ At(r, "patching") \/ At(r, "writing") => Whole(Held(r))
  /\ caseRuns[r].commented => Held(r) \in Cases /\ cases[Held(r)].comments > 0
  /\ caseRuns[r].at \in Holding => Held(r) \in Cases

AllKnow == \A r \in CaseRuns : Knows(r)

CaseInv == CaseSeedTypeOK /\ AllKnow /\ SeededCaseIsWhole

\* Nothing is taken from a case.
Grows == \A k \in Cases : /\ \A x \in Children : cases[k].has[x] > 0 => cases'[k].has[x] > 0
                          /\ cases[k].comments > 0 => cases'[k].comments > 0

LEMMA CaseInitial == CaseSeedInit => CaseInv
<1> SUFFICES ASSUME CaseSeedInit PROVE CaseInv OBVIOUS
<1>1. CaseSeedTypeOK
  <2>1. NoSuchCase \in CaseRow BY DEF NoSuchCase, CaseRow
  <2>2. NotRun \in RunRow BY DEF NotRun, RunRow, Stages
  <2>3. QED BY <2>1, <2>2 DEF CaseSeedInit, CaseSeedTypeOK
<1>2. \A r \in CaseRuns : caseRuns[r] = NotRun BY DEF CaseSeedInit
<1>3. AllKnow BY <1>2 DEF AllKnow, Knows, At, NotRun, Holding
<1>4. SeededCaseIsWhole BY CaseNullAssumption DEF CaseSeedInit, SeededCaseIsWhole
<1>5. QED BY <1>1, <1>3, <1>4 DEF CaseInv

------------------------------------------------------------------------------
(* What the steps do to TheHive.                                             *)

LEMMA Adding ==
  ASSUME CaseSeedTypeOK, NEW k \in Cases, NEW x \in Children,
         cases' = [cases EXCEPT ![k].has[x] = @ + 1]
  PROVE  /\ cases' \in [Cases -> CaseRow] /\ Grows
         /\ cases'[k].has[x] > 0
<1> DEFINE has == [cases[k].has EXCEPT ![x] = cases[k].has[x] + 1]
<1> DEFINE row == [cases[k] EXCEPT !.has = has]
<1>1. cases[k] \in CaseRow /\ \A j \in Cases : cases[j] \in CaseRow BY DEF CaseSeedTypeOK
<1>2. has \in [Children -> Nat] /\ has[x] > 0
      /\ \A y \in Children : cases[k].has[y] > 0 => has[y] > 0
  BY <1>1 DEF CaseRow
<1>3. cases' = [cases EXCEPT ![k] = row] OBVIOUS
<1> HIDE DEF has
<1>4. row \in CaseRow /\ row.has = has /\ row.comments = cases[k].comments
  BY <1>1, <1>2 DEF CaseRow
<1> HIDE DEF row
<1>5. cases \in [Cases -> CaseRow] BY DEF CaseSeedTypeOK
<1>6. cases' \in [Cases -> CaseRow] /\ cases'[k] = row /\ \A j \in Cases \ {k} : cases'[j] = cases[j]
  BY <1>3, <1>4, <1>5
<1>7. QED BY <1>2, <1>4, <1>6 DEF Grows

LEMMA Commenting ==
  ASSUME CaseSeedTypeOK, NEW k \in Cases,
         cases' = [cases EXCEPT ![k].comments = @ + 1]
  PROVE  /\ cases' \in [Cases -> CaseRow] /\ Grows
         /\ cases'[k].comments > 0
<1> DEFINE n == cases[k].comments + 1
<1> DEFINE row == [cases[k] EXCEPT !.comments = n]
<1>1. cases[k] \in CaseRow BY DEF CaseSeedTypeOK
<1>2. n \in Nat /\ n > 0 BY <1>1 DEF CaseRow
<1>3. cases' = [cases EXCEPT ![k] = row] OBVIOUS
<1> HIDE DEF n
<1>4. row \in CaseRow /\ row.has = cases[k].has /\ row.comments = n
  BY <1>1, <1>2 DEF CaseRow
<1> HIDE DEF row
<1>5. cases \in [Cases -> CaseRow] BY DEF CaseSeedTypeOK
<1>6. cases' \in [Cases -> CaseRow] /\ cases'[k] = row /\ \A j \in Cases \ {k} : cases'[j] = cases[j]
  BY <1>3, <1>4, <1>5
<1>7. QED BY <1>2, <1>4, <1>6 DEF Grows

\* A case comes or goes with what it has.
LEMMA Appearing ==
  ASSUME CaseSeedTypeOK, NEW k \in Cases, NEW b \in BOOLEAN,
         cases' = [cases EXCEPT ![k].there = b]
  PROVE  cases' \in [Cases -> CaseRow] /\ Grows
<1>1. \A j \in Cases : cases'[j].has = cases[j].has /\ cases'[j].comments = cases[j].comments
  BY DEF CaseSeedTypeOK, CaseRow
<1>2. cases' \in [Cases -> CaseRow] BY DEF CaseSeedTypeOK, CaseRow
<1>3. QED BY <1>1, <1>2 DEF Grows

LEMMA Unchanging ==
  ASSUME CaseSeedTypeOK, UNCHANGED cases
  PROVE  cases' \in [Cases -> CaseRow] /\ Grows
BY DEF CaseSeedTypeOK, Grows

------------------------------------------------------------------------------
(* Invariance.                                                               *)

\* A run that stays where it is, holding what it held, knows what it knew.
LEMMA KnowsStill ==
  ASSUME CaseSeedTypeOK, Grows, NEW r \in CaseRuns, Knows(r), caseRuns'[r] = caseRuns[r]
  PROVE  Knows(r)'
<1>1. Observables \subseteq Children /\ Tasks \subseteq Children BY DEF Children
<1>2. \A k \in Cases : \A X \in SUBSET Children : Has(k, X) => Has(k, X)' BY DEF Has, Grows
<1>3. \A k \in Cases : Whole(k) => Whole(k)' BY DEF Whole, Grows
<1>4. At(r, "observing") \/ At(r, "tasking") \/ At(r, "patching") \/ At(r, "writing")
      => Held(r) \in Cases
  BY DEF Knows, At, Holding
<1>5. /\ Held(r)' = Held(r) /\ At(r, "observing")' = At(r, "observing")
      /\ At(r, "tasking")' = At(r, "tasking") /\ At(r, "patching")' = At(r, "patching")
      /\ At(r, "writing")' = At(r, "writing")
  BY DEF Held, At
<1>6. At(r, "observing")' => Has(Held(r), Observables \ caseRuns[r].left)'
  BY <1>1, <1>2, <1>4, <1>5 DEF Knows
<1>7. At(r, "tasking")' => Has(Held(r), Observables)' /\ Has(Held(r), Tasks \ caseRuns[r].left)'
  BY <1>1, <1>2, <1>4, <1>5 DEF Knows
<1>8. At(r, "patching")' \/ At(r, "writing")' => Whole(Held(r))'
  BY <1>3, <1>4, <1>5 DEF Knows
<1>9. (caseRuns[r].commented)' => (Held(r) \in Cases /\ cases[Held(r)].comments > 0)'
  BY <1>5 DEF Knows, Grows
<1>10. (caseRuns[r].at \in Holding)' => Held(r)' \in Cases
  BY <1>5 DEF Knows, Holding
<1>11. At(r, "finding")' \/ At(r, "creating")' => ~(caseRuns[r].commented)'
  BY DEF Knows, At
<1>12. QED BY <1>6, <1>7, <1>8, <1>9, <1>10, <1>11 DEF Knows, Holding

\* A step of one run: it is enough to look at that run and at the state file.
LEMMA OneRun ==
  ASSUME CaseInv, NEW r \in CaseRuns, NEW row \in RunRow, caseRuns' = [caseRuns EXCEPT ![r] = row],
         cases' \in [Cases -> CaseRow], Grows, deletions' \in Nat, overlapped' \in BOOLEAN,
         Knows(r)',
         \/ UNCHANGED stateFile \/ stateFile' = "torn"
         \/ stateFile' = Held(r) /\ Held(r) \in Cases /\ Whole(Held(r))
  PROVE  CaseInv'
<1>1. CaseSeedTypeOK' BY DEF CaseInv, CaseSeedTypeOK
<1>2. \A q \in CaseRuns \ {r} : caseRuns'[q] = caseRuns[q] BY DEF CaseInv, CaseSeedTypeOK
<1>3. AllKnow' BY <1>2, KnowsStill DEF CaseInv, AllKnow
<1>4. SeededCaseIsWhole'
  BY CaseNullAssumption DEF CaseInv, SeededCaseIsWhole, Whole, Grows
<1>5. QED BY <1>1, <1>3, <1>4 DEF CaseInv

\* A run that moves on with what it holds.
LEMMA Going ==
  ASSUME CaseSeedTypeOK, NEW r \in CaseRuns, NEW stage \in Stages, GoTo(r, stage)
  PROVE  LET row == [caseRuns[r] EXCEPT !.at = stage]
         IN /\ row \in RunRow /\ caseRuns' = [caseRuns EXCEPT ![r] = row]
            /\ caseRuns'[r] = row /\ row.at = stage /\ row.case = caseRuns[r].case
            /\ row.left = caseRuns[r].left /\ row.commented = caseRuns[r].commented
BY DEF CaseSeedTypeOK, RunRow, GoTo

LEMMA Beginning ==
  ASSUME CaseInv, NEW r \in CaseRuns, BeginSeed(r)
  PROVE  CaseInv'
<1> DEFINE trusting == [NotRun EXCEPT !.at = "observables", !.case = stateFile, !.commented = TRUE]
<1>0. CaseSeedTypeOK BY DEF CaseInv
<1>1. cases' \in [Cases -> CaseRow] /\ Grows BY <1>0, Unchanging DEF BeginSeed
<1>2. overlapped' \in BOOLEAN BY <1>0 DEF CaseSeedTypeOK, BeginSeed
<1>3. ASSUME NEW stage \in {"finding", "stopped"},
             caseRuns' = [caseRuns EXCEPT ![r] = [NotRun EXCEPT !.at = stage]]
      PROVE  CaseInv'
  <2>1. [NotRun EXCEPT !.at = stage] \in RunRow BY DEF NotRun, RunRow, Stages
  <2>2. caseRuns'[r] = [NotRun EXCEPT !.at = stage] BY <1>0, <1>3 DEF CaseSeedTypeOK
  <2>3. Knows(r)' BY <2>2 DEF Knows, At, NotRun, Holding
  <2>4. QED BY <1>0, <1>1, <1>2, <1>3, <2>1, <2>3, OneRun DEF BeginSeed, CaseSeedTypeOK
<1>4. ASSUME stateFile \in Cases, caseRuns' = [caseRuns EXCEPT ![r] = trusting]
      PROVE  CaseInv'
  <2>1. trusting \in RunRow /\ trusting.at = "observables" /\ trusting.case = stateFile
    BY <1>4 DEF NotRun, RunRow, Stages
  <2>2. caseRuns'[r] = trusting BY <1>0, <1>4 DEF CaseSeedTypeOK
  <2>3. Whole(stateFile) BY <1>4 DEF CaseInv, SeededCaseIsWhole
  <2>4. cases[stateFile].comments > 0 /\ cases' = cases BY <2>3 DEF Whole, BeginSeed
  <2>5. Knows(r)' BY <1>4, <2>1, <2>2, <2>4 DEF Knows, At, Held
  <2>6. QED BY <1>0, <1>1, <1>2, <1>4, <2>1, <2>5, OneRun DEF BeginSeed, CaseSeedTypeOK
<1>5. QED BY <1>3, <1>4 DEF BeginSeed

\* A run comes to hold a case.
LEMMA Taking ==
  ASSUME CaseInv, NEW r \in CaseRuns, NEW k \in Cases, At(r, "finding") \/ At(r, "creating"),
         caseRuns' = [caseRuns EXCEPT ![r].at = "observables", ![r].case = k],
         cases' \in [Cases -> CaseRow], Grows, UNCHANGED <<stateFile, deletions, overlapped>>
  PROVE  CaseInv'
<1> DEFINE row == [caseRuns[r] EXCEPT !.at = "observables", !.case = k]
<1>0. CaseSeedTypeOK BY DEF CaseInv
<1>1. caseRuns' = [caseRuns EXCEPT ![r] = row] BY <1>0 DEF CaseSeedTypeOK, RunRow
<1>2. /\ row \in RunRow /\ caseRuns'[r] = row /\ row.at = "observables" /\ row.case = k
      /\ row.commented = caseRuns[r].commented
  BY <1>0, <1>1 DEF CaseSeedTypeOK, RunRow, Stages
<1>3. ~caseRuns[r].commented BY DEF CaseInv, AllKnow, Knows
<1>4. Knows(r)' BY <1>2, <1>3 DEF Knows, At, Held
<1>5. QED BY <1>0, <1>1, <1>2, <1>4, OneRun DEF CaseSeedTypeOK

WholeNext(k) == cases'[k].comments > 0 /\ \A x \in Children : cases'[k].has[x] > 0

\* A run that moves on, holding its case: it suffices that it knows what its new stage says.
MayMoveTo(r, stage) ==
  \/ stage \in {"stopped", "done"}
  \/ stage = "patching" /\ WholeNext(Held(r))
  \/ stage = "writing" /\ Whole(Held(r))

LEMMA MovingOn ==
  ASSUME CaseInv, NEW r \in CaseRuns, NEW stage \in Stages, GoTo(r, stage), Held(r) \in Cases,
         cases' \in [Cases -> CaseRow], Grows, UNCHANGED <<deletions, overlapped>>,
         MayMoveTo(r, stage),
         \/ UNCHANGED stateFile \/ stateFile' = "torn"
         \/ stateFile' = Held(r) /\ Whole(Held(r))
  PROVE  CaseInv'
<1> DEFINE row == [caseRuns[r] EXCEPT !.at = stage]
<1>0. CaseSeedTypeOK BY DEF CaseInv
<1>1. /\ row \in RunRow /\ caseRuns' = [caseRuns EXCEPT ![r] = row]
      /\ caseRuns'[r] = row /\ row.at = stage /\ row.case = caseRuns[r].case
      /\ row.left = caseRuns[r].left /\ row.commented = caseRuns[r].commented
  BY <1>0, Going
<1>2. Held(r)' = Held(r) BY <1>1 DEF Held
<1>3. (Whole(Held(r)) => Whole(Held(r))') /\ (WholeNext(Held(r)) => Whole(Held(r))')
  BY <1>2 DEF Whole, WholeNext, Grows
<1>4. caseRuns[r].commented => cases'[Held(r)].comments > 0
  BY DEF CaseInv, AllKnow, Knows, Grows
<1>5. Knows(r)' BY <1>1, <1>2, <1>3, <1>4 DEF Knows, At, MayMoveTo
<1>6. QED BY <1>0, <1>1, <1>5, OneRun DEF CaseSeedTypeOK

LEMMA FindingCase ==
  ASSUME CaseInv, NEW r \in CaseRuns, FindCaseToSeed(r)
  PROVE  CaseInv'
<1>0. CaseSeedTypeOK BY DEF CaseInv
<1>1. cases' \in [Cases -> CaseRow] /\ Grows BY <1>0, Unchanging DEF FindCaseToSeed
<1>2. CASE \E k \in Cases :
             caseRuns' = [caseRuns EXCEPT ![r].at = "observables", ![r].case = k]
  BY <1>1, <1>2, Taking DEF FindCaseToSeed
<1>3. CASE GoTo(r, "creating")
  <2> DEFINE row == [caseRuns[r] EXCEPT !.at = "creating"]
  <2>1. /\ row \in RunRow /\ caseRuns' = [caseRuns EXCEPT ![r] = row]
        /\ caseRuns'[r] = row /\ row.at = "creating" /\ row.commented = caseRuns[r].commented
    BY <1>0, <1>3, Going DEF Stages
  <2>2. ~caseRuns[r].commented BY DEF CaseInv, AllKnow, Knows, FindCaseToSeed
  <2>3. Knows(r)' BY <2>1, <2>2 DEF Knows, At, Holding
  <2>4. QED BY <1>0, <1>1, <2>1, <2>3, OneRun DEF FindCaseToSeed, CaseSeedTypeOK
<1>4. QED BY <1>2, <1>3 DEF FindCaseToSeed

LEMMA CreatingCase ==
  ASSUME CaseInv, NEW r \in CaseRuns, NEW k \in Cases, CreateCaseToSeed(r, k)
  PROVE  CaseInv'
<1>0. CaseSeedTypeOK BY DEF CaseInv
<1>1. cases' \in [Cases -> CaseRow] /\ Grows BY <1>0, Appearing DEF CreateCaseToSeed
<1>2. QED BY <1>1, Taking DEF CreateCaseToSeed

\* What is left to add once the case has been asked: the rest it has.
LEMMA Listing ==
  ASSUME CaseInv, NEW r \in CaseRuns, NEW stage, NEW wanted \in SUBSET Children,
         NEW next \in {"observing", "tasking"}, ListChildren(r, stage, wanted, next),
         stage \in Holding,
         \/ next = "observing" /\ wanted = Observables
         \/ next = "tasking" /\ wanted = Tasks /\ Has(Held(r), Observables)
  PROVE  CaseInv'
<1> DEFINE row == [caseRuns[r] EXCEPT !.at = next, !.left = Lacks(Held(r), wanted)]
<1>0. CaseSeedTypeOK BY DEF CaseInv
<1>1. cases' \in [Cases -> CaseRow] /\ Grows BY <1>0, Unchanging DEF ListChildren
<1>2. caseRuns' = [caseRuns EXCEPT ![r] = row]
  BY <1>0 DEF CaseSeedTypeOK, RunRow, ListChildren
<1>3. Lacks(Held(r), wanted) \subseteq Children BY DEF Lacks
<1>4. /\ row \in RunRow /\ caseRuns'[r] = row /\ row.at = next /\ row.case = Held(r)
      /\ row.left = Lacks(Held(r), wanted) /\ row.commented = caseRuns[r].commented
  BY <1>0, <1>2, <1>3 DEF CaseSeedTypeOK, RunRow, Stages, Held
<1>5. Held(r) \in Cases BY DEF ListChildren, OnCase, At, CaseInv, AllKnow, Knows
<1>6. Has(Held(r), wanted \ Lacks(Held(r), wanted))
  <2>1. \A x \in wanted : cases[Held(r)].has[x] \in Nat
    BY <1>0, <1>5 DEF CaseSeedTypeOK, CaseRow
  <2>2. QED BY <2>1 DEF Has, Lacks
<1>7. \A X : Has(Held(r), X)' <=> Has(Held(r), X)
  BY <1>4 DEF Has, Held, ListChildren
<1>8. caseRuns[r].commented => cases'[Held(r)].comments > 0
  BY <1>1, <1>5 DEF CaseInv, AllKnow, Knows, Grows
<1>9. Knows(r)' BY <1>4, <1>5, <1>6, <1>7, <1>8 DEF Knows, At, Held, Has, ListChildren
<1>10. QED BY <1>0, <1>1, <1>2, <1>4, <1>9, OneRun DEF ListChildren, CaseSeedTypeOK

LEMMA AddingChild ==
  ASSUME CaseInv, NEW r \in CaseRuns, NEW stage \in {"observing", "tasking"}, NEW x \in Children,
         AddChild(r, stage, x)
  PROVE  CaseInv'
<1> DEFINE left == caseRuns[r].left \ {x}
<1> DEFINE row == [caseRuns[r] EXCEPT !.left = left]
<1>0. CaseSeedTypeOK BY DEF CaseInv
<1>1. At(r, stage) /\ Held(r) \in Cases
  BY DEF AddChild, OnCase, At, CaseInv, AllKnow, Knows, Holding
<1>2. cases' \in [Cases -> CaseRow] /\ Grows /\ cases'[Held(r)].has[x] > 0
  BY <1>0, <1>1, Adding DEF AddChild
<1>3. caseRuns' = [caseRuns EXCEPT ![r] = row] BY DEF AddChild
<1>4. left \subseteq Children BY <1>0 DEF CaseSeedTypeOK, RunRow
<1>5. /\ row \in RunRow /\ caseRuns'[r] = row /\ row.at = stage /\ row.case = Held(r)
      /\ row.left = left /\ row.commented = caseRuns[r].commented
  BY <1>0, <1>1, <1>3, <1>4 DEF CaseSeedTypeOK, RunRow, Held, At
<1>6. \A X \in SUBSET Children : Has(Held(r), X) => \A y \in X \cup {x} : cases'[Held(r)].has[y] > 0
  BY <1>1, <1>2 DEF Has, Grows
<1>7. caseRuns[r].commented => cases'[Held(r)].comments > 0
  BY <1>1, <1>2 DEF CaseInv, AllKnow, Knows, Grows
<1>8. Observables \subseteq Children /\ Tasks \subseteq Children BY DEF Children
<1>9. Held(r)' = Held(r) /\ (caseRuns[r].left)' = left BY <1>5 DEF Held
<1>10. stage = "observing" => Has(Held(r), Observables \ caseRuns[r].left)'
  <2>1. SUFFICES ASSUME stage = "observing" PROVE Has(Held(r), Observables \ caseRuns[r].left)'
    OBVIOUS
  <2>2. Has(Held(r), Observables \ caseRuns[r].left) BY <1>1, <2>1 DEF CaseInv, AllKnow, Knows
  <2>3. QED BY <1>6, <1>8, <1>9, <2>2 DEF Has
<1>11. stage = "tasking" => Has(Held(r), Observables)' /\ Has(Held(r), Tasks \ caseRuns[r].left)'
  <2>1. SUFFICES ASSUME stage = "tasking"
                 PROVE  Has(Held(r), Observables)' /\ Has(Held(r), Tasks \ caseRuns[r].left)'
    OBVIOUS
  <2>2. Has(Held(r), Observables) /\ Has(Held(r), Tasks \ caseRuns[r].left)
    BY <1>1, <2>1 DEF CaseInv, AllKnow, Knows
  <2>3. QED BY <1>6, <1>8, <1>9, <2>2 DEF Has
<1>12. Knows(r)'
  BY <1>1, <1>5, <1>7, <1>9, <1>10, <1>11 DEF Knows, At, Holding
<1>13. QED BY <1>0, <1>2, <1>3, <1>5, <1>12, OneRun DEF AddChild, CaseSeedTypeOK

\* The case has everything now: the comment completes it.
LEMMA CommentingCase ==
  ASSUME CaseInv, NEW r \in CaseRuns, CommentSeeded(r)
  PROVE  CaseInv'
<1>0. CaseSeedTypeOK BY DEF CaseInv
<1>1. /\ At(r, "tasking") /\ Held(r) \in Cases
      /\ Has(Held(r), Observables) /\ Has(Held(r), Tasks)
  BY DEF CommentSeeded, OnCase, At, CaseInv, AllKnow, Knows, Holding
<1>2. /\ cases' \in [Cases -> CaseRow] /\ Grows /\ cases'[Held(r)].comments > 0
  <2>1. CASE caseRuns[r].commented
    <3>1. cases[Held(r)].comments > 0 BY <2>1 DEF CaseInv, AllKnow, Knows
    <3>2. QED BY <1>0, <2>1, <3>1, Unchanging DEF CommentSeeded
  <2>2. CASE ~caseRuns[r].commented BY <1>0, <1>1, <2>2, Commenting DEF CommentSeeded
  <2>3. QED BY <2>1, <2>2
<1>3. WholeNext(Held(r)) BY <1>1, <1>2 DEF WholeNext, Has, Grows, Children
<1>4. UNCHANGED stateFile /\ UNCHANGED <<deletions, overlapped>> BY DEF CommentSeeded
<1>5. "patching" \in Stages /\ GoTo(r, "patching") BY DEF Stages, CommentSeeded
<1>6. MayMoveTo(r, "patching") BY <1>3 DEF MayMoveTo
<1>7. QED BY <1>1, <1>2, <1>4, <1>5, <1>6, MovingOn

LEMMA Ending ==
  ASSUME CaseInv, NEW r \in CaseRuns, PatchCase(r) \/ WriteState(r)
  PROVE  CaseInv'
<1>0. CaseSeedTypeOK BY DEF CaseInv
<1>1. cases' \in [Cases -> CaseRow] /\ Grows BY <1>0, Unchanging DEF PatchCase, WriteState
<1>2. Held(r) \in Cases /\ Whole(Held(r))
  BY DEF PatchCase, WriteState, OnCase, At, CaseInv, AllKnow, Knows, Holding
<1>3. QED BY <1>1, <1>2, MovingOn DEF PatchCase, WriteState, Stages, MayMoveTo

LEMMA Stopping ==
  ASSUME CaseInv, NEW r \in CaseRuns, StopSeed(r)
  PROVE  CaseInv'
<1> DEFINE row == [caseRuns[r] EXCEPT !.at = "stopped"]
<1>0. CaseSeedTypeOK BY DEF CaseInv
<1>1. cases' \in [Cases -> CaseRow] /\ Grows BY <1>0, Unchanging DEF StopSeed
<1>2. /\ row \in RunRow /\ caseRuns' = [caseRuns EXCEPT ![r] = row]
      /\ caseRuns'[r] = row /\ row.at = "stopped" /\ row.case = caseRuns[r].case
      /\ row.commented = caseRuns[r].commented
  BY <1>0, Going DEF Stages, StopSeed
<1>3. Knows(r)' BY <1>2 DEF Knows, At, Held, Holding, CaseInv, AllKnow, StopSeed
<1>4. QED BY <1>0, <1>1, <1>2, <1>3, OneRun DEF StopSeed, CaseSeedTypeOK

\* Nothing is taken, whatever is deleted: every run knows what it knew.
LEMMA Deleting ==
  ASSUME CaseInv, NEW k \in Cases, AnalystDeletes(k)
  PROVE  CaseInv'
<1>0. CaseSeedTypeOK BY DEF CaseInv
<1>1. cases' \in [Cases -> CaseRow] /\ Grows BY <1>0, Appearing DEF AnalystDeletes
<1>2. CaseSeedTypeOK' BY <1>0, <1>1 DEF CaseSeedTypeOK, AnalystDeletes
<1>3. AllKnow' BY <1>0, <1>1, KnowsStill DEF CaseInv, AllKnow, AnalystDeletes
<1>4. SeededCaseIsWhole'
  BY <1>1 DEF CaseInv, SeededCaseIsWhole, Whole, Grows, AnalystDeletes
<1>5. QED BY <1>2, <1>3, <1>4 DEF CaseInv

LEMMA CaseStepping ==
  ASSUME CaseInv, [CaseSeedNext]_caseSeedVars
  PROVE  CaseInv'
<1>1. CASE UNCHANGED caseSeedVars
  BY <1>1 DEF caseSeedVars, CaseInv, CaseSeedTypeOK, AllKnow, Knows, At, Held, Has, Whole,
     SeededCaseIsWhole
<1>2. ASSUME NEW r \in CaseRuns, BeginSeed(r) \/ FindCaseToSeed(r) PROVE CaseInv'
  BY <1>2, Beginning, FindingCase
<1>3. ASSUME NEW r \in CaseRuns, NEW k \in Cases, CreateCaseToSeed(r, k) PROVE CaseInv'
  BY <1>3, CreatingCase
<1>4. ASSUME NEW r \in CaseRuns, ListObservables(r) PROVE CaseInv'
  BY <1>4, Listing DEF ListObservables, Children, Holding
<1>5. ASSUME NEW r \in CaseRuns, ListTasks(r) PROVE CaseInv'
  <2>1. Has(Held(r), Observables)
    BY <1>5 DEF ListTasks, ListChildren, OnCase, CaseInv, AllKnow, Knows
  <2>2. QED BY <1>5, <2>1, Listing DEF ListTasks, Children, Holding
<1>6. ASSUME NEW r \in CaseRuns, NEW x \in Observables, AddChild(r, "observing", x) PROVE CaseInv'
  BY <1>6, AddingChild DEF Children
<1>7. ASSUME NEW r \in CaseRuns, NEW x \in Tasks, AddChild(r, "tasking", x) PROVE CaseInv'
  BY <1>7, AddingChild DEF Children
<1>8. ASSUME NEW r \in CaseRuns, CommentSeeded(r) PROVE CaseInv' BY <1>8, CommentingCase
<1>9. ASSUME NEW r \in CaseRuns, PatchCase(r) \/ WriteState(r) PROVE CaseInv' BY <1>9, Ending
<1>10. ASSUME NEW r \in CaseRuns, StopSeed(r) PROVE CaseInv' BY <1>10, Stopping
<1>11. ASSUME NEW k \in Cases, AnalystDeletes(k) PROVE CaseInv' BY <1>11, Deleting
<1>12. QED
  BY <1>1, <1>2, <1>3, <1>4, <1>5, <1>6, <1>7, <1>8, <1>9, <1>10, <1>11
     DEF CaseSeedNext, SeedStep

LEMMA CaseInvariance == CaseSeedSpec => []CaseInv
BY CaseInitial, CaseStepping, PTL DEF CaseSeedSpec

\* Type correctness of the case seed for every number of runs.
THEOREM CaseSeedTyped == CaseSeedSpec => []CaseSeedTypeOK
<1>1. CaseInv => CaseSeedTypeOK BY DEF CaseInv
<1>2. QED BY CaseInvariance, <1>1, PTL

\* However many runs of seed_case.py are started, at once and stopped between any two
\* requests: the case named by the state file has all that the fixture lists.
THEOREM StateFileIsTrue == CaseSeedSpec => []SeededCaseIsWhole
<1>1. CaseInv => SeededCaseIsWhole BY DEF CaseInv
<1>2. QED BY CaseInvariance, <1>1, PTL

------------------------------------------------------------------------------
(* seed_case.py: runs one after the other add nothing twice.                 *)

StoppedRuns == {r \in CaseRuns : At(r, "stopped")}

\* What the only run has found missing is missing still; and once there is a state file
\* a run that has not commented is past its comment.
Alert(r) ==
  /\ At(r, "creating") => \A k \in Cases : ~There(k)
  /\ At(r, "observing") \/ At(r, "tasking") =>
       \A x \in caseRuns[r].left : cases[Held(r)].has[x] = 0
  /\ stateFile # "absent" /\ r \in Working => caseRuns[r].commented \/ At(r, "writing")

\* Every comment so far was made by a run that stopped later.
NoneWhole == stateFile = "absent" /\ \A r \in CaseRuns : ~At(r, "patching")

OnceCommented(k) ==
  cases[k].comments <= (IF NoneWhole THEN 0 ELSE 1) + Cardinality(StoppedRuns)

CasesOnce ==
  /\ \A j, k \in Cases : There(j) /\ There(k) => j = k
  /\ \A k \in Cases : OnceCommented(k) /\ \A x \in Children : cases[k].has[x] <= 1

OnceInv ==
  /\ IsFiniteSet(StoppedRuns)
  /\ ~overlapped => /\ \A q, r \in Working : q = r
                    /\ \A r \in CaseRuns : Alert(r)
                    /\ CasesOnce

LEMMA OnceInitial == CaseSeedInit => OnceInv
<1> SUFFICES ASSUME CaseSeedInit PROVE OnceInv OBVIOUS
<1>1. \A r \in CaseRuns : caseRuns[r] = NotRun BY DEF CaseSeedInit
<1>2. StoppedRuns = {} /\ Working = {} BY <1>1 DEF StoppedRuns, Working, At, NotRun
<1>3. IsFiniteSet(StoppedRuns) /\ Cardinality(StoppedRuns) = 0 BY <1>2, FS_EmptySet
<1>4. \A r \in CaseRuns : Alert(r) BY <1>1 DEF Alert, At, NotRun, CaseSeedInit
<1>5. \A k \in Cases : cases[k] = NoSuchCase BY DEF CaseSeedInit
<1>6. \A k \in Cases : OnceCommented(k) BY <1>3, <1>5 DEF OnceCommented, NoSuchCase
<1>7. CasesOnce BY <1>5, <1>6 DEF CasesOnce, There, NoSuchCase
<1>8. QED BY <1>2, <1>3, <1>4, <1>7 DEF OnceInv

\* One run moves, that has not stopped before.
OneMoves(r, row) ==
  /\ caseRuns' = [caseRuns EXCEPT ![r] = row]
  /\ caseRuns[r].at # "stopped"
  /\ ~overlapped' => ~overlapped /\ \A q \in Working : q = r

LEMMA MovedRow ==
  ASSUME CaseSeedTypeOK, NEW r \in CaseRuns, NEW row \in RunRow, OneMoves(r, row)
  PROVE  caseRuns'[r] = row /\ \A q \in CaseRuns \ {r} : caseRuns'[q] = caseRuns[q]
BY DEF CaseSeedTypeOK, OneMoves

LEMMA StoppedCount ==
  ASSUME CaseSeedTypeOK, OnceInv, NEW r \in CaseRuns, NEW row \in RunRow, OneMoves(r, row)
  PROVE  /\ IsFiniteSet(StoppedRuns') /\ Cardinality(StoppedRuns) \in Nat
         /\ Cardinality(StoppedRuns') =
              Cardinality(StoppedRuns) + (IF row.at = "stopped" THEN 1 ELSE 0)
<1>1. caseRuns'[r] = row /\ \A q \in CaseRuns \ {r} : caseRuns'[q] = caseRuns[q] BY MovedRow
<1>2. IsFiniteSet(StoppedRuns) /\ r \notin StoppedRuns
  BY DEF OnceInv, StoppedRuns, At, OneMoves
<1>3. Cardinality(StoppedRuns) \in Nat BY <1>2, FS_CardinalityType
<1>4. CASE row.at = "stopped"
  <2>1. StoppedRuns' = StoppedRuns \cup {r} BY <1>1, <1>4 DEF StoppedRuns, At
  <2>2. QED BY <1>2, <1>3, <1>4, <2>1, FS_AddElement
<1>5. CASE row.at # "stopped"
  <2>1. StoppedRuns' = StoppedRuns BY <1>1, <1>2, <1>5 DEF StoppedRuns, At
  <2>2. QED BY <1>2, <1>3, <1>5, <2>1
<1>6. QED BY <1>4, <1>5

\* It is enough to look at that run and at the cases.
LEMMA OnceMoves ==
  ASSUME CaseSeedTypeOK, OnceInv, NEW r \in CaseRuns, NEW row \in RunRow, OneMoves(r, row),
         ~overlapped' => Alert(r)' /\ CasesOnce'
  PROVE  OnceInv'
<1>1. caseRuns'[r] = row /\ \A q \in CaseRuns \ {r} : caseRuns'[q] = caseRuns[q] BY MovedRow
<1>2. IsFiniteSet(StoppedRuns') BY StoppedCount
<1>3. ASSUME ~overlapped' PROVE \A q \in Working' : q = r
  BY <1>1, <1>3 DEF OneMoves, Working
<1>4. ASSUME ~overlapped', NEW q \in CaseRuns PROVE Alert(q)'
  <2>1. CASE q = r BY <1>4, <2>1
  <2>2. CASE q # r
    <3>1. q \notin Working' BY <1>3, <1>4, <2>2
    <3>2. ~At(q, "creating")' /\ ~At(q, "observing")' /\ ~At(q, "tasking")'
      BY <3>1 DEF Working, At
    <3>3. QED BY <3>1, <3>2 DEF Alert
  <2>3. QED BY <2>1, <2>2
<1>5. QED BY <1>2, <1>3, <1>4 DEF OnceInv

\* The cases keep their comments: so does their bound, unless the run leaves the stage in
\* which its comment is excused without stopping.
LEMMA CommentsKept ==
  ASSUME CaseSeedTypeOK, OnceInv, NEW r \in CaseRuns, NEW row \in RunRow, OneMoves(r, row),
         CasesOnce, \A k \in Cases : cases'[k].comments = cases[k].comments,
         NoneWhole' => NoneWhole \/ row.at = "stopped"
  PROVE  \A k \in Cases : OnceCommented(k)'
<1> SUFFICES ASSUME NEW k \in Cases
             PROVE  cases'[k].comments <= (IF NoneWhole' THEN 0 ELSE 1) + Cardinality(StoppedRuns')
  BY DEF OnceCommented
<1>1. cases[k].comments \in Nat BY DEF CaseSeedTypeOK, CaseRow
<1>2. cases[k].comments <= (IF NoneWhole THEN 0 ELSE 1) + Cardinality(StoppedRuns)
  BY DEF CasesOnce, OnceCommented
<1>3. QED BY <1>1, <1>2, StoppedCount

LEMMA NoneWholeKept ==
  ASSUME CaseSeedTypeOK, NEW r \in CaseRuns, NEW row \in RunRow, OneMoves(r, row),
         caseRuns[r].at # "patching", UNCHANGED stateFile
  PROVE  NoneWhole' => NoneWhole
<1>1. \A q \in CaseRuns \ {r} : caseRuns'[q] = caseRuns[q] BY MovedRow
<1>2. QED BY <1>1 DEF NoneWhole, At

\* A run that does no more than move on, whatever it then holds.
LEMMA OnceUntouched ==
  ASSUME CaseSeedTypeOK, OnceInv, NEW r \in CaseRuns, NEW row \in RunRow, OneMoves(r, row),
         UNCHANGED cases, NoneWhole' => NoneWhole \/ row.at = "stopped",
         ~overlapped' => Alert(r)'
  PROVE  OnceInv'
<1>1. ASSUME ~overlapped' PROVE CasesOnce'
  <2>1. CasesOnce BY <1>1 DEF OnceInv, OneMoves
  <2>2. \A k \in Cases : OnceCommented(k)' BY <2>1, CommentsKept
  <2>3. QED BY <2>1, <2>2 DEF CasesOnce, There
<1>2. QED BY <1>1, OnceMoves

\* A run at work is the only one as long as runs have not overlapped.
LEMMA OnlyCaseRun ==
  ASSUME OnceInv, NEW r \in Working, UNCHANGED overlapped
  PROVE  ~overlapped' => ~overlapped /\ \A q \in Working : q = r
BY DEF OnceInv, Working

LEMMA OnceBegins ==
  ASSUME CaseInv, OnceInv, NEW r \in CaseRuns, BeginSeed(r)
  PROVE  OnceInv'
<1> DEFINE trusting == [NotRun EXCEPT !.at = "observables", !.case = stateFile, !.commented = TRUE]
<1>0. CaseSeedTypeOK BY DEF CaseInv
<1>1. PICK row \in RunRow : /\ caseRuns' = [caseRuns EXCEPT ![r] = row]
                            /\ row.at \in {"finding", "observables", "stopped"}
                            /\ row.at = "finding" => stateFile = "absent"
                            /\ row.at = "observables" => row.commented
  <2>1. \A stage \in {"finding", "stopped"} : /\ [NotRun EXCEPT !.at = stage] \in RunRow
                                              /\ [NotRun EXCEPT !.at = stage].at = stage
    BY DEF NotRun, RunRow, Stages
  <2>2. stateFile \in Cases => /\ trusting \in RunRow /\ trusting.at = "observables"
                               /\ trusting.commented
    BY DEF NotRun, RunRow, Stages
  <2>3. QED BY <2>1, <2>2 DEF BeginSeed
<1>2. ~overlapped' => ~overlapped /\ Working = {}
  BY <1>0 DEF BeginSeed, CaseSeedTypeOK
<1>3. OneMoves(r, row) BY <1>1, <1>2 DEF OneMoves, BeginSeed, At
<1>4. caseRuns'[r] = row BY <1>0, <1>3, MovedRow
<1>5. Alert(r)' BY <1>1, <1>4 DEF Alert, At, Working, BeginSeed
<1>6. NoneWhole' => NoneWhole BY <1>0, <1>3, NoneWholeKept DEF BeginSeed, At
<1>7. QED BY <1>0, <1>3, <1>5, <1>6, OnceUntouched DEF BeginSeed

LEMMA OnceFinds ==
  ASSUME CaseInv, OnceInv, NEW r \in CaseRuns, FindCaseToSeed(r)
  PROVE  OnceInv'
<1>0. CaseSeedTypeOK /\ At(r, "finding") BY DEF CaseInv, FindCaseToSeed
<1>1. PICK row \in RunRow : /\ caseRuns' = [caseRuns EXCEPT ![r] = row]
                            /\ row.at \in {"observables", "creating"}
                            /\ row.at = "creating" => \A k \in Cases : ~There(k)
                            /\ row.commented = caseRuns[r].commented
  <2>1. CASE \E k \in Cases :
               caseRuns' = [caseRuns EXCEPT ![r].at = "observables", ![r].case = k]
    <3>1. PICK k \in Cases : caseRuns' = [caseRuns EXCEPT ![r].at = "observables", ![r].case = k]
      BY <2>1
    <3> DEFINE row == [caseRuns[r] EXCEPT !.at = "observables", !.case = k]
    <3>2. caseRuns' = [caseRuns EXCEPT ![r] = row] BY <1>0, <3>1 DEF CaseSeedTypeOK, RunRow
    <3>3. row \in RunRow /\ row.at = "observables" /\ row.commented = caseRuns[r].commented
      BY <1>0 DEF CaseSeedTypeOK, RunRow, Stages
    <3>4. QED BY <3>2, <3>3
  <2>2. CASE (\A k \in Cases : ~There(k)) /\ GoTo(r, "creating")
    <3> DEFINE row == [caseRuns[r] EXCEPT !.at = "creating"]
    <3>1. /\ row \in RunRow /\ caseRuns' = [caseRuns EXCEPT ![r] = row]
          /\ row.at = "creating" /\ row.commented = caseRuns[r].commented
      BY <1>0, <2>2, Going DEF Stages
    <3>2. QED BY <2>2, <3>1
  <2>3. QED BY <2>1, <2>2 DEF FindCaseToSeed
<1>2. r \in Working BY <1>0 DEF Working, At
<1>3. OneMoves(r, row) BY <1>0, <1>1, <1>2, OnlyCaseRun DEF OneMoves, At, FindCaseToSeed
<1>4. caseRuns'[r] = row BY <1>0, <1>3, MovedRow
<1>5. ~overlapped' => Alert(r)
  BY <1>3 DEF OnceInv, OneMoves
<1>6. ~overlapped' => Alert(r)'
  BY <1>0, <1>1, <1>2, <1>4, <1>5 DEF Alert, At, Working, There, FindCaseToSeed
<1>7. NoneWhole' => NoneWhole BY <1>0, <1>3, NoneWholeKept DEF FindCaseToSeed, At
<1>8. QED BY <1>0, <1>3, <1>6, <1>7, OnceUntouched DEF FindCaseToSeed

\* There was no case, so that the one created is the only one.
LEMMA OnceCreates ==
  ASSUME CaseInv, OnceInv, NEW r \in CaseRuns, NEW k \in Cases, CreateCaseToSeed(r, k)
  PROVE  OnceInv'
<1> DEFINE row == [caseRuns[r] EXCEPT !.at = "observables", !.case = k]
<1>0. CaseSeedTypeOK /\ At(r, "creating") BY DEF CaseInv, CreateCaseToSeed
<1>1. caseRuns' = [caseRuns EXCEPT ![r] = row]
  BY <1>0 DEF CaseSeedTypeOK, RunRow, CreateCaseToSeed
<1>2. row \in RunRow /\ row.at = "observables" /\ row.commented = caseRuns[r].commented
  BY <1>0 DEF CaseSeedTypeOK, RunRow, Stages
<1> HIDE DEF row
<1>3. r \in Working BY <1>0 DEF Working, At
<1>4. OneMoves(r, row) BY <1>0, <1>1, <1>3, OnlyCaseRun DEF OneMoves, At, CreateCaseToSeed
<1>5. caseRuns'[r] = row BY <1>0, <1>2, <1>4, MovedRow
<1>6. ~overlapped' => Alert(r) /\ CasesOnce BY <1>4 DEF OnceInv, OneMoves
<1>7. ~overlapped' => Alert(r)'
  BY <1>0, <1>2, <1>3, <1>5, <1>6 DEF Alert, At, Working, CreateCaseToSeed
<1>8. \A j \in Cases : /\ cases'[j].has = cases[j].has /\ cases'[j].comments = cases[j].comments
                       /\ j # k => cases'[j].there = cases[j].there
  BY <1>0 DEF CaseSeedTypeOK, CaseRow, CreateCaseToSeed
<1>9. NoneWhole' => NoneWhole BY <1>0, <1>2, <1>4, NoneWholeKept DEF CreateCaseToSeed, At
<1>10. ASSUME ~overlapped' PROVE CasesOnce'
  <2>1. \A j \in Cases \ {k} : ~There(j)' BY <1>0, <1>6, <1>8, <1>10 DEF Alert, There
  <2>2. \A j \in Cases : OnceCommented(j)'
    BY <1>0, <1>2, <1>4, <1>6, <1>8, <1>9, <1>10, CommentsKept
  <2>3. QED BY <1>6, <1>8, <1>10, <2>1, <2>2 DEF CasesOnce
<1>11. QED BY <1>0, <1>2, <1>4, <1>7, <1>10, OnceMoves

LEMMA OnceLists ==
  ASSUME CaseInv, OnceInv, NEW r \in CaseRuns, NEW stage \in {"observables", "observing"},
         NEW wanted \in SUBSET Children, NEW next \in {"observing", "tasking"},
         ListChildren(r, stage, wanted, next)
  PROVE  OnceInv'
<1> DEFINE row == [caseRuns[r] EXCEPT !.at = next, !.left = Lacks(Held(r), wanted)]
<1>0. CaseSeedTypeOK /\ At(r, stage) BY DEF CaseInv, ListChildren, OnCase
<1>1. caseRuns' = [caseRuns EXCEPT ![r] = row]
  BY <1>0 DEF CaseSeedTypeOK, RunRow, ListChildren
<1>2. Lacks(Held(r), wanted) \subseteq Children BY DEF Lacks
<1>3. /\ row \in RunRow /\ row.at = next /\ row.commented = caseRuns[r].commented
      /\ row.case = Held(r) /\ row.left = Lacks(Held(r), wanted)
  BY <1>0, <1>2 DEF CaseSeedTypeOK, RunRow, Stages, Held
<1> HIDE DEF row
<1>4. r \in Working BY <1>0 DEF Working, At
<1>5. OneMoves(r, row) BY <1>0, <1>1, <1>4, OnlyCaseRun DEF OneMoves, At, ListChildren
<1>6. caseRuns'[r] = row BY <1>0, <1>3, <1>5, MovedRow
<1>7. ~overlapped' => Alert(r) BY <1>5 DEF OnceInv, OneMoves
<1>8. \A x \in row.left : cases'[row.case].has[x] = 0
  BY <1>3 DEF Lacks, ListChildren
<1>9. ~overlapped' => Alert(r)'
  BY <1>0, <1>3, <1>4, <1>6, <1>7, <1>8 DEF Alert, At, Working, Held, ListChildren
<1>10. NoneWhole' => NoneWhole BY <1>0, <1>3, <1>5, NoneWholeKept DEF ListChildren, At
<1>11. QED BY <1>0, <1>3, <1>5, <1>9, <1>10, OnceUntouched DEF ListChildren

\* What one addition does to the cases.
LEMMA AddingOne ==
  ASSUME CaseSeedTypeOK, NEW k \in Cases, NEW x \in Children,
         cases' = [cases EXCEPT ![k].has[x] = @ + 1]
  PROVE  /\ \A j \in Cases : /\ cases'[j].comments = cases[j].comments
                             /\ cases'[j].there = cases[j].there
         /\ \A j \in Cases \ {k} : cases'[j] = cases[j]
         /\ cases'[k].has[x] = cases[k].has[x] + 1
         /\ \A y \in Children \ {x} : cases'[k].has[y] = cases[k].has[y]
<1> DEFINE has == [cases[k].has EXCEPT ![x] = cases[k].has[x] + 1]
<1> DEFINE row == [cases[k] EXCEPT !.has = has]
<1>1. cases[k] \in CaseRow BY DEF CaseSeedTypeOK
<1>2. has[x] = cases[k].has[x] + 1 /\ \A y \in Children \ {x} : has[y] = cases[k].has[y]
  BY <1>1 DEF CaseRow
<1>3. cases' = [cases EXCEPT ![k] = row] OBVIOUS
<1> HIDE DEF has
<1>4. row.has = has /\ row.comments = cases[k].comments /\ row.there = cases[k].there
  BY <1>1 DEF CaseRow
<1> HIDE DEF row
<1>5. cases'[k] = row /\ \A j \in Cases \ {k} : cases'[j] = cases[j]
  BY <1>3 DEF CaseSeedTypeOK
<1>6. QED BY <1>2, <1>4, <1>5

\* What the run adds is missing still, for nobody else adds.
LEMMA OnceAdds ==
  ASSUME CaseInv, OnceInv, NEW r \in CaseRuns, NEW stage \in {"observing", "tasking"},
         NEW x \in Children, AddChild(r, stage, x)
  PROVE  OnceInv'
<1> DEFINE left == caseRuns[r].left \ {x}
<1> DEFINE row == [caseRuns[r] EXCEPT !.left = left]
<1>0. CaseSeedTypeOK /\ At(r, stage) /\ Held(r) \in Cases
  BY DEF CaseInv, AddChild, OnCase, At, AllKnow, Knows, Holding
<1>1. caseRuns' = [caseRuns EXCEPT ![r] = row] BY DEF AddChild
<1>2. left \subseteq Children BY <1>0 DEF CaseSeedTypeOK, RunRow
<1>3. /\ row \in RunRow /\ row.at = stage /\ row.commented = caseRuns[r].commented
      /\ row.case = Held(r) /\ row.left = left
  BY <1>0, <1>2 DEF CaseSeedTypeOK, RunRow, Held, At
<1> HIDE DEF row
<1>4. r \in Working BY <1>0 DEF Working, At
<1>5. OneMoves(r, row) BY <1>0, <1>1, <1>4, OnlyCaseRun DEF OneMoves, At, AddChild
<1>6. caseRuns'[r] = row BY <1>0, <1>3, <1>5, MovedRow
<1>7. ~overlapped' => Alert(r) /\ CasesOnce BY <1>5 DEF OnceInv, OneMoves
<1>8. /\ \A j \in Cases : /\ cases'[j].comments = cases[j].comments
                          /\ cases'[j].there = cases[j].there
      /\ \A j \in Cases \ {Held(r)} : cases'[j] = cases[j]
      /\ cases'[Held(r)].has[x] = cases[Held(r)].has[x] + 1
      /\ \A y \in Children \ {x} : cases'[Held(r)].has[y] = cases[Held(r)].has[y]
  BY <1>0, AddingOne DEF AddChild
<1>9. ASSUME ~overlapped' PROVE \A y \in left : cases'[Held(r)].has[y] = 0
  BY <1>0, <1>2, <1>7, <1>8, <1>9 DEF Alert
<1>10. ~overlapped' => Alert(r)'
  BY <1>0, <1>3, <1>4, <1>6, <1>7, <1>9 DEF Alert, At, Working, Held, AddChild
<1>11. NoneWhole' => NoneWhole BY <1>0, <1>3, <1>5, NoneWholeKept DEF AddChild, At
<1>12. ASSUME ~overlapped' PROVE CasesOnce'
  <2>1. cases[Held(r)].has[x] = 0 BY <1>0, <1>7, <1>12 DEF Alert, AddChild
  <2>2. \A j \in Cases : OnceCommented(j)'
    BY <1>0, <1>3, <1>5, <1>7, <1>8, <1>11, <1>12, CommentsKept
  <2>3. \A j \in Cases : \A y \in Children : cases'[j].has[y] <= 1
    <3>1. cases'[Held(r)].has[x] <= 1 BY <1>8, <2>1
    <3>2. QED BY <1>7, <1>8, <1>12, <3>1 DEF CasesOnce
  <2>4. \A j \in Cases : There(j)' = There(j) BY <1>8 DEF There
  <2>5. QED BY <1>7, <1>12, <2>2, <2>3, <2>4 DEF CasesOnce
<1>13. QED BY <1>0, <1>3, <1>5, <1>10, <1>12, OnceMoves

\* A run that still has to comment found no state file, and every comment before its own
\* belongs to a stopped run.
LEMMA OnceComments ==
  ASSUME CaseInv, OnceInv, NEW r \in CaseRuns, CommentSeeded(r)
  PROVE  OnceInv'
<1> DEFINE row == [caseRuns[r] EXCEPT !.at = "patching"]
<1>0. CaseSeedTypeOK /\ At(r, "tasking") /\ Held(r) \in Cases
  BY DEF CaseInv, CommentSeeded, OnCase, At, AllKnow, Knows, Holding
<1>1. /\ row \in RunRow /\ caseRuns' = [caseRuns EXCEPT ![r] = row]
      /\ row.at = "patching" /\ row.commented = caseRuns[r].commented
  BY <1>0, Going DEF Stages, CommentSeeded
<1> HIDE DEF row
<1>2. r \in Working BY <1>0 DEF Working, At
<1>3. OneMoves(r, row) BY <1>0, <1>1, <1>2, OnlyCaseRun DEF OneMoves, At, CommentSeeded
<1>4. caseRuns'[r] = row BY <1>0, <1>1, <1>3, MovedRow
<1>5. ~overlapped' => Alert(r) /\ CasesOnce BY <1>3 DEF OnceInv, OneMoves
<1>6. ~overlapped' => Alert(r)'
  BY <1>0, <1>1, <1>2, <1>4, <1>5 DEF Alert, At, Working, CommentSeeded
<1>7. NoneWhole' => NoneWhole BY <1>0, <1>1, <1>3, NoneWholeKept DEF CommentSeeded, At
<1>8. CASE caseRuns[r].commented
  BY <1>0, <1>1, <1>3, <1>6, <1>7, <1>8, OnceUntouched DEF CommentSeeded
<1>9. CASE ~caseRuns[r].commented
  <2>1. cases' = [cases EXCEPT ![Held(r)].comments = @ + 1] BY <1>9 DEF CommentSeeded
  <2>2. /\ \A j \in Cases : cases'[j].has = cases[j].has /\ cases'[j].there = cases[j].there
        /\ \A j \in Cases \ {Held(r)} : cases'[j] = cases[j]
        /\ cases'[Held(r)].comments = cases[Held(r)].comments + 1
    <3> DEFINE n == cases[Held(r)].comments + 1
    <3> DEFINE c == [cases[Held(r)] EXCEPT !.comments = n]
    <3>1. cases' = [cases EXCEPT ![Held(r)] = c] BY <2>1
    <3> HIDE DEF n
    <3>2. c.has = cases[Held(r)].has /\ c.there = cases[Held(r)].there /\ c.comments = n
      BY <1>0 DEF CaseSeedTypeOK, CaseRow
    <3> HIDE DEF c
    <3>3. cases'[Held(r)] = c /\ \A j \in Cases \ {Held(r)} : cases'[j] = cases[j]
      BY <1>0, <3>1 DEF CaseSeedTypeOK
    <3>4. QED BY <3>2, <3>3 DEF n
  <2>3. ASSUME ~overlapped', NEW j \in Cases PROVE OnceCommented(j)'
    <3>1. stateFile = "absent" BY <1>0, <1>2, <1>5, <1>9, <2>3 DEF Alert, At
    <3>2. NoneWhole
      <4>1. \A q \in CaseRuns : At(q, "patching") => q = r
        BY <1>3, <2>3 DEF OneMoves, Working, At
      <4>2. QED BY <1>0, <3>1, <4>1 DEF NoneWhole, At
    <3>3. ~NoneWhole' BY <1>1, <1>4 DEF NoneWhole, At
    <3>4. cases[j].comments \in Nat /\ cases[j].comments <= Cardinality(StoppedRuns)
      <4>1. cases[j].comments \in Nat /\ Cardinality(StoppedRuns) \in Nat
        BY <1>0, <1>1, <1>3, StoppedCount DEF CaseSeedTypeOK, CaseRow
      <4>2. cases[j].comments <= 0 + Cardinality(StoppedRuns)
        BY <1>5, <2>3, <3>2 DEF CasesOnce, OnceCommented
      <4>3. QED BY <4>1, <4>2
    <3>5. Cardinality(StoppedRuns') = Cardinality(StoppedRuns) /\ Cardinality(StoppedRuns) \in Nat
      BY <1>0, <1>1, <1>3, StoppedCount
    <3>6. cases'[j].comments <= 1 + Cardinality(StoppedRuns')
      BY <2>2, <3>4, <3>5
    <3>7. QED BY <3>3, <3>6 DEF OnceCommented
  <2>4. ~overlapped' => CasesOnce'
    BY <1>5, <2>2, <2>3 DEF CasesOnce, There
  <2>5. QED BY <1>0, <1>1, <1>3, <1>6, <2>4, OnceMoves
<1>10. QED BY <1>8, <1>9

LEMMA OnceEnds ==
  ASSUME CaseInv, OnceInv, NEW r \in CaseRuns, PatchCase(r) \/ WriteState(r) \/ StopSeed(r)
  PROVE  OnceInv'
<1>0. CaseSeedTypeOK /\ r \in Working /\ UNCHANGED cases /\ UNCHANGED overlapped
  BY DEF CaseInv, PatchCase, WriteState, StopSeed, OnCase, At, Working
<1>1. PICK stage \in {"writing", "done", "stopped"} :
        GoTo(r, stage) /\ (stage = "stopped" \/ stateFile' # "absent")
  <2>1. CASE PatchCase(r) BY <2>1 DEF PatchCase
  <2>2. CASE WriteState(r)
    <3>1. Held(r) \in Cases BY <2>2 DEF WriteState, CaseInv, AllKnow, Knows, At, Holding
    <3>2. QED BY <2>2, <3>1, CaseNullAssumption DEF WriteState
  <2>3. CASE StopSeed(r) BY <2>3 DEF StopSeed
  <2>4. QED BY <2>1, <2>2, <2>3
<1> DEFINE row == [caseRuns[r] EXCEPT !.at = stage]
<1>2. row \in RunRow /\ caseRuns' = [caseRuns EXCEPT ![r] = row] /\ row.at = stage
  <2>1. CaseSeedTypeOK /\ stage \in Stages /\ GoTo(r, stage) BY <1>0, <1>1 DEF Stages
  <2>2. QED BY <2>1, Going
<1> HIDE DEF row
<1>3. OneMoves(r, row) BY <1>0, <1>2, OnlyCaseRun DEF OneMoves, Working
<1>4. caseRuns'[r] = row BY <1>0, <1>2, <1>3, MovedRow
<1>5. Alert(r)' BY <1>1, <1>2, <1>4 DEF Alert, At, Working
<1>6. NoneWhole' => row.at = "stopped" BY <1>1, <1>2 DEF NoneWhole
<1>7. r \in CaseRuns OBVIOUS
<1>8. QED BY <1>0, <1>2, <1>3, <1>5, <1>6, OnceUntouched

LEMMA OnceDeletes ==
  ASSUME CaseInv, OnceInv, NEW k \in Cases, AnalystDeletes(k)
  PROVE  OnceInv'
<1>0. CaseSeedTypeOK BY DEF CaseInv
<1>1. \A j \in Cases : /\ cases'[j].has = cases[j].has /\ cases'[j].comments = cases[j].comments
                       /\ cases'[j].there => cases[j].there
  BY <1>0 DEF CaseSeedTypeOK, CaseRow, AnalystDeletes
<1>2. UNCHANGED <<caseRuns, stateFile, overlapped>> BY DEF AnalystDeletes
<1>3. StoppedRuns' = StoppedRuns /\ Working' = Working /\ NoneWhole' = NoneWhole
  BY <1>2 DEF StoppedRuns, Working, NoneWhole, At
<1>4. ASSUME NEW r \in CaseRuns, Alert(r) PROVE Alert(r)'
  <2>1. At(r, "observing") \/ At(r, "tasking") => Held(r) \in Cases
    BY DEF CaseInv, AllKnow, Knows, At, Holding
  <2>2. QED BY <1>1, <1>2, <1>3, <1>4, <2>1 DEF Alert, At, There, Held
<1>5. CasesOnce => CasesOnce' BY <1>1, <1>3 DEF CasesOnce, OnceCommented, There
<1>6. QED BY <1>2, <1>3, <1>4, <1>5 DEF OnceInv

LEMMA OnceStepping ==
  ASSUME CaseInv, OnceInv, [CaseSeedNext]_caseSeedVars
  PROVE  OnceInv'
<1>1. CASE UNCHANGED caseSeedVars
  BY <1>1 DEF caseSeedVars, OnceInv, StoppedRuns, Working, Alert, CasesOnce, OnceCommented,
     NoneWhole, There, At, Held
<1>2. ASSUME NEW r \in CaseRuns, BeginSeed(r) \/ FindCaseToSeed(r) PROVE OnceInv'
  BY <1>2, OnceBegins, OnceFinds
<1>3. ASSUME NEW r \in CaseRuns, NEW k \in Cases, CreateCaseToSeed(r, k) PROVE OnceInv'
  BY <1>3, OnceCreates
<1>4. ASSUME NEW r \in CaseRuns, ListObservables(r) \/ ListTasks(r) PROVE OnceInv'
  BY <1>4, OnceLists DEF ListObservables, ListTasks, Children
<1>5. ASSUME NEW r \in CaseRuns, NEW x \in Observables, AddChild(r, "observing", x) PROVE OnceInv'
  BY <1>5, OnceAdds DEF Children
<1>6. ASSUME NEW r \in CaseRuns, NEW x \in Tasks, AddChild(r, "tasking", x) PROVE OnceInv'
  BY <1>6, OnceAdds DEF Children
<1>7. ASSUME NEW r \in CaseRuns, CommentSeeded(r) PROVE OnceInv' BY <1>7, OnceComments
<1>8. ASSUME NEW r \in CaseRuns, PatchCase(r) \/ WriteState(r) \/ StopSeed(r) PROVE OnceInv'
  BY <1>8, OnceEnds
<1>9. ASSUME NEW k \in Cases, AnalystDeletes(k) PROVE OnceInv' BY <1>9, OnceDeletes
<1>10. QED
  BY <1>1, <1>2, <1>3, <1>4, <1>5, <1>6, <1>7, <1>8, <1>9 DEF CaseSeedNext, SeedStep

\* Runs of seed_case.py one after the other, however many and wherever stopped, leave one
\* case and one of each observable and task, and one comment more than runs were stopped.
THEOREM CaseSeededOnce == CaseSeedSpec => []CaseSeedOnce
<1>1. CaseInv /\ OnceInv => CaseSeedOnce
  <2> SUFFICES ASSUME CaseInv, OnceInv, ~overlapped
               PROVE  /\ \A j, k \in Cases : There(j) /\ There(k) => j = k
                      /\ \A k \in Cases :
                           /\ \A x \in Children : cases[k].has[x] <= 1
                           /\ cases[k].comments <= 1 + Cardinality(StoppedRuns)
    BY DEF CaseSeedOnce, StoppedRuns
  <2>1. CasesOnce /\ Cardinality(StoppedRuns) \in Nat
    BY FS_CardinalityType DEF OnceInv
  <2>2. \A k \in Cases : cases[k].comments \in Nat BY DEF CaseInv, CaseSeedTypeOK, CaseRow
  <2>3. QED BY <2>1, <2>2 DEF CasesOnce, OnceCommented
<1>2. QED BY CaseInvariance, OnceInitial, OnceStepping, <1>1, PTL DEF CaseSeedSpec

------------------------------------------------------------------------------
(* seed_workflows.py: a webhook starts the workflow the state file names.    *)

LEMMA BookTypeInitial == PlaybookSeedInit => PlaybookSeedTypeOK
<1> SUFFICES ASSUME PlaybookSeedInit PROVE PlaybookSeedTypeOK OBVIOUS
<1>1. NothingFound \in [Playbooks -> WorkflowIds \cup {NoWorkflow}] BY DEF NothingFound
<1>2. NotSeeding \in BookRunRow BY <1>1 DEF NotSeeding, BookRunRow
<1>3. QED BY <1>1, <1>2 DEF PlaybookSeedInit, PlaybookSeedTypeOK

\* The next row of the run that moves, and that no other run moves.
Moves(r, row) == /\ row \in BookRunRow
                 /\ bookRuns' = [bookRuns EXCEPT ![r] = row]

LEMMA MovesRow ==
  ASSUME PlaybookSeedTypeOK, NEW r \in BookRuns, NEW row, Moves(r, row)
  PROVE  /\ bookRuns' \in [BookRuns -> BookRunRow]
         /\ bookRuns'[r] = row /\ \A q \in BookRuns \ {r} : bookRuns'[q] = bookRuns[q]
BY DEF PlaybookSeedTypeOK, Moves

LEMMA ResetRow ==
  ASSUME NEW stage \in {"done", "stopped"}
  PROVE  [NotSeeding EXCEPT !.at = stage] \in BookRunRow /\ [NotSeeding EXCEPT !.at = stage].at = stage
<1>1. NothingFound \in [Playbooks -> WorkflowIds \cup {NoWorkflow}] BY DEF NothingFound
<1>2. QED BY <1>1 DEF NotSeeding, BookRunRow

LEMMA ListedRow ==
  ASSUME NEW r \in BookRuns, ListBooksToSeed(r)
  PROVE  \E row : /\ Moves(r, row) /\ row.at = "next" /\ row.seen = Existing
                  /\ row.todo = Playbooks
<1> DEFINE row == [NotSeeding EXCEPT !.at = "next", !.seen = Existing, !.todo = Playbooks]
<1>1. NothingFound \in [Playbooks -> WorkflowIds \cup {NoWorkflow}] BY DEF NothingFound
<1>2. Existing \subseteq WorkflowIds BY DEF Existing
<1>3. row \in BookRunRow /\ row.at = "next" /\ row.seen = Existing /\ row.todo = Playbooks
  BY <1>1, <1>2 DEF NotSeeding, BookRunRow
<1>4. QED BY <1>3 DEF ListBooksToSeed, Moves

LEMMA CreatedRow ==
  ASSUME PlaybookSeedTypeOK, NEW r \in BookRuns, NEW b \in Playbooks, NEW w \in WorkflowIds,
         CreateWorkflow(r, b, w)
  PROVE  \E row : /\ Moves(r, row) /\ row.at = "created" /\ row.book = b
                  /\ row.todo = bookRuns[r].todo /\ row.found = bookRuns[r].found
<1> DEFINE old == bookRuns[r]
<1> DEFINE row == [old EXCEPT !.at = "created", !.book = b]
<1>0. old \in BookRunRow BY DEF PlaybookSeedTypeOK
<1>1. bookRuns' = [bookRuns EXCEPT ![r] = row]
  BY DEF PlaybookSeedTypeOK, BookRunRow, CreateWorkflow
<1> HIDE DEF old
<1>2. /\ row \in BookRunRow /\ row.at = "created" /\ row.book = b
      /\ row.todo = old.todo /\ row.found = old.found
  BY <1>0 DEF BookRunRow
<1>3. QED BY <1>1, <1>2 DEF Moves, old

LEMMA FoundRow ==
  ASSUME PlaybookSeedTypeOK, NEW r \in BookRuns, NEW w \in WorkflowIds, FindCreated(r, w)
  PROVE  \E row : /\ Moves(r, row) /\ row.at = "starting" /\ row.seen = Existing
                  /\ row.workflow = w /\ row.book = bookRuns[r].book
                  /\ row.todo = bookRuns[r].todo /\ row.found = bookRuns[r].found
<1> DEFINE row == [bookRuns[r] EXCEPT !.at = "starting", !.seen = Existing, !.workflow = w]
<1>1. bookRuns' = [bookRuns EXCEPT ![r] = row]
  BY DEF PlaybookSeedTypeOK, BookRunRow, FindCreated
<1>2. Existing \subseteq WorkflowIds BY DEF Existing
<1>3. /\ row \in BookRunRow /\ row.at = "starting" /\ row.seen = Existing
      /\ row.workflow = w /\ row.book = bookRuns[r].book
      /\ row.todo = bookRuns[r].todo /\ row.found = bookRuns[r].found
  BY <1>2 DEF PlaybookSeedTypeOK, BookRunRow
<1>4. QED BY <1>1, <1>3 DEF Moves

LEMMA UpdatedRow ==
  ASSUME PlaybookSeedTypeOK, NEW r \in BookRuns, NEW b \in Playbooks, NEW w \in WorkflowIds,
         UpdateWorkflow(r, b, w)
  PROVE  \E row : /\ Moves(r, row) /\ row.at = "starting" /\ row.seen = bookRuns[r].seen
                  /\ row.workflow = w /\ row.book = b
                  /\ row.todo = bookRuns[r].todo /\ row.found = bookRuns[r].found
<1> DEFINE row == [bookRuns[r] EXCEPT !.at = "starting", !.book = b, !.workflow = w]
<1>1. bookRuns' = [bookRuns EXCEPT ![r] = row]
  BY DEF PlaybookSeedTypeOK, BookRunRow, UpdateWorkflow
<1>2. /\ row \in BookRunRow /\ row.at = "starting" /\ row.seen = bookRuns[r].seen
      /\ row.workflow = w /\ row.book = b
      /\ row.todo = bookRuns[r].todo /\ row.found = bookRuns[r].found
  BY DEF PlaybookSeedTypeOK, BookRunRow
<1>3. QED BY <1>1, <1>2 DEF Moves

LEMMA StartedRow ==
  ASSUME PlaybookSeedTypeOK, NEW r \in BookRuns, StartHook(r)
  PROVE  \E row : /\ Moves(r, row) /\ row.at = "next" /\ row.seen = bookRuns[r].seen
                  /\ row.todo = bookRuns[r].todo \ {bookRuns[r].book}
                  /\ \A b \in Playbooks : row.found[b] =
                       IF b = bookRuns[r].book THEN bookRuns[r].workflow
                       ELSE bookRuns[r].found[b]
<1> DEFINE todo == bookRuns[r].todo \ {bookRuns[r].book}
<1> DEFINE found == [bookRuns[r].found EXCEPT ![bookRuns[r].book] = bookRuns[r].workflow]
<1> DEFINE seen == bookRuns[r].seen
<1> DEFINE row == [NotSeeding EXCEPT !.at = "next", !.seen = seen, !.todo = todo,
                                     !.found = found]
<1>0. bookRuns[r] \in BookRunRow BY DEF PlaybookSeedTypeOK
<1>1. bookRuns' = [bookRuns EXCEPT ![r] = row] BY DEF StartHook
<1>2. seen \subseteq WorkflowIds /\ todo \subseteq Playbooks
      /\ found \in [Playbooks -> WorkflowIds \cup {NoWorkflow}]
  BY <1>0 DEF BookRunRow
<1>3. \A b \in Playbooks : found[b] = IF b = bookRuns[r].book THEN bookRuns[r].workflow
                                      ELSE bookRuns[r].found[b]
  BY <1>0 DEF BookRunRow
<1> HIDE DEF todo, found, seen
<1>4. NotSeeding \in BookRunRow
  <2>1. NothingFound \in [Playbooks -> WorkflowIds \cup {NoWorkflow}] BY DEF NothingFound
  <2>2. QED BY <2>1 DEF NotSeeding, BookRunRow
<1>5. /\ row \in BookRunRow /\ row.at = "next" /\ row.seen = seen
      /\ row.todo = todo /\ row.found = found
  BY <1>2, <1>4 DEF BookRunRow
<1> HIDE DEF row
<1>6. Moves(r, row) BY <1>1, <1>5 DEF Moves
<1>7. QED BY <1>3, <1>5, <1>6 DEF todo, seen

LEMMA WritingRow ==
  ASSUME PlaybookSeedTypeOK, NEW r \in BookRuns, OpenBookState(r)
  PROVE  \E row : /\ Moves(r, row) /\ row.at = "writing" /\ row.todo = bookRuns[r].todo
                  /\ row.found = bookRuns[r].found
<1> DEFINE old == bookRuns[r]
<1> DEFINE row == [old EXCEPT !.at = "writing"]
<1>0. old \in BookRunRow BY DEF PlaybookSeedTypeOK
<1>1. bookRuns' = [bookRuns EXCEPT ![r] = row] BY DEF OpenBookState
<1> HIDE DEF old
<1>2. /\ row \in BookRunRow /\ row.at = "writing" /\ row.todo = old.todo
      /\ row.found = old.found
  BY <1>0 DEF BookRunRow
<1>3. QED BY <1>1, <1>2 DEF Moves, old

LEMMA EndedRow ==
  ASSUME NEW r \in BookRuns, WriteBookState(r) \/ StopBookRun(r)
  PROVE  \E row : Moves(r, row) /\ row.at \in {"done", "stopped"}
BY ResetRow DEF WriteBookState, StopBookRun, Moves

LEMMA BookTypeStepping ==
  ASSUME PlaybookSeedTypeOK, [PlaybookSeedNext]_bookVars
  PROVE  PlaybookSeedTypeOK'
<1>1. NothingFound \in [Playbooks -> WorkflowIds \cup {NoWorkflow}] BY DEF NothingFound
<1>2. CASE UNCHANGED bookVars BY <1>2 DEF bookVars, PlaybookSeedTypeOK
<1>3. ASSUME NEW r \in BookRuns, ListBooksToSeed(r) PROVE PlaybookSeedTypeOK'
  <2>1. bookRuns' \in [BookRuns -> BookRunRow] BY <1>3, ListedRow, MovesRow
  <2>2. overlapping' \in BOOLEAN BY <1>3 DEF ListBooksToSeed, PlaybookSeedTypeOK
  <2>3. QED BY <1>3, <2>1, <2>2 DEF ListBooksToSeed, PlaybookSeedTypeOK
<1>4. ASSUME NEW r \in BookRuns, NEW b \in Playbooks, NEW w \in WorkflowIds,
             CreateWorkflow(r, b, w)
      PROVE  PlaybookSeedTypeOK'
  <2>1. bookRuns' \in [BookRuns -> BookRunRow] BY <1>4, CreatedRow, MovesRow
  <2>2. QED BY <1>4, <2>1 DEF CreateWorkflow, PlaybookSeedTypeOK
<1>5. ASSUME NEW r \in BookRuns, NEW b \in Playbooks, NEW w \in WorkflowIds,
             UpdateWorkflow(r, b, w)
      PROVE  PlaybookSeedTypeOK'
  <2>1. bookRuns' \in [BookRuns -> BookRunRow] BY <1>5, UpdatedRow, MovesRow
  <2>2. QED BY <1>5, <2>1 DEF UpdateWorkflow, PlaybookSeedTypeOK
<1>6. ASSUME NEW r \in BookRuns, NEW w \in WorkflowIds, FindCreated(r, w)
      PROVE  PlaybookSeedTypeOK'
  <2>1. bookRuns' \in [BookRuns -> BookRunRow] BY <1>6, FoundRow, MovesRow
  <2>2. QED BY <1>6, <2>1 DEF FindCreated, PlaybookSeedTypeOK
<1>7. ASSUME NEW r \in BookRuns, StartHook(r) PROVE PlaybookSeedTypeOK'
  <2>1. bookRuns' \in [BookRuns -> BookRunRow] BY <1>7, StartedRow, MovesRow
  <2>2. bookRuns[r].workflow \in WorkflowIds \cup {NoWorkflow}
    BY DEF PlaybookSeedTypeOK, BookRunRow
  <2>3. webhooks' \in [Playbooks -> WorkflowIds \cup {NoWorkflow}]
    BY <1>7, <2>2 DEF StartHook, PlaybookSeedTypeOK
  <2>4. QED BY <1>7, <2>1, <2>3 DEF StartHook, PlaybookSeedTypeOK
<1>8. ASSUME NEW r \in BookRuns, OpenBookState(r) PROVE PlaybookSeedTypeOK'
  <2>1. bookRuns' \in [BookRuns -> BookRunRow] BY <1>8, WritingRow, MovesRow
  <2>2. QED BY <1>1, <1>8, <2>1 DEF OpenBookState, PlaybookSeedTypeOK
<1>9. ASSUME NEW r \in BookRuns, WriteBookState(r) PROVE PlaybookSeedTypeOK'
  <2>1. bookRuns' \in [BookRuns -> BookRunRow] BY <1>9, EndedRow, MovesRow
  <2>2. bookRuns[r].found \in [Playbooks -> WorkflowIds \cup {NoWorkflow}]
    BY DEF PlaybookSeedTypeOK, BookRunRow
  <2>3. QED BY <1>9, <2>1, <2>2 DEF WriteBookState, PlaybookSeedTypeOK
<1>10. ASSUME NEW r \in BookRuns, StopBookRun(r) PROVE PlaybookSeedTypeOK'
  <2>1. bookRuns' \in [BookRuns -> BookRunRow] BY <1>10, EndedRow, MovesRow
  <2>2. QED BY <1>10, <2>1 DEF StopBookRun, PlaybookSeedTypeOK
<1>11. QED
  BY <1>2, <1>3, <1>4, <1>5, <1>6, <1>7, <1>8, <1>9, <1>10
     DEF PlaybookSeedNext, PlaybookStep

\* The workflow is there, has the playbook's name, and is what its webhook starts.
IsOf(w, b) == w \in Existing /\ workflows[w] = b
Hooked(w, b) == IsOf(w, b) /\ webhooks[b] = w

\* What the only run relies on: its list has not aged, and the workflows it has found
\* for the playbooks it is done with are those that the webhooks start.
RunKnows(r) ==
  /\ Stage(r) \in {"next", "starting"} => bookRuns[r].seen = Existing
  /\ Stage(r) = "created" => bookRuns[r].book \in bookRuns[r].todo
  /\ Stage(r) = "starting" => /\ bookRuns[r].book \in bookRuns[r].todo
                              /\ IsOf(bookRuns[r].workflow, bookRuns[r].book)
  /\ r \in Seeding => \A b \in Playbooks \ bookRuns[r].todo : Hooked(bookRuns[r].found[b], b)
  /\ Stage(r) = "writing" => bookRuns[r].todo = {}

OneOfAName == \A v, w \in Existing : workflows[v] = workflows[w] => v = w
HooksRight == \A b \in Playbooks : webhooks[b] # NoWorkflow => IsOf(webhooks[b], b)
StateRight == bookState.is = "written" => \A b \in Playbooks : Hooked(bookState.names[b], b)

BookInv == ~overlapping => /\ \A q, r \in Seeding : q = r
                           /\ OneOfAName /\ HooksRight /\ StateRight
                           /\ \A r \in BookRuns : RunKnows(r)

LEMMA BookInitial == PlaybookSeedInit => BookInv
<1> SUFFICES ASSUME PlaybookSeedInit PROVE BookInv OBVIOUS
<1>1. \A r \in BookRuns : bookRuns[r] = NotSeeding BY DEF PlaybookSeedInit
<1>2. Existing = {} /\ Seeding = {}
  BY <1>1 DEF Existing, Seeding, NotSeeding, PlaybookSeedInit
<1>3. \A r \in BookRuns : RunKnows(r) BY <1>1, <1>2 DEF RunKnows, Stage, NotSeeding
<1>4. HooksRight BY DEF HooksRight, PlaybookSeedInit, NothingFound
<1>5. QED BY <1>2, <1>3, <1>4 DEF BookInv, OneOfAName, StateRight, PlaybookSeedInit

\* Hooks and workflows of the playbooks that a step does not touch stay right.
HookedStill == \A w \in WorkflowIds \cup {NoWorkflow} : \A b \in Playbooks :
                 Hooked(w, b) => Hooked(w, b)'

\* It is enough to look at the run that moves.
LEMMA OneBookRun ==
  ASSUME PlaybookSeedTypeOK, BookInv, NEW r \in BookRuns, NEW row, Moves(r, row),
         ~overlapping' => /\ ~overlapping /\ \A q \in Seeding : q = r
                          /\ OneOfAName' /\ HooksRight' /\ StateRight' /\ RunKnows(r)'
  PROVE  BookInv'
<1> SUFFICES ASSUME ~overlapping'
             PROVE  (\A p, q \in Seeding' : p = q) /\ \A q \in BookRuns : RunKnows(q)'
  BY DEF BookInv
<1>1. \A q \in BookRuns \ {r} : bookRuns'[q] = bookRuns[q] BY MovesRow
<1>2. \A q \in Seeding' : q = r BY <1>1 DEF Seeding
<1>3. ASSUME NEW q \in BookRuns \ {r} PROVE RunKnows(q)'
  <2>1. q \notin Seeding' BY <1>2
  <2>2. Stage(q)' \in {"idle", "done", "stopped"}
    BY <2>1 DEF Seeding, Stage
  <2>3. QED BY <2>1, <2>2 DEF RunKnows
<1>4. QED BY <1>2, <1>3

\* A run at work is the only one as long as runs have not overlapped.
LEMMA OnlyBookRun ==
  ASSUME BookInv, NEW r \in BookRuns, r \in Seeding, UNCHANGED overlapping
  PROVE  ~overlapping' => /\ ~overlapping /\ \A q \in Seeding : q = r
                          /\ OneOfAName /\ HooksRight /\ StateRight /\ RunKnows(r)
BY DEF BookInv

LEMMA NothingMoves ==
  ASSUME UNCHANGED <<workflows, webhooks>>
  PROVE  /\ Existing' = Existing /\ OneOfAName' = OneOfAName /\ HooksRight' = HooksRight
         /\ \A w, b : IsOf(w, b)' = IsOf(w, b) /\ Hooked(w, b)' = Hooked(w, b)
<1>1. Existing' = Existing BY DEF Existing
<1>2. \A w, b : IsOf(w, b)' = IsOf(w, b) /\ Hooked(w, b)' = Hooked(w, b)
  BY <1>1 DEF IsOf, Hooked
<1>3. OneOfAName' = OneOfAName BY <1>1 DEF OneOfAName
<1>4. HooksRight' = HooksRight BY <1>2 DEF HooksRight
<1>5. QED BY <1>1, <1>2, <1>3, <1>4

LEMMA BookLists ==
  ASSUME PlaybookSeedTypeOK, BookInv, NEW r \in BookRuns, ListBooksToSeed(r)
  PROVE  BookInv'
<1>1. PICK row : /\ Moves(r, row) /\ row.at = "next" /\ row.seen = Existing
                 /\ row.todo = Playbooks
  BY ListedRow
<1>2. bookRuns'[r] = row BY <1>1, MovesRow
<1>3. UNCHANGED <<workflows, webhooks, bookState>> BY DEF ListBooksToSeed
<1>4. ~overlapping' => ~overlapping /\ Seeding = {}
  BY DEF ListBooksToSeed, PlaybookSeedTypeOK
<1>5. RunKnows(r)' BY <1>1, <1>2, <1>3, NothingMoves DEF RunKnows, Stage
<1>6. StateRight' = StateRight BY <1>3, NothingMoves DEF StateRight
<1>7. QED BY <1>1, <1>3, <1>4, <1>5, <1>6, OneBookRun, NothingMoves DEF BookInv

\* The list has not aged: what is not in it is not there.
LEMMA BookCreates ==
  ASSUME PlaybookSeedTypeOK, BookInv, NEW r \in BookRuns, NEW b \in Playbooks,
         NEW w \in WorkflowIds, CreateWorkflow(r, b, w)
  PROVE  BookInv'
<1>1. PICK row : /\ Moves(r, row) /\ row.at = "created" /\ row.book = b
                 /\ row.todo = bookRuns[r].todo /\ row.found = bookRuns[r].found
  BY CreatedRow
<1>2. bookRuns'[r] = row BY <1>1, MovesRow
<1>3. r \in Seeding /\ UNCHANGED <<webhooks, bookState, overlapping>>
  BY DEF CreateWorkflow, Seeding, Stage
<1> SUFFICES ASSUME ~overlapping'
             PROVE  OneOfAName' /\ HooksRight' /\ StateRight' /\ RunKnows(r)'
  BY <1>1, <1>3, OneBookRun, OnlyBookRun
<1>4. OneOfAName /\ HooksRight /\ StateRight /\ RunKnows(r) BY <1>3, OnlyBookRun
<1>5. w \notin Existing /\ Existing' = Existing \cup {w} /\ workflows'[w] = b
      /\ \A v \in Existing : workflows'[v] = workflows[v]
  BY WorkflowNullAssumption DEF CreateWorkflow, Existing, PlaybookSeedTypeOK
<1>6. \A v \in Existing : workflows[v] # b
  BY <1>4 DEF CreateWorkflow, Named, RunKnows, Stage
<1>7. OneOfAName' BY <1>4, <1>5, <1>6 DEF OneOfAName
<1>8. \A v, c : (IsOf(v, c) => IsOf(v, c)') /\ (Hooked(v, c) => Hooked(v, c)')
  BY <1>3, <1>5 DEF IsOf, Hooked
<1>9. HooksRight' /\ StateRight' BY <1>3, <1>4, <1>8 DEF HooksRight, StateRight
<1>10. RunKnows(r)'
  BY <1>1, <1>2, <1>3, <1>4, <1>8 DEF RunKnows, Stage, CreateWorkflow
<1>11. QED BY <1>7, <1>9, <1>10

LEMMA BookFinds ==
  ASSUME PlaybookSeedTypeOK, BookInv, NEW r \in BookRuns, NEW w \in WorkflowIds,
         FindCreated(r, w)
  PROVE  BookInv'
<1>1. PICK row : /\ Moves(r, row) /\ row.at = "starting" /\ row.seen = Existing
                 /\ row.workflow = w /\ row.book = bookRuns[r].book
                 /\ row.todo = bookRuns[r].todo /\ row.found = bookRuns[r].found
  BY FoundRow
<1>2. bookRuns'[r] = row BY <1>1, MovesRow
<1>3. r \in Seeding /\ UNCHANGED <<workflows, webhooks, bookState, overlapping>>
  BY DEF FindCreated, Seeding, Stage
<1> SUFFICES ASSUME ~overlapping' PROVE StateRight' /\ RunKnows(r)'
  BY <1>1, <1>3, OneBookRun, OnlyBookRun, NothingMoves
<1>4. StateRight /\ RunKnows(r) BY <1>3, OnlyBookRun
<1>5. StateRight' BY <1>3, <1>4, NothingMoves DEF StateRight
<1>6. IsOf(w, bookRuns[r].book) BY DEF IsOf, FindCreated
<1>7. RunKnows(r)'
  <2>1. \A c \in Playbooks \ row.todo : Hooked(row.found[c], c)
    BY <1>1, <1>3, <1>4 DEF RunKnows
  <2>2. row.book \in row.todo /\ IsOf(row.workflow, row.book) /\ row.seen = Existing
    BY <1>1, <1>4, <1>6 DEF RunKnows, Stage, FindCreated
  <2>3. Existing' = Existing BY <1>3, NothingMoves
  <2>4. QED BY <1>1, <1>2, <1>3, <2>1, <2>2, <2>3 DEF RunKnows, Stage, IsOf, Hooked
<1>8. QED BY <1>5, <1>7

LEMMA BookUpdates ==
  ASSUME PlaybookSeedTypeOK, BookInv, NEW r \in BookRuns, NEW b \in Playbooks,
         NEW w \in WorkflowIds, UpdateWorkflow(r, b, w)
  PROVE  BookInv'
<1>1. PICK row : /\ Moves(r, row) /\ row.at = "starting" /\ row.seen = bookRuns[r].seen
                 /\ row.workflow = w /\ row.book = b
                 /\ row.todo = bookRuns[r].todo /\ row.found = bookRuns[r].found
  BY UpdatedRow
<1>2. bookRuns'[r] = row BY <1>1, MovesRow
<1>3. r \in Seeding /\ UNCHANGED <<workflows, webhooks, bookState, overlapping>>
  BY DEF UpdateWorkflow, Seeding, Stage
<1> SUFFICES ASSUME ~overlapping' PROVE StateRight' /\ RunKnows(r)'
  BY <1>1, <1>3, OneBookRun, OnlyBookRun, NothingMoves
<1>4. StateRight /\ RunKnows(r) BY <1>3, OnlyBookRun
<1>5. StateRight' BY <1>3, <1>4, NothingMoves DEF StateRight
<1>6. IsOf(w, b) BY <1>4 DEF IsOf, UpdateWorkflow, Named, RunKnows, Stage
<1>7. RunKnows(r)'
  <2>1. \A c \in Playbooks \ row.todo : Hooked(row.found[c], c)
    BY <1>1, <1>3, <1>4 DEF RunKnows
  <2>2. row.book \in row.todo /\ IsOf(row.workflow, row.book) /\ row.seen = Existing
    BY <1>1, <1>4, <1>6 DEF RunKnows, Stage, UpdateWorkflow
  <2>3. Existing' = Existing BY <1>3, NothingMoves
  <2>4. QED BY <1>1, <1>2, <1>3, <2>1, <2>2, <2>3 DEF RunKnows, Stage, IsOf, Hooked
<1>8. QED BY <1>5, <1>7

\* Whether Shuffle keeps what the webhook started or starts the workflow named: by its
\* name it is the same workflow.
LEMMA BookStarts ==
  ASSUME PlaybookSeedTypeOK, BookInv, NEW r \in BookRuns, StartHook(r)
  PROVE  BookInv'
<1> DEFINE b == bookRuns[r].book
<1> DEFINE w == bookRuns[r].workflow
<1>1. PICK row : /\ Moves(r, row) /\ row.at = "next" /\ row.seen = bookRuns[r].seen
                 /\ row.todo = bookRuns[r].todo \ {b}
                 /\ \A c \in Playbooks : row.found[c] = IF c = b THEN w ELSE bookRuns[r].found[c]
  BY StartedRow
<1>2. bookRuns'[r] = row BY <1>1, MovesRow
<1>3. r \in Seeding /\ UNCHANGED <<workflows, bookState, overlapping>>
  BY DEF StartHook, Seeding, Stage
<1> SUFFICES ASSUME ~overlapping'
             PROVE  OneOfAName' /\ HooksRight' /\ StateRight' /\ RunKnows(r)'
  BY <1>1, <1>3, OneBookRun, OnlyBookRun
<1>4. OneOfAName /\ HooksRight /\ StateRight /\ RunKnows(r) BY <1>3, OnlyBookRun
<1>5. /\ bookRuns[r].seen = Existing /\ b \in bookRuns[r].todo /\ IsOf(w, b)
      /\ \A c \in Playbooks \ bookRuns[r].todo : Hooked(bookRuns[r].found[c], c)
  BY <1>3, <1>4 DEF RunKnows, StartHook
<1>6. b \in Playbooks BY <1>5 DEF PlaybookSeedTypeOK, BookRunRow
<1> HIDE DEF b, w
<1>7. webhooks'[b] = w /\ \A c \in Playbooks \ {b} : webhooks'[c] = webhooks[c]
  <2>1. CASE webhooks' = [webhooks EXCEPT ![b] = w]
    BY <1>6, <2>1 DEF PlaybookSeedTypeOK
  <2>2. CASE webhooks[b] # NoWorkflow /\ UNCHANGED webhooks
    <3>1. IsOf(webhooks[b], b) BY <1>4, <1>6, <2>2 DEF HooksRight
    <3>2. webhooks[b] = w BY <1>4, <1>5, <3>1 DEF OneOfAName, IsOf
    <3>3. QED BY <2>2, <3>2
  <2>3. QED BY <2>1, <2>2 DEF StartHook, b, w
<1>8. Existing' = Existing /\ \A v, c : IsOf(v, c)' = IsOf(v, c)
  BY <1>3 DEF Existing, IsOf
<1>9. \A v : \A c \in Playbooks :
        Hooked(v, c) => v \in Existing' /\ workflows'[v] = c /\ webhooks'[c] = v
  BY <1>3, <1>4, <1>5, <1>7, <1>8 DEF Hooked, IsOf, OneOfAName
<1>10. OneOfAName' BY <1>3, <1>4, <1>8 DEF OneOfAName
<1>11. HooksRight' BY <1>4, <1>5, <1>7, <1>8 DEF HooksRight
<1>12. StateRight' BY <1>3, <1>4, <1>9 DEF StateRight, Hooked, IsOf
<1>13. w \in Existing' /\ workflows'[w] = b /\ webhooks'[b] = w
  BY <1>3, <1>5, <1>7, <1>8 DEF IsOf
<1>14. \A c \in Playbooks \ row.todo :
         /\ row.found[c] \in Existing' /\ workflows'[row.found[c]] = c
         /\ webhooks'[c] = row.found[c]
  BY <1>1, <1>5, <1>9, <1>13
<1>15. RunKnows(r)' BY <1>1, <1>2, <1>5, <1>8, <1>14 DEF RunKnows, Stage, Hooked, IsOf
<1>16. QED BY <1>10, <1>11, <1>12, <1>15

LEMMA BookWrites ==
  ASSUME PlaybookSeedTypeOK, BookInv, NEW r \in BookRuns, OpenBookState(r) \/ WriteBookState(r)
  PROVE  BookInv'
<1>1. r \in Seeding /\ UNCHANGED <<workflows, webhooks, overlapping>>
  BY DEF OpenBookState, WriteBookState, ReadyToWrite, Seeding, Stage
<1>2. PICK row : /\ Moves(r, row)
                 /\ row.at \in {"writing", "done"}
                 /\ row.at = "writing" => /\ row.todo = bookRuns[r].todo
                                          /\ row.found = bookRuns[r].found
                                          /\ bookRuns[r].todo = {} /\ bookState'.is = "torn"
                 /\ row.at = "done" => /\ Stage(r) = "writing"
                                       /\ bookState'.is = "written"
                                       /\ bookState'.names = bookRuns[r].found
  <2>1. CASE OpenBookState(r)
    BY <2>1, WritingRow DEF OpenBookState, ReadyToWrite
  <2>2. CASE WriteBookState(r)
    BY <2>2, ResetRow DEF WriteBookState, Moves
  <2>3. QED BY <2>1, <2>2
<1>3. bookRuns'[r] = row BY <1>2, MovesRow
<1> SUFFICES ASSUME ~overlapping' PROVE StateRight' /\ RunKnows(r)'
  BY <1>1, <1>2, OneBookRun, OnlyBookRun, NothingMoves
<1>4. RunKnows(r) BY <1>1, OnlyBookRun
<1>5. StateRight' BY <1>1, <1>2, <1>4, NothingMoves DEF StateRight, RunKnows
<1>6. RunKnows(r)' BY <1>1, <1>2, <1>3, <1>4, NothingMoves DEF RunKnows, Stage, Seeding
<1>7. QED BY <1>5, <1>6

LEMMA BookStops ==
  ASSUME PlaybookSeedTypeOK, BookInv, NEW r \in BookRuns, StopBookRun(r)
  PROVE  BookInv'
<1>1. PICK row : Moves(r, row) /\ row.at \in {"done", "stopped"} BY EndedRow
<1>2. bookRuns'[r] = row BY <1>1, MovesRow
<1>3. r \in Seeding /\ UNCHANGED <<workflows, webhooks, bookState, overlapping>>
  BY DEF StopBookRun
<1> SUFFICES ASSUME ~overlapping' PROVE StateRight' /\ RunKnows(r)'
  BY <1>1, <1>3, OneBookRun, OnlyBookRun, NothingMoves
<1>4. StateRight' BY <1>3, OnlyBookRun, NothingMoves DEF StateRight
<1>5. RunKnows(r)' BY <1>1, <1>2 DEF RunKnows, Stage, Seeding
<1>6. QED BY <1>4, <1>5

LEMMA BookStepping ==
  ASSUME PlaybookSeedTypeOK, BookInv, [PlaybookSeedNext]_bookVars
  PROVE  BookInv'
<1>1. CASE UNCHANGED bookVars
  BY <1>1 DEF bookVars, BookInv, OneOfAName, HooksRight, StateRight, RunKnows, Stage, Seeding,
     Existing, IsOf, Hooked
<1>2. ASSUME NEW r \in BookRuns, PlaybookStep(r) PROVE BookInv'
  BY <1>2, BookLists, BookCreates, BookUpdates, BookFinds, BookStarts, BookWrites, BookStops
     DEF PlaybookStep
<1>3. QED BY <1>1, <1>2 DEF PlaybookSeedNext

\* Type correctness of the playbook seed for every number of runs and playbooks.
THEOREM PlaybookSeedTyped == PlaybookSeedSpec => []PlaybookSeedTypeOK
BY BookTypeInitial, BookTypeStepping, PTL DEF PlaybookSeedSpec

\* Runs of seed_workflows.py one after the other, however many and wherever stopped, leave
\* one workflow of each name, and the webhooks start those that the state file names.
THEOREM HooksRunTheirBooks == PlaybookSeedSpec => []HookRunsTheBook
<1>1. BookInv => HookRunsTheBook
  BY DEF BookInv, HookRunsTheBook, OneOfAName, StateRight, Hooked, IsOf
<1>2. QED
  BY BookTypeInitial, BookTypeStepping, BookInitial, BookStepping, <1>1, PTL DEF PlaybookSeedSpec

------------------------------------------------------------------------------
(* seed_misp.py: one event, and one attribute of its own for each indicator. *)

Alone == ~seedsMet => \A s, t \in SeedsWorking : s = t

\* What a run relies on when it writes.
Relies(s) ==
  /\ SeedAt(s, "creating") => events = 0
  /\ SeedAt(s, "adding") => Len(attributes[ItemOf(s)]) <= foreign

SeedRow == [at : {"idle", "creating", "searching", "adding", "done", "stopped"}, next : Nat]
AttributeRow == {Rated(n) : n \in Nat} \cup Foreign

Shape ==
  /\ events \in Nat /\ foreign \in Nat /\ seedsMet \in BOOLEAN
  /\ attributes \in [Items -> Seq(AttributeRow)]
  /\ seeds \in [Seeds -> SeedRow]
  /\ \A s \in Seeds : SeedAt(s, "adding") => seeds[s].next \in DOMAIN Fixture

SeedInv == Shape /\ Alone /\ (~seedsMet => \A s \in Seeds : Relies(s)) /\ IntelSeedOnce

LEMMA SeedInitial == IntelInit => SeedInv
<1> SUFFICES ASSUME IntelInit PROVE SeedInv OBVIOUS
<1>1. \A s \in Seeds : seeds[s] = NotSeeded BY DEF IntelInit
<1>2. \A i \in Items : attributes[i] = <<>> BY DEF IntelInit
<1>3. Shape
  <2>1. NotSeeded \in SeedRow BY DEF NotSeeded, SeedRow
  <2>2. attributes \in [Items -> Seq(AttributeRow)]
    <3>1. <<>> \in Seq(AttributeRow) OBVIOUS
    <3>2. QED BY <3>1 DEF IntelInit
  <2>3. \A s \in Seeds : ~SeedAt(s, "adding") BY <1>1 DEF SeedAt, NotSeeded
  <2>4. QED BY <2>1, <2>2, <2>3 DEF IntelInit, Shape
<1>4. Alone BY <1>1 DEF Alone, SeedsWorking, NotSeeded
<1>5. \A s \in Seeds : Relies(s) BY <1>1 DEF Relies, SeedAt, NotSeeded
<1>6. IntelSeedOnce BY <1>2 DEF IntelSeedOnce, IntelInit
<1>7. QED BY <1>3, <1>4, <1>5, <1>6 DEF SeedInv

\* A step of one run that writes nothing to MISP: it suffices that the run is the only
\* one, and what it relies on afterwards.
LEMMA RunMoves ==
  ASSUME SeedInv, NEW s \in Seeds, NEW row \in SeedRow, seeds' = [seeds EXCEPT ![s] = row],
         UNCHANGED <<events, attributes, foreign>>, seedsMet' \in BOOLEAN,
         row.at = "adding" => row.next \in DOMAIN Fixture,
         ~seedsMet' => ~seedsMet /\ Relies(s)',
         ~seedsMet' => \A t \in SeedsWorking : t = s
  PROVE  SeedInv'
<1>1. Shape' BY DEF SeedInv, Shape, SeedAt
<1>2. \A t \in Seeds \ {s} : seeds'[t] = seeds[t] BY DEF SeedInv, Shape
<1>3. Alone' BY <1>2 DEF Alone, SeedsWorking
<1>4. ~seedsMet' => \A t \in Seeds : Relies(t)' BY <1>2 DEF SeedInv, Relies, SeedAt, ItemOf
<1>5. IntelSeedOnce' BY DEF SeedInv, IntelSeedOnce
<1>6. QED BY <1>1, <1>3, <1>4, <1>5 DEF SeedInv

LEMMA FindingEvent ==
  ASSUME SeedInv, NEW s \in Seeds, FindEvent(s)
  PROVE  SeedInv'
<1> DEFINE row == [NotSeeded EXCEPT !.at = IF EventFound THEN "searching" ELSE "creating"]
<1>0. Shape BY DEF SeedInv
<1>1. seeds' = [seeds EXCEPT ![s] = row] BY DEF FindEvent
<1>2. /\ row \in SeedRow /\ seeds'[s] = row
      /\ row.at = IF EventFound THEN "searching" ELSE "creating"
  BY <1>0, <1>1 DEF Shape, SeedRow, NotSeeded
<1>3. Relies(s)' BY <1>0, <1>2 DEF Relies, SeedAt, EventFound, FindEvent, Shape
<1>4. /\ seedsMet' \in BOOLEAN
      /\ ~seedsMet' => ~seedsMet /\ SeedsWorking = {}
  BY <1>0 DEF FindEvent, Shape
<1>5. UNCHANGED <<events, attributes, foreign>> /\ row.at # "adding" BY <1>2 DEF FindEvent
<1> HIDE DEF row
<1>6. QED BY <1>1, <1>2, <1>3, <1>4, <1>5, RunMoves

\* The run in progress is the only one.
LEMMA OnlyRun ==
  ASSUME SeedInv, NEW s \in SeedsWorking
  PROVE  ~seedsMet => \A t \in SeedsWorking : t = s
BY DEF SeedInv, Alone, SeedsWorking

LEMMA Searching ==
  ASSUME SeedInv, NEW s \in Seeds, SearchAttribute(s)
  PROVE  SeedInv'
<1>0. Shape /\ SeedsWorking \subseteq Seeds BY DEF SeedInv, SeedsWorking
<1>1. UNCHANGED <<events, attributes, foreign, seedsMet>> BY DEF SearchAttribute, MispVars
<1>2. s \in SeedsWorking BY DEF SearchAttribute, SeedAt, SeedsWorking
<1>3. ~seedsMet => \A t \in SeedsWorking : t = s BY <1>2, OnlyRun
<1>4. CASE Present(ItemOf(s))
  <2> DEFINE n == seeds[s].next + 1
  <2> DEFINE row == [seeds[s] EXCEPT !.next = n]
  <2>1. seeds' = [seeds EXCEPT ![s] = row] BY <1>4 DEF SearchAttribute
  <2>2. seeds[s] \in SeedRow /\ seeds[s].at = "searching"
    BY <1>0 DEF Shape, SearchAttribute, SeedAt
  <2>3. n \in Nat BY <2>2 DEF SeedRow
  <2> HIDE DEF n
  <2>4. row \in SeedRow /\ row.at = "searching" BY <2>2, <2>3 DEF SeedRow
  <2> HIDE DEF row
  <2>5. seeds'[s] = row BY <1>0, <2>1 DEF Shape
  <2>6. Relies(s)' BY <2>4, <2>5 DEF Relies, SeedAt
  <2>7. QED BY <1>0, <1>1, <1>3, <2>1, <2>4, <2>6, RunMoves DEF Shape
<1>5. CASE ~Present(ItemOf(s))
  <2> DEFINE row == [seeds[s] EXCEPT !.at = "adding"]
  <2>1. seeds' = [seeds EXCEPT ![s] = row] BY <1>5 DEF SearchAttribute
  <2>2. /\ row \in SeedRow /\ seeds'[s] = row /\ row.at = "adding"
        /\ row.next = seeds[s].next /\ seeds[s].next \in DOMAIN Fixture
    BY <1>0, <2>1 DEF Shape, SeedRow, SearchAttribute
  <2>3. Len(attributes[ItemOf(s)]) <= foreign
    <3>1. attributes[ItemOf(s)] = <<>> BY <1>5 DEF Present
    <3>2. Len(attributes[ItemOf(s)]) = 0 BY <3>1
    <3>3. QED BY <1>0, <3>2 DEF Shape
  <2>4. Relies(s)' BY <1>1, <2>2, <2>3 DEF Relies, SeedAt, ItemOf
  <2>5. QED BY <1>0, <1>1, <1>3, <2>1, <2>2, <2>4, RunMoves DEF Shape
<1>6. QED BY <1>4, <1>5

LEMMA LeavingRun ==
  ASSUME SeedInv, NEW s \in Seeds, EndSeed(s) \/ StopSeeding(s)
  PROVE  SeedInv'
<1>0. Shape BY DEF SeedInv
<1>1. UNCHANGED <<events, attributes, foreign, seedsMet>>
  BY DEF EndSeed, StopSeeding, MispVars
<1>2. s \in SeedsWorking BY DEF EndSeed, StopSeeding, SeedAt, SeedsWorking
<1>3. ~seedsMet => \A t \in SeedsWorking : t = s BY <1>2, OnlyRun
<1>4. PICK row \in SeedRow : /\ seeds' = [seeds EXCEPT ![s] = row]
                             /\ row.at \notin {"creating", "adding"}
  <2>1. \A at \in {"done", "stopped"} : /\ [NotSeeded EXCEPT !.at = at] \in SeedRow
                                        /\ [NotSeeded EXCEPT !.at = at].at = at
    BY DEF NotSeeded, SeedRow
  <2>2. QED BY <2>1 DEF EndSeed, StopSeeding
<1>5. seeds'[s] = row BY <1>0, <1>4 DEF Shape
<1>6. Relies(s)' BY <1>4, <1>5 DEF Relies, SeedAt
<1>7. QED BY <1>0, <1>1, <1>3, <1>4, <1>6, RunMoves DEF Shape

LEMMA AddingEvent ==
  ASSUME SeedInv, NEW s \in Seeds, AddEvent(s)
  PROVE  SeedInv'
<1>0. Shape BY DEF SeedInv
<1>1. events' = events + 1 /\ UNCHANGED <<attributes, foreign, seedsMet>> BY DEF AddEvent
<1>2. s \in SeedsWorking BY DEF AddEvent, SeedAt, SeedsWorking
<1>3. ~seedsMet => \A t \in SeedsWorking : t = s BY <1>2, OnlyRun
<1>4. ~seedsMet => events = 0 BY DEF SeedInv, Relies, AddEvent
<1>5. /\ seeds' \in [Seeds -> SeedRow] /\ seeds'[s].at = "searching"
      /\ \A t \in Seeds \ {s} : seeds'[t] = seeds[t]
  BY <1>0 DEF Shape, SeedRow, AddEvent
<1>6. Shape' BY <1>0, <1>1, <1>5 DEF Shape, SeedAt
<1>7. Alone' BY <1>1, <1>3, <1>5 DEF Alone, SeedsWorking
<1>8. ~seedsMet' => \A t \in Seeds : Relies(t)'
  <2> SUFFICES ASSUME ~seedsMet', NEW t \in Seeds PROVE Relies(t)' OBVIOUS
  <2>1. CASE t = s BY <1>5, <2>1 DEF Relies, SeedAt
  <2>2. CASE t # s
    <3>1. t \notin SeedsWorking BY <1>1, <1>3, <2>2
    <3>2. seeds'[t].at \notin {"creating", "adding"} BY <1>5, <2>2, <3>1 DEF SeedsWorking
    <3>3. QED BY <3>2 DEF Relies, SeedAt
  <2>3. QED BY <2>1, <2>2
<1>9. IntelSeedOnce' BY <1>0, <1>1, <1>4 DEF SeedInv, IntelSeedOnce, Shape
<1>10. QED BY <1>6, <1>7, <1>8, <1>9 DEF SeedInv

\* An attribute is appended to those of one indicator.
LEMMA Appending ==
  ASSUME Shape, NEW i \in Items, NEW a \in AttributeRow,
         attributes' = [attributes EXCEPT ![i] = Append(@, a)]
  PROVE  /\ attributes' \in [Items -> Seq(AttributeRow)]
         /\ Len(attributes[i]) \in Nat /\ Len(attributes'[i]) = Len(attributes[i]) + 1
         /\ \A j \in Items \ {i} : attributes'[j] = attributes[j]
<1>1. attributes[i] \in Seq(AttributeRow) BY DEF Shape
<1>2. Append(attributes[i], a) \in Seq(AttributeRow) BY <1>1
<1>3. Len(Append(attributes[i], a)) = Len(attributes[i]) + 1 /\ Len(attributes[i]) \in Nat BY <1>1
<1>4. attributes'[i] = Append(attributes[i], a) BY DEF Shape
<1>5. QED BY <1>2, <1>3, <1>4 DEF Shape

LEMMA AddingAttribute ==
  ASSUME SeedInv, NEW s \in Seeds, AddAttribute(s)
  PROVE  SeedInv'
<1> DEFINE i == ItemOf(s)
<1> DEFINE n == seeds[s].next + 1
<1>0. Shape BY DEF SeedInv
<1>1. UNCHANGED <<events, foreign, seedsMet>> BY DEF AddAttribute
<1>2. s \in SeedsWorking BY DEF AddAttribute, SeedAt, SeedsWorking
<1>3. ~seedsMet => \A t \in SeedsWorking : t = s BY <1>2, OnlyRun
<1>4. i \in Items BY <1>0 DEF Shape, AddAttribute, ItemOf, Items
<1>5. Rated(Confidence[i]) \in AttributeRow
  BY <1>4, ConfidenceAssumption DEF AttributeRow
<1>6. attributes' = [attributes EXCEPT ![i] = Append(@, Rated(Confidence[i]))]
  BY DEF AddAttribute
<1>7. ~seedsMet => Len(attributes[i]) <= foreign BY DEF SeedInv, Relies, AddAttribute
<1> HIDE DEF i
<1>8. /\ attributes' \in [Items -> Seq(AttributeRow)]
      /\ Len(attributes[i]) \in Nat /\ Len(attributes'[i]) = Len(attributes[i]) + 1
      /\ \A j \in Items \ {i} : attributes'[j] = attributes[j]
  BY <1>0, <1>4, <1>5, <1>6, Appending
<1>9. seeds' = [seeds EXCEPT ![s] = [seeds[s] EXCEPT !.at = "searching", !.next = n]]
  BY <1>0 DEF AddAttribute, Shape, SeedRow
<1>10. n \in Nat BY <1>0 DEF Shape, SeedRow
<1> HIDE DEF n
<1>11. /\ seeds' \in [Seeds -> SeedRow] /\ seeds'[s].at = "searching"
       /\ \A t \in Seeds \ {s} : seeds'[t] = seeds[t]
  BY <1>0, <1>9, <1>10 DEF Shape, SeedRow
<1>12. Shape' BY <1>0, <1>1, <1>8, <1>11 DEF Shape, SeedAt
<1>13. Alone' BY <1>1, <1>3, <1>11 DEF Alone, SeedsWorking
<1>14. ~seedsMet' => \A t \in Seeds : Relies(t)'
  <2> SUFFICES ASSUME ~seedsMet', NEW t \in Seeds PROVE Relies(t)' OBVIOUS
  <2>1. CASE t = s BY <1>11, <2>1 DEF Relies, SeedAt
  <2>2. CASE t # s
    <3>1. t \notin SeedsWorking BY <1>1, <1>3, <2>2
    <3>2. seeds'[t].at \notin {"creating", "adding"} BY <1>11, <2>2, <3>1 DEF SeedsWorking
    <3>3. QED BY <3>2 DEF Relies, SeedAt
  <2>3. QED BY <2>1, <2>2
<1>15. IntelSeedOnce'
  <2> SUFFICES ASSUME ~seedsMet'
               PROVE  events' <= 1 /\ \A j \in Items : Len(attributes'[j]) <= 1 + foreign'
    BY DEF IntelSeedOnce
  <2>1. Len(attributes'[i]) <= 1 + foreign'
    <3>1. Len(attributes[i]) <= foreign BY <1>1, <1>7
    <3>2. foreign \in Nat /\ foreign' = foreign BY <1>0, <1>1 DEF Shape
    <3>3. QED BY <1>8, <3>1, <3>2
  <2>2. QED BY <1>1, <1>8, <2>1 DEF SeedInv, IntelSeedOnce
<1>16. QED BY <1>12, <1>13, <1>14, <1>15 DEF SeedInv

LEMMA AnalystAdding ==
  ASSUME SeedInv, NEW i \in Items, NEW a \in Foreign, AnalystAdds(i, a)
  PROVE  SeedInv'
<1>0. Shape BY DEF SeedInv
<1>1. a \in AttributeRow BY DEF AttributeRow
<1>2. /\ attributes' \in [Items -> Seq(AttributeRow)]
      /\ Len(attributes[i]) \in Nat /\ Len(attributes'[i]) = Len(attributes[i]) + 1
      /\ \A j \in Items \ {i} : attributes'[j] = attributes[j]
  BY <1>0, <1>1, Appending DEF AnalystAdds
<1>3. UNCHANGED <<events, seeds, seedsMet>> /\ foreign' = foreign + 1 /\ foreign \in Nat
  BY <1>0 DEF AnalystAdds, Shape
<1>4. Shape' BY <1>0, <1>2, <1>3 DEF Shape, SeedAt
<1>5. Alone' BY <1>3 DEF SeedInv, Alone, SeedsWorking
<1>6. \A j \in Items : \A k \in Nat : Len(attributes[j]) <= k /\ k \in Nat => Len(attributes'[j]) <= k + 1
  <2>1. \A j \in Items : Len(attributes[j]) \in Nat BY <1>0 DEF Shape
  <2>2. \A j \in Items : Len(attributes'[j]) \in {Len(attributes[j]), Len(attributes[j]) + 1}
    BY <1>2
  <2>3. QED BY <2>1, <2>2
<1>7. ASSUME ~seedsMet', NEW s \in Seeds PROVE Relies(s)'
  <2>1. Relies(s) BY <1>3, <1>7 DEF SeedInv
  <2>2. CASE SeedAt(s, "adding")
    <3>1. ItemOf(s) \in Items /\ ItemOf(s)' = ItemOf(s)
      BY <1>0, <1>3, <2>2 DEF Shape, ItemOf, Items
    <3>2. Len(attributes[ItemOf(s)]) <= foreign BY <2>1, <2>2 DEF Relies
    <3>3. Len(attributes'[ItemOf(s)]) <= foreign' BY <1>3, <1>6, <3>1, <3>2
    <3>4. QED BY <1>3, <2>2, <3>1, <3>3 DEF Relies, SeedAt
  <2>3. CASE ~SeedAt(s, "adding") BY <1>3, <2>1, <2>3 DEF Relies, SeedAt
  <2>4. QED BY <2>2, <2>3
<1>8. IntelSeedOnce'
  <2> SUFFICES ASSUME ~seedsMet', NEW j \in Items
               PROVE  events' <= 1 /\ Len(attributes'[j]) <= 1 + foreign'
    BY DEF IntelSeedOnce
  <2>1. events <= 1 /\ Len(attributes[j]) <= 1 + foreign BY <1>3 DEF SeedInv, IntelSeedOnce
  <2>2. 1 + foreign \in Nat BY <1>3
  <2>3. Len(attributes'[j]) <= (1 + foreign) + 1 BY <1>6, <2>1, <2>2
  <2>4. QED BY <1>3, <2>1, <2>3
<1>9. QED BY <1>4, <1>5, <1>7, <1>8 DEF SeedInv

\* The enrichments read MISP and write their own records.
LEMMA Looking ==
  ASSUME SeedInv, UNCHANGED <<events, attributes, seeds, foreign, seedsMet>>
  PROVE  SeedInv'
BY DEF SeedInv, Shape, Alone, SeedsWorking, Relies, SeedAt, ItemOf, IntelSeedOnce

LEMMA SeedStepping ==
  ASSUME SeedInv, [IntelNext]_intelVars
  PROVE  SeedInv'
<1>1. CASE UNCHANGED intelVars BY <1>1, Looking DEF intelVars
<1>2. ASSUME NEW s \in Seeds, FindEvent(s) PROVE SeedInv' BY <1>2, FindingEvent
<1>3. ASSUME NEW s \in Seeds, AddEvent(s) PROVE SeedInv' BY <1>3, AddingEvent
<1>4. ASSUME NEW s \in Seeds, SearchAttribute(s) PROVE SeedInv' BY <1>4, Searching
<1>5. ASSUME NEW s \in Seeds, AddAttribute(s) PROVE SeedInv' BY <1>5, AddingAttribute
<1>6. ASSUME NEW s \in Seeds, EndSeed(s) \/ StopSeeding(s) PROVE SeedInv' BY <1>6, LeavingRun
<1>7. ASSUME NEW i \in Items, NEW a \in Foreign, AnalystAdds(i, a) PROVE SeedInv'
  BY <1>7, AnalystAdding
<1>8. ASSUME NEW l \in Looks,
             \/ \E a \in Alerts : BeginLook(l, a) \/ \E i \in Indicators(a.fields) : LookUp(l, i)
             \/ LookFails(l) \/ EndLook(l)
      PROVE  SeedInv'
  BY <1>8, Looking DEF BeginLook, LookUp, LookFails, EndLook, MispVars
<1>9. QED BY <1>1, <1>2, <1>3, <1>4, <1>5, <1>6, <1>7, <1>8 DEF IntelNext

\* Runs of seed_misp.py one after the other, however many, of whatever fixture and
\* wherever stopped, leave one event and one attribute of theirs for each indicator.
THEOREM SeedsOnce == IntelSpec => []IntelSeedOnce
<1>1. SeedInv => IntelSeedOnce BY DEF SeedInv
<1>2. QED BY SeedInitial, SeedStepping, <1>1, PTL DEF IntelSpec

------------------------------------------------------------------------------
(* Enrichment: intelligence only ever raises an alert's risk.                *)

LEMMA Least ==
  ASSUME NEW T \in SUBSET Nat, T # {}
  PROVE  \E x \in T : \A y \in T : x <= y
<1>1. PICK x \in T : \A y \in T : ~(<<y, x>> \in OpToRel(<, Nat))
  BY WFMin, NatLessThanWellFounded, Zenon
<1>2. \A y \in T : ~(y < x) BY <1>1 DEF OpToRel
<1>3. QED BY <1>2

LEMMA MostOf ==
  ASSUME NEW S \in SUBSET (0..100), S # {}
  PROVE  Most(S) \in S /\ Most(S) \in 0..100 /\ \A m \in S : m <= Most(S)
<1> DEFINE T == {100 - n : n \in S}
<1>1. \A n \in S : n \in 0..100 /\ 100 - n \in Nat OBVIOUS
<1>2. T \subseteq Nat BY <1>1
<1>3. T # {} OBVIOUS
<1>4. PICK x \in T : \A y \in T : x <= y BY <1>2, <1>3, Least
<1>5. PICK n \in S : x = 100 - n BY <1>4
<1>6. \A m \in S : m <= n
  <2> SUFFICES ASSUME NEW m \in S PROVE m <= n OBVIOUS
  <2>1. 100 - m \in T OBVIOUS
  <2>2. 100 - n <= 100 - m BY <1>4, <1>5, <2>1
  <2>3. QED BY <1>1, <2>2
<1>7. Most(S) \in S /\ \A m \in S : m <= Most(S) BY <1>6 DEF Most
<1>8. QED BY <1>7

LEMMA MostOfTwo ==
  ASSUME NEW m \in 0..100, NEW n \in 0..100
  PROVE  Most({m, n}) \in {m, n} /\ m <= Most({m, n}) /\ n <= Most({m, n})
<1>1. {m, n} \in SUBSET (0..100) /\ {m, n} # {} OBVIOUS
<1>2. QED BY <1>1, MostOf

LEMMA AttributeRowFields ==
  \A a \in AttributeRow : a.confidence \in Nat /\ a.is \in {"rated", "unrated", "alien"}
BY AttributesAssumption DEF AttributeRow, Rated, Unrated, Alien

Confidences(attrs) == {Clamped(attrs[j].confidence) : j \in DOMAIN attrs}

LEMMA ClampedRange == \A n \in Nat : Clamped(n) \in 0..100
BY DEF Clamped, Capped

LEMMA ConfidenceRange ==
  ASSUME NEW attrs \in Seq(AttributeRow)
  PROVE  Confidences(attrs) \subseteq 0..100
<1>1. \A j \in DOMAIN attrs : attrs[j] \in AttributeRow OBVIOUS
<1>2. \A j \in DOMAIN attrs : attrs[j].confidence \in Nat BY <1>1, AttributeRowFields
<1>3. QED BY <1>2, ClampedRange DEF Confidences

LEMMA MetadataOf ==
  ASSUME NEW attrs \in Seq(AttributeRow)
  PROVE  /\ Metadata(attrs) \in 0..100
         /\ Metadata(attrs) \in {0} \cup Confidences(attrs)
         /\ \A c \in Confidences(attrs) : c <= Metadata(attrs)
<1> DEFINE all == {0} \cup Confidences(attrs)
<1>1. Confidences(attrs) \subseteq 0..100 BY ConfidenceRange
<1>2. all \in SUBSET (0..100) /\ 0 \in all BY <1>1
<1>3. Metadata(attrs) = Most(all) BY DEF Metadata, Confidences
<1> HIDE DEF all
<1>4. Metadata(attrs) \in all /\ Metadata(attrs) \in 0..100 /\ \A c \in all : c <= Metadata(attrs)
  BY <1>2, <1>3, MostOf
<1>5. QED BY <1>4 DEF all

LEMMA MetadataRange == \A attrs \in Seq(AttributeRow) : Metadata(attrs) \in 0..100
BY MetadataOf, Zenon

\* An attribute more never lowers the confidence, wherever MISP lists it.
LEMMA MetadataGrows ==
  ASSUME NEW attrs \in Seq(AttributeRow), NEW a \in AttributeRow
  PROVE  Metadata(attrs) <= Metadata(Append(attrs, a))
<1>1. Append(attrs, a) \in Seq(AttributeRow) OBVIOUS
<1>2. Confidences(attrs) \subseteq Confidences(Append(attrs, a))
  <2>1. \A j \in DOMAIN attrs : j \in DOMAIN Append(attrs, a) /\ Append(attrs, a)[j] = attrs[j]
    OBVIOUS
  <2>2. QED BY <2>1 DEF Confidences
<1>3. Metadata(attrs) \in 0..100 /\ Metadata(Append(attrs, a)) \in 0..100
  BY <1>1, MetadataRange
<1> DEFINE before == Metadata(attrs)
<1> DEFINE after == Metadata(Append(attrs, a))
<1>4. CASE before = 0
  <2>1. after \in 0..100 BY <1>3
  <2>2. \A n \in 0..100 : 0 <= n OBVIOUS
  <2>3. QED BY <1>4, <2>1, <2>2, Zenon
<1>5. CASE Metadata(attrs) \in Confidences(attrs)
  BY <1>1, <1>2, <1>5, MetadataOf
<1>6. before \in {0} \cup Confidences(attrs) BY MetadataOf, Zenon
<1>7. QED BY <1>4, <1>5, <1>6

\* MISP forgets nothing.
MispGrows == \A i \in Items : /\ Metadata(attributes[i]) <= Metadata(attributes'[i])
                              /\ attributes[i] # <<>> => attributes'[i] # <<>>

LEMMA MispKept == ASSUME Shape, UNCHANGED attributes PROVE MispGrows
<1>1. \A i \in Items : Metadata(attributes[i]) \in 0..100 BY MetadataRange DEF Shape
<1>2. \A n \in 0..100 : n <= n OBVIOUS
<1>3. QED BY <1>1, <1>2, Zenon DEF MispGrows

LEMMA MispAppended ==
  ASSUME Shape, NEW i \in Items, NEW a \in AttributeRow,
         attributes' = [attributes EXCEPT ![i] = Append(@, a)]
  PROVE  MispGrows /\ attributes'[i] # <<>>
<1>1. attributes'[i] = Append(attributes[i], a) /\ attributes[i] \in Seq(AttributeRow)
  BY DEF Shape
<1>2. \A j \in Items \ {i} : attributes'[j] = attributes[j] BY DEF Shape
<1>3. Metadata(attributes[i]) <= Metadata(attributes'[i])
  <2> DEFINE old == attributes[i]
  <2>1. old \in Seq(AttributeRow) BY <1>1
  <2> HIDE DEF old
  <2>2. Metadata(old) <= Metadata(Append(old, a)) BY <2>1, MetadataGrows
  <2>3. attributes'[i] = Append(old, a) BY <1>1 DEF old
  <2>4. QED BY <2>2, <2>3 DEF old
<1>4. attributes'[i] # <<>>
  <2>1. Len(attributes'[i]) = Len(attributes[i]) + 1 /\ Len(attributes[i]) \in Nat BY <1>1
  <2>2. Len(attributes'[i]) # 0 BY <2>1
  <2>3. Len(<<>>) = 0 OBVIOUS
  <2>4. QED BY <2>2, <2>3, Zenon
<1>5. \A j \in Items : Metadata(attributes[j]) \in 0..100
  <2>1. \A j \in Items : attributes[j] \in Seq(AttributeRow) BY DEF Shape
  <2>2. QED BY <2>1, MetadataRange, Zenon
<1>6. \A n \in 0..100 : n <= n OBVIOUS
<1>7. \A j \in Items \ {i} : Metadata(attributes[j]) <= Metadata(attributes'[j])
  BY <1>2, <1>5, <1>6, Zenon
<1>8. \A j \in Items : Metadata(attributes[j]) <= Metadata(attributes'[j])
  BY <1>3, <1>7, Zenon
<1>9. QED BY <1>2, <1>4, <1>8, Zenon DEF MispGrows

LEMMA MispNeverShrinks == ASSUME Shape, [IntelNext]_intelVars PROVE MispGrows
<1>1. ASSUME NEW s \in Seeds, AddAttribute(s) PROVE MispGrows
  <2>1. ItemOf(s) \in Items BY <1>1 DEF Shape, AddAttribute, ItemOf, Items
  <2>2. Rated(Confidence[ItemOf(s)]) \in AttributeRow
    BY <2>1, ConfidenceAssumption DEF AttributeRow
  <2>3. QED BY <1>1, <2>1, <2>2, MispAppended DEF AddAttribute
<1>2. ASSUME NEW i \in Items, NEW a \in Foreign, AnalystAdds(i, a) PROVE MispGrows
  BY <1>2, MispAppended DEF AnalystAdds, AttributeRow
<1>3. CASE UNCHANGED attributes BY <1>3, MispKept
<1>4. QED
  BY <1>1, <1>2, <1>3
     DEF IntelNext, intelVars, MispVars, FindEvent, AddEvent, SearchAttribute, EndSeed, StopSeeding,
         BeginLook, LookUp, LookFails, EndLook

------------------------------------------------------------------------------
(* A completed seed has left something about every indicator of the fixture. *)

SeedDoes(s) ==
  /\ seeds[s].next \in 1..Len(Fixture) + 1
  /\ SeedAt(s, "creating") => seeds[s].next = 1
  /\ SeedAt(s, "searching") \/ SeedAt(s, "adding") =>
       \A n \in DOMAIN Fixture : n < seeds[s].next => attributes[Fixture[n]] # <<>>
  /\ SeedAt(s, "done") => \A i \in Items : attributes[i] # <<>>

AllSeedsDo == \A s \in Seeds : SeedDoes(s)

LEMMA FixtureItems ==
  /\ Len(Fixture) \in Nat /\ DOMAIN Fixture = 1..Len(Fixture)
  /\ \A n \in DOMAIN Fixture : Fixture[n] \in Items
BY FixtureAssumption DEF Items

LEMMA SeedsInitial == IntelInit => AllSeedsDo
<1> SUFFICES ASSUME IntelInit, NEW s \in Seeds PROVE SeedDoes(s) BY DEF AllSeedsDo
<1>1. seeds[s] = NotSeeded BY DEF IntelInit
<1>2. QED BY <1>1, FixtureItems DEF SeedDoes, SeedAt, NotSeeded

\* Another run, or one that rests, does still what it did.
LEMMA SeedStillDoes ==
  ASSUME MispGrows, NEW s \in Seeds, SeedDoes(s), seeds'[s] = seeds[s]
  PROVE  SeedDoes(s)'
BY FixtureItems DEF MispGrows, SeedDoes, SeedAt

LEMMA SeedsStepping ==
  ASSUME Shape, AllSeedsDo, [IntelNext]_intelVars
  PROVE  AllSeedsDo'
<1>0. MispGrows BY MispNeverShrinks
<1>1. ASSUME NEW s \in Seeds, NEW row \in SeedRow, seeds' = [seeds EXCEPT ![s] = row],
             SeedDoes(s)'
      PROVE  AllSeedsDo'
  <2>1. \A t \in Seeds \ {s} : seeds'[t] = seeds[t] BY <1>1 DEF Shape
  <2>2. QED BY <1>0, <1>1, <2>1, SeedStillDoes DEF AllSeedsDo
<1>2. ASSUME NEW s \in Seeds, NEW at \in {"creating", "searching", "done", "stopped"},
             seeds' = [seeds EXCEPT ![s] = [NotSeeded EXCEPT !.at = at]],
             at = "done" => \A i \in Items : attributes'[i] # <<>>
      PROVE  AllSeedsDo'
  <2> DEFINE row == [NotSeeded EXCEPT !.at = at]
  <2>1. row \in SeedRow /\ row.at = at /\ row.next = 1 BY DEF NotSeeded, SeedRow
  <2>2. seeds'[s] = row BY <1>2 DEF Shape
  <2> HIDE DEF row
  <2>3. /\ 1 \in 1..Len(Fixture) + 1 /\ \A n \in DOMAIN Fixture : ~(n < 1)
    BY FixtureItems
  <2>4. SeedDoes(s)' BY <1>2, <2>1, <2>2, <2>3 DEF SeedDoes, SeedAt
  <2>5. QED BY <1>1, <1>2, <2>1, <2>4 DEF row
<1>3. ASSUME NEW s \in Seeds, FindEvent(s) PROVE AllSeedsDo'
  BY <1>2, <1>3 DEF FindEvent
<1>4. ASSUME NEW s \in Seeds, StopSeeding(s) PROVE AllSeedsDo'
  BY <1>2, <1>4 DEF StopSeeding
<1>5. ASSUME NEW s \in Seeds, EndSeed(s) PROVE AllSeedsDo'
  <2>1. \A n \in DOMAIN Fixture : attributes[Fixture[n]] # <<>>
    BY <1>5, FixtureItems DEF EndSeed, AllSeedsDo, SeedDoes
  <2>2. \A i \in Items : attributes'[i] # <<>>
    BY <1>5, <2>1 DEF Items, EndSeed, MispVars
  <2>3. QED BY <1>2, <1>5, <2>2 DEF EndSeed
<1>6. ASSUME NEW s \in Seeds, AddEvent(s) PROVE AllSeedsDo'
  <2> DEFINE row == [seeds[s] EXCEPT !.at = "searching"]
  <2>1. row \in SeedRow /\ row.at = "searching" /\ row.next = seeds[s].next
    BY DEF Shape, SeedRow
  <2>2. seeds' = [seeds EXCEPT ![s] = row] /\ UNCHANGED attributes BY <1>6 DEF AddEvent
  <2>3. seeds'[s] = row BY <2>2 DEF Shape
  <2> HIDE DEF row
  <2>4. seeds[s].next = 1 BY <1>6 DEF AllSeedsDo, SeedDoes, AddEvent
  <2>5. SeedDoes(s)' BY <2>1, <2>3, <2>4, FixtureItems DEF SeedDoes, SeedAt
  <2>6. QED BY <1>1, <2>1, <2>2, <2>5
<1>7. ASSUME NEW s \in Seeds, SearchAttribute(s), ~Present(ItemOf(s)) PROVE AllSeedsDo'
  <2> DEFINE row == [seeds[s] EXCEPT !.at = "adding"]
  <2>1. row \in SeedRow /\ row.at = "adding" /\ row.next = seeds[s].next
    BY DEF Shape, SeedRow
  <2>2. seeds' = [seeds EXCEPT ![s] = row] /\ UNCHANGED attributes
    BY <1>7 DEF SearchAttribute, MispVars
  <2>3. seeds'[s] = row BY <2>2 DEF Shape
  <2> HIDE DEF row
  <2>4. /\ seeds[s].next \in 1..Len(Fixture) + 1
        /\ \A n \in DOMAIN Fixture : n < seeds[s].next => attributes[Fixture[n]] # <<>>
    BY <1>7 DEF AllSeedsDo, SeedDoes, SearchAttribute
  <2>5. SeedDoes(s)' BY <2>1, <2>2, <2>3, <2>4 DEF SeedDoes, SeedAt
  <2>6. QED BY <1>1, <2>1, <2>2, <2>5
\* The run has found or added an attribute of its indicator and goes on to the next.
<1>8. ASSUME NEW s \in Seeds, SeedAt(s, "searching") \/ SeedAt(s, "adding"),
             seeds[s].next \in DOMAIN Fixture, attributes'[ItemOf(s)] # <<>>,
             seeds' = [seeds EXCEPT ![s] = [seeds[s] EXCEPT !.at = "searching",
                                                            !.next = seeds[s].next + 1]]
      PROVE  AllSeedsDo'
  <2> DEFINE n == seeds[s].next + 1
  <2> DEFINE row == [seeds[s] EXCEPT !.at = "searching", !.next = n]
  <2>1. seeds[s] \in SeedRow BY DEF Shape
  <2>2. n \in Nat BY <2>1 DEF SeedRow
  <2>3. seeds' = [seeds EXCEPT ![s] = row] BY <1>8
  <2>4. n \in 1..Len(Fixture) + 1 BY <1>8, FixtureItems
  <2>5. \A m \in DOMAIN Fixture : m < n => m < seeds[s].next \/ m = seeds[s].next
    BY <1>8, FixtureItems
  <2> HIDE DEF n
  <2>6. row \in SeedRow /\ row.at = "searching" /\ row.next = n
    BY <2>1, <2>2 DEF SeedRow
  <2> HIDE DEF row
  <2>7. seeds'[s] = row BY <2>3 DEF Shape
  <2>8. \A m \in DOMAIN Fixture : m < seeds[s].next => attributes[Fixture[m]] # <<>>
    BY <1>8 DEF AllSeedsDo, SeedDoes
  <2>9. \A m \in DOMAIN Fixture : m < n => attributes'[Fixture[m]] # <<>>
    BY <1>0, <1>8, <2>5, <2>8, FixtureItems DEF MispGrows, ItemOf
  <2>10. SeedDoes(s)' BY <2>4, <2>6, <2>7, <2>9 DEF SeedDoes, SeedAt
  <2>11. QED BY <1>1, <2>3, <2>6, <2>10
<1>9. ASSUME NEW s \in Seeds, SearchAttribute(s), Present(ItemOf(s)) PROVE AllSeedsDo'
  <2>1. seeds' = [seeds EXCEPT ![s] = [seeds[s] EXCEPT !.at = "searching",
                                                      !.next = seeds[s].next + 1]]
    <3>1. seeds[s] \in SeedRow /\ seeds[s].at = "searching"
      BY <1>9 DEF Shape, SearchAttribute, SeedAt
    <3>2. [seeds[s] EXCEPT !.next = seeds[s].next + 1]
            = [seeds[s] EXCEPT !.at = "searching", !.next = seeds[s].next + 1]
      BY <3>1 DEF SeedRow
    <3>3. QED BY <1>9, <3>2 DEF SearchAttribute
  <2>2. QED BY <1>8, <1>9, <2>1 DEF SearchAttribute, Present, MispVars
<1>10. ASSUME NEW s \in Seeds, AddAttribute(s) PROVE AllSeedsDo'
  <2>1. seeds[s].next \in DOMAIN Fixture /\ ItemOf(s) \in Items
    BY <1>10, FixtureItems DEF Shape, AddAttribute, ItemOf
  <2>2. Rated(Confidence[ItemOf(s)]) \in AttributeRow
    BY <2>1, ConfidenceAssumption DEF AttributeRow
  <2>3. attributes'[ItemOf(s)] # <<>>
    BY <1>10, <2>1, <2>2, MispAppended DEF AddAttribute
  <2>4. seeds' = [seeds EXCEPT ![s] = [seeds[s] EXCEPT !.at = "searching",
                                                      !.next = seeds[s].next + 1]]
    BY <1>10 DEF AddAttribute, Shape, SeedRow
  <2>5. QED BY <1>8, <1>10, <2>1, <2>3, <2>4 DEF AddAttribute
<1>11. CASE UNCHANGED seeds BY <1>0, <1>11, SeedStillDoes DEF AllSeedsDo
<1>12. QED
  BY <1>3, <1>4, <1>5, <1>6, <1>7, <1>9, <1>10, <1>11
     DEF IntelNext, intelVars, AnalystAdds, BeginLook, LookUp, LookFails, EndLook

------------------------------------------------------------------------------
(* What an enrichment has found, MISP still has.                             *)

Values == UNION {Indicators(a.fields) : a \in Alerts}

LookRow == [at : {"idle", "looking", "scored", "failed"}, alert : Alerts \cup {NoAlert},
            todo : SUBSET Values, known : SUBSET Values, confidence : 0..100, score : 0..100,
            after : SUBSET Looks, seeded : BOOLEAN]

IndicatorsOf(l) == Indicators(looks[l].alert.fields)

\* MISP has an attribute with at least this confidence for one of these indicators.
Supports(c, S) == c = 0 \/ \E i \in S \cap Items : c <= Metadata(attributes[i])

\* What was found for the alert when it was enriched before, it has found again or is
\* still to find.
Regains(l) ==
  \A m \in looks[l].after :
    /\ looks[m].at = "scored"
    /\ looks[m].alert = looks[l].alert =>
         looks[m].confidence <= looks[l].confidence \/ Supports(looks[m].confidence, looks[l].todo)

Found(l) ==
  /\ looks[l].alert \in Alerts
  /\ looks[l].todo \subseteq IndicatorsOf(l)
  /\ Supports(looks[l].confidence, IndicatorsOf(l) \ looks[l].todo)
  /\ looks[l].seeded =>
       /\ \A i \in Items : attributes[i] # <<>>
       /\ (IndicatorsOf(l) \ looks[l].todo) \cap Items \subseteq looks[l].known
  /\ Regains(l)

ScoreOf(l) ==
  Score(looks[l].alert.level, looks[l].confidence, Cardinality(IndicatorsOf(l)))

LookInv(l) ==
  /\ looks[l].at \in {"looking", "scored"} => Found(l)
  /\ looks[l].at = "scored" => looks[l].todo = {} /\ looks[l].score = ScoreOf(l)

LooksInv == looks \in [Looks -> LookRow] /\ \A l \in Looks : LookInv(l)

\* extract_indicators finds at most one indicator per field.
LEMMA IndicatorsCounted ==
  ASSUME NEW a \in Alerts
  PROVE  Cardinality(Indicators(a.fields)) \in Nat
<1> DEFINE S == {g \in a.fields : g.typed /\ g.wellFormed}
<1> DEFINE value == [f \in S |-> f.value]
<1>1. IsFiniteSet(S)
  <2>1. IsFiniteSet(a.fields) /\ S \subseteq a.fields BY AlertsAssumption
  <2>2. QED BY <2>1, FS_Subset
<1>2. value \in Surjection(S, Indicators(a.fields))
  BY DEF Indicators, Surjection
<1>3. QED BY <1>1, <1>2, FS_Surjection, FS_CardinalityType

LEMMA NothingKnown == Metadata(<<>>) = 0
<1>1. <<>> \in Seq(AttributeRow) OBVIOUS
<1>2. Confidences(<<>>) = {} BY DEF Confidences
<1>3. QED BY <1>1, <1>2, MetadataOf, Zenon

\* A step of MISP takes no support away.
LEMMA SupportsStill ==
  ASSUME Shape, Shape', MispGrows, NEW c \in 0..100, NEW S, Supports(c, S)
  PROVE  c = 0 \/ \E i \in S \cap Items : c <= Metadata(attributes'[i])
<1>1. CASE c = 0 BY <1>1
<1>2. ASSUME NEW i \in S \cap Items, c <= Metadata(attributes[i])
      PROVE  c <= Metadata(attributes'[i])
  <2> DEFINE old == Metadata(attributes[i])
  <2> DEFINE new == Metadata(attributes'[i])
  <2>1. attributes[i] \in Seq(AttributeRow) /\ attributes'[i] \in Seq(AttributeRow) BY DEF Shape
  <2>2. old \in 0..100 /\ new \in 0..100 BY <2>1, MetadataRange, Zenon
  <2>3. old <= new /\ c <= old BY <1>2 DEF MispGrows
  <2> HIDE DEF old, new
  <2>4. c <= new BY <2>2, <2>3
  <2>5. QED BY <2>4 DEF new
<1>3. QED BY <1>1, <1>2 DEF Supports

\* An enrichment that does not step, and whose predecessors do not.
LEMMA LookStays ==
  ASSUME Shape, Shape', MispGrows, looks \in [Looks -> LookRow],
         NEW l \in Looks, LookInv(l), looks'[l] = looks[l],
         \A m \in Looks : looks[m].at = "scored" => looks'[m] = looks[m]
  PROVE  LookInv(l)'
<1>1. /\ looks[l].after \subseteq Looks
      /\ \A m \in Looks : looks[m].confidence \in 0..100
  BY DEF LookRow
<1>2. ASSUME Found(l) PROVE Found(l)'
  <2>1. Supports(looks[l].confidence, IndicatorsOf(l) \ looks[l].todo)'
    <3>1. Supports(looks[l].confidence, IndicatorsOf(l) \ looks[l].todo) BY <1>2 DEF Found
    <3>2. QED BY <1>1, <3>1, SupportsStill DEF Supports, IndicatorsOf
  <2>2. Regains(l)'
    <3> SUFFICES ASSUME NEW m \in looks[l].after
                 PROVE  /\ looks'[m].at = "scored"
                        /\ looks'[m].alert = looks'[l].alert =>
                             \/ looks'[m].confidence <= looks'[l].confidence
                             \/ Supports(looks[m].confidence, looks[l].todo)'
      BY DEF Regains
    <3>1. m \in Looks /\ looks[m].at = "scored" BY <1>1, <1>2 DEF Found, Regains
    <3>2. looks'[m] = looks[m] BY <3>1
    <3>3. ASSUME Supports(looks[m].confidence, looks[l].todo)
          PROVE  Supports(looks[m].confidence, looks[l].todo)'
      BY <1>1, <3>1, <3>2, <3>3, SupportsStill DEF Supports
    <3>4. QED BY <1>2, <3>1, <3>2, <3>3 DEF Found, Regains
  <2>3. looks[l].seeded => \A i \in Items : attributes'[i] # <<>>
    BY <1>2 DEF Found, MispGrows
  <2>4. QED BY <1>2, <2>1, <2>2, <2>3 DEF Found, IndicatorsOf
<1>3. QED BY <1>2 DEF LookInv, ScoreOf, IndicatorsOf

\* One enrichment steps.
LEMMA OneLook ==
  ASSUME Shape, UNCHANGED attributes, Shape', LooksInv, NEW l \in Looks, NEW row \in LookRow,
         looks[l].at # "scored", looks' = [looks EXCEPT ![l] = row], LookInv(l)'
  PROVE  LooksInv'
<1>1. looks' \in [Looks -> LookRow] /\ \A m \in Looks \ {l} : looks'[m] = looks[m]
  BY DEF LooksInv
<1>2. MispGrows BY MispKept
<1>3. \A m \in Looks : looks[m].at = "scored" => looks'[m] = looks[m] BY <1>1
<1>4. \A m \in Looks \ {l} : LookInv(m)' BY <1>1, <1>2, <1>3, LookStays DEF LooksInv
<1>5. QED BY <1>1, <1>4 DEF LooksInv

LEMMA NotLookedRow ==
  /\ NotLooked \in LookRow /\ NotLooked.at = "idle" /\ NotLooked.known = {}
  /\ NotLooked.confidence = 0
BY DEF NotLooked, LookRow

LEMMA LooksInitial == IntelInit => LooksInv
<1> SUFFICES ASSUME IntelInit PROVE LooksInv OBVIOUS
<1>1. \A l \in Looks : looks[l] = NotLooked BY DEF IntelInit
<1>2. \A l \in Looks : LookInv(l) BY <1>1, NotLookedRow DEF LookInv
<1>3. QED BY <1>2, NotLookedRow DEF LooksInv, IntelInit

LEMMA BeginningLook ==
  ASSUME Shape, Shape', LooksInv, AllSeedsDo, NEW l \in Looks, NEW a \in Alerts, BeginLook(l, a)
  PROVE  LooksInv'
<1> DEFINE todo == Indicators(a.fields)
<1> DEFINE after == {m \in Looks : looks[m].at = "scored"}
<1> DEFINE seeded == \E s \in Seeds : SeedAt(s, "done")
<1> DEFINE row == [NotLooked EXCEPT !.at = "looking", !.alert = a, !.todo = todo,
                                    !.after = after, !.seeded = seeded]
<1>1. looks' = [looks EXCEPT ![l] = row] /\ UNCHANGED attributes /\ looks[l].at = "idle"
  BY DEF BeginLook, MispVars
<1>2. todo \in SUBSET Values /\ after \in SUBSET Looks /\ seeded \in BOOLEAN
  BY DEF Values
<1>3. \A m \in after : m \in Looks /\ looks[m].at = "scored" /\ m # l BY <1>1
<1>4. seeded => \A i \in Items : attributes[i] # <<>> BY DEF AllSeedsDo, SeedDoes
<1>5. todo = Indicators(a.fields) OBVIOUS
<1> HIDE DEF todo, after, seeded
<1>6. /\ row \in LookRow /\ row.at = "looking" /\ row.alert = a /\ row.todo = todo
      /\ row.known = {} /\ row.confidence = 0 /\ row.after = after /\ row.seeded = seeded
  <2> DEFINE base == NotLooked
  <2>1. base \in LookRow /\ base.known = {} /\ base.confidence = 0 BY NotLookedRow
  <2> HIDE DEF base
  <2>2. row = [base EXCEPT !.at = "looking", !.alert = a, !.todo = todo,
                           !.after = after, !.seeded = seeded]
    BY DEF base
  <2> HIDE DEF row
  <2>3. row \in LookRow BY <1>2, <2>1, <2>2 DEF LookRow
  <2>4. row.at = "looking" /\ row.alert = a /\ row.todo = todo /\ row.after = after
    BY <2>1, <2>2 DEF LookRow
  <2>5. row.known = {} /\ row.confidence = 0 BY <2>1, <2>2 DEF LookRow
  <2>6. row.seeded = seeded BY <1>2, <2>1, <2>2 DEF LookRow
  <2>7. QED BY <2>3, <2>4, <2>5, <2>6
<1> HIDE DEF row
<1>7. looks'[l] = row /\ \A m \in Looks \ {l} : looks'[m] = looks[m]
  BY <1>1 DEF LooksInv
<1>8. Regains(l)'
  <2> SUFFICES ASSUME NEW m \in after, looks[m].alert = a
               PROVE  Supports(looks[m].confidence, looks[l].todo)'
    BY <1>3, <1>6, <1>7 DEF Regains
  <2>1. Found(m) /\ looks[m].todo = {} BY <1>3 DEF LooksInv, LookInv
  <2>2. Supports(looks[m].confidence, todo) BY <1>5, <2>1 DEF Found, IndicatorsOf
  <2>3. looks'[m] = looks[m] /\ looks'[l].todo = todo BY <1>3, <1>6, <1>7
  <2>4. QED BY <1>1, <2>2, <2>3 DEF Supports
<1>9. Found(l)' BY <1>1, <1>4, <1>5, <1>6, <1>7, <1>8 DEF Found, IndicatorsOf, Supports
<1>10. LookInv(l)' BY <1>6, <1>7, <1>9 DEF LookInv
<1>11. QED BY <1>1, <1>6, <1>10, OneLook

\* An indicator the fixture has, found by the lookup.
LEMMA LookingUp ==
  ASSUME Shape, Shape', LooksInv, NEW l \in Looks, NEW i, LookUp(l, i)
  PROVE  LooksInv'
<1> DEFINE attrs == IF i \in Items THEN attributes[i] ELSE <<>>
<1> DEFINE old == looks[l]
<1> DEFINE todo == old.todo \ {i}
<1> DEFINE known == IF attrs = <<>> THEN old.known ELSE old.known \cup {i}
<1> DEFINE best == Metadata(attrs)
<1> DEFINE confidence == Most({old.confidence, best})
<1> DEFINE row == [old EXCEPT !.todo = todo, !.known = known, !.confidence = confidence]
<1>0. old \in LookRow /\ LookInv(l) BY DEF LooksInv
<1>1. looks' = [looks EXCEPT ![l] = row] /\ UNCHANGED attributes
  BY <1>0 DEF LooksInv, LookUp, MispVars
<1>2. old.at = "looking" /\ i \in old.todo BY DEF LookUp
<1>3. i \in Items => attributes[i] \in Seq(AttributeRow) BY DEF Shape
<1>4. attrs \in Seq(AttributeRow)
  <2>1. <<>> \in Seq(AttributeRow) OBVIOUS
  <2>2. QED BY <1>3, <2>1
<1>5. best \in 0..100 /\ old.confidence \in 0..100
  BY <1>0, <1>4, MetadataRange, Zenon DEF LookRow
<1>6. i \notin Items => best = 0 BY NothingKnown
<1>7. i \in Items => best = Metadata(attributes[i]) /\ (attributes[i] # <<>> => i \in known)
  OBVIOUS
<1>8. todo \in SUBSET Values /\ known \in SUBSET Values /\ old.known \subseteq known
  BY <1>0, <1>2 DEF LookRow
<1>9. todo = old.todo \ {i} OBVIOUS
<1> HIDE DEF attrs, best, todo, known
<1>10. /\ confidence \in {old.confidence, best} /\ confidence \in 0..100
       /\ old.confidence <= confidence /\ best <= confidence
  BY <1>5, MostOfTwo
<1> HIDE DEF old, confidence
<1>11. /\ row \in LookRow /\ row.at = "looking" /\ row.alert = old.alert /\ row.todo = todo
       /\ row.known = known /\ row.confidence = confidence /\ row.after = old.after
       /\ row.seeded = old.seeded
  BY <1>0, <1>2, <1>8, <1>10 DEF LookRow
<1> HIDE DEF row
<1>12. looks'[l] = row /\ \A m \in Looks \ {l} : looks'[m] = looks[m]
  BY <1>1 DEF LooksInv
<1> DEFINE S == Indicators(old.alert.fields)
<1>13. /\ old.alert \in Alerts /\ old.todo \subseteq S
       /\ Supports(old.confidence, S \ old.todo)
       /\ old.seeded => /\ \A j \in Items : attributes[j] # <<>>
                        /\ (S \ old.todo) \cap Items \subseteq old.known
       /\ Regains(l)
  BY <1>0, <1>2 DEF LookInv, Found, IndicatorsOf, old
<1> HIDE DEF S
<1>14. Supports(confidence, S \ todo)
  <2>1. CASE confidence = old.confidence
    BY <1>9, <1>13, <2>1 DEF Supports
  <2>2. CASE confidence = best /\ i \in Items
    <3>1. i \in S \ todo BY <1>2, <1>9, <1>13
    <3>2. \A n \in 0..100 : n <= n OBVIOUS
    <3>3. confidence <= Metadata(attributes[i]) BY <1>7, <1>10, <2>2, <3>2, Zenon
    <3>4. QED BY <2>2, <3>1, <3>3 DEF Supports
  <2>3. CASE confidence = best /\ i \notin Items BY <1>6, <2>3 DEF Supports
  <2>4. QED BY <1>10, <2>1, <2>2, <2>3
<1>15. old.seeded => (S \ todo) \cap Items \subseteq known
  BY <1>7, <1>8, <1>9, <1>13
<1>16. Regains(l)'
  <2> SUFFICES ASSUME NEW m \in old.after
               PROVE  /\ looks'[m].at = "scored"
                      /\ looks'[m].alert = old.alert =>
                           \/ looks'[m].confidence <= confidence
                           \/ Supports(looks[m].confidence, looks[l].todo)'
    BY <1>11, <1>12 DEF Regains
  <2>1. m \in Looks /\ looks[m].at = "scored" /\ m # l
    BY <1>0, <1>2, <1>13 DEF LookRow, Regains, old
  <2>2. looks'[m] = looks[m] /\ looks'[l].todo = todo BY <1>11, <1>12, <2>1
  <2> DEFINE c == looks[m].confidence
  <2>3. c \in 0..100 BY <2>1 DEF LooksInv, LookRow
  <2>4. ASSUME looks[m].alert = old.alert
        PROVE  c <= old.confidence \/ Supports(c, old.todo)
    BY <1>13, <2>4 DEF Regains, old
  <2> SUFFICES ASSUME looks[m].alert = old.alert
               PROVE  c <= confidence \/ Supports(c, todo)
    BY <1>1, <2>1, <2>2 DEF Supports
  <2> HIDE DEF c
  <2>5. CASE c <= old.confidence BY <1>5, <1>10, <2>3, <2>5
  <2>6. CASE c = 0 BY <2>6 DEF Supports
  <2>7. ASSUME NEW j \in old.todo \cap Items, c <= Metadata(attributes[j])
        PROVE  c <= confidence \/ Supports(c, todo)
    <3>1. CASE j = i
      <4>1. c <= best BY <1>7, <2>7, <3>1
      <4>2. QED BY <1>5, <1>10, <2>3, <4>1
    <3>2. CASE j # i BY <1>9, <2>7, <3>2 DEF Supports
    <3>3. QED BY <3>1, <3>2
  <2>8. QED BY <2>4, <2>5, <2>6, <2>7 DEF Supports
<1>17. Found(l)'
  <2>1. IndicatorsOf(l)' = S BY <1>11, <1>12 DEF IndicatorsOf, S
  <2>2. Supports(looks[l].confidence, IndicatorsOf(l) \ looks[l].todo)'
    BY <1>1, <1>11, <1>12, <1>14, <2>1 DEF Supports
  <2>3. QED
    BY <1>1, <1>9, <1>11, <1>12, <1>13, <1>15, <1>16, <2>1, <2>2 DEF Found
<1>18. LookInv(l)' BY <1>11, <1>12, <1>17 DEF LookInv
<1>19. QED BY <1>1, <1>2, <1>11, <1>18, OneLook DEF old

LEMMA FailingLook ==
  ASSUME Shape, Shape', LooksInv, NEW l \in Looks, LookFails(l)
  PROVE  LooksInv'
<1> DEFINE row == [NotLooked EXCEPT !.at = "failed"]
<1>1. looks' = [looks EXCEPT ![l] = row] /\ UNCHANGED attributes /\ looks[l].at = "looking"
  BY DEF LookFails, MispVars
<1>2. row \in LookRow /\ row.at = "failed" BY NotLookedRow DEF LookRow
<1> HIDE DEF row
<1>3. LookInv(l)' BY <1>1, <1>2 DEF LooksInv, LookInv
<1>4. QED BY <1>1, <1>2, <1>3, OneLook

LEMMA EndingLook ==
  ASSUME Shape, Shape', LooksInv, NEW l \in Looks, EndLook(l)
  PROVE  LooksInv'
<1> DEFINE old == looks[l]
<1> DEFINE score == Score(old.alert.level, old.confidence, Cardinality(Indicators(old.alert.fields)))
<1> DEFINE row == [old EXCEPT !.at = "scored", !.score = score]
<1>0. old \in LookRow /\ LookInv(l) BY DEF LooksInv
<1>1. looks' = [looks EXCEPT ![l] = row] /\ UNCHANGED attributes
  BY <1>0 DEF LooksInv, EndLook, MispVars
<1>2. old.at = "looking" /\ old.todo = {} BY DEF EndLook
<1>3. Found(l) BY <1>0, <1>2 DEF LookInv
<1>4. score \in 0..100
  <2>1. old.alert \in Alerts /\ old.confidence \in 0..100
    BY <1>0, <1>3 DEF Found, LookRow
  <2>2. old.alert.level \in Nat BY <2>1, AlertsAssumption
  <2>3. Cardinality(Indicators(old.alert.fields)) \in Nat BY <2>1, IndicatorsCounted
  <2>4. QED BY <2>1, <2>2, <2>3, FactorsAddUp
<1>5. score = Score(old.alert.level, old.confidence, Cardinality(Indicators(old.alert.fields)))
  OBVIOUS
<1> HIDE DEF old, score
<1>6. /\ row \in LookRow /\ row.at = "scored" /\ row.alert = old.alert /\ row.todo = old.todo
      /\ row.known = old.known /\ row.confidence = old.confidence /\ row.after = old.after
      /\ row.seeded = old.seeded /\ row.score = score
  BY <1>0, <1>4 DEF LookRow
<1> HIDE DEF row
<1>7. looks'[l] = row /\ \A m \in Looks \ {l} : looks'[m] = looks[m]
  BY <1>1 DEF LooksInv
<1>8. \A m \in old.after : m # l BY <1>2, <1>3 DEF Found, Regains, old
<1>9. \A m \in old.after : m \in Looks BY <1>0 DEF LookRow
<1>10. Regains(l)'
  BY <1>1, <1>3, <1>6, <1>7, <1>8, <1>9 DEF Found, Regains, Supports, old
<1>11. Found(l)'
  BY <1>1, <1>3, <1>6, <1>7, <1>10 DEF Found, IndicatorsOf, Supports, old
<1>12. LookInv(l)'
  BY <1>2, <1>5, <1>6, <1>7, <1>11 DEF LookInv, ScoreOf, IndicatorsOf
<1>13. QED BY <1>1, <1>2, <1>6, <1>12, OneLook DEF old

LEMMA LooksStepping ==
  ASSUME Shape, Shape', LooksInv, AllSeedsDo, [IntelNext]_intelVars
  PROVE  LooksInv'
<1>1. ASSUME NEW l \in Looks, NEW a \in Alerts, BeginLook(l, a) PROVE LooksInv'
  BY <1>1, BeginningLook
<1>2. ASSUME NEW l \in Looks, NEW i, LookUp(l, i) PROVE LooksInv' BY <1>2, LookingUp
<1>3. ASSUME NEW l \in Looks, LookFails(l) PROVE LooksInv' BY <1>3, FailingLook
<1>4. ASSUME NEW l \in Looks, EndLook(l) PROVE LooksInv' BY <1>4, EndingLook
<1>5. CASE UNCHANGED looks
  <2>1. MispGrows BY MispNeverShrinks
  <2>2. QED BY <1>5, <2>1, LookStays DEF LooksInv
<1>6. QED
  BY <1>1, <1>2, <1>3, <1>4, <1>5
     DEF IntelNext, intelVars, FindEvent, AddEvent, SearchAttribute, AddAttribute, EndSeed,
         StopSeeding, AnalystAdds

------------------------------------------------------------------------------
(* The two together.                                                         *)

IntelInv == SeedInv /\ AllSeedsDo /\ LooksInv /\ foreign \in 0..MaxForeign

LEMMA IntelInitial == IntelInit => IntelInv
<1>1. IntelInit => foreign \in 0..MaxForeign BY ForeignAssumption DEF IntelInit
<1>2. QED BY <1>1, SeedInitial, SeedsInitial, LooksInitial DEF IntelInv

LEMMA IntelStepping == IntelInv /\ [IntelNext]_intelVars => IntelInv'
<1> SUFFICES ASSUME IntelInv, [IntelNext]_intelVars PROVE IntelInv' OBVIOUS
<1>1. SeedInv' BY SeedStepping DEF IntelInv
<1>2. Shape /\ Shape' BY <1>1 DEF IntelInv, SeedInv
<1>3. AllSeedsDo' BY <1>2, SeedsStepping DEF IntelInv
<1>4. LooksInv' BY <1>2, LooksStepping DEF IntelInv
<1>5. foreign' \in 0..MaxForeign
  <2>1. ASSUME NEW i \in Items, NEW a \in Foreign, AnalystAdds(i, a)
        PROVE  foreign' \in 0..MaxForeign
    BY <2>1, ForeignAssumption DEF IntelInv, AnalystAdds
  <2>2. CASE UNCHANGED foreign BY <2>2 DEF IntelInv
  <2>3. QED
    BY <2>1, <2>2
       DEF IntelNext, intelVars, FindEvent, AddEvent, SearchAttribute, AddAttribute, EndSeed,
           StopSeeding, BeginLook, LookUp, LookFails, EndLook
<1>6. QED BY <1>1, <1>3, <1>4, <1>5 DEF IntelInv

LEMMA IntelInvTyped == IntelInv => IntelTypeOK
<1> SUFFICES ASSUME IntelInv PROVE IntelTypeOK OBVIOUS
<1>1. ASSUME NEW i \in Items, NEW j \in DOMAIN attributes[i]
      PROVE  attributes[i][j].is \in {"rated", "unrated", "alien"}
  <2>1. attributes[i] \in Seq(AttributeRow) BY DEF IntelInv, SeedInv, Shape
  <2>2. attributes[i][j] \in AttributeRow BY <2>1
  <2>3. QED BY <2>2, AttributeRowFields
<1>2. \A s \in Seeds : /\ seeds[s].at \in {"idle", "creating", "searching", "adding", "done", "stopped"}
                       /\ seeds[s].next \in 1..Len(Fixture) + 1
  BY DEF IntelInv, SeedInv, Shape, SeedRow, AllSeedsDo, SeedDoes
<1>3. \A l \in Looks : /\ looks[l].at \in {"idle", "looking", "scored", "failed"}
                       /\ looks[l].confidence \in 0..100 /\ looks[l].score \in 0..100
  BY DEF IntelInv, LooksInv, LookRow
<1>4. QED BY <1>1, <1>2, <1>3 DEF IntelInv, SeedInv, Shape, IntelTypeOK

\* Whatever is seeded, stopped, added by analysts and looked up, in whatever order and
\* however often, every variable has its type: confidences and scores are percentages.
THEOREM IntelTyped == IntelSpec => []IntelTypeOK
BY IntelInitial, IntelStepping, IntelInvTyped, PTL DEF IntelSpec

LEMMA ScoredLookGrew ==
  ASSUME IntelInv, NEW l \in Scored, NEW m \in looks[l].after, looks[m].alert = looks[l].alert
  PROVE  looks[m].score <= looks[l].score /\ looks[m].score \in 0..100 /\ looks[l].score \in 0..100
<1> DEFINE a == looks[l].alert
<1> DEFINE n == Cardinality(Indicators(a.fields))
<1>1. l \in Looks /\ Found(l) /\ looks[l].todo = {} /\ looks[l].score = ScoreOf(l)
  BY DEF Scored, IntelInv, LooksInv, LookInv
<1>2. m \in Looks /\ looks[m].at = "scored" /\ looks[l] \in LookRow /\ looks[m] \in LookRow
  BY <1>1 DEF Found, Regains, IntelInv, LooksInv, LookRow
<1>3. looks[m].score = ScoreOf(m) BY <1>2 DEF IntelInv, LooksInv, LookInv
<1>4. looks[m].confidence <= looks[l].confidence
  <2>1. looks[m].confidence \in 0..100 /\ looks[l].confidence \in 0..100 BY <1>2 DEF LookRow
  <2>2. \/ looks[m].confidence <= looks[l].confidence
        \/ Supports(looks[m].confidence, {})
    BY <1>1 DEF Found, Regains
  <2>3. QED BY <2>1, <2>2 DEF Supports
<1>5. a \in Alerts /\ a.level \in Nat /\ n \in Nat
  BY <1>1, AlertsAssumption, IndicatorsCounted DEF Found
<1>6. /\ looks[m].score = Score(a.level, looks[m].confidence, n)
      /\ looks[l].score = Score(a.level, looks[l].confidence, n)
  BY <1>1, <1>3 DEF ScoreOf, IndicatorsOf
<1>7. looks[m].confidence \in 0..100 /\ looks[l].confidence \in 0..100 BY <1>2 DEF LookRow
<1>8. a.level <= a.level /\ n <= n BY <1>5
<1> HIDE DEF a, n
<1>9. Score(a.level, looks[m].confidence, n) <= Score(a.level, looks[l].confidence, n)
  BY <1>4, <1>5, <1>7, <1>8, ScoreIsMonotone
<1>10. QED BY <1>2, <1>6, <1>9 DEF LookRow

LEMMA IntelInvGrows == IntelInv => RiskGrowsWithIntelligence
<1> SUFFICES ASSUME IntelInv PROVE RiskGrowsWithIntelligence OBVIOUS
<1>1. ASSUME NEW l \in Scored, looks[l].seeded
      PROVE  Indicators(looks[l].alert.fields) \cap Items \subseteq looks[l].known
  BY <1>1 DEF Scored, IntelInv, LooksInv, LookInv, Found, IndicatorsOf
<1>2. ASSUME NEW l \in Scored, NEW m \in looks[l].after, looks[m].alert = looks[l].alert
      PROVE  /\ looks[m].score <= looks[l].score
             /\ Rank[Severity(looks[m].score)] <= Rank[Severity(looks[l].score)]
             /\ TheHiveSeverity(Severity(looks[m].score)) <= TheHiveSeverity(Severity(looks[l].score))
  <2>1. looks[m].score <= looks[l].score /\ looks[m].score \in 0..100 /\ looks[l].score \in 0..100
    BY <1>2, ScoredLookGrew
  <2>2. QED BY <2>1, SeverityIsMonotone
<1>3. QED BY <1>1, <1>2 DEF RiskGrowsWithIntelligence

\* An alert that is enriched again later, after any seeds, stops and attributes of
\* analysts, has no lower score, severity or case severity, and what is enriched after a
\* completed seed knows the fixture's indicators: nothing is taken from MISP, and the
\* later enrichment looks up the same indicators.
THEOREM RiskGrows == IntelSpec => []RiskGrowsWithIntelligence
BY IntelInitial, IntelStepping, IntelInvGrows, PTL DEF IntelSpec

------------------------------------------------------------------------------
(* The three beside one another.                                             *)

\* A step of one script leaves the variables of the others alone, so that what holds for
\* each script alone holds for the three.
LEMMA LabRuns == Spec => CaseSeedSpec /\ PlaybookSeedSpec /\ IntelSpec
<1>1. Init => CaseSeedInit /\ PlaybookSeedInit /\ IntelInit BY DEF Init
<1>2. [Next]_vars => [CaseSeedNext]_caseSeedVars
  <2>1. UNCHANGED vars => UNCHANGED caseSeedVars BY DEF vars
  <2>2. Next => CaseSeedNext \/ UNCHANGED caseSeedVars BY DEF Next
  <2>3. QED BY <2>1, <2>2
<1>3. [Next]_vars => [PlaybookSeedNext]_bookVars
  <2>1. UNCHANGED vars => UNCHANGED bookVars BY DEF vars
  <2>2. Next => PlaybookSeedNext \/ UNCHANGED bookVars BY DEF Next
  <2>3. QED BY <2>1, <2>2
<1>4. [Next]_vars => [IntelNext]_intelVars
  <2>1. UNCHANGED vars => UNCHANGED intelVars BY DEF vars
  <2>2. Next => IntelNext \/ UNCHANGED intelVars BY DEF Next
  <2>3. QED BY <2>1, <2>2
<1>5. QED BY <1>1, <1>2, <1>3, <1>4, PTL DEF Spec, CaseSeedSpec, PlaybookSeedSpec, IntelSpec

\* Every variable of the three scripts has its type, whatever they run beside.
THEOREM LabTyped == Spec => []LabTypeOK
<1>1. CaseSeedTypeOK /\ PlaybookSeedTypeOK /\ IntelTypeOK => LabTypeOK BY DEF LabTypeOK
<1>2. QED BY <1>1, LabRuns, CaseSeedTyped, PlaybookSeedTyped, IntelTyped, PTL
==============================================================================
