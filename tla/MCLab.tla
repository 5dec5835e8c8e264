--------------------------------- MODULE MCLab ---------------------------------
(***************************************************************************)
(* Instances of CaseSeed, PlaybookSeed and IntelSeed for TLC.  The scripts *)
(* write to different services and share no variable: one of them works    *)
(* while the other two rest.                                               *)
(*                                                                         *)
(* The alert has two indicators of the fixture, one of which occurs twice, *)
(* one that MISP does not know, and two fields that are no indicators.     *)
(* Attributes of analysts: without metadata, with a confidence between the *)
(* fixture's, and with JSON that is not an object; above 100 is clamped.   *)
(***************************************************************************)
EXTENDS CaseSeed, PlaybookSeed, IntelSeed, TLC

MCFixture == <<"ip", "domain">>
MCConfidence == [i \in Items |-> IF i = "ip" THEN 130 ELSE 45]
MCForeign == {Unrated, Rated(60), Alien}

Field(value, typed, wellFormed) ==
  [value |-> value, typed |-> typed, wellFormed |-> wellFormed, key |-> "srcip"]

MCAlerts == {[level |-> 9, fields |->
  {Field("ip", TRUE, TRUE), [Field("ip", TRUE, TRUE) EXCEPT !.key = "ip"],
   Field("domain", TRUE, TRUE), Field("unseen", TRUE, TRUE),
   Field("user", FALSE, TRUE), Field("malformed", TRUE, FALSE)}]}

vars == <<caseSeedVars, bookVars, intelVars>>

Init == CaseSeedInit /\ PlaybookSeedInit /\ IntelInit

CaseSeedRests == deletions = 0 /\ \A r \in CaseRuns : At(r, "idle")
PlaybookSeedRests == \A r \in BookRuns : Stage(r) = "idle"
IntelRests == /\ foreign = 0
              /\ \A s \in Seeds : SeedAt(s, "idle")
              /\ \A l \in Looks : looks[l].at = "idle"

Next ==
  \/ /\ PlaybookSeedRests /\ IntelRests
     /\ CaseSeedNext /\ UNCHANGED <<bookVars, intelVars>>
  \/ /\ CaseSeedRests /\ IntelRests
     /\ PlaybookSeedNext /\ UNCHANGED <<caseSeedVars, intelVars>>
  \/ /\ CaseSeedRests /\ PlaybookSeedRests
     /\ IntelNext /\ UNCHANGED <<caseSeedVars, bookVars>>

Spec == Init /\ [][Next]_vars

LabTypeOK == CaseSeedTypeOK /\ PlaybookSeedTypeOK /\ IntelTypeOK

\* The three share model values, so that few permutations serve them all: CaseRuns are
\* BookRuns, and Observables are Playbooks, Seeds and Looks.
Symmetry == Permutations(CaseRuns) \cup Permutations(Observables)
==============================================================================
