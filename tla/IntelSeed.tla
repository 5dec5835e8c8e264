-------------------------------- MODULE IntelSeed --------------------------------
(***************************************************************************)
(* Local intelligence, from the script that writes it to the score that    *)
(* uses it: seed_misp.py finds or creates an event and adds the attributes *)
(* that MISP lacks; the gateway extracts an alert's indicators, looks each *)
(* up (enrichment.py, pipeline.py) and scores the alert (scoring.py).      *)
(*                                                                         *)
(* Every MISP request is a step.  Seeds may stop anywhere, be started      *)
(* again, and run at once; analysts may add attributes of their own;       *)
(* alerts are looked up all the while.                                     *)
(***************************************************************************)
EXTENDS RiskScore, Sequences, FiniteSets

CONSTANTS
  Seeds,       \* invocations of seed_misp.py
  Fixture,     \* the indicators of the fixture, in its order
  Confidence,  \* the confidence it gives each
  Foreign,     \* attributes that analysts may add to an indicator of the fixture
  Looks,       \* alerts being enriched, each once
  Alerts,      \* what they hold: a set of [level, fields]
  NoAlert,
  MaxForeign   \* bound: attributes that analysts add

Items == {Fixture[n] : n \in DOMAIN Fixture}

ASSUME FixtureAssumption == /\ Fixture \in Seq(Items)
                            /\ \A m, n \in DOMAIN Fixture : Fixture[m] = Fixture[n] => m = n
ASSUME ConfidenceAssumption == Confidence \in [Items -> Nat]
ASSUME IntelNullAssumption == NoAlert \notin Alerts
ASSUME AlertsAssumption == \A a \in Alerts : a.level \in Nat /\ IsFiniteSet(a.fields)
ASSUME ForeignAssumption == MaxForeign \in Nat

VARIABLES
  events,      \* MISP: events with the fixture's title
  attributes,  \* MISP: the attributes of each indicator, oldest first
  seeds,       \* the runs: where each stands and what it holds
  looks,       \* the enrichments: where each stands and what it has found
  foreign,     \* attributes added by analysts so far
  seedsMet     \* history: two seeds were in progress at once

intelVars == <<events, attributes, seeds, looks, foreign, seedsMet>>

\* An attribute as the gateway reads it: with the metadata of soc_lab_metadata=, without
\* any that can be read (none, no JSON, a confidence that is no number), or with JSON
\* that is not an object.
Rated(n) == [is |-> "rated", confidence |-> n]
Unrated == [is |-> "unrated", confidence |-> 0]
Alien == [is |-> "alien", confidence |-> 0]

\* A negative confidence counts as none.
ASSUME AttributesAssumption ==
  \A a \in Foreign : a.confidence \in Nat /\ a \in {Rated(a.confidence), Unrated, Alien}

NotSeeded == [at |-> "idle", next |-> 1]
NotLooked == [at |-> "idle", alert |-> NoAlert, todo |-> {}, known |-> {}, confidence |-> 0,
              score |-> 0, after |-> {}, seeded |-> FALSE]

IntelInit ==
  /\ events = 0
  /\ attributes = [i \in Items |-> <<>>]
  /\ seeds = [s \in Seeds |-> NotSeeded]
  /\ looks = [l \in Looks |-> NotLooked]
  /\ foreign = 0
  /\ seedsMet = FALSE

MispVars == <<events, attributes>>

------------------------------------------------------------------------------
(* seed_misp.py: seed().                                                     *)

SeedAt(s, stage) == seeds[s].at = stage
SeedsWorking == {s \in Seeds : seeds[s].at \notin {"idle", "done", "stopped"}}

\* Slip: the answer to the search is read in the shape of the answer to a creation.
EventMisread == FALSE

\* event_id_from_response: an event with the fixture's title, however it is wrapped.
EventFound == events > 0

\* find_event.
FindEvent(s) ==
  /\ SeedAt(s, "idle")
  /\ seeds' = [seeds EXCEPT ![s] =
       [NotSeeded EXCEPT !.at = IF EventFound THEN "searching" ELSE "creating"]]
  /\ seedsMet' = (seedsMet \/ SeedsWorking # {})
  /\ UNCHANGED <<events, attributes, looks, foreign>>

\* ensure_event, when none was found.
AddEvent(s) ==
  /\ SeedAt(s, "creating")
  /\ events' = events + 1
  /\ seeds' = [seeds EXCEPT ![s].at = "searching"]
  /\ UNCHANGED <<attributes, looks, foreign, seedsMet>>

\* attribute_exists: in any event, whoever added it and whatever it says.
Present(i) == attributes[i] # <<>>

\* The indicator that the loop has come to.
ItemOf(s) == Fixture[seeds[s].next]

SearchAttribute(s) ==
  /\ SeedAt(s, "searching") /\ seeds[s].next \in DOMAIN Fixture
  /\ seeds' = IF Present(ItemOf(s)) THEN [seeds EXCEPT ![s].next = @ + 1]
              ELSE [seeds EXCEPT ![s].at = "adding"]
  /\ UNCHANGED <<MispVars, looks, foreign, seedsMet>>

AddAttribute(s) ==
  /\ SeedAt(s, "adding")
  /\ attributes' = [attributes EXCEPT ![ItemOf(s)] =
                      Append(@, Rated(Confidence[ItemOf(s)]))]
  /\ seeds' = [seeds EXCEPT ![s].at = "searching", ![s].next = @ + 1]
  /\ UNCHANGED <<events, looks, foreign, seedsMet>>

EndSeed(s) ==
  /\ SeedAt(s, "searching") /\ seeds[s].next > Len(Fixture)
  /\ seeds' = [seeds EXCEPT ![s] = [NotSeeded EXCEPT !.at = "done"]]
  /\ UNCHANGED <<MispVars, looks, foreign, seedsMet>>

\* Killed, or a request that fails: seed_error, exit status 1.
StopSeeding(s) ==
  /\ s \in SeedsWorking
  /\ seeds' = [seeds EXCEPT ![s] = [NotSeeded EXCEPT !.at = "stopped"]]
  /\ UNCHANGED <<MispVars, looks, foreign, seedsMet>>

AnalystAdds(i, a) ==
  /\ foreign < MaxForeign
  /\ foreign' = foreign + 1
  /\ attributes' = [attributes EXCEPT ![i] = Append(@, a)]
  /\ UNCHANGED <<events, seeds, looks, seedsMet>>

------------------------------------------------------------------------------
(* enrichment.py and pipeline.py.                                            *)

\* extract_indicators: the fields of known keys that are well-formed strings, however
\* deep and however often they occur.
Indicators(fields) == {f.value : f \in {g \in fields : g.typed /\ g.wellFormed}}

Most(S) == CHOOSE n \in S : \A m \in S : m <= n

\* Slip: the confidence is taken as it is.
Unclamped(n) == n

Clamped(n) == Capped(n, 100)

\* Slip: the confidence is the last attribute's, as the reputation is.
MetadataLast(attrs) ==
  IF attrs = <<>> THEN 0 ELSE Clamped(attrs[Len(attrs)].confidence)

\* _metadata: the highest confidence wins, in whatever order MISP lists them.
Metadata(attrs) == Most({0} \cup {Clamped(attrs[j].confidence) : j \in DOMAIN attrs})

\* The worker is one task: one delivery is enriched at a time.
BeginLook(l, a) ==
  /\ looks[l].at = "idle" /\ \A m \in Looks : looks[m].at # "looking"
  /\ looks' = [looks EXCEPT ![l] =
       [NotLooked EXCEPT !.at = "looking", !.alert = a, !.todo = Indicators(a.fields),
          !.after = {m \in Looks : looks[m].at = "scored"},
          !.seeded = \E s \in Seeds : SeedAt(s, "done")]]
  /\ UNCHANGED <<MispVars, seeds, foreign, seedsMet>>

\* One indicator is looked up; no attribute means that it stays unknown.
LookUp(l, i) ==
  LET attrs == IF i \in Items THEN attributes[i] ELSE <<>> IN
  /\ looks[l].at = "looking" /\ i \in looks[l].todo
  /\ Alien \notin {attrs[j] : j \in DOMAIN attrs}
  /\ looks' = [looks EXCEPT ![l].todo = @ \ {i},
       ![l].known = IF attrs = <<>> THEN @ ELSE @ \cup {i},
       ![l].confidence = Most({@, Metadata(attrs)})]
  /\ UNCHANGED <<MispVars, seeds, foreign, seedsMet>>

\* A failed request, or metadata that is JSON but no object (AttributeError is not
\* caught): the attempt fails and the worker retries the delivery.
LookFails(l) ==
  /\ looks[l].at = "looking" /\ looks[l].todo # {}
  /\ looks' = [looks EXCEPT ![l] = [NotLooked EXCEPT !.at = "failed"]]
  /\ UNCHANGED <<MispVars, seeds, foreign, seedsMet>>

EndLook(l) ==
  LET a == looks[l].alert IN
  /\ looks[l].at = "looking" /\ looks[l].todo = {}
  /\ looks' = [looks EXCEPT ![l].at = "scored", ![l].score =
       Score(a.level, looks[l].confidence, Cardinality(Indicators(a.fields)))]
  /\ UNCHANGED <<MispVars, seeds, foreign, seedsMet>>

IntelNext ==
  \/ \E s \in Seeds :
       \/ FindEvent(s) \/ AddEvent(s) \/ SearchAttribute(s) \/ AddAttribute(s)
       \/ EndSeed(s) \/ StopSeeding(s)
  \/ \E i \in Items, a \in Foreign : AnalystAdds(i, a)
  \/ \E l \in Looks :
       \/ \E a \in Alerts : BeginLook(l, a) \/ \E i \in Indicators(a.fields) : LookUp(l, i)
       \/ LookFails(l) \/ EndLook(l)

IntelSpec == IntelInit /\ [][IntelNext]_intelVars

------------------------------------------------------------------------------
(* Properties.                                                               *)

IntelTypeOK ==
  /\ events \in Nat
  /\ \A i \in Items : \A j \in DOMAIN attributes[i] :
       attributes[i][j].is \in {"rated", "unrated", "alien"}
  /\ \A s \in Seeds : /\ seeds[s].at \in {"idle", "creating", "searching", "adding",
                                          "done", "stopped"}
                      /\ seeds[s].next \in 1..Len(Fixture) + 1
  /\ \A l \in Looks : /\ looks[l].at \in {"idle", "looking", "scored", "failed"}
                      /\ looks[l].confidence \in 0..100 /\ looks[l].score \in 0..100
  /\ foreign \in 0..MaxForeign
  /\ seedsMet \in BOOLEAN

\* Seeds one after the other, wherever they were stopped, leave one event and one
\* attribute of theirs for each indicator.
IntelSeedOnce ==
  ~seedsMet => /\ events <= 1
               /\ \A i \in Items : Len(attributes[i]) <= 1 + foreign

Scored == {l \in Looks : looks[l].at = "scored"}
Rank == [low |-> 0, medium |-> 1, high |-> 2, critical |-> 3]

\* Intelligence only ever raises an alert's risk, and a completed seed is seen: what is
\* looked up after one is known, and an alert that is scored again later, after seeds,
\* stops and analysts' attributes, has no lower score, severity or case severity.
RiskGrowsWithIntelligence ==
  /\ \A l \in Scored : looks[l].seeded =>
       Indicators(looks[l].alert.fields) \cap Items \subseteq looks[l].known
  /\ \A l \in Scored : \A m \in looks[l].after :
       looks[m].alert = looks[l].alert =>
         LET before == Severity(looks[m].score)
             now == Severity(looks[l].score)
         IN /\ looks[m].score <= looks[l].score
            /\ Rank[before] <= Rank[now]
            /\ TheHiveSeverity(before) <= TheHiveSeverity(now)
==============================================================================
