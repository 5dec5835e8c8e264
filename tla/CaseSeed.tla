-------------------------------- MODULE CaseSeed --------------------------------
(***************************************************************************)
(* seed_case.py: find or create one case in TheHive, add the observables,  *)
(* tasks and comment of the fixture that it lacks, and write a state file  *)
(* that the next run starts from.                                          *)
(*                                                                         *)
(* Every HTTP request is a step.  A run may be killed, or stopped by an    *)
(* exception, before or after each of them, and be started again; two      *)
(* operators may start it at once, and analysts work on the case meanwhile.*)
(***************************************************************************)
EXTENDS Naturals, FiniteSets

CONSTANTS
  CaseRuns,            \* invocations of the script
  Cases,               \* identifiers TheHive may assign
  Observables, Tasks,  \* what the fixture lists
  NoCase,
  MaxDeletions         \* bound: cases that analysts delete

ASSUME CaseNullAssumption == Cases \cap {NoCase, "absent", "torn"} = {}
ASSUME ChildrenAssumption == /\ Observables \cap Tasks = {}
                             /\ IsFiniteSet(Observables) /\ IsFiniteSet(Tasks)
ASSUME DeletionsAssumption == MaxDeletions \in Nat

VARIABLES
  cases,      \* TheHive: the cases with the fixture's title
  stateFile,  \* the case it names, "absent" or "torn"
  caseRuns,   \* the runs: where each stands and what it holds
  deletions,
  overlapped  \* history: two runs were in progress at once

caseSeedVars == <<cases, stateFile, caseRuns, deletions, overlapped>>

Children == Observables \cup Tasks

NoSuchCase == [there |-> FALSE, has |-> [x \in Children |-> 0], comments |-> 0]
NotRun == [at |-> "idle", case |-> NoCase, left |-> {}, commented |-> FALSE]

CaseSeedInit ==
  /\ cases = [k \in Cases |-> NoSuchCase]
  /\ stateFile = "absent"
  /\ caseRuns = [r \in CaseRuns |-> NotRun]
  /\ deletions = 0
  /\ overlapped = FALSE

There(k) == cases[k].there
Working == {r \in CaseRuns : caseRuns[r].at \notin {"idle", "done", "stopped"}}

------------------------------------------------------------------------------
(* seed(), one request after the other.                                      *)

At(r, stage) == caseRuns[r].at = stage
Held(r) == caseRuns[r].case
GoTo(r, stage) == caseRuns' = [caseRuns EXCEPT ![r].at = stage]

\* A request about the case that the run holds.
OnCase(r, stage) == At(r, stage) /\ There(Held(r))

\* The state file is read.  A case it names is fetched; one deleted since is answered
\* with an error that ends the run, and so does a file that cannot be parsed.
BeginSeed(r) ==
  /\ At(r, "idle")
  /\ caseRuns' = [caseRuns EXCEPT ![r] =
       IF stateFile = "absent" THEN [NotRun EXCEPT !.at = "finding"]
       ELSE IF stateFile \in Cases /\ There(stateFile)
         THEN [NotRun EXCEPT !.at = "observables", !.case = stateFile, !.commented = TRUE]
         ELSE [NotRun EXCEPT !.at = "stopped"]]
  /\ overlapped' = (overlapped \/ Working # {})
  /\ UNCHANGED <<cases, stateFile, deletions>>

\* find_case: the first case with the title, in the order of TheHive's answer.
FindCaseToSeed(r) ==
  /\ At(r, "finding")
  /\ \/ \E k \in Cases :
          /\ There(k)
          /\ caseRuns' = [caseRuns EXCEPT ![r].at = "observables", ![r].case = k]
     \/ (\A k \in Cases : ~There(k)) /\ GoTo(r, "creating")
  /\ UNCHANGED <<cases, stateFile, deletions, overlapped>>

CreateCaseToSeed(r, k) ==
  /\ At(r, "creating")
  /\ cases[k] = NoSuchCase
  /\ cases' = [cases EXCEPT ![k].there = TRUE]
  /\ caseRuns' = [caseRuns EXCEPT ![r].at = "observables", ![r].case = k]
  /\ UNCHANGED <<stateFile, deletions, overlapped>>

\* Slip: whatever the case has, it is taken to have it all once it has one.
LacksUnlessAny(k, wanted) ==
  IF \E x \in wanted : cases[k].has[x] > 0 THEN {} ELSE wanted

\* Slip: everything is added, whatever the case has.
LacksUnasked(k, wanted) == wanted

Lacks(k, wanted) == {x \in wanted : cases[k].has[x] = 0}

\* The case is asked for its observables, later for its tasks: what it lacks is added
\* one by one, whatever other runs add in the meantime.
ListChildren(r, stage, wanted, next) ==
  /\ OnCase(r, stage)
  /\ caseRuns' = [caseRuns EXCEPT ![r].at = next, ![r].left = Lacks(Held(r), wanted)]
  /\ UNCHANGED <<cases, stateFile, deletions, overlapped>>

AddChild(r, stage, x) ==
  /\ OnCase(r, stage) /\ x \in caseRuns[r].left
  /\ cases' = [cases EXCEPT ![Held(r)].has[x] = @ + 1]
  /\ caseRuns' = [caseRuns EXCEPT ![r].left = @ \ {x}]
  /\ UNCHANGED <<stateFile, deletions, overlapped>>

ListObservables(r) == ListChildren(r, "observables", Observables, "observing")

\* The loop over the observables has ended.
ListTasks(r) ==
  /\ caseRuns[r].left = {}
  /\ ListChildren(r, "observing", Tasks, "tasking")

\* The case is commented unless the state file says that it has been, which only a
\* run that got this far wrote.  (PATCH to InProgress follows; no property needs it.)
CommentSeeded(r) ==
  /\ OnCase(r, "tasking") /\ caseRuns[r].left = {}
  /\ cases' = IF caseRuns[r].commented THEN cases
              ELSE [cases EXCEPT ![Held(r)].comments = @ + 1]
  /\ GoTo(r, "patching")
  /\ UNCHANGED <<stateFile, deletions, overlapped>>

\* The PATCH request, and the state file opened for writing, which empties it.
PatchCase(r) ==
  /\ OnCase(r, "patching")
  /\ stateFile' = "torn"
  /\ GoTo(r, "writing")
  /\ UNCHANGED <<cases, deletions, overlapped>>

WriteState(r) ==
  /\ At(r, "writing")
  /\ stateFile' = Held(r)
  /\ GoTo(r, "done")
  /\ UNCHANGED <<cases, deletions, overlapped>>

\* Killed, or an exception: a request that fails, a case that is gone, a full disk.
StopSeed(r) ==
  /\ r \in Working
  /\ GoTo(r, "stopped")
  /\ UNCHANGED <<cases, stateFile, deletions, overlapped>>

AnalystDeletes(k) ==
  /\ deletions < MaxDeletions /\ There(k)
  /\ cases' = [cases EXCEPT ![k].there = FALSE]
  /\ deletions' = deletions + 1
  /\ UNCHANGED <<stateFile, caseRuns, overlapped>>

SeedStep(r) ==
  \/ BeginSeed(r) \/ FindCaseToSeed(r)
  \/ \E k \in Cases : CreateCaseToSeed(r, k)
  \/ ListObservables(r) \/ ListTasks(r)
  \/ \E x \in Observables : AddChild(r, "observing", x)
  \/ \E x \in Tasks : AddChild(r, "tasking", x)
  \/ CommentSeeded(r) \/ PatchCase(r) \/ WriteState(r) \/ StopSeed(r)

CaseSeedNext == (\E r \in CaseRuns : SeedStep(r)) \/ \E k \in Cases : AnalystDeletes(k)

CaseSeedSpec == CaseSeedInit /\ [][CaseSeedNext]_caseSeedVars

------------------------------------------------------------------------------
(* Properties.                                                               *)

CaseRow == [there : BOOLEAN, has : [Children -> Nat], comments : Nat]
Stages == {"idle", "finding", "creating", "observables", "observing", "tasking",
           "patching", "writing", "done", "stopped"}
RunRow == [at : Stages, case : Cases \cup {NoCase}, left : SUBSET Children,
           commented : BOOLEAN]

CaseSeedTypeOK ==
  /\ cases \in [Cases -> CaseRow]
  /\ stateFile \in Cases \cup {"absent", "torn"}
  /\ caseRuns \in [CaseRuns -> RunRow]
  /\ deletions \in Nat
  /\ overlapped \in BOOLEAN

\* The seed is idempotent for runs one after the other, wherever they were stopped:
\* one case, one of each observable and task; only the comment may be made again, by a
\* run that follows a stopped one.  (Runs at once may double anything.)
CaseSeedOnce ==
  ~overlapped =>
    /\ \A j, k \in Cases : There(j) /\ There(k) => j = k
    /\ \A k \in Cases :
         /\ \A x \in Children : cases[k].has[x] <= 1
         /\ cases[k].comments <= 1 + Cardinality({r \in CaseRuns : At(r, "stopped")})

\* The state file can be trusted whoever ran at once and was stopped where: the case it
\* names has everything the fixture lists.  The next run trusts it for the comment.
Whole(k) == cases[k].comments > 0 /\ \A x \in Children : cases[k].has[x] > 0

SeededCaseIsWhole == stateFile \in Cases => Whole(stateFile)
==============================================================================
