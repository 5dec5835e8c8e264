------------------------------ MODULE PlaybookSeed ------------------------------
(***************************************************************************)
(* seed_workflows.py: create or update one Shuffle workflow for each       *)
(* playbook, found by its name in a list fetched once, start its webhook,  *)
(* and write the state file that says which workflow is which.             *)
(*                                                                         *)
(* The identifiers of a workflow's webhook and nodes are derived from the  *)
(* playbook's key alone (node_id), so that a second workflow of the name   *)
(* has the same webhook.  Every HTTP request is a step; a run may stop     *)
(* anywhere and be started again; two may run at once.                     *)
(***************************************************************************)
EXTENDS Naturals, FiniteSets

CONSTANTS
  BookRuns,     \* invocations of the script
  Playbooks,    \* the keys of the specifications
  WorkflowIds,  \* identifiers Shuffle may assign
  NoWorkflow, NoPlaybook

ASSUME WorkflowNullAssumption == NoWorkflow \notin WorkflowIds /\ NoPlaybook \notin Playbooks

VARIABLES
  workflows,   \* Shuffle: the playbook whose name a workflow has
  webhooks,    \* Shuffle: the workflow that a playbook's webhook starts
  bookState,   \* the state file: absent, torn or written, and the workflows it names
  bookRuns,    \* the runs: where each stands and what it holds
  overlapping  \* history: two runs were in progress at once

bookVars == <<workflows, webhooks, bookState, bookRuns, overlapping>>

NothingFound == [b \in Playbooks |-> NoWorkflow]
NotSeeding == [at |-> "idle", seen |-> {}, todo |-> {}, book |-> NoPlaybook,
               workflow |-> NoWorkflow, found |-> NothingFound]

PlaybookSeedInit ==
  /\ workflows = [w \in WorkflowIds |-> NoPlaybook]
  /\ webhooks = NothingFound
  /\ bookState = [is |-> "absent", names |-> NothingFound]
  /\ bookRuns = [r \in BookRuns |-> NotSeeding]
  /\ overlapping = FALSE

Existing == {w \in WorkflowIds : workflows[w] # NoPlaybook}
Seeding == {r \in BookRuns : bookRuns[r].at \notin {"idle", "done", "stopped"}}

------------------------------------------------------------------------------
(* main(), one request after the other.                                      *)

Stage(r) == bookRuns[r].at

\* find_named, in a list fetched earlier: the first of the name in Shuffle's order.
Named(r, b) == {w \in bookRuns[r].seen : workflows[w] = b}

\* The app is there and activated, and the workflows are listed.
ListBooksToSeed(r) ==
  /\ Stage(r) = "idle"
  /\ bookRuns' = [bookRuns EXCEPT ![r] =
       [NotSeeding EXCEPT !.at = "next", !.seen = Existing, !.todo = Playbooks]]
  /\ overlapping' = (overlapping \/ Seeding # {})
  /\ UNCHANGED <<workflows, webhooks, bookState>>

\* The next specification, whose workflow was not in the list: it is created.
CreateWorkflow(r, b, w) ==
  /\ Stage(r) = "next" /\ b \in bookRuns[r].todo /\ Named(r, b) = {}
  /\ workflows[w] = NoPlaybook
  /\ workflows' = [workflows EXCEPT ![w] = b]
  /\ bookRuns' = [bookRuns EXCEPT ![r].at = "created", ![r].book = b]
  /\ UNCHANGED <<webhooks, bookState, overlapping>>

\* The workflows are listed again; whichever of the name comes first is taken.
FindCreated(r, w) ==
  /\ Stage(r) = "created"
  /\ w \in Existing /\ workflows[w] = bookRuns[r].book
  /\ bookRuns' = [bookRuns EXCEPT ![r].at = "starting", ![r].seen = Existing,
                                  ![r].workflow = w]
  /\ UNCHANGED <<workflows, webhooks, bookState, overlapping>>

\* Its workflow was in the list: it is replaced by the payload built from the
\* specification, which has the name and webhook it had.
UpdateWorkflow(r, b, w) ==
  /\ Stage(r) = "next" /\ b \in bookRuns[r].todo
  /\ w \in Named(r, b)
  /\ bookRuns' = [bookRuns EXCEPT ![r].at = "starting", ![r].book = b, ![r].workflow = w]
  /\ UNCHANGED <<workflows, webhooks, bookState, overlapping>>

\* The workflow is fetched and its webhook started.  For a webhook that exists Shuffle
\* may keep what it starts, answering so, or start the workflow named.
StartHook(r) ==
  LET b == bookRuns[r].book
      w == bookRuns[r].workflow
  IN /\ Stage(r) = "starting"
     /\ \/ webhooks' = [webhooks EXCEPT ![b] = w]
        \/ webhooks[b] # NoWorkflow /\ UNCHANGED webhooks
     /\ bookRuns' = [bookRuns EXCEPT ![r] =
          [NotSeeding EXCEPT !.at = "next", !.seen = bookRuns[r].seen,
             !.todo = bookRuns[r].todo \ {b}, !.found = [bookRuns[r].found EXCEPT ![b] = w]]]
     /\ UNCHANGED <<workflows, bookState, overlapping>>

\* Slip: the state file is written after each playbook.
ReadyToWriteEarly(r) == Stage(r) = "next"

ReadyToWrite(r) == Stage(r) = "next" /\ bookRuns[r].todo = {}

\* Every playbook is done: the state file is opened, which empties it, then written.
OpenBookState(r) ==
  /\ ReadyToWrite(r)
  /\ bookState' = [is |-> "torn", names |-> NothingFound]
  /\ bookRuns' = [bookRuns EXCEPT ![r].at = "writing"]
  /\ UNCHANGED <<workflows, webhooks, overlapping>>

WriteBookState(r) ==
  /\ Stage(r) = "writing"
  /\ bookState' = [is |-> "written", names |-> bookRuns[r].found]
  /\ bookRuns' = [bookRuns EXCEPT ![r] = [NotSeeding EXCEPT !.at = "done"]]
  /\ UNCHANGED <<workflows, webhooks, overlapping>>

\* Killed, or an exception: a request that fails, an app that is not activated, a
\* workflow not in the list after its creation, a webhook that cannot be started.
StopBookRun(r) ==
  /\ r \in Seeding
  /\ bookRuns' = [bookRuns EXCEPT ![r] = [NotSeeding EXCEPT !.at = "stopped"]]
  /\ UNCHANGED <<workflows, webhooks, bookState, overlapping>>

PlaybookStep(r) ==
  \/ ListBooksToSeed(r)
  \/ \E b \in Playbooks, w \in WorkflowIds : CreateWorkflow(r, b, w) \/ UpdateWorkflow(r, b, w)
  \/ \E w \in WorkflowIds : FindCreated(r, w)
  \/ StartHook(r) \/ OpenBookState(r) \/ WriteBookState(r) \/ StopBookRun(r)

PlaybookSeedNext == \E r \in BookRuns : PlaybookStep(r)

PlaybookSeedSpec == PlaybookSeedInit /\ [][PlaybookSeedNext]_bookVars

------------------------------------------------------------------------------
(* Properties.                                                               *)

BookRunRow == [at : {"idle", "next", "created", "starting", "writing", "done", "stopped"},
               seen : SUBSET WorkflowIds, todo : SUBSET Playbooks,
               book : Playbooks \cup {NoPlaybook}, workflow : WorkflowIds \cup {NoWorkflow},
               found : [Playbooks -> WorkflowIds \cup {NoWorkflow}]]

PlaybookSeedTypeOK ==
  /\ workflows \in [WorkflowIds -> Playbooks \cup {NoPlaybook}]
  /\ webhooks \in [Playbooks -> WorkflowIds \cup {NoWorkflow}]
  /\ bookState \in [is : {"absent", "torn", "written"},
                    names : [Playbooks -> WorkflowIds \cup {NoWorkflow}]]
  /\ bookRuns \in [BookRuns -> BookRunRow]
  /\ overlapping \in BOOLEAN

\* Runs one after the other, wherever they were stopped, create no second workflow of
\* a name, and a webhook starts the workflow in which the operator is told to look for
\* its executions.  (Runs at once may create two, and the file name the other.)
HookRunsTheBook ==
  ~overlapping =>
    /\ \A v, w \in Existing : workflows[v] = workflows[w] => v = w
    /\ bookState.is = "written" =>
         \A b \in Playbooks : /\ bookState.names[b] \in Existing
                             /\ workflows[bookState.names[b]] = b
                             /\ webhooks[b] = bookState.names[b]
==============================================================================
