--------------------------- MODULE SpoolAdapter_proof ---------------------------
(***************************************************************************)
(* For every number of adapter processes, alerts, files, outages and kills *)
(* of SpoolAdapter: processes report the truth, and a file is removed only *)
(* after the gateway has stored its alert.                                 *)
(*                                                                         *)
(* The invariant adds to the type that a running process has an alert, and *)
(* that what a process is about to unlink is stored: the gateway forgets   *)
(* nothing, so this survives every step of the other processes.            *)
(***************************************************************************)
EXTENDS SpoolAdapter, TLAPS

Running == \A p \in Procs : ~At(p, "idle") => adapter[p].key \in Keys
UnlinksStored == \A p \in Procs : At(p, "unlink") => adapter[p].file \in accepted

Inv == TypeOK /\ Running /\ UnlinksStored /\ ResultsAreTrue

\* Every step of the gateway and of a process only adds to what is stored.
LEMMA StoredGrows ==
  ASSUME TypeOK, [Next]_vars
  PROVE  accepted \subseteq accepted'
<1>1. \A f : \A s \in Perhaps(f) : accepted \subseteq s BY DEF Perhaps
<1>2. CASE UNCHANGED vars BY <1>2 DEF vars, gateway
<1>3. ASSUME NEW p \in Procs, Run(p) PROVE accepted \subseteq accepted'
  BY <1>1, <1>3 DEF Run, FlushSent, FlushSkips, Unlink, UnlinkFails, FlushEnds, OwnDelivered,
     OwnRejected, OwnUnavailable, Spool, gateway
<1>4. ASSUME NEW p \in Procs, Kill(p) \/ \E k \in Keys : Start(p, k)
      PROVE  accepted \subseteq accepted'
  BY <1>4 DEF Kill, Start, gateway
<1>5. CASE GatewayDown \/ GatewayUp BY <1>5 DEF GatewayDown, GatewayUp
<1>6. QED BY <1>2, <1>3, <1>4, <1>5 DEF Next

LEMMA Initial == Init => Inv
BY BoundsAssumption DEF Init, Inv, TypeOK, Running, UnlinksStored, ResultsAreTrue, Idle, At,
   AdapterRecord

\* A process ends: its record is idle again, and its result must be true.
LEMMA Ending ==
  ASSUME Inv, NEW p \in Procs, ~At(p, "idle"), NEW r \in Results, Finish(p, r),
         UNCHANGED <<up, budget>>, files' \subseteq Keys, accepted' \subseteq Keys,
         files \subseteq files', accepted \subseteq accepted',
         r = "delivered" => adapter[p].key \in accepted',
         r = "spooled" => adapter[p].key \in files' \cup accepted',
         r = "rejected" => adapter[p].key \in Refused
  PROVE  Inv'
<1>1. adapter[p].key \in Keys BY DEF Inv, Running
<1>2. TypeOK'
  BY <1>1 DEF Inv, TypeOK, Finish, Idle, AdapterRecord
<1>3. Running' /\ UnlinksStored'
  BY DEF Inv, TypeOK, Running, UnlinksStored, Finish, Idle, At
<1>4. ResultsAreTrue'
  BY <1>1 DEF Inv, ResultsAreTrue, Finish
<1>5. QED BY <1>2, <1>3, <1>4 DEF Inv

LEMMA Stepping ==
  ASSUME Inv, [Next]_vars
  PROVE  Inv'
<1>0. accepted \subseteq accepted' BY StoredGrows DEF Inv
<1>1. CASE UNCHANGED vars
  BY <1>1 DEF Inv, vars, gateway, TypeOK, Running, UnlinksStored, ResultsAreTrue, At
<1>2. ASSUME NEW p \in Procs, NEW k \in Keys, Start(p, k) PROVE Inv'
  <2>1. Listed \subseteq Keys BY DEF Inv, TypeOK, Listed
  <2>2. QED BY <1>2, <2>1 DEF Inv, TypeOK, Running, UnlinksStored, ResultsAreTrue, Start, At,
               AdapterRecord, gateway
<1>3. ASSUME NEW p \in Procs, Kill(p) PROVE Inv'
  BY <1>3 DEF Inv, TypeOK, Running, UnlinksStored, ResultsAreTrue, Kill, At, Idle, AdapterRecord,
     gateway
<1>4. ASSUME NEW p \in Procs, FlushSent(p) PROVE Inv'
  BY <1>4 DEF Inv, TypeOK, Running, UnlinksStored, ResultsAreTrue, FlushSent, Try, At,
     AdapterRecord
<1>5. ASSUME NEW p \in Procs, FlushSkips(p) PROVE Inv'
  <2>1. accepted' \subseteq Keys BY <1>5 DEF FlushSkips, Perhaps, Inv, TypeOK
  <2>2. TypeOK' BY <1>5, <2>1 DEF Inv, TypeOK, FlushSkips, Try, AdapterRecord
  <2>3. Running' /\ UnlinksStored'
    BY <1>0, <1>5 DEF Inv, TypeOK, Running, UnlinksStored, FlushSkips, Try, At
  <2>4. ResultsAreTrue' BY <1>0, <1>5 DEF Inv, ResultsAreTrue, FlushSkips
  <2>5. QED BY <2>2, <2>3, <2>4 DEF Inv
<1>6. ASSUME NEW p \in Procs, Unlink(p) PROVE Inv'
  <2>1. adapter[p].file \in accepted BY <1>6 DEF Unlink, Inv, UnlinksStored
  <2>2. TypeOK' BY <1>6 DEF Inv, TypeOK, Unlink, AdapterRecord, gateway
  <2>3. Running' /\ UnlinksStored'
    BY <1>6 DEF Inv, TypeOK, Running, UnlinksStored, Unlink, At, gateway
  <2>4. ResultsAreTrue' BY <1>6, <2>1 DEF Inv, ResultsAreTrue, Unlink, gateway
  <2>5. QED BY <2>2, <2>3, <2>4 DEF Inv
<1>7. ASSUME NEW p \in Procs, UnlinkFails(p) PROVE Inv'
  BY <1>7, Ending DEF UnlinkFails, Results, gateway, At, Inv, TypeOK
<1>8. ASSUME NEW p \in Procs, FlushEnds(p) PROVE Inv'
  BY <1>8 DEF Inv, TypeOK, Running, UnlinksStored, ResultsAreTrue, FlushEnds, At, AdapterRecord,
     gateway
<1>9. ASSUME NEW p \in Procs, OwnDelivered(p) PROVE Inv'
  <2>1. adapter[p].key \in Keys BY <1>9 DEF OwnDelivered, At, Inv, Running
  <2>2. QED BY <1>9, <2>1, Ending DEF OwnDelivered, Results, At, Inv, TypeOK
<1>10. ASSUME NEW p \in Procs, OwnRejected(p) PROVE Inv'
  BY <1>10, Ending DEF OwnRejected, Results, gateway, At, Inv, TypeOK
<1>11. ASSUME NEW p \in Procs, OwnUnavailable(p) PROVE Inv'
  <2>1. adapter[p].key \in Keys BY <1>11 DEF OwnUnavailable, At, Inv, Running
  <2>2. accepted' \subseteq Keys BY <1>11, <2>1 DEF OwnUnavailable, Perhaps, Inv, TypeOK
  <2>3. TypeOK' BY <1>11, <2>2 DEF Inv, TypeOK, OwnUnavailable, At, AdapterRecord
  <2>4. Running' /\ UnlinksStored'
    BY <1>0, <1>11 DEF Inv, TypeOK, Running, UnlinksStored, OwnUnavailable, At
  <2>5. ResultsAreTrue' BY <1>0, <1>11 DEF Inv, ResultsAreTrue, OwnUnavailable
  <2>6. QED BY <2>3, <2>4, <2>5 DEF Inv
<1>12. ASSUME NEW p \in Procs, Spool(p) PROVE Inv'
  <2>1. adapter[p].key \in Keys BY <1>12 DEF Spool, At, Inv, Running
  <2>2. QED BY <1>12, <2>1, Ending DEF Spool, Results, gateway, At, Inv, TypeOK
<1>13. CASE GatewayDown \/ GatewayUp
  <2>0. budget \in [outages : Nat, kills : Nat] BY DEF Inv, TypeOK
  <2>1. budget' \in [outages : Nat, kills : Nat] /\ up' \in BOOLEAN
    <3>1. CASE GatewayDown
      <4>1. up' = FALSE BY <3>1, Zenon DEF GatewayDown
      <4>2. budget' = [budget EXCEPT !.outages = budget.outages + 1]
        BY <3>1, Zenon DEF GatewayDown
      <4>3. budget' \in [outages : Nat, kills : Nat] BY <2>0, <4>2
      <4>4. QED BY <4>1, <4>3
    <3>2. CASE GatewayUp BY <2>0, <3>2 DEF GatewayUp
    <3>3. QED BY <1>13, <3>1, <3>2
  <2>2. UNCHANGED <<files, adapter, accepted, results>>
    BY <1>13 DEF GatewayDown, GatewayUp
  <2>3. QED BY <2>1, <2>2 DEF Inv, TypeOK, Running, UnlinksStored, ResultsAreTrue, At
<1>14. QED
  BY <1>1, <1>2, <1>3, <1>4, <1>5, <1>6, <1>7, <1>8, <1>9, <1>10, <1>11, <1>12, <1>13
  DEF Next, Run

LEMMA Invariant == Spec => []Inv
BY Initial, Stepping, PTL DEF Spec

\* The state is always well typed.
THEOREM AdapterTyped == Spec => []TypeOK
BY Invariant, PTL DEF Inv

\* What a process reported stays true, however many run, fail or are killed.
THEOREM ReportsAreTrue == Spec => []ResultsAreTrue
BY Invariant, PTL DEF Inv

\* Only a stored alert leaves the directory: the one action that removes a file,
\* Unlink, comes after the gateway's answer, and the file names the same alert.
THEOREM SpoolKept == Spec => SpoolKeeps
<1>1. ASSUME Inv, [Next]_vars PROVE [files \ files' \subseteq accepted]_vars
  <2>1. ASSUME NEW p \in Procs, Unlink(p) PROVE files \ files' \subseteq accepted
    BY <1>1, <2>1 DEF Inv, UnlinksStored, Unlink
  <2>2. ASSUME NEW p \in Procs, Run(p), ~Unlink(p) PROVE files \subseteq files'
    BY <2>2 DEF Run, FlushSent, FlushSkips, UnlinkFails, FlushEnds, OwnDelivered, OwnRejected,
       OwnUnavailable, Spool
  <2>3. ASSUME NEW p \in Procs, Kill(p) \/ \E k \in Keys : Start(p, k) PROVE files \subseteq files'
    BY <2>3 DEF Kill, Start
  <2>4. CASE GatewayDown \/ GatewayUp BY <2>4 DEF GatewayDown, GatewayUp
  <2>5. QED BY <1>1, <2>1, <2>2, <2>3, <2>4 DEF Next
<1>2. QED BY <1>1, Invariant, PTL DEF Spec, SpoolKeeps
================================================================================
