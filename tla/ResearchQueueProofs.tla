---- MODULE ResearchQueueProofs ----
(***************************************************************************)
(* Safety of the research queue for every set of invocations and topics    *)
(* and every combination of crashes, deadlines, store failures, repeated   *)
(* calls and withdrawals.                                                  *)
(***************************************************************************)
EXTENDS ResearchQueue, FiniteSetTheorems, TLAPS

-----------------------------------------------------------------------------
(* Type correctness. *)

LEMMA Outcomes ==
    ASSUME NEW v
    PROVE  /\ RunOutcome(v) \in Terminal
           /\ \/ ExecOutcome(v) = RunOutcome(v)
              \/ ExecOutcome(v) = "retry" /\ RunOutcome(v) = "failed"
           /\ ExecOutcome(v) = "retry" => ItemOutcome(v) = "queued"
           /\ ExecOutcome(v) # "retry" =>
                ItemOutcome(v) = IF RunOutcome(v) = "cancelled" THEN "cancelled" ELSE "dispatched"
           /\ RunOutcome(v) = "completed" <=> v = "success"
           /\ ExecOutcome(v) = "completed" <=> v = "success"
<1>1. RunOutcome(v) = IF v = "success" THEN "completed"
                      ELSE IF v = "cancelled" THEN "cancelled" ELSE "failed"
  BY DEF RunOutcome
<1>2. ItemOutcome(v) = IF v = "transient" THEN "queued"
                       ELSE IF v = "cancelled" THEN "cancelled" ELSE "dispatched"
  BY DEF ItemOutcome
<1>3. ExecOutcome(v) = IF v = "transient" THEN "retry" ELSE RunOutcome(v)
  BY DEF ExecOutcome
<1> QED BY <1>1, <1>2, <1>3 DEF Terminal

LEMMA OutcomeTypes ==
    ASSUME NEW v
    PROVE  /\ RunOutcome(v) \in Terminal
           /\ ExecOutcome(v) \in Terminal \union {"retry"}
           /\ ItemOutcome(v) \in ItemStatus
  BY DEF RunOutcome, ExecOutcome, ItemOutcome, Terminal, ItemStatus

\* What a claim, a settlement, an insertion and a withdrawal write is a row,
\* and what a transition writes is a run.
LEMMA NoRowType == NoRow \in Row
  BY DEF NoRow, Row, OrNoId, ItemStatus, ExecStatus

LEMMA RowTypes ==
    ASSUME NEW row \in Row, NEW p \in Invocations, NEW v
    PROVE  /\ Claimed(row, p) \in Row
           /\ Settled(row, p, v) \in Row
           /\ [NoRow EXCEPT !.status = "queued"] \in Row
           /\ \A status \in ItemStatus : [row EXCEPT !.status = status] \in Row
<1>1. "queued" \in ItemStatus /\ "absent" \in ItemStatus
  BY DEF ItemStatus
<1>2. "pending" \in ExecStatus /\ "claimed" \in ExecStatus
  BY DEF ExecStatus
<1>3. NoId \in OrNoId /\ p \in OrNoId
  BY DEF OrNoId
<1>4. row.attempts + 1 \in Nat
  BY DEF Row
<1>5. ExecOutcome(v) \in ExecStatus /\ ItemOutcome(v) \in ItemStatus
  BY OutcomeTypes DEF ExecStatus
<1>6. Claimed(row, p) \in Row
  BY <1>2, <1>3, <1>4 DEF Claimed, Row
<1>7. Settled(row, p, v) \in Row
  BY <1>3, <1>5 DEF Settled, Row
<1>8. [NoRow EXCEPT !.status = "queued"] \in Row
  BY <1>1, <1>2, <1>3 DEF NoRow, Row
<1>9. \A status \in ItemStatus : [row EXCEPT !.status = status] \in Row
  BY DEF Row
<1> QED BY <1>6, <1>7, <1>8, <1>9

LEMMA RunTypes ==
    ASSUME NEW run \in Run
    PROVE  \A status \in RunStatus : [run EXCEPT !.status = status] \in Run
  BY DEF Run

LEMMA NewRunTypes ==
    ASSUME NEW i \in OrNoId
    PROVE  /\ [status |-> "planned", request |-> i] \in Run
           /\ [status |-> "absent", request |-> i] \in Run
  BY DEF Run, RunStatus

\* From Start on, a process has the queue item it works for.
Started == {"start", "insertRequest", "insertRun", "insertFirstRun", "audit", "classify"}
           \union Orchestrating \union Consuming

HasItem == \A p \in Invocations :
    pc[p] \in Started \/ runs[p].status # "absent" => item[p] \in Invocations

TypeInv == TypeOK /\ HasItem

LEMMA TypeInit == Init => TypeInv
<1> SUFFICES ASSUME Init PROVE TypeInv
  OBVIOUS
<1>1. NoRow \in Row /\ queue \in [Invocations -> Row]
  BY NoRowType DEF Init
<1>2. runs \in [Invocations -> Run]
  <2>1. NoId \in OrNoId
    BY DEF OrNoId
  <2>2. [status |-> "absent", request |-> NoId] \in Run
    BY <2>1, NewRunTypes
  <2> QED BY <2>2 DEF Init
<1>3. HasItem
  BY DEF Init, HasItem, Started, Preparing, Orchestrating, Consuming
<1> QED
  BY <1>1, <1>2, <1>3 DEF Init, TypeInv, TypeOK, OrNoId, Steps, Preparing, Verdicts

LEMMA TypeStep == TypeInv /\ [Next]_vars => TypeInv'
<1> SUFFICES ASSUME TypeInv, [Next]_vars PROVE TypeInv'
  OBVIOUS
<1> USE DEF TypeInv, TypeOK, HasItem, Goto, durable, local, Steps, Started, Preparing,
            Orchestrating, Consuming, Ended, Verdicts
<1>1. ASSUME NEW p \in Invocations, EnqueueLookup(p) PROVE TypeInv'
  <2>1. item' \in [Invocations -> OrNoId] /\ pc' \in [Invocations -> Steps]
    BY <1>1 DEF EnqueueLookup, Active, OrNoId
  <2>2. HasItem'
    BY <1>1 DEF EnqueueLookup, Active
  <2> QED BY <1>1, <2>1, <2>2 DEF EnqueueLookup
<1>2. ASSUME NEW p \in Invocations, EnqueueInsert(p) PROVE TypeInv'
  <2>1. queue' \in [Invocations -> Row]
    BY <1>2, RowTypes DEF EnqueueInsert
  <2>2. item' \in [Invocations -> OrNoId] /\ pc' \in [Invocations -> Steps]
    BY <1>2 DEF EnqueueInsert, OrNoId
  <2>3. HasItem'
    BY <1>2 DEF EnqueueInsert
  <2> QED BY <1>2, <2>1, <2>2, <2>3 DEF EnqueueInsert
<1>3. ASSUME NEW p \in Invocations, EnqueueRelookup(p) PROVE TypeInv'
  <2>1. item' \in [Invocations -> OrNoId] /\ pc' \in [Invocations -> Steps]
    BY <1>3 DEF EnqueueRelookup, Active, OrNoId
  <2>2. HasItem'
    BY <1>3 DEF EnqueueRelookup, Active
  <2> QED BY <1>3, <2>1, <2>2 DEF EnqueueRelookup
<1>4. ASSUME NEW p \in Invocations, StartLookup(p) PROVE TypeInv'
  BY <1>4 DEF StartLookup
<1>5. ASSUME NEW p \in Invocations, StartInsertRequest(p) PROVE TypeInv'
  BY <1>5 DEF StartInsertRequest
<1>6. ASSUME NEW p \in Invocations, StartInsertRun(p) PROVE TypeInv'
  <2>1. runs' \in [Invocations -> Run]
    <3>1. [status |-> "planned", request |-> item[p]] \in Run
      BY NewRunTypes
    <3> QED BY <1>6, <3>1 DEF StartInsertRun
  <2>2. HasItem'
    BY <1>6 DEF StartInsertRun
  <2> QED BY <1>6, <2>1, <2>2 DEF StartInsertRun
<1>7. ASSUME NEW p \in Invocations, RecordAudit(p) PROVE TypeInv'
  BY <1>7 DEF RecordAudit, Run
<1>8. ASSUME NEW p \in Invocations, ClaimUpdate(p) PROVE TypeInv'
  <2>1. queue' \in [Invocations -> Row]
    <3>1. item[p] \in Invocations /\ Claimed(queue[item[p]], p) \in Row
      BY <1>8, RowTypes DEF ClaimUpdate
    <3> QED BY <1>8, <3>1 DEF ClaimUpdate
  <2>2. acquired' \in [Invocations -> BOOLEAN]
    BY <1>8 DEF ClaimUpdate
  <2> QED BY <1>8, <2>1, <2>2 DEF ClaimUpdate
<1>9. ASSUME NEW p \in Invocations, ClaimRead(p) PROVE TypeInv'
  <2>1. attempts' \in [Invocations -> Nat]
    BY <1>9 DEF ClaimRead, Row
  <2> QED BY <1>9, <2>1 DEF ClaimRead
<1>10. ASSUME NEW p \in Invocations, Reconcile(p) PROVE TypeInv'
  BY <1>10 DEF Reconcile
<1>11. ASSUME NEW p \in Invocations, OrchestratorBegin(p) PROVE TypeInv'
  BY <1>11 DEF OrchestratorBegin, OrchestratorFails
<1>12. ASSUME NEW p \in Invocations, TransitionToRunning(p) PROVE TypeInv'
  <2>1. runs' \in [Invocations -> Run]
    <3>1. [runs[p] EXCEPT !.status = "running"] \in Run
      BY RunTypes, "running" \in RunStatus, runs[p].request \in OrNoId DEF RunStatus, Run
    <3> QED BY <1>12, <3>1 DEF TransitionToRunning
  <2>2. HasItem'
    BY <1>12 DEF TransitionToRunning, OrchestratorFails
  <2> QED BY <1>12, <2>1, <2>2 DEF TransitionToRunning, OrchestratorFails
<1>13. ASSUME NEW p \in Invocations, ReserveProviderCall(p) PROVE TypeInv'
  BY <1>13 DEF ReserveProviderCall
<1>14. ASSUME NEW p \in Invocations, ProviderAnswers(p) PROVE TypeInv'
  BY <1>14 DEF ProviderAnswers, OrchestratorFails
<1>15. ASSUME NEW p \in Invocations, SearchCached(p) PROVE TypeInv'
  BY <1>15 DEF SearchCached
<1>16. ASSUME NEW p \in Invocations, StagesSucceed(p) PROVE TypeInv'
  BY <1>16 DEF StagesSucceed
<1>17. ASSUME NEW p \in Invocations, BundleStage(p) PROVE TypeInv'
  BY <1>17 DEF BundleStage
<1>18. ASSUME NEW p \in Invocations, OrchestratorSucceeds(p) PROVE TypeInv'
  BY <1>18 DEF OrchestratorSucceeds
<1>19. ASSUME NEW p \in Invocations, StageFails(p) PROVE TypeInv'
  BY <1>19 DEF StageFails, OrchestratorFails
<1>20. ASSUME NEW p \in Invocations, Classify(p) PROVE TypeInv'
  BY <1>20 DEF Classify
<1>21. ASSUME NEW p \in Invocations, PrepareAudit(p) PROVE TypeInv'
  BY <1>21 DEF PrepareAudit
<1>22. ASSUME NEW p \in Invocations, Finalize(p) PROVE TypeInv'
  <2>1. queue' \in [Invocations -> Row]
    BY <1>22, RowTypes DEF Finalize
  <2>2. RunOutcome(verdict[p]) \in RunStatus
    BY OutcomeTypes DEF RunStatus
  <2>3. runs' \in [Invocations -> Run]
    <3>1. [runs[p] EXCEPT !.status = RunOutcome(verdict[p])] \in Run
      BY <2>2, RunTypes DEF Run
    <3> QED BY <1>22, <3>1 DEF Finalize
  <2>4. audit' \in [Invocations -> SUBSET RunStatus]
    BY <1>22, <2>2 DEF Finalize
  <2>5. HasItem'
    BY <1>22 DEF Finalize
  <2> QED BY <1>22, <2>1, <2>3, <2>4, <2>5 DEF Finalize
<1>23. ASSUME NEW p \in Invocations, ContextEnds(p) PROVE TypeInv'
  BY <1>23 DEF ContextEnds, OrchestratorFails
<1>24. ASSUME NEW p \in Invocations, Expire(p) PROVE TypeInv'
  BY <1>24 DEF Expire
<1>25. ASSUME NEW p \in Invocations, StoreFails(p) PROVE TypeInv'
  BY <1>25 DEF StoreFails, OrchestratorFails
<1>26. ASSUME NEW p \in Invocations, Crash(p) PROVE TypeInv'
  BY <1>26 DEF Crash
<1>27. ASSUME NEW p \in Invocations, Replay(p) PROVE TypeInv'
  BY <1>27 DEF Replay
<1>28. ASSUME NEW i \in Invocations, Withdraw(i) PROVE TypeInv'
  <2>1. \A status \in ItemStatus : [queue[i] EXCEPT !.status = status] \in Row
    BY RowTypes
  <2>2. queue' \in [Invocations -> Row]
    BY <1>28, <2>1 DEF Withdraw, ItemStatus
  <2> QED BY <1>28, <2>2 DEF Withdraw
<1>29. CASE UNCHANGED vars
  BY <1>29 DEF vars
<1> QED
  BY <1>1, <1>2, <1>3, <1>4, <1>5, <1>6, <1>7, <1>8, <1>9, <1>10, <1>11, <1>12, <1>13,
     <1>14, <1>15, <1>16, <1>17, <1>18, <1>19, <1>20, <1>21, <1>22, <1>23, <1>24, <1>25,
     <1>26, <1>27, <1>28, <1>29 DEF Next, Step

\* Every step of every process keeps the type of every variable; the queue
\* item of a process that started its run is part of the induction.
THEOREM TypeCorrect == Spec => []TypeOK
<1>1. TypeInv => TypeOK
  BY DEF TypeInv
<1> QED BY <1>1, TypeInit, TypeStep, PTL DEF Spec
-----------------------------------------------------------------------------
(* The inductive invariant.  Its first part speaks of the rows alone, its  *)
(* second part of what a process knows about them at each of its steps.    *)

Holds(p) == queue[item[p]].exec = "claimed" /\ queue[item[p]].run = p

\* A row that was never inserted is blank, and no process works for it.
RowsAreInserted ==
    /\ \A i \in Invocations : queue[i].status = "absent" => queue[i] = NoRow
    /\ \A p \in Invocations : item[p] # NoId => queue[item[p]].status # "absent"

\* A run belongs to the item of the process that started it.
RunsServeTheirItem ==
    \A r \in Invocations :
        runs[r].request = IF runs[r].status = "absent" THEN NoId ELSE item[r]

\* A claim names an open run of its own item, and a running run its claim.
ClaimsAreOwned ==
    /\ \A i \in Invocations : queue[i].exec = "claimed" =>
        /\ queue[i].run \in Invocations
        /\ item[queue[i].run] = i
        /\ runs[queue[i].run].status \in {"planned", "running"}
    /\ \A r \in Invocations : runs[r].status = "running" => Holds(r)

\* A completed or cancelled run is the recorded outcome of its item.
OutcomesAreRecorded ==
    \A r \in Invocations : runs[r].status \in {"completed", "cancelled"} =>
        queue[item[r]].exec = runs[r].status /\ queue[item[r]].run = r

\* A topic has one queued row.
OneOpenRow ==
    \A i, j \in Invocations :
        queue[i].status = "queued" /\ queue[j].status = "queued" /\ TopicOf[i] = TopicOf[j]
        => i = j

RowsInv == /\ RowsAreInserted /\ RunsServeTheirItem /\ ClaimsAreOwned
           /\ OutcomesAreRecorded /\ OneOpenRow
           /\ SettledTogether /\ AuditMatchesRun

\* What process p may rely on at its next step.
Knows(p) ==
    /\ pc[p] \in {"lookup", "insert"} => queue[p].status = "absent"
    /\ pc[p] \in Preparing \ {"audit"} => runs[p].status = "absent"
    /\ pc[p] = "audit" => runs[p].status = "planned"
    /\ pc[p] \in Orchestrating \union Consuming \union {"classify"} => runs[p].status # "absent"
    /\ \/ pc[p] \in Orchestrating \union {"classify", "settle", "commit"}
       \/ pc[p] = "claimed" /\ acquired[p]
       => Holds(p)
    /\ pc[p] = "commit" => "planned" \in audit[p]
    /\ pc[p] = "claim" /\ runs[p].status \in Terminal => queue[item[p]].status # "queued"

ProcessInv == \A p \in Invocations : Knows(p)

QueueInv == TypeInv /\ RowsInv /\ ProcessInv

LEMMA InvInit == Init => QueueInv
<1> SUFFICES ASSUME Init PROVE QueueInv
  OBVIOUS
<1>1. TypeInv
  BY TypeInit
<1>2. RowsInv
  BY NoIdAssumption DEF Init, NoRow, Terminal, RowsInv, RowsAreInserted, RunsServeTheirItem,
     ClaimsAreOwned, OutcomesAreRecorded, OneOpenRow, SettledTogether, RowMatchesRun,
     AuditMatchesRun
<1>3. ProcessInv
  BY DEF Init, NoRow, ProcessInv, Knows, Orchestrating, Consuming
<1> QED BY <1>1, <1>2, <1>3 DEF QueueInv

\* A step that writes no row only has to keep what its own process knows.
LEMMA QuietStep ==
    ASSUME QueueInv, TypeInv', NEW p \in Invocations,
           UNCHANGED <<queue, runs, audit, bundles, item>>,
           \A q \in Invocations \ {p} : pc'[q] = pc[q] /\ acquired'[q] = acquired[q],
           Knows(p)'
    PROVE  QueueInv'
<1>1. RowsInv'
  BY DEF QueueInv, RowsInv, RowsAreInserted, RunsServeTheirItem, ClaimsAreOwned, Holds,
         OutcomesAreRecorded, OneOpenRow, SettledTogether, RowMatchesRun, AuditMatchesRun
<1>2. \A q \in Invocations \ {p} : Knows(q)'
  BY DEF QueueInv, ProcessInv, Knows, Holds
<1> QED BY <1>1, <1>2 DEF QueueInv, ProcessInv

\* The steps that write no row of the queue, its runs and their audits.
Quiet(p) ==
    \/ StartLookup(p) \/ StartInsertRequest(p) \/ ClaimRead(p) \/ Reconcile(p)
    \/ OrchestratorBegin(p) \/ ReserveProviderCall(p) \/ ProviderAnswers(p)
    \/ SearchCached(p) \/ StagesSucceed(p) \/ OrchestratorSucceeds(p) \/ StageFails(p)
    \/ Classify(p) \/ PrepareAudit(p) \/ ContextEnds(p)
    \/ Expire(p) \/ StoreFails(p) \/ Crash(p) \/ Replay(p)

LEMMA QuietSteps ==
    ASSUME QueueInv, TypeInv', NEW p \in Invocations, Quiet(p)
    PROVE  QueueInv'
<1> USE DEF Goto, durable, local, OrchestratorFails
<1>1. Knows(p)
  BY DEF QueueInv, ProcessInv
<1>2. /\ pc \in [Invocations -> Steps] /\ acquired \in [Invocations -> BOOLEAN]
      /\ runs[p].status \in RunStatus
  BY DEF QueueInv, TypeInv, TypeOK, Run
<1>3. UNCHANGED <<queue, runs, audit, bundles, item>>
  BY DEF Quiet, StartLookup, StartInsertRequest, ClaimRead, Reconcile, OrchestratorBegin,
     ReserveProviderCall, ProviderAnswers, SearchCached, StagesSucceed, OrchestratorSucceeds,
     StageFails, Classify, PrepareAudit, ContextEnds, Expire, StoreFails, Crash, Replay
<1>4. \A q \in Invocations \ {p} : pc'[q] = pc[q] /\ acquired'[q] = acquired[q]
  BY <1>2 DEF Quiet, StartLookup, StartInsertRequest, ClaimRead, Reconcile, OrchestratorBegin,
     ReserveProviderCall, ProviderAnswers, SearchCached, StagesSucceed, OrchestratorSucceeds,
     StageFails, Classify, PrepareAudit, ContextEnds, Expire, StoreFails, Crash, Replay
<1>5. Knows(p)'
  <2> USE <1>1, <1>2, <1>3 DEF Knows, Holds, Preparing, Orchestrating, Consuming, Ended
  <2>1. CASE StartLookup(p) \/ StartInsertRequest(p)
    BY <2>1 DEF StartLookup, StartInsertRequest
  <2>2. CASE ClaimRead(p)
    BY <2>2 DEF ClaimRead
  <2>3. CASE Reconcile(p) \/ Crash(p)
    BY <2>3 DEF Reconcile, Crash
  <2>4. CASE OrchestratorBegin(p)
    BY <2>4 DEF OrchestratorBegin
  <2>5. CASE ReserveProviderCall(p) \/ ProviderAnswers(p)
    BY <2>5 DEF ReserveProviderCall, ProviderAnswers
  <2>6. CASE SearchCached(p) \/ StagesSucceed(p) \/ OrchestratorSucceeds(p)
    BY <2>6 DEF SearchCached, StagesSucceed, OrchestratorSucceeds
  <2>7. CASE StageFails(p) \/ Classify(p)
    BY <2>7 DEF StageFails, Classify
  <2>8. CASE PrepareAudit(p)
    BY <2>8 DEF PrepareAudit, Prepared
  <2>9. CASE ContextEnds(p)
    BY <2>9 DEF ContextEnds
  <2>10. CASE Expire(p)
    BY <2>10 DEF Expire
  <2>11. CASE StoreFails(p)
    BY <2>11 DEF StoreFails
  <2>12. CASE Replay(p)
    <3>1. runs[p].status \in {"completed", "cancelled"} => queue[item[p]].status # "queued"
      <4>1. item[p] \in Invocations /\ runs[p].status # "absent"
        BY <2>12 DEF Replay, QueueInv, TypeInv, HasItem
      <4>2. runs[p].status \in {"completed", "cancelled"} => queue[item[p]].exec \in Terminal
        BY <4>1 DEF QueueInv, RowsInv, OutcomesAreRecorded, Terminal
      <4>3. queue[item[p]].exec \in Terminal => queue[item[p]].status # "queued"
        BY <4>1 DEF QueueInv, RowsInv, SettledTogether, RowMatchesRun
      <4> QED BY <4>2, <4>3
    <3> QED BY <2>12, <3>1 DEF Replay, Terminal
  <2> QED
    BY <2>1, <2>2, <2>3, <2>4, <2>5, <2>6, <2>7, <2>8, <2>9, <2>10, <2>11, <2>12 DEF Quiet
<1> QED BY <1>3, <1>4, <1>5, QuietStep

-----------------------------------------------------------------------------
(* The steps that write rows. *)

\* A process that is given an item keeps everything the invariant says, since
\* it has no run yet.
LEMMA EnqueueFinds ==
    ASSUME QueueInv, TypeInv', NEW p \in Invocations, NEW i \in Invocations,
           pc[p] \in {"lookup", "relookup"}, queue[i].status = "queued",
           item' = [item EXCEPT ![p] = i], Goto(p, "start"),
           UNCHANGED <<durable, acquired>>
    PROVE  QueueInv'
<1> USE DEF durable, Goto
<1>1. runs[p].status = "absent" /\ item \in [Invocations -> OrNoId] /\ pc \in [Invocations -> Steps]
  BY DEF QueueInv, TypeInv, TypeOK, ProcessInv, Knows, Preparing
<1>2. \A q \in Invocations \ {p} : item'[q] = item[q] /\ pc'[q] = pc[q]
  BY <1>1
<1>3. item'[p] = i /\ pc'[p] = "start"
  BY <1>1
<1>4. RowsAreInserted' /\ RunsServeTheirItem'
  BY <1>1, <1>2, <1>3 DEF QueueInv, RowsInv, RowsAreInserted, RunsServeTheirItem
<1>5. ClaimsAreOwned' /\ OutcomesAreRecorded'
  BY <1>1, <1>2 DEF QueueInv, RowsInv, ClaimsAreOwned, OutcomesAreRecorded, Holds
<1>6. OneOpenRow' /\ SettledTogether' /\ AuditMatchesRun'
  BY DEF QueueInv, RowsInv, OneOpenRow, SettledTogether, RowMatchesRun, AuditMatchesRun
<1>7. \A q \in Invocations \ {p} : Knows(q)'
  BY <1>2 DEF QueueInv, ProcessInv, Knows, Holds
<1>8. Knows(p)'
  BY <1>1, <1>3 DEF Knows, Orchestrating, Consuming
<1> QED BY <1>4, <1>5, <1>6, <1>7, <1>8 DEF QueueInv, RowsInv, ProcessInv

LEMMA InsertStep ==
    ASSUME QueueInv, TypeInv', NEW p \in Invocations, EnqueueInsert(p), Active(TopicOf[p]) = {}
    PROVE  QueueInv'
<1> DEFINE row == [NoRow EXCEPT !.status = "queued"]
<1>1. /\ queue' = [queue EXCEPT ![p] = row]
      /\ item' = [item EXCEPT ![p] = p]
      /\ pc' = [pc EXCEPT ![p] = "start"]
      /\ UNCHANGED <<requests, runs, audit, bundles, acquired>>
  BY DEF EnqueueInsert, Goto
<1>2. /\ pc[p] = "insert" /\ queue[p].status = "absent" /\ runs[p].status = "absent"
      /\ queue[p] = NoRow
  BY DEF EnqueueInsert, QueueInv, ProcessInv, Knows, Preparing, RowsInv, RowsAreInserted
<1>3. /\ row.status = "queued" /\ row.exec = "pending" /\ row.run = NoId /\ row.bundle = NoId
  BY DEF NoRow
<1>4. /\ queue'[p] = row /\ item'[p] = p /\ pc'[p] = "start"
      /\ \A q \in Invocations \ {p} : queue'[q] = queue[q] /\ item'[q] = item[q] /\ pc'[q] = pc[q]
  BY <1>1 DEF QueueInv, TypeInv, TypeOK
<1>5. \A q \in Invocations \ {p} : item[q] # p
  BY <1>2, NoIdAssumption DEF QueueInv, RowsInv, RowsAreInserted
<1>6. RowsAreInserted' /\ RunsServeTheirItem'
  <2>1. \A q \in Invocations : item'[q] # NoId => queue'[item'[q]].status # "absent"
    BY <1>1, <1>3, <1>4, <1>5 DEF QueueInv, TypeInv, TypeOK, OrNoId, RowsInv, RowsAreInserted
  <2>2. RowsAreInserted'
    BY <1>3, <1>4, <2>1 DEF QueueInv, RowsInv, RowsAreInserted
  <2>3. RunsServeTheirItem'
    BY <1>1, <1>2, <1>4 DEF QueueInv, RowsInv, RunsServeTheirItem
  <2> QED BY <2>2, <2>3
<1> HIDE DEF row
<1>7. ClaimsAreOwned' /\ OutcomesAreRecorded'
  <2>1. \A q \in Invocations : runs[q].status # "absent" => q # p /\ item[q] \in Invocations \ {p}
    BY <1>2, <1>5 DEF QueueInv, TypeInv, HasItem
  <2>2. \A q \in Invocations : runs[q].status # "absent" =>
            item'[q] = item[q] /\ queue'[item[q]] = queue[item[q]]
    BY <2>1, <1>4
  <2>3. \A q \in Invocations : queue'[q].exec = "claimed" => q # p
    BY <1>3, <1>4
  <2> QED BY <1>1, <1>4, <2>1, <2>2, <2>3
      DEF QueueInv, RowsInv, ClaimsAreOwned, OutcomesAreRecorded, Holds
<1>8. OneOpenRow'
  BY <1>4 DEF EnqueueInsert, Active, QueueInv, RowsInv, OneOpenRow
<1>9. SettledTogether'
  <2>1. /\ queue'[p].exec = "pending" /\ queue'[p].bundle = NoId
        /\ "pending" \notin Terminal
    BY <1>3, <1>4 DEF Terminal
  <2>2. RowMatchesRun(p)'
    BY <2>1 DEF RowMatchesRun
  <2>3. \A i \in Invocations \ {p} : RowMatchesRun(i)'
    <3> SUFFICES ASSUME NEW i \in Invocations \ {p} PROVE RowMatchesRun(i)'
      OBVIOUS
    <3>1. RowMatchesRun(i)
      BY DEF QueueInv, RowsInv, SettledTogether
    <3>2. queue'[i] = queue[i] /\ runs' = runs /\ bundles' = bundles
      BY <1>1, <1>4
    <3> QED BY <3>1, <3>2 DEF RowMatchesRun
  <2> QED BY <2>2, <2>3 DEF SettledTogether
<1>10. AuditMatchesRun'
  BY <1>1 DEF QueueInv, RowsInv, AuditMatchesRun
<1>11. Knows(p)'
  BY <1>1, <1>2, <1>4 DEF Knows, Orchestrating, Consuming
<1>12. \A q \in Invocations \ {p} : Knows(q)'
  <2> SUFFICES ASSUME NEW q \in Invocations \ {p} PROVE Knows(q)'
    OBVIOUS
  <2>1. pc'[q] \in Orchestrating \union Consuming \union {"classify"} =>
            queue'[item'[q]] = queue[item[q]]
    BY <1>4, <1>5 DEF QueueInv, TypeInv, HasItem, Started
  <2> QED BY <2>1, <1>1, <1>4 DEF QueueInv, ProcessInv, Knows, Holds, Consuming
<1> QED BY <1>6, <1>7, <1>8, <1>9, <1>10, <1>11, <1>12 DEF QueueInv, RowsInv, ProcessInv

\* A step keeps what a row says if it leaves the row and the ended run that
\* the row names alone.
LEMMA RowKept ==
    ASSUME QueueInv, NEW i \in Invocations,
           queue'[i] = queue[i], bundles \subseteq bundles',
           queue[i].exec \in Terminal \union {"retry"} => runs'[queue[i].run] = runs[queue[i].run]
    PROVE  RowMatchesRun(i)'
<1>1. RowMatchesRun(i)
  BY DEF QueueInv, RowsInv, SettledTogether
<1>2. /\ queue[i].exec \in Terminal => runs'[queue[i].run] = runs[queue[i].run]
      /\ queue[i].exec = "retry" => runs'[queue[i].run] = runs[queue[i].run]
  OBVIOUS
<1> QED BY <1>1, <1>2 DEF RowMatchesRun

\* The ended run a settled row names.
LEMMA NamedRun ==
    ASSUME QueueInv, NEW i \in Invocations, queue[i].exec \in Terminal \union {"retry"}
    PROVE  /\ queue[i].run \in Invocations
           /\ runs[queue[i].run].status \in Terminal
           /\ runs[queue[i].run].request = i
<1>1. RowMatchesRun(i) /\ queue[i] \in Row
  BY DEF QueueInv, RowsInv, SettledTogether, TypeInv, TypeOK
<1>2. queue[i].run # NoId => queue[i].run \in Invocations
  BY <1>1 DEF Row, OrNoId
<1> QED BY <1>1, <1>2 DEF RowMatchesRun, Terminal

LEMMA InsertRunStep ==
    ASSUME QueueInv, TypeInv', NEW p \in Invocations, StartInsertRun(p), item[p] \in requests
    PROVE  QueueInv'
<1>1. /\ runs' = [runs EXCEPT ![p] = [status |-> "planned", request |-> item[p]]]
      /\ pc' = [pc EXCEPT ![p] = "audit"]
      /\ UNCHANGED <<queue, requests, audit, bundles, local>>
      /\ pc[p] \in {"insertRun", "insertFirstRun"}
  BY DEF StartInsertRun, Goto
<1>2. runs[p].status = "absent"
  BY <1>1 DEF QueueInv, ProcessInv, Knows, Preparing
<1>3. /\ runs'[p].status = "planned" /\ runs'[p].request = item[p] /\ pc'[p] = "audit"
      /\ \A q \in Invocations \ {p} : runs'[q] = runs[q] /\ pc'[q] = pc[q]
      /\ queue' = queue /\ audit' = audit /\ bundles' = bundles
      /\ item' = item /\ acquired' = acquired
  BY <1>1 DEF QueueInv, TypeInv, TypeOK, local
<1>4. RowsAreInserted' /\ OneOpenRow' /\ RunsServeTheirItem'
  BY <1>3 DEF QueueInv, RowsInv, RowsAreInserted, OneOpenRow, RunsServeTheirItem
<1>5. ClaimsAreOwned' /\ OutcomesAreRecorded'
  BY <1>2, <1>3 DEF QueueInv, RowsInv, ClaimsAreOwned, OutcomesAreRecorded, Holds
<1>6. SettledTogether'
  <2> SUFFICES ASSUME NEW i \in Invocations PROVE RowMatchesRun(i)'
    BY DEF SettledTogether
  <2>1. queue[i].exec \in Terminal \union {"retry"} =>
            queue[i].run \in Invocations \ {p}
    BY <1>2, NamedRun DEF Terminal
  <2> QED BY <2>1, <1>3, RowKept
<1>7. AuditMatchesRun'
  BY <1>2, <1>3 DEF QueueInv, RowsInv, AuditMatchesRun, Terminal
<1>8. Knows(p)'
  BY <1>3 DEF Knows, Orchestrating, Consuming
<1>9. \A q \in Invocations \ {p} : Knows(q)'
  BY <1>3 DEF QueueInv, ProcessInv, Knows, Holds
<1> QED BY <1>4, <1>5, <1>6, <1>7, <1>8, <1>9 DEF QueueInv, RowsInv, ProcessInv

LEMMA RecordAuditStep ==
    ASSUME QueueInv, TypeInv', NEW p \in Invocations, RecordAudit(p)
    PROVE  QueueInv'
<1>1. runs[p].status = "planned" /\ pc[p] = "audit"
  BY DEF RecordAudit, QueueInv, ProcessInv, Knows
<1>2. /\ pc'[p] = "claim" /\ audit'[p] = audit[p] \union {"planned"}
      /\ \A q \in Invocations \ {p} : audit'[q] = audit[q] /\ pc'[q] = pc[q]
      /\ queue' = queue /\ runs' = runs /\ bundles' = bundles
      /\ item' = item /\ acquired' = acquired
  BY <1>1 DEF RecordAudit, Goto, local, QueueInv, TypeInv, TypeOK
<1>3. AuditMatchesRun'
  BY <1>1, <1>2 DEF QueueInv, RowsInv, AuditMatchesRun, Terminal
<1>4. RowsAreInserted' /\ OneOpenRow' /\ RunsServeTheirItem' /\ ClaimsAreOwned' /\ OutcomesAreRecorded'
  BY <1>2 DEF QueueInv, RowsInv, RowsAreInserted, OneOpenRow, RunsServeTheirItem,
     ClaimsAreOwned, OutcomesAreRecorded, Holds
<1>5. SettledTogether'
  BY <1>2, RowKept DEF SettledTogether
<1>6. Knows(p)'
  BY <1>1, <1>2 DEF Knows, Preparing, Orchestrating, Terminal
<1>7. \A q \in Invocations \ {p} : Knows(q)'
  BY <1>2 DEF QueueInv, ProcessInv, Knows, Holds
<1> QED BY <1>3, <1>4, <1>5, <1>6, <1>7 DEF QueueInv, RowsInv, ProcessInv

LEMMA BundleStep ==
    ASSUME QueueInv, TypeInv', NEW p \in Invocations, BundleStage(p)
    PROVE  QueueInv'
<1>1. /\ pc[p] = "bundle" /\ pc'[p] = "provenance" /\ bundles \subseteq bundles'
      /\ \A q \in Invocations \ {p} : pc'[q] = pc[q]
      /\ queue' = queue /\ runs' = runs /\ audit' = audit
      /\ item' = item /\ acquired' = acquired
  BY DEF BundleStage, Goto, local, QueueInv, TypeInv, TypeOK
<1>2. RowsAreInserted' /\ OneOpenRow' /\ RunsServeTheirItem' /\ ClaimsAreOwned'
      /\ OutcomesAreRecorded' /\ AuditMatchesRun'
  BY <1>1 DEF QueueInv, RowsInv, RowsAreInserted, OneOpenRow, RunsServeTheirItem,
     ClaimsAreOwned, OutcomesAreRecorded, Holds, AuditMatchesRun
<1>3. SettledTogether'
  BY <1>1, RowKept DEF SettledTogether
<1>4. Knows(p)'
  BY <1>1 DEF QueueInv, ProcessInv, Knows, Holds, Preparing, Orchestrating, Consuming
<1>5. \A q \in Invocations \ {p} : Knows(q)'
  BY <1>1 DEF QueueInv, ProcessInv, Knows, Holds
<1> QED BY <1>2, <1>3, <1>4, <1>5 DEF QueueInv, RowsInv, ProcessInv

LEMMA ClaimStep ==
    ASSUME QueueInv, TypeInv', NEW p \in Invocations, ClaimUpdate(p)
    PROVE  QueueInv'
<1>0. PICK k \in Invocations : k = item[p]
  BY DEF ClaimUpdate, QueueInv, TypeInv, HasItem, Started, Consuming
<1>1. /\ pc[p] = "claim" /\ runs[p].status # "absent"
      /\ runs[p].status \in Terminal => queue[k].status # "queued"
      /\ runs[p].status \in RunStatus
  BY <1>0 DEF ClaimUpdate, QueueInv, TypeInv, TypeOK, Run, ProcessInv, Knows, Consuming
<1>2. /\ pc'[p] = "claimed" /\ item' = item
      /\ runs' = runs /\ audit' = audit /\ bundles' = bundles
      /\ \A q \in Invocations \ {p} : pc'[q] = pc[q] /\ acquired'[q] = acquired[q]
  BY DEF ClaimUpdate, Goto, QueueInv, TypeInv, TypeOK
<1>3. CASE Claimable(k)
  <2>1. /\ queue'[k].status = "queued" /\ queue'[k].exec = "claimed" /\ queue'[k].run = p
        /\ queue'[k].bundle = NoId
        /\ queue[k].status = "queued" /\ queue[k].exec \in {"pending", "retry"}
        /\ \A i \in Invocations \ {k} : queue'[i] = queue[i]
        /\ runs[p].status \in {"planned", "running"}
    <3>1. queue' = [queue EXCEPT ![k] = Claimed(@, p)]
      BY <1>0, <1>3 DEF ClaimUpdate
    <3>2. queue[k] \in Row /\ queue \in [Invocations -> Row]
      BY DEF QueueInv, TypeInv, TypeOK
    <3>3. queue'[k] = Claimed(queue[k], p) /\ \A i \in Invocations \ {k} : queue'[i] = queue[i]
      BY <3>1, <3>2
    <3> QED BY <1>1, <1>3, <3>2, <3>3 DEF Claimable, Claimed, Row, RunStatus, Terminal
  <2>2. RowsAreInserted' /\ OneOpenRow' /\ RunsServeTheirItem' /\ AuditMatchesRun'
    <3>1. RowsAreInserted'
      BY <1>2, <2>1 DEF QueueInv, RowsInv, RowsAreInserted, TypeInv, TypeOK, OrNoId
    <3>2. OneOpenRow'
      BY <2>1 DEF QueueInv, RowsInv, OneOpenRow
    <3>3. RunsServeTheirItem' /\ AuditMatchesRun'
      BY <1>2 DEF QueueInv, RowsInv, RunsServeTheirItem, AuditMatchesRun
    <3> QED BY <3>1, <3>2, <3>3
  <2>3. ClaimsAreOwned'
    BY <1>0, <1>1, <1>2, <2>1 DEF QueueInv, RowsInv, ClaimsAreOwned, Holds, TypeInv, HasItem
  <2>4. OutcomesAreRecorded'
    <3>1. queue[k].exec \notin {"completed", "cancelled"}
      BY <2>1
    <3> QED BY <1>2, <2>1, <3>1 DEF QueueInv, RowsInv, OutcomesAreRecorded, TypeInv, HasItem
  <2>5. SettledTogether'
    <3>1. RowMatchesRun(k)'
      BY <2>1 DEF RowMatchesRun, Terminal
    <3>2. \A i \in Invocations \ {k} : RowMatchesRun(i)'
      BY <1>2, <2>1, RowKept
    <3> QED BY <3>1, <3>2 DEF SettledTogether
  <2>6. Knows(p)'
    BY <1>0, <1>1, <1>2, <2>1 DEF Knows, Holds, Preparing, Orchestrating
  <2>7. \A q \in Invocations \ {p} : Knows(q)'
    <3> SUFFICES ASSUME NEW q \in Invocations \ {p} PROVE Knows(q)'
      OBVIOUS
    <3>1. queue'[q].status = queue[q].status
      BY <2>1
    <3>2. pc[q] \in Orchestrating \union Consuming \union {"classify"} => item[q] \in Invocations
      BY DEF QueueInv, TypeInv, HasItem, Started
    <3>3. item[q] \in Invocations =>
              queue'[item[q]].status = queue[item[q]].status /\ (Holds(q) => Holds(q)')
      BY <1>2, <2>1 DEF Holds
    <3> QED BY <1>2, <3>1, <3>2, <3>3 DEF QueueInv, ProcessInv, Knows, Consuming
  <2> QED BY <2>2, <2>3, <2>4, <2>5, <2>6, <2>7 DEF QueueInv, RowsInv, ProcessInv
<1>4. CASE ~Claimable(k)
  <2>1. queue' = queue /\ ~acquired'[p]
    BY <1>0, <1>4 DEF ClaimUpdate, QueueInv, TypeInv, TypeOK
  <2>2. Knows(p)'
    BY <1>0, <1>1, <1>2, <2>1 DEF Knows, Preparing, Orchestrating
  <2> QED BY <1>2, <2>1, <2>2, QuietStep
<1> QED BY <1>3, <1>4

LEMMA TransitionStep ==
    ASSUME QueueInv, TypeInv', NEW p \in Invocations, TransitionToRunning(p)
    PROVE  QueueInv'
<1>1. /\ pc[p] = "transition" /\ runs[p].status # "absent" /\ Holds(p)
      /\ item[p] \in Invocations
  BY DEF TransitionToRunning, QueueInv, TypeInv, HasItem, ProcessInv, Knows, Orchestrating
<1>2. /\ queue' = queue /\ audit' = audit /\ bundles' = bundles
      /\ item' = item /\ acquired' = acquired
      /\ \A q \in Invocations \ {p} : pc'[q] = pc[q] /\ runs'[q] = runs[q]
  BY DEF TransitionToRunning, OrchestratorFails, Goto, QueueInv, TypeInv, TypeOK
<1>3. CASE TransitionAllowed(runs[p].status, "running")
  <2>1. /\ runs[p].status \in {"planned", "running"} /\ runs'[p].status = "running"
        /\ runs'[p].request = runs[p].request /\ pc'[p] = "search"
    BY <1>3 DEF TransitionToRunning, TransitionAllowed, Terminal, Goto, QueueInv, TypeInv,
       TypeOK, Run
  <2>2. RowsAreInserted' /\ OneOpenRow' /\ RunsServeTheirItem' /\ AuditMatchesRun'
    BY <1>2, <2>1 DEF QueueInv, RowsInv, RowsAreInserted, OneOpenRow, RunsServeTheirItem,
       AuditMatchesRun, Terminal
  <2>3. ClaimsAreOwned' /\ OutcomesAreRecorded'
    BY <1>1, <1>2, <2>1 DEF QueueInv, RowsInv, ClaimsAreOwned, OutcomesAreRecorded, Holds
  <2>4. SettledTogether'
    <3> SUFFICES ASSUME NEW i \in Invocations PROVE RowMatchesRun(i)'
      BY DEF SettledTogether
    <3>1. queue[i].exec \in Terminal \union {"retry"} => queue[i].run \in Invocations \ {p}
      BY <2>1, NamedRun DEF Terminal
    <3> QED BY <1>2, <3>1, RowKept
  <2>5. Knows(p)'
    BY <1>1, <1>2, <2>1 DEF Knows, Holds, Preparing, Orchestrating
  <2>6. \A q \in Invocations \ {p} : Knows(q)'
    BY <1>2 DEF QueueInv, ProcessInv, Knows, Holds
  <2> QED BY <2>2, <2>3, <2>4, <2>5, <2>6 DEF QueueInv, RowsInv, ProcessInv
<1>4. CASE ~TransitionAllowed(runs[p].status, "running")
  <2>1. runs' = runs /\ pc'[p] = "classify"
    BY <1>4 DEF TransitionToRunning, OrchestratorFails, Goto, QueueInv, TypeInv, TypeOK
  <2>2. Knows(p)'
    BY <1>1, <1>2, <2>1 DEF Knows, Holds, Preparing
  <2> QED BY <1>2, <2>1, <2>2, QuietStep
<1> QED BY <1>3, <1>4

LEMMA FinalizeStep ==
    ASSUME QueueInv, TypeInv', NEW p \in Invocations, Finalize(p)
    PROVE  QueueInv'
<1>0. PICK k \in Invocations : k = item[p]
  BY DEF Finalize, QueueInv, TypeInv, HasItem, Started, Consuming
<1>1. /\ pc[p] = "commit" /\ queue[k].exec = "claimed" /\ queue[k].run = p
      /\ "planned" \in audit[p] /\ runs[p].status \in {"planned", "running"}
      /\ runs[p].request = k
  BY <1>0 DEF Finalize, QueueInv, ProcessInv, Knows, Holds, RowsInv, ClaimsAreOwned,
     RunsServeTheirItem
<1>2. /\ item' = item /\ bundles' = bundles /\ acquired' = acquired
      /\ pc'[p] \in Ended /\ \A q \in Invocations \ {p} : pc'[q] = pc[q]
  BY DEF Finalize, Goto, local, Ended, QueueInv, TypeInv, TypeOK
<1>3. CASE ~Finalizable(p)
  <2>1. queue' = queue /\ runs' = runs /\ audit' = audit
    BY <1>3 DEF Finalize
  <2>2. Knows(p)'
    BY <1>2 DEF Knows, Ended, Preparing, Orchestrating, Consuming
  <2> QED BY <1>2, <2>1, <2>2, QuietStep
<1>4. CASE Finalizable(p)
  <2> DEFINE v == verdict[p]
             out == RunOutcome(v)
  <2>0. /\ out \in Terminal
        /\ \/ ExecOutcome(v) = out
           \/ ExecOutcome(v) = "retry" /\ out = "failed"
        /\ ExecOutcome(v) = "retry" => ItemOutcome(v) = "queued"
        /\ ExecOutcome(v) # "retry" =>
              ItemOutcome(v) = IF out = "cancelled" THEN "cancelled" ELSE "dispatched"
        /\ out = "completed" <=> v = "success"
        /\ ExecOutcome(v) = "completed" <=> v = "success"
    BY Outcomes
  <2>1. /\ queue[k].status = "queued"
        /\ v = "success" => p \in bundles
    BY <1>0, <1>4 DEF Finalizable
  <2>2. /\ queue'[k].status = ItemOutcome(v) /\ queue'[k].exec = ExecOutcome(v)
        /\ queue'[k].run = p /\ queue'[k].bundle = IF v = "success" THEN p ELSE NoId
        /\ \A i \in Invocations \ {k} : queue'[i] = queue[i]
    <3>1. queue' = [queue EXCEPT ![k] = Settled(@, p, v)]
      BY <1>0, <1>4 DEF Finalize
    <3>2. queue[k] \in Row /\ queue \in [Invocations -> Row]
      BY DEF QueueInv, TypeInv, TypeOK
    <3>3. queue'[k] = Settled(queue[k], p, v) /\ \A i \in Invocations \ {k} : queue'[i] = queue[i]
      BY <3>1, <3>2
    <3> QED BY <1>1, <3>2, <3>3 DEF Settled, Row
  <2>3. /\ runs'[p] = [status |-> out, request |-> k]
        /\ audit'[p] = audit[p] \union {out}
        /\ \A q \in Invocations \ {p} : runs'[q] = runs[q] /\ audit'[q] = audit[q]
    <3>1. runs' = [runs EXCEPT ![p].status = out] /\ audit' = [audit EXCEPT ![p] = @ \union {out}]
      BY <1>4 DEF Finalize
    <3>2. runs \in [Invocations -> Run] /\ audit \in [Invocations -> SUBSET RunStatus]
      BY DEF QueueInv, TypeInv, TypeOK
    <3> QED BY <1>1, <3>1, <3>2 DEF Run
  <2> HIDE DEF v, out
  <2>4. \A q \in Invocations \ {p} : Holds(q) => item[q] # k
    BY <1>1 DEF Holds
  <2>5. \A q \in Invocations \ {p} : item[q] \in Invocations /\ Holds(q) => Holds(q)'
    BY <1>2, <2>2, <2>4 DEF Holds
  <2>6. RowsAreInserted'
    <3>1. queue'[k].status # "absent"
      BY <2>0, <2>2
    <3> QED BY <3>1, <1>2, <2>2 DEF QueueInv, RowsInv, RowsAreInserted, TypeInv, TypeOK, OrNoId
  <2>7. RunsServeTheirItem'
    BY <1>0, <1>2, <2>0, <2>3 DEF QueueInv, RowsInv, RunsServeTheirItem, Terminal
  <2>8. ClaimsAreOwned'
    <3>1. queue'[k].exec # "claimed"
      BY <2>0, <2>2 DEF Terminal
    <3>2. \A i \in Invocations \ {k} : queue[i].exec = "claimed" => queue[i].run # p
      BY <1>0 DEF QueueInv, RowsInv, ClaimsAreOwned
    <3>3. \A i \in Invocations : queue'[i].exec = "claimed" =>
              /\ queue'[i].run \in Invocations
              /\ item'[queue'[i].run] = i
              /\ runs'[queue'[i].run].status \in {"planned", "running"}
      BY <3>1, <3>2, <1>2, <2>2, <2>3 DEF QueueInv, RowsInv, ClaimsAreOwned
    <3>4. \A q \in Invocations : runs'[q].status = "running" =>
              q # p /\ item[q] \in Invocations /\ Holds(q)
      BY <2>0, <2>3 DEF QueueInv, RowsInv, ClaimsAreOwned, TypeInv, HasItem, Terminal
    <3> QED BY <3>3, <3>4, <2>5 DEF ClaimsAreOwned
  <2>9. OutcomesAreRecorded'
    <3>1. \A q \in Invocations \ {p} : runs[q].status \in {"completed", "cancelled"} =>
              item[q] \in Invocations \ {k}
      BY <1>1 DEF QueueInv, RowsInv, OutcomesAreRecorded, TypeInv, HasItem
    <3>2. runs'[p].status \in {"completed", "cancelled"} =>
              queue'[k].exec = runs'[p].status /\ queue'[k].run = p
      BY <2>0, <2>2, <2>3
    <3> QED BY <1>0, <1>2, <2>2, <2>3, <3>1, <3>2 DEF QueueInv, RowsInv, OutcomesAreRecorded
  <2>10. OneOpenRow'
    BY <2>1, <2>2 DEF QueueInv, RowsInv, OneOpenRow
  <2>11. SettledTogether'
    <3>1. RowMatchesRun(k)'
      BY <1>2, <2>0, <2>1, <2>2, <2>3, NoIdAssumption DEF RowMatchesRun, Terminal
    <3>2. \A i \in Invocations \ {k} : RowMatchesRun(i)'
      <4> SUFFICES ASSUME NEW i \in Invocations \ {k} PROVE RowMatchesRun(i)'
        OBVIOUS
      <4>1. queue[i].exec \in Terminal \union {"retry"} => queue[i].run \in Invocations \ {p}
        BY <1>1, NamedRun
      <4> QED BY <4>1, <1>2, <2>2, <2>3, RowKept
    <3> QED BY <3>1, <3>2 DEF SettledTogether
  <2>12. AuditMatchesRun'
    <3>1. audit[p] \intersect Terminal = {}
      BY <1>1 DEF QueueInv, RowsInv, AuditMatchesRun, Terminal
    <3>2. audit'[p] \intersect Terminal = {out} /\ {runs'[p].status} \intersect Terminal = {out}
      BY <2>0, <2>3, <3>1
    <3> QED BY <1>1, <2>3, <3>2 DEF QueueInv, RowsInv, AuditMatchesRun
  <2>13. Knows(p)'
    BY <1>2 DEF Knows, Ended, Preparing, Orchestrating, Consuming
  <2>14. \A q \in Invocations \ {p} : Knows(q)'
    <3> SUFFICES ASSUME NEW q \in Invocations \ {p} PROVE Knows(q)'
      OBVIOUS
    <3>1. queue[q].status = "absent" => queue'[q].status = "absent"
      BY <2>1, <2>2
    <3>2. pc[q] \in Orchestrating \union Consuming \union {"classify"} => item[q] \in Invocations
      BY DEF QueueInv, TypeInv, HasItem, Started
    <3>3. item[q] \in Invocations /\ queue[item[q]].status # "queued" =>
              queue'[item[q]].status # "queued"
      BY <2>1, <2>2
    <3> QED BY <1>2, <2>3, <2>5, <3>1, <3>2, <3>3 DEF QueueInv, ProcessInv, Knows, Consuming
  <2> QED BY <2>6, <2>7, <2>8, <2>9, <2>10, <2>11, <2>12, <2>13, <2>14
      DEF QueueInv, RowsInv, ProcessInv
<1> QED BY <1>3, <1>4

LEMMA WithdrawStep ==
    ASSUME QueueInv, TypeInv', NEW k \in Invocations, Withdraw(k)
    PROVE  QueueInv'
<1>1. PICK status \in {"dispatched", "cancelled"} : queue' = [queue EXCEPT ![k].status = status]
  BY DEF Withdraw
<1>2. /\ queue'[k].status = status /\ queue'[k].exec = queue[k].exec
      /\ queue'[k].run = queue[k].run /\ queue'[k].bundle = queue[k].bundle
      /\ \A i \in Invocations \ {k} : queue'[i] = queue[i]
      /\ queue[k].status = "queued"
  BY <1>1 DEF Withdraw, QueueInv, TypeInv, TypeOK, Row
<1>3. /\ item' = item /\ runs' = runs /\ audit' = audit /\ bundles' = bundles
      /\ pc' = pc /\ acquired' = acquired
  BY DEF Withdraw, local
<1>4. \A i \in Invocations : queue'[i].exec = queue[i].exec /\ queue'[i].run = queue[i].run
  BY <1>2
<1>5. RowsAreInserted' /\ OneOpenRow'
  BY <1>2, <1>3 DEF QueueInv, RowsInv, RowsAreInserted, OneOpenRow, TypeInv, TypeOK, OrNoId
<1>6. RunsServeTheirItem' /\ AuditMatchesRun'
  BY <1>3 DEF QueueInv, RowsInv, RunsServeTheirItem, AuditMatchesRun
<1>7. \A q \in Invocations : item[q] \in Invocations /\ Holds(q) => Holds(q)'
  BY <1>3, <1>4 DEF Holds
<1>8. ClaimsAreOwned' /\ OutcomesAreRecorded'
  BY <1>3, <1>4, <1>7 DEF QueueInv, RowsInv, ClaimsAreOwned, OutcomesAreRecorded, TypeInv, HasItem
<1>9. SettledTogether'
  <2>1. queue[k].exec \notin Terminal
    BY <1>2 DEF QueueInv, RowsInv, SettledTogether, RowMatchesRun, Terminal
  <2>2. RowMatchesRun(k)'
    BY <2>1, <1>2, <1>3 DEF QueueInv, RowsInv, SettledTogether, RowMatchesRun
  <2>3. \A i \in Invocations \ {k} : RowMatchesRun(i)'
    BY <1>2, <1>3, RowKept
  <2> QED BY <2>2, <2>3 DEF SettledTogether
<1>10. ProcessInv'
  <2> SUFFICES ASSUME NEW q \in Invocations PROVE Knows(q)'
    BY DEF ProcessInv
  <2>1. queue[q].status = "absent" => queue'[q].status = "absent"
    BY <1>2
  <2>2. pc[q] \in Orchestrating \union Consuming \union {"classify"} => item[q] \in Invocations
    BY DEF QueueInv, TypeInv, HasItem, Started
  <2>3. item[q] \in Invocations /\ queue[item[q]].status # "queued" =>
            queue'[item[q]].status # "queued"
    BY <1>2
  <2> QED BY <1>3, <1>7, <2>1, <2>2, <2>3 DEF QueueInv, ProcessInv, Knows, Consuming
<1> QED BY <1>5, <1>6, <1>8, <1>9, <1>10 DEF QueueInv, RowsInv

\* Every step keeps the invariant.
LEMMA InvStep == QueueInv /\ [Next]_vars => QueueInv'
<1> SUFFICES ASSUME QueueInv, [Next]_vars PROVE QueueInv'
  OBVIOUS
<1>1. TypeInv'
  BY TypeStep DEF QueueInv
<1>2. ASSUME NEW p \in Invocations, Quiet(p) PROVE QueueInv'
  BY <1>1, <1>2, QuietSteps
<1>3. ASSUME NEW p \in Invocations, EnqueueLookup(p) PROVE QueueInv'
  <2>1. CASE Goto(p, "insert") /\ UNCHANGED item
    <3>1. Knows(p)'
      BY <1>3, <2>1 DEF EnqueueLookup, Goto, durable, Knows, Holds, QueueInv, ProcessInv,
         TypeInv, TypeOK, Preparing, Orchestrating, Consuming
    <3> QED BY <1>1, <1>3, <2>1, <3>1, QuietStep
        DEF EnqueueLookup, Goto, durable, QueueInv, TypeInv, TypeOK
  <2>2. CASE \E i \in Active(TopicOf[p]) : item' = [item EXCEPT ![p] = i] /\ Goto(p, "start")
    BY <1>1, <1>3, <2>2, EnqueueFinds DEF EnqueueLookup, Active
  <2> QED BY <1>3, <2>1, <2>2 DEF EnqueueLookup
<1>4. ASSUME NEW p \in Invocations, EnqueueRelookup(p) PROVE QueueInv'
  <2>1. CASE Goto(p, "stopped") /\ UNCHANGED item
    <3>1. Knows(p)'
      BY <1>4, <2>1 DEF EnqueueRelookup, Goto, Knows, QueueInv, TypeInv, TypeOK,
         Preparing, Orchestrating, Consuming
    <3> QED BY <1>1, <1>4, <2>1, <3>1, QuietStep
        DEF EnqueueRelookup, Goto, durable, QueueInv, TypeInv, TypeOK
  <2>2. CASE \E i \in Active(TopicOf[p]) : item' = [item EXCEPT ![p] = i] /\ Goto(p, "start")
    BY <1>1, <1>4, <2>2, EnqueueFinds DEF EnqueueRelookup, Active
  <2> QED BY <1>4, <2>1, <2>2 DEF EnqueueRelookup
<1>5. ASSUME NEW p \in Invocations, EnqueueInsert(p) PROVE QueueInv'
  <2>1. CASE Active(TopicOf[p]) = {}
    BY <1>1, <1>5, <2>1, InsertStep
  <2>2. CASE Active(TopicOf[p]) # {}
    <3>1. /\ pc' = [pc EXCEPT ![p] = "relookup"] /\ pc[p] = "insert"
          /\ UNCHANGED <<queue, runs, audit, bundles, item, acquired>>
      BY <1>5, <2>2 DEF EnqueueInsert, Goto
    <3>2. Knows(p)'
      BY <3>1 DEF Knows, QueueInv, ProcessInv, TypeInv, TypeOK, Preparing, Orchestrating, Consuming
    <3> QED BY <1>1, <3>1, <3>2, QuietStep DEF QueueInv, TypeInv, TypeOK
  <2> QED BY <2>1, <2>2
<1>6. ASSUME NEW p \in Invocations, StartInsertRun(p) PROVE QueueInv'
  <2>1. CASE item[p] \in requests
    BY <1>1, <1>6, <2>1, InsertRunStep
  <2>2. CASE item[p] \notin requests
    <3>1. /\ pc' = [pc EXCEPT ![p] = "stopped"]
          /\ UNCHANGED <<queue, runs, audit, bundles, item, acquired>>
      BY <1>6, <2>2 DEF StartInsertRun, Goto, local
    <3>2. Knows(p)'
      BY <3>1 DEF Knows, QueueInv, TypeInv, TypeOK, Preparing, Orchestrating, Consuming
    <3> QED BY <1>1, <3>1, <3>2, QuietStep DEF QueueInv, TypeInv, TypeOK
  <2> QED BY <2>1, <2>2
<1>7. ASSUME NEW p \in Invocations, RecordAudit(p) PROVE QueueInv'
  BY <1>1, <1>7, RecordAuditStep
<1>8. ASSUME NEW p \in Invocations, ClaimUpdate(p) PROVE QueueInv'
  BY <1>1, <1>8, ClaimStep
<1>9. ASSUME NEW p \in Invocations, TransitionToRunning(p) PROVE QueueInv'
  BY <1>1, <1>9, TransitionStep
<1>10. ASSUME NEW p \in Invocations, BundleStage(p) PROVE QueueInv'
  BY <1>1, <1>10, BundleStep
<1>11. ASSUME NEW p \in Invocations, Finalize(p) PROVE QueueInv'
  BY <1>1, <1>11, FinalizeStep
<1>12. ASSUME NEW i \in Invocations, Withdraw(i) PROVE QueueInv'
  BY <1>1, <1>12, WithdrawStep
<1>13. CASE UNCHANGED vars
  BY <1>1, <1>13 DEF vars, durable, local, QueueInv, RowsInv, ProcessInv, Knows, Holds,
     RowsAreInserted, RunsServeTheirItem, ClaimsAreOwned, OutcomesAreRecorded, OneOpenRow,
     SettledTogether, RowMatchesRun, AuditMatchesRun
<1> QED
  BY <1>2, <1>3, <1>4, <1>5, <1>6, <1>7, <1>8, <1>9, <1>10, <1>11, <1>12, <1>13
  DEF Next, Step, Quiet

THEOREM QueueInvariant == Spec => []QueueInv
  BY InvInit, InvStep, PTL DEF Spec

-----------------------------------------------------------------------------
(* What a step can write: the seven ways in which rows change.             *)

InsertsRow(i) ==
    /\ queue[i] = NoRow
    /\ \A j \in Invocations : queue[j].status = "queued" => TopicOf[j] # TopicOf[i]
    /\ queue' = [queue EXCEPT ![i] = [NoRow EXCEPT !.status = "queued"]]
    /\ UNCHANGED <<runs, audit>>

PlansRun(p) ==
    /\ runs[p].status = "absent"
    /\ runs' = [runs EXCEPT ![p] = [status |-> "planned", request |-> item[p]]]
    /\ UNCHANGED <<queue, audit>>

RecordsPlan(p) ==
    /\ runs[p].status = "planned"
    /\ audit' = [audit EXCEPT ![p] = @ \union {"planned"}]
    /\ UNCHANGED <<queue, runs>>

ClaimsItem(p, k) ==
    /\ Claimable(k)
    /\ runs[p].status = "planned" /\ runs[p].request = k
    /\ queue' = [queue EXCEPT ![k] = Claimed(@, p)]
    /\ UNCHANGED <<runs, audit>>

StartsWork(p) ==
    /\ runs[p].status \in {"planned", "running"}
    /\ runs' = [runs EXCEPT ![p].status = "running"]
    /\ UNCHANGED <<queue, audit>>

SettlesItem(p, k, v) ==
    /\ pc[p] = "commit"
    /\ runs[p].status \in {"planned", "running"} /\ runs[p].request = k
    /\ queue[k].status = "queued" /\ queue[k].exec = "claimed" /\ queue[k].run = p
    /\ runs' = [runs EXCEPT ![p].status = RunOutcome(v)]
    /\ queue' = [queue EXCEPT ![k] = Settled(@, p, v)]
    /\ audit' = [audit EXCEPT ![p] = @ \union {RunOutcome(v)}]

WithdrawsItem(k) ==
    /\ queue[k].status = "queued"
    /\ \E status \in {"dispatched", "cancelled"} : queue' = [queue EXCEPT ![k].status = status]
    /\ UNCHANGED <<runs, audit>>

LEMMA Writes ==
    ASSUME QueueInv, [Next]_vars
    PROVE  \/ UNCHANGED <<queue, runs, audit>>
           \/ \E i \in Invocations : InsertsRow(i) \/ WithdrawsItem(i)
           \/ \E p \in Invocations : PlansRun(p) \/ RecordsPlan(p) \/ StartsWork(p)
           \/ \E p, k \in Invocations : ClaimsItem(p, k) \/ SettlesItem(p, k, verdict[p])
<1> DEFINE Goal == \/ UNCHANGED <<queue, runs, audit>>
                   \/ \E i \in Invocations : InsertsRow(i) \/ WithdrawsItem(i)
                   \/ \E p \in Invocations : PlansRun(p) \/ RecordsPlan(p) \/ StartsWork(p)
                   \/ \E p, k \in Invocations : ClaimsItem(p, k) \/ SettlesItem(p, k, verdict[p])
<1> SUFFICES Goal
  OBVIOUS
<1> USE DEF Goto, durable, local
<1>1. ASSUME NEW p \in Invocations, Quiet(p) PROVE Goal
  BY <1>1 DEF Quiet, StartLookup, StartInsertRequest, ClaimRead, Reconcile, OrchestratorBegin,
     ReserveProviderCall, ProviderAnswers, SearchCached, StagesSucceed, OrchestratorSucceeds,
     StageFails, Classify, PrepareAudit, ContextEnds, Expire, StoreFails, Crash, Replay
<1>2. ASSUME NEW p \in Invocations, EnqueueLookup(p) \/ EnqueueRelookup(p) \/ BundleStage(p)
      PROVE Goal
  BY <1>2 DEF EnqueueLookup, EnqueueRelookup, BundleStage
<1>3. ASSUME NEW p \in Invocations, EnqueueInsert(p) PROVE Goal
  <2>1. queue[p] = NoRow
    BY <1>3 DEF EnqueueInsert, QueueInv, ProcessInv, Knows, RowsInv, RowsAreInserted
  <2> QED BY <1>3, <2>1 DEF EnqueueInsert, Active, InsertsRow
<1>4. ASSUME NEW p \in Invocations, StartInsertRun(p) PROVE Goal
  <2>1. runs[p].status = "absent"
    BY <1>4 DEF StartInsertRun, QueueInv, ProcessInv, Knows, Preparing
  <2> QED BY <1>4, <2>1 DEF StartInsertRun, PlansRun
<1>5. ASSUME NEW p \in Invocations, RecordAudit(p) PROVE Goal
  <2>1. runs[p].status = "planned"
    BY <1>5 DEF RecordAudit, QueueInv, ProcessInv, Knows
  <2> QED BY <1>5, <2>1 DEF RecordAudit, RecordsPlan
<1>6. ASSUME NEW p \in Invocations, ClaimUpdate(p) PROVE Goal
  <2>1. /\ item[p] \in Invocations
        /\ Claimable(item[p]) => runs[p].status = "planned" /\ runs[p].request = item[p]
    BY <1>6 DEF ClaimUpdate, Claimable, QueueInv, TypeInv, TypeOK, HasItem, Started, Run,
       RunStatus, Terminal, ProcessInv, Knows, Holds, Consuming, RowsInv, ClaimsAreOwned,
       RunsServeTheirItem
  <2> QED BY <1>6, <2>1 DEF ClaimUpdate, ClaimsItem
<1>7. ASSUME NEW p \in Invocations, TransitionToRunning(p) PROVE Goal
  <2>1. runs[p].status # "absent"
    BY <1>7 DEF TransitionToRunning, QueueInv, ProcessInv, Knows, Orchestrating
  <2> QED BY <1>7, <2>1 DEF TransitionToRunning, OrchestratorFails, TransitionAllowed,
              StartsWork, Terminal
<1>8. ASSUME NEW p \in Invocations, Finalize(p) PROVE Goal
  <2>1. /\ item[p] \in Invocations /\ Holds(p)
        /\ runs[p].status \in {"planned", "running"} /\ runs[p].request = item[p]
    BY <1>8 DEF Finalize, QueueInv, TypeInv, HasItem, Started, ProcessInv, Knows, Holds,
       Consuming, RowsInv, ClaimsAreOwned, RunsServeTheirItem
  <2> QED BY <1>8, <2>1 DEF Finalize, Finalizable, Holds, SettlesItem
<1>9. ASSUME NEW i \in Invocations, Withdraw(i) PROVE Goal
  BY <1>9 DEF Withdraw, WithdrawsItem
<1>10. CASE UNCHANGED vars
  BY <1>10 DEF vars
<1> QED
  BY <1>1, <1>2, <1>3, <1>4, <1>5, <1>6, <1>7, <1>8, <1>9, <1>10 DEF Next, Step, Quiet

-----------------------------------------------------------------------------
(* Attempts are counted.                                                    *)

\* The runs that ended for an item, or hold its claim.
Tries(i) == {r \in Invocations :
    /\ runs[r].request = i
    /\ runs[r].status \in Terminal \/ (queue[i].exec = "claimed" /\ queue[i].run = r)}

TriesInv == \A i \in Invocations :
    IsFiniteSet(Tries(i)) /\ queue[i].attempts = Cardinality(Tries(i))

LEMMA TriesInit == Init => TriesInv
<1> SUFFICES ASSUME Init, NEW i \in Invocations
             PROVE  IsFiniteSet(Tries(i)) /\ queue[i].attempts = Cardinality(Tries(i))
  BY DEF TriesInv
<1>1. Tries(i) = {} /\ queue[i].attempts = 0
  BY NoIdAssumption DEF Init, NoRow, Tries, Terminal
<1> QED BY <1>1, FS_EmptySet

\* Only a claim adds a run, and it adds one to the count.
LEMMA TriesStep ==
    ASSUME QueueInv, [Next]_vars, NEW i \in Invocations
    PROVE  \/ Tries(i)' = Tries(i) /\ queue'[i].attempts = queue[i].attempts
           \/ \E p \in Invocations \ Tries(i) :
                /\ Tries(i)' = Tries(i) \union {p}
                /\ queue'[i].attempts = queue[i].attempts + 1
<1> DEFINE Goal == \/ Tries(i)' = Tries(i) /\ queue'[i].attempts = queue[i].attempts
                   \/ \E p \in Invocations \ Tries(i) :
                        /\ Tries(i)' = Tries(i) \union {p}
                        /\ queue'[i].attempts = queue[i].attempts + 1
<1> SUFFICES Goal
  OBVIOUS
<1>1. /\ queue \in [Invocations -> Row] /\ runs \in [Invocations -> Run]
      /\ queue[i] \in Row
  BY DEF QueueInv, TypeInv, TypeOK
<1>2. CASE UNCHANGED <<queue, runs, audit>>
  BY <1>2 DEF Tries
<1>3. ASSUME NEW k \in Invocations, InsertsRow(k) PROVE Goal
  <2>1. queue'[k] = [NoRow EXCEPT !.status = "queued"] /\ \A j \in Invocations : j # k => queue'[j] = queue[j]
    BY <1>1, <1>3 DEF InsertsRow
  <2>2. /\ queue[i].exec = queue'[i].exec /\ queue'[i].run = queue[i].run
        /\ queue'[i].attempts = queue[i].attempts
    BY <1>3, <2>1 DEF InsertsRow, NoRow
  <2> QED BY <1>3, <2>2 DEF InsertsRow, Tries
<1>4. ASSUME NEW k \in Invocations, WithdrawsItem(k) PROVE Goal
  <2>1. /\ queue[i].exec = queue'[i].exec /\ queue'[i].run = queue[i].run
        /\ queue'[i].attempts = queue[i].attempts
    BY <1>1, <1>4 DEF WithdrawsItem, Row
  <2> QED BY <1>4, <2>1 DEF WithdrawsItem, Tries
<1>5. ASSUME NEW p \in Invocations, PlansRun(p) PROVE Goal
  <2>1. /\ runs'[p] = [status |-> "planned", request |-> item[p]]
        /\ \A r \in Invocations : r # p => runs'[r] = runs[r]
        /\ runs[p].status = "absent" /\ UNCHANGED queue
    BY <1>1, <1>5 DEF PlansRun
  <2>2. ~(queue[i].exec = "claimed" /\ queue[i].run = p)
    BY <2>1 DEF QueueInv, RowsInv, ClaimsAreOwned
  <2>3. p \notin Tries(i) /\ p \notin Tries(i)'
    BY <2>1, <2>2 DEF Tries, Terminal
  <2>4. \A r \in Invocations : r # p => (r \in Tries(i) <=> r \in Tries(i)')
    BY <2>1 DEF Tries
  <2>5. Tries(i)' = Tries(i)
    BY <2>3, <2>4 DEF Tries
  <2> QED BY <2>1, <2>5
<1>6. ASSUME NEW p \in Invocations, RecordsPlan(p) PROVE Goal
  BY <1>6 DEF RecordsPlan, Tries
<1>7. ASSUME NEW p \in Invocations, StartsWork(p) PROVE Goal
  <2>1. /\ \A r \in Invocations : runs'[r].request = runs[r].request
        /\ \A r \in Invocations : runs'[r].status \in Terminal <=> runs[r].status \in Terminal
        /\ UNCHANGED queue
    BY <1>1, <1>7 DEF StartsWork, Run, Terminal
  <2> QED BY <2>1 DEF Tries
<1>8. ASSUME NEW p \in Invocations, NEW k \in Invocations, ClaimsItem(p, k) PROVE Goal
  <2>1. CASE i # k
    <3>1. queue'[i] = queue[i] /\ UNCHANGED runs
      BY <1>1, <1>8, <2>1 DEF ClaimsItem
    <3> QED BY <3>1 DEF Tries
  <2>2. CASE i = k
    <3>1. /\ queue'[i] = Claimed(queue[i], p) /\ UNCHANGED runs
          /\ runs[p].status = "planned" /\ runs[p].request = i
          /\ queue[i].exec # "claimed"
      BY <1>1, <1>8, <2>2 DEF ClaimsItem, Claimable
    <3>2. /\ queue'[i].exec = "claimed" /\ queue'[i].run = p
          /\ queue'[i].attempts = queue[i].attempts + 1
      BY <1>1, <3>1 DEF Claimed, Row
    <3>3. p \notin Tries(i) /\ Tries(i)' = Tries(i) \union {p}
      BY <3>1, <3>2 DEF Tries, Terminal
    <3> QED BY <3>2, <3>3
  <2> QED BY <2>1, <2>2
<1>9. ASSUME NEW p \in Invocations, NEW k \in Invocations, SettlesItem(p, k, verdict[p]) PROVE Goal
  <2>0. RunOutcome(verdict[p]) \in Terminal
    BY Outcomes
  <2>1. /\ \A r \in Invocations : runs'[r].request = runs[r].request
        /\ \A r \in Invocations : r # p => runs'[r].status = runs[r].status
        /\ runs[p].request = k /\ runs'[p].status \in Terminal
        /\ queue[k].exec = "claimed" /\ queue[k].run = p
    BY <1>1, <1>9, <2>0 DEF SettlesItem, Run
  <2>2. CASE i # k
    <3>1. queue'[i] = queue[i]
      BY <1>1, <1>9, <2>2 DEF SettlesItem
    <3>2. Tries(i)' = Tries(i)
      BY <2>1, <2>2, <3>1 DEF Tries
    <3> QED BY <3>1, <3>2
  <2>3. CASE i = k
    <3>1. queue'[i] = Settled(queue[i], p, verdict[p])
      BY <1>1, <1>9, <2>3 DEF SettlesItem
    <3>2. /\ queue'[i].run = queue[i].run /\ queue'[i].attempts = queue[i].attempts
          /\ queue'[i].exec = ExecOutcome(verdict[p])
      BY <1>1, <3>1 DEF Settled, Row
    <3>3. queue'[i].exec # "claimed"
      BY <3>2, OutcomeTypes DEF Terminal
    <3>4. Tries(i)' = Tries(i)
      BY <2>1, <2>3, <3>2, <3>3 DEF Tries
    <3> QED BY <3>2, <3>4
  <2> QED BY <2>2, <2>3
<1> HIDE DEF Goal
<1> QED BY <1>2, <1>3, <1>4, <1>5, <1>6, <1>7, <1>8, <1>9, Writes

-----------------------------------------------------------------------------
(* The safety properties. *)

\* Whatever crashes, expires, fails or is withdrawn, a settled queue row, the
\* run it names and its bundle agree: the finalisation transaction is the
\* only writer of either, and it checks the claim it settles.
THEOREM SettlementIsAtomic == Spec => []SettledTogether
  BY QueueInvariant, PTL DEF QueueInv, RowsInv

\* A run has a terminal audit record exactly when it is terminal.
THEOREM AuditIsFaithful == Spec => []AuditMatchesRun
  BY QueueInvariant, PTL DEF QueueInv, RowsInv

\* A completed run is the recorded result of the item it was started for.
THEOREM CompletionIsRecorded == Spec => []CompletedRunIsTheItemsResult
<1>1. QueueInv => CompletedRunIsTheItemsResult
  <2> SUFFICES ASSUME QueueInv, NEW r \in Invocations, runs[r].status = "completed"
               PROVE  LET row == queue[runs[r].request] IN
                      row.exec = "completed" /\ row.run = r /\ row.bundle = r
    BY DEF CompletedRunIsTheItemsResult
  <2>1. runs[r].request = item[r] /\ item[r] \in Invocations
    BY DEF QueueInv, RowsInv, RunsServeTheirItem, TypeInv, HasItem
  <2>2. queue[item[r]].exec = "completed" /\ queue[item[r]].run = r
    BY DEF QueueInv, RowsInv, OutcomesAreRecorded
  <2>3. RowMatchesRun(item[r])
    BY <2>1 DEF QueueInv, RowsInv, SettledTogether
  <2> QED BY <2>1, <2>2, <2>3 DEF RowMatchesRun
<1> QED BY <1>1, QueueInvariant, PTL

\* A running run holds the claim of its item, and two running runs of one
\* topic never both work on an open item.
THEOREM WorkIsExclusive == Spec => []OneWorkerPerTopic
<1>1. QueueInv => OneWorkerPerTopic
  <2> SUFFICES ASSUME QueueInv PROVE OneWorkerPerTopic
    OBVIOUS
  <2>1. \A r \in Invocations : runs[r].status = "running" =>
            /\ runs[r].request \in Invocations
            /\ queue[runs[r].request].exec = "claimed" /\ queue[runs[r].request].run = r
    BY DEF QueueInv, RowsInv, RunsServeTheirItem, ClaimsAreOwned, Holds, TypeInv, HasItem
  <2> QED BY <2>1 DEF OneWorkerPerTopic, QueueInv, RowsInv, OneOpenRow
<1> QED BY <1>1, QueueInvariant, PTL

\* The attempts of an item are the runs that were spent on it, one each: no
\* claim is counted twice, lost or handed on without a run of its own.
THEOREM AttemptsAreCounted == Spec => []AttemptsAreRuns
<1>1. QueueInv /\ TriesInv /\ [Next]_vars => TriesInv'
  <2> SUFFICES ASSUME QueueInv, TriesInv, [Next]_vars, NEW i \in Invocations
               PROVE  IsFiniteSet(Tries(i)') /\ queue'[i].attempts = Cardinality(Tries(i)')
    BY DEF TriesInv
  <2>1. IsFiniteSet(Tries(i)) /\ queue[i].attempts = Cardinality(Tries(i))
    BY DEF TriesInv
  <2>2. CASE Tries(i)' = Tries(i) /\ queue'[i].attempts = queue[i].attempts
    BY <2>1, <2>2
  <2>3. ASSUME NEW p \in Invocations \ Tries(i), Tries(i)' = Tries(i) \union {p},
               queue'[i].attempts = queue[i].attempts + 1
        PROVE  IsFiniteSet(Tries(i)') /\ queue'[i].attempts = Cardinality(Tries(i)')
    BY <2>1, <2>3, FS_AddElement
  <2> QED BY <2>2, <2>3, TriesStep
<1>2. TriesInv => AttemptsAreRuns
  BY DEF TriesInv, AttemptsAreRuns, Tries
<1> QED BY <1>1, <1>2, TriesInit, QueueInvariant, PTL DEF Spec

\* A terminal run, its audit trail and the item that recorded it never
\* change: no transition leaves a terminal status, the claim takes pending
\* and retryable items only, and a withdrawal queued ones.
THEOREM TerminalStaysFinal == Spec => TerminalIsFinal
<1> DEFINE Final(r) ==
        /\ runs[r].status \in Terminal => runs'[r] = runs[r] /\ audit'[r] = audit[r]
        /\ queue[r].exec \in Terminal => queue'[r] = queue[r]
<1>1. QueueInv /\ [Next]_vars => \A r \in Invocations : Final(r)
  <2> SUFFICES ASSUME QueueInv, [Next]_vars, NEW r \in Invocations PROVE Final(r)
    OBVIOUS
  <2>0. /\ queue \in [Invocations -> Row] /\ runs \in [Invocations -> Run]
        /\ audit \in [Invocations -> SUBSET RunStatus]
        /\ queue[r].exec \in Terminal => queue[r].status # "queued"
    BY DEF QueueInv, TypeInv, TypeOK, RowsInv, SettledTogether, RowMatchesRun
  <2>1. CASE UNCHANGED <<queue, runs, audit>>
    BY <2>1
  <2>2. ASSUME NEW i \in Invocations, InsertsRow(i) \/ WithdrawsItem(i) PROVE Final(r)
    BY <2>0, <2>2 DEF InsertsRow, WithdrawsItem, NoRow, Terminal
  <2>3. ASSUME NEW p \in Invocations, PlansRun(p) \/ RecordsPlan(p) \/ StartsWork(p)
        PROVE Final(r)
    BY <2>0, <2>3 DEF PlansRun, RecordsPlan, StartsWork, Terminal
  <2>4. ASSUME NEW p \in Invocations, NEW k \in Invocations,
               ClaimsItem(p, k) \/ SettlesItem(p, k, verdict[p])
        PROVE Final(r)
    BY <2>0, <2>4 DEF ClaimsItem, Claimable, SettlesItem, Terminal
  <2> QED BY <2>1, <2>2, <2>3, <2>4, Writes
<1> QED BY <1>1, QueueInvariant, PTL DEF TerminalIsFinal, Spec

\* Only the process that holds a claim gives it up, in the transaction that
\* ends its run.
THEOREM ClaimsEndWithRuns == Spec => ClaimEndsWithItsRun
<1> DEFINE Kept(i) == queue[i].exec = "claimed" =>
        \/ queue'[i].exec = "claimed" /\ queue'[i].run = queue[i].run
        \/ pc[queue[i].run] = "commit" /\ runs'[queue[i].run].status \in Terminal
<1>1. QueueInv /\ [Next]_vars => \A i \in Invocations : Kept(i)
  <2> SUFFICES ASSUME QueueInv, [Next]_vars, NEW i \in Invocations PROVE Kept(i)
    OBVIOUS
  <2>0. queue \in [Invocations -> Row] /\ runs \in [Invocations -> Run] /\ queue[i] \in Row
    BY DEF QueueInv, TypeInv, TypeOK
  <2>1. CASE UNCHANGED <<queue, runs, audit>>
    BY <2>1
  <2>2. ASSUME NEW j \in Invocations, InsertsRow(j) \/ WithdrawsItem(j) PROVE Kept(i)
    BY <2>0, <2>2 DEF InsertsRow, WithdrawsItem, NoRow, Row
  <2>3. ASSUME NEW p \in Invocations, PlansRun(p) \/ RecordsPlan(p) \/ StartsWork(p)
        PROVE Kept(i)
    BY <2>0, <2>3 DEF PlansRun, RecordsPlan, StartsWork
  <2>4. ASSUME NEW p \in Invocations, NEW k \in Invocations, ClaimsItem(p, k) PROVE Kept(i)
    BY <2>0, <2>4 DEF ClaimsItem, Claimable
  <2>5. ASSUME NEW p \in Invocations, NEW k \in Invocations, SettlesItem(p, k, verdict[p])
        PROVE Kept(i)
    <3>1. runs'[p].status \in Terminal
      BY <2>0, <2>5, Outcomes DEF SettlesItem, Run
    <3> QED BY <2>0, <2>5, <3>1 DEF SettlesItem
  <2> QED BY <2>1, <2>2, <2>3, <2>4, <2>5, Writes
<1> QED BY <1>1, QueueInvariant, PTL DEF ClaimEndsWithItsRun, Spec

-----------------------------------------------------------------------------
(* Claims that are left behind.  A claim has no lease: one that its holder  *)
(* does not settle blocks its topic for good.                               *)

\* Why an ended invocation still holds a claim: it died, it was called again, the
\* item was withdrawn under it, or its deadline passed where the consumer does not
\* settle: outside the orchestrator, or during a call to a provider, which leaves
\* the search account behind the ledger.
Reason(i, r) ==
    \/ pc[r] = "crashed"
    \/ replayed[r]
    \/ queue[i].status # "queued"
    \/ expired[r] /\ (verdict[r] # "cancelled" \/ ~accounted[r])

AbandonedForAReason ==
    \A i, r \in Invocations :
        queue[i].exec = "claimed" /\ queue[i].run = r /\ pc[r] \in Ended => Reason(i, r)

Researching == {"search", "provider", "stages", "bundle", "provenance"}

\* What an invocation that is called once may rely on.
Remembers(p) ==
    /\ ~accounted[p] => expired[p] \/ pc[p] \in {"provider", "crashed"}
    /\ pc[p] \in {"audit", "claim", "reconcile"} \/ (pc[p] = "claimed" /\ ~acquired[p]) => ~Holds(p)
    /\ pc[p] \in Preparing \union {"claim", "claimed", "reconcile"} => verdict[p] = "none"
    /\ pc[p] \in {"claim", "claimed", "classify", "settle"} \union Orchestrating => "planned" \in audit[p]
    /\ pc[p] \in Researching => runs[p].status = "running"
    /\ pc[p] \in {"settle", "commit"} /\ verdict[p] = "success" =>
         runs[p].status = "running" /\ p \in bundles
    /\ pc[p] = "classify" => verdict[p] # "success"
    /\ pc[p] \in {"classify", "settle", "commit"} \union Orchestrating =>
         attempts[p] = queue[item[p]].attempts
    /\ pc[p] \in {"done", "stopped"} /\ runs[p].status # "absent" /\ Holds(p) => Reason(item[p], p)

MemoryInv == \A p \in Invocations : replayed[p] \/ Remembers(p)

\* What other processes leave alone.
Untouched(p) ==
    /\ pc'[p] = pc[p] /\ item'[p] = item[p] /\ acquired'[p] = acquired[p]
    /\ attempts'[p] = attempts[p] /\ accounted'[p] = accounted[p] /\ verdict'[p] = verdict[p]
    /\ expired'[p] = expired[p] /\ replayed'[p] = replayed[p]
    /\ runs'[p] = runs[p] /\ audit'[p] = audit[p] /\ bundles \subseteq bundles'
    /\ item[p] \in Invocations =>
         /\ Holds(p)' = Holds(p)
         /\ Holds(p) =>
              /\ queue'[item[p]].attempts = queue[item[p]].attempts
              /\ queue'[item[p]].status = "queued" => queue[item[p]].status = "queued"

Moves(q) == Step(q) \/ Expire(q) \/ StoreFails(q) \/ Crash(q) \/ Replay(q)

LEMMA ElsewhereLocal ==
    ASSUME QueueInv, NEW p \in Invocations, NEW q \in Invocations \ {p}, Moves(q)
    PROVE  /\ pc'[p] = pc[p] /\ item'[p] = item[p] /\ acquired'[p] = acquired[p]
           /\ attempts'[p] = attempts[p] /\ accounted'[p] = accounted[p] /\ verdict'[p] = verdict[p]
           /\ expired'[p] = expired[p] /\ replayed'[p] = replayed[p]
           /\ runs'[p] = runs[p] /\ audit'[p] = audit[p] /\ bundles \subseteq bundles'
<1> USE DEF Goto, durable, local, OrchestratorFails
<1>1. TypeOK
  BY DEF QueueInv, TypeInv
<1>2. CASE EnqueueLookup(q) \/ EnqueueInsert(q) \/ EnqueueRelookup(q)
  BY <1>1, <1>2 DEF TypeOK, EnqueueLookup, EnqueueInsert, EnqueueRelookup
<1>3. CASE StartLookup(q) \/ StartInsertRequest(q) \/ StartInsertRun(q) \/ RecordAudit(q)
  BY <1>1, <1>3 DEF TypeOK, StartLookup, StartInsertRequest, StartInsertRun, RecordAudit
<1>4. CASE ClaimUpdate(q) \/ ClaimRead(q) \/ Reconcile(q)
  BY <1>1, <1>4 DEF TypeOK, ClaimUpdate, ClaimRead, Reconcile
<1>5. CASE OrchestratorBegin(q) \/ TransitionToRunning(q)
  BY <1>1, <1>5 DEF TypeOK, OrchestratorBegin, TransitionToRunning
<1>6. CASE ReserveProviderCall(q) \/ ProviderAnswers(q) \/ SearchCached(q) \/ StagesSucceed(q)
  BY <1>1, <1>6 DEF TypeOK, ReserveProviderCall, ProviderAnswers, SearchCached, StagesSucceed
<1>7. CASE BundleStage(q) \/ OrchestratorSucceeds(q) \/ StageFails(q)
  BY <1>1, <1>7 DEF TypeOK, BundleStage, OrchestratorSucceeds, StageFails
<1>8. CASE Classify(q) \/ PrepareAudit(q) \/ Finalize(q)
  BY <1>1, <1>8 DEF TypeOK, Classify, PrepareAudit, Finalize
<1>9. CASE ContextEnds(q) \/ Expire(q) \/ StoreFails(q)
  BY <1>1, <1>9 DEF TypeOK, ContextEnds, Expire, StoreFails
<1>10. CASE Crash(q) \/ Replay(q)
  BY <1>1, <1>10 DEF TypeOK, Crash, Replay
<1> QED
  BY <1>2, <1>3, <1>4, <1>5, <1>6, <1>7, <1>8, <1>9, <1>10 DEF Moves, Step

LEMMA ElsewhereRows ==
    ASSUME QueueInv, NEW p \in Invocations, item[p] \in Invocations, item'[p] = item[p],
           \/ \E q \in Invocations \ {p} : Moves(q)
           \/ \E i \in Invocations : Withdraw(i)
    PROVE  /\ Holds(p)' = Holds(p)
           /\ Holds(p) =>
                /\ queue'[item[p]].attempts = queue[item[p]].attempts
                /\ queue'[item[p]].status = "queued" => queue[item[p]].status = "queued"
<1> USE DEF durable, local
<1> DEFINE k == item[p]
           Kept == /\ Holds(p)' = Holds(p)
                   /\ Holds(p) =>
                        /\ queue'[k].attempts = queue[k].attempts
                        /\ queue'[k].status = "queued" => queue[k].status = "queued"
<1>1. queue \in [Invocations -> Row] /\ k \in Invocations /\ k # NoId
  BY NoIdAssumption DEF QueueInv, TypeInv, TypeOK
<1>2. CASE queue'[k] = queue[k]
  BY <1>2 DEF Holds
<1>3. ASSUME NEW q \in Invocations \ {p}, EnqueueInsert(q) PROVE Kept
  <2>1. queue[q].status = "absent" /\ queue[k].status # "absent"
    BY <1>1, <1>3 DEF EnqueueInsert, QueueInv, ProcessInv, Knows, RowsInv, RowsAreInserted
  <2>2. queue'[k] = queue[k]
    BY <1>1, <1>3, <2>1 DEF EnqueueInsert
  <2>3. QED
    BY <1>2, <2>2
<1>4. ASSUME NEW q \in Invocations \ {p}, ClaimUpdate(q) PROVE Kept
  <2>1. CASE item[q] = k /\ Claimable(k)
    <3>1. queue'[k] = Claimed(queue[k], q) /\ queue[k].exec # "claimed"
      BY <1>1, <1>4, <2>1 DEF ClaimUpdate, Claimable
    <3>2. queue'[k].run = q
      BY <1>1, <3>1 DEF Claimed, Row
    <3>3. QED
      BY <2>1, <3>1, <3>2 DEF Holds
  <2>2. CASE item[q] # k \/ ~Claimable(k)
    <3>1. queue'[k] = queue[k]
      BY <1>1, <1>4, <2>2 DEF ClaimUpdate
    <3>2. QED
      BY <1>2, <3>1
  <2>3. QED
    BY <2>1, <2>2
<1>5. ASSUME NEW q \in Invocations \ {p}, Finalize(q) PROVE Kept
  <2>1. CASE item[q] = k /\ Finalizable(q)
    <3>1. queue'[k] = Settled(queue[k], q, verdict[q]) /\ queue[k].run = q
      BY <1>1, <1>5, <2>1 DEF Finalize, Finalizable
    <3>2. queue'[k].run = q
      BY <1>1, <3>1 DEF Settled, Row
    <3>3. QED
      BY <2>1, <3>1, <3>2 DEF Holds
  <2>2. CASE item[q] # k \/ ~Finalizable(q)
    <3>1. queue'[k] = queue[k]
      BY <1>1, <1>5, <2>2 DEF Finalize
    <3>2. QED
      BY <1>2, <3>1
  <2>3. QED
    BY <2>1, <2>2
<1>6. ASSUME NEW i \in Invocations, Withdraw(i) PROVE Kept
  <2>1. PICK status \in {"dispatched", "cancelled"} : queue' = [queue EXCEPT ![i].status = status]
    BY <1>6 DEF Withdraw
  <2>2. /\ queue'[k].exec = queue[k].exec /\ queue'[k].run = queue[k].run
        /\ queue'[k].attempts = queue[k].attempts
        /\ queue'[k].status = "queued" => queue[k].status = "queued"
    BY <1>1, <2>1 DEF Row
  <2>3. QED
    BY <2>2 DEF Holds
<1>7. ASSUME NEW q \in Invocations, Quiet(q) \/ EnqueueLookup(q) \/ EnqueueRelookup(q) \/ StartInsertRun(q)
                                    \/ RecordAudit(q) \/ TransitionToRunning(q) \/ BundleStage(q)
      PROVE  Kept
  <2>1. queue' = queue
    BY <1>7 DEF Quiet, StartLookup, StartInsertRequest, ClaimRead, Reconcile, OrchestratorBegin,
       ReserveProviderCall, ProviderAnswers, SearchCached, StagesSucceed, OrchestratorSucceeds,
       StageFails, Classify, PrepareAudit, ContextEnds, Expire, StoreFails, Crash, Replay,
       EnqueueLookup, EnqueueRelookup, StartInsertRun, RecordAudit, TransitionToRunning, BundleStage
  <2>2. QED
    BY <1>2, <2>1
<1>8. QED
  BY <1>3, <1>4, <1>5, <1>6, <1>7 DEF Moves, Step, Quiet

LEMMA Elsewhere ==
    ASSUME QueueInv, NEW p \in Invocations,
           \/ \E q \in Invocations \ {p} : Moves(q)
           \/ \E i \in Invocations : Withdraw(i)
    PROVE  Untouched(p)
<1>1. CASE \E q \in Invocations \ {p} : Moves(q)
  <2>1. PICK q \in Invocations \ {p} : Moves(q)
    BY <1>1
  <2>2. QED
    BY <2>1, ElsewhereLocal, ElsewhereRows DEF Untouched
<1>2. CASE \E i \in Invocations : Withdraw(i)
  <2>1. UNCHANGED <<pc, item, acquired, attempts, accounted, verdict, expired, replayed, runs, audit, bundles>>
    BY <1>2 DEF Withdraw, local
  <2>2. QED
    BY <1>2, <2>1, ElsewhereRows DEF Untouched
<1>3. QED
  BY <1>1, <1>2

LEMMA UntouchedRemembers ==
    ASSUME QueueInv, NEW p \in Invocations, Untouched(p), Remembers(p)
    PROVE  Remembers(p)'
<1>1. pc[p] \in Started \/ runs[p].status # "absent" => item[p] \in Invocations
  BY DEF QueueInv, TypeInv, HasItem
<1>2. pc[p] \in Orchestrating \union {"classify", "settle", "commit"} => Holds(p)
  BY DEF QueueInv, ProcessInv, Knows
<1>3. pc[p] \in {"audit", "claim", "claimed", "reconcile", "classify", "settle", "commit"} \union Orchestrating
      => pc[p] \in Started
  BY DEF Started, Consuming
<1>4. (~accounted[p] => expired[p] \/ pc[p] \in {"provider", "crashed"})'
  BY DEF Untouched, Remembers
<1>5. (pc[p] \in {"audit", "claim", "reconcile"} \/ (pc[p] = "claimed" /\ ~acquired[p]) => ~Holds(p))'
  BY <1>1, <1>3 DEF Untouched, Remembers
<1>6. (/\ pc[p] \in Preparing \union {"claim", "claimed", "reconcile"} => verdict[p] = "none"
       /\ pc[p] \in {"claim", "claimed", "classify", "settle"} \union Orchestrating => "planned" \in audit[p]
       /\ pc[p] \in Researching => runs[p].status = "running"
       /\ pc[p] \in {"settle", "commit"} /\ verdict[p] = "success" =>
            runs[p].status = "running" /\ p \in bundles
       /\ pc[p] = "classify" => verdict[p] # "success")'
  BY DEF Untouched, Remembers
<1>7. (pc[p] \in {"classify", "settle", "commit"} \union Orchestrating => attempts[p] = queue[item[p]].attempts)'
  BY <1>1, <1>2, <1>3 DEF Untouched, Remembers
<1>8. (pc[p] \in {"done", "stopped"} /\ runs[p].status # "absent" /\ Holds(p) => Reason(item[p], p))'
  BY <1>1 DEF Untouched, Remembers, Reason
<1>9. QED
  BY <1>4, <1>5, <1>6, <1>7, <1>8 DEF Remembers

\* The process's own steps, by the stage it is in.
LEMMA PreparesRemembers ==
    ASSUME QueueInv, QueueInv', NEW p \in Invocations, Remembers(p),
           \/ EnqueueLookup(p) \/ EnqueueInsert(p) \/ EnqueueRelookup(p)
           \/ StartLookup(p) \/ StartInsertRequest(p) \/ StartInsertRun(p) \/ RecordAudit(p)
    PROVE  Remembers(p)'
<1> USE DEF Goto, durable, local
<1>1. TypeOK /\ Knows(p)
  BY DEF QueueInv, TypeInv, ProcessInv
<1>2. pc[p] \in Preparing /\ verdict[p] = "none" /\ verdict'[p] = "none"
      /\ accounted'[p] = accounted[p] /\ expired'[p] = expired[p]
  BY <1>1 DEF Remembers, Preparing, EnqueueLookup, EnqueueInsert, EnqueueRelookup, StartLookup,
     StartInsertRequest, StartInsertRun, RecordAudit
<1>3. pc'[p] \in Preparing \union {"claim", "stopped"}
  BY <1>1 DEF TypeOK, Preparing, EnqueueLookup, EnqueueInsert, EnqueueRelookup, StartLookup,
     StartInsertRequest, StartInsertRun, RecordAudit
<1>4. pc'[p] = "stopped" => runs'[p].status = "absent"
  BY <1>1 DEF TypeOK, Knows, Preparing, EnqueueLookup, EnqueueInsert, EnqueueRelookup, StartLookup,
     StartInsertRequest, StartInsertRun, RecordAudit
<1>5. pc'[p] = "claim" => "planned" \in audit'[p] /\ ~Holds(p)'
  <2>1. SUFFICES ASSUME pc'[p] = "claim" PROVE "planned" \in audit'[p] /\ ~Holds(p)'
    OBVIOUS
  <2>2. RecordAudit(p)
    BY <1>1, <2>1 DEF TypeOK, EnqueueLookup, EnqueueInsert, EnqueueRelookup, StartLookup,
       StartInsertRequest, StartInsertRun
  <2>3. runs[p].status = "planned" /\ ~Holds(p)
    BY <1>1, <2>2 DEF RecordAudit, Knows, Remembers
  <2>4. QED
    BY <1>1, <2>2, <2>3 DEF RecordAudit, Holds, TypeOK
<1>6. pc'[p] = "audit" => ~Holds(p)'
  <2>1. SUFFICES ASSUME pc'[p] = "audit" PROVE ~Holds(p)'
    OBVIOUS
  <2>2. StartInsertRun(p)
    BY <1>1, <2>1 DEF TypeOK, EnqueueLookup, EnqueueInsert, EnqueueRelookup, StartLookup,
       StartInsertRequest, RecordAudit
  <2>3. item[p] \in Invocations /\ runs[p].status = "absent"
    BY <1>1, <2>2 DEF StartInsertRun, Knows, Preparing, QueueInv, TypeInv, HasItem, Started
  <2>4. ~Holds(p)
    BY <2>3 DEF QueueInv, RowsInv, ClaimsAreOwned, Holds
  <2>5. QED
    BY <2>2, <2>4 DEF StartInsertRun, Holds
<1>7. QED
  BY <1>2, <1>3, <1>4, <1>5, <1>6 DEF Remembers, Preparing, Researching, Orchestrating

LEMMA ClaimsRemembers ==
    ASSUME QueueInv, NEW p \in Invocations, Remembers(p), ClaimUpdate(p) \/ ClaimRead(p) \/ Reconcile(p)
    PROVE  Remembers(p)'
<1> USE DEF Goto, durable, local
<1>1. TypeOK /\ Knows(p)
  BY DEF QueueInv, TypeInv, ProcessInv
<1>2. PICK k \in Invocations : k = item[p]
  BY DEF ClaimUpdate, ClaimRead, Reconcile, QueueInv, TypeInv, HasItem, Started, Consuming
<1>3. CASE ClaimUpdate(p)
  <2>1. ~Holds(p) /\ verdict[p] = "none" /\ "planned" \in audit[p] /\ pc[p] = "claim"
    BY <1>3 DEF ClaimUpdate, Remembers
  <2>2. /\ pc'[p] = "claimed" /\ item' = item /\ verdict' = verdict /\ audit' = audit
        /\ accounted' = accounted /\ expired' = expired
    BY <1>1, <1>3 DEF ClaimUpdate, TypeOK
  <2>3. ~acquired'[p] => ~Holds(p)'
    BY <1>1, <1>2, <1>3, <2>1, <2>2 DEF ClaimUpdate, Holds, TypeOK
  <2>4. QED
    BY <1>3, <2>1, <2>2, <2>3 DEF Remembers, Researching, Orchestrating, ClaimUpdate
<1>4. CASE ClaimRead(p)
  <2>1. /\ pc[p] = "claimed" /\ verdict[p] = "none" /\ "planned" \in audit[p]
        /\ ~acquired[p] => ~Holds(p)
    BY <1>4 DEF ClaimRead, Remembers
  <2>2. UNCHANGED <<queue, item, verdict, audit, runs, accounted, expired>>
    BY <1>4 DEF ClaimRead
  <2>3. \/ pc'[p] = "begin" /\ attempts'[p] = queue[item[p]].attempts
        \/ pc'[p] \in {"stopped", "reconcile"} /\ ~Holds(p)
    BY <1>1, <1>4, <2>1 DEF ClaimRead, TypeOK
  <2>4. ~accounted[p] => expired[p]
    BY <2>1 DEF Remembers
  <2>5. Holds(p)' = Holds(p)
    BY <2>2 DEF Holds
  <2>6. QED
    BY <2>1, <2>2, <2>3, <2>4, <2>5 DEF Remembers, Researching, Preparing, Orchestrating
<1>5. CASE Reconcile(p)
  <2>1. pc[p] = "reconcile" /\ ~Holds(p) /\ pc'[p] \in {"done", "stopped"}
    BY <1>1, <1>5 DEF Reconcile, Remembers, TypeOK
  <2>2. UNCHANGED <<queue, item, runs, accounted, expired>>
    BY <1>5 DEF Reconcile
  <2>3. ~accounted[p] => expired[p]
    BY <2>1 DEF Remembers
  <2>4. ~Holds(p)'
    BY <2>1, <2>2 DEF Holds
  <2>5. QED
    BY <2>1, <2>2, <2>3, <2>4 DEF Remembers, Researching, Preparing, Orchestrating
<1>6. QED
  BY <1>3, <1>4, <1>5

\* A context that has ended leaves either a verdict that is settled all the same,
\* or a reason.
LEMMA ResearchRemembers ==
    ASSUME QueueInv, NEW p \in Invocations, Remembers(p),
           \/ OrchestratorBegin(p) \/ TransitionToRunning(p)
           \/ ReserveProviderCall(p) \/ ProviderAnswers(p) \/ SearchCached(p)
           \/ StagesSucceed(p) \/ BundleStage(p) \/ OrchestratorSucceeds(p) \/ StageFails(p)
           \/ (ContextEnds(p) /\ pc[p] \in Orchestrating)
           \/ Classify(p)
    PROVE  Remembers(p)'
<1> USE DEF Goto, durable, local, OrchestratorFails
<1>1. TypeOK /\ Knows(p)
  BY DEF QueueInv, TypeInv, ProcessInv
<1>2. /\ pc[p] \in Orchestrating \union {"classify"}
      /\ "planned" \in audit[p] /\ attempts[p] = queue[item[p]].attempts
      /\ runs[p].status \in RunStatus
      /\ runs[p] \in Run
  BY <1>1 DEF OrchestratorBegin, TransitionToRunning, ReserveProviderCall, ProviderAnswers, SearchCached,
     StagesSucceed, BundleStage, OrchestratorSucceeds, StageFails, ContextEnds, Classify, Orchestrating,
     Remembers, TypeOK, Run
<1>3. UNCHANGED <<queue, audit, item, attempts, expired>>
  BY DEF OrchestratorBegin, TransitionToRunning, ReserveProviderCall, ProviderAnswers, SearchCached,
     StagesSucceed, BundleStage, OrchestratorSucceeds, StageFails, ContextEnds, Classify
<1>4. /\ pc'[p] \in Orchestrating \union {"classify", "settle"}
      /\ ~accounted'[p] => expired[p] \/ pc'[p] = "provider"
      /\ pc'[p] \in Researching => runs'[p].status = "running"
      /\ pc'[p] = "settle" /\ verdict'[p] = "success" => runs'[p].status = "running" /\ p \in bundles'
      /\ pc'[p] = "classify" => verdict'[p] # "success"
  <2> USE <1>1, <1>2 DEF TypeOK, Remembers, Researching, Orchestrating, Verdicts
  <2>1. CASE OrchestratorBegin(p)
    BY <2>1 DEF OrchestratorBegin
  <2>2. CASE TransitionToRunning(p)
    BY <2>2 DEF TransitionToRunning, Run
  <2>3. CASE ReserveProviderCall(p)
    BY <2>3 DEF ReserveProviderCall
  <2>4. CASE ProviderAnswers(p)
    BY <2>4 DEF ProviderAnswers
  <2>5. CASE SearchCached(p) \/ StagesSucceed(p) \/ BundleStage(p)
    BY <2>5 DEF SearchCached, StagesSucceed, BundleStage
  <2>6. CASE OrchestratorSucceeds(p)
    BY <2>6 DEF OrchestratorSucceeds
  <2>7. CASE StageFails(p)
    BY <2>7 DEF StageFails
  <2>8. CASE ContextEnds(p) /\ pc[p] \in Orchestrating
    <3>1. expired[p]
      BY <2>8 DEF ContextEnds, ContextOpen
    <3>2. QED
      BY <2>8, <3>1 DEF ContextEnds, Consuming
  <2>9. CASE Classify(p)
    BY <2>9 DEF Classify
  <2>10. QED
    BY <2>1, <2>2, <2>3, <2>4, <2>5, <2>6, <2>7, <2>8, <2>9
<1>5. QED
  BY <1>2, <1>3, <1>4 DEF Remembers, Preparing, Orchestrating

\* Nothing but a withdrawal or a deadline that is not settled stops a settlement.
LEMMA SettlesRemembers ==
    ASSUME QueueInv, NEW p \in Invocations, Remembers(p), PrepareAudit(p) \/ Finalize(p)
    PROVE  Remembers(p)'
<1> USE DEF Goto, durable, local
<1>1. TypeOK /\ Knows(p) /\ item[p] \in Invocations
  BY DEF QueueInv, TypeInv, ProcessInv, HasItem, Started, Consuming, PrepareAudit, Finalize
<1>2. /\ pc[p] \in {"settle", "commit"} /\ Holds(p) /\ ContextOpen(p)
      /\ ~accounted[p] => expired[p]
      /\ verdict[p] = "success" => runs[p].status = "running" /\ p \in bundles
      /\ attempts[p] = queue[item[p]].attempts
      /\ pc[p] = "settle" => "planned" \in audit[p]
  BY <1>1 DEF PrepareAudit, Finalize, Remembers, Knows
<1>3. runs[p].status \in {"planned", "running"} /\ runs[p].request = item[p]
  BY <1>1, <1>2 DEF QueueInv, RowsInv, ClaimsAreOwned, RunsServeTheirItem, Holds
<1>4. UNCHANGED <<item, attempts, accounted, verdict, expired>>
  BY DEF PrepareAudit, Finalize
<1>5. CASE PrepareAudit(p)
  <2>1. CASE Prepared(p)
    <3>1. pc'[p] = "commit" /\ UNCHANGED <<queue, runs, bundles>>
      BY <1>1, <1>5, <2>1 DEF PrepareAudit, TypeOK
    <3>2. QED
      BY <1>2, <1>4, <3>1 DEF Remembers, Researching, Preparing, Orchestrating
  <2>2. CASE ~Prepared(p)
    <3>1. pc'[p] = "stopped" /\ UNCHANGED <<queue, runs, bundles>>
      BY <1>1, <1>5, <2>2 DEF PrepareAudit, TypeOK
    <3>2. ~accounted[p]
      BY <1>2, <1>3, <1>5, <2>2 DEF Prepared, Terminal, PrepareAudit
    <3>3. Reason(item[p], p)'
      BY <1>2, <1>4, <3>2 DEF Reason
    <3>4. QED
      BY <1>2, <1>4, <3>1, <3>3 DEF Remembers, Researching, Preparing, Orchestrating
  <2>3. QED
    BY <2>1, <2>2
<1>6. CASE Finalize(p)
  <2>1. CASE Finalizable(p)
    <3>1. queue'[item[p]] = Settled(queue[item[p]], p, verdict[p]) /\ pc'[p] = "done"
      BY <1>1, <1>6, <2>1 DEF Finalize, TypeOK
    <3>2. queue'[item[p]].exec # "claimed"
      BY <1>1, <3>1, OutcomeTypes DEF Settled, TypeOK, Row, Terminal
    <3>3. ~Holds(p)'
      BY <1>4, <3>2 DEF Holds
    <3>4. QED
      BY <1>2, <1>4, <3>1, <3>3 DEF Remembers, Researching, Preparing, Orchestrating
  <2>2. CASE ~Finalizable(p)
    <3>1. pc'[p] = "stopped" /\ UNCHANGED <<queue, runs, audit, bundles>>
      BY <1>1, <1>6, <2>2 DEF Finalize, TypeOK
    <3>2. TransitionAllowed(runs[p].status, RunOutcome(verdict[p]))
      <4>1. RunOutcome(verdict[p]) \in Terminal /\ (RunOutcome(verdict[p]) = "completed" <=> verdict[p] = "success")
        BY Outcomes
      <4>2. QED
        BY <1>2, <1>3, <4>1 DEF TransitionAllowed, Terminal
    <3>3. queue[item[p]].status # "queued"
      BY <1>2, <1>3, <2>2, <3>2 DEF Finalizable, Holds
    <3>4. Reason(item[p], p)'
      BY <1>4, <3>1, <3>3 DEF Reason
    <3>5. QED
      BY <1>2, <1>4, <3>1, <3>4 DEF Remembers, Researching, Preparing, Orchestrating
  <2>3. QED
    BY <2>1, <2>2
<1>7. QED
  BY <1>5, <1>6

LEMMA FaultsRemember ==
    ASSUME QueueInv, NEW p \in Invocations, Remembers(p),
           Expire(p) \/ Crash(p) \/ (ContextEnds(p) /\ pc[p] \in Consuming)
    PROVE  Remembers(p)'
<1> USE DEF Goto, durable, local
<1>1. TypeOK
  BY DEF QueueInv, TypeInv
<1>2. CASE Expire(p)
  <2>1. UNCHANGED <<pc, queue, runs, audit, bundles, item, acquired, attempts, accounted, verdict>>
        /\ expired'[p] = TRUE /\ pc[p] \notin Ended
    BY <1>1, <1>2 DEF Expire, TypeOK, Orchestrating, Consuming, Ended
  <2>2. QED
    BY <2>1 DEF Remembers, Holds, Ended
<1>3. CASE Crash(p)
  BY <1>1, <1>3 DEF Crash, TypeOK, Remembers, Researching, Preparing, Orchestrating
<1>4. CASE ContextEnds(p) /\ pc[p] \in Consuming
  <2>1. expired[p] /\ (pc[p] \in {"settle", "commit"} => verdict[p] # "cancelled")
    BY <1>4 DEF ContextEnds, ContextOpen
  <2>2. verdict[p] # "cancelled"
    BY <1>4, <2>1 DEF Consuming, Remembers
  <2>3. pc'[p] = "stopped" /\ UNCHANGED <<queue, runs, item, verdict, expired, accounted>>
    BY <1>1, <1>4 DEF ContextEnds, TypeOK, Consuming, Orchestrating
  <2>4. Reason(item[p], p)'
    BY <2>1, <2>2, <2>3 DEF Reason
  <2>5. QED
    BY <2>1, <2>3, <2>4 DEF Remembers, Researching, Preparing, Orchestrating
<1>5. QED
  BY <1>2, <1>3, <1>4

LEMMA MemoryInit == Init => MemoryInv
  BY DEF Init, MemoryInv, Remembers, Researching, Preparing, Orchestrating

LEMMA MemoryStep ==
    ASSUME ~StoreFailures, QueueInv, QueueInv', MemoryInv, [Next]_vars
    PROVE  MemoryInv'
<1> SUFFICES ASSUME NEW p \in Invocations PROVE (replayed[p] \/ Remembers(p))'
  BY DEF MemoryInv
<1>1. replayed \in [Invocations -> BOOLEAN] /\ (replayed[p] \/ Remembers(p))
  BY DEF MemoryInv, QueueInv, TypeInv, TypeOK
<1>2. CASE UNCHANGED vars
  BY <1>1, <1>2 DEF vars, durable, local, Remembers, Holds, Reason
<1>3. CASE \/ \E q \in Invocations \ {p} : Moves(q)
           \/ \E i \in Invocations : Withdraw(i)
  <2>1. Untouched(p)
    BY <1>3, Elsewhere
  <2>2. replayed'[p] = replayed[p]
    BY <2>1 DEF Untouched
  <2>3. QED
    BY <1>1, <2>1, <2>2, UntouchedRemembers
<1>4. CASE Moves(p)
  <2>1. CASE Replay(p)
    BY <1>1, <2>1 DEF Replay
  <2>2. CASE ~Replay(p)
    <3>1. replayed' = replayed
      BY <1>4, <2>2 DEF Moves, Step, local, OrchestratorFails, EnqueueLookup, EnqueueInsert, EnqueueRelookup, StartLookup,
         StartInsertRequest, StartInsertRun, RecordAudit, ClaimUpdate, ClaimRead, Reconcile, OrchestratorBegin,
         TransitionToRunning, ReserveProviderCall, ProviderAnswers, SearchCached, StagesSucceed, BundleStage,
         OrchestratorSucceeds, StageFails, Classify, PrepareAudit, Finalize, ContextEnds, Expire, StoreFails, Crash
    <3>2. SUFFICES ASSUME Remembers(p) PROVE Remembers(p)'
      BY <1>1, <3>1
    <3>3. ContextEnds(p) => pc[p] \in Orchestrating \union Consuming
      BY DEF ContextEnds
    <3>4. ~StoreFails(p)
      BY DEF StoreFails
    <3>5. QED
      BY <1>4, <2>2, <3>2, <3>3, <3>4, PreparesRemembers, ClaimsRemembers, ResearchRemembers, SettlesRemembers,
         FaultsRemember DEF Moves, Step
  <2>3. QED
    BY <2>1, <2>2
<1>5. QED
  BY <1>2, <1>3, <1>4 DEF Next, Moves

\* Without failing statements, an invocation leaves a claim behind only for a reason
\* of its own. In particular a deadline that passes in the orchestrator settles the
\* claim, unless it cuts a provider call off; nobody else's deadline, end or failure
\* is ever a reason.
THEOREM ClaimsAreLeftForAReason ==
    ASSUME ~StoreFailures
    PROVE  Spec => []AbandonedForAReason
<1>1. QueueInv /\ MemoryInv => AbandonedForAReason
  <2> SUFFICES ASSUME QueueInv, MemoryInv, NEW i \in Invocations, NEW r \in Invocations,
                      queue[i].exec = "claimed", queue[i].run = r, pc[r] \in Ended
               PROVE  Reason(i, r)
    BY DEF AbandonedForAReason
  <2>1. item[r] = i /\ runs[r].status # "absent" /\ Holds(r)
    BY DEF QueueInv, RowsInv, ClaimsAreOwned, Holds
  <2>2. QED
    BY <2>1 DEF MemoryInv, Remembers, Reason, Ended
<1>2. QueueInv /\ QueueInv' /\ MemoryInv /\ [Next]_vars => MemoryInv'
  BY MemoryStep
<1>3. QED
  BY <1>1, <1>2, MemoryInit, QueueInvariant, PTL DEF Spec

-----------------------------------------------------------------------------
(* Invocations end: a step of an invocation uses up one of finitely many,  *)
(* and as long as it has not ended it can take one.                        *)

\* How many steps there are from a statement to the end, at most.
Left(s) ==
    CASE s \in Ended -> 0
      [] s = "commit" -> 1
      [] s = "settle" -> 2
      [] s = "classify" -> 3
      [] s = "provenance" -> 4
      [] s = "bundle" -> 5
      [] s = "stages" -> 6
      [] s = "provider" -> 7
      [] s = "search" -> 8
      [] s = "transition" -> 9
      [] s \in {"begin", "reconcile"} -> 10
      [] s = "claimed" -> 11
      [] s = "claim" -> 12
      [] s = "audit" -> 13
      [] s \in {"insertRun", "insertFirstRun"} -> 14
      [] s = "insertRequest" -> 15
      [] s = "start" -> 16
      [] s = "relookup" -> 17
      [] s = "insert" -> 18
      [] s = "lookup" -> 19

\* A call that is still to be repeated counts from the claim on.
Budget(p) == Left(pc[p]) + (IF p \in Replayers /\ ~replayed[p] THEN 13 ELSE 0)

StepsAreCounted ==
    [][\A p \in Invocations : Budget(p)' <= Budget(p) /\ (Step(p) => Budget(p)' < Budget(p))]_vars

\* When a statement of Step can be executed, which for all but one of them is
\* always: a repeated call finds no answer in an execution that never began.
CanStep(p) ==
    \/ pc[p] \in (Steps \ Ended) \ {"reconcile"}
    \/ pc[p] = "reconcile" /\ (expired[p] \/ queue[item[p]].run # p \/ queue[item[p]].exec # "pending")

NobodyIsStuck == \A p \in Invocations : pc[p] \notin Ended => CanStep(p)

\* Only a claimed item names a run.
PendingIsNobodys == \A i \in Invocations : queue[i].exec = "pending" => queue[i].run = NoId

LEMMA StatementsAdvance ==
    ASSUME QueueInv, NEW p \in Invocations, Step(p)
    PROVE  pc[p] \notin Ended /\ Left(pc'[p]) < Left(pc[p]) /\ replayed' = replayed
<1> USE DEF Goto, durable, local, OrchestratorFails, Left, Ended
<1>1. pc \in [Invocations -> Steps]
  BY DEF QueueInv, TypeInv, TypeOK
<1>2. CASE EnqueueLookup(p) \/ EnqueueInsert(p) \/ EnqueueRelookup(p)
  BY <1>1, <1>2 DEF EnqueueLookup, EnqueueInsert, EnqueueRelookup
<1>3. CASE StartLookup(p) \/ StartInsertRequest(p) \/ StartInsertRun(p) \/ RecordAudit(p)
  BY <1>1, <1>3 DEF StartLookup, StartInsertRequest, StartInsertRun, RecordAudit
<1>4. CASE ClaimUpdate(p) \/ ClaimRead(p) \/ Reconcile(p)
  BY <1>1, <1>4 DEF ClaimUpdate, ClaimRead, Reconcile
<1>5. CASE OrchestratorBegin(p) \/ TransitionToRunning(p)
  BY <1>1, <1>5 DEF OrchestratorBegin, TransitionToRunning
<1>6. CASE ReserveProviderCall(p) \/ ProviderAnswers(p) \/ SearchCached(p) \/ StagesSucceed(p)
  BY <1>1, <1>6 DEF ReserveProviderCall, ProviderAnswers, SearchCached, StagesSucceed
<1>7. CASE BundleStage(p) \/ OrchestratorSucceeds(p) \/ StageFails(p)
  BY <1>1, <1>7 DEF BundleStage, OrchestratorSucceeds, StageFails
<1>8. CASE Classify(p) \/ PrepareAudit(p) \/ Finalize(p)
  BY <1>1, <1>8 DEF Classify, PrepareAudit, Finalize
<1>9. CASE ContextEnds(p)
  BY <1>1, <1>9 DEF ContextEnds, Orchestrating, Consuming
<1>10. QED
  BY <1>2, <1>3, <1>4, <1>5, <1>6, <1>7, <1>8, <1>9 DEF Step

LEMMA LeftType ==
    ASSUME NEW s \in Steps
    PROVE  Left(s) \in 0..19
<1>1. CASE s \in Ended
  BY <1>1 DEF Left
<1>2. CASE s \in Preparing
  BY <1>2 DEF Left, Ended, Preparing
<1>3. CASE s \in Orchestrating
  BY <1>3 DEF Left, Ended, Orchestrating
<1>4. CASE s \in Consuming \union {"classify"}
  BY <1>4 DEF Left, Ended, Consuming
<1>5. QED
  BY <1>1, <1>2, <1>3, <1>4 DEF Steps

LEMMA BudgetStep ==
    ASSUME QueueInv, [Next]_vars, NEW p \in Invocations
    PROVE  Budget(p)' <= Budget(p) /\ (Step(p) => Budget(p)' < Budget(p))
<1>1. pc[p] \in Steps /\ pc'[p] \in Steps
  BY TypeStep DEF QueueInv, TypeInv, TypeOK
<1>2. Left(pc[p]) \in 0..19 /\ Left(pc'[p]) \in 0..19
  BY <1>1, LeftType
<1>3. CASE Step(p)
  <2>1. Left(pc'[p]) < Left(pc[p]) /\ replayed' = replayed
    BY <1>3, StatementsAdvance
  <2>2. QED
    BY <1>2, <2>1 DEF Budget
<1>4. ASSUME ~Step(p), pc'[p] = pc[p], replayed'[p] = replayed[p] PROVE Budget(p)' <= Budget(p)
  BY <1>2, <1>4 DEF Budget
<1>5. CASE UNCHANGED vars
  BY <1>4, <1>5, <1>3 DEF vars, local
<1>6. CASE \/ \E q \in Invocations \ {p} : Moves(q)
           \/ \E i \in Invocations : Withdraw(i)
  BY <1>3, <1>4, <1>6, Elsewhere DEF Untouched
<1>7. CASE Expire(p) \/ StoreFails(p) \/ Crash(p)
  <2>1. replayed' = replayed /\ (pc'[p] = pc[p] \/ Left(pc'[p]) <= Left(pc[p]))
    <3>1. pc \in [Invocations -> Steps]
      BY DEF QueueInv, TypeInv, TypeOK
    <3>2. CASE Expire(p)
      BY <3>2 DEF Expire
    <3>3. CASE StoreFails(p)
      BY <3>1, <3>3 DEF StoreFails, Goto, OrchestratorFails, Left, Ended, Preparing, Consuming, Orchestrating
    <3>4. CASE Crash(p)
      <4>1. Left(pc'[p]) = 0
        BY <3>1, <3>4 DEF Crash, Goto, Left, Ended
      <4>2. QED
        BY <1>2, <3>4, <4>1 DEF Crash, local
    <3>5. QED
      BY <1>7, <3>2, <3>3, <3>4
  <2>2. QED
    BY <1>2, <1>3, <2>1 DEF Budget
<1>8. CASE Replay(p)
  <2>1. /\ p \in Replayers /\ ~replayed[p] /\ replayed'[p]
        /\ Left(pc[p]) = 0 /\ Left(pc'[p]) = 12
    BY <1>8 DEF Replay, Goto, Left, Ended, QueueInv, TypeInv, TypeOK
  <2>2. QED
    BY <1>3, <2>1 DEF Budget
<1>9. QED
  BY <1>3, <1>5, <1>6, <1>7, <1>8 DEF Next, Moves

\* An invocation takes at most nineteen steps, and twelve more for a repeated call,
\* whatever the others do: with the fairness of the processes, that is why
\* InvocationsEnd holds.
THEOREM StepsRunOut == Spec => StepsAreCounted
<1>1. QueueInv /\ [Next]_vars =>
        \A p \in Invocations : Budget(p)' <= Budget(p) /\ (Step(p) => Budget(p)' < Budget(p))
  BY BudgetStep
<1>2. QED
  BY <1>1, QueueInvariant, PTL DEF StepsAreCounted, Spec

LEMMA PendingStep ==
    ASSUME QueueInv, PendingIsNobodys, [Next]_vars
    PROVE  PendingIsNobodys'
<1> SUFFICES ASSUME NEW i \in Invocations PROVE (queue[i].exec = "pending" => queue[i].run = NoId)'
  BY DEF PendingIsNobodys
<1>1. queue \in [Invocations -> Row] /\ queue[i] \in Row
      /\ (queue[i].exec = "pending" => queue[i].run = NoId)
  BY DEF PendingIsNobodys, QueueInv, TypeInv, TypeOK
<1>2. CASE UNCHANGED <<queue, runs, audit>>
  BY <1>1, <1>2
<1>3. ASSUME NEW j \in Invocations, InsertsRow(j) \/ WithdrawsItem(j)
      PROVE  (queue[i].exec = "pending" => queue[i].run = NoId)'
  BY <1>1, <1>3 DEF InsertsRow, WithdrawsItem, NoRow, Row
<1>4. ASSUME NEW p \in Invocations, PlansRun(p) \/ RecordsPlan(p) \/ StartsWork(p)
      PROVE  (queue[i].exec = "pending" => queue[i].run = NoId)'
  BY <1>1, <1>4 DEF PlansRun, RecordsPlan, StartsWork
<1>5. ASSUME NEW p \in Invocations, NEW k \in Invocations, ClaimsItem(p, k)
      PROVE  (queue[i].exec = "pending" => queue[i].run = NoId)'
  BY <1>1, <1>5 DEF ClaimsItem, Claimed, Row
<1>6. ASSUME NEW p \in Invocations, NEW k \in Invocations, SettlesItem(p, k, verdict[p])
      PROVE  (queue[i].exec = "pending" => queue[i].run = NoId)'
  BY <1>1, <1>6, OutcomeTypes DEF SettlesItem, Settled, Row, Terminal
<1>7. QED
  BY <1>2, <1>3, <1>4, <1>5, <1>6, Writes

\* No invocation is stuck before its end.
THEOREM NobodyGetsStuck == Spec => []NobodyIsStuck
<1>1. Init => PendingIsNobodys
  BY DEF Init, PendingIsNobodys, NoRow
<1>2. QueueInv /\ PendingIsNobodys /\ [Next]_vars => PendingIsNobodys'
  BY PendingStep
<1>3. QueueInv /\ PendingIsNobodys => NobodyIsStuck
  <2>1. SUFFICES ASSUME QueueInv, PendingIsNobodys, NEW p \in Invocations, pc[p] \notin Ended PROVE CanStep(p)
    BY DEF NobodyIsStuck
  <2>2. pc[p] \in Steps /\ (pc[p] = "reconcile" => item[p] \in Invocations)
    BY <2>1 DEF QueueInv, TypeInv, TypeOK, HasItem, Started, Consuming
  <2>3. QED
    BY <2>1, <2>2, NoIdAssumption DEF PendingIsNobodys, CanStep
<1>4. QED
  BY <1>1, <1>2, <1>3, QueueInvariant, PTL DEF Spec

-----------------------------------------------------------------------------
(* Refinement of the abstract queue. *)

LEMMA WorkInit == Init => Work!Init
  BY DEF Init, NoRow, Work!Init, WorkState, WorkHolder, WorkFate, Terminal

LEMMA WorkStep == QueueInv /\ [Next]_vars => [Work!Next]_(Work!vars)
<1> SUFFICES ASSUME QueueInv, [Next]_vars PROVE [Work!Next]_(Work!vars)
  OBVIOUS
<1>0. /\ queue \in [Invocations -> Row] /\ runs \in [Invocations -> Run]
      /\ \A i \in Invocations : queue[i].exec = "claimed" =>
            queue[i].run \in Invocations /\ runs[queue[i].run].status \in {"planned", "running"}
      /\ \A i \in Invocations : queue[i].exec = "claimed" => runs[queue[i].run].request = i
  BY DEF QueueInv, TypeInv, TypeOK, RowsInv, ClaimsAreOwned, RunsServeTheirItem
<1>1. CASE UNCHANGED <<queue, runs, audit>>
  BY <1>1 DEF Work!vars, WorkState, WorkHolder, WorkFate
<1>2. ASSUME NEW i \in Invocations, InsertsRow(i) PROVE Work!Submit(i)
  <2>1. queue'[i].status = "queued" /\ queue'[i].exec = "pending"
        /\ queue[i].status = "absent" /\ queue[i].exec = "pending"
        /\ \A j \in Invocations \ {i} : queue'[j] = queue[j]
    BY <1>0, <1>2 DEF InsertsRow, NoRow
  <2>2. WorkState' = [WorkState EXCEPT ![i] = "open"]
    BY <2>1 DEF WorkState
  <2>3. WorkHolder' = WorkHolder /\ WorkFate' = WorkFate
    BY <1>2, <2>1 DEF InsertsRow, WorkHolder, WorkFate
  <2>4. WorkState[i] = "new" /\ \A j \in Invocations : WorkState[j] = "open" => TopicOf[j] # TopicOf[i]
    BY <1>2, <2>1 DEF InsertsRow, WorkState
  <2> QED BY <2>2, <2>3, <2>4 DEF Work!Submit
<1>3. ASSUME NEW i \in Invocations, WithdrawsItem(i) PROVE Work!Withdraw(i)
  <2>1. queue'[i].status \in {"dispatched", "cancelled"} /\ queue[i].status = "queued"
        /\ \A j \in Invocations : /\ queue'[j].exec = queue[j].exec /\ queue'[j].run = queue[j].run
                                  /\ j # i => queue'[j].status = queue[j].status
    BY <1>0, <1>3 DEF WithdrawsItem, Row
  <2>2. WorkState' = [WorkState EXCEPT ![i] = "closed"] /\ WorkState[i] = "open"
    BY <2>1 DEF WorkState
  <2>3. WorkHolder' = WorkHolder /\ WorkFate' = WorkFate
    BY <1>3, <2>1 DEF WithdrawsItem, WorkHolder, WorkFate
  <2> QED BY <2>2, <2>3 DEF Work!Withdraw
<1>4. ASSUME NEW p \in Invocations, PlansRun(p) \/ RecordsPlan(p) \/ StartsWork(p)
      PROVE UNCHANGED Work!vars
  <2>1. queue' = queue
    BY <1>4 DEF PlansRun, RecordsPlan, StartsWork
  <2>2. \A r \in Invocations : runs'[r].status \in Terminal \/ runs[r].status \in Terminal =>
            runs'[r] = runs[r]
    BY <1>0, <1>4 DEF PlansRun, RecordsPlan, StartsWork, Run, Terminal
  <2>3. WorkState' = WorkState /\ WorkHolder' = WorkHolder /\ WorkFate' = WorkFate
    BY <2>1, <2>2 DEF WorkState, WorkHolder, WorkFate
  <2> QED BY <2>3 DEF Work!vars
<1>5. ASSUME NEW p \in Invocations, NEW k \in Invocations, ClaimsItem(p, k)
      PROVE Work!Acquire(k, p)
  <2>1. /\ queue[k].status = "queued" /\ queue[k].exec \in {"pending", "retry"}
        /\ runs[p].status = "planned" /\ runs[p].request = k
        /\ queue'[k].status = "queued" /\ queue'[k].exec = "claimed" /\ queue'[k].run = p
        /\ \A j \in Invocations \ {k} : queue'[j] = queue[j]
    <3>1. queue[k] \in Row /\ queue'[k] = Claimed(queue[k], p)
          /\ \A j \in Invocations \ {k} : queue'[j] = queue[j]
      BY <1>0, <1>5 DEF ClaimsItem
    <3>2. queue'[k].status = queue[k].status /\ queue'[k].exec = "claimed" /\ queue'[k].run = p
      BY <3>1 DEF Claimed, Row
    <3>3. /\ queue[k].status = "queued" /\ queue[k].exec \in {"pending", "retry"}
          /\ runs[p].status = "planned" /\ runs[p].request = k
      BY <1>5 DEF ClaimsItem, Claimable
    <3> QED BY <3>1, <3>2, <3>3
  <2>2. WorkState' = WorkState /\ WorkFate' = WorkFate
    BY <1>5, <2>1 DEF ClaimsItem, WorkState, WorkFate
  <2>3. WorkHolder' = [WorkHolder EXCEPT ![k] = p]
    BY <2>1 DEF WorkHolder
  <2>4. WorkState[k] = "open" /\ WorkHolder[k] = NoId /\ WorkFate[p] = "none"
    BY <2>1 DEF WorkState, WorkHolder, WorkFate, Terminal
  <2>5. \A j \in Invocations : WorkHolder[j] # p
    BY <1>0, <2>1, NoIdAssumption DEF WorkHolder
  <2> QED BY <2>2, <2>3, <2>4, <2>5 DEF Work!Acquire
<1>6. ASSUME NEW p \in Invocations, NEW k \in Invocations, SettlesItem(p, k, verdict[p])
      PROVE Work!Settle(k, p)
  <2> DEFINE v == verdict[p]
  <2>1. /\ queue[k].status = "queued" /\ queue[k].exec = "claimed" /\ queue[k].run = p
        /\ runs[p].status \in {"planned", "running"}
        /\ queue'[k].status = ItemOutcome(v) /\ queue'[k].exec = ExecOutcome(v)
        /\ \A j \in Invocations \ {k} : queue'[j] = queue[j]
        /\ runs'[p].status = RunOutcome(v)
        /\ \A r \in Invocations \ {p} : runs'[r] = runs[r]
    <3>1. queue[k] \in Row /\ queue'[k] = Settled(queue[k], p, v)
          /\ \A j \in Invocations \ {k} : queue'[j] = queue[j]
      BY <1>0, <1>6 DEF SettlesItem
    <3>2. runs'[p] = [runs[p] EXCEPT !.status = RunOutcome(v)] /\ runs[p] \in Run
          /\ \A r \in Invocations \ {p} : runs'[r] = runs[r]
      BY <1>0, <1>6 DEF SettlesItem
    <3>3. queue'[k].status = ItemOutcome(v) /\ queue'[k].exec = ExecOutcome(v)
      BY <3>1 DEF Settled, Row
    <3>4. runs'[p].status = RunOutcome(v)
      BY <3>2 DEF Run
    <3> QED BY <1>6, <3>1, <3>2, <3>3, <3>4 DEF SettlesItem
  <2> HIDE DEF v
  <2> DEFINE f == RunOutcome(v)
             next == IF ExecOutcome(v) = "retry" THEN "open" ELSE "closed"
  <2>2. f \in Terminal /\ (next = "open" => f = "failed") /\ next \in {"open", "closed"}
    <3>1. RunOutcome(v) \in Terminal
      BY Outcomes
    <3>2. ExecOutcome(v) = "retry" => RunOutcome(v) = "failed"
      BY Outcomes, "retry" # "completed", "retry" # "failed", "retry" # "cancelled" DEF Terminal
    <3> QED BY <3>1, <3>2
  <2>3. WorkFate' = [WorkFate EXCEPT ![p] = f] /\ WorkFate[p] = "none"
    BY <2>1, <2>2 DEF WorkFate, Terminal
  <2>4. WorkState' = [WorkState EXCEPT ![k] = next] /\ WorkState[k] = "open"
    <3>1. /\ ItemOutcome(v) = "queued" <=> next = "open"
          /\ ItemOutcome(v) # "absent"
      BY Outcomes
    <3> QED BY <2>1, <3>1 DEF WorkState
  <2>5. WorkHolder' = [WorkHolder EXCEPT ![k] = NoId] /\ WorkHolder[k] = p
    <3>1. ExecOutcome(v) # "claimed"
      BY Outcomes DEF Terminal
    <3> QED BY <2>1, <3>1 DEF WorkHolder
  <2>6. f \in Work!Fates
    BY <2>2 DEF Terminal, Work!Fates
  <2> QED BY <2>2, <2>3, <2>4, <2>5, <2>6 DEF Work!Settle
<1> QED BY <1>1, <1>2, <1>3, <1>4, <1>5, <1>6, Writes DEF Work!Next

\* The statements of the concurrent processes implement the abstract queue:
\* claim and settlement are single steps of it, everything else stutters.
THEOREM QueueRefinesWork == Spec => ImplementsWork
<1>1. Init => Work!Init
  BY WorkInit
<1>2. QueueInv /\ [Next]_vars => [Work!Next]_(Work!vars)
  BY WorkStep
<1> QED BY <1>1, <1>2, QueueInvariant, PTL DEF ImplementsWork, Work!Spec, Spec
====
