---- MODULE ResearchQueue ----
(***************************************************************************)
(* The research work queue of Kelyro.  Every `kelyro research topic`       *)
(* process enqueues a deduplicated item, starts a research run, claims the *)
(* item for that run, executes the live stages under a deadline and        *)
(* settles item, run and terminal audit in one transaction.  The processes *)
(* share one SQLite file and nothing else; each statement is atomic, and   *)
(* several statements are so only inside a transaction.                    *)
(*                                                                         *)
(* An invocation draws fresh identifiers for its request, its queue item,  *)
(* its run and its source bundle; here the invocation itself names all of  *)
(* them.  Timestamps, priorities and payloads are left out.                *)
(***************************************************************************)
EXTENDS Naturals, FiniteSets

CONSTANTS
    Invocations,    \* the `research topic` processes
    Topics,         \* dedupe keys of research requests
    TopicOf,        \* the dedupe key each invocation asks for
    NoId,           \* the absent identifier (SQL NULL)
    Replayers,      \* invocations whose Consume call is delivered once more
    Crashes,        \* may a process die between two statements?
    Deadlines,      \* may the two-minute deadline pass?
    StoreFailures,  \* may a statement or a transaction fail?
    Withdrawals     \* may the trigger service close queued items itself?

ASSUME TopicAssumption == TopicOf \in [Invocations -> Topics]
ASSUME NoIdAssumption == NoId \notin Invocations
ASSUME FaultAssumption ==
    /\ Replayers \subseteq Invocations
    /\ {Crashes, Deadlines, StoreFailures, Withdrawals} \subseteq BOOLEAN

VARIABLES
    \* Durable rows.
    queue,      \* research_trigger_queue: one row per invocation that inserted
    requests,   \* research_topics: requests that have a row
    runs,       \* research_runs: status and request of each run
    audit,      \* research_run_audit: outcomes recorded for each run
    bundles,    \* source_bundles: runs that own a durable bundle
    \* State of each process, lost when it ends.
    pc,
    item,       \* the queue item Evaluate returned
    acquired,   \* claim.Acquired
    attempts,   \* claim.Execution.Attempts
    accounted,  \* has the search stage re-read its provider calls since the last reservation?
    verdict,    \* the classification of the orchestrator's result
    expired,    \* has the execution context passed its deadline?
    replayed    \* was the Consume call delivered again already?

durable == <<queue, requests, runs, audit, bundles>>
local == <<item, acquired, attempts, accounted, verdict, expired, replayed>>
vars == <<durable, pc, local>>

Terminal == {"completed", "failed", "cancelled"}
RunStatus == {"absent", "planned", "running"} \union Terminal
ItemStatus == {"absent", "queued", "dispatched", "cancelled"}
ExecStatus == {"pending", "claimed", "retry"} \union Terminal
Verdicts == {"none", "success", "transient", "permanent", "cancelled"}

\* Steps under the caller's context, before the deadline is set.
Preparing == {"lookup", "insert", "relookup", "start", "insertRequest",
              "insertRun", "insertFirstRun", "audit"}
\* Steps of the orchestrator: an error there is classified and settled.
Orchestrating == {"begin", "transition", "search", "provider", "stages",
                  "bundle", "provenance"}
\* Steps of the consumer: an error there is returned to the caller.
Consuming == {"claim", "claimed", "reconcile", "settle", "commit"}
Ended == {"done", "stopped", "crashed"}
Steps == Preparing \union Orchestrating \union Consuming \union {"classify"} \union Ended

OrNoId == Invocations \union {NoId}
Row == [status : ItemStatus, exec : ExecStatus, run : OrNoId, attempts : Nat, bundle : OrNoId]
Run == [status : RunStatus, request : OrNoId]

NoRow == [status |-> "absent", exec |-> "pending", run |-> NoId,
          attempts |-> 0, bundle |-> NoId]

Init ==
    /\ queue = [i \in Invocations |-> NoRow]
    /\ requests = {}
    /\ runs = [r \in Invocations |-> [status |-> "absent", request |-> NoId]]
    /\ audit = [r \in Invocations |-> {}]
    /\ bundles = {}
    /\ pc = [p \in Invocations |-> "lookup"]
    /\ item = [p \in Invocations |-> NoId]
    /\ acquired = [p \in Invocations |-> FALSE]
    /\ attempts = [p \in Invocations |-> 0]
    /\ accounted = [p \in Invocations |-> TRUE]
    /\ verdict = [p \in Invocations |-> "none"]
    /\ expired = [p \in Invocations |-> FALSE]
    /\ replayed = [p \in Invocations |-> FALSE]

-----------------------------------------------------------------------------
(* Helpers. *)

Goto(p, step) == pc' = [pc EXCEPT ![p] = step]

\* Mutant: deduplicate against unclaimed rows only.
ActiveUnclaimed(t) ==
    {i \in Invocations : queue[i].status = "queued" /\ queue[i].exec # "claimed" /\ TopicOf[i] = t}

\* The queued row of a topic, which blocks a second one.
Active(t) == {i \in Invocations : queue[i].status = "queued" /\ TopicOf[i] = t}

\* Mutants: the UPDATE forgets one of its two conditions.
ClaimableAnyExecution(i) == queue[i].status = "queued"
ClaimableAnyStatus(i) == queue[i].status # "absent" /\ queue[i].exec # "claimed"

\* The rows ClaimExecution's UPDATE selects.
Claimable(i) == queue[i].status = "queued" /\ queue[i].exec \in {"pending", "retry"}

\* Mutant: the claim does not count.
ClaimedUncounted(row, p) == [row EXCEPT !.exec = "claimed", !.run = p, !.bundle = NoId]

\* What ClaimExecution's UPDATE writes.
Claimed(row, p) ==
    [row EXCEPT !.exec = "claimed", !.run = p, !.attempts = @ + 1, !.bundle = NoId]

\* The lifecycle policy of a research run.
TransitionAllowed(from, to) ==
    \/ from = to
    \/ from = "planned" /\ to \in {"running", "failed", "cancelled"}
    \/ from = "running" /\ to \in Terminal

\* How the consumer settles each classification.
RunOutcome(v) ==
    CASE v = "success" -> "completed"
      [] v = "cancelled" -> "cancelled"
      [] OTHER -> "failed"
ExecOutcome(v) == IF v = "transient" THEN "retry" ELSE RunOutcome(v)

\* Mutant: cancellation acknowledged as dispatched.
ItemOutcomeDispatched(v) == IF v = "transient" THEN "queued" ELSE "dispatched"

ItemOutcome(v) ==
    CASE v = "transient" -> "queued"
      [] v = "cancelled" -> "cancelled"
      [] OTHER -> "dispatched"

\* Mutant: the bundle is not linked.
SettledUnlinked(row, p, v) == [row EXCEPT !.status = ItemOutcome(v), !.exec = ExecOutcome(v)]

\* What the finalisation writes to the queue row.
Settled(row, p, v) ==
    [row EXCEPT !.status = ItemOutcome(v), !.exec = ExecOutcome(v),
                !.bundle = IF v = "success" THEN p ELSE NoId]

\* Finalisation of a cancelled run runs under context.WithoutCancel.
ContextOpen(p) ==
    \/ ~expired[p]
    \/ pc[p] \in {"settle", "commit"} /\ verdict[p] = "cancelled"

-----------------------------------------------------------------------------
(* Enqueue: Evaluate deduplicates the request against the queued row. *)

EnqueueLookup(p) ==
    /\ pc[p] = "lookup"
    /\ \/ \E i \in Active(TopicOf[p]) :
            item' = [item EXCEPT ![p] = i] /\ Goto(p, "start")
       \/ /\ Active(TopicOf[p]) = {}
          /\ Goto(p, "insert")
          /\ UNCHANGED item
    /\ UNCHANGED <<durable, acquired, attempts, accounted, verdict, expired, replayed>>

\* The partial UNIQUE index decides between two inserts of one topic.
EnqueueInsert(p) ==
    /\ pc[p] = "insert"
    /\ \/ /\ Active(TopicOf[p]) = {}
          /\ queue' = [queue EXCEPT ![p] = [NoRow EXCEPT !.status = "queued"]]
          /\ item' = [item EXCEPT ![p] = p]
          /\ Goto(p, "start")
       \/ /\ Active(TopicOf[p]) # {}
          /\ Goto(p, "relookup")
          /\ UNCHANGED <<queue, item>>
    /\ UNCHANGED <<requests, runs, audit, bundles>>
    /\ UNCHANGED <<acquired, attempts, accounted, verdict, expired, replayed>>

\* Mutant: the loser waits for a row instead of failing.
EnqueueRelookupWaiting(p) ==
    /\ pc[p] = "relookup"
    /\ \E i \in Active(TopicOf[p]) :
            item' = [item EXCEPT ![p] = i] /\ Goto(p, "start")
    /\ UNCHANGED <<durable, acquired, attempts, accounted, verdict, expired, replayed>>

\* The loser reads the winner's row, which may be closed by now.
EnqueueRelookup(p) ==
    /\ pc[p] = "relookup"
    /\ \/ \E i \in Active(TopicOf[p]) :
            item' = [item EXCEPT ![p] = i] /\ Goto(p, "start")
       \/ /\ Active(TopicOf[p]) = {}
          /\ Goto(p, "stopped")
          /\ UNCHANGED item
    /\ UNCHANGED <<durable, acquired, attempts, accounted, verdict, expired, replayed>>

-----------------------------------------------------------------------------
(* Start: the request row of the item, then the planned run, then the     *)
(* planned audit.  Three statements, no transaction.                       *)

StartLookup(p) ==
    /\ pc[p] = "start"
    /\ Goto(p, IF item[p] \in requests THEN "insertRun" ELSE "insertRequest")
    /\ UNCHANGED <<durable, local>>

StartInsertRequest(p) ==
    /\ pc[p] = "insertRequest"
    /\ IF item[p] \in requests THEN Goto(p, "stopped") ELSE Goto(p, "insertFirstRun")
    /\ requests' = requests \union {item[p]}
    /\ UNCHANGED <<queue, runs, audit, bundles, local>>

StartInsertRun(p) ==
    /\ pc[p] \in {"insertRun", "insertFirstRun"}
    /\ \/ /\ item[p] \in requests
          /\ runs' = [runs EXCEPT ![p] = [status |-> "planned", request |-> item[p]]]
          /\ Goto(p, "audit")
       \/ /\ item[p] \notin requests
          /\ Goto(p, "stopped")
          /\ UNCHANGED runs
    /\ UNCHANGED <<queue, requests, audit, bundles, local>>

RecordAudit(p) ==
    /\ pc[p] = "audit"
    /\ audit' = [audit EXCEPT ![p] = @ \union {runs[p].status}]
    /\ Goto(p, "claim")
    /\ UNCHANGED <<queue, requests, runs, bundles, local>>

-----------------------------------------------------------------------------
(* Consume: claim the item for the run.  loadIdentity before it reads      *)
(* immutable identities only, so it is part of this step.                  *)

ClaimUpdate(p) ==
    /\ pc[p] = "claim"
    /\ ~expired[p]
    /\ \/ /\ Claimable(item[p])
          /\ queue' = [queue EXCEPT ![item[p]] = Claimed(@, p)]
          /\ acquired' = [acquired EXCEPT ![p] = TRUE]
       \/ /\ ~Claimable(item[p])
          /\ acquired' = [acquired EXCEPT ![p] = FALSE]
          /\ UNCHANGED queue
    /\ Goto(p, "claimed")
    /\ UNCHANGED <<requests, runs, audit, bundles>>
    /\ UNCHANGED <<item, attempts, accounted, verdict, expired, replayed>>

\* The SELECT after the UPDATE: it finds no execution while it is pending.
ClaimRead(p) ==
    /\ pc[p] = "claimed"
    /\ ~expired[p]
    /\ LET row == queue[item[p]] IN
        \/ /\ acquired[p]
           /\ attempts' = [attempts EXCEPT ![p] = row.attempts]
           /\ Goto(p, "begin")
        \/ /\ ~acquired[p]
           /\ Goto(p, IF row.exec = "pending" THEN "stopped" ELSE "reconcile")
           /\ UNCHANGED attempts
    /\ UNCHANGED <<durable, item, acquired, accounted, verdict, expired, replayed>>

\* reconcileExisting answers a repeated call from the durable execution; a
\* call for another run's item is an error.  It writes nothing.
Reconcile(p) ==
    /\ pc[p] = "reconcile"
    /\ ~expired[p]
    /\ LET row == queue[item[p]] IN
        \/ /\ row.run = p
           /\ row.exec \in {"failed", "cancelled", "claimed"} \/
                (row.exec = "completed" /\ runs[p].status = "completed")
           /\ Goto(p, "done")
        \/ /\ \/ row.run # p
              \/ row.exec = "retry"
              \/ row.exec = "completed" /\ runs[p].status # "completed"
           /\ Goto(p, "stopped")
    /\ UNCHANGED <<durable, local>>

-----------------------------------------------------------------------------
(* The orchestrator. *)

\* The orchestrator ends: with an error the consumer classifies, or with
\* success, which it settles without looking at the context again.
OrchestratorFails(p, kind) ==
    /\ Goto(p, "classify")
    /\ verdict' = [verdict EXCEPT ![p] = kind]

\* Queue item, request and run are read and checked.
OrchestratorBegin(p) ==
    /\ pc[p] = "begin"
    /\ ~expired[p]
    /\ LET refused == queue[item[p]].status = "cancelled" \/ runs[p].status \in Terminal IN
        \/ refused /\ OrchestratorFails(p, "permanent")
        \/ ~refused /\ Goto(p, "transition") /\ UNCHANGED verdict
    /\ UNCHANGED <<durable, item, acquired, attempts, accounted, expired, replayed>>

TransitionToRunning(p) ==
    /\ pc[p] = "transition"
    /\ ~expired[p]
    /\ \/ /\ TransitionAllowed(runs[p].status, "running")
          /\ runs' = [runs EXCEPT ![p].status = "running"]
          /\ Goto(p, "search")
          /\ UNCHANGED verdict
       \/ /\ ~TransitionAllowed(runs[p].status, "running")
          /\ OrchestratorFails(p, "permanent")
          /\ UNCHANGED runs
    /\ UNCHANGED <<queue, requests, audit, bundles>>
    /\ UNCHANGED <<item, acquired, attempts, accounted, expired, replayed>>

\* A provider call is reserved in the cost ledger before it is made.
ReserveProviderCall(p) ==
    /\ pc[p] = "search"
    /\ ~expired[p]
    /\ accounted' = [accounted EXCEPT ![p] = FALSE]
    /\ Goto(p, "provider")
    /\ UNCHANGED <<durable, item, acquired, attempts, verdict, expired, replayed>>

\* Mutant: the ledger is not re-read after a successful call.
ProviderAnswersUnread(p) ==
    /\ pc[p] = "provider"
    /\ ~expired[p]
    /\ Goto(p, "stages")
    /\ UNCHANGED <<durable, local>>

\* The provider answers or fails; the stage re-reads the ledger either way.
ProviderAnswers(p) ==
    /\ pc[p] = "provider"
    /\ ~expired[p]
    /\ accounted' = [accounted EXCEPT ![p] = TRUE]
    /\ \/ Goto(p, "stages") /\ UNCHANGED verdict
       \/ \E kind \in {"transient", "permanent"} : OrchestratorFails(p, kind)
    /\ UNCHANGED <<durable, item, acquired, attempts, expired, replayed>>

\* With the network blocked the results come from the cache, at no cost.
SearchCached(p) ==
    /\ pc[p] = "search"
    /\ ~expired[p]
    /\ Goto(p, "stages")
    /\ UNCHANGED <<durable, local>>

\* Fetch, snapshot, normalise, extract and verify write research data of
\* their own, none of it state of the queue.
StagesSucceed(p) ==
    /\ pc[p] = "stages"
    /\ ~expired[p]
    /\ Goto(p, "bundle")
    /\ UNCHANGED <<durable, local>>

BundleStage(p) ==
    /\ pc[p] = "bundle"
    /\ ~expired[p]
    /\ bundles' = bundles \union {p}
    /\ Goto(p, "provenance")
    /\ UNCHANGED <<queue, requests, runs, audit, local>>

\* The last stages read the stored bundle back; the orchestrator checks the
\* context once more and returns success.
OrchestratorSucceeds(p) ==
    /\ pc[p] = "provenance"
    /\ ~expired[p]
    /\ p \in bundles
    /\ verdict' = [verdict EXCEPT ![p] = "success"]
    /\ Goto(p, "settle")
    /\ UNCHANGED <<durable, item, acquired, attempts, accounted, expired, replayed>>

\* A stage fails by itself: blocked network, exhausted budget, bad answer.
StageFails(p) ==
    /\ pc[p] \in {"search", "stages", "bundle", "provenance"}
    /\ ~expired[p]
    /\ \E kind \in {"transient", "permanent"} : OrchestratorFails(p, kind)
    /\ UNCHANGED <<durable, item, acquired, attempts, accounted, expired, replayed>>

-----------------------------------------------------------------------------
(* Settlement. *)

Classify(p) ==
    /\ pc[p] = "classify"
    /\ verdict' = [verdict EXCEPT ![p] = IF expired[p] THEN "cancelled" ELSE @]
    /\ Goto(p, "settle")
    /\ UNCHANGED <<durable, item, acquired, attempts, accounted, expired, replayed>>

\* Mutant: the planned checkpoint is not required.
PreparedUnplanned(p) ==
    /\ runs[p].status \notin Terminal
    /\ accounted[p]
    /\ verdict[p] = "success" => runs[p].status = "running"

\* What the terminal audit needs: an open run, the planned record, a search
\* account equal to the ledger's, and a running run if it completes.
Prepared(p) ==
    /\ runs[p].status \notin Terminal
    /\ "planned" \in audit[p]
    /\ accounted[p]
    /\ verdict[p] = "success" => runs[p].status = "running"

\* finalize reads the run and prepares the terminal audit.
PrepareAudit(p) ==
    /\ pc[p] = "settle"
    /\ ContextOpen(p)
    /\ Goto(p, IF Prepared(p) THEN "commit" ELSE "stopped")
    /\ UNCHANGED <<durable, local>>

\* What the finalisation transaction finds before it writes.
Finalizable(p) ==
    LET row == queue[item[p]] IN
    /\ runs[p].request = item[p]
    /\ row.status = "queued"
    /\ row.run = p
    /\ row.exec = "claimed"
    /\ row.attempts = attempts[p]
    /\ verdict[p] = "success" => p \in bundles
    /\ TransitionAllowed(runs[p].status, RunOutcome(verdict[p]))

\* One transaction: the run ends, the item is settled, the terminal audit is
\* appended.  A check that fails rolls everything back.
Finalize(p) ==
    /\ pc[p] = "commit"
    /\ ContextOpen(p)
    /\ LET v == verdict[p] IN
        \/ /\ Finalizable(p)
           /\ runs' = [runs EXCEPT ![p].status = RunOutcome(v)]
           /\ queue' = [queue EXCEPT ![item[p]] = Settled(@, p, v)]
           /\ audit' = [audit EXCEPT ![p] = @ \union {RunOutcome(v)}]
           /\ Goto(p, "done")
        \/ /\ ~Finalizable(p)
           /\ Goto(p, "stopped")
           /\ UNCHANGED <<runs, queue, audit>>
    /\ UNCHANGED <<requests, bundles, local>>

-----------------------------------------------------------------------------
(* Deadline, failures, repeated calls and interference. *)

\* The two-minute deadline covers the execution, from Consume on.
Expire(p) ==
    /\ Deadlines
    /\ pc[p] \in Orchestrating \union Consuming \union {"classify"}
    /\ ~expired[p]
    /\ expired' = [expired EXCEPT ![p] = TRUE]
    /\ UNCHANGED <<durable, pc, item, acquired, attempts, accounted, verdict, replayed>>

\* Every operation looks at its context first.  The orchestrator's error is
\* classified as cancelled; the consumer's own is returned.
ContextEnds(p) ==
    /\ ~ContextOpen(p)
    /\ \/ /\ pc[p] \in Orchestrating
          /\ OrchestratorFails(p, "cancelled")
       \/ /\ pc[p] \in Consuming
          /\ Goto(p, "stopped")
          /\ UNCHANGED verdict
    /\ UNCHANGED <<durable, item, acquired, attempts, accounted, expired, replayed>>

\* A statement or transaction fails and has no effect.  Start compensates
\* for the request row it created, as long as no run uses it; the
\* compensation may fail as well.
StoreFails(p) ==
    /\ StoreFailures
    /\ \/ /\ pc[p] \in Preparing \union Consuming
          /\ Goto(p, "stopped")
          /\ UNCHANGED verdict
          /\ \/ UNCHANGED requests
             \/ /\ pc[p] = "insertFirstRun"
                /\ \A r \in Invocations : runs[r].request # item[p]
                /\ requests' = requests \ {item[p]}
       \/ /\ pc[p] \in Orchestrating
          /\ OrchestratorFails(p, "transient")
          /\ UNCHANGED requests
    /\ UNCHANGED <<queue, runs, audit, bundles>>
    /\ UNCHANGED <<item, acquired, attempts, accounted, expired, replayed>>

\* The process dies; no handler runs and nothing reclaims its work.
Crash(p) ==
    /\ Crashes
    /\ pc[p] \notin Ended
    /\ Goto(p, "crashed")
    /\ UNCHANGED <<durable, local>>

\* Consume is called again for the same item and run.  After a retryable
\* failure a new run is used instead.
Replay(p) ==
    /\ p \in Replayers \ {q \in Replayers : replayed[q]}
    /\ pc[p] \in Ended
    /\ runs[p].status # "absent"
    /\ ~(runs[p].status = "failed" /\ queue[item[p]].status = "queued")
    /\ replayed' = [replayed EXCEPT ![p] = TRUE]
    /\ acquired' = [acquired EXCEPT ![p] = FALSE]
    /\ attempts' = [attempts EXCEPT ![p] = 0]
    /\ accounted' = [accounted EXCEPT ![p] = TRUE]
    /\ verdict' = [verdict EXCEPT ![p] = "none"]
    /\ expired' = [expired EXCEPT ![p] = FALSE]
    /\ Goto(p, "claim")
    /\ UNCHANGED <<durable, item>>

\* MarkDispatched and Cancel of the trigger service: an update guarded by
\* status='queued' that does not look at the execution.
Withdraw(i) ==
    /\ Withdrawals
    /\ queue[i].status = "queued"
    /\ \E status \in {"dispatched", "cancelled"} :
        queue' = [queue EXCEPT ![i].status = status]
    /\ UNCHANGED <<requests, runs, audit, bundles, pc, local>>

-----------------------------------------------------------------------------

Step(p) ==
    \/ EnqueueLookup(p) \/ EnqueueInsert(p) \/ EnqueueRelookup(p)
    \/ StartLookup(p) \/ StartInsertRequest(p) \/ StartInsertRun(p) \/ RecordAudit(p)
    \/ ClaimUpdate(p) \/ ClaimRead(p) \/ Reconcile(p)
    \/ OrchestratorBegin(p) \/ TransitionToRunning(p)
    \/ ReserveProviderCall(p) \/ ProviderAnswers(p) \/ SearchCached(p)
    \/ StagesSucceed(p) \/ BundleStage(p) \/ OrchestratorSucceeds(p) \/ StageFails(p)
    \/ Classify(p) \/ PrepareAudit(p) \/ Finalize(p)
    \/ ContextEnds(p)

Next ==
    \/ \E p \in Invocations : Step(p) \/ Expire(p) \/ StoreFails(p) \/ Crash(p) \/ Replay(p)
    \/ \E i \in Invocations : Withdraw(i)

Spec == Init /\ [][Next]_vars

\* A process that has a next statement executes it; a crash, a deadline, a
\* failure, a repeated call and a withdrawal are never owed.
Fairness == \A p \in Invocations : WF_vars(Step(p))

FairSpec == Spec /\ Fairness

-----------------------------------------------------------------------------
(* Properties. *)

\* Every variable keeps its type.
TypeOK ==
    /\ queue \in [Invocations -> Row]
    /\ requests \subseteq Invocations
    /\ runs \in [Invocations -> Run]
    /\ audit \in [Invocations -> SUBSET RunStatus]
    /\ bundles \subseteq Invocations
    /\ pc \in [Invocations -> Steps]
    /\ item \in [Invocations -> OrNoId]
    /\ acquired \in [Invocations -> BOOLEAN]
    /\ attempts \in [Invocations -> Nat]
    /\ accounted \in [Invocations -> BOOLEAN]
    /\ verdict \in [Invocations -> Verdicts]
    /\ expired \in [Invocations -> BOOLEAN]
    /\ replayed \in [Invocations -> BOOLEAN]

RowMatchesRun(i) ==
    LET row == queue[i] IN
    /\ row.exec \in Terminal =>
        /\ row.run # NoId
        /\ runs[row.run] = [status |-> row.exec, request |-> i]
        /\ row.status = IF row.exec = "cancelled" THEN "cancelled" ELSE "dispatched"
    /\ row.exec = "retry" => row.run # NoId /\ runs[row.run] = [status |-> "failed", request |-> i]
    /\ row.bundle = IF row.exec = "completed" THEN row.run ELSE NoId
    /\ row.bundle # NoId => row.bundle \in bundles

\* A settled execution, the run it names, the queue row and the bundle tell
\* one story, whatever crashed, expired, failed or was withdrawn in between:
\* finalisation leaves no half-settled item.
SettledTogether == \A i \in Invocations : RowMatchesRun(i)

\* The audit trail ends as the run does: a run has a terminal record exactly
\* when it is terminal, and then only the one of its own status; it never
\* works or ends without the planned record the terminal one is built from.
AuditMatchesRun ==
    \A r \in Invocations :
        /\ audit[r] \intersect Terminal = {runs[r].status} \intersect Terminal
        /\ runs[r].status \in Terminal => "planned" \in audit[r]

\* A run completes only for the item it was started for and with its own
\* stored bundle, and that item names the run as its result.
CompletedRunIsTheItemsResult ==
    \A r \in Invocations :
        runs[r].status = "completed" =>
            LET row == queue[runs[r].request] IN
            row.exec = "completed" /\ row.run = r /\ row.bundle = r

\* A running run owns its item.  Two runs of one topic therefore research it
\* at the same time only after somebody withdrew the item of one of them.
OneWorkerPerTopic ==
    /\ \A r \in Invocations :
        runs[r].status = "running" =>
            queue[runs[r].request].exec = "claimed" /\ queue[runs[r].request].run = r
    /\ \A r, s \in Invocations :
        /\ runs[r].status = "running" /\ runs[s].status = "running" /\ r # s
        /\ TopicOf[runs[r].request] = TopicOf[runs[s].request]
        => "queued" \notin {queue[runs[r].request].status} \intersect {queue[runs[s].request].status}

\* Every attempt an item counts is a run of its own: the runs that ended for
\* it plus the one that holds its claim.
AttemptsAreRuns ==
    \A i \in Invocations :
        queue[i].attempts = Cardinality({r \in Invocations :
            /\ runs[r].request = i
            /\ \/ runs[r].status \in Terminal
               \/ queue[i].exec = "claimed" /\ queue[i].run = r})

\* A terminal run never reopens, and neither its audit trail nor the item
\* that recorded it as its result changes any more.
TerminalIsFinal ==
    [][\A r \in Invocations :
        /\ runs[r].status \in Terminal => runs'[r] = runs[r] /\ audit'[r] = audit[r]
        /\ queue[r].exec \in Terminal => queue'[r] = queue[r]]_vars

\* A claim is given up only by the process that made it, and only together
\* with the end of its run.
ClaimEndsWithItsRun ==
    [][\A i \in Invocations :
        queue[i].exec = "claimed" =>
            \/ queue'[i].exec = "claimed" /\ queue'[i].run = queue[i].run
            \/ pc[queue[i].run] = "commit" /\ runs'[queue[i].run].status \in Terminal]_vars

\* Whoever claims an item settles it, unless its own deadline passes first:
\* what happens to the other invocations is no excuse.
ClaimsAreSettled ==
    \A i, r \in Invocations :
        queue[i].exec = "claimed" /\ queue[i].run = r
            ~> queue[i].exec # "claimed" \/ expired[r]

\* Every invocation comes to an end, also when its deadline passes.
InvocationsEnd == \A p \in Invocations : <>[](pc[p] \in Ended)

\* docs/architecture/research-queue-worker-v1.md:41: a deadline settles the
\* execution and the queue as cancelled.  So an invocation that its deadline
\* stopped holds no claim.
DeadlineSettlesTheClaim ==
    \A p \in Invocations :
        pc[p] = "stopped" /\ expired[p] =>
            ~(queue[item[p]].exec = "claimed" /\ queue[item[p]].run = p)

\* The abstract queue: whether an item is open, who holds it, and what became
\* of each run.
WorkState ==
    [i \in Invocations |->
        IF queue[i].status = "absent" THEN "new"
        ELSE IF queue[i].status = "queued" THEN "open" ELSE "closed"]
WorkHolder == [i \in Invocations |-> IF queue[i].exec = "claimed" THEN queue[i].run ELSE NoId]
WorkFate ==
    [r \in Invocations |-> IF runs[r].status \in Terminal THEN runs[r].status ELSE "none"]

Work == INSTANCE ResearchWork WITH
    Items <- Invocations,
    Runs <- Invocations,
    NoRun <- NoId,
    state <- WorkState,
    holder <- WorkHolder,
    fate <- WorkFate

\* The statements of the concurrent processes implement the abstract queue.
ImplementsWork == Work!Spec
====
