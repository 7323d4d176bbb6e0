---- MODULE ResearchCost ----
(***************************************************************************)
(* Cost control of live research.  Every call of a search provider's page  *)
(* and every fetch of a source is paid for in advance with a row of the    *)
(* ledger research_cost_events, and triggers refuse a row that would       *)
(* exceed the budget of its run, of its topic or of its UTC day.  A page   *)
(* is one request; a fetch may take several, because the HTTP client       *)
(* repeats an attempt and follows redirects under the one row.  A run      *)
(* first searches, one provider call after the other, then fetches with    *)
(* several goroutines at once; runs of several processes share the budgets *)
(* of their topic and of the day.                                          *)
(*                                                                         *)
(* Rows are only ever added to the ledger and only their sums are read, so *)
(* it is kept as the three sums the triggers compute.  The dimension       *)
(* "model calls", which nothing uses, is left out.                         *)
(***************************************************************************)
EXTENDS Integers, FiniteSets

CONSTANTS
    Runs,           \* research runs, each one process
    Workers,        \* its goroutines (MaxConcurrentFetch)
    Leader,         \* the goroutine that searches
    Topics,         \* subject, domain and technology
    TopicOf,        \* the topic of each run's request
    RunLimit,       \* the budget of each run: one number per dimension
    TopicLimit, DailyLimit,     \* the budgets runs share
    NoLimit,        \* the absent daily budget
    MaxQueries,     \* planned queries
    MaxPages,       \* result pages of a query
    SourceBytes,    \* DefaultLiveSourceMaximumBytes
    MaxAttempts,    \* attempts of one fetch
    MaxRedirects,   \* redirects an attempt follows
    LastDay,        \* the last day that is looked at
    Crashes,        \* may a process die?
    Failures        \* may a statement fail, or its context end?

Dimensions == {"search", "provider", "fetch", "bytes"}
Usage == [Dimensions -> Nat]
Days == 0..LastDay

Attempts == 1..MaxAttempts
AttemptRequests == 1 + MaxRedirects     \* the most that one attempt makes

ASSUME BudgetAssumption ==
    /\ RunLimit \in [Runs -> Usage] /\ TopicLimit \in Usage
    /\ DailyLimit \in Usage \union {NoLimit}
    /\ NoLimit \notin Usage
    /\ \A r \in Runs, d \in Dimensions : RunLimit[r][d] <= TopicLimit[d]
ASSUME RunAssumption ==
    TopicOf \in [Runs -> Topics] /\ Leader \in Workers /\ IsFiniteSet(Workers)
ASSUME BoundAssumption ==
    /\ {MaxQueries, MaxPages, SourceBytes, LastDay, MaxRedirects} \subseteq Nat
    /\ MaxAttempts \in Nat \ {0}
ASSUME FaultAssumption == {Crashes, Failures} \subseteq BOOLEAN

VARIABLES
    \* Durable: the sums of the ledger, and the control row of each run.
    byRun, byTopic, byDay,
    stop,       \* stopped_by_budget and stop_scope
    saved,      \* cache_fetch_saved
    \* The process of each run.
    phase,      \* "new", "search", "fetch", "over" or "dead"
    queries,    \* planned queries left
    pages,      \* pages the current query may still ask for
    jobs,       \* sources left to fetch
    size,       \* MaximumBytes of each fetch
    \* Each goroutine.
    pc,
    want,       \* the usage it asks for
    at,         \* the day of the reservation, read before the row is written
    scope,      \* the budget it found exceeded
    attempt,    \* the attempt its fetch is at
    \* The world.
    day,        \* the current UTC day
    \* History.
    calls,      \* pages each run has asked its provider for
    sent,       \* requests of its fetches, by attempt
    read,       \* bytes of sources' bodies they have read, by attempt
    kept,       \* bytes of the bodies that were returned
    taken,      \* sources a goroutine has taken from the jobs
    fetched,    \* sources returned from the network
    cached,     \* sources returned from the cache
    missed,     \* sources given up: refused or failed
    cause       \* the usage whose refusal the stop flag stands for

ledger == <<byRun, byTopic, byDay>>
process == <<phase, queries, pages, jobs, size>>
goroutine == <<pc, want, at, scope, attempt>>
network == <<calls, sent, read, kept>>
history == <<network, taken, fetched, cached, missed, cause>>
vars == <<ledger, stop, saved, process, goroutine, day, history>>

Scopes == {"run", "topic", "daily"}
Nothing == [d \in Dimensions |-> 0]
OneSearch == [Nothing EXCEPT !["search"] = 1]
OneProviderCall == [Nothing EXCEPT !["provider"] = 1]
OneFetch(bytes) == [Nothing EXCEPT !["fetch"] = 1, !["bytes"] = bytes]

Plus(u, v) == [d \in Dimensions |-> u[d] + v[d]]
Within(u, limit) == \A d \in Dimensions : u[d] <= limit[d]

Init ==
    /\ byRun = [r \in Runs |-> Nothing]
    /\ byTopic = [t \in Topics |-> Nothing]
    /\ byDay = [d \in Days |-> Nothing]
    /\ stop = [r \in Runs |-> "none"]
    /\ saved = [r \in Runs |-> 0]
    /\ phase = [r \in Runs |-> "new"]
    /\ queries = [r \in Runs |-> 0]
    /\ pages = [r \in Runs |-> 0]
    /\ jobs = [r \in Runs |-> 0]
    /\ size = [r \in Runs |-> 0]
    /\ pc = [r \in Runs |-> [w \in Workers |-> "idle"]]
    /\ want = [r \in Runs |-> [w \in Workers |-> Nothing]]
    /\ at = [r \in Runs |-> [w \in Workers |-> 0]]
    /\ scope = [r \in Runs |-> [w \in Workers |-> "none"]]
    /\ attempt = [r \in Runs |-> [w \in Workers |-> 1]]
    /\ day = 0
    /\ calls = [r \in Runs |-> 0]
    /\ sent = [r \in Runs |-> [k \in Attempts |-> 0]]
    /\ read = [r \in Runs |-> [k \in Attempts |-> 0]]
    /\ kept = [r \in Runs |-> 0]
    /\ taken = [r \in Runs |-> 0]
    /\ fetched = [r \in Runs |-> 0]
    /\ cached = [r \in Runs |-> 0]
    /\ missed = [r \in Runs |-> 0]
    /\ cause = [r \in Runs |-> Nothing]

-----------------------------------------------------------------------------
(* Budgets: the conditions of the three triggers. *)

OverRun(r, use) == ~Within(Plus(byRun[r], use), RunLimit[r])

\* Mutant: the topic's sum counts the run's own rows only.
OverTopicAlone(r, use) == ~Within(Plus(byRun[r], use), TopicLimit)

OverTopic(r, use) == ~Within(Plus(byTopic[TopicOf[r]], use), TopicLimit)

OverDay(d, use) == DailyLimit # NoLimit /\ ~Within(Plus(byDay[d], use), DailyLimit)

-----------------------------------------------------------------------------
(* Control flow of a goroutine. *)

Goto(r, w, step) == pc' = [pc EXCEPT ![r][w] = step]
Busy(r) == \E w \in Workers : pc[r][w] # "idle"

\* Reads the clock, then reserves.
Ask(r, w, use) ==
    /\ want' = [want EXCEPT ![r][w] = use]
    /\ at' = [at EXCEPT ![r][w] = day]
    /\ Goto(r, w, "insert")
    /\ UNCHANGED <<scope, attempt>>

\* The call is over, and with it what it kept.
Return(r, w) ==
    /\ Goto(r, w, "idle")
    /\ want' = [want EXCEPT ![r][w] = Nothing]
    /\ at' = [at EXCEPT ![r][w] = 0]
    /\ scope' = [scope EXCEPT ![r][w] = "none"]
    /\ attempt' = [attempt EXCEPT ![r][w] = 1]

\* A search that is refused or fails ends the run's work; a fetch is one
\* failure among the others.
GiveUp(r, w) ==
    /\ Return(r, w)
    /\ IF phase[r] = "search"
        THEN phase' = [phase EXCEPT ![r] = "over"] /\ UNCHANGED missed
        ELSE missed' = [missed EXCEPT ![r] = @ + 1] /\ UNCHANGED phase

-----------------------------------------------------------------------------
(* Reserve. *)

\* Mutant: a refusal by the daily budget alone is not noticed.
InsertOptimistic(r, w) ==
    LET use == want[r][w] IN
    /\ pc[r][w] = "insert"
    /\ \/ /\ OverRun(r, use) \/ OverTopic(r, use)
          /\ Goto(r, w, "scopeRun")
          /\ UNCHANGED ledger
       \/ /\ ~OverRun(r, use) /\ ~OverTopic(r, use)
          /\ IF OverDay(at[r][w], use) THEN UNCHANGED ledger
             ELSE /\ byRun' = [byRun EXCEPT ![r] = Plus(@, use)]
                  /\ byTopic' = [byTopic EXCEPT ![TopicOf[r]] = Plus(@, use)]
                  /\ byDay' = [byDay EXCEPT ![at[r][w]] = Plus(@, use)]
          /\ Goto(r, w, "clear")
    /\ UNCHANGED <<stop, saved, process, want, at, scope, attempt, day, history>>

\* The INSERT and its triggers: one statement.
Insert(r, w) ==
    LET use == want[r][w] IN
    /\ pc[r][w] = "insert"
    /\ \/ /\ OverRun(r, use) \/ OverTopic(r, use) \/ OverDay(at[r][w], use)
          /\ Goto(r, w, "scopeRun")
          /\ UNCHANGED ledger
       \/ /\ ~OverRun(r, use) /\ ~OverTopic(r, use) /\ ~OverDay(at[r][w], use)
          /\ byRun' = [byRun EXCEPT ![r] = Plus(@, use)]
          /\ byTopic' = [byTopic EXCEPT ![TopicOf[r]] = Plus(@, use)]
          /\ byDay' = [byDay EXCEPT ![at[r][w]] = Plus(@, use)]
          /\ Goto(r, w, "clear")
    /\ UNCHANGED <<stop, saved, process, want, at, scope, attempt, day, history>>

\* A granted reservation takes the stop back; an error of this UPDATE is
\* ignored.
ClearStop(r, w) ==
    /\ pc[r][w] = "clear"
    /\ \/ /\ stop' = [stop EXCEPT ![r] = "none"]
          /\ cause' = [cause EXCEPT ![r] = Nothing]
       \/ Failures /\ UNCHANGED <<stop, cause>>
    /\ Goto(r, w, "granted")
    /\ UNCHANGED <<ledger, saved, process, want, at, scope, attempt, day>>
    /\ UNCHANGED <<network, taken, fetched, cached, missed>>

\* The metadata are read.  A search goes on to ask for its first provider
\* call, anything else is called now, a source with its first attempt.
Granted(r, w) ==
    /\ pc[r][w] = "granted"
    /\ \/ want[r][w] = OneSearch /\ Ask(r, w, OneProviderCall)
       \/ /\ want[r][w] # OneSearch
          /\ Goto(r, w, "call")
          /\ UNCHANGED <<want, at, scope, attempt>>
    /\ UNCHANGED <<ledger, stop, saved, process, day, history>>

\* exceededScope: three reads after the refusal, in this order.
Found(r, w, s) == scope' = [scope EXCEPT ![r][w] = s] /\ Goto(r, w, "flag")

\* Mutant: a budget that is used up exactly counts as exceeded.
ReadRunUsageEarly(r, w) ==
    /\ pc[r][w] = "scopeRun"
    /\ \/ /\ \E d \in Dimensions : want[r][w][d] > 0 /\ byRun[r][d] + want[r][w][d] >= RunLimit[r][d]
          /\ Found(r, w, "run")
       \/ /\ \A d \in Dimensions : want[r][w][d] > 0 => byRun[r][d] + want[r][w][d] < RunLimit[r][d]
          /\ Goto(r, w, "scopeTopic") /\ UNCHANGED scope
    /\ UNCHANGED <<ledger, stop, saved, process, want, at, attempt, day, history>>

ReadRunUsage(r, w) ==
    /\ pc[r][w] = "scopeRun"
    /\ \/ OverRun(r, want[r][w]) /\ Found(r, w, "run")
       \/ ~OverRun(r, want[r][w]) /\ Goto(r, w, "scopeTopic") /\ UNCHANGED scope
    /\ UNCHANGED <<ledger, stop, saved, process, want, at, attempt, day, history>>

ReadTopicUsage(r, w) ==
    /\ pc[r][w] = "scopeTopic"
    /\ \/ OverTopic(r, want[r][w]) /\ Found(r, w, "topic")
       \/ ~OverTopic(r, want[r][w]) /\ Goto(r, w, "scopeDaily") /\ UNCHANGED scope
    /\ UNCHANGED <<ledger, stop, saved, process, want, at, attempt, day, history>>

\* Mutant: the usage of the day on which it is read.
ReadDailyUsageToday(r, w) ==
    /\ pc[r][w] = "scopeDaily"
    /\ \/ OverDay(day, want[r][w]) /\ Found(r, w, "daily")
       \/ ~OverDay(day, want[r][w]) /\ Goto(r, w, "noScope") /\ UNCHANGED scope
    /\ UNCHANGED <<ledger, stop, saved, process, want, at, attempt, day, history>>

\* "budget trigger fired without an exceeded scope"
ReadDailyUsage(r, w) ==
    /\ pc[r][w] = "scopeDaily"
    /\ \/ OverDay(at[r][w], want[r][w]) /\ Found(r, w, "daily")
       \/ ~OverDay(at[r][w], want[r][w]) /\ Goto(r, w, "noScope") /\ UNCHANGED scope
    /\ UNCHANGED <<ledger, stop, saved, process, want, at, attempt, day, history>>

FlagStop(r, w) ==
    /\ pc[r][w] = "flag"
    /\ stop' = [stop EXCEPT ![r] = scope[r][w]]
    /\ cause' = [cause EXCEPT ![r] = want[r][w]]
    /\ Goto(r, w, "refused")
    /\ UNCHANGED <<ledger, saved, process, want, at, scope, attempt, day>>
    /\ UNCHANGED <<network, taken, fetched, cached, missed>>

\* The metadata are read and the caller is told.
Refused(r, w) ==
    /\ pc[r][w] \in {"refused", "noScope"}
    /\ GiveUp(r, w)
    /\ UNCHANGED <<ledger, stop, saved, queries, pages, jobs, size, day>>
    /\ UNCHANGED <<network, taken, fetched, cached, cause>>

-----------------------------------------------------------------------------
(* The search stage. *)

StartRun(r) ==
    /\ phase[r] = "new"
    /\ phase' = [phase EXCEPT ![r] = "search"]
    /\ \E n \in 1..MaxQueries : queries' = [queries EXCEPT ![r] = n]
    /\ UNCHANGED <<ledger, stop, saved, pages, jobs, size, goroutine, day, history>>

Search(r) ==
    /\ phase[r] = "search" /\ ~Busy(r) /\ queries[r] > 0
    /\ Ask(r, Leader, OneSearch)
    /\ pages' = [pages EXCEPT ![r] = MaxPages]
    /\ UNCHANGED <<ledger, stop, saved, phase, queries, jobs, size, day, history>>

\* With the network closed the query is answered from the search cache, or
\* the search fails.
SearchCached(r) ==
    /\ phase[r] = "search" /\ ~Busy(r) /\ queries[r] > 0
    /\ \/ queries' = [queries EXCEPT ![r] = @ - 1] /\ UNCHANGED phase
       \/ phase' = [phase EXCEPT ![r] = "over"] /\ UNCHANGED queries
    /\ UNCHANGED <<ledger, stop, saved, pages, jobs, size, goroutine, day, history>>

\* One page.  The provider has more, or the query is answered, or it fails.
CallProvider(r, w) ==
    /\ pc[r][w] = "call" /\ phase[r] = "search"
    /\ calls' = [calls EXCEPT ![r] = @ + 1]
    /\ \/ /\ pages[r] > 1
          /\ pages' = [pages EXCEPT ![r] = @ - 1]
          /\ Ask(r, w, OneProviderCall)
          /\ UNCHANGED <<phase, queries, missed>>
       \/ /\ queries' = [queries EXCEPT ![r] = @ - 1]
          /\ Return(r, w)
          /\ UNCHANGED <<phase, pages, missed>>
       \/ GiveUp(r, w) /\ UNCHANGED <<queries, pages>>
    /\ UNCHANGED <<ledger, stop, saved, jobs, size, day>>
    /\ UNCHANGED <<sent, read, kept, taken, fetched, cached, cause>>

-----------------------------------------------------------------------------
(* The fetch stage. *)

\* Mutant: the budget is not divided.
BeginFetchUndivided(r) ==
    /\ phase[r] = "search" /\ ~Busy(r) /\ queries[r] = 0
    /\ \E n \in 1..RunLimit[r]["fetch"] :
        /\ n <= RunLimit[r]["fetch"] - byRun[r]["fetch"]
        /\ jobs' = [jobs EXCEPT ![r] = n]
        /\ size' = [size EXCEPT ![r] = SourceBytes]
    /\ phase' = [phase EXCEPT ![r] = "fetch"]
    /\ UNCHANGED <<ledger, stop, saved, queries, pages, goroutine, day, history>>

\* The run's remaining budget is divided among the sources it found.
BeginFetch(r) ==
    /\ phase[r] = "search" /\ ~Busy(r) /\ queries[r] = 0
    /\ \E n \in 1..RunLimit[r]["fetch"] :
        LET left == RunLimit[r]["bytes"] - byRun[r]["bytes"]
            each == left \div n
        IN  /\ n <= RunLimit[r]["fetch"] - byRun[r]["fetch"]
            /\ n <= left
            /\ jobs' = [jobs EXCEPT ![r] = n]
            /\ size' = [size EXCEPT ![r] = IF each < SourceBytes THEN each ELSE SourceBytes]
    /\ phase' = [phase EXCEPT ![r] = "fetch"]
    /\ UNCHANGED <<ledger, stop, saved, queries, pages, goroutine, day, history>>

TakeJob(r, w) ==
    /\ phase[r] = "fetch" /\ pc[r][w] = "idle" /\ jobs[r] > 0
    /\ jobs' = [jobs EXCEPT ![r] = @ - 1]
    /\ taken' = [taken EXCEPT ![r] = @ + 1]

Fetch(r, w) ==
    /\ TakeJob(r, w)
    /\ Ask(r, w, OneFetch(size[r]))
    /\ UNCHANGED <<ledger, stop, saved, phase, queries, pages, size, day>>
    /\ UNCHANGED <<network, fetched, cached, missed, cause>>

\* Mutant: a cached body is not accounted.
FetchCachedFree(r, w) ==
    /\ TakeJob(r, w)
    /\ \/ Goto(r, w, "avoid") /\ UNCHANGED missed
       \/ missed' = [missed EXCEPT ![r] = @ + 1] /\ UNCHANGED pc
    /\ UNCHANGED <<ledger, stop, saved, phase, queries, pages, size, want, at, scope, attempt, day>>
    /\ UNCHANGED <<network, fetched, cached, cause>>

\* With the network closed a body is read from the cache and RecordCacheSavings
\* counts its cost as saved: one UPDATE.  There may be no body, the UPDATE may
\* fail, and the context may have ended when the job is taken.
FetchCached(r, w) ==
    /\ TakeJob(r, w)
    /\ \/ /\ saved' = [saved EXCEPT ![r] = @ + 1]
          /\ Goto(r, w, "avoid")
          /\ UNCHANGED missed
       \/ missed' = [missed EXCEPT ![r] = @ + 1] /\ UNCHANGED <<saved, pc>>
    /\ UNCHANGED <<ledger, stop, phase, queries, pages, size, want, at, scope, attempt, day>>
    /\ UNCHANGED <<network, fetched, cached, cause>>

\* avoid: only when the metadata have been read too is the body returned.
UseCached(r, w) ==
    /\ pc[r][w] = "avoid"
    /\ cached' = [cached EXCEPT ![r] = @ + 1]
    /\ Return(r, w)
    /\ UNCHANGED <<ledger, stop, saved, process, day>>
    /\ UNCHANGED <<network, taken, fetched, missed, cause>>

\* One attempt of the HTTP client's Do, which requests the source and follows
\* redirects.  Of the source's body at most one byte more than was paid for is
\* read, to see that it is too large; a body counts here with the most it may
\* have, and what is drained of an error's or a redirect's is not one.  The body
\* is returned, or the fetch has failed, or the failure is a transient one (a
\* timeout, a body broken off, a status such as 503) and another attempt is
\* made, all under the fetch's one row.
CallSource(r, w) ==
    LET k == attempt[r][w]
        bytes == want[r][w]["bytes"]
    IN  /\ pc[r][w] = "call" /\ phase[r] = "fetch"
        /\ \E requests \in 1..AttemptRequests : sent' = [sent EXCEPT ![r][k] = @ + requests]
        /\ \/ /\ read' = [read EXCEPT ![r][k] = @ + bytes]
              /\ kept' = [kept EXCEPT ![r] = @ + bytes]
              /\ fetched' = [fetched EXCEPT ![r] = @ + 1]
              /\ Return(r, w)
              /\ UNCHANGED <<phase, missed>>
           \/ /\ read' = [read EXCEPT ![r][k] = @ + bytes + 1]
              /\ GiveUp(r, w)
              /\ UNCHANGED <<kept, fetched>>
           \/ /\ k < MaxAttempts
              /\ read' = [read EXCEPT ![r][k] = @ + bytes + 1]
              /\ attempt' = [attempt EXCEPT ![r][w] = @ + 1]
              /\ UNCHANGED <<phase, pc, want, at, scope, kept, fetched, missed>>
    /\ UNCHANGED <<ledger, stop, saved, queries, pages, jobs, size, day>>
    /\ UNCHANGED <<calls, taken, cached, cause>>

\* The context ends before the page or the attempt, or the source's address or
\* its rate is refused: the caller gets the error and nothing is requested.
AbandonCall(r, w) ==
    /\ pc[r][w] = "call"
    /\ GiveUp(r, w)
    /\ UNCHANGED <<ledger, stop, saved, queries, pages, jobs, size, day>>
    /\ UNCHANGED <<network, taken, fetched, cached, cause>>

EndFetch(r) ==
    /\ phase[r] = "fetch" /\ ~Busy(r) /\ jobs[r] = 0
    /\ phase' = [phase EXCEPT ![r] = "over"]
    /\ UNCHANGED <<ledger, stop, saved, queries, pages, jobs, size, goroutine, day, history>>

-----------------------------------------------------------------------------
(* Faults and time. *)

\* A statement fails without effect, or its context has ended, and the
\* caller gets the error.  What was reserved stays reserved, and what was
\* recorded as saved stays recorded.
StatementFails(r, w) ==
    /\ Failures
    /\ pc[r][w] \in {"insert", "granted", "scopeRun", "scopeTopic", "scopeDaily", "flag", "avoid"}
    /\ GiveUp(r, w)
    /\ UNCHANGED <<ledger, stop, saved, queries, pages, jobs, size, day>>
    /\ UNCHANGED <<network, taken, fetched, cached, cause>>

Crash(r) ==
    /\ Crashes
    /\ phase[r] \in {"search", "fetch"}
    /\ phase' = [phase EXCEPT ![r] = "dead"]
    /\ pc' = [pc EXCEPT ![r] = [w \in Workers |-> "idle"]]
    /\ want' = [want EXCEPT ![r] = [w \in Workers |-> Nothing]]
    /\ at' = [at EXCEPT ![r] = [w \in Workers |-> 0]]
    /\ scope' = [scope EXCEPT ![r] = [w \in Workers |-> "none"]]
    /\ attempt' = [attempt EXCEPT ![r] = [w \in Workers |-> 1]]
    /\ UNCHANGED <<ledger, stop, saved, queries, pages, jobs, size, day, history>>

Midnight ==
    /\ day < LastDay
    /\ day' = day + 1
    /\ UNCHANGED <<ledger, stop, saved, process, goroutine, history>>

Step(r, w) ==
    \/ Insert(r, w) \/ ClearStop(r, w) \/ Granted(r, w)
    \/ ReadRunUsage(r, w) \/ ReadTopicUsage(r, w) \/ ReadDailyUsage(r, w)
    \/ FlagStop(r, w) \/ Refused(r, w)
    \/ CallProvider(r, w) \/ Fetch(r, w) \/ FetchCached(r, w) \/ UseCached(r, w)
    \/ CallSource(r, w) \/ AbandonCall(r, w)
    \/ StatementFails(r, w)

Next ==
    \/ \E r \in Runs :
        \/ StartRun(r) \/ Search(r) \/ SearchCached(r) \/ BeginFetch(r) \/ EndFetch(r) \/ Crash(r)
        \/ \E w \in Workers : Step(r, w)
    \/ Midnight

Spec == Init /\ [][Next]_vars

-----------------------------------------------------------------------------
(* Properties. *)

Steps == {"idle", "insert", "clear", "granted", "call", "scopeRun", "scopeTopic",
          "scopeDaily", "flag", "refused", "noScope", "avoid"}

LedgerOK ==
    byRun \in [Runs -> Usage] /\ byTopic \in [Topics -> Usage] /\ byDay \in [Days -> Usage]
ControlOK == stop \in [Runs -> Scopes \union {"none"}] /\ saved \in [Runs -> Nat]
ProcessOK ==
    /\ phase \in [Runs -> {"new", "search", "fetch", "over", "dead"}]
    /\ queries \in [Runs -> Nat] /\ pages \in [Runs -> Nat]
    /\ jobs \in [Runs -> Nat] /\ size \in [Runs -> Nat]
GoroutineOK ==
    /\ pc \in [Runs -> [Workers -> Steps]]
    /\ want \in [Runs -> [Workers -> Usage]]
    /\ at \in [Runs -> [Workers -> Days]]
    /\ scope \in [Runs -> [Workers -> Scopes \union {"none"}]]
    /\ attempt \in [Runs -> [Workers -> Attempts]]
HistoryOK ==
    /\ calls \in [Runs -> Nat] /\ sent \in [Runs -> [Attempts -> Nat]]
    /\ read \in [Runs -> [Attempts -> Nat]] /\ kept \in [Runs -> Nat]
    /\ taken \in [Runs -> Nat] /\ fetched \in [Runs -> Nat]
    /\ cached \in [Runs -> Nat] /\ missed \in [Runs -> Nat]
    /\ cause \in [Runs -> Usage]

\* Every variable keeps its type.
TypeOK == LedgerOK /\ ControlOK /\ ProcessOK /\ GoroutineOK /\ HistoryOK /\ day \in Days

\* The ledger never exceeds the budget of a run, of a topic or of a day,
\* however the goroutines of several processes interleave.
BudgetsHold ==
    /\ \A r \in Runs : Within(byRun[r], RunLimit[r])
    /\ \A t \in Topics : Within(byTopic[t], TopicLimit)
    /\ DailyLimit # NoLimit => \A d \in Days : Within(byDay[d], DailyLimit)

\* No page is asked for without a row of its own, and a fetch has its row
\* before it requests anything: at each attempt, the requests a run has made
\* plus the ones its goroutines may still make are at most AttemptRequests for
\* each row of its ledger, also after a crash.
CallsArePaid ==
    \A r \in Runs :
        /\ calls[r] + Cardinality({w \in Workers : pc[r][w] = "call" /\ want[r][w]["provider"] > 0})
            <= byRun[r]["provider"]
        /\ \A k \in Attempts :
            LET toCome == {w \in Workers :
                    pc[r][w] = "call" /\ want[r][w]["fetch"] > 0 /\ attempt[r][w] <= k}
            IN  sent[r][k] + AttemptRequests * Cardinality(toCome)
                    <= AttemptRequests * byRun[r]["fetch"]

\* The bodies a run keeps are paid at their bound before they are fetched.
\* What it reads of sources' bodies, those of failed attempts included, is
\* within the paid bytes for each attempt, but for the one byte per fetch that
\* shows a body to be too large.
\* A run's own budget is divided so that it never refuses the run's fetches.
BytesArePrepaid ==
    \A r \in Runs :
        /\ kept[r] <= byRun[r]["bytes"]
        /\ \A k \in Attempts : read[r][k] <= byRun[r]["bytes"] + byRun[r]["fetch"]
        /\ phase[r] = "fetch" => stop[r] # "run"

\* A stop names a budget that really cannot take the usage it was raised for,
\* although it is determined by reads after the refusal and written later.
StopIsJustified ==
    \A r \in Runs :
        /\ stop[r] = "run" => OverRun(r, cause[r])
        /\ stop[r] = "topic" => OverTopic(r, cause[r])
        /\ stop[r] = "daily" => \E d \in Days : OverDay(d, cause[r])

\* A refusal can always be explained: the reads after it find the budget the
\* trigger found exceeded, also when the day changes in between.
ScopeIsFound == \A r \in Runs, w \in Workers : pc[r][w] # "noScope"

\* Every source a run took from its jobs was returned from the network or from
\* the cache, given up or is being worked on, and only one of these.  What is
\* recorded as saved is what the cache returned, except that a source whose
\* saving was recorded may still have been given up.
FetchesAreAccounted ==
    \A r \in Runs :
        LET avoiding == Cardinality({w \in Workers : pc[r][w] = "avoid"}) IN
        /\ cached[r] + avoiding <= saved[r]
        /\ phase[r] \in {"fetch", "over"} =>
            /\ taken[r] = fetched[r] + cached[r] + missed[r] +
                           Cardinality({w \in Workers : pc[r][w] # "idle"})
            /\ saved[r] <= cached[r] + missed[r] + avoiding

====
