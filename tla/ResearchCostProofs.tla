---- MODULE ResearchCostProofs ----
(***************************************************************************)
(* Budgets, stops and their explanations, for any number of runs and       *)
(* goroutines, any budgets and any combination of faults.                  *)
(***************************************************************************)
EXTENDS ResearchCost, FiniteSetTheorems, TLAPS

-----------------------------------------------------------------------------
(* Usage vectors. *)

LEMMA NothingType == Nothing \in Usage
  BY DEF Nothing, Usage

LEMMA PlusType ==
    ASSUME NEW u \in Usage, NEW v \in Usage
    PROVE  /\ Plus(u, v) \in Usage
           /\ \A d \in Dimensions : u[d] <= Plus(u, v)[d]
  BY DEF Plus, Usage

LEMMA AskedTypes ==
    /\ OneSearch \in Usage /\ OneProviderCall \in Usage
    /\ \A n \in Nat : OneFetch(n) \in Usage
  BY NothingType DEF OneSearch, OneProviderCall, OneFetch, Usage, Dimensions

LEMMA AttemptTypes == 1 \in Attempts /\ AttemptRequests \in Nat \ {0}
  BY BoundAssumption DEF Attempts, AttemptRequests

\* A budget that cannot take a usage cannot take it later, because sums grow.
LEMMA ExceededStays ==
    ASSUME NEW u \in Usage, NEW v \in Usage, NEW use \in Usage, NEW limit \in Usage,
           \A d \in Dimensions : u[d] <= v[d],
           ~Within(Plus(u, use), limit)
    PROVE  ~Within(Plus(v, use), limit)
<1>1. PICK d \in Dimensions : ~(Plus(u, use)[d] <= limit[d])
  BY DEF Within
<1>2. ~(Plus(v, use)[d] <= limit[d])
  BY <1>1 DEF Plus, Usage
<1> QED BY <1>2 DEF Within

-----------------------------------------------------------------------------
(* The inductive invariant. *)

\* Only the leader works while a run searches, and it has a query to answer;
\* nobody works before and after the run.
StageInv ==
    \A r \in Runs, w \in Workers : pc[r][w] # "idle" =>
        /\ phase[r] \in {"search", "fetch"}
        /\ phase[r] = "search" => w = Leader /\ queries[r] > 0

\* What a goroutine knows after a refusal.
Explained(r, w) ==
    LET use == want[r][w] IN
    /\ pc[r][w] = "scopeRun" =>
        OverRun(r, use) \/ OverTopic(r, use) \/ OverDay(at[r][w], use)
    /\ pc[r][w] = "scopeTopic" => OverTopic(r, use) \/ OverDay(at[r][w], use)
    /\ pc[r][w] = "scopeDaily" => OverDay(at[r][w], use)
    /\ pc[r][w] = "flag" =>
        \/ scope[r][w] = "run" /\ OverRun(r, use)
        \/ scope[r][w] = "topic" /\ OverTopic(r, use)
        \/ scope[r][w] = "daily" /\ OverDay(at[r][w], use)
    /\ pc[r][w] # "noScope"

ScopeInv == \A r \in Runs, w \in Workers : Explained(r, w)

CostInv == TypeOK /\ StageInv /\ BudgetsHold /\ ScopeInv /\ StopIsJustified

LEMMA CostInit == Init => CostInv
<1> SUFFICES ASSUME Init PROVE CostInv
  OBVIOUS
<1>1. TypeOK
  BY NothingType, AttemptTypes, BoundAssumption
     DEF Init, TypeOK, LedgerOK, ControlOK, ProcessOK, GoroutineOK,
     HistoryOK, Steps, Days, Scopes
<1>2. StageInv /\ ScopeInv /\ StopIsJustified
  BY DEF Init, StageInv, ScopeInv, Explained, StopIsJustified
<1>3. BudgetsHold
  BY BudgetAssumption DEF Init, BudgetsHold, Within, Nothing, Usage
<1> QED BY <1>1, <1>2, <1>3 DEF CostInv

-----------------------------------------------------------------------------
(* Type correctness and stages. *)

\* What the parts of a step do to the goroutines.
LEMMA Moves ==
    ASSUME GoroutineOK, day \in Days, NEW r \in Runs, NEW w \in Workers
    PROVE  /\ \A s \in Steps : Goto(r, w, s) => pc' \in [Runs -> [Workers -> Steps]]
           /\ \A s \in Scopes : Found(r, w, s) =>
                /\ pc' \in [Runs -> [Workers -> Steps]]
                /\ scope' \in [Runs -> [Workers -> Scopes \union {"none"}]]
           /\ \A u \in Usage : Ask(r, w, u) => GoroutineOK'
           /\ Return(r, w) => GoroutineOK'
<1>1. \A s \in Steps : Goto(r, w, s) => pc' \in [Runs -> [Workers -> Steps]]
  BY DEF GoroutineOK, Goto
<1>2. \A s \in Scopes :
        [scope EXCEPT ![r][w] = s] \in [Runs -> [Workers -> Scopes \union {"none"}]]
  BY DEF GoroutineOK
<1>3. "flag" \in Steps /\ "insert" \in Steps
  BY DEF Steps
<1>4. \A u \in Usage : Ask(r, w, u) => GoroutineOK'
  <2> SUFFICES ASSUME NEW u \in Usage, Ask(r, w, u) PROVE GoroutineOK'
    OBVIOUS
  <2>1. want' \in [Runs -> [Workers -> Usage]]
    BY DEF Ask, GoroutineOK
  <2>2. at' \in [Runs -> [Workers -> Days]]
    BY DEF Ask, GoroutineOK
  <2>3. pc' \in [Runs -> [Workers -> Steps]] /\ UNCHANGED <<scope, attempt>>
    BY <1>1, <1>3 DEF Ask
  <2> QED BY <2>1, <2>2, <2>3 DEF GoroutineOK
<1>5. Return(r, w) => GoroutineOK'
  <2> SUFFICES ASSUME Return(r, w) PROVE GoroutineOK'
    OBVIOUS
  <2>1. pc' \in [Runs -> [Workers -> Steps]]
    BY <1>1 DEF Return, Steps
  <2>2. want' \in [Runs -> [Workers -> Usage]]
    BY NothingType DEF Return, GoroutineOK
  <2>3. at' \in [Runs -> [Workers -> Days]]
    BY BoundAssumption DEF Return, GoroutineOK, Days
  <2>4. scope' \in [Runs -> [Workers -> Scopes \union {"none"}]]
    BY DEF Return, GoroutineOK
  <2>5. attempt' \in [Runs -> [Workers -> Attempts]]
    BY AttemptTypes DEF Return, GoroutineOK
  <2> QED BY <2>1, <2>2, <2>3, <2>4, <2>5 DEF GoroutineOK
<1> QED BY <1>1, <1>2, <1>3, <1>4, <1>5 DEF Found

LEMMA GivesUp ==
    ASSUME TypeOK, StageInv, NEW r \in Runs, NEW w \in Workers, GiveUp(r, w),
           pc[r][w] # "idle", UNCHANGED queries
    PROVE  /\ GoroutineOK'
           /\ phase' \in [Runs -> {"new", "search", "fetch", "over", "dead"}]
           /\ missed' \in [Runs -> Nat]
           /\ StageInv'
<1>1. GoroutineOK'
  BY Moves DEF GiveUp, TypeOK
<1>2. /\ phase' \in [Runs -> {"new", "search", "fetch", "over", "dead"}]
      /\ missed' \in [Runs -> Nat]
  <2>1. /\ phase \in [Runs -> {"new", "search", "fetch", "over", "dead"}]
        /\ missed \in [Runs -> Nat]
    BY DEF TypeOK, ProcessOK, HistoryOK
  <2> QED BY <2>1 DEF GiveUp
<1>3. \A s \in Runs, v \in Workers : pc'[s][v] = IF s = r /\ v = w THEN "idle" ELSE pc[s][v]
  BY DEF GiveUp, Return, Goto, TypeOK, GoroutineOK
<1>4. \A s \in Runs : phase'[s] = phase[s] \/ (s = r /\ phase[r] = "search")
  BY DEF GiveUp, TypeOK, ProcessOK
<1>5. StageInv'
  <2> SUFFICES ASSUME NEW s \in Runs, NEW v \in Workers, pc'[s][v] # "idle"
               PROVE  /\ phase'[s] \in {"search", "fetch"}
                      /\ phase'[s] = "search" => v = Leader /\ queries'[s] > 0
    BY DEF StageInv
  <2>1. CASE s = r /\ phase[r] = "search"
    BY <1>3, <2>1 DEF StageInv
  <2>2. CASE ~(s = r /\ phase[r] = "search")
    BY <1>3, <1>4, <2>2 DEF StageInv
  <2> QED BY <2>1, <2>2
<1> QED BY <1>1, <1>2, <1>5

\* A goroutine that keeps working in its stage keeps the stage invariant.
LEMMA StageKept ==
    ASSUME StageInv,
           \A r \in Runs, w \in Workers : pc'[r][w] # "idle" =>
             pc[r][w] # "idle" /\ phase'[r] = phase[r] /\ queries'[r] = queries[r]
    PROVE  StageInv'
  BY DEF StageInv

\* The same for a step of one goroutine that leaves phase and queries alone.
LEMMA StageMove ==
    ASSUME GoroutineOK, StageInv, UNCHANGED <<phase, queries>>,
           NEW r \in Runs, NEW w \in Workers, NEW s, Goto(r, w, s),
           pc[r][w] # "idle" \/ s = "idle"
    PROVE  StageInv'
<1>1. \A q \in Runs, v \in Workers : pc'[q][v] = IF q = r /\ v = w THEN s ELSE pc[q][v]
  BY DEF Goto, GoroutineOK
<1> QED BY <1>1, StageKept

\* What a granted reservation does to the sums.
LEMMA InsertLedger ==
    ASSUME TypeOK, NEW r \in Runs, NEW w \in Workers, Insert(r, w)
    PROVE  /\ LedgerOK'
           /\ \A q \in Runs, d \in Dimensions : byRun[q][d] <= byRun'[q][d]
           /\ \A t \in Topics, d \in Dimensions : byTopic[t][d] <= byTopic'[t][d]
           /\ \A n \in Days, d \in Dimensions : byDay[n][d] <= byDay'[n][d]
<1> DEFINE use == want[r][w]
<1>1. use \in Usage /\ at[r][w] \in Days /\ TopicOf[r] \in Topics
  BY RunAssumption DEF TypeOK, GoroutineOK
<1>2. LedgerOK
  BY DEF TypeOK
<1>3. CASE UNCHANGED ledger
  BY <1>2, <1>3 DEF LedgerOK, ledger, Usage
<1>4. CASE /\ byRun' = [byRun EXCEPT ![r] = Plus(@, use)]
           /\ byTopic' = [byTopic EXCEPT ![TopicOf[r]] = Plus(@, use)]
           /\ byDay' = [byDay EXCEPT ![at[r][w]] = Plus(@, use)]
  <2> HIDE DEF use
  <2>1. \A u \in Usage : \A d \in Dimensions : u[d] <= u[d]
    BY DEF Usage
  <2>2. byRun' \in [Runs -> Usage] /\ \A q \in Runs, d \in Dimensions : byRun[q][d] <= byRun'[q][d]
    BY <1>1, <1>2, <1>4, <2>1, PlusType DEF LedgerOK
  <2>3. byTopic' \in [Topics -> Usage]
    BY <1>1, <1>2, <1>4, PlusType DEF LedgerOK
  <2>4. \A t \in Topics, d \in Dimensions : byTopic[t][d] <= byTopic'[t][d]
    BY <1>1, <1>2, <1>4, <2>1, PlusType DEF LedgerOK
  <2>5. byDay' \in [Days -> Usage] /\ \A n \in Days, d \in Dimensions : byDay[n][d] <= byDay'[n][d]
    BY <1>1, <1>2, <1>4, <2>1, PlusType DEF LedgerOK
  <2> QED BY <2>2, <2>3, <2>4, <2>5 DEF LedgerOK
<1> QED BY <1>3, <1>4 DEF Insert

\* The steps of one goroutine keep the types and the stages.
LEMMA WorkerTypes ==
    ASSUME TypeOK, StageInv, NEW r \in Runs, NEW w \in Workers, Step(r, w)
    PROVE  TypeOK' /\ StageInv'
<1>1. LedgerOK /\ ControlOK /\ ProcessOK /\ GoroutineOK /\ HistoryOK /\ day \in Days
  BY DEF TypeOK
<1>2. \A s \in Steps : Goto(r, w, s) => pc' \in [Runs -> [Workers -> Steps]]
  BY <1>1, Moves
<1>3. \A s \in Scopes : Found(r, w, s) =>
        /\ pc' \in [Runs -> [Workers -> Steps]]
        /\ scope' \in [Runs -> [Workers -> Scopes \union {"none"}]]
  BY <1>1, Moves
<1>4. (\A u \in Usage : Ask(r, w, u) => GoroutineOK') /\ (Return(r, w) => GoroutineOK')
  BY <1>1, Moves
<1>5. {"idle", "insert", "clear", "granted", "call", "scopeRun", "scopeTopic", "scopeDaily",
       "flag", "refused", "noScope", "avoid"} \subseteq Steps
  BY DEF Steps
<1>a. CASE Insert(r, w)
  <2>1. LedgerOK'
    BY <1>a, InsertLedger
  <2>2. GoroutineOK'
    BY <1>1, <1>2, <1>5, <1>a DEF Insert, GoroutineOK, process, history
  <2>3. ControlOK' /\ ProcessOK' /\ HistoryOK' /\ day' \in Days
    BY <1>1, <1>a DEF Insert, ControlOK, ProcessOK, HistoryOK, process, history, network
  <2>4. StageInv'
    BY <1>1, <1>a, StageMove DEF Insert, process
  <2> QED BY <2>1, <2>2, <2>3, <2>4 DEF TypeOK
<1>b. CASE ClearStop(r, w)
  <2>1. GoroutineOK'
    BY <1>1, <1>2, <1>5, <1>b DEF ClearStop, GoroutineOK, process
  <2>2. ControlOK' /\ cause' \in [Runs -> Usage]
    BY <1>1, <1>b, NothingType DEF ClearStop, ControlOK, HistoryOK
  <2>3. LedgerOK' /\ ProcessOK' /\ HistoryOK' /\ day' \in Days
    BY <1>1, <1>b, <2>2 DEF ClearStop, LedgerOK, ProcessOK, HistoryOK, process, ledger, network
  <2>4. StageInv'
    BY <1>1, <1>b, StageMove DEF ClearStop, process
  <2> QED BY <2>1, <2>2, <2>3, <2>4 DEF TypeOK
<1>c. CASE Granted(r, w)
  <2>1. GoroutineOK'
    BY <1>1, <1>2, <1>4, <1>5, <1>c, AskedTypes DEF Granted, GoroutineOK
  <2>2. LedgerOK' /\ ControlOK' /\ ProcessOK' /\ HistoryOK' /\ day' \in Days
    BY <1>1, <1>c DEF Granted, LedgerOK, ControlOK, ProcessOK, HistoryOK, process, ledger,
       history, network
  <2>3. StageInv'
    BY <1>1, <1>c, StageMove DEF Granted, Ask, process
  <2> QED BY <2>1, <2>2, <2>3 DEF TypeOK
<1>d. CASE ReadRunUsage(r, w) \/ ReadTopicUsage(r, w) \/ ReadDailyUsage(r, w)
  <2>0. {"run", "topic", "daily"} \subseteq Scopes
    BY DEF Scopes
  <2>1. GoroutineOK'
    BY <1>1, <1>2, <1>3, <1>5, <1>d, <2>0
       DEF ReadRunUsage, ReadTopicUsage, ReadDailyUsage, GoroutineOK
  <2>2. LedgerOK' /\ ControlOK' /\ ProcessOK' /\ HistoryOK' /\ day' \in Days
    BY <1>1, <1>d DEF ReadRunUsage, ReadTopicUsage, ReadDailyUsage, LedgerOK, ControlOK,
       ProcessOK, HistoryOK, process, ledger, history, network
  <2>3. StageInv'
    BY <1>1, <1>d, StageMove DEF ReadRunUsage, ReadTopicUsage, ReadDailyUsage, Found, process
  <2> QED BY <2>1, <2>2, <2>3 DEF TypeOK
<1>e. CASE FlagStop(r, w)
  <2>1. GoroutineOK'
    BY <1>1, <1>2, <1>5, <1>e DEF FlagStop, GoroutineOK
  <2>2. ControlOK' /\ HistoryOK'
    BY <1>1, <1>e DEF FlagStop, ControlOK, HistoryOK, GoroutineOK, network
  <2>3. LedgerOK' /\ ProcessOK' /\ day' \in Days
    BY <1>1, <1>e DEF FlagStop, LedgerOK, ProcessOK, process, ledger
  <2>4. StageInv'
    BY <1>1, <1>e, StageMove DEF FlagStop, process
  <2> QED BY <2>1, <2>2, <2>3, <2>4 DEF TypeOK
<1>f. CASE Refused(r, w) \/ StatementFails(r, w) \/ AbandonCall(r, w)
  <2>1. GiveUp(r, w) /\ UNCHANGED queries /\ pc[r][w] # "idle"
    BY <1>f DEF Refused, StatementFails, AbandonCall
  <2>2. /\ GoroutineOK'
        /\ phase' \in [Runs -> {"new", "search", "fetch", "over", "dead"}]
        /\ missed' \in [Runs -> Nat]
        /\ StageInv'
    BY <2>1, GivesUp
  <2>3. LedgerOK' /\ ControlOK' /\ day' \in Days
    BY <1>1, <1>f DEF Refused, StatementFails, AbandonCall, LedgerOK, ControlOK, ledger
  <2>4. ProcessOK' /\ HistoryOK'
    BY <1>1, <1>f, <2>2 DEF Refused, StatementFails, AbandonCall, ProcessOK, HistoryOK, network
  <2> QED BY <2>2, <2>3, <2>4 DEF TypeOK
<1>g. CASE CallProvider(r, w)
  <2>1. phase[r] = "search" /\ queries[r] > 0 /\ w = Leader
    BY <1>g DEF CallProvider, StageInv
  <2>2. calls' \in [Runs -> Nat]
    BY <1>1, <1>g DEF CallProvider, HistoryOK
  <2>3. LedgerOK' /\ ControlOK' /\ day' \in Days
    BY <1>1, <1>g DEF CallProvider, LedgerOK, ControlOK, ledger
  <2>4. CASE pages[r] > 1 /\ pages' = [pages EXCEPT ![r] = @ - 1] /\ Ask(r, w, OneProviderCall)
             /\ UNCHANGED <<phase, queries, missed>>
    <3>1. GoroutineOK'
      BY <1>4, <2>4, AskedTypes
    <3>2. ProcessOK' /\ HistoryOK'
      BY <1>1, <1>g, <2>2, <2>4 DEF CallProvider, ProcessOK, HistoryOK
    <3>3. StageInv'
      BY <1>1, <1>g, <2>4, StageMove DEF CallProvider, Ask
    <3> QED BY <2>3, <3>1, <3>2, <3>3 DEF TypeOK
  <2>5. CASE queries' = [queries EXCEPT ![r] = @ - 1] /\ Return(r, w)
             /\ UNCHANGED <<phase, pages, missed>>
    <3>1. GoroutineOK'
      BY <1>4, <2>5
    <3>2. ProcessOK' /\ HistoryOK'
      BY <1>1, <1>g, <2>1, <2>2, <2>5 DEF CallProvider, ProcessOK, HistoryOK
    <3>3. \A q \in Runs, v \in Workers : pc'[q][v] = IF q = r /\ v = w THEN "idle" ELSE pc[q][v]
      BY <1>1, <2>5 DEF Return, Goto, GoroutineOK
    <3>4. \A q \in Runs, v \in Workers : pc'[q][v] # "idle" => q # r
      BY <2>1, <3>3 DEF StageInv
    <3>5. StageInv'
      BY <1>1, <2>5, <3>3, <3>4, StageKept DEF ProcessOK
    <3> QED BY <2>3, <3>1, <3>2, <3>5 DEF TypeOK
  <2>6. CASE GiveUp(r, w) /\ UNCHANGED <<queries, pages>>
    <3>1. /\ GoroutineOK'
          /\ phase' \in [Runs -> {"new", "search", "fetch", "over", "dead"}]
          /\ missed' \in [Runs -> Nat]
          /\ StageInv'
      BY <1>g, <2>6, GivesUp DEF CallProvider
    <3>2. ProcessOK' /\ HistoryOK'
      BY <1>1, <1>g, <2>2, <2>6, <3>1 DEF CallProvider, ProcessOK, HistoryOK
    <3> QED BY <2>3, <3>1, <3>2 DEF TypeOK
  <2> QED BY <1>g, <2>4, <2>5, <2>6 DEF CallProvider
<1>h. CASE Fetch(r, w) \/ FetchCached(r, w)
  <2>1. jobs' \in [Runs -> Nat] /\ taken' \in [Runs -> Nat] /\ phase[r] = "fetch"
    BY <1>1, <1>h DEF Fetch, FetchCached, TakeJob, ProcessOK, HistoryOK
  <2>2. GoroutineOK'
    <3>1. size[r] \in Nat
      BY <1>1 DEF ProcessOK
    <3>2. CASE Fetch(r, w)
      BY <1>4, <3>1, <3>2, AskedTypes DEF Fetch
    <3>3. CASE FetchCached(r, w)
      BY <1>1, <1>2, <1>5, <3>3 DEF FetchCached, GoroutineOK
    <3> QED BY <1>h, <3>2, <3>3
  <2>3. ControlOK' /\ HistoryOK'
    BY <1>1, <1>h, <2>1 DEF Fetch, FetchCached, ControlOK, HistoryOK, network
  <2>4. LedgerOK' /\ ProcessOK' /\ day' \in Days
    BY <1>1, <1>h, <2>1 DEF Fetch, FetchCached, LedgerOK, ProcessOK, ledger
  <2>5. StageInv'
    <3>1. \A s : Goto(r, w, s) => \A q \in Runs, v \in Workers :
            pc'[q][v] = IF q = r /\ v = w THEN s ELSE pc[q][v]
      BY <1>1 DEF Goto, GoroutineOK
    <3>2. \A q \in Runs, v \in Workers : pc'[q][v] = pc[q][v] \/ q = r
      BY <1>h, <3>1 DEF Fetch, FetchCached, Ask
    <3> QED BY <1>h, <2>1, <3>2 DEF Fetch, FetchCached, StageInv
  <2> QED BY <2>2, <2>3, <2>4, <2>5 DEF TypeOK
<1>i. CASE UseCached(r, w)
  <2>1. GoroutineOK'
    BY <1>4, <1>i DEF UseCached
  <2>2. LedgerOK' /\ ControlOK' /\ ProcessOK' /\ HistoryOK' /\ day' \in Days
    BY <1>1, <1>i DEF UseCached, LedgerOK, ControlOK, ProcessOK, HistoryOK, process, ledger, network
  <2>3. StageInv'
    BY <1>1, <1>i, StageMove DEF UseCached, Return, process
  <2> QED BY <2>1, <2>2, <2>3 DEF TypeOK
<1>j. CASE CallSource(r, w)
  <2> DEFINE k == attempt[r][w]
             bytes == want[r][w]["bytes"]
  <2>1. k \in Attempts /\ bytes \in Nat
    BY <1>1 DEF GoroutineOK, Usage, Dimensions
  <2>2. sent' \in [Runs -> [Attempts -> Nat]]
    BY <1>1, <1>j, <2>1, AttemptTypes DEF CallSource, HistoryOK
  <2>3. LedgerOK' /\ ControlOK' /\ day' \in Days
    BY <1>1, <1>j DEF CallSource, LedgerOK, ControlOK, ledger
  <2>4. UNCHANGED <<queries, pages, jobs, size, calls, taken, cached, cause>>
    BY <1>j DEF CallSource
  <2>5. CASE /\ read' = [read EXCEPT ![r][k] = @ + bytes]
             /\ kept' = [kept EXCEPT ![r] = @ + bytes]
             /\ fetched' = [fetched EXCEPT ![r] = @ + 1]
             /\ Return(r, w)
             /\ UNCHANGED <<phase, missed>>
    <3>1. GoroutineOK'
      BY <1>4, <2>5
    <3>2. ProcessOK' /\ HistoryOK'
      BY <1>1, <2>1, <2>2, <2>4, <2>5 DEF ProcessOK, HistoryOK
    <3>3. StageInv'
      BY <1>1, <2>4, <2>5, StageMove DEF Return
    <3> QED BY <2>3, <3>1, <3>2, <3>3 DEF TypeOK
  <2>6. CASE /\ read' = [read EXCEPT ![r][k] = @ + bytes + 1]
             /\ GiveUp(r, w)
             /\ UNCHANGED <<kept, fetched>>
    <3>1. /\ GoroutineOK'
          /\ phase' \in [Runs -> {"new", "search", "fetch", "over", "dead"}]
          /\ missed' \in [Runs -> Nat]
          /\ StageInv'
      BY <1>j, <2>4, <2>6, GivesUp DEF CallSource
    <3>2. read' \in [Runs -> [Attempts -> Nat]]
      <4>1. read \in [Runs -> [Attempts -> Nat]]
        BY <1>1 DEF HistoryOK
      <4> QED BY <2>1, <2>6, <4>1
    <3>3. ProcessOK' /\ HistoryOK'
      BY <1>1, <2>2, <2>4, <2>6, <3>1, <3>2 DEF ProcessOK, HistoryOK
    <3> QED BY <2>3, <3>1, <3>3 DEF TypeOK
  <2>7. CASE /\ k < MaxAttempts
             /\ read' = [read EXCEPT ![r][k] = @ + bytes + 1]
             /\ attempt' = [attempt EXCEPT ![r][w] = @ + 1]
             /\ UNCHANGED <<phase, pc, want, at, scope, kept, fetched, missed>>
    <3>1. k + 1 \in Attempts
      BY <2>1, <2>7, BoundAssumption DEF Attempts
    <3>2. GoroutineOK'
      BY <1>1, <2>7, <3>1 DEF GoroutineOK
    <3>3. ProcessOK' /\ HistoryOK'
      BY <1>1, <2>1, <2>2, <2>4, <2>7 DEF ProcessOK, HistoryOK
    <3>4. StageInv'
      BY <2>4, <2>7 DEF StageInv
    <3> QED BY <2>3, <3>2, <3>3, <3>4 DEF TypeOK
  <2> QED BY <1>j, <2>5, <2>6, <2>7 DEF CallSource
<1> QED BY <1>a, <1>b, <1>c, <1>d, <1>e, <1>f, <1>g, <1>h, <1>i, <1>j DEF Step

\* The steps of a run as a whole, and of the day.
LEMMA RunTypes ==
    ASSUME TypeOK, StageInv, NEW r \in Runs,
           StartRun(r) \/ Search(r) \/ SearchCached(r) \/ BeginFetch(r) \/ EndFetch(r) \/ Crash(r)
    PROVE  TypeOK' /\ StageInv'
<1>1. LedgerOK /\ ControlOK /\ ProcessOK /\ GoroutineOK /\ HistoryOK /\ day \in Days
  BY DEF TypeOK
<1>2. LedgerOK' /\ ControlOK' /\ HistoryOK' /\ day' \in Days
  BY <1>1 DEF StartRun, Search, SearchCached, BeginFetch, EndFetch, Crash, LedgerOK, ControlOK,
     HistoryOK, ledger, history, network
<1>a. CASE StartRun(r)
  <2>1. ProcessOK' /\ GoroutineOK'
    BY <1>1, <1>a, BoundAssumption DEF StartRun, ProcessOK, GoroutineOK, goroutine
  <2>2. \A w \in Workers : pc[r][w] = "idle"
    BY <1>a DEF StartRun, StageInv
  <2>3. StageInv'
    BY <1>1, <1>a, <2>2 DEF StartRun, StageInv, goroutine, ProcessOK
  <2> QED BY <1>2, <2>1, <2>3 DEF TypeOK
<1>b. CASE Search(r)
  <2>1. GoroutineOK'
    BY <1>1, <1>b, Moves, AskedTypes, RunAssumption DEF Search
  <2>2. ProcessOK'
    BY <1>1, <1>b, BoundAssumption DEF Search, ProcessOK
  <2>3. \A q \in Runs, v \in Workers :
          pc'[q][v] = IF q = r /\ v = Leader THEN "insert" ELSE pc[q][v]
    BY <1>1, <1>b, RunAssumption DEF Search, Ask, Goto, GoroutineOK
  <2>4. StageInv'
    BY <1>b, <2>3 DEF Search, StageInv
  <2> QED BY <1>2, <2>1, <2>2, <2>4 DEF TypeOK
<1>c. CASE SearchCached(r)
  <2>1. queries[r] - 1 \in Nat
    BY <1>1, <1>c DEF SearchCached, ProcessOK
  <2>2. ProcessOK' /\ GoroutineOK'
    BY <1>1, <1>c, <2>1 DEF SearchCached, ProcessOK, GoroutineOK, goroutine
  <2>3. \A w \in Workers : pc[r][w] = "idle"
    BY <1>c DEF SearchCached, Busy
  <2>4. StageInv'
    BY <1>1, <1>c, <2>3 DEF SearchCached, StageInv, goroutine, ProcessOK
  <2> QED BY <1>2, <2>2, <2>4 DEF TypeOK
<1>d. CASE BeginFetch(r)
  <2>1. PICK n \in 1..RunLimit[r]["fetch"] :
          LET left == RunLimit[r]["bytes"] - byRun[r]["bytes"]
              each == left \div n
          IN  /\ n <= left
              /\ jobs' = [jobs EXCEPT ![r] = n]
              /\ size' = [size EXCEPT ![r] = IF each < SourceBytes THEN each ELSE SourceBytes]
    BY <1>d DEF BeginFetch
  <2>2. RunLimit[r] \in Usage /\ byRun[r] \in Usage
    BY <1>1, BudgetAssumption DEF LedgerOK
  <2>3. /\ n \in Nat \ {0}
        /\ RunLimit[r]["bytes"] \in Nat /\ byRun[r]["bytes"] \in Nat
    BY <2>2 DEF Usage, Dimensions
  <2>4. (RunLimit[r]["bytes"] - byRun[r]["bytes"]) \in Nat
    BY <2>1, <2>3
  <2>5. \A k \in Nat : k \div n \in Nat
    BY <2>3
  <2>6. jobs' \in [Runs -> Nat] /\ size' \in [Runs -> Nat]
    BY <1>1, <2>1, <2>3, <2>4, <2>5, BoundAssumption DEF ProcessOK
  <2>7. ProcessOK' /\ GoroutineOK'
    BY <1>1, <1>d, <2>6 DEF BeginFetch, ProcessOK, GoroutineOK, goroutine
  <2>8. \A w \in Workers : pc[r][w] = "idle"
    BY <1>d DEF BeginFetch, Busy
  <2>9. StageInv'
    BY <1>1, <1>d, <2>8 DEF BeginFetch, StageInv, goroutine, ProcessOK
  <2> QED BY <1>2, <2>7, <2>9 DEF TypeOK
<1>e. CASE EndFetch(r)
  <2>1. ProcessOK' /\ GoroutineOK'
    BY <1>1, <1>e DEF EndFetch, ProcessOK, GoroutineOK, goroutine
  <2>2. \A w \in Workers : pc[r][w] = "idle"
    BY <1>e DEF EndFetch, Busy
  <2>3. StageInv'
    BY <1>1, <1>e, <2>2 DEF EndFetch, StageInv, goroutine, ProcessOK
  <2> QED BY <1>2, <2>1, <2>3 DEF TypeOK
<1>f. CASE Crash(r)
  <2>1. /\ pc' \in [Runs -> [Workers -> Steps]]
        /\ want' \in [Runs -> [Workers -> Usage]]
    BY <1>1, <1>f, NothingType DEF Crash, GoroutineOK, Steps
  <2>2. /\ at' \in [Runs -> [Workers -> Days]]
        /\ scope' \in [Runs -> [Workers -> Scopes \union {"none"}]]
        /\ attempt' \in [Runs -> [Workers -> Attempts]]
    BY <1>1, <1>f, BoundAssumption, AttemptTypes DEF Crash, GoroutineOK, Days
  <2>3. ProcessOK' /\ GoroutineOK'
    BY <1>1, <1>f, <2>1, <2>2 DEF Crash, ProcessOK, GoroutineOK
  <2>4. StageInv'
    BY <1>1, <1>f DEF Crash, StageInv, GoroutineOK, ProcessOK
  <2> QED BY <1>2, <2>3, <2>4 DEF TypeOK
<1> QED BY <1>a, <1>b, <1>c, <1>d, <1>e, <1>f

LEMMA NextTypes ==
    ASSUME TypeOK, StageInv, [Next]_vars
    PROVE  TypeOK' /\ StageInv'
<1>1. CASE \E r \in Runs : \E w \in Workers : Step(r, w)
  BY <1>1, WorkerTypes
<1>2. CASE \E r \in Runs : StartRun(r) \/ Search(r) \/ SearchCached(r) \/ BeginFetch(r)
             \/ EndFetch(r) \/ Crash(r)
  BY <1>2, RunTypes
<1>3. CASE Midnight
  <2>1. day' \in Days
    BY <1>3, BoundAssumption DEF Midnight, TypeOK, Days
  <2> QED BY <1>3, <2>1 DEF Midnight, TypeOK, LedgerOK, ControlOK, ProcessOK, GoroutineOK,
     HistoryOK, StageInv, ledger, process, goroutine, history, network
<1>4. CASE UNCHANGED vars
  BY <1>4 DEF vars, TypeOK, LedgerOK, ControlOK, ProcessOK, GoroutineOK,
     HistoryOK, StageInv, ledger, process, goroutine, history, network
<1> QED BY <1>1, <1>2, <1>3, <1>4 DEF Next

-----------------------------------------------------------------------------
(* Budgets. *)

\* Only Insert writes the ledger, and sums only grow.
LEMMA LedgerGrows ==
    ASSUME TypeOK, [Next]_vars
    PROVE  /\ UNCHANGED ledger \/ \E r \in Runs, w \in Workers : Insert(r, w)
           /\ \A q \in Runs, d \in Dimensions : byRun[q][d] <= byRun'[q][d]
           /\ \A t \in Topics, d \in Dimensions : byTopic[t][d] <= byTopic'[t][d]
           /\ \A n \in Days, d \in Dimensions : byDay[n][d] <= byDay'[n][d]
<1>1. UNCHANGED ledger \/ \E r \in Runs, w \in Workers : Insert(r, w)
  <2>1. ASSUME NEW r \in Runs, NEW w \in Workers, Step(r, w)
        PROVE  Insert(r, w) \/ UNCHANGED ledger
    BY <2>1 DEF Step, ClearStop, Granted, ReadRunUsage, ReadTopicUsage, ReadDailyUsage,
       FlagStop, Refused, CallProvider, Fetch, FetchCached, UseCached, CallSource, AbandonCall,
       StatementFails
  <2>2. ASSUME NEW r \in Runs, StartRun(r) \/ Search(r) \/ SearchCached(r) \/ BeginFetch(r)
               \/ EndFetch(r) \/ Crash(r)
        PROVE  UNCHANGED ledger
    BY <2>2 DEF StartRun, Search, SearchCached, BeginFetch, EndFetch, Crash
  <2>3. Midnight \/ UNCHANGED vars => UNCHANGED ledger
    BY DEF Midnight, vars
  <2> QED BY <2>1, <2>2, <2>3 DEF Next
<1>2. CASE UNCHANGED ledger
  BY <1>2 DEF ledger, TypeOK, LedgerOK, Usage
<1>3. CASE \E r \in Runs, w \in Workers : Insert(r, w)
  BY <1>3, InsertLedger
<1> QED BY <1>1, <1>2, <1>3

LEMMA BudgetsKept ==
    ASSUME TypeOK, BudgetsHold, [Next]_vars
    PROVE  BudgetsHold'
<1>1. CASE UNCHANGED ledger
  BY <1>1 DEF BudgetsHold, Within, ledger
<1>2. CASE \E r \in Runs, w \in Workers : Insert(r, w)
  <2>1. PICK r \in Runs, w \in Workers : Insert(r, w)
    BY <1>2
  <2>2. CASE UNCHANGED ledger
    BY <2>2 DEF BudgetsHold, Within, ledger
  <2>3. CASE ~UNCHANGED ledger
    <3>1. /\ ~OverRun(r, want[r][w]) /\ ~OverTopic(r, want[r][w])
          /\ ~OverDay(at[r][w], want[r][w])
          /\ byRun' = [byRun EXCEPT ![r] = Plus(@, want[r][w])]
          /\ byTopic' = [byTopic EXCEPT ![TopicOf[r]] = Plus(@, want[r][w])]
          /\ byDay' = [byDay EXCEPT ![at[r][w]] = Plus(@, want[r][w])]
      BY <2>1, <2>3 DEF Insert
    <3>2. \A q \in Runs : Within(byRun'[q], RunLimit[q])
      BY <3>1 DEF TypeOK, LedgerOK, BudgetsHold, OverRun
    <3>3. \A t \in Topics : Within(byTopic'[t], TopicLimit)
      BY <3>1 DEF TypeOK, LedgerOK, BudgetsHold, OverTopic
    <3>4. DailyLimit # NoLimit => \A d \in Days : Within(byDay'[d], DailyLimit)
      BY <3>1 DEF TypeOK, LedgerOK, BudgetsHold, OverDay
    <3> QED BY <3>2, <3>3, <3>4 DEF BudgetsHold, Within
  <2> QED BY <2>2, <2>3
<1> QED BY <1>1, <1>2, LedgerGrows

-----------------------------------------------------------------------------
(* Explanations of a refusal. *)

LEMMA OverStays ==
    ASSUME TypeOK, [Next]_vars, NEW use \in Usage, NEW r \in Runs, NEW n \in Days
    PROVE  /\ OverRun(r, use) => ~Within(Plus(byRun'[r], use), RunLimit[r])
           /\ OverTopic(r, use) => ~Within(Plus(byTopic'[TopicOf[r]], use), TopicLimit)
           /\ OverDay(n, use) => DailyLimit # NoLimit /\ ~Within(Plus(byDay'[n], use), DailyLimit)
<1>1. LedgerOK /\ LedgerOK'
  <2>1. CASE UNCHANGED ledger
    BY <2>1 DEF ledger, TypeOK, LedgerOK
  <2>2. CASE \E q \in Runs, w \in Workers : Insert(q, w)
    BY <2>2, InsertLedger DEF TypeOK
  <2> QED BY <2>1, <2>2, LedgerGrows DEF TypeOK
<1>2. OverRun(r, use) => ~Within(Plus(byRun'[r], use), RunLimit[r])
  <2>1. byRun[r] \in Usage /\ byRun'[r] \in Usage /\ RunLimit[r] \in Usage
    BY <1>1, BudgetAssumption DEF LedgerOK
  <2> QED BY <2>1, LedgerGrows, ExceededStays DEF OverRun
<1>3. OverTopic(r, use) => ~Within(Plus(byTopic'[TopicOf[r]], use), TopicLimit)
  <2>1. TopicOf[r] \in Topics
    BY RunAssumption
  <2>2. byTopic[TopicOf[r]] \in Usage /\ byTopic'[TopicOf[r]] \in Usage /\ TopicLimit \in Usage
    BY <1>1, <2>1, BudgetAssumption DEF LedgerOK
  <2> QED BY <2>1, <2>2, LedgerGrows, ExceededStays DEF OverTopic
<1>4. OverDay(n, use) => DailyLimit # NoLimit /\ ~Within(Plus(byDay'[n], use), DailyLimit)
  <2>1. byDay[n] \in Usage /\ byDay'[n] \in Usage /\ (DailyLimit # NoLimit => DailyLimit \in Usage)
    BY <1>1, BudgetAssumption DEF LedgerOK
  <2> QED BY <2>1, LedgerGrows, ExceededStays DEF OverDay
<1> QED BY <1>2, <1>3, <1>4

\* A goroutine that does not move keeps its explanation.
LEMMA ExplainedStays ==
    ASSUME TypeOK, [Next]_vars, NEW r \in Runs, NEW w \in Workers, Explained(r, w),
           pc'[r][w] = pc[r][w], want'[r][w] = want[r][w], at'[r][w] = at[r][w],
           scope'[r][w] = scope[r][w]
    PROVE  Explained(r, w)'
<1>1. want[r][w] \in Usage /\ at[r][w] \in Days
  BY DEF TypeOK, GoroutineOK
<1>2. /\ OverRun(r, want[r][w]) => OverRun(r, want[r][w])'
      /\ OverTopic(r, want[r][w]) => OverTopic(r, want[r][w])'
      /\ OverDay(at[r][w], want[r][w]) => OverDay(at[r][w], want[r][w])'
  BY <1>1, OverStays DEF OverRun, OverTopic, OverDay, Within, Plus
<1> QED BY <1>2 DEF Explained

\* A goroutine that no longer follows a refusal needs none.
LEMMA NothingToExplain ==
    ASSUME NEW r \in Runs, NEW w \in Workers,
           pc'[r][w] \notin {"scopeRun", "scopeTopic", "scopeDaily", "flag", "noScope"}
    PROVE  Explained(r, w)'
  BY DEF Explained

LEMMA ExplainedMoves ==
    ASSUME TypeOK, ScopeInv, NEW r \in Runs, NEW w \in Workers, Step(r, w)
    PROVE  Explained(r, w)'
<1>1. GoroutineOK /\ Explained(r, w)
  BY DEF TypeOK, ScopeInv
<1>2. \A s : Goto(r, w, s) => pc'[r][w] = s
  BY <1>1 DEF Goto, GoroutineOK
<1>3. \A s : Found(r, w, s) => pc'[r][w] = "flag" /\ scope'[r][w] = s
  BY <1>1, <1>2 DEF Found, GoroutineOK
<1>4. (GiveUp(r, w) => pc'[r][w] = "idle") /\ (Return(r, w) => pc'[r][w] = "idle")
  BY <1>2 DEF GiveUp, Return
<1>5. \A u : Ask(r, w, u) => pc'[r][w] = "insert"
  BY <1>2 DEF Ask
<1>a. CASE Insert(r, w)
  <2>1. CASE pc'[r][w] = "clear"
    BY <2>1, NothingToExplain
  <2>2. CASE ~(pc'[r][w] = "clear")
    <3>1. /\ OverRun(r, want[r][w]) \/ OverTopic(r, want[r][w]) \/ OverDay(at[r][w], want[r][w])
          /\ pc'[r][w] = "scopeRun"
          /\ UNCHANGED <<byRun, byTopic, byDay, want, at>>
      BY <1>2, <1>a, <2>2 DEF Insert, ledger
    <3> QED BY <3>1 DEF Explained, OverRun, OverTopic, OverDay, Within, Plus
  <2> QED BY <2>1, <2>2
<1>b. CASE ReadRunUsage(r, w)
  <2>1. UNCHANGED <<byRun, byTopic, byDay, want, at>>
    BY <1>b DEF ReadRunUsage, ledger
  <2>2. OverRun(r, want[r][w]) \/ OverTopic(r, want[r][w]) \/ OverDay(at[r][w], want[r][w])
    BY <1>1, <1>b DEF ReadRunUsage, Explained
  <2>3. \/ OverRun(r, want[r][w]) /\ pc'[r][w] = "flag" /\ scope'[r][w] = "run"
        \/ ~OverRun(r, want[r][w]) /\ pc'[r][w] = "scopeTopic"
    BY <1>2, <1>3, <1>b DEF ReadRunUsage
  <2> QED BY <2>1, <2>2, <2>3 DEF Explained, OverRun, OverTopic, OverDay, Within, Plus
<1>c. CASE ReadTopicUsage(r, w)
  <2>1. UNCHANGED <<byRun, byTopic, byDay, want, at>>
    BY <1>c DEF ReadTopicUsage, ledger
  <2>2. OverTopic(r, want[r][w]) \/ OverDay(at[r][w], want[r][w])
    BY <1>1, <1>c DEF ReadTopicUsage, Explained
  <2>3. \/ OverTopic(r, want[r][w]) /\ pc'[r][w] = "flag" /\ scope'[r][w] = "topic"
        \/ ~OverTopic(r, want[r][w]) /\ pc'[r][w] = "scopeDaily"
    BY <1>2, <1>3, <1>c DEF ReadTopicUsage
  <2> QED BY <2>1, <2>2, <2>3 DEF Explained, OverRun, OverTopic, OverDay, Within, Plus
<1>d. CASE ReadDailyUsage(r, w)
  <2>1. UNCHANGED <<byRun, byTopic, byDay, want, at>>
    BY <1>d DEF ReadDailyUsage, ledger
  <2>2. OverDay(at[r][w], want[r][w])
    BY <1>1, <1>d DEF ReadDailyUsage, Explained
  <2>3. pc'[r][w] = "flag" /\ scope'[r][w] = "daily"
    BY <1>3, <1>d, <2>2 DEF ReadDailyUsage
  <2> QED BY <2>1, <2>2, <2>3 DEF Explained, OverRun, OverTopic, OverDay, Within, Plus
<1>e. CASE FetchCached(r, w) \/ CallSource(r, w)
  <2>1. pc'[r][w] \in {"idle", "avoid", "call"}
    BY <1>2, <1>4, <1>e DEF FetchCached, TakeJob, CallSource
  <2> QED BY <2>1, NothingToExplain
<1>f. CASE ClearStop(r, w) \/ Granted(r, w) \/ FlagStop(r, w) \/ Refused(r, w) \/ CallProvider(r, w)
           \/ Fetch(r, w) \/ UseCached(r, w) \/ AbandonCall(r, w) \/ StatementFails(r, w)
  <2>1. pc'[r][w] \in {"granted", "insert", "call", "refused", "idle"}
    BY <1>2, <1>4, <1>5, <1>f DEF ClearStop, Granted, FlagStop, Refused, CallProvider, Fetch,
       UseCached, AbandonCall, StatementFails
  <2> QED BY <2>1, NothingToExplain
<1> QED BY <1>a, <1>b, <1>c, <1>d, <1>e, <1>f DEF Step

LEMMA ScopeKept ==
    ASSUME TypeOK, ScopeInv, [Next]_vars
    PROVE  ScopeInv'
<1> SUFFICES ASSUME NEW q \in Runs, NEW v \in Workers PROVE Explained(q, v)'
  BY DEF ScopeInv
<1>1. GoroutineOK /\ Explained(q, v)
  BY DEF TypeOK, ScopeInv
<1>2. CASE Step(q, v)
  BY <1>2, ExplainedMoves
<1>3. CASE UNCHANGED goroutine
  BY <1>1, <1>3, ExplainedStays DEF goroutine
<1>4. ASSUME NEW r \in Runs, NEW w \in Workers, Step(r, w), r # q \/ w # v
      PROVE  Explained(q, v)'
  <2>1. \A s : Goto(r, w, s) => pc'[q][v] = pc[q][v]
    BY <1>1, <1>4 DEF Goto, GoroutineOK
  <2>2. \A s : Found(r, w, s) => pc'[q][v] = pc[q][v] /\ scope'[q][v] = scope[q][v]
    BY <1>1, <1>4, <2>1 DEF Found, GoroutineOK
  <2>3. \A u : Ask(r, w, u) => /\ pc'[q][v] = pc[q][v] /\ want'[q][v] = want[q][v]
                               /\ at'[q][v] = at[q][v] /\ scope'[q][v] = scope[q][v]
    BY <1>1, <1>4, <2>1 DEF Ask, GoroutineOK
  <2>4. Return(r, w) => /\ pc'[q][v] = pc[q][v] /\ want'[q][v] = want[q][v]
                        /\ at'[q][v] = at[q][v] /\ scope'[q][v] = scope[q][v]
    BY <1>1, <1>4, <2>1 DEF Return, GoroutineOK
  <2>5. /\ pc'[q][v] = pc[q][v] /\ want'[q][v] = want[q][v]
        /\ at'[q][v] = at[q][v] /\ scope'[q][v] = scope[q][v]
    BY <1>4, <2>1, <2>2, <2>3, <2>4 DEF Step, Insert, ClearStop, Granted, ReadRunUsage,
       ReadTopicUsage, ReadDailyUsage, FlagStop, Refused, CallProvider, Fetch, FetchCached,
       UseCached, CallSource, AbandonCall, StatementFails, GiveUp, goroutine
  <2> QED BY <1>1, <2>5, ExplainedStays
<1>5. ASSUME NEW r \in Runs, Search(r)
      PROVE  Explained(q, v)'
  <2>1. \/ pc'[q][v] = "insert"
        \/ /\ pc'[q][v] = pc[q][v] /\ want'[q][v] = want[q][v]
           /\ at'[q][v] = at[q][v] /\ scope'[q][v] = scope[q][v]
    BY <1>1, <1>5, RunAssumption DEF Search, Ask, Goto, GoroutineOK
  <2> QED BY <1>1, <2>1, ExplainedStays, NothingToExplain
<1>6. ASSUME NEW r \in Runs, Crash(r)
      PROVE  Explained(q, v)'
  <2>1. \/ pc'[q][v] = "idle"
        \/ /\ pc'[q][v] = pc[q][v] /\ want'[q][v] = want[q][v]
           /\ at'[q][v] = at[q][v] /\ scope'[q][v] = scope[q][v]
    BY <1>1, <1>6 DEF Crash, GoroutineOK
  <2> QED BY <1>1, <2>1, ExplainedStays, NothingToExplain
<1>7. ASSUME NEW r \in Runs, StartRun(r) \/ SearchCached(r) \/ BeginFetch(r) \/ EndFetch(r)
      PROVE  UNCHANGED goroutine
  BY <1>7 DEF StartRun, SearchCached, BeginFetch, EndFetch
<1>8. Midnight \/ UNCHANGED vars => UNCHANGED goroutine
  BY DEF Midnight, vars
<1> QED BY <1>2, <1>3, <1>4, <1>5, <1>6, <1>7, <1>8 DEF Next

\* A stop that stays is justified by sums that grew; a new one by what the
\* goroutine found.
LEMMA StopKept ==
    ASSUME TypeOK, ScopeInv, StopIsJustified, [Next]_vars
    PROVE  StopIsJustified'
<1>1. ControlOK /\ HistoryOK /\ GoroutineOK
  BY DEF TypeOK
<1>2. \A q \in Runs, use \in Usage :
        /\ OverRun(q, use) => ~Within(Plus(byRun'[q], use), RunLimit[q])
        /\ OverTopic(q, use) => ~Within(Plus(byTopic'[TopicOf[q]], use), TopicLimit)
        /\ \A n \in Days : OverDay(n, use) =>
             DailyLimit # NoLimit /\ ~Within(Plus(byDay'[n], use), DailyLimit)
  <2>1. day \in Days
    BY DEF TypeOK
  <2> QED BY <2>1, OverStays
<1> SUFFICES ASSUME NEW q \in Runs
             PROVE  /\ stop'[q] = "run" => OverRun(q, cause[q])'
                    /\ stop'[q] = "topic" => OverTopic(q, cause[q])'
                    /\ stop'[q] = "daily" => \E n \in Days : OverDay(n, cause[q])'
  BY DEF StopIsJustified
<1>3. CASE stop'[q] = stop[q] /\ cause'[q] = cause[q]
  <2>1. cause[q] \in Usage
    BY <1>1 DEF HistoryOK
  <2> QED BY <1>2, <1>3, <2>1 DEF StopIsJustified, OverRun, OverTopic, OverDay, Within, Plus
<1>4. CASE stop'[q] = "none"
  BY <1>4
<1>5. ASSUME NEW w \in Workers, FlagStop(q, w)
      PROVE  /\ stop'[q] = "run" => OverRun(q, cause[q])'
             /\ stop'[q] = "topic" => OverTopic(q, cause[q])'
             /\ stop'[q] = "daily" => \E n \in Days : OverDay(n, cause[q])'
  <2>1. /\ stop'[q] = scope[q][w] /\ cause'[q] = want[q][w]
        /\ UNCHANGED <<byRun, byTopic, byDay>>
    BY <1>1, <1>5 DEF FlagStop, ControlOK, HistoryOK, ledger
  <2>2. \/ scope[q][w] = "run" /\ OverRun(q, want[q][w])
        \/ scope[q][w] = "topic" /\ OverTopic(q, want[q][w])
        \/ scope[q][w] = "daily" /\ OverDay(at[q][w], want[q][w])
    BY <1>5 DEF FlagStop, ScopeInv, Explained
  <2>3. at[q][w] \in Days
    BY <1>1 DEF GoroutineOK
  <2> QED BY <2>1, <2>2, <2>3 DEF OverRun, OverTopic, OverDay, Within, Plus
<1>6. \/ stop'[q] = stop[q] /\ cause'[q] = cause[q]
      \/ stop'[q] = "none"
      \/ \E w \in Workers : FlagStop(q, w)
  <2>1. ASSUME NEW r \in Runs, NEW w \in Workers, Step(r, w)
        PROVE  \/ UNCHANGED <<stop, cause>>
               \/ /\ stop' = [stop EXCEPT ![r] = "none"]
                  /\ cause' = [cause EXCEPT ![r] = Nothing]
               \/ FlagStop(r, w)
    BY <2>1 DEF Step, Insert, ClearStop, Granted, ReadRunUsage, ReadTopicUsage, ReadDailyUsage,
       Refused, CallProvider, Fetch, FetchCached, UseCached, CallSource, AbandonCall,
       StatementFails, history
  <2>2. ASSUME NEW r \in Runs, NEW w \in Workers, FlagStop(r, w), r # q
        PROVE  stop'[q] = stop[q] /\ cause'[q] = cause[q]
    BY <1>1, <2>2 DEF FlagStop, ControlOK, HistoryOK
  <2>3. ASSUME NEW r \in Runs, StartRun(r) \/ Search(r) \/ SearchCached(r) \/ BeginFetch(r)
               \/ EndFetch(r) \/ Crash(r)
        PROVE  UNCHANGED <<stop, cause>>
    BY <2>3 DEF StartRun, Search, SearchCached, BeginFetch, EndFetch, Crash, history
  <2>4. Midnight \/ UNCHANGED vars => UNCHANGED <<stop, cause>>
    BY DEF Midnight, vars, history
  <2>5. ASSUME NEW r \in Runs, /\ stop' = [stop EXCEPT ![r] = "none"]
                               /\ cause' = [cause EXCEPT ![r] = Nothing]
        PROVE  stop'[q] = "none" \/ (stop'[q] = stop[q] /\ cause'[q] = cause[q])
    BY <1>1, <2>5 DEF ControlOK, HistoryOK
  <2> QED BY <2>1, <2>2, <2>3, <2>4, <2>5 DEF Next
<1> QED BY <1>3, <1>4, <1>5, <1>6

-----------------------------------------------------------------------------
(* Calls, bytes and sources are counted.  Each goroutine that holds or asks *)
(* for a reservation stands for one row of the ledger.                      *)

Working(r) == {w \in Workers : pc[r][w] # "idle"}
Avoiding(r) == {w \in Workers : pc[r][w] = "avoid"}
Asking(r) ==
    {w \in Workers : pc[r][w] \in {"insert", "scopeRun", "scopeTopic", "scopeDaily", "flag"}}
Holding(r, d) == {w \in Workers : pc[r][w] \in {"clear", "granted", "call"} /\ want[r][w][d] > 0}

\* The goroutines whose fetch may still make its k-th attempt.
Pending(r, k) == {w \in Holding(r, "fetch") : attempt[r][w] <= k}

\* What a goroutine asks for depends on the stage of its run, and only a fetch
\* that is being called is past its first attempt.
Wants(r, w) ==
    /\ attempt[r][w] # 1 => pc[r][w] = "call" /\ phase[r] = "fetch"
    /\ pc[r][w] # "idle" =>
        /\ phase[r] = "search" =>
             (want[r][w] = OneSearch \/ want[r][w] = OneProviderCall) /\ pc[r][w] # "avoid"
        /\ phase[r] = "fetch" /\ pc[r][w] # "avoid" => want[r][w] = OneFetch(size[r])
        /\ pc[r][w] = "call" => want[r][w] # OneSearch

\* What was spent, and a share for each of n goroutines that may still spend
\* it, is covered by a share for each row.
Balanced(spent, share, n, rows) == spent + share * n <= share * rows

Paid(r) ==
    /\ calls[r] + Cardinality(Holding(r, "provider")) <= byRun[r]["provider"]
    /\ Balanced(kept[r], size[r], Cardinality(Holding(r, "fetch")), byRun[r]["fetch"])
    /\ \A k \in Attempts :
        /\ Balanced(sent[r][k], AttemptRequests, Cardinality(Pending(r, k)), byRun[r]["fetch"])
        /\ Balanced(read[r][k], size[r] + 1, Cardinality(Pending(r, k)), byRun[r]["fetch"])

\* Every row for a fetch is of the same size.
Sized(r) ==
    /\ byRun[r]["bytes"] = size[r] * byRun[r]["fetch"]
    /\ phase[r] \in {"new", "search"} => byRun[r]["fetch"] = 0

Accounted(r) ==
    /\ cached[r] + Cardinality(Avoiding(r)) <= saved[r]
    /\ phase[r] \in {"new", "search"} =>
        taken[r] = 0 /\ saved[r] = 0 /\ missed[r] = 0 /\ fetched[r] = 0 /\ cached[r] = 0
    /\ phase[r] = "fetch" =>
        /\ taken[r] = fetched[r] + cached[r] + missed[r] + Cardinality(Working(r))
        /\ saved[r] <= cached[r] + missed[r] + Cardinality(Avoiding(r))
    /\ phase[r] = "over" =>
        /\ taken[r] = fetched[r] + cached[r] + missed[r]
        /\ saved[r] <= cached[r] + missed[r]

\* Rows that are written, asked for or still to come.
Rows(r) == byRun[r]["fetch"] + jobs[r] + Cardinality(Asking(r))
Room(r) == phase[r] = "fetch" =>
    Rows(r) <= RunLimit[r]["fetch"] /\ size[r] * Rows(r) <= RunLimit[r]["bytes"]

\* The run's own budget stops its search only, and the search is over then.
Stops(r) ==
    /\ phase[r] = "new" => stop[r] = "none"
    /\ phase[r] = "search" /\ stop[r] = "run" => pc[r][Leader] = "refused"
    /\ phase[r] = "fetch" => stop[r] # "run"

RunCount(r) ==
    /\ \A w \in Workers : Wants(r, w)
    /\ Paid(r) /\ Sized(r) /\ Accounted(r) /\ Room(r) /\ Stops(r)
CountInv == \A r \in Runs : RunCount(r)

LEMMA CountTypes ==
    ASSUME NEW r
    PROVE  /\ IsFiniteSet(Working(r)) /\ Cardinality(Working(r)) \in Nat
           /\ IsFiniteSet(Avoiding(r)) /\ Cardinality(Avoiding(r)) \in Nat
           /\ IsFiniteSet(Asking(r)) /\ Cardinality(Asking(r)) \in Nat
           /\ \A d \in Dimensions : IsFiniteSet(Holding(r, d)) /\ Cardinality(Holding(r, d)) \in Nat
           /\ \A k : IsFiniteSet(Pending(r, k)) /\ Cardinality(Pending(r, k)) \in Nat
           /\ IsFiniteSet(Working(r)') /\ Cardinality(Working(r)') \in Nat
           /\ IsFiniteSet(Avoiding(r)') /\ Cardinality(Avoiding(r)') \in Nat
           /\ IsFiniteSet(Asking(r)') /\ Cardinality(Asking(r)') \in Nat
           /\ \A d \in Dimensions : IsFiniteSet(Holding(r, d)') /\ Cardinality(Holding(r, d)') \in Nat
           /\ \A k : IsFiniteSet(Pending(r, k)') /\ Cardinality(Pending(r, k)') \in Nat
<1>1. \A T \in SUBSET Workers : IsFiniteSet(T) /\ Cardinality(T) \in Nat
  BY RunAssumption, FS_Subset, FS_CardinalityType
<1>2. /\ Working(r) \in SUBSET Workers /\ Working(r)' \in SUBSET Workers
      /\ Avoiding(r) \in SUBSET Workers /\ Avoiding(r)' \in SUBSET Workers
      /\ Asking(r) \in SUBSET Workers /\ Asking(r)' \in SUBSET Workers
  BY DEF Working, Avoiding, Asking
<1>3. \A d : Holding(r, d) \in SUBSET Workers /\ Holding(r, d)' \in SUBSET Workers
  BY DEF Holding
<1>4. \A k : Pending(r, k) \in SUBSET Workers /\ Pending(r, k)' \in SUBSET Workers
  BY <1>3 DEF Pending
<1> QED BY <1>1, <1>2, <1>3, <1>4

\* Two sets that agree except about one element.
LEMMA CountChange ==
    ASSUME NEW A, NEW B, IsFiniteSet(A), IsFiniteSet(B), NEW w, A \ {w} = B \ {w}
    PROVE  Cardinality(B) = Cardinality(A) - (IF w \in A THEN 1 ELSE 0) + (IF w \in B THEN 1 ELSE 0)
<1>1. /\ Cardinality(A \ {w}) = IF w \in A THEN Cardinality(A) - 1 ELSE Cardinality(A)
      /\ Cardinality(B \ {w}) = IF w \in B THEN Cardinality(B) - 1 ELSE Cardinality(B)
  BY FS_RemoveElement
<1>2. Cardinality(A) \in Nat /\ Cardinality(B) \in Nat
  BY FS_CardinalityType
<1>3. Cardinality(A \ {w}) = Cardinality(B \ {w})
  OBVIOUS
<1> DEFINE a == Cardinality(A)
           b == Cardinality(B)
<1>4. a \in Nat /\ b \in Nat
  BY <1>2
<1>5. (IF w \in A THEN a - 1 ELSE a) = (IF w \in B THEN b - 1 ELSE b)
  BY <1>1, <1>3
<1> HIDE DEF a, b
<1>6. b = a - (IF w \in A THEN 1 ELSE 0) + (IF w \in B THEN 1 ELSE 0)
  BY <1>4, <1>5
<1> QED BY <1>6 DEF a, b

\* The other goroutines of the run stay where they are.
Alone(r, w) == \A v \in Workers : v # w =>
    pc'[r][v] = pc[r][v] /\ want'[r][v] = want[r][v] /\ attempt'[r][v] = attempt[r][v]

\* What a step of one goroutine does to the counts of its run.
LEMMA Recounted ==
    ASSUME NEW r, NEW w \in Workers, Alone(r, w)
    PROVE  /\ Cardinality(Working(r)') = Cardinality(Working(r))
                - (IF pc[r][w] # "idle" THEN 1 ELSE 0) + (IF pc'[r][w] # "idle" THEN 1 ELSE 0)
           /\ Cardinality(Avoiding(r)') = Cardinality(Avoiding(r))
                - (IF pc[r][w] = "avoid" THEN 1 ELSE 0) + (IF pc'[r][w] = "avoid" THEN 1 ELSE 0)
           /\ Cardinality(Asking(r)') = Cardinality(Asking(r))
                - (IF w \in Asking(r) THEN 1 ELSE 0) + (IF w \in Asking(r)' THEN 1 ELSE 0)
           /\ \A d \in Dimensions : Cardinality(Holding(r, d)') = Cardinality(Holding(r, d))
                - (IF w \in Holding(r, d) THEN 1 ELSE 0) + (IF w \in Holding(r, d)' THEN 1 ELSE 0)
           /\ \A k : Cardinality(Pending(r, k)') = Cardinality(Pending(r, k))
                - (IF w \in Pending(r, k) THEN 1 ELSE 0) + (IF w \in Pending(r, k)' THEN 1 ELSE 0)
<1>1. /\ Working(r) \ {w} = Working(r)' \ {w}
      /\ w \in Working(r) <=> pc[r][w] # "idle"
      /\ w \in Working(r)' <=> pc'[r][w] # "idle"
  BY DEF Working, Alone
<1>2. /\ Avoiding(r) \ {w} = Avoiding(r)' \ {w}
      /\ w \in Avoiding(r) <=> pc[r][w] = "avoid"
      /\ w \in Avoiding(r)' <=> pc'[r][w] = "avoid"
  BY DEF Avoiding, Alone
<1>3. Asking(r) \ {w} = Asking(r)' \ {w}
  BY DEF Asking, Alone
<1>4. \A d : Holding(r, d) \ {w} = Holding(r, d)' \ {w}
  BY DEF Holding, Alone
<1>5. \A k : Pending(r, k) \ {w} = Pending(r, k)' \ {w}
  BY DEF Pending, Holding, Alone
<1>6. Cardinality(Working(r)') = Cardinality(Working(r))
        - (IF w \in Working(r) THEN 1 ELSE 0) + (IF w \in Working(r)' THEN 1 ELSE 0)
  BY <1>1, CountTypes, CountChange
<1>7. Cardinality(Avoiding(r)') = Cardinality(Avoiding(r))
        - (IF w \in Avoiding(r) THEN 1 ELSE 0) + (IF w \in Avoiding(r)' THEN 1 ELSE 0)
  BY <1>2, CountTypes, CountChange
<1>8. Cardinality(Asking(r)') = Cardinality(Asking(r))
        - (IF w \in Asking(r) THEN 1 ELSE 0) + (IF w \in Asking(r)' THEN 1 ELSE 0)
  BY <1>3, CountTypes, CountChange
<1>9. \A d \in Dimensions : Cardinality(Holding(r, d)') = Cardinality(Holding(r, d))
        - (IF w \in Holding(r, d) THEN 1 ELSE 0) + (IF w \in Holding(r, d)' THEN 1 ELSE 0)
  <2> SUFFICES ASSUME NEW d \in Dimensions
               PROVE  Cardinality(Holding(r, d)') = Cardinality(Holding(r, d))
                        - (IF w \in Holding(r, d) THEN 1 ELSE 0) + (IF w \in Holding(r, d)' THEN 1 ELSE 0)
    OBVIOUS
  <2>1. IsFiniteSet(Holding(r, d)) /\ IsFiniteSet(Holding(r, d)')
    BY CountTypes
  <2> QED BY <1>4, <2>1, CountChange
<1>10. \A k : Cardinality(Pending(r, k)') = Cardinality(Pending(r, k))
        - (IF w \in Pending(r, k) THEN 1 ELSE 0) + (IF w \in Pending(r, k)' THEN 1 ELSE 0)
  <2> SUFFICES ASSUME NEW k
               PROVE  Cardinality(Pending(r, k)') = Cardinality(Pending(r, k))
                        - (IF w \in Pending(r, k) THEN 1 ELSE 0) + (IF w \in Pending(r, k)' THEN 1 ELSE 0)
    OBVIOUS
  <2>1. IsFiniteSet(Pending(r, k)) /\ IsFiniteSet(Pending(r, k)')
    BY CountTypes
  <2> QED BY <1>5, <2>1, CountChange
<1> QED BY <1>1, <1>2, <1>6, <1>7, <1>8, <1>9, <1>10

LEMMA Amounts ==
    /\ OneSearch["provider"] = 0 /\ OneSearch["fetch"] = 0 /\ OneSearch["bytes"] = 0
    /\ OneProviderCall["provider"] = 1 /\ OneProviderCall["fetch"] = 0
    /\ OneProviderCall["bytes"] = 0
    /\ \A n \in Nat :
        /\ OneFetch(n)["search"] = 0 /\ OneFetch(n)["provider"] = 0
        /\ OneFetch(n)["fetch"] = 1 /\ OneFetch(n)["bytes"] = n
        /\ OneFetch(n) # OneSearch
<1>1. OneSearch = [d \in Dimensions |-> IF d = "search" THEN 1 ELSE 0]
  BY DEF OneSearch, Nothing, Dimensions
<1>2. OneProviderCall = [d \in Dimensions |-> IF d = "provider" THEN 1 ELSE 0]
  BY DEF OneProviderCall, Nothing, Dimensions
<1>3. \A n \in Nat : OneFetch(n) =
        [d \in Dimensions |-> IF d = "fetch" THEN 1 ELSE IF d = "bytes" THEN n ELSE 0]
  BY DEF OneFetch, Nothing, Dimensions
<1> QED BY <1>1, <1>2, <1>3 DEF Dimensions

\* The numbers a run is described by.
LEMMA Numbers ==
    ASSUME TypeOK, NEW r \in Runs
    PROVE  /\ \A d \in Dimensions : byRun[r][d] \in Nat /\ RunLimit[r][d] \in Nat
           /\ calls[r] \in Nat /\ kept[r] \in Nat
           /\ \A k \in Attempts : sent[r][k] \in Nat /\ read[r][k] \in Nat
           /\ size[r] \in Nat /\ jobs[r] \in Nat /\ size[r] + 1 \in Nat
           /\ taken[r] \in Nat /\ saved[r] \in Nat /\ missed[r] \in Nat
           /\ fetched[r] \in Nat /\ cached[r] \in Nat
           /\ \A w \in Workers : want[r][w] \in Usage /\ attempt[r][w] \in Attempts
<1>1. \A d \in Dimensions : byRun[r][d] \in Nat /\ RunLimit[r][d] \in Nat
  BY BudgetAssumption DEF TypeOK, LedgerOK, Usage
<1>2. /\ calls[r] \in Nat /\ kept[r] \in Nat
      /\ \A k \in Attempts : sent[r][k] \in Nat /\ read[r][k] \in Nat
      /\ taken[r] \in Nat /\ missed[r] \in Nat /\ fetched[r] \in Nat /\ cached[r] \in Nat
  BY DEF TypeOK, HistoryOK
<1>3. size[r] \in Nat /\ jobs[r] \in Nat /\ saved[r] \in Nat
  BY DEF TypeOK, ProcessOK, ControlOK
<1>4. \A w \in Workers : want[r][w] \in Usage /\ attempt[r][w] \in Attempts
  BY DEF TypeOK, GoroutineOK
<1> QED BY <1>1, <1>2, <1>3, <1>4

\* A run that a step leaves alone keeps its counts.
SameCalls(r) ==
    calls'[r] = calls[r] /\ sent'[r] = sent[r] /\ read'[r] = read[r] /\ kept'[r] = kept[r]
SameSources(r) ==
    /\ taken'[r] = taken[r] /\ saved'[r] = saved[r] /\ missed'[r] = missed[r]
    /\ fetched'[r] = fetched[r] /\ cached'[r] = cached[r]
Same(r) ==
    /\ pc'[r] = pc[r] /\ want'[r] = want[r] /\ attempt'[r] = attempt[r] /\ byRun'[r] = byRun[r]
    /\ phase'[r] = phase[r] /\ size'[r] = size[r] /\ jobs'[r] = jobs[r] /\ stop'[r] = stop[r]
    /\ SameCalls(r) /\ SameSources(r)

LEMMA SameCount ==
    ASSUME NEW r \in Runs, Same(r), RunCount(r)
    PROVE  RunCount(r)'
<1>1. Working(r)' = Working(r) /\ Avoiding(r)' = Avoiding(r) /\ Asking(r)' = Asking(r)
  BY DEF Same, Working, Avoiding, Asking
<1>2. \A d : Holding(r, d)' = Holding(r, d)
  BY DEF Same, Holding
<1>3. \A k : Pending(r, k)' = Pending(r, k)
  BY <1>2 DEF Same, Pending
<1>4. \A w \in Workers : Wants(r, w)'
  BY DEF Same, RunCount, Wants
<1>5. Paid(r)'
  BY <1>2, <1>3 DEF Same, SameCalls, RunCount, Paid, Balanced
<1>6. Sized(r)' /\ Accounted(r)'
  BY <1>1 DEF Same, SameSources, RunCount, Sized, Accounted
<1>7. Rows(r)' = Rows(r)
  BY <1>1 DEF Same, Rows
<1>8. Room(r)' /\ Stops(r)'
  BY <1>7 DEF Same, RunCount, Room, Stops
<1> QED BY <1>4, <1>5, <1>6, <1>8 DEF RunCount

LEMMA OthersSame ==
    ASSUME TypeOK, NEW r \in Runs, NEW q \in Runs, q # r,
           \/ StartRun(r) \/ Search(r) \/ SearchCached(r) \/ BeginFetch(r) \/ EndFetch(r) \/ Crash(r)
           \/ \E w \in Workers : Step(r, w)
    PROVE  Same(q)
<1>1. LedgerOK /\ ControlOK /\ ProcessOK /\ GoroutineOK /\ HistoryOK
  BY DEF TypeOK
<1>2. \A w, s : Goto(r, w, s) => pc'[q] = pc[q]
  BY <1>1 DEF Goto, GoroutineOK
<1>3. \A w, u : Ask(r, w, u) => pc'[q] = pc[q] /\ want'[q] = want[q] /\ attempt'[q] = attempt[q]
  BY <1>1, <1>2 DEF Ask, GoroutineOK
<1>4. \A w, s : Found(r, w, s) => pc'[q] = pc[q]
  BY <1>2 DEF Found
<1>5. \A w : Return(r, w) => pc'[q] = pc[q] /\ want'[q] = want[q] /\ attempt'[q] = attempt[q]
  BY <1>1, <1>2 DEF Return, GoroutineOK
<1>6. \A w : GiveUp(r, w) => /\ pc'[q] = pc[q] /\ want'[q] = want[q] /\ attempt'[q] = attempt[q]
                             /\ phase'[q] = phase[q] /\ missed'[q] = missed[q]
  <2>1. /\ phase \in [Runs -> {"new", "search", "fetch", "over", "dead"}]
        /\ missed \in [Runs -> Nat]
    BY <1>1 DEF ProcessOK, HistoryOK
  <2> QED BY <1>5, <2>1 DEF GiveUp
<1>7. ASSUME NEW w \in Workers, Insert(r, w) \/ ClearStop(r, w) \/ FlagStop(r, w) PROVE Same(q)
  BY <1>1, <1>2, <1>7 DEF Insert, ClearStop, FlagStop, Same, SameCalls, SameSources, LedgerOK,
     ControlOK, process, history, network, ledger
<1>8. ASSUME NEW w \in Workers, Granted(r, w) \/ ReadRunUsage(r, w) \/ ReadTopicUsage(r, w)
               \/ ReadDailyUsage(r, w) PROVE Same(q)
  BY <1>1, <1>2, <1>3, <1>4, <1>8 DEF Granted, ReadRunUsage, ReadTopicUsage, ReadDailyUsage,
     Same, SameCalls, SameSources, process, history, network, ledger
<1>9. ASSUME NEW w \in Workers, Refused(r, w) \/ StatementFails(r, w) \/ AbandonCall(r, w)
      PROVE Same(q)
  BY <1>6, <1>9 DEF Refused, StatementFails, AbandonCall, Same, SameCalls, SameSources, ledger, network
<1>10. ASSUME NEW w \in Workers, CallProvider(r, w) PROVE Same(q)
  <2>1. /\ phase \in [Runs -> {"new", "search", "fetch", "over", "dead"}]
        /\ calls \in [Runs -> Nat]
    BY <1>1 DEF ProcessOK, HistoryOK
  <2> QED BY <1>3, <1>5, <1>6, <1>10, <2>1 DEF CallProvider, Same, SameCalls, SameSources, ledger
<1>11. ASSUME NEW w \in Workers, Fetch(r, w) \/ FetchCached(r, w) PROVE Same(q)
  <2>1. /\ jobs \in [Runs -> Nat] /\ taken \in [Runs -> Nat]
        /\ saved \in [Runs -> Nat] /\ missed \in [Runs -> Nat]
    BY <1>1 DEF ProcessOK, HistoryOK, ControlOK
  <2> QED BY <1>2, <1>3, <1>11, <2>1 DEF Fetch, FetchCached, TakeJob, Same, SameCalls, SameSources,
     ledger, network
<1>12. ASSUME NEW w \in Workers, UseCached(r, w) PROVE Same(q)
  <2>1. cached \in [Runs -> Nat]
    BY <1>1 DEF HistoryOK
  <2> QED BY <1>5, <1>12, <2>1 DEF UseCached, Same, SameCalls, SameSources, ledger, process, network
<1>13. ASSUME NEW w \in Workers, CallSource(r, w) PROVE Same(q)
  <2>1. /\ sent \in [Runs -> [Attempts -> Nat]] /\ read \in [Runs -> [Attempts -> Nat]]
        /\ kept \in [Runs -> Nat] /\ fetched \in [Runs -> Nat]
        /\ attempt \in [Runs -> [Workers -> Attempts]]
    BY <1>1 DEF HistoryOK, GoroutineOK
  <2>2. /\ sent'[q] = sent[q] /\ read'[q] = read[q] /\ kept'[q] = kept[q] /\ fetched'[q] = fetched[q]
    BY <1>13, <2>1 DEF CallSource
  <2>3. /\ pc'[q] = pc[q] /\ want'[q] = want[q] /\ attempt'[q] = attempt[q]
        /\ phase'[q] = phase[q] /\ missed'[q] = missed[q]
    BY <1>5, <1>6, <1>13, <2>1 DEF CallSource
  <2> QED BY <1>13, <2>2, <2>3 DEF CallSource, Same, SameCalls, SameSources, ledger
<1>14. ASSUME StartRun(r) \/ Search(r) \/ SearchCached(r) \/ BeginFetch(r) \/ EndFetch(r) \/ Crash(r)
       PROVE Same(q)
  BY <1>1, <1>2, <1>3, <1>14 DEF StartRun, Search, SearchCached, BeginFetch, EndFetch, Crash, Same,
     SameCalls, SameSources, ledger, goroutine, process, history, network, ProcessOK, GoroutineOK
<1> QED BY <1>7, <1>8, <1>9, <1>10, <1>11, <1>12, <1>13, <1>14 DEF Step

\* What a move of one goroutine leaves of the others.
LEMMA MovedAlone ==
    ASSUME GoroutineOK, NEW r \in Runs, NEW w \in Workers
    PROVE  /\ \A s : Goto(r, w, s) => pc'[r][w] = s
           /\ \A s : Goto(r, w, s) /\ UNCHANGED <<want, attempt>> => Alone(r, w)
           /\ \A u : Ask(r, w, u) =>
                /\ pc'[r][w] = "insert" /\ want'[r][w] = u /\ UNCHANGED attempt
                /\ Alone(r, w)
           /\ Return(r, w) => pc'[r][w] = "idle" /\ attempt'[r][w] = 1 /\ Alone(r, w)
<1>1. \A s : Goto(r, w, s) =>
        pc'[r][w] = s /\ \A v \in Workers : v # w => pc'[r][v] = pc[r][v]
  BY DEF Goto, GoroutineOK
<1>2. \A u : Ask(r, w, u) =>
        want'[r][w] = u /\ \A v \in Workers : v # w => want'[r][v] = want[r][v]
  BY DEF Ask, GoroutineOK
<1>3. Return(r, w) => /\ attempt'[r][w] = 1
                      /\ \A v \in Workers : v # w =>
                           want'[r][v] = want[r][v] /\ attempt'[r][v] = attempt[r][v]
  BY AttemptTypes DEF Return, GoroutineOK
<1> QED BY <1>1, <1>2, <1>3 DEF Ask, Return, Alone

LEMMA Multiples ==
    ASSUME NEW s \in Nat, NEW m \in Nat, NEW n \in Nat
    PROVE  /\ s * (m + 1) = s * m + s
           /\ m <= n => s * m <= s * n
           /\ s * 0 = 0
<1>1. s * (m + 1) = s * m + s /\ s * 0 = 0
  OBVIOUS
<1>2. m <= n => s * m <= s * n
  <2> SUFFICES ASSUME m <= n PROVE s * m <= s * n
    OBVIOUS
  <2>1. PICK k \in Nat : n = m + k
    <3>1. n - m \in Nat /\ n = m + (n - m)
      OBVIOUS
    <3> QED BY <3>1
  <2>2. s * n = s * m + s * k /\ s * k >= 0
    BY <2>1
  <2>3. s * n \in Nat /\ s * m \in Nat /\ s * k \in Nat
    OBVIOUS
  <2> QED BY <2>2, <2>3
<1> QED BY <1>1, <1>2

LEMMA Shares ==
    ASSUME NEW m \in Nat, NEW n \in Nat, n > 0
    PROVE  m \div n \in Nat /\ (m \div n) * n <= m
  OBVIOUS

\* A balance is kept when fewer may spend, when a row comes with one more who
\* may, and when one spends his share; and nothing is spent without a row.
LEMMA Balances ==
    \A x, s, n, b \in Nat : Balanced(x, s, n, b) =>
        /\ \A m \in Nat : m <= n => Balanced(x, s, m, b)
        /\ Balanced(x, s, n + 1, b + 1)
        /\ \A m, y \in Nat : n = m + 1 /\ y <= x + s => Balanced(y, s, m, b)
        /\ b = 0 => x = 0
<1> SUFFICES ASSUME NEW x \in Nat, NEW s \in Nat, NEW n \in Nat, NEW b \in Nat, Balanced(x, s, n, b)
             PROVE  /\ \A m \in Nat : m <= n => Balanced(x, s, m, b)
                    /\ Balanced(x, s, n + 1, b + 1)
                    /\ \A m, y \in Nat : n = m + 1 /\ y <= x + s => Balanced(y, s, m, b)
                    /\ b = 0 => x = 0
  OBVIOUS
<1>1. /\ s * n \in Nat /\ s * b \in Nat /\ x + s * n <= s * b
      /\ \A m \in Nat : s * m \in Nat
  BY DEF Balanced
<1>2. \A m \in Nat : m <= n => Balanced(x, s, m, b)
  <2> SUFFICES ASSUME NEW m \in Nat, m <= n PROVE x + s * m <= s * b
    BY DEF Balanced
  <2>1. s * m <= s * n /\ s * m \in Nat
    BY <1>1, Multiples
  <2> QED BY <1>1, <2>1
<1>3. Balanced(x, s, n + 1, b + 1)
  <2>1. s * (n + 1) = s * n + s /\ s * (b + 1) = s * b + s
    BY Multiples
  <2> HIDE DEF Balanced
  <2>2. x + (s * n + s) <= s * b + s
    BY <1>1
  <2> QED BY <2>1, <2>2 DEF Balanced
<1>4. \A m, y \in Nat : n = m + 1 /\ y <= x + s => Balanced(y, s, m, b)
  <2> SUFFICES ASSUME NEW m \in Nat, NEW y \in Nat, n = m + 1, y <= x + s PROVE y + s * m <= s * b
    BY DEF Balanced
  <2>1. s * n = s * m + s /\ s * m \in Nat
    BY <1>1, Multiples
  <2> QED BY <1>1, <2>1
<1>5. b = 0 => x = 0
  <2>1. b = 0 => s * b = 0
    BY Multiples
  <2> QED BY <1>1, <2>1
<1> QED BY <1>2, <1>3, <1>4, <1>5

\* A step that calls nobody, and with no row more, leaves everything paid for
\* unless it lets another goroutine call.
LEMMA PaidKept ==
    ASSUME TypeOK, NEW r \in Runs, Paid(r), SameCalls(r),
           byRun'[r] = byRun[r], size'[r] = size[r],
           \A d \in {"provider", "fetch"} : Cardinality(Holding(r, d)') <= Cardinality(Holding(r, d)),
           \A k \in Attempts : Cardinality(Pending(r, k)') <= Cardinality(Pending(r, k))
    PROVE  Paid(r)'
<1>1. /\ calls[r] \in Nat /\ kept[r] \in Nat /\ size[r] \in Nat /\ size[r] + 1 \in Nat
      /\ \A k \in Attempts : sent[r][k] \in Nat /\ read[r][k] \in Nat
      /\ byRun[r]["provider"] \in Nat /\ byRun[r]["fetch"] \in Nat
  BY Numbers DEF Dimensions
<1>2. /\ \A d \in {"provider", "fetch"} :
            Cardinality(Holding(r, d)) \in Nat /\ Cardinality(Holding(r, d)') \in Nat
      /\ \A k \in Attempts : Cardinality(Pending(r, k)) \in Nat /\ Cardinality(Pending(r, k)') \in Nat
  BY CountTypes DEF Dimensions
<1>3. calls[r] + Cardinality(Holding(r, "provider")') <= byRun[r]["provider"]
  BY <1>1, <1>2 DEF Paid
<1>4. Balanced(kept[r], size[r], Cardinality(Holding(r, "fetch")'), byRun[r]["fetch"])
  <2> DEFINE n == Cardinality(Holding(r, "fetch"))
             m == Cardinality(Holding(r, "fetch")')
             b == byRun[r]["fetch"]
  <2>1. n \in Nat /\ m \in Nat /\ m <= n /\ b \in Nat
    BY <1>1, <1>2
  <2>2. Balanced(kept[r], size[r], n, b)
    BY DEF Paid
  <2> HIDE DEF n, m, b
  <2>3. Balanced(kept[r], size[r], m, b)
    BY <1>1, <2>1, <2>2, Balances
  <2> QED BY <2>3 DEF m, b
<1>5. ASSUME NEW k \in Attempts
      PROVE  /\ Balanced(sent[r][k], AttemptRequests, Cardinality(Pending(r, k)'), byRun[r]["fetch"])
             /\ Balanced(read[r][k], size[r] + 1, Cardinality(Pending(r, k)'), byRun[r]["fetch"])
  <2> DEFINE n == Cardinality(Pending(r, k))
             m == Cardinality(Pending(r, k)')
             b == byRun[r]["fetch"]
             s == size[r] + 1
  <2>1. n \in Nat /\ m \in Nat /\ m <= n /\ b \in Nat /\ s \in Nat
    BY <1>1, <1>2
  <2>2. Balanced(sent[r][k], AttemptRequests, n, b) /\ Balanced(read[r][k], s, n, b)
    BY DEF Paid
  <2> HIDE DEF n, m, b, s
  <2>3. Balanced(sent[r][k], AttemptRequests, m, b) /\ Balanced(read[r][k], s, m, b)
    BY <1>1, <2>1, <2>2, Balances, AttemptTypes
  <2> QED BY <2>3 DEF m, b, s
<1> QED BY <1>3, <1>4, <1>5 DEF Paid, SameCalls, Balanced

\* A step of one goroutine that stays in its stage and leaves the ledger, the
\* calls and the sources alone.
LEMMA QuietMove ==
    ASSUME CostInv, NEW r \in Runs, NEW w \in Workers, RunCount(r), Alone(r, w),
           byRun'[r] = byRun[r], phase'[r] = phase[r], size'[r] = size[r], jobs'[r] = jobs[r],
           SameCalls(r), SameSources(r),
           pc[r][w] \notin {"idle", "avoid"}, pc'[r][w] \notin {"idle", "avoid"},
           Wants(r, w)', Stops(r)',
           phase[r] = "fetch" /\ w \in Asking(r)' => w \in Asking(r),
           \A d \in {"provider", "fetch"} : w \in Holding(r, d)' => w \in Holding(r, d),
           \A k \in Attempts : w \in Pending(r, k)' => w \in Pending(r, k)
    PROVE  RunCount(r)'
<1>1. TypeOK /\ StageInv
  BY DEF CostInv
<1>2. /\ Cardinality(Working(r)') = Cardinality(Working(r))
      /\ Cardinality(Avoiding(r)') = Cardinality(Avoiding(r))
      /\ phase[r] = "fetch" => Cardinality(Asking(r)') <= Cardinality(Asking(r))
      /\ \A d \in {"provider", "fetch"} : Cardinality(Holding(r, d)') <= Cardinality(Holding(r, d))
      /\ \A k \in Attempts : Cardinality(Pending(r, k)') <= Cardinality(Pending(r, k))
  BY Recounted, CountTypes DEF Dimensions
<1>3. \A v \in Workers : Wants(r, v)'
  BY DEF RunCount, Wants, Alone
<1>4. Paid(r)'
  BY <1>1, <1>2, PaidKept DEF RunCount
<1>5. Sized(r)' /\ Accounted(r)'
  BY <1>2 DEF RunCount, Sized, Accounted, SameSources
<1>6. Room(r)'
  <2> SUFFICES ASSUME phase[r] = "fetch"
               PROVE  Rows(r)' <= RunLimit[r]["fetch"] /\ size[r] * Rows(r)' <= RunLimit[r]["bytes"]
    BY DEF Room
  <2>1. Rows(r) \in Nat /\ Rows(r)' \in Nat /\ Rows(r)' <= Rows(r)
    BY <1>1, <1>2, Numbers, CountTypes DEF Rows, Dimensions
  <2>2. Rows(r) <= RunLimit[r]["fetch"] /\ size[r] * Rows(r) <= RunLimit[r]["bytes"]
    BY DEF RunCount, Room
  <2>3. /\ size[r] \in Nat /\ RunLimit[r]["fetch"] \in Nat /\ RunLimit[r]["bytes"] \in Nat
    BY <1>1, Numbers DEF Dimensions
  <2>4. size[r] * Rows(r)' <= size[r] * Rows(r)
    BY <2>1, <2>3, Multiples
  <2>5. size[r] * Rows(r)' \in Nat /\ size[r] * Rows(r) \in Nat
    BY <2>1, <2>3
  <2> QED BY <2>1, <2>2, <2>3, <2>4, <2>5
<1> QED BY <1>3, <1>4, <1>5, <1>6 DEF RunCount

\* A run's own budget never refuses a fetch of the run.
LEMMA FetchRoom ==
    ASSUME CostInv, NEW r \in Runs, NEW w \in Workers, RunCount(r),
           phase[r] = "fetch", w \in Asking(r)
    PROVE  ~OverRun(r, want[r][w])
<1>1. TypeOK /\ BudgetsHold
  BY DEF CostInv
<1>2. want[r][w] = OneFetch(size[r])
  BY DEF RunCount, Wants, Asking
<1>3. Cardinality(Asking(r)) >= 1
  BY CountTypes, FS_EmptySet
<1>4. /\ Rows(r) <= RunLimit[r]["fetch"] /\ size[r] * Rows(r) <= RunLimit[r]["bytes"]
      /\ byRun[r]["bytes"] = size[r] * byRun[r]["fetch"]
  BY DEF RunCount, Room, Sized
<1>5. /\ Rows(r) \in Nat /\ byRun[r]["fetch"] + 1 <= Rows(r)
      /\ byRun[r]["fetch"] \in Nat /\ size[r] \in Nat
      /\ RunLimit[r]["fetch"] \in Nat /\ RunLimit[r]["bytes"] \in Nat
      /\ byRun[r]["fetch"] + 1 \in Nat
  BY <1>1, <1>3, Numbers, CountTypes DEF Rows, Dimensions
<1>6. size[r] * (byRun[r]["fetch"] + 1) <= size[r] * Rows(r)
  BY <1>5, Multiples
<1>7. byRun[r]["bytes"] + size[r] <= RunLimit[r]["bytes"]
  <2>1. size[r] * (byRun[r]["fetch"] + 1) = byRun[r]["bytes"] + size[r]
    BY <1>4, <1>5, Multiples
  <2>2. size[r] * Rows(r) \in Nat /\ byRun[r]["bytes"] \in Nat
    BY <1>1, <1>5, Numbers DEF Dimensions
  <2> QED BY <1>4, <1>5, <1>6, <2>1, <2>2
<1>8. \A d \in Dimensions : byRun[r][d] + want[r][w][d] <= RunLimit[r][d]
  <2>1. byRun[r]["search"] + 0 <= RunLimit[r]["search"] /\ byRun[r]["provider"] + 0 <= RunLimit[r]["provider"]
    BY <1>1, Numbers DEF BudgetsHold, Within, Dimensions
  <2>2. byRun[r]["fetch"] + 1 <= RunLimit[r]["fetch"]
    BY <1>4, <1>5
  <2> QED BY <1>2, <1>5, <1>7, <2>1, <2>2, Amounts DEF Dimensions
<1> QED BY <1>8 DEF OverRun, Within, Plus

LEMMA CountRefusal ==
    ASSUME CostInv, CostInv', NEW r \in Runs, NEW w \in Workers, RunCount(r),
           ReadRunUsage(r, w) \/ ReadTopicUsage(r, w) \/ ReadDailyUsage(r, w) \/ FlagStop(r, w)
    PROVE  RunCount(r)'
<1>1. TypeOK /\ GoroutineOK /\ ControlOK /\ StageInv /\ ScopeInv /\ ScopeInv'
  BY DEF CostInv, TypeOK
<1>2. /\ pc[r][w] \in {"scopeRun", "scopeTopic", "scopeDaily", "flag"}
      /\ pc'[r][w] \in {"scopeTopic", "scopeDaily", "noScope", "flag", "refused"}
      /\ Alone(r, w)
  BY <1>1, MovedAlone DEF ReadRunUsage, ReadTopicUsage, ReadDailyUsage, FlagStop, Found
<1>3. pc'[r][w] # "noScope"
  BY <1>1 DEF ScopeInv, Explained
<1>4. /\ UNCHANGED <<want, attempt, byRun, phase, size, jobs>>
      /\ SameCalls(r) /\ SameSources(r)
  BY DEF ReadRunUsage, ReadTopicUsage, ReadDailyUsage, FlagStop, ledger, process, history, network,
     SameCalls, SameSources
<1>5. Wants(r, w)'
  BY <1>2, <1>3, <1>4 DEF RunCount, Wants
<1>6. w \in Asking(r) /\ (\A d : w \notin Holding(r, d)') /\ \A k : w \notin Pending(r, k)'
  BY <1>2, <1>3 DEF Asking, Holding, Pending
<1>7. Stops(r)'
  <2>1. CASE UNCHANGED stop
    <3>1. phase[r] = "search" => w = Leader
      BY <1>1, <1>2 DEF StageInv
    <3> QED BY <1>2, <1>4, <2>1, <3>1 DEF RunCount, Stops, Alone
  <2>2. CASE FlagStop(r, w)
    <3>1. /\ phase[r] \in {"search", "fetch"} /\ (phase[r] = "search" => w = Leader)
          /\ pc'[r][w] = "refused" /\ stop'[r] = scope[r][w]
      BY <1>1, <2>2, MovedAlone DEF FlagStop, StageInv, ControlOK
    <3>2. phase[r] = "fetch" => scope[r][w] # "run"
      <4>1. phase[r] = "fetch" => ~OverRun(r, want[r][w])
        BY <1>6, FetchRoom
      <4> QED BY <1>1, <2>2, <4>1 DEF FlagStop, ScopeInv, Explained
    <3> QED BY <1>4, <3>1, <3>2 DEF Stops
  <2> QED BY <2>1, <2>2 DEF ReadRunUsage, ReadTopicUsage, ReadDailyUsage, FlagStop
<1> QED BY <1>2, <1>3, <1>4, <1>5, <1>6, <1>7, QuietMove

LEMMA CountGranted ==
    ASSUME CostInv, NEW r \in Runs, NEW w \in Workers, RunCount(r),
           ClearStop(r, w) \/ Granted(r, w)
    PROVE  RunCount(r)'
<1>1. TypeOK /\ GoroutineOK /\ ControlOK /\ StageInv
  BY DEF CostInv, TypeOK
<1>2. /\ UNCHANGED <<attempt, byRun, phase, size, jobs>>
      /\ SameCalls(r) /\ SameSources(r)
  BY DEF ClearStop, Granted, Ask, ledger, process, history, network, SameCalls, SameSources
<1>3. CASE ClearStop(r, w)
  <2>1. /\ pc[r][w] = "clear" /\ pc'[r][w] = "granted" /\ UNCHANGED want /\ Alone(r, w)
    BY <1>1, <1>3, MovedAlone DEF ClearStop
  <2>2. Wants(r, w)' /\ w \notin Asking(r)'
    BY <1>2, <2>1 DEF RunCount, Wants, Asking
  <2>3. /\ \A d : w \in Holding(r, d)' => w \in Holding(r, d)
        /\ \A k : w \in Pending(r, k)' => w \in Pending(r, k)
    BY <1>2, <2>1 DEF Holding, Pending
  <2>4. Stops(r)'
    <3>1. phase[r] = "search" => w = Leader
      BY <1>1, <2>1 DEF StageInv
    <3>2. stop'[r] = "none" \/ stop'[r] = stop[r]
      BY <1>1, <1>3 DEF ClearStop, ControlOK
    <3> QED BY <1>2, <2>1, <3>1, <3>2 DEF RunCount, Stops
  <2> QED BY <1>2, <2>1, <2>2, <2>3, <2>4, QuietMove
<1>4. CASE Granted(r, w) /\ want[r][w] = OneSearch
  <2>1. /\ pc[r][w] = "granted" /\ pc'[r][w] = "insert" /\ want'[r][w] = OneProviderCall
        /\ Alone(r, w) /\ UNCHANGED stop
    BY <1>1, <1>4, MovedAlone DEF Granted
  <2>2. phase[r] = "search" /\ w = Leader
    <3>1. size[r] \in Nat
      BY <1>1, Numbers
    <3>2. phase[r] # "fetch"
      BY <1>4, <2>1, <3>1, Amounts DEF RunCount, Wants
    <3> QED BY <1>1, <2>1, <3>2 DEF StageInv
  <2>3. Wants(r, w)' /\ Stops(r)'
    BY <1>2, <2>1, <2>2 DEF RunCount, Wants, Stops
  <2>4. (\A d : w \notin Holding(r, d)') /\ \A k : w \notin Pending(r, k)'
    BY <2>1 DEF Holding, Pending
  <2> QED BY <1>2, <2>1, <2>2, <2>3, <2>4, QuietMove
<1>5. CASE Granted(r, w) /\ want[r][w] # OneSearch
  <2>1. /\ pc[r][w] = "granted" /\ pc'[r][w] = "call" /\ UNCHANGED <<want, stop>>
        /\ Alone(r, w)
    BY <1>1, <1>5, MovedAlone DEF Granted
  <2>2. Wants(r, w)' /\ w \notin Asking(r)'
    BY <1>2, <1>5, <2>1 DEF RunCount, Wants, Asking
  <2>3. /\ \A d : w \in Holding(r, d)' => w \in Holding(r, d)
        /\ \A k : w \in Pending(r, k)' => w \in Pending(r, k)
    BY <1>2, <2>1 DEF Holding, Pending
  <2>4. Stops(r)'
    <3>1. phase[r] = "search" => w = Leader
      BY <1>1, <2>1 DEF StageInv
    <3> QED BY <1>2, <2>1, <3>1 DEF RunCount, Stops
  <2> QED BY <1>2, <2>1, <2>2, <2>3, <2>4, QuietMove
<1> QED BY <1>3, <1>4, <1>5

\* A row is written for a goroutine that holds it from then on.
LEMMA CountInsert ==
    ASSUME CostInv, NEW r \in Runs, NEW w \in Workers, RunCount(r), Insert(r, w)
    PROVE  RunCount(r)'
<1>1. TypeOK /\ GoroutineOK /\ LedgerOK /\ StageInv
  BY DEF CostInv, TypeOK
<1>2. /\ pc[r][w] = "insert" /\ UNCHANGED <<phase, size, jobs, stop, want, attempt>>
      /\ pc'[r][w] \in {"scopeRun", "clear"} /\ Alone(r, w)
      /\ SameCalls(r) /\ SameSources(r)
  BY <1>1, MovedAlone DEF Insert, process, history, network, SameCalls, SameSources
<1>3. w \in Asking(r)
  BY <1>2 DEF Asking
<1>4. phase[r] \in {"search", "fetch"} /\ (phase[r] = "search" => w = Leader)
  BY <1>1, <1>2 DEF StageInv
<1>5. Wants(r, w)' /\ Stops(r)'
  BY <1>2, <1>4 DEF RunCount, Wants, Stops
<1>6. CASE UNCHANGED ledger /\ pc'[r][w] = "scopeRun"
  <2>1. (\A d : w \notin Holding(r, d)') /\ \A k : w \notin Pending(r, k)'
    BY <1>6 DEF Holding, Pending
  <2> QED BY <1>2, <1>3, <1>5, <1>6, <2>1, QuietMove DEF ledger
<1>7. CASE byRun' = [byRun EXCEPT ![r] = Plus(@, want[r][w])] /\ pc'[r][w] = "clear"
  <2> DEFINE use == want[r][w]
  <2>1. use \in Usage /\ \A d \in Dimensions : use[d] \in Nat
    BY <1>1 DEF GoroutineOK, Usage
  <2>2. \A d \in Dimensions : byRun'[r][d] = byRun[r][d] + use[d]
    BY <1>1, <1>7 DEF LedgerOK, Plus
  <2>3. /\ w \notin Asking(r)' /\ \A d : w \notin Holding(r, d)
        /\ \A d : w \in Holding(r, d)' <=> use[d] > 0
    BY <1>2, <1>7 DEF Asking, Holding
  <2>4. \A k \in Attempts : w \notin Pending(r, k) /\ (w \in Pending(r, k)' <=> use["fetch"] > 0)
    <3>1. attempt'[r][w] = 1
      BY <1>2 DEF RunCount, Wants
    <3>2. \A k \in Attempts : 1 <= k
      BY BoundAssumption DEF Attempts
    <3> QED BY <2>3, <3>1, <3>2 DEF Pending
  <2>5. /\ Cardinality(Working(r)') = Cardinality(Working(r))
        /\ Cardinality(Avoiding(r)') = Cardinality(Avoiding(r))
        /\ Cardinality(Asking(r)') = Cardinality(Asking(r)) - 1
        /\ \A d \in Dimensions : Cardinality(Holding(r, d)') =
             Cardinality(Holding(r, d)) + (IF use[d] > 0 THEN 1 ELSE 0)
        /\ \A k \in Attempts : Cardinality(Pending(r, k)') =
             Cardinality(Pending(r, k)) + (IF use["fetch"] > 0 THEN 1 ELSE 0)
    BY <1>2, <1>3, <1>7, <2>3, <2>4, Recounted, CountTypes
  <2>6. \A v \in Workers : Wants(r, v)'
    BY <1>2, <1>5 DEF RunCount, Wants, Alone
  <2>7. /\ \A d \in Dimensions : /\ byRun[r][d] \in Nat /\ RunLimit[r][d] \in Nat
                                 /\ Cardinality(Holding(r, d)) \in Nat
        /\ size[r] \in Nat /\ jobs[r] \in Nat /\ Cardinality(Asking(r)) \in Nat
        /\ calls[r] \in Nat /\ kept[r] \in Nat /\ size[r] + 1 \in Nat
        /\ \A k \in Attempts : /\ sent[r][k] \in Nat /\ read[r][k] \in Nat
                               /\ Cardinality(Pending(r, k)) \in Nat
    BY <1>1, Numbers, CountTypes
  <2>8. \/ /\ phase[r] = "search" /\ use["fetch"] = 0 /\ use["bytes"] = 0
        \/ /\ phase[r] = "fetch" /\ use["fetch"] = 1 /\ use["bytes"] = size[r]
    BY <1>2, <1>4, <2>7, Amounts DEF RunCount, Wants
  <2> HIDE DEF use
  <2>9. Paid(r)'
    <3>1. calls[r] + Cardinality(Holding(r, "provider")') <= byRun'[r]["provider"]
      BY <2>1, <2>2, <2>5, <2>7 DEF RunCount, Paid, Dimensions
    <3>2. byRun'[r]["fetch"] = byRun[r]["fetch"] + use["fetch"] /\ byRun[r]["fetch"] \in Nat
      BY <2>2, <2>7 DEF Dimensions
    <3>3. /\ Cardinality(Holding(r, "fetch")) \in Nat
          /\ Cardinality(Holding(r, "fetch")') = Cardinality(Holding(r, "fetch")) + use["fetch"]
          /\ \A k \in Attempts : Cardinality(Pending(r, k)') = Cardinality(Pending(r, k)) + use["fetch"]
      BY <2>5, <2>7, <2>8 DEF Dimensions
    <3>4. \A x, s, n, b \in Nat : Balanced(x, s, n, b) => Balanced(x, s, n + use["fetch"], b + use["fetch"])
      <4>1. CASE use["fetch"] = 1
        BY <4>1, Balances
      <4>2. CASE use["fetch"] = 0
        BY <4>2 DEF Balanced
      <4> QED BY <2>8, <4>1, <4>2
    <3>5. Balanced(kept[r], size[r], Cardinality(Holding(r, "fetch")'), byRun'[r]["fetch"])
      BY <2>7, <3>2, <3>3, <3>4 DEF RunCount, Paid
    <3>6. ASSUME NEW k \in Attempts
          PROVE  /\ Balanced(sent[r][k], AttemptRequests, Cardinality(Pending(r, k)'), byRun'[r]["fetch"])
                 /\ Balanced(read[r][k], size[r] + 1, Cardinality(Pending(r, k)'), byRun'[r]["fetch"])
      <4>1. /\ Balanced(sent[r][k], AttemptRequests, Cardinality(Pending(r, k)), byRun[r]["fetch"])
            /\ Balanced(read[r][k], size[r] + 1, Cardinality(Pending(r, k)), byRun[r]["fetch"])
        BY DEF RunCount, Paid
      <4> QED BY <2>7, <3>2, <3>3, <3>4, <4>1, AttemptTypes
    <3> QED BY <1>2, <3>1, <3>5, <3>6 DEF Paid, SameCalls, Balanced
  <2>10. Sized(r)'
    <3>1. /\ byRun'[r]["bytes"] = byRun[r]["bytes"] + use["bytes"]
          /\ byRun'[r]["fetch"] = byRun[r]["fetch"] + use["fetch"]
      BY <2>2 DEF Dimensions
    <3>2. byRun[r]["fetch"] \in Nat /\ byRun[r]["bytes"] \in Nat
      BY <2>7 DEF Dimensions
    <3>3. size[r] * (byRun[r]["fetch"] + 1) = size[r] * byRun[r]["fetch"] + size[r]
      BY <2>7, <3>2, Multiples
    <3> QED BY <1>2, <2>8, <3>1, <3>2, <3>3 DEF RunCount, Sized
  <2>11. Accounted(r)'
    BY <1>2, <2>5 DEF RunCount, Accounted, SameSources
  <2>12. Room(r)'
    <3>1. CASE phase[r] = "search"
      BY <1>2, <3>1 DEF Room
    <3>2. CASE phase[r] = "fetch"
      <4>1. byRun'[r]["fetch"] = byRun[r]["fetch"] + 1
        BY <2>2, <2>8, <3>2 DEF Dimensions
      <4>2. Rows(r)' = Rows(r)
        BY <1>2, <2>5, <2>7, <4>1 DEF Rows, Dimensions
      <4> QED BY <1>2, <4>2 DEF RunCount, Room
    <3> QED BY <1>4, <3>1, <3>2
  <2> QED BY <1>5, <2>6, <2>9, <2>10, <2>11, <2>12 DEF RunCount
<1>8. \/ UNCHANGED ledger /\ pc'[r][w] = "scopeRun"
      \/ byRun' = [byRun EXCEPT ![r] = Plus(@, want[r][w])] /\ pc'[r][w] = "clear"
  BY <1>1, MovedAlone DEF Insert
<1> QED BY <1>6, <1>7, <1>8

\* A search's goroutine calls its provider and asks for the next page or is done.
LEMMA CountProvider ==
    ASSUME CostInv, NEW r \in Runs, NEW w \in Workers, RunCount(r), CallProvider(r, w)
    PROVE  RunCount(r)'
<1>1. TypeOK /\ GoroutineOK /\ HistoryOK /\ ProcessOK /\ StageInv
  BY DEF CostInv, TypeOK
<1>2. /\ pc[r][w] = "call" /\ phase[r] = "search" /\ w = Leader
      /\ UNCHANGED <<byRun, size, jobs, stop, sent, read, kept>>
  BY <1>1 DEF CallProvider, StageInv, ledger
<1>3. /\ Alone(r, w)
      /\ \/ /\ pc'[r][w] = "insert" /\ want'[r][w] = OneProviderCall /\ phase'[r] = "search"
            /\ UNCHANGED attempt
         \/ pc'[r][w] = "idle" /\ phase'[r] \in {"search", "over"} /\ attempt'[r][w] = 1
  <2>1. phase \in [Runs -> {"new", "search", "fetch", "over", "dead"}]
    BY <1>1 DEF ProcessOK
  <2> QED BY <1>1, <1>2, <2>1, MovedAlone DEF CallProvider, GiveUp
<1>4. SameSources(r)
  BY <1>2 DEF CallProvider, GiveUp, SameSources
<1>5. calls'[r] = calls[r] + 1
  BY <1>1 DEF CallProvider, HistoryOK
<1>6. want[r][w] = OneProviderCall
  BY <1>2 DEF RunCount, Wants
<1>7. /\ w \in Holding(r, "provider") /\ w \notin Holding(r, "fetch")
      /\ \A d : w \notin Holding(r, d)'
      /\ \A k : w \notin Pending(r, k) /\ w \notin Pending(r, k)'
  BY <1>2, <1>3, <1>6, Amounts DEF Holding, Pending
<1>8. /\ Cardinality(Holding(r, "provider")') = Cardinality(Holding(r, "provider")) - 1
      /\ Cardinality(Holding(r, "fetch")') = Cardinality(Holding(r, "fetch"))
      /\ \A k : Cardinality(Pending(r, k)') = Cardinality(Pending(r, k))
      /\ Cardinality(Avoiding(r)') = Cardinality(Avoiding(r))
  BY <1>2, <1>3, <1>7, Recounted, CountTypes DEF Dimensions
<1>9. \A v \in Workers : attempt'[r][v] = 1 /\ (v # w => pc'[r][v] = "idle")
  BY <1>1, <1>2, <1>3 DEF RunCount, Wants, Alone, StageInv
<1>10. \A v \in Workers : Wants(r, v)'
  BY <1>2, <1>3, <1>9 DEF Wants
<1>11. Paid(r)'
  <2>1. calls[r] \in Nat /\ byRun[r]["provider"] \in Nat /\ Cardinality(Holding(r, "provider")) \in Nat
    BY <1>1, Numbers, CountTypes DEF Dimensions
  <2> QED BY <1>2, <1>5, <1>8, <2>1 DEF RunCount, Paid
<1>12. Sized(r)' /\ Accounted(r)'
  <2>1. Cardinality(Avoiding(r)) \in Nat
    BY CountTypes
  <2> QED BY <1>2, <1>3, <1>4, <1>8, <2>1 DEF RunCount, Sized, Accounted, SameSources
<1>13. Room(r)' /\ Stops(r)'
  BY <1>2, <1>3 DEF RunCount, Room, Stops
<1> QED BY <1>10, <1>11, <1>12, <1>13 DEF RunCount

\* A source leaves the jobs.
LEMMA CountTaken ==
    ASSUME CostInv, NEW r \in Runs, NEW w \in Workers, RunCount(r), Fetch(r, w) \/ FetchCached(r, w)
    PROVE  RunCount(r)'
<1>1. TypeOK /\ GoroutineOK /\ HistoryOK /\ ProcessOK /\ ControlOK
  BY DEF CostInv, TypeOK
<1>2. /\ pc[r][w] = "idle" /\ phase[r] = "fetch" /\ attempt[r][w] = 1
      /\ UNCHANGED <<attempt, byRun, phase, size, stop, fetched, cached>>
      /\ jobs'[r] = jobs[r] - 1 /\ jobs[r] > 0 /\ taken'[r] = taken[r] + 1
      /\ SameCalls(r)
  BY <1>1 DEF Fetch, FetchCached, TakeJob, Ask, ledger, network, SameCalls, ProcessOK, HistoryOK,
     RunCount, Wants
<1>3. /\ \A d \in Dimensions : byRun[r][d] \in Nat /\ RunLimit[r][d] \in Nat
      /\ size[r] \in Nat /\ jobs[r] \in Nat
      /\ taken[r] \in Nat /\ saved[r] \in Nat /\ missed[r] \in Nat
      /\ fetched[r] \in Nat /\ cached[r] \in Nat
      /\ Cardinality(Working(r)) \in Nat /\ Cardinality(Avoiding(r)) \in Nat
      /\ Cardinality(Asking(r)) \in Nat
  BY <1>1, Numbers, CountTypes
<1>4. w \notin Asking(r) /\ (\A d : w \notin Holding(r, d)) /\ \A k : w \notin Pending(r, k)
  BY <1>2 DEF Asking, Holding, Pending
<1>5. /\ cached[r] + Cardinality(Avoiding(r)) <= saved[r]
      /\ taken[r] = fetched[r] + cached[r] + missed[r] + Cardinality(Working(r))
      /\ saved[r] <= cached[r] + missed[r] + Cardinality(Avoiding(r))
  BY <1>2 DEF RunCount, Accounted
<1>6. CASE Fetch(r, w)
  <2>1. /\ pc'[r][w] = "insert" /\ want'[r][w] = OneFetch(size[r]) /\ UNCHANGED <<saved, missed>>
        /\ Alone(r, w)
    BY <1>1, <1>6, MovedAlone DEF Fetch
  <2>2. w \in Asking(r)' /\ (\A d : w \notin Holding(r, d)') /\ \A k : w \notin Pending(r, k)'
    BY <2>1 DEF Asking, Holding, Pending
  <2>3. /\ Cardinality(Working(r)') = Cardinality(Working(r)) + 1
        /\ Cardinality(Avoiding(r)') = Cardinality(Avoiding(r))
        /\ Cardinality(Asking(r)') = Cardinality(Asking(r)) + 1
        /\ \A d \in Dimensions : Cardinality(Holding(r, d)') = Cardinality(Holding(r, d))
        /\ \A k : Cardinality(Pending(r, k)') = Cardinality(Pending(r, k))
    BY <1>2, <1>4, <2>1, <2>2, Recounted, CountTypes
  <2>4. \A v \in Workers : Wants(r, v)'
    BY <1>2, <2>1 DEF RunCount, Wants, Alone
  <2>5. Paid(r)' /\ Sized(r)' /\ Stops(r)'
    BY <1>2, <2>3 DEF RunCount, Paid, Balanced, SameCalls, Sized, Stops, Dimensions
  <2>6. Accounted(r)'
    BY <1>2, <1>3, <1>5, <2>1, <2>3 DEF Accounted
  <2>7. Rows(r)' = Rows(r)
    BY <1>2, <1>3, <2>3 DEF Rows, Dimensions
  <2>8. Room(r)'
    BY <1>2, <2>7 DEF RunCount, Room
  <2> QED BY <2>4, <2>5, <2>6, <2>8 DEF RunCount
<1>7. CASE FetchCached(r, w)
  <2>1. /\ UNCHANGED want /\ Alone(r, w)
        /\ \/ saved'[r] = saved[r] + 1 /\ missed'[r] = missed[r] /\ pc'[r][w] = "avoid"
           \/ saved'[r] = saved[r] /\ missed'[r] = missed[r] + 1 /\ pc'[r][w] = "idle"
    BY <1>1, <1>2, <1>7, MovedAlone DEF FetchCached, HistoryOK, ControlOK, Alone
  <2>2. w \notin Asking(r)' /\ (\A d : w \notin Holding(r, d)') /\ \A k : w \notin Pending(r, k)'
    BY <2>1 DEF Asking, Holding, Pending
  <2>3. /\ Cardinality(Asking(r)') = Cardinality(Asking(r))
        /\ \A d \in Dimensions : Cardinality(Holding(r, d)') = Cardinality(Holding(r, d))
        /\ \A k : Cardinality(Pending(r, k)') = Cardinality(Pending(r, k))
    BY <1>4, <2>1, <2>2, Recounted, CountTypes
  <2>4. \A v \in Workers : Wants(r, v)'
    BY <1>2, <2>1 DEF RunCount, Wants, Alone
  <2>5. Paid(r)' /\ Sized(r)' /\ Stops(r)'
    BY <1>2, <2>3 DEF RunCount, Paid, Balanced, SameCalls, Sized, Stops, Dimensions
  <2>6. Accounted(r)'
    <3>1. CASE saved'[r] = saved[r] + 1 /\ missed'[r] = missed[r] /\ pc'[r][w] = "avoid"
      <4>1. /\ Cardinality(Working(r)') = Cardinality(Working(r)) + 1
            /\ Cardinality(Avoiding(r)') = Cardinality(Avoiding(r)) + 1
        BY <1>2, <1>3, <2>1, <3>1, Recounted
      <4> QED BY <1>2, <1>3, <1>5, <3>1, <4>1 DEF Accounted
    <3>2. CASE saved'[r] = saved[r] /\ missed'[r] = missed[r] + 1 /\ pc'[r][w] = "idle"
      <4>1. /\ Cardinality(Working(r)') = Cardinality(Working(r))
            /\ Cardinality(Avoiding(r)') = Cardinality(Avoiding(r))
        BY <1>2, <1>3, <2>1, <3>2, Recounted
      <4> QED BY <1>2, <1>3, <1>5, <3>2, <4>1 DEF Accounted
    <3> QED BY <2>1, <3>1, <3>2
  <2>7. Rows(r) \in Nat /\ Rows(r)' \in Nat /\ Rows(r)' <= Rows(r)
    BY <1>2, <1>3, <2>3 DEF Rows, Dimensions
  <2>8. size[r] * Rows(r)' <= size[r] * Rows(r) /\ size[r] * Rows(r)' \in Nat /\ size[r] * Rows(r) \in Nat
    BY <1>3, <2>7, Multiples
  <2>9. Room(r)'
    BY <1>2, <1>3, <2>7, <2>8 DEF RunCount, Room, Dimensions
  <2> QED BY <2>4, <2>5, <2>6, <2>9 DEF RunCount
<1> QED BY <1>6, <1>7

\* A source whose saving is recorded is returned.
LEMMA CountCached ==
    ASSUME CostInv, NEW r \in Runs, NEW w \in Workers, RunCount(r), UseCached(r, w)
    PROVE  RunCount(r)'
<1>1. TypeOK /\ GoroutineOK /\ HistoryOK /\ StageInv
  BY DEF CostInv, TypeOK
<1>2. /\ pc[r][w] = "avoid" /\ pc'[r][w] = "idle" /\ attempt'[r][w] = 1 /\ Alone(r, w)
      /\ UNCHANGED <<byRun, phase, size, jobs, stop, taken, saved, missed, fetched>>
      /\ cached'[r] = cached[r] + 1 /\ SameCalls(r)
  BY <1>1, MovedAlone DEF UseCached, ledger, process, network, SameCalls, HistoryOK
<1>3. phase[r] = "fetch"
  BY <1>1, <1>2 DEF RunCount, Wants, StageInv
<1>4. /\ taken[r] \in Nat /\ saved[r] \in Nat /\ missed[r] \in Nat
      /\ fetched[r] \in Nat /\ cached[r] \in Nat
      /\ Cardinality(Working(r)) \in Nat /\ Cardinality(Avoiding(r)) \in Nat
  BY <1>1, Numbers, CountTypes
<1>5. /\ w \notin Asking(r) /\ (\A d : w \notin Holding(r, d)) /\ \A k : w \notin Pending(r, k)
      /\ w \notin Asking(r)' /\ (\A d : w \notin Holding(r, d)') /\ \A k : w \notin Pending(r, k)'
  BY <1>2 DEF Asking, Holding, Pending
<1>6. /\ Cardinality(Working(r)') = Cardinality(Working(r)) - 1
      /\ Cardinality(Avoiding(r)') = Cardinality(Avoiding(r)) - 1
      /\ Cardinality(Asking(r)') = Cardinality(Asking(r))
      /\ \A d \in Dimensions : Cardinality(Holding(r, d)') = Cardinality(Holding(r, d))
      /\ \A k : Cardinality(Pending(r, k)') = Cardinality(Pending(r, k))
  BY <1>2, <1>5, Recounted, CountTypes
<1>7. \A v \in Workers : Wants(r, v)'
  BY <1>2 DEF RunCount, Wants, Alone
<1>8. Paid(r)' /\ Sized(r)' /\ Stops(r)'
  BY <1>2, <1>3, <1>6 DEF RunCount, Paid, Balanced, SameCalls, Sized, Stops, Dimensions
<1>9. Accounted(r)'
  BY <1>2, <1>3, <1>4, <1>6 DEF RunCount, Accounted
<1>10. Rows(r)' = Rows(r)
  BY <1>2, <1>6 DEF Rows
<1>11. Room(r)'
  BY <1>2, <1>10 DEF RunCount, Room
<1> QED BY <1>7, <1>8, <1>9, <1>11 DEF RunCount

\* The requests of an attempt are within the share of its goroutine, which may
\* make the later attempts only.
LEMMA AttemptPaid ==
    ASSUME CostInv, NEW r \in Runs, NEW w \in Workers, RunCount(r), CallSource(r, w),
           Alone(r, w), \A k \in Attempts : w \in Pending(r, k)' => attempt[r][w] < k
    PROVE  \A k \in Attempts :
             /\ Balanced(sent'[r][k], AttemptRequests, Cardinality(Pending(r, k)'), byRun[r]["fetch"])
             /\ Balanced(read'[r][k], size[r] + 1, Cardinality(Pending(r, k)'), byRun[r]["fetch"])
<1> DEFINE now == attempt[r][w]
<1>1. TypeOK
  BY DEF CostInv
<1>2. /\ now \in Attempts /\ \A k \in Attempts : k \in Nat
      /\ size[r] \in Nat /\ byRun[r]["fetch"] \in Nat
      /\ \A k \in Attempts : sent[r][k] \in Nat /\ read[r][k] \in Nat
  BY <1>1, Numbers, BoundAssumption DEF Attempts, Dimensions
<1>3. want[r][w] = OneFetch(size[r]) /\ pc[r][w] = "call"
  BY DEF CallSource, RunCount, Wants
<1>4. want[r][w]["bytes"] = size[r] /\ want[r][w]["fetch"] = 1
  BY <1>2, <1>3, Amounts
<1>5. \A k \in Attempts : w \in Pending(r, k) <=> now <= k
  BY <1>3, <1>4 DEF Pending, Holding
<1>6. \E n \in 1..AttemptRequests : sent' = [sent EXCEPT ![r][now] = @ + n]
  BY DEF CallSource
<1>7. \E m \in {size[r], size[r] + 1} : read' = [read EXCEPT ![r][now] = @ + m]
  BY <1>2, <1>4 DEF CallSource
<1> HIDE DEF now
<1> SUFFICES ASSUME NEW k \in Attempts
             PROVE  /\ Balanced(sent'[r][k], AttemptRequests, Cardinality(Pending(r, k)'), byRun[r]["fetch"])
                    /\ Balanced(read'[r][k], size[r] + 1, Cardinality(Pending(r, k)'), byRun[r]["fetch"])
  OBVIOUS
<1> DEFINE c == Cardinality(Pending(r, k))
           d == Cardinality(Pending(r, k)')
           b == byRun[r]["fetch"]
           s == size[r] + 1
<1>8. c \in Nat /\ d \in Nat /\ b \in Nat /\ s \in Nat
  <2>1. c \in Nat /\ d \in Nat
    BY CountTypes
  <2>2. b \in Nat /\ s \in Nat
    BY <1>2
  <2> QED BY <2>1, <2>2
<1>9. Balanced(sent[r][k], AttemptRequests, c, b) /\ Balanced(read[r][k], s, c, b)
  BY DEF RunCount, Paid
<1>10. d = c - (IF w \in Pending(r, k) THEN 1 ELSE 0) + (IF w \in Pending(r, k)' THEN 1 ELSE 0)
  BY Recounted
<1>11. /\ sent \in [Runs -> [Attempts -> Nat]] /\ read \in [Runs -> [Attempts -> Nat]]
  BY <1>1 DEF TypeOK, HistoryOK
<1>12. w \in Pending(r, k)' => now < k
  BY DEF now
<1> HIDE DEF c, d, b, s
<1>13. CASE k = now
  <2>1. c = d + 1
    BY <1>2, <1>5, <1>8, <1>10, <1>12, <1>13
  <2>2. /\ sent'[r][k] \in Nat /\ sent'[r][k] <= sent[r][k] + AttemptRequests
    BY <1>2, <1>6, <1>11, <1>13, AttemptTypes
  <2>3. /\ read'[r][k] \in Nat /\ read'[r][k] <= read[r][k] + s
    BY <1>2, <1>7, <1>11, <1>13 DEF s
  <2>4. Balanced(sent'[r][k], AttemptRequests, d, b)
    <3> DEFINE x == sent[r][k]
               y == sent'[r][k]
               m == AttemptRequests
    <3>1. x \in Nat /\ y \in Nat /\ m \in Nat /\ y <= x + m /\ Balanced(x, m, c, b)
      BY <1>2, <1>9, <2>2, AttemptTypes
    <3> HIDE DEF x, y, m
    <3>2. Balanced(y, m, d, b)
      BY <1>8, <2>1, <3>1, Balances
    <3> QED BY <3>2 DEF y, m
  <2>5. Balanced(read'[r][k], s, d, b)
    <3> DEFINE x == read[r][k]
               y == read'[r][k]
    <3>1. x \in Nat /\ y \in Nat /\ y <= x + s /\ Balanced(x, s, c, b)
      BY <1>2, <1>9, <2>3
    <3> HIDE DEF x, y
    <3>2. Balanced(y, s, d, b)
      BY <1>8, <2>1, <3>1, Balances
    <3> QED BY <3>2 DEF y
  <2> QED BY <2>4, <2>5 DEF d, b, s
<1>14. CASE k # now
  <2>1. d <= c
    BY <1>2, <1>5, <1>8, <1>10, <1>12
  <2>2. sent'[r][k] = sent[r][k] /\ read'[r][k] = read[r][k]
    BY <1>2, <1>6, <1>7, <1>11, <1>14
  <2>3. Balanced(sent[r][k], AttemptRequests, d, b) /\ Balanced(read[r][k], s, d, b)
    BY <1>2, <1>8, <1>9, <2>1, Balances, AttemptTypes
  <2> QED BY <2>2, <2>3 DEF d, b, s
<1> QED BY <1>13, <1>14

\* The source is called, at the size that was paid for.
LEMMA CountSource ==
    ASSUME CostInv, NEW r \in Runs, NEW w \in Workers, RunCount(r), CallSource(r, w)
    PROVE  RunCount(r)'
<1>1. TypeOK /\ GoroutineOK /\ HistoryOK /\ ProcessOK
  BY DEF CostInv, TypeOK
<1>2. /\ pc[r][w] = "call" /\ phase[r] = "fetch"
      /\ UNCHANGED <<byRun, size, jobs, stop, taken, saved, cached, calls>>
  BY DEF CallSource, ledger
<1>3. /\ byRun[r]["fetch"] \in Nat /\ size[r] \in Nat /\ jobs[r] \in Nat /\ kept[r] \in Nat
      /\ taken[r] \in Nat /\ saved[r] \in Nat /\ missed[r] \in Nat
      /\ fetched[r] \in Nat /\ cached[r] \in Nat
      /\ Cardinality(Working(r)) \in Nat /\ Cardinality(Avoiding(r)) \in Nat
      /\ Cardinality(Asking(r)) \in Nat /\ Cardinality(Holding(r, "fetch")) \in Nat
      /\ attempt[r][w] \in Attempts /\ \A k \in Attempts : k \in Nat
  BY <1>1, Numbers, CountTypes, BoundAssumption DEF Dimensions, Attempts
<1>4. want[r][w] = OneFetch(size[r])
  BY <1>2 DEF RunCount, Wants
<1>5. want[r][w]["bytes"] = size[r] /\ want[r][w]["fetch"] = 1 /\ want[r][w]["provider"] = 0
  BY <1>3, <1>4, Amounts
<1>6. w \in Holding(r, "fetch") /\ w \notin Holding(r, "provider") /\ w \notin Asking(r)
  BY <1>2, <1>5 DEF Holding, Asking
\* The goroutine returns, with or without the body.
<1>7. CASE Return(r, w) /\ phase'[r] = "fetch"
  <2>1. pc'[r][w] = "idle" /\ attempt'[r][w] = 1 /\ Alone(r, w)
    BY <1>1, <1>7, MovedAlone
  <2>2. w \notin Asking(r)' /\ (\A d : w \notin Holding(r, d)') /\ \A k : w \notin Pending(r, k)'
    BY <2>1 DEF Asking, Holding, Pending
  <2>3. /\ Cardinality(Working(r)') = Cardinality(Working(r)) - 1
        /\ Cardinality(Avoiding(r)') = Cardinality(Avoiding(r))
        /\ Cardinality(Asking(r)') = Cardinality(Asking(r))
        /\ Cardinality(Holding(r, "fetch")') = Cardinality(Holding(r, "fetch")) - 1
        /\ Cardinality(Holding(r, "provider")') = Cardinality(Holding(r, "provider"))
    BY <1>2, <1>6, <2>1, <2>2, Recounted, CountTypes DEF Dimensions
  <2>4. \A v \in Workers : Wants(r, v)'
    BY <1>2, <1>7, <2>1 DEF RunCount, Wants, Alone
  <2>5. kept'[r] \in Nat /\ kept'[r] <= kept[r] + size[r]
    BY <1>1, <1>3, <1>5 DEF CallSource, HistoryOK
  <2>6. Balanced(kept'[r], size[r], Cardinality(Holding(r, "fetch")'), byRun[r]["fetch"])
    <3> DEFINE c == Cardinality(Holding(r, "fetch"))
               d == Cardinality(Holding(r, "fetch")')
               b == byRun[r]["fetch"]
               x == kept[r]
               y == kept'[r]
               s == size[r]
    <3>1. c \in Nat /\ d \in Nat /\ c = d + 1 /\ b \in Nat
      BY <1>3, <2>3, CountTypes DEF Dimensions
    <3>2. Balanced(x, s, c, b)
      BY DEF RunCount, Paid
    <3>3. x \in Nat /\ s \in Nat /\ y \in Nat /\ y <= x + s
      BY <1>3, <2>5
    <3> HIDE DEF c, d, b, x, y, s
    <3>4. Balanced(y, s, d, b)
      BY <3>1, <3>2, <3>3, Balances
    <3> QED BY <3>4 DEF d, b, y, s
  <2>7. Paid(r)'
    <3>1. calls[r] + Cardinality(Holding(r, "provider")) <= byRun[r]["provider"]
      BY DEF RunCount, Paid
    <3> QED BY <1>2, <2>1, <2>2, <2>3, <2>6, <3>1, AttemptPaid DEF Paid, Balanced
  <2>8. Accounted(r)'
    <3>1. \/ fetched'[r] = fetched[r] + 1 /\ missed'[r] = missed[r]
          \/ fetched'[r] = fetched[r] /\ missed'[r] = missed[r] + 1
      <4>1. fetched \in [Runs -> Nat] /\ missed \in [Runs -> Nat] /\ pc \in [Runs -> [Workers -> Steps]]
        BY <1>1 DEF HistoryOK, GoroutineOK
      <4>2. pc' # pc
        BY <1>2, <2>1
      <4> QED BY <1>2, <4>1, <4>2 DEF CallSource, GiveUp
    <3>2. /\ cached[r] + Cardinality(Avoiding(r)) <= saved[r]
          /\ taken[r] = fetched[r] + cached[r] + missed[r] + Cardinality(Working(r))
          /\ saved[r] <= cached[r] + missed[r] + Cardinality(Avoiding(r))
      BY <1>2 DEF RunCount, Accounted
    <3>3. fetched'[r] \in Nat /\ missed'[r] \in Nat
      BY <1>3, <3>1
    <3>4. /\ taken[r] = fetched'[r] + cached[r] + missed'[r] + Cardinality(Working(r)')
          /\ saved[r] <= cached[r] + missed'[r] + Cardinality(Avoiding(r)')
          /\ cached[r] + Cardinality(Avoiding(r)') <= saved[r]
      BY <1>3, <2>3, <3>1, <3>2, <3>3
    <3> QED BY <1>2, <1>7, <3>4 DEF Accounted
  <2>9. Rows(r)' = Rows(r)
    BY <1>2, <2>3 DEF Rows
  <2>10. Sized(r)' /\ Room(r)' /\ Stops(r)'
    BY <1>2, <1>7, <2>9 DEF RunCount, Sized, Room, Stops
  <2> QED BY <2>4, <2>7, <2>8, <2>10 DEF RunCount
\* It goes on with the next attempt.
<1>8. CASE /\ attempt' = [attempt EXCEPT ![r][w] = @ + 1]
           /\ UNCHANGED <<phase, pc, want, kept, fetched, missed>>
  <2>1. attempt'[r][w] = attempt[r][w] + 1 /\ Alone(r, w)
    BY <1>1, <1>8 DEF GoroutineOK, Alone
  <2>2. /\ Working(r)' = Working(r) /\ Avoiding(r)' = Avoiding(r) /\ Asking(r)' = Asking(r)
        /\ \A d : Holding(r, d)' = Holding(r, d)
    BY <1>8 DEF Working, Avoiding, Asking, Holding
  <2>3. \A k \in Attempts : w \in Pending(r, k)' => attempt[r][w] < k
    BY <1>3, <2>1 DEF Pending
  <2>4. \A v \in Workers : Wants(r, v)'
    BY <1>2, <1>8, <2>1 DEF RunCount, Wants, Alone
  <2>5. Paid(r)'
    BY <1>2, <1>8, <2>1, <2>2, <2>3, AttemptPaid DEF RunCount, Paid, Balanced
  <2>6. Sized(r)' /\ Accounted(r)' /\ Stops(r)'
    BY <1>2, <1>8, <2>2 DEF RunCount, Sized, Accounted, Stops
  <2>7. Rows(r)' = Rows(r)
    BY <1>2, <2>2 DEF Rows
  <2>8. Room(r)'
    BY <1>2, <1>8, <2>7 DEF RunCount, Room
  <2> QED BY <2>4, <2>5, <2>6, <2>8 DEF RunCount
<1> QED BY <1>2, <1>7, <1>8 DEF CallSource, GiveUp

\* Giving up a fetch is one failure among the others, giving up a search ends
\* the run's work; what was reserved stays in the ledger.
LEMMA CountGivesUp ==
    ASSUME CostInv, NEW r \in Runs, NEW w \in Workers, RunCount(r),
           Refused(r, w) \/ StatementFails(r, w) \/ AbandonCall(r, w)
    PROVE  RunCount(r)'
<1>1. TypeOK /\ GoroutineOK /\ HistoryOK /\ ProcessOK /\ StageInv
  BY DEF CostInv, TypeOK
<1>2. /\ GiveUp(r, w) /\ pc[r][w] # "idle" /\ SameCalls(r)
      /\ UNCHANGED <<byRun, size, jobs, stop, taken, saved, fetched, cached>>
  BY DEF Refused, StatementFails, AbandonCall, ledger, network, SameCalls
<1>3. pc'[r][w] = "idle" /\ attempt'[r][w] = 1 /\ Alone(r, w)
  BY <1>1, <1>2, MovedAlone DEF GiveUp
<1>4. \/ phase[r] = "search" /\ phase'[r] = "over" /\ missed'[r] = missed[r]
      \/ phase[r] = "fetch" /\ phase'[r] = "fetch" /\ missed'[r] = missed[r] + 1
  <2>1. /\ phase \in [Runs -> {"new", "search", "fetch", "over", "dead"}]
        /\ missed \in [Runs -> Nat] /\ phase[r] \in {"search", "fetch"}
    BY <1>1, <1>2 DEF ProcessOK, HistoryOK, StageInv
  <2> QED BY <1>2, <2>1 DEF GiveUp
<1>5. /\ \A d \in Dimensions : byRun[r][d] \in Nat /\ RunLimit[r][d] \in Nat
      /\ size[r] \in Nat /\ jobs[r] \in Nat
      /\ taken[r] \in Nat /\ saved[r] \in Nat /\ missed[r] \in Nat
      /\ fetched[r] \in Nat /\ cached[r] \in Nat
      /\ Cardinality(Working(r)) \in Nat /\ Cardinality(Avoiding(r)) \in Nat
      /\ Cardinality(Asking(r)) \in Nat /\ Cardinality(Asking(r)') \in Nat
  BY <1>1, Numbers, CountTypes
<1>6. w \notin Asking(r)' /\ (\A d : w \notin Holding(r, d)') /\ \A k : w \notin Pending(r, k)'
  BY <1>3 DEF Asking, Holding, Pending
<1>7. /\ Cardinality(Working(r)') = Cardinality(Working(r)) - 1
      /\ Cardinality(Avoiding(r)') =
           Cardinality(Avoiding(r)) - (IF pc[r][w] = "avoid" THEN 1 ELSE 0)
      /\ Cardinality(Asking(r)') <= Cardinality(Asking(r))
      /\ \A d \in {"provider", "fetch"} : Cardinality(Holding(r, d)') <= Cardinality(Holding(r, d))
      /\ \A k \in Attempts : Cardinality(Pending(r, k)') <= Cardinality(Pending(r, k))
  BY <1>2, <1>3, <1>6, Recounted, CountTypes DEF Dimensions
<1>8. \A v \in Workers : Wants(r, v)'
  BY <1>1, <1>3, <1>4, <1>2 DEF RunCount, Wants, Alone, StageInv
<1>9. Paid(r)'
  BY <1>1, <1>2, <1>7, PaidKept DEF RunCount
<1>10. Sized(r)'
  BY <1>2, <1>4 DEF RunCount, Sized
<1>11. Accounted(r)'
  BY <1>2, <1>4, <1>5, <1>7 DEF RunCount, Accounted
<1>12. Rows(r) \in Nat /\ Rows(r)' \in Nat /\ Rows(r)' <= Rows(r)
  BY <1>2, <1>5, <1>7 DEF Rows, Dimensions
<1>13. size[r] * Rows(r)' <= size[r] * Rows(r) /\ size[r] * Rows(r)' \in Nat /\ size[r] * Rows(r) \in Nat
  BY <1>5, <1>12, Multiples
<1>14. Room(r)' /\ Stops(r)'
  BY <1>2, <1>4, <1>5, <1>12, <1>13 DEF RunCount, Room, Stops, Dimensions
<1> QED BY <1>8, <1>9, <1>10, <1>11, <1>14 DEF RunCount

\* A run whose goroutines are all idle.
LEMMA NobodyCounts ==
    ASSUME NEW r, \A w \in Workers : pc[r][w] = "idle"
    PROVE  /\ Cardinality(Working(r)) = 0 /\ Cardinality(Avoiding(r)) = 0
           /\ Cardinality(Asking(r)) = 0
           /\ \A d : Cardinality(Holding(r, d)) = 0
           /\ \A k : Cardinality(Pending(r, k)) = 0
<1>1. /\ Working(r) = {} /\ Avoiding(r) = {} /\ Asking(r) = {} /\ \A d : Holding(r, d) = {}
      /\ \A k : Pending(r, k) = {}
  BY DEF Working, Avoiding, Asking, Holding, Pending
<1> QED BY <1>1, FS_EmptySet

LEMMA CountRun ==
    ASSUME CostInv, NEW r \in Runs, RunCount(r),
           StartRun(r) \/ Search(r) \/ SearchCached(r) \/ BeginFetch(r) \/ EndFetch(r) \/ Crash(r)
    PROVE  RunCount(r)'
<1>1. TypeOK /\ GoroutineOK /\ ProcessOK /\ StageInv
  BY DEF CostInv, TypeOK
<1>2. /\ UNCHANGED <<byRun, stop, calls, sent, read, kept, taken, saved, missed, fetched, cached>>
      /\ SameCalls(r)
  BY DEF StartRun, Search, SearchCached, BeginFetch, EndFetch, Crash, ledger, history, network,
     SameCalls
<1>3. /\ \A d \in Dimensions : byRun[r][d] \in Nat /\ RunLimit[r][d] \in Nat
      /\ size[r] \in Nat /\ size[r] + 1 \in Nat /\ calls[r] \in Nat /\ kept[r] \in Nat
      /\ \A k \in Attempts : sent[r][k] \in Nat /\ read[r][k] \in Nat
  BY <1>1, Numbers
<1>4. CASE StartRun(r) \/ SearchCached(r) \/ EndFetch(r)
  <2>1. /\ \A w \in Workers : pc[r][w] = "idle"
        /\ UNCHANGED <<pc, want, attempt, size, jobs>>
        /\ \/ phase[r] = "new" /\ phase'[r] = "search"
           \/ phase[r] = "search" /\ phase'[r] \in {"search", "over"}
           \/ phase[r] = "fetch" /\ phase'[r] = "over"
    BY <1>1, <1>4 DEF StartRun, SearchCached, EndFetch, Busy, StageInv, ProcessOK, goroutine
  <2>2. /\ Working(r)' = Working(r) /\ Avoiding(r)' = Avoiding(r) /\ Asking(r)' = Asking(r)
        /\ \A d : Holding(r, d)' = Holding(r, d)
    BY <2>1 DEF Working, Avoiding, Asking, Holding
  <2>3. \A k : Pending(r, k)' = Pending(r, k)
    BY <2>1, <2>2 DEF Pending
  <2>4. Cardinality(Working(r)) = 0 /\ Cardinality(Avoiding(r)) = 0
    BY <2>1, NobodyCounts
  <2>5. \A v \in Workers : Wants(r, v)'
    BY <2>1 DEF RunCount, Wants
  <2>6. Paid(r)'
    BY <1>2, <2>1, <2>2, <2>3 DEF RunCount, Paid, Balanced
  <2>7. Sized(r)' /\ Room(r)'
    BY <1>2, <2>1, <2>2 DEF RunCount, Sized, Room
  <2>8. Accounted(r)'
    BY <1>1, <1>2, <2>1, <2>2, <2>4, Numbers DEF RunCount, Accounted
  <2>9. Stops(r)'
    BY <1>2, <2>1, RunAssumption DEF RunCount, Stops
  <2> QED BY <2>5, <2>6, <2>7, <2>8, <2>9 DEF RunCount
<1>5. CASE Search(r)
  <2>1. /\ pc[r][Leader] = "idle" /\ pc'[r][Leader] = "insert" /\ want'[r][Leader] = OneSearch
        /\ UNCHANGED <<attempt, phase, size, jobs>> /\ Alone(r, Leader) /\ phase[r] = "search"
    BY <1>1, <1>5, MovedAlone, RunAssumption DEF Search, Busy
  <2>2. /\ \A d : Leader \notin Holding(r, d) /\ Leader \notin Holding(r, d)'
        /\ \A k : Leader \notin Pending(r, k) /\ Leader \notin Pending(r, k)'
    BY <2>1 DEF Holding, Pending
  <2>3. /\ \A d \in Dimensions : Cardinality(Holding(r, d)') = Cardinality(Holding(r, d))
        /\ \A k : Cardinality(Pending(r, k)') = Cardinality(Pending(r, k))
        /\ Cardinality(Avoiding(r)') = Cardinality(Avoiding(r))
    BY <2>1, <2>2, Recounted, CountTypes, RunAssumption
  <2>4. \A v \in Workers : Wants(r, v)'
    BY <2>1 DEF RunCount, Wants, Alone
  <2>5. Paid(r)'
    BY <1>2, <2>1, <2>3 DEF RunCount, Paid, Balanced, Dimensions
  <2>6. Sized(r)' /\ Room(r)' /\ Accounted(r)'
    BY <1>2, <2>1, <2>3 DEF RunCount, Sized, Room, Accounted
  <2>7. Stops(r)'
    BY <1>2, <2>1 DEF RunCount, Stops
  <2> QED BY <2>4, <2>5, <2>6, <2>7 DEF RunCount
\* The run has no row for a fetch yet, and its bytes are divided by the number
\* of its sources.
<1>6. CASE BeginFetch(r)
  <2>1. /\ \A w \in Workers : pc[r][w] = "idle"
        /\ UNCHANGED <<pc, want, attempt>> /\ phase[r] = "search" /\ phase'[r] = "fetch"
    BY <1>1, <1>6 DEF BeginFetch, Busy, ProcessOK, goroutine
  <2>2. /\ Working(r)' = Working(r) /\ Avoiding(r)' = Avoiding(r) /\ Asking(r)' = Asking(r)
        /\ \A d : Holding(r, d)' = Holding(r, d)
    BY <2>1 DEF Working, Avoiding, Asking, Holding
  <2>3. \A k : Pending(r, k)' = Pending(r, k)
    BY <2>1, <2>2 DEF Pending
  <2>4. /\ Cardinality(Working(r)) = 0 /\ Cardinality(Avoiding(r)) = 0 /\ Cardinality(Asking(r)) = 0
        /\ \A d : Cardinality(Holding(r, d)) = 0
        /\ \A k : Cardinality(Pending(r, k)) = 0
    BY <2>1, NobodyCounts
  <2>5. /\ byRun[r]["fetch"] = 0 /\ byRun[r]["bytes"] = 0
        /\ taken[r] = 0 /\ saved[r] = 0 /\ missed[r] = 0 /\ fetched[r] = 0 /\ cached[r] = 0
    BY <1>3, <2>1, Multiples DEF RunCount, Sized, Accounted
  <2>6. /\ calls[r] + Cardinality(Holding(r, "provider")) <= byRun[r]["provider"]
        /\ Balanced(kept[r], size[r], 0, 0)
        /\ \A k \in Attempts :
             Balanced(sent[r][k], AttemptRequests, 0, 0) /\ Balanced(read[r][k], size[r] + 1, 0, 0)
    BY <2>4, <2>5 DEF RunCount, Paid
  <2>7. /\ kept[r] = 0 /\ \A k \in Attempts : sent[r][k] = 0 /\ read[r][k] = 0
    <3>1. \A x, s \in Nat : Balanced(x, s, 0, 0) => x = 0
      BY Balances
    <3> QED BY <1>3, <2>6, <3>1, AttemptTypes
  <2>8. PICK n \in 1..RunLimit[r]["fetch"] :
          LET left == RunLimit[r]["bytes"] - byRun[r]["bytes"]
              each == left \div n
          IN  /\ jobs' = [jobs EXCEPT ![r] = n]
              /\ size' = [size EXCEPT ![r] = IF each < SourceBytes THEN each ELSE SourceBytes]
    BY <1>6 DEF BeginFetch
  <2> DEFINE left == RunLimit[r]["bytes"]
  <2>9. left \in Nat /\ RunLimit[r]["fetch"] \in Nat /\ n \in Nat /\ n > 0 /\ n <= RunLimit[r]["fetch"]
    BY <1>3 DEF Dimensions
  <2>10. left - byRun[r]["bytes"] = left
    BY <2>5, <2>9
  <2>11. /\ jobs'[r] = n
         /\ size'[r] = IF (left \div n) < SourceBytes THEN left \div n ELSE SourceBytes
    BY <1>1, <2>8, <2>10 DEF ProcessOK
  <2> HIDE DEF left
  <2>12. left \div n \in Nat /\ (left \div n) * n <= left
    BY <2>9, Shares
  <2>13. size'[r] \in Nat /\ size'[r] + 1 \in Nat /\ size'[r] <= left \div n
    BY <2>11, <2>12, BoundAssumption
  <2>14. size'[r] * n <= left
    <3>1. n * size'[r] <= n * (left \div n)
      BY <2>9, <2>12, <2>13, Multiples
    <3>2. n * size'[r] = size'[r] * n /\ n * (left \div n) = (left \div n) * n
      BY <2>9, <2>12, <2>13
    <3>3. size'[r] * n \in Nat /\ (left \div n) * n \in Nat
      BY <2>9, <2>12, <2>13
    <3> QED BY <2>9, <2>12, <3>1, <3>2, <3>3
  <2>15. Rows(r)' = n
    BY <1>2, <2>2, <2>4, <2>5, <2>9, <2>11 DEF Rows
  <2>16. Room(r)'
    BY <2>9, <2>14, <2>15 DEF Room, left
  <2>17. \A v \in Workers : Wants(r, v)'
    BY <2>1 DEF RunCount, Wants
  <2>18. Paid(r)'
    <3>1. \A s \in Nat : Balanced(0, s, 0, 0)
      BY Multiples DEF Balanced
    <3> HIDE DEF Balanced
    <3>2. /\ Balanced(0, size'[r], 0, 0) /\ Balanced(0, size'[r] + 1, 0, 0)
          /\ Balanced(0, AttemptRequests, 0, 0)
      BY <2>13, <3>1, AttemptTypes
    <3>3. /\ kept'[r] = 0 /\ calls'[r] = calls[r] /\ byRun'[r] = byRun[r]
          /\ \A k \in Attempts : sent'[r][k] = 0 /\ read'[r][k] = 0
      BY <1>2, <2>7
    <3>4. Balanced(kept'[r], size'[r], Cardinality(Holding(r, "fetch")'), byRun'[r]["fetch"])
      BY <2>2, <2>4, <2>5, <3>2, <3>3
    <3>5. \A k \in Attempts :
            /\ Balanced(sent'[r][k], AttemptRequests, Cardinality(Pending(r, k)'), byRun'[r]["fetch"])
            /\ Balanced(read'[r][k], size'[r] + 1, Cardinality(Pending(r, k)'), byRun'[r]["fetch"])
      BY <2>3, <2>4, <2>5, <3>2, <3>3
    <3>6. calls'[r] + Cardinality(Holding(r, "provider")') <= byRun'[r]["provider"]
      BY <2>2, <2>6, <3>3
    <3> QED BY <3>4, <3>5, <3>6 DEF Paid, Balanced
  <2>19. Accounted(r)' /\ Stops(r)'
    BY <1>2, <2>1, <2>2, <2>4, <2>5, RunAssumption DEF RunCount, Accounted, Stops
  <2>20. Sized(r)'
    BY <1>2, <2>1, <2>5, <2>13, Multiples DEF Sized
  <2> QED BY <2>16, <2>17, <2>18, <2>19, <2>20 DEF RunCount
<1>7. CASE Crash(r)
  <2>1. /\ \A w \in Workers : pc'[r][w] = "idle" /\ attempt'[r][w] = 1
        /\ phase'[r] = "dead" /\ UNCHANGED <<size, jobs>>
    BY <1>1, <1>7 DEF Crash, GoroutineOK, ProcessOK
  <2>2. Avoiding(r)' = {} /\ (\A d : Holding(r, d)' = {}) /\ \A k : Pending(r, k)' = {}
    BY <2>1 DEF Avoiding, Holding, Pending
  <2>3. /\ Cardinality(Avoiding(r)') = 0
        /\ \A d : Cardinality(Holding(r, d)') = 0
        /\ \A k : Cardinality(Pending(r, k)') = 0
    BY <2>2, FS_EmptySet
  <2>4. Paid(r)'
    <3>1. /\ \A d \in {"provider", "fetch"} : Cardinality(Holding(r, d)') <= Cardinality(Holding(r, d))
          /\ \A k \in Attempts : Cardinality(Pending(r, k)') <= Cardinality(Pending(r, k))
      BY <2>3, CountTypes DEF Dimensions
    <3> QED BY <1>1, <1>2, <2>1, <3>1, PaidKept DEF RunCount
  <2>5. \A v \in Workers : Wants(r, v)'
    BY <2>1 DEF Wants
  <2>6. Sized(r)' /\ Room(r)' /\ Stops(r)'
    BY <1>2, <2>1 DEF RunCount, Sized, Room, Stops
  <2>7. Accounted(r)'
    <3>1. cached[r] \in Nat /\ saved[r] \in Nat /\ Cardinality(Avoiding(r)) \in Nat
      BY <1>1, Numbers, CountTypes
    <3> QED BY <1>2, <2>1, <2>3, <3>1 DEF RunCount, Accounted
  <2> QED BY <2>4, <2>5, <2>6, <2>7 DEF RunCount
<1> QED BY <1>4, <1>5, <1>6, <1>7

LEMMA CountKept ==
    ASSUME CostInv, CostInv', CountInv, [Next]_vars
    PROVE  CountInv'
<1> SUFFICES ASSUME NEW q \in Runs PROVE RunCount(q)'
  BY DEF CountInv
<1>1. RunCount(q) /\ TypeOK
  BY DEF CountInv, CostInv
<1>2. ASSUME NEW r \in Runs,
             \/ StartRun(r) \/ Search(r) \/ SearchCached(r) \/ BeginFetch(r) \/ EndFetch(r) \/ Crash(r)
             \/ \E w \in Workers : Step(r, w)
      PROVE  RunCount(q)'
  <2>1. CASE q # r
    BY <1>1, <1>2, <2>1, OthersSame, SameCount
  <2>2. CASE q = r
    BY <1>1, <1>2, <2>2, CountRun, CountInsert, CountGranted, CountRefusal, CountGivesUp,
       CountProvider, CountTaken, CountCached, CountSource DEF Step
  <2> QED BY <2>1, <2>2
<1>3. CASE Midnight \/ UNCHANGED vars
  <2>1. Same(q)
    BY <1>3 DEF Midnight, vars, Same, SameCalls, SameSources, ledger, process, goroutine, history,
       network
  <2> QED BY <1>1, <2>1, SameCount
<1> QED BY <1>2, <1>3 DEF Next

LEMMA CountInit == Init => CountInv
<1> SUFFICES ASSUME Init, NEW r \in Runs PROVE RunCount(r)
  BY DEF CountInv
<1>1. /\ \A w \in Workers : pc[r][w] = "idle" /\ attempt[r][w] = 1
      /\ phase[r] = "new" /\ stop[r] = "none" /\ size[r] = 0
      /\ byRun[r] = Nothing /\ calls[r] = 0 /\ kept[r] = 0
      /\ \A k \in Attempts : sent[r][k] = 0 /\ read[r][k] = 0
      /\ taken[r] = 0 /\ saved[r] = 0 /\ missed[r] = 0 /\ fetched[r] = 0 /\ cached[r] = 0
  BY DEF Init
<1>2. \A d \in Dimensions : Nothing[d] = 0
  BY DEF Nothing
<1>3. Paid(r)
  <2>1. \A s \in Nat : Balanced(0, s, 0, 0)
    BY Multiples DEF Balanced
  <2> QED BY <1>1, <1>2, <2>1, NobodyCounts, AttemptTypes DEF Paid, Dimensions
<1>4. (\A w \in Workers : Wants(r, w)) /\ Sized(r) /\ Accounted(r) /\ Room(r) /\ Stops(r)
  BY <1>1, <1>2, NobodyCounts DEF Wants, Sized, Accounted, Room, Stops, Dimensions
<1> QED BY <1>3, <1>4 DEF RunCount

-----------------------------------------------------------------------------
(* The theorems. *)

LEMMA CostInvariant == Spec => []CostInv
<1>1. CostInv /\ [Next]_vars => CostInv'
  BY NextTypes, BudgetsKept, ScopeKept, StopKept DEF CostInv
<1> QED BY <1>1, CostInit, PTL DEF Spec

\* Every variable keeps its type; in particular no planned query, job or
\* share of the remaining budget goes below zero.
THEOREM TypeCorrect == Spec => []TypeOK
<1>1. CostInv => TypeOK
  BY DEF CostInv
<1> QED BY <1>1, CostInvariant, PTL

\* The sums of a run, of a topic and of a day never exceed their budgets,
\* whatever the number of processes that share them, the faults and the
\* instants at which days change.
THEOREM BudgetsAreKept == Spec => []BudgetsHold
<1>1. CostInv => BudgetsHold
  BY DEF CostInv
<1> QED BY <1>1, CostInvariant, PTL

\* The reads after a rejected INSERT always find the exceeded budget: the
\* error "budget trigger fired without an exceeded scope" is unreachable.
THEOREM RefusalIsExplained == Spec => []ScopeIsFound
<1>1. CostInv => ScopeIsFound
  BY DEF CostInv, ScopeInv, Explained, ScopeIsFound
<1> QED BY <1>1, CostInvariant, PTL

\* A stop on record names a budget that cannot take the refused usage.
THEOREM StopNamesTheBudget == Spec => []StopIsJustified
<1>1. CostInv => StopIsJustified
  BY DEF CostInv
<1> QED BY <1>1, CostInvariant, PTL

LEMMA CountInvariant == Spec => [](CostInv /\ CountInv)
<1>1. CostInv /\ CountInv /\ [Next]_vars => CostInv' /\ CountInv'
  BY NextTypes, BudgetsKept, ScopeKept, StopKept, CountKept DEF CostInv
<1> QED BY <1>1, CostInit, CountInit, PTL DEF Spec

\* No page is asked for without a row of its own, and no fetch requests
\* anything before it has one: whatever the number of attempts, of redirects
\* and of goroutines, and whatever fails or dies between the row and the
\* requests, an attempt makes no more of them than the rows stand for.
THEOREM EveryCallIsPaid == Spec => []CallsArePaid
<1>1. CostInv /\ CountInv => CallsArePaid
  <2> SUFFICES ASSUME CostInv, CountInv, NEW r \in Runs
               PROVE  /\ calls[r] + Cardinality({w \in Workers :
                              pc[r][w] = "call" /\ want[r][w]["provider"] > 0}) <= byRun[r]["provider"]
                      /\ \A k \in Attempts :
                           sent[r][k] + AttemptRequests * Cardinality({w \in Workers :
                               pc[r][w] = "call" /\ want[r][w]["fetch"] > 0 /\ attempt[r][w] <= k})
                                 <= AttemptRequests * byRun[r]["fetch"]
    BY DEF CallsArePaid
  <2>1. TypeOK /\ Paid(r)
    BY DEF CostInv, CountInv, RunCount
  <2>2. /\ calls[r] \in Nat /\ byRun[r]["provider"] \in Nat /\ byRun[r]["fetch"] \in Nat
        /\ \A k \in Attempts : sent[r][k] \in Nat
    BY <2>1, Numbers DEF Dimensions
  <2>3. calls[r] + Cardinality({w \in Workers : pc[r][w] = "call" /\ want[r][w]["provider"] > 0})
            <= byRun[r]["provider"]
    <3> DEFINE C == {w \in Workers : pc[r][w] = "call" /\ want[r][w]["provider"] > 0}
    <3>1. C \in SUBSET Holding(r, "provider")
      BY DEF Holding
    <3>2. IsFiniteSet(Holding(r, "provider")) /\ Cardinality(Holding(r, "provider")) \in Nat
      BY CountTypes DEF Dimensions
    <3>3. Cardinality(C) <= Cardinality(Holding(r, "provider")) /\ Cardinality(C) \in Nat
      BY <3>1, <3>2, FS_Subset, FS_CardinalityType
    <3> QED BY <2>1, <2>2, <3>2, <3>3 DEF Paid
  <2>4. ASSUME NEW k \in Attempts
        PROVE  sent[r][k] + AttemptRequests * Cardinality({w \in Workers :
                   pc[r][w] = "call" /\ want[r][w]["fetch"] > 0 /\ attempt[r][w] <= k})
                     <= AttemptRequests * byRun[r]["fetch"]
    <3> DEFINE C == {w \in Workers :
                       pc[r][w] = "call" /\ want[r][w]["fetch"] > 0 /\ attempt[r][w] <= k}
               x == sent[r][k]
               b == byRun[r]["fetch"]
               m == Cardinality(C)
               n == Cardinality(Pending(r, k))
    <3>1. C \in SUBSET Pending(r, k)
      BY DEF Holding, Pending
    <3>2. IsFiniteSet(Pending(r, k)) /\ n \in Nat
      BY CountTypes
    <3>3. m <= n /\ m \in Nat
      BY <3>1, <3>2, FS_Subset, FS_CardinalityType
    <3>4. x \in Nat /\ b \in Nat /\ AttemptRequests \in Nat
      BY <2>2, AttemptTypes
    <3>5. Balanced(x, AttemptRequests, n, b)
      BY <2>1 DEF Paid
    <3> HIDE DEF C, x, b, m, n
    <3>6. Balanced(x, AttemptRequests, m, b)
      BY <3>2, <3>3, <3>4, <3>5, Balances
    <3> QED BY <3>6 DEF Balanced, C, x, b, m
  <2> QED BY <2>3, <2>4
<1> QED BY <1>1, CountInvariant, PTL

\* The bodies a run keeps never exceed the bytes it paid for; an attempt reads
\* at most one byte more for each fetch; and the run's own divided budget never
\* stops its fetch stage.
THEOREM BytesAreBounded == Spec => []BytesArePrepaid
<1>1. CostInv /\ CountInv => BytesArePrepaid
  <2> SUFFICES ASSUME CostInv, CountInv, NEW r \in Runs
               PROVE  /\ kept[r] <= byRun[r]["bytes"]
                      /\ \A k \in Attempts : read[r][k] <= byRun[r]["bytes"] + byRun[r]["fetch"]
                      /\ phase[r] = "fetch" => stop[r] # "run"
    BY DEF BytesArePrepaid
  <2>1. TypeOK /\ Paid(r) /\ Sized(r) /\ Stops(r)
    BY DEF CostInv, CountInv, RunCount
  <2> DEFINE b == byRun[r]["fetch"]
             s == size[r]
  <2>2. /\ b \in Nat /\ s \in Nat /\ s + 1 \in Nat /\ s * b \in Nat
        /\ byRun[r]["bytes"] = s * b /\ byRun[r]["bytes"] \in Nat
    <3>1. b \in Nat /\ s \in Nat /\ byRun[r]["bytes"] \in Nat
      BY <2>1, Numbers DEF Dimensions
    <3>2. byRun[r]["bytes"] = s * b
      BY <2>1 DEF Sized
    <3> QED BY <3>1, <3>2
  <2>3. (s + 1) * b = byRun[r]["bytes"] + b
    BY <2>2
  <2>4. /\ Balanced(kept[r], s, Cardinality(Holding(r, "fetch")), b)
        /\ \A k \in Attempts : Balanced(read[r][k], s + 1, Cardinality(Pending(r, k)), b)
    BY <2>1 DEF Paid
  <2>5. /\ kept[r] \in Nat /\ Cardinality(Holding(r, "fetch")) \in Nat
        /\ \A k \in Attempts : read[r][k] \in Nat /\ Cardinality(Pending(r, k)) \in Nat
    BY <2>1, Numbers, CountTypes DEF Dimensions
  <2>6. \A x, t, n, y \in Nat : Balanced(x, t, n, y) => x <= t * y
    <3> SUFFICES ASSUME NEW x \in Nat, NEW t \in Nat, NEW n \in Nat, NEW y \in Nat,
                        Balanced(x, t, n, y)
                 PROVE  x <= t * y
      OBVIOUS
    <3>1. t * n \in Nat /\ t * y \in Nat /\ x + t * n <= t * y
      BY DEF Balanced
    <3> QED BY <3>1
  <2> HIDE DEF b, s
  <2>7. kept[r] <= byRun[r]["bytes"]
    BY <2>2, <2>4, <2>5, <2>6
  <2>8. \A k \in Attempts : read[r][k] <= byRun[r]["bytes"] + b
    BY <2>2, <2>3, <2>4, <2>5, <2>6
  <2> QED BY <2>1, <2>7, <2>8 DEF Stops, b
<1> QED BY <1>1, CountInvariant, PTL

\* No source is lost between the goroutines: each one taken was returned from
\* the network or from the cache, given up or is being worked on; and a saving
\* on record without a source is one whose source was given up.
THEOREM NoSourceIsLost == Spec => []FetchesAreAccounted
<1>1. CostInv /\ CountInv => FetchesAreAccounted
  <2> SUFFICES ASSUME CostInv, CountInv, NEW r \in Runs
               PROVE  /\ cached[r] + Cardinality(Avoiding(r)) <= saved[r]
                      /\ phase[r] \in {"fetch", "over"} =>
                          /\ taken[r] = fetched[r] + cached[r] + missed[r] + Cardinality(Working(r))
                          /\ saved[r] <= cached[r] + missed[r] + Cardinality(Avoiding(r))
    BY DEF FetchesAreAccounted, Working, Avoiding
  <2>1. TypeOK /\ StageInv /\ Accounted(r)
    BY DEF CostInv, CountInv, RunCount
  <2>2. CASE phase[r] = "over"
    <3>1. \A w \in Workers : pc[r][w] = "idle"
      BY <2>1, <2>2 DEF StageInv
    <3>2. Cardinality(Working(r)) = 0 /\ Cardinality(Avoiding(r)) = 0
      BY <3>1, NobodyCounts
    <3>3. /\ fetched[r] \in Nat /\ cached[r] \in Nat /\ missed[r] \in Nat
      BY <2>1, Numbers
    <3> QED BY <2>1, <2>2, <3>2, <3>3 DEF Accounted
  <2>3. CASE phase[r] # "over"
    BY <2>1, <2>3 DEF Accounted
  <2> QED BY <2>2, <2>3
<1> QED BY <1>1, CountInvariant, PTL
====
