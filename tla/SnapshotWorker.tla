---------------------------- MODULE SnapshotWorker ----------------------------
(***************************************************************************)
(* Snapshot jobs on the worker queue: the trigger route enqueues a job,    *)
(* the queue runs processSnapshotJob as its handler, and a rejected        *)
(* handler is run again from the start.  The handler awaits three reads at *)
(* once, then the INSERT of the snapshot, then the INSERT of its diff.     *)
(*                                                                         *)
(* A job inserts at most one snapshot, so the job is the id of the row.    *)
(***************************************************************************)
EXTENDS JobQueue

CONSTANTS
  Series,     \* pairs of user and snapshot type
  Dates,      \* snapshot dates
  Providers,  \* the number of rates providers
  MaxFaults,  \* bound: calls of other services that fail
  None        \* null

ASSUME WorkerAssumption ==
  /\ MaxFaults \in Nat /\ Providers \in Nat \ {0}
  /\ None \notin Jobs \cup Nat

VARIABLES
  payload,    \* [Jobs -> [series, date] or None]: the payload in the closure of the job
  handler,    \* [Jobs -> Handler]: the run of processSnapshotJob in progress
  cache,      \* RatesProvider
  fetch,      \* RatesProvider: a call of getRates is a job and its attempt
  snapshots,  \* [Jobs -> Snapshot or None]: rows of snapshots
  diffs,      \* [Jobs -> Diff or None]: row of snapshot_diffs with that snapshot_id
  faults      \* number of failed calls so far

Rates == INSTANCE RatesProvider WITH Calls <- Jobs \X (1..MaxAttempts)

rows  == <<snapshots, diffs>>
vars  == <<queueVars, payload, handler, cache, fetch, rows, faults>>

Reads    == {"positions", "rates", "previous"}
Payload  == [series : Series, date : Dates]
Snapshot == [series : Series, date : Dates, rates : 1..Providers]
Diff     == [previous : Jobs \cup {None}]

(* NULL is not a row, and undefined is not a call of getRates. *)
ASSUME RowAssumption ==
  /\ None \notin Payload \cup Snapshot \cup Diff
  /\ None \notin [date : Dates, provider : 1..Providers]

(* The locals of processSnapshotJob, and what it awaits. *)
Handler ==
  [ pc       : {"idle", "reads", "createSnapshot", "createDiff"},
    awaits   : SUBSET Reads,              \* reads of the Promise.all still unsettled
    rates    : 1..Providers \cup {None},
    previous : Jobs \cup {None} ]

Idle == [pc |-> "idle", awaits |-> {}, rates |-> None, previous |-> None]

Init ==
  /\ QueueInit /\ Rates!RatesInit
  /\ payload = [j \in Jobs |-> None]
  /\ handler = [j \in Jobs |-> Idle]
  /\ snapshots = [j \in Jobs |-> None] /\ diffs = [j \in Jobs |-> None]
  /\ faults = 0

Call(j) == <<j, attempts[j]>>  \* the call of getRates of the current run of j
At(j, pc) == handler[j].pc = pc
Awaits(j, read) == At(j, "reads") /\ read \in handler[j].awaits

Fault == faults < MaxFaults /\ faults' = faults + 1

(* POST /snapshots/trigger.  The route sends no date: the closure of the job *)
(* supplies one, as scripts/demo.js does.                                    *)
Trigger(j) ==
  /\ Enqueue(j)
  /\ \E p \in Payload : payload' = [payload EXCEPT ![j] = p]
  /\ UNCHANGED <<handler, cache, fetch, rows, faults>>

(* A runner shifts a job, and its handler runs up to the Promise.all: the    *)
(* three reads are under way, or two of them if the rates are cached.        *)
Start(w) ==
  \E j \in Jobs :
    /\ Shift(w, j)
    /\ LET d == payload[j].date IN
       \/ /\ Rates!Hit(d)
          /\ handler' = [handler EXCEPT ![j] =
               [Idle EXCEPT !.pc = "reads", !.awaits = Reads \ {"rates"}, !.rates = cache[d]]]
          /\ UNCHANGED <<cache, fetch>>
       \/ /\ Rates!Miss(d)
          /\ handler' = [handler EXCEPT ![j] = [Idle EXCEPT !.pc = "reads", !.awaits = Reads]]
          /\ Rates!AskFirst(<<j, attempts[j] + 1>>, d)
    /\ UNCHANGED <<payload, rows, faults>>

Stop(w) == LoopEnds(w) /\ UNCHANGED <<payload, handler, cache, fetch, rows, faults>>

(* The handler of j settles, and with it the await of the runner that called *)
(* it.                                                                       *)
Returns(j) ==
  /\ \E w \in Runners : Resolve(w, j)
  /\ handler' = [handler EXCEPT ![j] = Idle]

Throws(j) ==
  /\ \E w \in Runners : Reject(w, j)
  /\ handler' = [handler EXCEPT ![j] = Idle]

(* One of the reads arrives; after the last one the holdings are valued and  *)
(* the snapshot is on its way.                                               *)
Arrived(j, read, locals) ==
  LET left == locals.awaits \ {read} IN
  /\ handler' = [handler EXCEPT ![j] =
       [locals EXCEPT !.awaits = left, !.pc = IF left = {} THEN "createSnapshot" ELSE @]]
  /\ UNCHANGED <<queueVars, payload>>

GetPositions(j) ==
  /\ Awaits(j, "positions") /\ Arrived(j, "positions", handler[j])
  /\ UNCHANGED <<cache, fetch, rows, faults>>

(* findPreviousSnapshot is given no date: any snapshot of the series may be  *)
(* the one it returns.                                                       *)
InSeries(s) == {p \in Jobs : snapshots[p] # None /\ snapshots[p].series = s}

FindPrevious(j) ==
  LET found == InSeries(payload[j].series) IN
  /\ Awaits(j, "previous")
  /\ \E p \in IF found = {} THEN {None} ELSE found :
       Arrived(j, "previous", [handler[j] EXCEPT !.previous = p])
  /\ UNCHANGED <<cache, fetch, rows, faults>>

ReadFails(j) ==
  /\ Awaits(j, "positions") \/ Awaits(j, "previous")
  /\ Fault /\ Throws(j)
  /\ UNCHANGED <<payload, cache, fetch, rows>>

(* A provider answers a call of getRates: the rates are cached, and the run  *)
(* that made the call goes on, unless Promise.all has rejected meanwhile.    *)
IsCurrent(j, a) == attempts[j] = a /\ Awaits(j, "rates")

ProviderAnswersLost(j, a) ==  \* mutant: getRates caches the rates and returns nothing
  /\ Rates!Answer(<<j, a>>)
  /\ \/ IsCurrent(j, a) /\ Arrived(j, "rates", handler[j])
     \/ ~IsCurrent(j, a) /\ UNCHANGED <<queueVars, payload, handler>>
  /\ UNCHANGED <<rows, faults>>

ProviderAnswers(j, a) ==
  /\ Rates!Answer(<<j, a>>)
  /\ \/ /\ IsCurrent(j, a)
        /\ Arrived(j, "rates", [handler[j] EXCEPT !.rates = fetch[<<j, a>>].provider])
     \/ ~IsCurrent(j, a) /\ UNCHANGED <<queueVars, payload, handler>>
  /\ UNCHANGED <<rows, faults>>

ProviderFailsQuietly(j, a) ==  \* mutant: what GiveUp throws reaches no caller, who waits on
  /\ Fault
  /\ Rates!AskNext(<<j, a>>) \/ Rates!GiveUp(<<j, a>>)
  /\ UNCHANGED <<queueVars, handler, payload, rows>>

ProviderFails(j, a) ==
  /\ Fault
  /\ \/ Rates!AskNext(<<j, a>>) /\ UNCHANGED <<queueVars, handler>>
     \/ /\ Rates!GiveUp(<<j, a>>)
        /\ \/ IsCurrent(j, a) /\ Throws(j)
           \/ ~IsCurrent(j, a) /\ UNCHANGED <<queueVars, handler>>
  /\ UNCHANGED <<payload, rows>>

(* UNIQUE (user_id, snapshot_date, snapshot_type) *)
Taken(j) == \E p \in InSeries(payload[j].series) : snapshots[p].date = payload[j].date

UpsertSnapshot(j) ==  \* mutant: ON CONFLICT DO UPDATE, so that a retry finds its row
  snapshots' = [snapshots EXCEPT ![j] =
    [series |-> payload[j].series, date |-> payload[j].date, rates |-> handler[j].rates]]

InsertSnapshot(j) ==
  /\ ~Taken(j)
  /\ snapshots' = [snapshots EXCEPT ![j] =
       [series |-> payload[j].series, date |-> payload[j].date, rates |-> handler[j].rates]]

CreateSnapshotOnly(j) ==  \* mutant: the handler does not await createDiff
  /\ At(j, "createSnapshot") /\ InsertSnapshot(j) /\ Returns(j)
  /\ UNCHANGED <<payload, cache, fetch, diffs, faults>>

CreateSnapshot(j) ==
  /\ At(j, "createSnapshot") /\ InsertSnapshot(j)
  /\ handler' = [handler EXCEPT ![j].pc = "createDiff"]
  /\ UNCHANGED <<queueVars, payload, cache, fetch, diffs, faults>>

(* The INSERT meets the constraint, or it fails, or it is done but its answer *)
(* is lost.                                                                   *)
CreateSnapshotFails(j) ==
  /\ At(j, "createSnapshot") /\ Throws(j)
  /\ \/ Taken(j) /\ UNCHANGED <<snapshots, faults>>
     \/ Fault /\ UNCHANGED snapshots
     \/ Fault /\ InsertSnapshot(j)
  /\ UNCHANGED <<payload, cache, fetch, diffs>>

InsertDiff(j) == diffs' = [diffs EXCEPT ![j] = [previous |-> handler[j].previous]]

CreateDiff(j) ==
  /\ At(j, "createDiff") /\ InsertDiff(j) /\ Returns(j)
  /\ UNCHANGED <<payload, cache, fetch, snapshots, faults>>

CreateDiffFails(j) ==
  /\ At(j, "createDiff") /\ Fault /\ Throws(j)
  /\ UNCHANGED diffs \/ InsertDiff(j)
  /\ UNCHANGED <<payload, cache, fetch, snapshots>>

Reading(j)  == GetPositions(j) \/ FindPrevious(j) \/ ReadFails(j)
Fetching(j, a) == ProviderAnswers(j, a) \/ ProviderFails(j, a)
Creating(j) == CreateSnapshot(j) \/ CreateSnapshotFails(j)
Diffing(j)  == CreateDiff(j) \/ CreateDiffFails(j)

Next ==
  \/ \E j \in Jobs : Trigger(j) \/ Reading(j) \/ Creating(j) \/ Diffing(j)
  \/ \E w \in Runners : Start(w) \/ Stop(w)
  \/ \E j \in Jobs, a \in 1..MaxAttempts : Fetching(j, a)

(* Node resumes a runner whose handler has settled, and every call of another *)
(* service settles.  Nobody is bound to call runPending or the trigger.       *)
Loops(w) == runner[w] = "looping" /\ (Start(w) \/ Stop(w))

Fairness ==
  /\ \A w \in Runners : WF_vars(Loops(w))
  /\ \A j \in Jobs :
       /\ WF_vars(GetPositions(j) \/ ReadFails(j)) /\ WF_vars(FindPrevious(j) \/ ReadFails(j))
       /\ WF_vars(Creating(j)) /\ WF_vars(Diffing(j))
  /\ \A j \in Jobs, a \in 1..MaxAttempts : WF_vars(Fetching(j, a))

Spec == Init /\ [][Next]_vars /\ Fairness
-----------------------------------------------------------------------------
TypeOK ==
  /\ enqueued \subseteq Jobs /\ pending \in Seq(Jobs) /\ deadLetter \in Seq(Jobs)
  /\ attempts \in [Jobs -> 0..MaxAttempts] /\ completed \in Nat
  /\ runner \in [Runners -> Jobs \cup {"idle", "looping"}]
  /\ payload \in [Jobs -> Payload \cup {None}]
  /\ handler \in [Jobs -> Handler]
  /\ cache \in [Dates -> 1..Providers \cup {None}]
  /\ fetch \in [Jobs \X (1..MaxAttempts) -> [date : Dates, provider : 1..Providers] \cup {None}]
  /\ snapshots \in [Jobs -> Snapshot \cup {None}]
  /\ diffs \in [Jobs -> Diff \cup {None}]
  /\ faults \in 0..MaxFaults

(* A job that the queue counts as completed has stored its snapshot, under its *)
(* own payload, and the diff: snapshotProcessor.js:44-73 under the retries of  *)
(* queue.js.                                                                   *)
CompletedJobsStored ==
  \A j \in Done :
    /\ snapshots[j] # None /\ diffs[j] # None
    /\ snapshots[j].series = payload[j].series /\ snapshots[j].date = payload[j].date

(* A diff compares its snapshot with an earlier one of the same user and type: *)
(* following the baselines ends, although a retried job may find the row that  *)
(* its own earlier run has left and that other jobs have used as a baseline    *)
(* since: snapshotProcessor.js:34, 59-61 and the UNIQUE constraint.            *)
BaselinesPrecede ==
  /\ \A j \in Jobs : diffs[j] # None =>
       /\ snapshots[j] # None
       /\ diffs[j].previous # None =>
            /\ snapshots[diffs[j].previous] # None
            /\ snapshots[diffs[j].previous].series = snapshots[j].series
  /\ \A S \in (SUBSET Jobs) \ {{}} :
       \E j \in S : diffs[j] = None \/ diffs[j].previous \notin S

(* A job is given up for a reason that lasts: calls failed in every one of its *)
(* runs, or a snapshot of its user, type and date is already there.            *)
DeathHasCause ==
  \A j \in Elems(deadLetter) : faults < MaxAttempts => Taken(j)

(* Once a job has been run it ends, whoever shifts it: the loop that rejected  *)
(* it, or another one.                                                         *)
StartedJobsEnd ==
  \A j \in Jobs : attempts[j] > 0 ~> Outcome(j) \in {"completed", "dead"}
=============================================================================
