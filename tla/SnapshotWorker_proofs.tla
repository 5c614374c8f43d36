------------------------- MODULE SnapshotWorker_proofs -------------------------
(***************************************************************************)
(* Whatever the handlers of the snapshot worker do, they use the queue as  *)
(* InMemoryQueue lets them: every step of SnapshotWorker is a step of      *)
(* JobQueue or leaves the queue alone.  Hence what JobQueue_proofs proves  *)
(* of the queue holds of the worker.  What is true of the worker itself    *)
(* follows: WorkerInv, of a job, its handler and its rows; BaseInv, of the *)
(* rows that diffs are compared with; RunsAwait, of what a run waits for,  *)
(* with the budget that its steps use up; and Fallback, of the rates.      *)
(***************************************************************************)
EXTENDS SnapshotWorker, JobQueue_proofs

(* A handler that settles lets its runner take a step of the queue.         *)
LEMMA SettlesQueue ==
  ASSUME NEW j \in Jobs
  PROVE  Returns(j) \/ Throws(j) => QueueNext
BY DEF Returns, Throws, QueueNext

(* Every step of the worker is one of the queue, or is none of its business. *)
LEMMA StepsOfQueue ==
  ASSUME [Next]_vars
  PROVE  [QueueNext]_queueVars
<1>1. ASSUME NEW j \in Jobs, Trigger(j) PROVE QueueNext
  BY <1>1 DEF Trigger, QueueNext
<1>2. ASSUME NEW j \in Jobs, Reading(j) PROVE [QueueNext]_queueVars
  BY <1>2, SettlesQueue DEF Reading, GetPositions, FindPrevious, ReadFails, Arrived
<1>3. ASSUME NEW j \in Jobs, Creating(j) PROVE [QueueNext]_queueVars
  BY <1>3, SettlesQueue DEF Creating, CreateSnapshot, CreateSnapshotFails
<1>4. ASSUME NEW j \in Jobs, Diffing(j) PROVE [QueueNext]_queueVars
  BY <1>4, SettlesQueue DEF Diffing, CreateDiff, CreateDiffFails
<1>5. ASSUME NEW w \in Runners, Start(w) PROVE QueueNext
  BY <1>5 DEF Start, QueueNext
<1>6. ASSUME NEW w \in Runners, Stop(w) PROVE QueueNext
  BY <1>6 DEF Stop, QueueNext
<1>7. ASSUME NEW j \in Jobs, NEW a \in 1..MaxAttempts, Fetching(j, a)
      PROVE  [QueueNext]_queueVars
  BY <1>7, SettlesQueue DEF Fetching, ProviderAnswers, ProviderFails, Arrived
<1>8. ASSUME UNCHANGED vars PROVE UNCHANGED queueVars
  BY <1>8 DEF vars
<1> QED
  BY <1>1, <1>2, <1>3, <1>4, <1>5, <1>6, <1>7, <1>8 DEF Next

(* The invariant of the queue holds of the worker: queue.js:12-42 with any     *)
(* handlers of snapshotProcessor.js.                                           *)
THEOREM QueueInvariance == Spec => []QueueInv
<1>1. Init => QueueInv
  BY QueueInitInv, QueueAssumption DEF Init
<1>2. QueueInv /\ [Next]_vars => QueueInv'
  BY StepsOfQueue, QueueNextInv, QueueAssumption
<1> QED
  BY <1>1, <1>2, PTL DEF Spec

(* A job is in one place, however many runPending calls overlap.               *)
THEOREM JobsInOnePlace == Spec => []OnePlace
<1>1. QueueInv => OnePlace
  BY DEF QueueInv
<1> QED
  BY <1>1, QueueInvariance, PTL

(* stats.completed counts every job that has left the queue alive, once.       *)
THEOREM NoJobLost == Spec => []CompletionsCounted
<1>1. QueueInv => CompletionsCounted
  BY DEF QueueInv
<1> QED
  BY <1>1, QueueInvariance, PTL

(* A job pushed for a retry has a loop that will come to it.                   *)
THEOREM RetriesHaveRunner == Spec => []RetryNotStranded
<1>1. QueueInv => RetryNotStranded
  BY DEF QueueInv
<1> QED
  BY <1>1, QueueInvariance, PTL

(* The queue of the worker implements the abstract ledger: a job ends once,    *)
(* after at most MaxAttempts runs.                                             *)
THEOREM QueueRefinesLedger == Spec => ImplementsLedger
<1>1. Init => QueueInv /\ Ledger!Init
  BY QueueInitInv, QueueAssumption DEF Init
<1>2. QueueInv /\ [Next]_vars => [Ledger!Next]_Ledger!ledgerVars
  BY StepsOfQueue, QueueNextInv, QueueAssumption
<1> QED
  BY <1>1, <1>2, QueueInvariance, PTL DEF Spec, ImplementsLedger, Ledger!Spec
-----------------------------------------------------------------------------
(* What is true of a job and of the rows it has written, at every await of  *)
(* its handler and between its runs.                                        *)
WorkerTypes ==
  /\ payload \in [Jobs -> Payload \cup {None}]
  /\ handler \in [Jobs -> Handler]
  /\ cache \in [Dates -> 1..Providers \cup {None}]
  /\ fetch \in [Jobs \X (1..MaxAttempts) -> [date : Dates, provider : 1..Providers] \cup {None}]
  /\ snapshots \in [Jobs -> Snapshot \cup {None}]
  /\ diffs \in [Jobs -> Diff \cup {None}]
  /\ faults \in 0..MaxFaults

HandlerOK(j) ==
  /\ handler[j].pc # "idle" <=> Running(j)
  /\ "rates" \notin handler[j].awaits /\ Running(j) => handler[j].rates # None
  /\ handler[j].pc = "createSnapshot" => handler[j].awaits = {}
  /\ handler[j].pc = "createDiff" => snapshots[j] # None

RowOK(j) ==
  /\ j \in enqueued => payload[j] # None
  /\ snapshots[j] # None => /\ j \in enqueued
                           /\ snapshots[j].series = payload[j].series
                           /\ snapshots[j].date = payload[j].date
  /\ Outcome(j) = "completed" => snapshots[j] # None /\ diffs[j] # None

(* A run of j that failed met a fault, or a row that will always be there.  *)
FailedRuns(j) == attempts[j] - (IF Running(j) THEN 1 ELSE 0)
CauseOK(j) == j \in enqueued => Taken(j) \/ FailedRuns(j) <= faults

JobOK(j) == HandlerOK(j) /\ RowOK(j) /\ CauseOK(j)

WorkerInv == QueueInv /\ WorkerTypes /\ \A j \in Jobs : JobOK(j)

(* Rows are never deleted or changed.                                       *)
RowsKept == \A p \in Jobs : snapshots[p] # None => snapshots'[p] = snapshots[p]

(* The queue has not touched job k.                                         *)
Untouched(k) ==
  /\ attempts'[k] = attempts[k]
  /\ Running(k)' <=> Running(k)
  /\ Outcome(k)' = Outcome(k)
  /\ k \in enqueued' <=> k \in enqueued
-----------------------------------------------------------------------------
(* A step that leaves the queue alone touches no job.                       *)
LEMMA QueueStill ==
  ASSUME UNCHANGED queueVars
  PROVE  \A k \in Jobs : Untouched(k)
BY DEF queueVars, Untouched, Running, Outcome

(* What a shift means for the job taken and for the others.                 *)
LEMMA ShiftEffect ==
  ASSUME QueueInv, NEW w \in Runners, NEW j \in Jobs, Shift(w, j)
  PROVE  /\ j \in enqueued /\ j \in enqueued' /\ ~Running(j) /\ Running(j)'
         /\ attempts[j] \in Nat /\ attempts'[j] = attempts[j] + 1
         /\ attempts[j] < MaxAttempts
         /\ Outcome(j)' = "accepted"
         /\ \A k \in Jobs \ {j} : Untouched(k)
<1>1. /\ runner[w] \in {"idle", "looping"} /\ runner' = [runner EXCEPT ![w] = j]
      /\ pending # <<>> /\ j = Head(pending)
      /\ attempts' = [attempts EXCEPT ![j] = @ + 1] /\ enqueued' = enqueued
  BY DEF Shift
<1>2. \A k \in Jobs : Running(k)' <=> Running(k) \/ k = j
  BY <1>1, RunnerTakes, QueueAssumption DEF QueueInv
<1>3. /\ Outcome(j) = "accepted" /\ attempts[j] < MaxAttempts
      /\ \A k \in Jobs : Outcome(k)' = Outcome(k)
  BY ShiftInv, QueueAssumption
<1>4. j \in Elems(pending)
  BY <1>1, TailElems DEF QueueInv, QueueTypes, OnePlace
<1>5. j \in enqueued /\ ~Running(j)
  BY <1>4, QueueAssumption DEF QueueInv, OnePlace, Running
<1>6. /\ attempts[j] \in Nat /\ attempts'[j] = attempts[j] + 1
      /\ \A k \in Jobs \ {j} : attempts'[k] = attempts[k]
  BY <1>1 DEF QueueInv, QueueTypes
<1> QED
  BY <1>1, <1>2, <1>3, <1>5, <1>6 DEF Untouched

(* What the end of a run means for its job and for the others.              *)
LEMMA SettleEffect ==
  ASSUME QueueInv, NEW j \in Jobs, Returns(j) \/ Throws(j)
  PROVE  /\ attempts' = attempts /\ enqueued' = enqueued /\ j \in enqueued
         /\ attempts[j] \in Nat /\ attempts[j] > 0
         /\ Running(j) /\ ~Running(j)'
         /\ handler' = [handler EXCEPT ![j] = Idle]
         /\ Throws(j) => Outcome(j)' # "completed"
         /\ \A k \in Jobs \ {j} : Untouched(k)
<1>1. PICK w \in Runners : Resolve(w, j) \/ Retry(w, j) \/ Bury(w, j)
  BY DEF Returns, Throws, Reject
<1>2. /\ runner[w] = j /\ runner' = [runner EXCEPT ![w] = "looping"]
      /\ attempts' = attempts /\ enqueued' = enqueued
  BY <1>1 DEF Resolve, Retry, Bury
<1>3. /\ \A k \in Jobs : Running(k)' <=> Running(k) /\ k # j
      /\ Running(j) /\ j \in enqueued
  BY <1>2, RunnerReturns, QueueAssumption DEF QueueInv
<1>4. \A k \in Jobs \ {j} : Outcome(k)' = Outcome(k)
  BY <1>1, ResolveInv, RetryInv, BuryInv, QueueAssumption
<1>5. attempts[j] \in Nat /\ attempts[j] > 0
  BY <1>3 DEF QueueInv, QueueTypes, AttemptsOK
<1>6. ASSUME Throws(j) PROVE Outcome(j)' # "completed"
  <2>1. PICK v \in Runners : Retry(v, j) \/ Bury(v, j)
    BY <1>6 DEF Throws, Reject
  <2>2. CASE Bury(v, j)
    BY <2>2, BuryInv, QueueAssumption
  <2>3. CASE Retry(v, j)
    <3>1. Outcome(j)' = Outcome(j) /\ QueueInv'
      BY <2>3, RetryInv, QueueAssumption
    <3>2. pending' = Append(pending, j)
      BY <2>3 DEF Retry
    <3>3. j \in Elems(pending')
      BY <3>2, AppendElems DEF QueueInv, QueueTypes
    <3>4. j \in enqueued' /\ j \notin Elems(deadLetter') /\ ~Running(j)'
      BY <1>2, <1>3, <3>1, <3>3 DEF QueueInv, OnePlace
    <3> QED BY <3>3, <3>4 DEF Outcome
  <2> QED BY <2>1, <2>2, <2>3
<1> QED
  BY <1>2, <1>3, <1>4, <1>5, <1>6 DEF Returns, Throws, Untouched

(* A job that a step does not concern keeps what is true of it: rows stay   *)
(* and faults only grow.                                                    *)
LEMMA StableJob ==
  ASSUME NEW k \in Jobs, JobOK(k), Untouched(k), RowsKept, WorkerTypes,
         handler'[k] = handler[k], payload'[k] = payload[k],
         snapshots'[k] = snapshots[k], diffs[k] # None => diffs'[k] # None,
         faults \in Nat, faults' \in Nat, faults <= faults', attempts[k] \in Nat
  PROVE  JobOK(k)'
<1>1. HandlerOK(k)'
  BY DEF JobOK, HandlerOK, Untouched
<1>2. RowOK(k)'
  BY DEF JobOK, RowOK, Untouched
<1>3. Taken(k) => Taken(k)'
  BY DEF Taken, InSeries, RowsKept
<1>4. FailedRuns(k)' = FailedRuns(k) /\ FailedRuns(k) \in Int
  BY DEF FailedRuns, Untouched
<1>5. CauseOK(k)'
  BY <1>3, <1>4 DEF JobOK, CauseOK, Untouched
<1> QED
  BY <1>1, <1>2, <1>5 DEF JobOK

(* Failed calls are counted in range.                                       *)
LEMMA FaultCount ==
  ASSUME WorkerTypes
  PROVE  /\ faults \in Nat /\ MaxFaults \in Nat
         /\ Fault => faults' = faults + 1 /\ faults' \in 0..MaxFaults
BY WorkerAssumption DEF WorkerTypes, Fault

(* A handler that is not under way.                                         *)
LEMMA IdleIsHandler == Idle \in Handler /\ Idle.pc = "idle" /\ Idle.awaits = {}
BY DEF Idle, Handler

(* A run of j that throws, for a cause that CauseOK knows.                  *)
LEMMA ThrowKeeps ==
  ASSUME WorkerInv, NEW j \in Jobs, Throws(j), UNCHANGED payload, RowsKept,
         \A k \in Jobs \ {j} : snapshots'[k] = snapshots[k],
         \A k \in Jobs : diffs[k] # None => diffs'[k] # None,
         snapshots'[j] # None => /\ snapshots'[j].series = payload[j].series
                                /\ snapshots'[j].date = payload[j].date,
         faults' \in Nat, faults <= faults', Taken(j)' \/ faults' = faults + 1
  PROVE  handler' \in [Jobs -> Handler] /\ \A k \in Jobs : JobOK(k)'
<1> USE DEF WorkerInv
<1>1. /\ attempts' = attempts /\ enqueued' = enqueued /\ j \in enqueued
      /\ attempts[j] \in Nat /\ attempts[j] > 0
      /\ Running(j) /\ ~Running(j)'
      /\ handler' = [handler EXCEPT ![j] = Idle]
      /\ Outcome(j)' # "completed"
      /\ \A k \in Jobs \ {j} : Untouched(k)
  BY SettleEffect
<1>2. /\ handler' \in [Jobs -> Handler] /\ handler'[j] = Idle
      /\ \A k \in Jobs \ {j} : handler'[k] = handler[k]
  BY <1>1, IdleIsHandler DEF WorkerTypes
<1>3. HandlerOK(j)'
  BY <1>1, <1>2, IdleIsHandler DEF HandlerOK
<1>4. RowOK(j)'
  BY <1>1 DEF JobOK, RowOK
<1>5. CauseOK(j)'
  <2>1. Taken(j) => Taken(j)'
    BY DEF Taken, InSeries, RowsKept
  <2>2. FailedRuns(j) = attempts[j] - 1 /\ FailedRuns(j)' = attempts[j]
    BY <1>1 DEF FailedRuns
  <2>3. Taken(j) \/ FailedRuns(j) <= faults
    BY <1>1 DEF JobOK, CauseOK
  <2> QED BY <1>1, <2>1, <2>2, <2>3, FaultCount DEF CauseOK
<1>6. ASSUME NEW k \in Jobs \ {j} PROVE JobOK(k)'
  <2>1. attempts[k] \in Nat
    BY DEF QueueInv, QueueTypes
  <2> QED BY <1>1, <1>2, <2>1, FaultCount, StableJob
<1> QED
  BY <1>2, <1>3, <1>4, <1>5, <1>6 DEF JobOK

(* A run of j that goes on: the queue is left alone.                        *)
LEMMA RunKeeps ==
  ASSUME WorkerInv, NEW j \in Jobs, UNCHANGED <<queueVars, payload, faults>>, RowsKept,
         NEW h \in Handler, handler' = [handler EXCEPT ![j] = h],
         h.pc # "idle" <=> Running(j),
         "rates" \notin h.awaits /\ Running(j) => h.rates # None,
         h.pc = "createSnapshot" => h.awaits = {},
         h.pc = "createDiff" => snapshots'[j] # None,
         \A k \in Jobs \ {j} : snapshots'[k] = snapshots[k],
         \A k \in Jobs : diffs[k] # None => diffs'[k] # None,
         snapshots'[j] # None => /\ j \in enqueued
                                /\ snapshots'[j].series = payload[j].series
                                /\ snapshots'[j].date = payload[j].date
  PROVE  handler' \in [Jobs -> Handler] /\ \A k \in Jobs : JobOK(k)'
<1> USE DEF WorkerInv
<1>1. \A k \in Jobs : Untouched(k)
  BY QueueStill
<1>2. /\ handler' \in [Jobs -> Handler] /\ handler'[j] = h
      /\ \A k \in Jobs \ {j} : handler'[k] = handler[k]
  BY DEF WorkerTypes
<1>3. HandlerOK(j)'
  BY <1>1, <1>2 DEF HandlerOK, Untouched
<1>4. RowOK(j)'
  BY <1>1 DEF JobOK, RowOK, Untouched, RowsKept
<1>5. CauseOK(j)'
  <2>1. Taken(j) => Taken(j)'
    BY DEF Taken, InSeries, RowsKept
  <2>2. FailedRuns(j)' = FailedRuns(j)
    BY <1>1 DEF FailedRuns, Untouched
  <2> QED BY <1>1, <2>1, <2>2 DEF JobOK, CauseOK, Untouched
<1>6. ASSUME NEW k \in Jobs \ {j} PROVE JobOK(k)'
  <2>1. attempts[k] \in Nat
    BY DEF QueueInv, QueueTypes
  <2> QED BY <1>1, <1>2, <2>1, FaultCount, StableJob
<1> QED
  BY <1>2, <1>3, <1>4, <1>5, <1>6 DEF JobOK
-----------------------------------------------------------------------------
(* The steps of a run, one lemma each.                                      *)
LEMMA TriggerKeeps ==
  ASSUME WorkerInv, NEW j \in Jobs, Trigger(j)
  PROVE  WorkerTypes' /\ \A k \in Jobs : JobOK(k)'
<1> USE DEF WorkerInv
<1>1. PICK p \in Payload : payload' = [payload EXCEPT ![j] = p]
  BY DEF Trigger
<1>2. /\ Enqueue(j) /\ UNCHANGED <<handler, cache, fetch, snapshots, diffs, faults>>
  BY DEF Trigger, rows
<1>3. /\ j \notin enqueued /\ enqueued' = enqueued \cup {j}
      /\ UNCHANGED <<attempts, runner>>
  BY <1>2 DEF Enqueue
<1>4. /\ payload' \in [Jobs -> Payload \cup {None}] /\ payload'[j] = p
      /\ \A k \in Jobs \ {j} : payload'[k] = payload[k]
  BY <1>1 DEF WorkerTypes
<1>5. WorkerTypes'
  BY <1>2, <1>4 DEF WorkerTypes
<1>6. /\ Outcome(j)' = "accepted" /\ \A k \in Jobs \ {j} : Outcome(k)' = Outcome(k)
  BY <1>2, EnqueueInv, QueueAssumption
<1>7. \A k \in Jobs \ {j} : Untouched(k)
  BY <1>3, <1>6 DEF Untouched, Running
<1>8. JobOK(j)'
  <2>1. Running(j)' <=> Running(j)
    BY <1>3 DEF Running
  <2>2. ~Running(j) /\ attempts[j] = 0
    BY <1>3, QueueAssumption DEF QueueInv, OnePlace, AttemptsOK, Running
  <2>3. p # None
    BY RowAssumption
  <2>4. snapshots'[j] = None
    BY <1>2, <1>3 DEF JobOK, RowOK
  <2>5. HandlerOK(j)'
    BY <1>2, <2>1 DEF JobOK, HandlerOK
  <2>6. RowOK(j)'
    BY <1>4, <1>6, <2>3, <2>4 DEF RowOK
  <2>7. CauseOK(j)'
    <3>0. attempts'[j] = 0 /\ ~Running(j)'
      BY <1>3, <2>1, <2>2
    <3>1. FailedRuns(j)' = 0
      <4>1. FailedRuns(j)' = attempts'[j] - 0
        BY <3>0 DEF FailedRuns
      <4> QED BY <3>0, <4>1
    <3>2. FailedRuns(j)' <= faults'
      BY <1>2, <3>1, FaultCount
    <3> QED BY <3>2 DEF CauseOK
  <2> QED BY <2>5, <2>6, <2>7 DEF JobOK
<1>9. ASSUME NEW k \in Jobs \ {j} PROVE JobOK(k)'
  <2>1. attempts[k] \in Nat /\ RowsKept
    BY <1>2 DEF QueueInv, QueueTypes, RowsKept
  <2> QED BY <1>2, <1>4, <1>7, <2>1, FaultCount, StableJob
<1> QED
  BY <1>5, <1>8, <1>9

(* A run begins with nothing read but cached rates.                         *)
LEMMA StartKeeps ==
  ASSUME WorkerInv, NEW w \in Runners, Start(w)
  PROVE  WorkerTypes' /\ \A k \in Jobs : JobOK(k)'
<1> USE DEF WorkerInv
<1>1. PICK j \in Jobs : /\ Shift(w, j)
                       /\ \/ /\ Rates!Hit(payload[j].date)
                             /\ handler' = [handler EXCEPT ![j] =
                                  [Idle EXCEPT !.pc = "reads", !.awaits = Reads \ {"rates"},
                                               !.rates = cache[payload[j].date]]]
                             /\ UNCHANGED <<cache, fetch>>
                          \/ /\ Rates!Miss(payload[j].date)
                             /\ handler' = [handler EXCEPT ![j] =
                                  [Idle EXCEPT !.pc = "reads", !.awaits = Reads]]
                             /\ Rates!AskFirst(<<j, attempts[j] + 1>>, payload[j].date)
                       /\ UNCHANGED <<payload, snapshots, diffs, faults>>
  BY DEF Start, rows
<1>2. /\ j \in enqueued /\ j \in enqueued' /\ ~Running(j) /\ Running(j)'
      /\ attempts[j] \in Nat /\ attempts'[j] = attempts[j] + 1 /\ attempts[j] < MaxAttempts
      /\ Outcome(j)' = "accepted"
      /\ \A k \in Jobs \ {j} : Untouched(k)
  BY <1>1, ShiftEffect
<1>3. payload[j] \in Payload /\ payload[j].date \in Dates
  BY <1>2 DEF JobOK, RowOK, WorkerTypes, Payload
<1>4. PICK h \in Handler :
        /\ handler' = [handler EXCEPT ![j] = h]
        /\ h.pc = "reads"
        /\ "rates" \notin h.awaits => h.rates # None
  <2>1. CASE Rates!Hit(payload[j].date)
    <3> DEFINE h == [Idle EXCEPT !.pc = "reads", !.awaits = Reads \ {"rates"},
                                 !.rates = cache[payload[j].date]]
    <3>1. cache[payload[j].date] \in 1..Providers /\ cache[payload[j].date] # None
      BY <1>3, <2>1 DEF Rates!Hit, WorkerTypes
    <3>2. h \in Handler /\ h.pc = "reads" /\ h.rates # None
      BY <3>1 DEF Idle, Handler, Reads
    <3>3. handler' = [handler EXCEPT ![j] = h]
      BY <1>1, <2>1 DEF Rates!Hit, Rates!Miss
    <3> QED BY <3>2, <3>3
  <2>2. CASE Rates!Miss(payload[j].date)
    <3> DEFINE h == [Idle EXCEPT !.pc = "reads", !.awaits = Reads]
    <3>1. h \in Handler /\ h.pc = "reads" /\ "rates" \in h.awaits
      BY DEF Idle, Handler, Reads
    <3>2. handler' = [handler EXCEPT ![j] = h]
      BY <1>1, <2>2 DEF Rates!Hit, Rates!Miss
    <3> QED BY <3>1, <3>2
  <2> QED BY <1>1, <2>1, <2>2
<1>5. /\ handler' \in [Jobs -> Handler] /\ handler'[j] = h
      /\ \A k \in Jobs \ {j} : handler'[k] = handler[k]
  BY <1>4 DEF WorkerTypes
<1>6. /\ cache' \in [Dates -> 1..Providers \cup {None}]
      /\ fetch' \in [Jobs \X (1..MaxAttempts) -> [date : Dates, provider : 1..Providers] \cup {None}]
  <2>1. CASE UNCHANGED <<cache, fetch>>
    BY <2>1 DEF WorkerTypes
  <2>2. CASE Rates!AskFirst(<<j, attempts[j] + 1>>, payload[j].date)
    <3>1. /\ fetch' = [fetch EXCEPT ![<<j, attempts[j] + 1>>] =
                        [date |-> payload[j].date, provider |-> 1]]
          /\ cache' = cache
      BY <2>2 DEF Rates!AskFirst
    <3>2. [date |-> payload[j].date, provider |-> 1] \in [date : Dates, provider : 1..Providers]
      BY <1>3, WorkerAssumption
    <3> QED BY <3>1, <3>2 DEF WorkerTypes
  <2> QED BY <1>1, <2>1, <2>2
<1>7. WorkerTypes'
  BY <1>1, <1>5, <1>6 DEF WorkerTypes
<1>8. HandlerOK(j)'
  BY <1>2, <1>4, <1>5 DEF HandlerOK
<1>9. RowOK(j)'
  BY <1>1, <1>2 DEF JobOK, RowOK
<1>10. CauseOK(j)'
  <2>1. Taken(j) <=> Taken(j)'
    BY <1>1 DEF Taken, InSeries
  <2>2. FailedRuns(j) = attempts[j] - 0 /\ FailedRuns(j)' = attempts'[j] - 1
    BY <1>2 DEF FailedRuns
  <2>3. FailedRuns(j)' = FailedRuns(j)
    BY <1>2, <2>2
  <2> QED BY <1>1, <1>2, <2>1, <2>3 DEF JobOK, CauseOK
<1>11. ASSUME NEW k \in Jobs \ {j} PROVE JobOK(k)'
  <2>1. attempts[k] \in Nat /\ RowsKept
    BY <1>1 DEF QueueInv, QueueTypes, RowsKept
  <2> QED BY <1>1, <1>2, <1>5, <2>1, FaultCount, StableJob
<1> QED
  BY <1>7, <1>8, <1>9, <1>10, <1>11 DEF JobOK

(* A read arrives at a run that awaits it, with the locals it has set.      *)
LEMMA ArrivedKeeps ==
  ASSUME WorkerInv, NEW j \in Jobs, NEW read \in Reads, NEW locals \in Handler,
         Awaits(j, read), Arrived(j, read, locals),
         UNCHANGED <<snapshots, diffs, faults>>,
         locals.pc = "reads", locals.awaits = handler[j].awaits,
         read = "rates" \/ locals.rates = handler[j].rates,
         read = "rates" => locals.rates # None
  PROVE  handler' \in [Jobs -> Handler] /\ \A k \in Jobs : JobOK(k)'
<1> USE DEF WorkerInv
<1> DEFINE left == locals.awaits \ {read}
           h == [locals EXCEPT !.awaits = left,
                               !.pc = IF left = {} THEN "createSnapshot" ELSE @]
<1>1. handler' = [handler EXCEPT ![j] = h] /\ UNCHANGED <<queueVars, payload>>
  BY DEF Arrived
<1>2. /\ h \in Handler /\ h.awaits = left /\ h.rates = locals.rates
      /\ h.pc \in {"reads", "createSnapshot"}
      /\ h.pc = "createSnapshot" => left = {}
  BY DEF Handler
<1>3. Running(j) /\ ("rates" \notin handler[j].awaits => handler[j].rates # None)
  BY DEF JobOK, HandlerOK, Awaits, At
<1>4. "rates" \notin left => h.rates # None
  BY <1>2, <1>3
<1>5. RowsKept /\ \A k \in Jobs \ {j} : snapshots'[k] = snapshots[k]
  BY DEF RowsKept
<1>6. snapshots'[j] # None => /\ j \in enqueued
                              /\ snapshots'[j].series = payload[j].series
                              /\ snapshots'[j].date = payload[j].date
  BY DEF JobOK, RowOK
<1> HIDE DEF h, left
<1> QED
  BY <1>1, <1>2, <1>3, <1>4, <1>5, <1>6, RunKeeps

(* The reads of positions and of the previous snapshot.                     *)
LEMMA ReadingKeeps ==
  ASSUME WorkerInv, NEW j \in Jobs, Reading(j)
  PROVE  WorkerTypes' /\ \A k \in Jobs : JobOK(k)'
<1> USE DEF WorkerInv
<1>0. handler[j] \in Handler
  BY DEF WorkerTypes
<1>1. CASE GetPositions(j)
  <2>1. /\ Awaits(j, "positions") /\ Arrived(j, "positions", handler[j])
        /\ UNCHANGED <<payload, cache, fetch, snapshots, diffs, faults>>
    BY <1>1 DEF GetPositions, Arrived, rows
  <2>2. handler' \in [Jobs -> Handler] /\ \A k \in Jobs : JobOK(k)'
    BY <1>0, <2>1, ArrivedKeeps DEF Reads, Awaits, At
  <2> QED BY <2>1, <2>2 DEF WorkerTypes
<1>2. CASE FindPrevious(j)
  <2>1. PICK p \in Jobs \cup {None} :
             Arrived(j, "previous", [handler[j] EXCEPT !.previous = p])
    BY <1>2 DEF FindPrevious, InSeries
  <2>2. /\ Awaits(j, "previous")
        /\ UNCHANGED <<payload, cache, fetch, snapshots, diffs, faults>>
    BY <1>2, <2>1 DEF FindPrevious, Arrived, rows
  <2>3. /\ [handler[j] EXCEPT !.previous = p] \in Handler
        /\ [handler[j] EXCEPT !.previous = p].pc = "reads"
        /\ [handler[j] EXCEPT !.previous = p].awaits = handler[j].awaits
        /\ [handler[j] EXCEPT !.previous = p].rates = handler[j].rates
    BY <1>0, <2>2 DEF Handler, Awaits, At
  <2>4. handler' \in [Jobs -> Handler] /\ \A k \in Jobs : JobOK(k)'
    BY <2>1, <2>2, <2>3, ArrivedKeeps DEF Reads
  <2> QED BY <2>2, <2>4 DEF WorkerTypes
<1>3. CASE ReadFails(j)
  <2>1. /\ Fault /\ Throws(j) /\ UNCHANGED <<payload, cache, fetch, snapshots, diffs>>
    BY <1>3 DEF ReadFails, rows
  <2>2. /\ faults \in Nat /\ faults' = faults + 1 /\ faults' \in 0..MaxFaults
        /\ faults' \in Nat /\ faults <= faults'
    BY <2>1, FaultCount
  <2>3. snapshots'[j] # None => /\ snapshots'[j].series = payload[j].series
                                /\ snapshots'[j].date = payload[j].date
    BY <2>1 DEF JobOK, RowOK
  <2>4. RowsKept
    BY <2>1 DEF RowsKept
  <2>5. handler' \in [Jobs -> Handler] /\ \A k \in Jobs : JobOK(k)'
    BY <2>1, <2>2, <2>3, <2>4, ThrowKeeps
  <2> QED BY <2>1, <2>2, <2>5 DEF WorkerTypes
<1> QED
  BY <1>1, <1>2, <1>3 DEF Reading

(* A job whose handler and rows a step leaves alone, and the queue with it. *)
LEMMA StillKeeps ==
  ASSUME WorkerInv, UNCHANGED <<queueVars, payload, handler, snapshots, diffs>>,
         faults' \in Nat, faults <= faults'
  PROVE  \A k \in Jobs : JobOK(k)'
<1> USE DEF WorkerInv
<1>1. TAKE k \in Jobs
<1>2. Untouched(k) /\ RowsKept /\ attempts[k] \in Nat
  BY QueueStill DEF RowsKept, QueueInv, QueueTypes
<1> QED
  BY <1>2, FaultCount, StableJob

(* A call of getRates, of the current run or of one that was given up.      *)
LEMMA FetchingKeeps ==
  ASSUME WorkerInv, NEW j \in Jobs, NEW a \in 1..MaxAttempts, Fetching(j, a)
  PROVE  WorkerTypes' /\ \A k \in Jobs : JobOK(k)'
<1> USE DEF WorkerInv
<1> DEFINE c == <<j, a>>
<1>0. c \in Jobs \X (1..MaxAttempts) /\ handler[j] \in Handler
  BY DEF WorkerTypes
<1>1. fetch[c] # None => /\ fetch[c] \in [date : Dates, provider : 1..Providers]
                         /\ fetch[c].provider \in 1..Providers /\ fetch[c].date \in Dates
  BY <1>0 DEF WorkerTypes
<1> HIDE DEF c
<1>2. CASE ProviderAnswers(j, a)
  <2>1. /\ fetch[c] # None
        /\ cache' = [cache EXCEPT ![fetch[c].date] = fetch[c].provider]
        /\ fetch' = [fetch EXCEPT ![c] = None]
        /\ UNCHANGED <<snapshots, diffs, faults>>
    BY <1>2 DEF ProviderAnswers, Rates!Answer, rows, c
  <2>2. /\ cache' \in [Dates -> 1..Providers \cup {None}]
        /\ fetch' \in [Jobs \X (1..MaxAttempts) -> [date : Dates, provider : 1..Providers] \cup {None}]
    BY <1>0, <1>1, <2>1 DEF WorkerTypes
  <2>3. payload' = payload /\ handler' \in [Jobs -> Handler] /\ \A k \in Jobs : JobOK(k)'
    <3>1. CASE ~IsCurrent(j, a)
      <4>1. UNCHANGED <<queueVars, payload, handler>>
        BY <1>2, <3>1 DEF ProviderAnswers
      <4> QED BY <2>1, <4>1, StillKeeps, FaultCount DEF WorkerTypes
    <3>2. CASE IsCurrent(j, a)
      <4> DEFINE locals == [handler[j] EXCEPT !.rates = fetch[c].provider]
      <4>1. Arrived(j, "rates", locals) /\ Awaits(j, "rates")
        BY <1>2, <3>2 DEF ProviderAnswers, IsCurrent, c
      <4>2. /\ locals \in Handler /\ locals.pc = "reads"
            /\ locals.awaits = handler[j].awaits /\ locals.rates = fetch[c].provider
        BY <1>0, <1>1, <2>1, <4>1 DEF Handler, Awaits, At
      <4>3. locals.rates # None
        BY <1>1, <2>1, <4>2, WorkerAssumption
      <4>4. payload' = payload
        BY <4>1 DEF Arrived
      <4> HIDE DEF locals
      <4> QED BY <2>1, <4>1, <4>2, <4>3, <4>4, ArrivedKeeps DEF Reads
    <3> QED BY <3>1, <3>2
  <2> QED BY <2>1, <2>2, <2>3 DEF WorkerTypes
<1>3. CASE ProviderFails(j, a)
  <2>1. /\ Fault /\ UNCHANGED <<payload, snapshots, diffs>>
        /\ \/ Rates!AskNext(c) /\ UNCHANGED <<queueVars, handler>>
           \/ Rates!GiveUp(c) /\ (Throws(j) \/ UNCHANGED <<queueVars, handler>>)
    BY <1>3 DEF ProviderFails, rows, c
  <2>2. /\ faults \in Nat /\ faults' = faults + 1 /\ faults' \in 0..MaxFaults
        /\ faults' \in Nat /\ faults <= faults'
    BY <2>1, FaultCount
  <2>3. /\ cache' = cache
        /\ fetch' \in [Jobs \X (1..MaxAttempts) -> [date : Dates, provider : 1..Providers] \cup {None}]
    <3>1. CASE Rates!GiveUp(c)
      BY <1>0, <3>1 DEF Rates!GiveUp, WorkerTypes
    <3>2. CASE Rates!AskNext(c)
      <4>1. /\ fetch[c] # None /\ fetch[c].provider < Providers /\ cache' = cache
            /\ fetch' = [fetch EXCEPT ![c].provider = fetch[c].provider + 1]
        BY <3>2 DEF Rates!AskNext
      <4>2. [fetch[c] EXCEPT !.provider = fetch[c].provider + 1]
              \in [date : Dates, provider : 1..Providers]
        BY <1>1, <4>1, WorkerAssumption
      <4> QED BY <1>0, <4>1, <4>2 DEF WorkerTypes
    <3> QED BY <2>1, <3>1, <3>2
  <2>4. handler' \in [Jobs -> Handler] /\ \A k \in Jobs : JobOK(k)'
    <3>1. CASE Throws(j)
      <4>1. snapshots'[j] # None => /\ snapshots'[j].series = payload[j].series
                                    /\ snapshots'[j].date = payload[j].date
        BY <2>1 DEF JobOK, RowOK
      <4>2. RowsKept
        BY <2>1 DEF RowsKept
      <4> QED BY <2>1, <2>2, <3>1, <4>1, <4>2, ThrowKeeps
    <3>2. CASE UNCHANGED <<queueVars, handler>>
      BY <2>1, <2>2, <3>2, StillKeeps DEF WorkerTypes
    <3> QED BY <2>1, <3>1, <3>2
  <2> QED BY <2>1, <2>2, <2>3, <2>4 DEF WorkerTypes
<1> QED
  BY <1>2, <1>3 DEF Fetching

(* The row that j inserts is one of the table, and makes its key taken.     *)
LEMMA InsertedRow ==
  ASSUME WorkerInv, NEW j \in Jobs, At(j, "createSnapshot"), InsertSnapshot(j)
  PROVE  /\ snapshots' \in [Jobs -> Snapshot \cup {None}]
         /\ snapshots'[j] # None /\ j \in enqueued /\ RowsKept
         /\ snapshots'[j].series = payload[j].series /\ snapshots'[j].date = payload[j].date
         /\ \A k \in Jobs \ {j} : snapshots'[k] = snapshots[k]
         /\ payload' = payload => Taken(j)'
<1> USE DEF WorkerInv
<1> DEFINE row == [series |-> payload[j].series, date |-> payload[j].date,
                   rates |-> handler[j].rates]
<1>1. ~Taken(j) /\ snapshots' = [snapshots EXCEPT ![j] = row]
  BY DEF InsertSnapshot
<1>2. Running(j) /\ handler[j].rates \in 1..Providers /\ j \in enqueued
  <2>1. Running(j) /\ handler[j].rates # None
    BY DEF At, JobOK, HandlerOK
  <2>2. j \in enqueued
    BY <2>1, QueueAssumption DEF Running, QueueInv, OnePlace
  <2> QED BY <2>1, <2>2 DEF WorkerTypes, Handler
<1>3. payload[j] \in Payload
  BY <1>2 DEF JobOK, RowOK, WorkerTypes
<1>4. row \in Snapshot /\ row.series = payload[j].series /\ row.date = payload[j].date
  BY <1>2, <1>3 DEF Payload, Snapshot
<1>5. row # None
  BY <1>4, RowAssumption
<1> HIDE DEF row
<1>6. /\ snapshots' \in [Jobs -> Snapshot \cup {None}] /\ snapshots'[j] = row
      /\ \A k \in Jobs \ {j} : snapshots'[k] = snapshots[k]
  BY <1>1, <1>4 DEF WorkerTypes
<1>7. snapshots[j] = None
  BY <1>1 DEF JobOK, RowOK, Taken, InSeries
<1>8. RowsKept
  BY <1>6, <1>7 DEF RowsKept
<1>9. payload' = payload => Taken(j)'
  BY <1>4, <1>5, <1>6 DEF Taken, InSeries
<1> QED
  BY <1>2, <1>4, <1>5, <1>6, <1>8, <1>9

(* The INSERT of the snapshot, done, refused, failed or unanswered.         *)
LEMMA CreatingKeeps ==
  ASSUME WorkerInv, NEW j \in Jobs, Creating(j)
  PROVE  WorkerTypes' /\ \A k \in Jobs : JobOK(k)'
<1> USE DEF WorkerInv
<1>0. handler[j] \in Handler
  BY DEF WorkerTypes
<1>1. CASE CreateSnapshot(j)
  <2> DEFINE h == [handler[j] EXCEPT !.pc = "createDiff"]
  <2>1. /\ At(j, "createSnapshot") /\ InsertSnapshot(j)
        /\ handler' = [handler EXCEPT ![j] = h]
        /\ UNCHANGED <<queueVars, payload, cache, fetch, diffs, faults>>
    BY <1>1 DEF CreateSnapshot
  <2>2. /\ h \in Handler /\ h.pc = "createDiff" /\ h.rates = handler[j].rates
        /\ h.awaits = handler[j].awaits
    BY <1>0 DEF Handler
  <2>3. Running(j) /\ ("rates" \notin handler[j].awaits => handler[j].rates # None)
    BY <2>1 DEF At, JobOK, HandlerOK
  <2> HIDE DEF h
  <2>4. /\ snapshots' \in [Jobs -> Snapshot \cup {None}]
        /\ snapshots'[j] # None /\ j \in enqueued /\ RowsKept
        /\ snapshots'[j].series = payload[j].series /\ snapshots'[j].date = payload[j].date
        /\ \A k \in Jobs \ {j} : snapshots'[k] = snapshots[k]
    BY <2>1, InsertedRow
  <2>5. handler' \in [Jobs -> Handler] /\ \A k \in Jobs : JobOK(k)'
    BY <2>1, <2>2, <2>3, <2>4, RunKeeps
  <2> QED BY <2>1, <2>4, <2>5 DEF WorkerTypes
<1>2. CASE CreateSnapshotFails(j)
  <2>1. /\ At(j, "createSnapshot") /\ Throws(j)
        /\ UNCHANGED <<payload, cache, fetch, diffs>>
        /\ \/ Taken(j) /\ UNCHANGED <<snapshots, faults>>
           \/ Fault /\ UNCHANGED snapshots
           \/ Fault /\ InsertSnapshot(j)
    BY <1>2 DEF CreateSnapshotFails
  <2>2. /\ faults \in Nat /\ faults' \in 0..MaxFaults /\ faults' \in Nat /\ faults <= faults'
        /\ Fault => faults' = faults + 1
    BY <2>1, FaultCount DEF WorkerTypes
  <2>3. /\ snapshots' \in [Jobs -> Snapshot \cup {None}] /\ RowsKept
        /\ snapshots'[j] # None => /\ snapshots'[j].series = payload[j].series
                                   /\ snapshots'[j].date = payload[j].date
        /\ \A k \in Jobs \ {j} : snapshots'[k] = snapshots[k]
    <3>1. CASE UNCHANGED snapshots
      BY <3>1 DEF WorkerTypes, RowsKept, JobOK, RowOK
    <3>2. CASE InsertSnapshot(j)
      BY <2>1, <3>2, InsertedRow
    <3> QED BY <2>1, <3>1, <3>2
  <2>4. Taken(j)' \/ faults' = faults + 1
    <3>1. CASE Taken(j) /\ UNCHANGED <<snapshots, faults>>
      BY <2>1, <3>1 DEF Taken, InSeries
    <3>2. CASE Fault
      BY <2>2, <3>2
    <3> QED BY <2>1, <3>1, <3>2
  <2>5. handler' \in [Jobs -> Handler] /\ \A k \in Jobs : JobOK(k)'
    BY <2>1, <2>2, <2>3, <2>4, ThrowKeeps
  <2> QED BY <2>1, <2>2, <2>3, <2>5 DEF WorkerTypes
<1> QED
  BY <1>1, <1>2 DEF Creating

(* The INSERT of the diff, after which the run is over.                     *)
LEMMA DiffingKeeps ==
  ASSUME WorkerInv, NEW j \in Jobs, Diffing(j)
  PROVE  WorkerTypes' /\ \A k \in Jobs : JobOK(k)'
<1> USE DEF WorkerInv
<1>0. /\ [previous |-> handler[j].previous] \in Diff
      /\ [previous |-> handler[j].previous] # None
  BY RowAssumption DEF WorkerTypes, Handler, Diff
<1>1. InsertDiff(j) => /\ diffs' \in [Jobs -> Diff \cup {None}] /\ diffs'[j] # None
                       /\ \A k \in Jobs : diffs[k] # None => diffs'[k] # None
  BY <1>0 DEF InsertDiff, WorkerTypes
<1>2. CASE CreateDiff(j)
  <2>1. /\ At(j, "createDiff") /\ Returns(j) /\ InsertDiff(j)
        /\ UNCHANGED <<payload, cache, fetch, snapshots, faults>>
    BY <1>2 DEF CreateDiff
  <2>2. /\ attempts' = attempts /\ enqueued' = enqueued /\ j \in enqueued
        /\ ~Running(j)' /\ handler' = [handler EXCEPT ![j] = Idle]
        /\ \A k \in Jobs \ {j} : Untouched(k)
    BY <2>1, SettleEffect
  <2>3. /\ handler' \in [Jobs -> Handler] /\ handler'[j] = Idle
        /\ \A k \in Jobs \ {j} : handler'[k] = handler[k]
    BY <2>2, IdleIsHandler DEF WorkerTypes
  <2>4. snapshots[j] # None
    BY <2>1 DEF At, JobOK, HandlerOK
  <2>5. HandlerOK(j)'
    BY <2>2, <2>3, IdleIsHandler DEF HandlerOK
  <2>6. RowOK(j)'
    BY <1>1, <2>1, <2>2, <2>4 DEF JobOK, RowOK
  <2>7. CauseOK(j)'
    BY <2>1, <2>4 DEF JobOK, RowOK, CauseOK, Taken, InSeries
  <2>8. ASSUME NEW k \in Jobs \ {j} PROVE JobOK(k)'
    <3>1. attempts[k] \in Nat /\ RowsKept
      BY <2>1 DEF QueueInv, QueueTypes, RowsKept
    <3> QED BY <1>1, <2>1, <2>2, <2>3, <3>1, FaultCount, StableJob
  <2> QED BY <1>1, <2>1, <2>3, <2>5, <2>6, <2>7, <2>8 DEF WorkerTypes, JobOK
<1>3. CASE CreateDiffFails(j)
  <2>1. /\ Fault /\ Throws(j) /\ UNCHANGED <<payload, cache, fetch, snapshots>>
        /\ UNCHANGED diffs \/ InsertDiff(j)
    BY <1>3 DEF CreateDiffFails
  <2>2. /\ faults \in Nat /\ faults' = faults + 1 /\ faults' \in 0..MaxFaults
        /\ faults' \in Nat /\ faults <= faults'
    BY <2>1, FaultCount
  <2>3. RowsKept /\ (snapshots'[j] # None => /\ snapshots'[j].series = payload[j].series
                                             /\ snapshots'[j].date = payload[j].date)
    BY <2>1 DEF JobOK, RowOK, RowsKept
  <2>4. /\ diffs' \in [Jobs -> Diff \cup {None}]
        /\ \A k \in Jobs : diffs[k] # None => diffs'[k] # None
    BY <1>1, <2>1 DEF WorkerTypes
  <2>5. handler' \in [Jobs -> Handler] /\ \A k \in Jobs : JobOK(k)'
    BY <2>1, <2>2, <2>3, <2>4, ThrowKeeps
  <2> QED BY <2>1, <2>2, <2>4, <2>5 DEF WorkerTypes
<1> QED
  BY <1>2, <1>3 DEF Diffing

(* A loop that ends has no handler under way.                               *)
LEMMA StopKeeps ==
  ASSUME WorkerInv, NEW w \in Runners, Stop(w)
  PROVE  WorkerTypes' /\ \A k \in Jobs : JobOK(k)'
<1> USE DEF WorkerInv
<1>1. LoopEnds(w) /\ UNCHANGED <<payload, handler, cache, fetch, snapshots, diffs, faults>>
  BY DEF Stop, rows
<1>2. WorkerTypes'
  BY <1>1 DEF WorkerTypes
<1>3. ASSUME NEW k \in Jobs PROVE JobOK(k)'
  <2>1. Running(k)' <=> Running(k)
    BY <1>1, QueueAssumption DEF LoopEnds, Running, QueueInv, QueueTypes
  <2>2. Untouched(k)
    BY <1>1, <2>1, LoopEndsInv, QueueAssumption DEF LoopEnds, Untouched
  <2>3. attempts[k] \in Nat /\ RowsKept
    BY <1>1 DEF QueueInv, QueueTypes, RowsKept
  <2> QED BY <1>1, <2>2, <2>3, FaultCount, StableJob
<1> QED
  BY <1>2, <1>3
-----------------------------------------------------------------------------
(* Nothing enqueued, stored or failed.                                      *)
LEMMA WorkerInitInv ==
  ASSUME Init
  PROVE  WorkerInv
<1>1. QueueInv
  BY QueueInitInv, QueueAssumption DEF Init
<1>2. WorkerTypes
  BY IdleIsHandler, WorkerAssumption DEF Init, WorkerTypes, Rates!RatesInit
<1>3. ASSUME NEW j \in Jobs PROVE JobOK(j)
  <2>1. /\ handler[j] = Idle /\ snapshots[j] = None /\ j \notin enqueued
        /\ runner = [w \in Runners |-> "idle"]
    BY <1>3 DEF Init, QueueInit
  <2>2. ~Running(j)
    BY <2>1, QueueAssumption DEF Running
  <2>3. Outcome(j) # "completed"
    <3>1. Elems(pending) = {} /\ Elems(deadLetter) = {}
      BY EmptyElems DEF Init, QueueInit
    <3> QED BY <2>1, <2>2, <3>1 DEF Outcome
  <2> QED BY <2>1, <2>2, <2>3, IdleIsHandler DEF JobOK, HandlerOK, RowOK, CauseOK
<1> QED
  BY <1>1, <1>2, <1>3 DEF WorkerInv

(* Every step keeps the invariant of the worker.                            *)
LEMMA WorkerNextInv ==
  ASSUME WorkerInv, [Next]_vars
  PROVE  WorkerInv'
<1>1. QueueInv'
  BY StepsOfQueue, QueueNextInv, QueueAssumption DEF WorkerInv
<1>2. ASSUME UNCHANGED vars PROVE WorkerTypes' /\ \A k \in Jobs : JobOK(k)'
  <2>1. /\ UNCHANGED <<queueVars, payload, handler, snapshots, diffs>>
        /\ UNCHANGED <<cache, fetch, faults>>
    BY <1>2 DEF vars, rows
  <2>2. WorkerTypes' /\ faults' \in Nat /\ faults <= faults'
    BY <2>1, FaultCount DEF WorkerInv, WorkerTypes
  <2> QED BY <2>1, <2>2, StillKeeps
<1>3. WorkerTypes' /\ \A k \in Jobs : JobOK(k)'
  BY <1>2, TriggerKeeps, ReadingKeeps, CreatingKeeps, DiffingKeeps, StartKeeps, StopKeeps,
     FetchingKeeps DEF Next
<1> QED
  BY <1>1, <1>3 DEF WorkerInv

(* The inductive invariant of the worker, for any jobs, runners, dates,        *)
(* providers and numbers of attempts and failures: snapshotProcessor.js:28-73. *)
THEOREM WorkerInvariance == Spec => []WorkerInv
BY WorkerInitInv, WorkerNextInv, PTL DEF Spec

(* Queue, handlers, caches and tables keep their types.                        *)
THEOREM WorkerTypeCorrect == Spec => []TypeOK
<1>1. WorkerInv => TypeOK
  BY DEF WorkerInv, WorkerTypes, QueueInv, QueueTypes, AttemptsOK, TypeOK
<1> QED
  BY <1>1, WorkerInvariance, PTL

(* A job counted as completed has stored its snapshot and the diff.            *)
THEOREM CompletedMeansStored == Spec => []CompletedJobsStored
<1>1. WorkerInv => CompletedJobsStored
  BY DEF WorkerInv, JobOK, RowOK, CompletedJobsStored, Done
<1> QED
  BY <1>1, WorkerInvariance, PTL

(* With fewer failures than attempts, a dead letter means that a snapshot of   *)
(* its user, type and date is there.                                           *)
THEOREM DeadLettersHaveCause == Spec => []DeathHasCause
<1>1. ASSUME WorkerInv, NEW j \in Elems(deadLetter), faults < MaxAttempts
      PROVE  Taken(j)
  <2>1. j \in Jobs /\ j \in enqueued /\ attempts[j] = MaxAttempts
    BY <1>1 DEF WorkerInv, QueueInv, QueueTypes, OnePlace, AttemptsOK
  <2>2. ~Running(j)
    BY <1>1, <2>1, QueueAssumption DEF WorkerInv, QueueInv, OnePlace, Running
  <2>3. FailedRuns(j) = attempts[j] - 0
    BY <2>2 DEF FailedRuns
  <2>4. FailedRuns(j) = MaxAttempts /\ faults \in Nat /\ MaxAttempts \in Nat
    BY <1>1, <2>1, <2>3, FaultCount, QueueAssumption DEF WorkerInv
  <2>5. Taken(j) \/ FailedRuns(j) <= faults
    BY <1>1, <2>1 DEF WorkerInv, JobOK, CauseOK
  <2> QED BY <1>1, <2>4, <2>5
<1>2. WorkerInv => DeathHasCause
  BY <1>1 DEF DeathHasCause
<1> QED
  BY <1>2, WorkerInvariance, PTL
-----------------------------------------------------------------------------
(* Baselines.  Base(j) is the row that the diff of j is compared with, from *)
(* the INSERT of the snapshot on; every base is a row stored before.        *)
Base(j) ==
  CASE diffs[j] # None -> diffs[j].previous
    [] diffs[j] = None /\ At(j, "createDiff") -> handler[j].previous
    [] OTHER -> None

BaseOK(j) ==
  /\ At(j, "idle") => handler[j].previous = None
  /\ handler[j].previous # None => handler[j].previous \in InSeries(payload[j].series)
  /\ diffs[j] # None =>
       /\ snapshots[j] # None
       /\ diffs[j].previous # None => diffs[j].previous \in InSeries(payload[j].series)
  /\ At(j, "createDiff") => diffs[j] = None

WellBased == \A S \in (SUBSET Jobs) \ {{}} : \E j \in S : Base(j) \notin S

BaseInv == WorkerInv /\ (\A j \in Jobs : BaseOK(j)) /\ WellBased

(* A base is a stored row. *)
LEMMA BaseStored ==
  ASSUME BaseInv, NEW j \in Jobs
  PROVE  Base(j) # None => Base(j) \in Jobs /\ snapshots[Base(j)] # None
BY DEF BaseInv, BaseOK, Base, InSeries

(* Forgetting bases does no harm. *)
LEMMA FewerBases ==
  ASSUME WellBased, \A k \in Jobs : Base(k)' = Base(k) \/ Base(k)' = None
  PROVE  WellBased'
<1>1. ASSUME NEW S \in (SUBSET Jobs) \ {{}} PROVE \E j \in S : Base(j)' \notin S
  <2>1. PICK j \in S : Base(j) \notin S
    BY DEF WellBased
  <2> QED BY <2>1, WorkerAssumption
<1> QED BY <1>1 DEF WellBased

(* A row that is nobody's base may have any other row for its base. *)
LEMMA NewBase ==
  ASSUME WellBased, NEW j \in Jobs, \A k \in Jobs : Base(k) # j,
         Base(j)' # j, \A k \in Jobs \ {j} : Base(k)' = Base(k)
  PROVE  WellBased'
<1>1. ASSUME NEW S \in (SUBSET Jobs) \ {{}} PROVE \E k \in S : Base(k)' \notin S
  <2>1. CASE j \notin S
    <3>1. PICK k \in S : Base(k) \notin S
      BY DEF WellBased
    <3> QED BY <2>1, <3>1
  <2>2. CASE S = {j}
    BY <2>2
  <2>3. CASE j \in S /\ S # {j}
    <3>1. S \ {j} \in (SUBSET Jobs) \ {{}}
      BY <2>3
    <3>2. PICK k \in S \ {j} : Base(k) \notin S \ {j}
      BY <3>1 DEF WellBased
    <3> QED BY <3>2
  <2> QED BY <2>1, <2>2, <2>3
<1> QED BY <1>1 DEF WellBased

(* A row of the series stays one. *)
LEMMA SeriesGrows ==
  ASSUME RowsKept, NEW s
  PROVE  InSeries(s) \subseteq InSeries(s)'
BY DEF RowsKept, InSeries

(* What a step leaves of a job it does not concern. *)
LEMMA SameBase ==
  ASSUME BaseInv, NEW k \in Jobs, RowsKept,
         handler'[k] = handler[k], payload'[k] = payload[k], diffs'[k] = diffs[k]
  PROVE  BaseOK(k)' /\ Base(k)' = Base(k)
<1>1. InSeries(payload[k].series) \subseteq InSeries(payload[k].series)'
  BY SeriesGrows
<1>2. snapshots[k] # None => snapshots'[k] # None
  BY DEF RowsKept
<1> QED BY <1>1, <1>2 DEF BaseInv, BaseOK, Base, At

(* Every step of a handler outside of createDiff: it reads, waits or throws. *)
LEMMA ReaderSteps ==
  ASSUME BaseInv, NEW j \in Jobs, RowsKept, UNCHANGED <<payload, diffs>>,
         NEW h \in Handler, handler' = [handler EXCEPT ![j] = h],
         h.pc # "createDiff", h.pc = "idle" => h.previous = None,
         h.previous \in {None, handler[j].previous} \cup InSeries(payload[j].series)
  PROVE  (\A k \in Jobs : BaseOK(k)') /\ WellBased'
<1>1. handler'[j] = h /\ \A k \in Jobs \ {j} : handler'[k] = handler[k]
  BY DEF BaseInv, WorkerInv, WorkerTypes
<1>2. \A k \in Jobs \ {j} : BaseOK(k)' /\ Base(k)' = Base(k)
  BY <1>1, SameBase
<1>3. InSeries(payload[j].series) \subseteq InSeries(payload[j].series)'
  BY SeriesGrows
<1>4. snapshots[j] # None => snapshots'[j] # None
  BY DEF RowsKept
<1>5. BaseOK(j)'
  BY <1>1, <1>3, <1>4 DEF BaseInv, BaseOK, At
<1>6. Base(j)' = Base(j) \/ Base(j)' = None
  BY <1>1 DEF Base, At
<1>7. WellBased'
  BY <1>2, <1>6, FewerBases DEF BaseInv
<1> QED BY <1>2, <1>5, <1>7

(* A run that throws or returns leaves no base behind but that of its diff. *)
LEMMA SettleBases ==
  ASSUME BaseInv, NEW j \in Jobs, Returns(j) \/ Throws(j), RowsKept,
         UNCHANGED <<payload, diffs>>
  PROVE  (\A k \in Jobs : BaseOK(k)') /\ WellBased'
<1>1. handler' = [handler EXCEPT ![j] = Idle]
  BY SettleEffect DEF BaseInv, WorkerInv
<1> QED
  BY <1>1, IdleIsHandler, ReaderSteps DEF Idle

(* A run begins with no previous snapshot.                                  *)
LEMMA StartBases ==
  ASSUME BaseInv, NEW w \in Runners, Start(w)
  PROVE  (\A k \in Jobs : BaseOK(k)') /\ WellBased'
<1>1. PICK j \in Jobs :
        \/ /\ Rates!Hit(payload[j].date) /\ Shift(w, j)
           /\ handler' = [handler EXCEPT ![j] =
                [Idle EXCEPT !.pc = "reads", !.awaits = Reads \ {"rates"},
                             !.rates = cache[payload[j].date]]]
        \/ handler' = [handler EXCEPT ![j] = [Idle EXCEPT !.pc = "reads", !.awaits = Reads]]
  BY DEF Start
<1>2. UNCHANGED <<payload, snapshots, diffs>> /\ RowsKept
  BY DEF Start, rows, RowsKept
<1>3. PICK h \in Handler : /\ handler' = [handler EXCEPT ![j] = h]
                           /\ h.pc = "reads" /\ h.previous = None
  <2>1. CASE handler' = [handler EXCEPT ![j] = [Idle EXCEPT !.pc = "reads", !.awaits = Reads]]
    <3>1. [Idle EXCEPT !.pc = "reads", !.awaits = Reads] \in Handler
      BY DEF Idle, Handler, Reads
    <3> QED BY <2>1, <3>1 DEF Idle
  <2>2. CASE /\ Rates!Hit(payload[j].date) /\ Shift(w, j)
             /\ handler' = [handler EXCEPT ![j] =
                  [Idle EXCEPT !.pc = "reads", !.awaits = Reads \ {"rates"},
                               !.rates = cache[payload[j].date]]]
    <3>1. payload[j].date \in Dates
      BY <2>2, ShiftEffect DEF BaseInv, WorkerInv, JobOK, RowOK, WorkerTypes, Payload
    <3>2. cache[payload[j].date] \in 1..Providers
      BY <2>2, <3>1 DEF Rates!Hit, BaseInv, WorkerInv, WorkerTypes
    <3>3. [Idle EXCEPT !.pc = "reads", !.awaits = Reads \ {"rates"},
                       !.rates = cache[payload[j].date]] \in Handler
      BY <3>2 DEF Idle, Handler, Reads
    <3> QED BY <2>2, <3>3 DEF Idle
  <2> QED BY <1>1, <2>1, <2>2
<1> QED
  BY <1>2, <1>3, ReaderSteps

(* The answer to one of the reads; only FindPrevious sets previous.         *)
LEMMA ArrivedBases ==
  ASSUME BaseInv, NEW j \in Jobs, NEW read \in Reads, NEW locals \in Handler,
         Arrived(j, read, locals), UNCHANGED rows, locals.pc = "reads",
         locals.previous \in {None, handler[j].previous} \cup InSeries(payload[j].series)
  PROVE  (\A k \in Jobs : BaseOK(k)') /\ WellBased'
<1> DEFINE left == locals.awaits \ {read}
           h == [locals EXCEPT !.awaits = left,
                               !.pc = IF left = {} THEN "createSnapshot" ELSE @]
<1>1. handler' = [handler EXCEPT ![j] = h] /\ UNCHANGED <<payload, snapshots, diffs>>
  BY DEF Arrived, rows
<1>2. /\ h \in Handler /\ h.previous = locals.previous
      /\ h.pc \in {"reads", "createSnapshot"}
  BY DEF Handler
<1>3. RowsKept
  BY <1>1 DEF RowsKept
<1> HIDE DEF h
<1> QED
  BY <1>1, <1>2, <1>3, ReaderSteps

(* FindPrevious reads a stored row of the series.                           *)
LEMMA ReadingBases ==
  ASSUME BaseInv, NEW j \in Jobs, Reading(j)
  PROVE  (\A k \in Jobs : BaseOK(k)') /\ WellBased'
<1>0. handler[j] \in Handler
  BY DEF BaseInv, WorkerInv, WorkerTypes
<1>1. CASE GetPositions(j)
  BY <1>0, <1>1, ArrivedBases DEF GetPositions, Awaits, At, Reads
<1>2. CASE FindPrevious(j)
  <2>1. PICK p \in InSeries(payload[j].series) \cup {None} :
             Arrived(j, "previous", [handler[j] EXCEPT !.previous = p])
    BY <1>2 DEF FindPrevious
  <2>2. p \in Jobs \cup {None} /\ handler[j].pc = "reads" /\ UNCHANGED rows
    BY <1>2 DEF InSeries, FindPrevious, Awaits, At
  <2>3. /\ [handler[j] EXCEPT !.previous = p] \in Handler
        /\ [handler[j] EXCEPT !.previous = p].pc = "reads"
        /\ [handler[j] EXCEPT !.previous = p].previous = p
    BY <1>0, <2>2 DEF Handler
  <2> QED BY <2>1, <2>2, <2>3, ArrivedBases DEF Reads
<1>3. CASE ReadFails(j)
  <2>1. Throws(j) /\ UNCHANGED <<payload, snapshots, diffs>> /\ RowsKept
    BY <1>3 DEF ReadFails, rows, RowsKept
  <2> QED BY <2>1, SettleBases
<1> QED
  BY <1>1, <1>2, <1>3 DEF Reading

(* A step of the queue or of getRates alone.                                *)
LEMMA StillBases ==
  ASSUME BaseInv, UNCHANGED <<payload, handler, snapshots, diffs>>
  PROVE  (\A k \in Jobs : BaseOK(k)') /\ WellBased'
<1>1. RowsKept
  BY DEF RowsKept
<1> QED
  BY <1>1, SameBase, FewerBases DEF BaseInv

(* Rates have no part in bases.                                             *)
LEMMA FetchingBases ==
  ASSUME BaseInv, NEW j \in Jobs, NEW a \in 1..MaxAttempts, Fetching(j, a)
  PROVE  (\A k \in Jobs : BaseOK(k)') /\ WellBased'
<1> DEFINE c == <<j, a>>
           locals == [handler[j] EXCEPT !.rates = fetch[c].provider]
<1>0. c \in Jobs \X (1..MaxAttempts) /\ handler[j] \in Handler
      /\ UNCHANGED <<rows, snapshots, diffs>> /\ RowsKept
  BY DEF BaseInv, WorkerInv, WorkerTypes, Fetching, ProviderAnswers, ProviderFails, rows, RowsKept
<1>1. ASSUME ProviderAnswers(j, a), IsCurrent(j, a), Arrived(j, "rates", locals)
      PROVE  (\A k \in Jobs : BaseOK(k)') /\ WellBased'
  <2>1. fetch[c] \in [date : Dates, provider : 1..Providers]
    BY <1>0, <1>1 DEF ProviderAnswers, Rates!Answer, BaseInv, WorkerInv, WorkerTypes
  <2>2. fetch[c].provider \in 1..Providers
    BY <2>1
  <2>3. locals \in Handler /\ locals.pc = "reads" /\ locals.previous = handler[j].previous
    BY <1>0, <1>1, <2>2 DEF IsCurrent, Awaits, At, Handler
  <2> HIDE DEF locals
  <2> QED BY <1>0, <1>1, <2>3, ArrivedBases DEF Reads
<1>2. CASE UNCHANGED <<payload, handler>>
  BY <1>0, <1>2, StillBases
<1>3. CASE Throws(j) /\ UNCHANGED payload
  BY <1>0, <1>3, SettleBases
<1>4. \/ ProviderAnswers(j, a) /\ IsCurrent(j, a) /\ Arrived(j, "rates", locals)
      \/ UNCHANGED <<payload, handler>>
      \/ Throws(j) /\ UNCHANGED payload
  BY DEF Fetching, ProviderAnswers, ProviderFails
<1> QED
  BY <1>1, <1>2, <1>3, <1>4

(* The INSERT of a snapshot gives its row a base: no row had it for a base  *)
(* before it was there.                                                     *)
LEMMA CreatingBases ==
  ASSUME BaseInv, NEW j \in Jobs, Creating(j)
  PROVE  (\A k \in Jobs : BaseOK(k)') /\ WellBased'
<1>1. UNCHANGED <<payload, diffs>> /\ (InsertSnapshot(j) \/ UNCHANGED snapshots)
      /\ At(j, "createSnapshot")
  BY DEF Creating, CreateSnapshot, CreateSnapshotFails
<1>2. RowsKept
  BY <1>1, InsertedRow DEF RowsKept, BaseInv
<1>3. CASE CreateSnapshotFails(j)
  BY <1>1, <1>2, <1>3, SettleBases DEF CreateSnapshotFails
<1>4. CASE CreateSnapshot(j)
  <2>1. InsertSnapshot(j) /\ handler' = [handler EXCEPT ![j].pc = "createDiff"]
    BY <1>4 DEF CreateSnapshot
  <2>2. /\ handler'[j].pc = "createDiff" /\ handler'[j].previous = handler[j].previous
        /\ \A k \in Jobs \ {j} : handler'[k] = handler[k]
    BY <2>1 DEF BaseInv, WorkerInv, WorkerTypes, Handler
  <2>3. snapshots[j] = None
    BY <2>1 DEF InsertSnapshot, Taken, InSeries, BaseInv, WorkerInv, JobOK, RowOK
  <2>4. diffs[j] = None /\ \A k \in Jobs : Base(k) # j
    BY <2>3, BaseStored, WorkerAssumption DEF BaseInv, BaseOK
  <2>5. ASSUME NEW k \in Jobs \ {j} PROVE BaseOK(k)' /\ Base(k)' = Base(k)
    <3>1. handler'[k] = handler[k] /\ payload'[k] = payload[k] /\ diffs'[k] = diffs[k]
      BY <1>1, <2>2
    <3> QED BY <1>2, <3>1, SameBase
  <2>6. InSeries(payload[j].series) \subseteq InSeries(payload[j].series)'
    BY <1>1, <1>2, SeriesGrows
  <2>7. BaseOK(j)'
    BY <1>1, <2>2, <2>4, <2>6 DEF BaseInv, BaseOK, At
  <2>8. Base(j)' = handler[j].previous
    BY <1>1, <2>2, <2>4 DEF Base, At
  <2>9. handler[j].previous # j
    BY <2>3, WorkerAssumption DEF BaseInv, BaseOK, InSeries
  <2>10. WellBased'
    BY <2>4, <2>5, <2>8, <2>9, NewBase DEF BaseInv
  <2> QED BY <2>5, <2>7, <2>10
<1> QED
  BY <1>3, <1>4 DEF Creating

(* The diff takes over the base that its handler held.                      *)
LEMMA DiffingBases ==
  ASSUME BaseInv, NEW j \in Jobs, Diffing(j)
  PROVE  (\A k \in Jobs : BaseOK(k)') /\ WellBased'
<1>1. /\ At(j, "createDiff") /\ (Returns(j) \/ Throws(j))
      /\ UNCHANGED <<payload, snapshots>> /\ (InsertDiff(j) \/ UNCHANGED diffs)
  BY DEF Diffing, CreateDiff, CreateDiffFails
<1>2. RowsKept
  BY <1>1 DEF RowsKept
<1>3. CASE UNCHANGED diffs
  BY <1>1, <1>2, <1>3, SettleBases
<1>4. CASE InsertDiff(j)
  <2>1. handler' = [handler EXCEPT ![j] = Idle]
    BY <1>1, SettleEffect DEF BaseInv, WorkerInv
  <2>2. handler'[j] = Idle /\ \A k \in Jobs \ {j} : handler'[k] = handler[k]
    BY <2>1 DEF BaseInv, WorkerInv, WorkerTypes
  <2>3. /\ diffs'[j] = [previous |-> handler[j].previous]
        /\ \A k \in Jobs \ {j} : diffs'[k] = diffs[k]
    BY <1>4 DEF InsertDiff, BaseInv, WorkerInv, WorkerTypes
  <2>4. [previous |-> handler[j].previous] \in Diff
    BY DEF BaseInv, WorkerInv, WorkerTypes, Handler, Diff
  <2>5. diffs'[j] # None /\ diffs'[j].previous = handler[j].previous
    BY <2>3, <2>4, RowAssumption
  <2>6. \A k \in Jobs \ {j} : BaseOK(k)' /\ Base(k)' = Base(k)
    BY <1>1, <1>2, <2>2, <2>3, SameBase
  <2>7. Base(j) = handler[j].previous /\ Base(j)' = handler[j].previous
    BY <1>1, <2>5 DEF Base, BaseInv, BaseOK
  <2>8. InSeries(payload[j].series)' = InSeries(payload[j].series)
    BY <1>1 DEF InSeries
  <2>9. snapshots[j] # None
    BY <1>1 DEF At, BaseInv, WorkerInv, JobOK, HandlerOK
  <2>10. BaseOK(j)'
    BY <1>1, <2>2, <2>5, <2>8, <2>9 DEF BaseInv, BaseOK, At, Idle
  <2>11. WellBased'
    BY <2>6, <2>7, FewerBases DEF BaseInv
  <2> QED BY <2>6, <2>10, <2>11
<1> QED
  BY <1>1, <1>3, <1>4

(* A job not yet enqueued has no row and no handler.                        *)
LEMMA TriggerBases ==
  ASSUME BaseInv, NEW j \in Jobs, Trigger(j)
  PROVE  (\A k \in Jobs : BaseOK(k)') /\ WellBased'
<1>1. /\ j \notin enqueued /\ UNCHANGED <<handler, snapshots, diffs>>
      /\ \A k \in Jobs \ {j} : payload'[k] = payload[k]
  BY DEF Trigger, Enqueue, rows, BaseInv, WorkerInv, WorkerTypes
<1>2. RowsKept
  BY <1>1 DEF RowsKept
<1>3. \A k \in Jobs \ {j} : BaseOK(k)'
  BY <1>1, <1>2, SameBase
<1>4. At(j, "idle")
  <2>1. ~Running(j)
    BY <1>1, QueueAssumption DEF Running, BaseInv, WorkerInv, QueueInv, OnePlace
  <2> QED BY <2>1 DEF At, BaseInv, WorkerInv, JobOK, HandlerOK
<1>5. snapshots[j] = None
  BY <1>1 DEF BaseInv, WorkerInv, JobOK, RowOK
<1>6. handler[j].previous = None /\ diffs[j] = None
  BY <1>4, <1>5 DEF BaseInv, BaseOK
<1>7. BaseOK(j)'
  BY <1>1, <1>4, <1>6 DEF BaseOK, At
<1>8. \A k \in Jobs : Base(k)' = Base(k)
  BY <1>1 DEF Base, At
<1> QED
  BY <1>3, <1>7, <1>8, FewerBases DEF BaseInv
-----------------------------------------------------------------------------
(* No diffs, no bases.                                                      *)
LEMMA BaseInitInv ==
  ASSUME Init
  PROVE  BaseInv
<1>1. \A j \in Jobs : handler[j] = Idle /\ diffs[j] = None
  BY DEF Init
<1>2. \A j \in Jobs : BaseOK(j) /\ Base(j) = None
  BY <1>1 DEF BaseOK, Base, At, Idle
<1>3. ASSUME NEW S \in (SUBSET Jobs) \ {{}} PROVE \E j \in S : Base(j) \notin S
  BY <1>2, WorkerAssumption
<1> QED
  BY <1>2, <1>3, WorkerInitInv DEF BaseInv, WellBased

(* Every step keeps the invariant of the baselines.                         *)
LEMMA BaseNextInv ==
  ASSUME BaseInv, [Next]_vars
  PROVE  BaseInv'
<1>1. WorkerInv'
  BY WorkerNextInv DEF BaseInv
<1>2. ASSUME NEW w \in Runners, Stop(w) PROVE (\A k \in Jobs : BaseOK(k)') /\ WellBased'
  BY <1>2, StillBases DEF Stop, rows
<1>3. ASSUME UNCHANGED vars PROVE (\A k \in Jobs : BaseOK(k)') /\ WellBased'
  BY <1>3, StillBases DEF vars, rows
<1>4. (\A k \in Jobs : BaseOK(k)') /\ WellBased'
  BY <1>2, <1>3, TriggerBases, ReadingBases, CreatingBases, DiffingBases, StartBases,
     FetchingBases DEF Next
<1> QED
  BY <1>1, <1>4 DEF BaseInv

(* Every diff compares a snapshot with one of its series that was stored       *)
(* before, whatever was retried in between: snapshotProcessor.js:34, 59-61.    *)
THEOREM BaselinesAreEarlier == Spec => []BaselinesPrecede
<1>1. ASSUME BaseInv, NEW j \in Jobs, diffs[j] # None
      PROVE  /\ snapshots[j] # None
             /\ diffs[j].previous # None =>
                  /\ snapshots[diffs[j].previous] # None
                  /\ snapshots[diffs[j].previous].series = snapshots[j].series
  BY <1>1 DEF BaseInv, BaseOK, InSeries, WorkerInv, JobOK, RowOK
<1>2. ASSUME BaseInv, NEW S \in (SUBSET Jobs) \ {{}}
      PROVE  \E j \in S : diffs[j] = None \/ diffs[j].previous \notin S
  <2>1. PICK j \in S : Base(j) \notin S
    BY <1>2 DEF BaseInv, WellBased
  <2> QED BY <2>1 DEF Base
<1>3. BaseInv => BaselinesPrecede
  BY <1>1, <1>2 DEF BaselinesPrecede
<1> QED
  BY <1>3, BaseInitInv, BaseNextInv, PTL DEF Spec
-----------------------------------------------------------------------------
(* Progress of a run.  What a step may do to job k: nothing, begin a run of  *)
(* it, bring one of its reads, turn to the next provider for it, store its   *)
(* snapshot, or end its run.                                                 *)
Rests(k) ==
  /\ attempts'[k] = attempts[k] /\ handler'[k] = handler[k]
  /\ Awaits(k, "rates") => fetch'[Call(k)] = fetch[Call(k)]
Begins(k) ==
  /\ At(k, "idle") /\ attempts[k] < MaxAttempts /\ attempts'[k] = attempts[k] + 1
  /\ handler'[k].pc = "reads" /\ {"positions", "previous"} \subseteq handler'[k].awaits
  /\ "rates" \in handler'[k].awaits =>
       fetch'[<<k, attempts'[k]>>] \in [date : Dates, provider : {1}]
Arrives(k) ==
  /\ At(k, "reads") /\ attempts'[k] = attempts[k]
  /\ \E read \in handler[k].awaits :
       LET left == handler[k].awaits \ {read} IN
       /\ handler'[k].awaits = left
       /\ handler'[k].pc = IF left = {} THEN "createSnapshot" ELSE "reads"
       /\ read # "rates" => fetch'[Call(k)] = fetch[Call(k)]
AsksNext(k) ==
  /\ Awaits(k, "rates") /\ attempts'[k] = attempts[k] /\ handler'[k] = handler[k]
  /\ fetch[Call(k)].provider < Providers
  /\ fetch'[Call(k)] = [fetch[Call(k)] EXCEPT !.provider = @ + 1]
Stores(k) ==
  At(k, "createSnapshot") /\ attempts'[k] = attempts[k] /\ handler'[k].pc = "createDiff"
Ends(k) ==
  ~At(k, "idle") /\ attempts'[k] = attempts[k] /\ handler'[k] = Idle

Moves(k) == Begins(k) \/ Arrives(k) \/ AsksNext(k) \/ Stores(k) \/ Ends(k)

(* The call of getRates of a run is one of those the model names.            *)
LEMMA RunningCall ==
  ASSUME WorkerInv, NEW k \in Jobs, ~At(k, "idle")
  PROVE  Call(k) \in Jobs \X (1..MaxAttempts)
<1>1. Running(k)
  BY DEF WorkerInv, JobOK, HandlerOK, At
<1>2. attempts[k] \in 1..MaxAttempts
  BY <1>1, QueueAssumption DEF WorkerInv, QueueInv, QueueTypes, AttemptsOK
<1> QED
  BY <1>2 DEF Call

(* A handler that settles ends a run of its job and of no other.             *)
LEMMA SettleMoves ==
  ASSUME WorkerInv, NEW j \in Jobs, Returns(j) \/ Throws(j),
         \A k \in Jobs \ {j} : Awaits(k, "rates") => fetch'[Call(k)] = fetch[Call(k)]
  PROVE  Ends(j) /\ \A k \in Jobs \ {j} : Rests(k)
<1>1. /\ attempts' = attempts /\ Running(j)
      /\ handler' = [handler EXCEPT ![j] = Idle]
  BY SettleEffect DEF WorkerInv
<1>2. ~At(j, "idle")
  BY <1>1 DEF WorkerInv, JobOK, HandlerOK, At
<1>3. /\ handler'[j] = Idle
      /\ \A k \in Jobs \ {j} : handler'[k] = handler[k]
  BY <1>1 DEF WorkerInv, WorkerTypes
<1> QED
  BY <1>1, <1>2, <1>3 DEF Ends, Rests

(* A run begins with a call of getRates that has asked the first provider,   *)
(* or with cached rates and no call.                                         *)
LEMMA StartMoves ==
  ASSUME WorkerInv, NEW w \in Runners, Start(w)
  PROVE  \A k \in Jobs : Rests(k) \/ Begins(k)
<1> USE DEF WorkerInv
<1>1. PICK j \in Jobs : /\ Shift(w, j)
                       /\ \/ /\ Rates!Hit(payload[j].date)
                             /\ handler' = [handler EXCEPT ![j] =
                                  [Idle EXCEPT !.pc = "reads", !.awaits = Reads \ {"rates"},
                                               !.rates = cache[payload[j].date]]]
                             /\ UNCHANGED <<cache, fetch>>
                          \/ /\ Rates!Miss(payload[j].date)
                             /\ handler' = [handler EXCEPT ![j] =
                                  [Idle EXCEPT !.pc = "reads", !.awaits = Reads]]
                             /\ Rates!AskFirst(<<j, attempts[j] + 1>>, payload[j].date)
  BY Zenon DEF Start
<1>2. /\ j \in enqueued /\ ~Running(j) /\ attempts[j] \in Nat /\ attempts'[j] = attempts[j] + 1
      /\ attempts[j] < MaxAttempts
      /\ \A k \in Jobs \ {j} : attempts'[k] = attempts[k]
  BY <1>1, ShiftEffect DEF WorkerInv, Untouched
<1>3. At(j, "idle")
  BY <1>2 DEF WorkerInv, JobOK, HandlerOK, At, WorkerTypes, Handler
<1>4. PICK h :
        /\ handler' = [handler EXCEPT ![j] = h]
        /\ h.pc = "reads" /\ {"positions", "previous"} \subseteq h.awaits
        /\ \/ "rates" \notin h.awaits /\ fetch' = fetch
           \/ fetch' = [fetch EXCEPT ![<<j, attempts[j] + 1>>] =
                          [date |-> payload[j].date, provider |-> 1]]
  <2>1. CASE Rates!Hit(payload[j].date)
    <3> DEFINE h == [Idle EXCEPT !.pc = "reads", !.awaits = Reads \ {"rates"},
                                 !.rates = cache[payload[j].date]]
    <3>1. h.pc = "reads" /\ {"positions", "previous"} \subseteq h.awaits /\ "rates" \notin h.awaits
      BY DEF Idle, Reads
    <3>2. handler' = [handler EXCEPT ![j] = h] /\ fetch' = fetch
      BY <1>1, <2>1 DEF Rates!Hit, Rates!Miss
    <3> QED BY <3>1, <3>2
  <2>2. CASE Rates!Miss(payload[j].date)
    <3> DEFINE h == [Idle EXCEPT !.pc = "reads", !.awaits = Reads]
    <3>1. h.pc = "reads" /\ {"positions", "previous"} \subseteq h.awaits
      BY DEF Idle, Reads
    <3>2. /\ handler' = [handler EXCEPT ![j] = h]
          /\ fetch' = [fetch EXCEPT ![<<j, attempts[j] + 1>>] =
                         [date |-> payload[j].date, provider |-> 1]]
      BY <1>1, <2>2 DEF Rates!Hit, Rates!Miss, Rates!AskFirst
    <3> QED BY <3>1, <3>2
  <2> QED BY <1>1, <2>1, <2>2
<1>5. /\ handler'[j] = h
      /\ \A k \in Jobs \ {j} : handler'[k] = handler[k]
  BY <1>4 DEF WorkerInv, WorkerTypes
<1>6. <<j, attempts[j] + 1>> \in Jobs \X (1..MaxAttempts)
  BY <1>2, QueueAssumption
<1>7. Begins(j)
  <2>1. payload[j].date \in Dates
    BY <1>2 DEF WorkerInv, JobOK, RowOK, WorkerTypes, Payload
  <2>2. "rates" \in h.awaits =>
          fetch'[<<j, attempts[j] + 1>>] = [date |-> payload[j].date, provider |-> 1]
    BY <1>4, <1>6 DEF WorkerInv, WorkerTypes
  <2>3. [date |-> payload[j].date, provider |-> 1] \in [date : Dates, provider : {1}]
    BY <2>1
  <2> QED
    BY <1>2, <1>3, <1>4, <1>5, <2>2, <2>3 DEF Begins
<1>8. ASSUME NEW k \in Jobs \ {j} PROVE Rests(k)
  <2>1. Call(k) # <<j, attempts[j] + 1>> /\ (Awaits(k, "rates") => ~At(k, "idle"))
    BY DEF Call, Awaits, At
  <2>2. Awaits(k, "rates") => fetch'[Call(k)] = fetch[Call(k)]
    BY <1>4, <1>6, <2>1, RunningCall DEF WorkerInv, WorkerTypes
  <2> QED
    BY <1>2, <1>5, <2>2 DEF Rests
<1> QED
  BY <1>7, <1>8

(* A read that arrives.                                                      *)
LEMMA ArrivedMoves ==
  ASSUME WorkerInv, NEW j \in Jobs, NEW read \in Reads, NEW locals \in Handler,
         Awaits(j, read), Arrived(j, read, locals),
         locals.pc = "reads", locals.awaits = handler[j].awaits,
         read # "rates" => fetch'[Call(j)] = fetch[Call(j)],
         \A k \in Jobs \ {j} : Awaits(k, "rates") => fetch'[Call(k)] = fetch[Call(k)]
  PROVE  Arrives(j) /\ \A k \in Jobs \ {j} : Rests(k)
<1> DEFINE left == locals.awaits \ {read}
           h == [locals EXCEPT !.awaits = left,
                               !.pc = IF left = {} THEN "createSnapshot" ELSE @]
<1>1. handler' = [handler EXCEPT ![j] = h] /\ attempts' = attempts
  BY DEF Arrived, queueVars
<1>2. h.awaits = left /\ h.pc = IF left = {} THEN "createSnapshot" ELSE "reads"
  BY DEF Handler
<1>3. At(j, "reads") /\ read \in handler[j].awaits /\ left = handler[j].awaits \ {read}
  BY DEF Awaits
<1> HIDE DEF h
<1>4. handler'[j] = h /\ \A k \in Jobs \ {j} : handler'[k] = handler[k]
  BY <1>1 DEF WorkerInv, WorkerTypes
<1> QED
  BY <1>1, <1>2, <1>3, <1>4 DEF Arrives, Rests

(* A step of a call of getRates, or of the database, moves one job.          *)
LEMMA ReadingMoves ==
  ASSUME WorkerInv, NEW j \in Jobs, Reading(j)
  PROVE  \A k \in Jobs : Rests(k) \/ Moves(k)
<1>0. handler[j] \in Handler
  BY DEF WorkerInv, WorkerTypes
<1>1. fetch' = fetch
  BY DEF Reading, GetPositions, FindPrevious, ReadFails
<1>2. CASE GetPositions(j)
  BY <1>0, <1>1, <1>2, ArrivedMoves DEF GetPositions, Reads, Awaits, At, Moves
<1>3. CASE FindPrevious(j)
  <2>1. PICK p \in Jobs \cup {None} :
             Arrived(j, "previous", [handler[j] EXCEPT !.previous = p])
    BY <1>3 DEF FindPrevious, InSeries
  <2>2. Awaits(j, "previous")
    BY <1>3 DEF FindPrevious
  <2>3. /\ [handler[j] EXCEPT !.previous = p] \in Handler
        /\ [handler[j] EXCEPT !.previous = p].pc = "reads"
        /\ [handler[j] EXCEPT !.previous = p].awaits = handler[j].awaits
    BY <1>0, <2>2 DEF Handler, Awaits, At
  <2> QED
    BY <1>1, <2>1, <2>2, <2>3, ArrivedMoves DEF Reads, Moves
<1>4. CASE ReadFails(j)
  BY <1>1, <1>4, SettleMoves DEF ReadFails, Moves
<1> QED
  BY <1>2, <1>3, <1>4 DEF Reading

LEMMA FetchingMoves ==
  ASSUME WorkerInv, NEW j \in Jobs, NEW a \in 1..MaxAttempts, Fetching(j, a)
  PROVE  \A k \in Jobs : Rests(k) \/ Moves(k)
<1> DEFINE c == <<j, a>>
<1>0. /\ c \in Jobs \X (1..MaxAttempts) /\ handler[j] \in Handler
      /\ fetch \in [Jobs \X (1..MaxAttempts) -> [date : Dates, provider : 1..Providers] \cup {None}]
  BY DEF WorkerInv, WorkerTypes
<1>1. \A k \in Jobs : Call(k) = c <=> k = j /\ attempts[j] = a
  BY DEF Call
<1>2. fetch[c] # None => fetch[c] \in [date : Dates, provider : 1..Providers]
  BY <1>0
<1> HIDE DEF c
<1>3. PICK x : fetch' = [fetch EXCEPT ![c] = x]
  BY DEF Fetching, ProviderAnswers, ProviderFails, Rates!Answer, Rates!AskNext, Rates!GiveUp, c
<1>4. \A k \in Jobs : Awaits(k, "rates") /\ Call(k) # c => fetch'[Call(k)] = fetch[Call(k)]
  <2>1. \A k \in Jobs : Awaits(k, "rates") => Call(k) \in Jobs \X (1..MaxAttempts)
    BY RunningCall DEF Awaits, At
  <2> QED
    BY <1>0, <1>3, <2>1
<1>5. ASSUME ~IsCurrent(j, a), UNCHANGED <<queueVars, handler>>
      PROVE  \A k \in Jobs : Rests(k)
  BY <1>1, <1>4, <1>5 DEF IsCurrent, Rests, queueVars
<1>6. CASE ProviderAnswers(j, a) /\ IsCurrent(j, a)
  <2> DEFINE locals == [handler[j] EXCEPT !.rates = fetch[c].provider]
  <2>1. Arrived(j, "rates", locals) /\ Awaits(j, "rates") /\ fetch[c] # None
    BY <1>6 DEF ProviderAnswers, IsCurrent, Rates!Answer, c
  <2>2. fetch[c].provider \in 1..Providers
    BY <1>2, <2>1
  <2>3. locals \in Handler /\ locals.pc = "reads" /\ locals.awaits = handler[j].awaits
    BY <1>0, <2>1, <2>2 DEF Handler, Awaits, At
  <2> HIDE DEF locals
  <2> QED
    BY <1>1, <1>4, <2>1, <2>3, ArrivedMoves DEF Reads, Moves
<1>7. CASE ProviderFails(j, a) /\ Rates!AskNext(c) /\ IsCurrent(j, a)
  <2>1. /\ fetch[c].provider < Providers /\ fetch[c] # None
        /\ fetch' = [fetch EXCEPT ![c].provider = @ + 1]
    BY <1>7 DEF Rates!AskNext
  <2>2. attempts' = attempts /\ handler' = handler
    <3>1. ~Rates!GiveUp(c)
      BY <2>1, <1>7, WorkerAssumption DEF Rates!GiveUp
    <3> QED
      BY <1>7, <3>1 DEF ProviderFails, queueVars, c
  <2>3. Call(j) = c /\ fetch'[c] = [fetch[c] EXCEPT !.provider = @ + 1]
    BY <1>0, <1>1, <1>7, <2>1 DEF IsCurrent
  <2>4. AsksNext(j)
    BY <1>7, <2>1, <2>2, <2>3 DEF AsksNext, IsCurrent
  <2> QED
    BY <1>1, <1>4, <2>2, <2>4 DEF Rests, Moves
<1>8. CASE ProviderFails(j, a) /\ Rates!GiveUp(c) /\ IsCurrent(j, a)
  <2>1. Throws(j)
    <3>1. ~Rates!AskNext(c)
      BY <1>2, <1>8, WorkerAssumption DEF Rates!GiveUp, Rates!AskNext
    <3> QED
      BY <1>8, <3>1 DEF ProviderFails, c
  <2> QED
    BY <1>1, <1>4, <2>1, SettleMoves DEF Moves
<1>9. CASE ~IsCurrent(j, a)
  BY <1>5, <1>9 DEF Fetching, ProviderAnswers, ProviderFails
<1> QED
  BY <1>6, <1>7, <1>8, <1>9 DEF Fetching, ProviderFails, c

LEMMA WritingMoves ==
  ASSUME WorkerInv, NEW j \in Jobs, Creating(j) \/ Diffing(j)
  PROVE  \A k \in Jobs : Rests(k) \/ Moves(k)
<1>1. fetch' = fetch
  BY DEF Creating, CreateSnapshot, CreateSnapshotFails, Diffing, CreateDiff, CreateDiffFails
<1>2. CASE CreateSnapshot(j)
  <2>1. /\ At(j, "createSnapshot") /\ attempts' = attempts
        /\ handler' = [handler EXCEPT ![j].pc = "createDiff"]
    BY <1>2 DEF CreateSnapshot, queueVars
  <2>2. /\ handler'[j].pc = "createDiff"
        /\ \A k \in Jobs \ {j} : handler'[k] = handler[k]
    BY <2>1 DEF WorkerInv, WorkerTypes, Handler
  <2> QED
    BY <1>1, <2>1, <2>2 DEF Stores, Rests, Moves
<1>3. CASE Returns(j) \/ Throws(j)
  BY <1>1, <1>3, SettleMoves DEF Moves
<1> QED
  BY <1>2, <1>3 DEF Creating, CreateSnapshotFails, Diffing, CreateDiff, CreateDiffFails

(* Every step of the system, seen from the jobs.                             *)
LEMMA StepsOfJobs ==
  ASSUME WorkerInv, [Next]_vars
  PROVE  \A k \in Jobs : Rests(k) \/ Moves(k)
<1>1. ASSUME UNCHANGED <<attempts, handler, fetch>> PROVE \A k \in Jobs : Rests(k)
  BY <1>1 DEF Rests
<1>2. CASE UNCHANGED vars
  BY <1>1, <1>2 DEF vars, queueVars
<1>3. ASSUME NEW j \in Jobs, Trigger(j) PROVE \A k \in Jobs : Rests(k)
  BY <1>1, <1>3 DEF Trigger, Enqueue
<1>4. ASSUME NEW w \in Runners, Stop(w) PROVE \A k \in Jobs : Rests(k)
  BY <1>1, <1>4 DEF Stop, LoopEnds
<1> QED
  BY <1>2, <1>3, <1>4, StartMoves, ReadingMoves, FetchingMoves, WritingMoves DEF Next, Moves

(* A run that is under way awaits something that is under way: the reads     *)
(* still unsettled are never none, and a run that awaits its rates has a     *)
(* call of getRates of its own, waiting for a provider.                      *)
RunsAwait ==
  \A j \in Jobs :
    /\ Running(j) => ~At(j, "idle")
    /\ At(j, "reads") => handler[j].awaits # {}
    /\ Awaits(j, "rates") => fetch[Call(j)] # None

(* The provider that the call of a run waits for.                            *)
LEMMA AwaitedCall ==
  ASSUME WorkerInv, RunsAwait, NEW j \in Jobs, Awaits(j, "rates")
  PROVE  fetch[Call(j)] \in [date : Dates, provider : 1..Providers]
<1>1. Call(j) \in Jobs \X (1..MaxAttempts)
  BY RunningCall DEF Awaits, At
<1> QED
  BY <1>1 DEF WorkerInv, WorkerTypes, RunsAwait

(* No run of processSnapshotJob waits for a promise that nobody settles,     *)
(* whatever calls the runs before it left behind: with one that did, the job *)
(* and its runner would hang, and no retry would ever come                   *)
(* (snapshotProcessor.js:32-36, queue.js:31-42).                             *)
THEOREM RunsAlwaysAwaited == Spec => []RunsAwait
<1> DEFINE Inv == WorkerInv /\ RunsAwait
<1>1. ASSUME Init PROVE Inv
  BY <1>1, WorkerInitInv DEF Init, RunsAwait, Idle, At, Awaits, WorkerInv, JobOK, HandlerOK
<1>2. ASSUME Inv, [Next]_vars PROVE Inv'
  <2>1. WorkerInv'
    BY <1>2, WorkerNextInv
  <2>2. ASSUME NEW j \in Jobs
        PROVE  /\ (At(j, "reads") => handler[j].awaits # {})'
               /\ (Awaits(j, "rates") => fetch[Call(j)] # None)'
    <3>1. CASE Rests(j)
      BY <1>2, <3>1 DEF Rests, RunsAwait, At, Awaits, Call
    <3>2. CASE Begins(j)
      <4>1. None \notin [date : Dates, provider : {1}]
        BY RowAssumption, WorkerAssumption
      <4> QED
        BY <3>2, <4>1 DEF Begins, At, Awaits, Call
    <3>3. CASE Arrives(j)
      <4>1. PICK read \in handler[j].awaits :
              /\ handler'[j].awaits = handler[j].awaits \ {read}
              /\ handler'[j].pc = IF handler[j].awaits \ {read} = {}
                                  THEN "createSnapshot" ELSE "reads"
              /\ read # "rates" => fetch'[Call(j)] = fetch[Call(j)]
        BY <3>3 DEF Arrives
      <4> QED
        BY <1>2, <3>3, <4>1 DEF Arrives, RunsAwait, At, Awaits, Call
    <3>4. CASE AsksNext(j)
      <4>1. /\ At(j, "reads") /\ Awaits(j, "rates") /\ handler'[j] = handler[j]
            /\ attempts'[j] = attempts[j] /\ fetch[Call(j)].provider < Providers
            /\ fetch'[Call(j)] = [fetch[Call(j)] EXCEPT !.provider = @ + 1]
        BY <3>4 DEF AsksNext, Awaits
      <4>2. fetch[Call(j)] \in [date : Dates, provider : 1..Providers]
        BY <1>2, <4>1, AwaitedCall
      <4>3. fetch'[Call(j)] \in [date : Dates, provider : 1..Providers]
        BY <4>1, <4>2, WorkerAssumption
      <4>4. fetch'[Call(j)] # None
        BY <4>3, RowAssumption
      <4> QED
        BY <1>2, <4>1, <4>4 DEF RunsAwait, At, Call
    <3>5. CASE Stores(j) \/ Ends(j)
      BY <3>5 DEF Stores, Ends, Idle, At, Awaits
    <3> QED
      BY <1>2, <3>1, <3>2, <3>3, <3>4, <3>5, StepsOfJobs DEF Moves
  <2> QED
    BY <2>1, <2>2 DEF RunsAwait, WorkerInv, JobOK, HandlerOK, At
<1>3. Inv => RunsAwait
  OBVIOUS
<1> QED
  BY <1>1, <1>2, <1>3, PTL DEF Spec

(* The work that is left of job j: the attempts it still has, each of as     *)
(* many steps as a run that asks every provider takes, and what is left of   *)
(* the run under way.                                                        *)
RunSteps == Providers + 5
If(condition, n) == IF condition THEN n ELSE 0
LeftOfRun(j) ==
  CASE At(j, "reads") ->
         2 + If("positions" \in handler[j].awaits, 1) + If("previous" \in handler[j].awaits, 1)
           + If("rates" \in handler[j].awaits, Providers + 1 - fetch[Call(j)].provider)
    [] At(j, "createSnapshot") -> 2
    [] At(j, "createDiff") -> 1
    [] OTHER -> 0
WorkLeft(j) == (MaxAttempts - attempts[j]) * RunSteps + LeftOfRun(j)

(* A step that does anything for a job leaves less to be done for it, and no *)
(* other step gives it more.                                                 *)
WorkDone ==
  \A j \in Jobs :
    /\ WorkLeft(j) \in Nat
    /\ IF Rests(j) THEN WorkLeft(j)' = WorkLeft(j) ELSE WorkLeft(j)' < WorkLeft(j)

(* A run under way has from one to Providers + 4 steps left.                  *)
LEMMA LeftInRange ==
  ASSUME WorkerInv, RunsAwait, NEW j \in Jobs
  PROVE  /\ LeftOfRun(j) \in 0..(Providers + 4)
         /\ At(j, "reads") => LeftOfRun(j) > 2
         /\ ~At(j, "idle") => LeftOfRun(j) > 0
<1> DEFINE n == Providers + 1 - fetch[Call(j)].provider
<1>1. handler[j].pc \in {"idle", "reads", "createSnapshot", "createDiff"} /\ Providers \in Nat
  BY WorkerAssumption DEF WorkerInv, WorkerTypes, Handler
<1>2. CASE At(j, "reads")
  <2>1. "rates" \in handler[j].awaits => n \in 1..Providers
    <3>1. CASE "rates" \in handler[j].awaits
      <4>1. fetch[Call(j)].provider \in 1..Providers
        BY <1>2, <3>1, AwaitedCall DEF Awaits
      <4> QED
        BY <1>1, <4>1
    <3> QED
      BY <3>1
  <2>2. handler[j].awaits \subseteq {"positions", "rates", "previous"} /\ handler[j].awaits # {}
    BY <1>2 DEF WorkerInv, WorkerTypes, Handler, Reads, RunsAwait
  <2> HIDE DEF n
  <2>3. LeftOfRun(j) =
          2 + If("positions" \in handler[j].awaits, 1) + If("previous" \in handler[j].awaits, 1)
            + If("rates" \in handler[j].awaits, n)
    BY <1>2 DEF LeftOfRun, At, If, n
  <2> QED
    BY <1>1, <1>2, <2>1, <2>2, <2>3 DEF If
<1> QED
  BY <1>1, <1>2 DEF LeftOfRun, At

(* Arithmetic of the budget.                                                  *)
LEMMA BudgetInNat ==
  ASSUME NEW m \in Nat, NEW a \in 0..m, NEW p \in Nat
  PROVE  (m - a) * (p + 5) \in Nat
<1>1. m - a \in Nat /\ p + 5 \in Nat
  OBVIOUS
<1>2. \A x, y \in Nat : x * y \in Nat
  OBVIOUS
<1> QED
  BY <1>1, <1>2

LEMMA NewRunCosts ==
  ASSUME NEW m \in Nat, NEW a \in 0..m, a + 1 \in 0..m, NEW p \in Nat, NEW l \in 0..(p + 4)
  PROVE  (m - (a + 1)) * (p + 5) + l < (m - a) * (p + 5)
<1>1. PICK x \in Nat : x = m - (a + 1)
  OBVIOUS
<1>2. m - a = x + 1
  BY <1>1
<1>3. (x + 1) * (p + 5) = x * (p + 5) + (p + 5)
  OBVIOUS
<1>4. x * (p + 5) \in Nat
  BY BudgetInNat
<1>5. x * (p + 5) + l < x * (p + 5) + (p + 5)
  BY <1>4
<1> QED
  BY <1>1, <1>2, <1>3, <1>5

(* A read that arrives is one the run need not wait for any more.             *)
LEMMA ArrivalCosts ==
  ASSUME WorkerInv, RunsAwait, NEW j \in Jobs, Arrives(j)
  PROVE  LeftOfRun(j)' \in Nat /\ LeftOfRun(j)' < LeftOfRun(j)
<1> DEFINE n == Providers + 1 - fetch[Call(j)].provider
           H == handler[j].awaits
<1>1. PICK read \in H :
        /\ handler'[j].awaits = H \ {read}
        /\ handler'[j].pc = IF H \ {read} = {} THEN "createSnapshot" ELSE "reads"
        /\ read # "rates" => fetch'[Call(j)] = fetch[Call(j)]
  BY DEF Arrives
<1>2. At(j, "reads") /\ attempts'[j] = attempts[j]
  BY DEF Arrives
<1>3. H \subseteq {"positions", "rates", "previous"}
  BY DEF WorkerInv, WorkerTypes, Handler, Reads
<1>4. "rates" \in H => n \in 1..Providers
  <2>1. CASE "rates" \in H
    <3>1. fetch[Call(j)].provider \in 1..Providers
      BY <1>2, <2>1, AwaitedCall DEF Awaits
    <3> QED
      BY <3>1, WorkerAssumption
  <2> QED
    BY <2>1
<1>5. LeftOfRun(j) = 2 + If("positions" \in H, 1) + If("previous" \in H, 1) + If("rates" \in H, n)
  BY <1>2 DEF LeftOfRun, At, If
<1>6. CASE H \ {read} = {}
  <2>1. LeftOfRun(j)' = 2
    BY <1>1, <1>6 DEF LeftOfRun, At
  <2>2. LeftOfRun(j) > 2
    BY <1>2, LeftInRange
  <2> QED
    BY <2>1, <2>2
<1>7. CASE H \ {read} # {}
  <2>1. LeftOfRun(j)' =
          2 + If("positions" \in H \ {read}, 1) + If("previous" \in H \ {read}, 1)
            + If("rates" \in H \ {read}, n)
    BY <1>1, <1>2, <1>7 DEF LeftOfRun, At, Call, If
  <2> HIDE DEF n, H
  <2> QED
    BY <1>1, <1>3, <1>4, <1>5, <2>1, WorkerAssumption DEF If
<1> QED
  BY <1>6, <1>7

(* A run begins with two or three reads, and with every provider to ask.      *)
LEMMA BeginCosts ==
  ASSUME NEW j \in Jobs, Begins(j), Providers \in Nat
  PROVE  LeftOfRun(j)' \in 0..(Providers + 4) /\ LeftOfRun(j) = 0
<1>1. LeftOfRun(j) = 0
  BY DEF Begins, LeftOfRun, At
<1>2. LeftOfRun(j)' = 4 + IF "rates" \in handler'[j].awaits
                          THEN Providers + 1 - fetch'[<<j, attempts'[j]>>].provider ELSE 0
  BY DEF Begins, LeftOfRun, At, If, Call
<1>3. "rates" \in handler'[j].awaits => fetch'[<<j, attempts'[j]>>].provider = 1
  BY DEF Begins
<1> QED
  BY <1>1, <1>2, <1>3

(* A provider that was asked in vain is not asked again.                      *)
LEMMA AskingCosts ==
  ASSUME WorkerInv, RunsAwait, NEW j \in Jobs, AsksNext(j)
  PROVE  LeftOfRun(j)' \in Nat /\ LeftOfRun(j)' < LeftOfRun(j)
<1> DEFINE p == fetch[Call(j)].provider
           q == fetch'[Call(j)].provider
           rest == 2 + If("positions" \in handler[j].awaits, 1)
                     + If("previous" \in handler[j].awaits, 1)
<1>1. /\ At(j, "reads") /\ Awaits(j, "rates") /\ "rates" \in handler[j].awaits
      /\ handler'[j] = handler[j] /\ attempts'[j] = attempts[j]
      /\ fetch'[Call(j)] = [fetch[Call(j)] EXCEPT !.provider = @ + 1]
  BY DEF AsksNext, Awaits
<1>2. fetch[Call(j)] \in [date : Dates, provider : 1..Providers]
  BY <1>1, AwaitedCall
<1>3. p \in 1..Providers /\ q = p + 1 /\ Providers \in Nat
  BY <1>1, <1>2, WorkerAssumption
<1>4. LeftOfRun(j) = rest + (Providers + 1 - p)
  BY <1>1 DEF LeftOfRun, At, If
<1>5. LeftOfRun(j)' = rest + (Providers + 1 - q)
  BY <1>1 DEF LeftOfRun, If, At, Call
<1>6. rest \in Nat
  BY DEF If
<1> HIDE DEF p, q, rest
<1> QED
  BY <1>3, <1>4, <1>5, <1>6

(* A job that rests has as much left as before.                               *)
LEMMA RestCosts ==
  ASSUME NEW j \in Jobs, Rests(j)
  PROVE  LeftOfRun(j)' = LeftOfRun(j)
<1>1. /\ handler'[j] = handler[j] /\ attempts'[j] = attempts[j]
      /\ At(j, "reads") /\ "rates" \in handler[j].awaits => fetch'[Call(j)] = fetch[Call(j)]
  BY DEF Rests, Awaits
<1>2. If("rates" \in handler[j].awaits, Providers + 1 - fetch[Call(j)].provider)'
        = If("rates" \in handler[j].awaits, Providers + 1 - fetch[Call(j)].provider)
      \/ ~At(j, "reads")
  BY <1>1 DEF If, Call
<1> QED
  BY <1>1, <1>2 DEF LeftOfRun, At

(* A run that has ended has nothing left.                                     *)
LEMMA EndCosts ==
  ASSUME WorkerInv, RunsAwait, NEW j \in Jobs, Ends(j)
  PROVE  LeftOfRun(j)' \in Nat /\ LeftOfRun(j)' < LeftOfRun(j)
<1>1. LeftOfRun(j)' = 0
  BY DEF Ends, Idle, LeftOfRun, At
<1>2. LeftOfRun(j) > 0 /\ LeftOfRun(j) \in 0..(Providers + 4)
  BY LeftInRange DEF Ends
<1> QED
  BY <1>1, <1>2

(* Any job is done, one way or another, after at most MaxAttempts runs of    *)
(* at most Providers + 5 steps: retries and fallback providers use up a      *)
(* budget that nothing refills, so with every call settled and every runner  *)
(* resumed, which is what StartedJobsEnd assumes, a started job ends         *)
(* (queue.js:31-42, snapshotProcessor.js:28-73, ratesProvider.js).           *)
THEOREM EveryStepUsesBudget == Spec => [][WorkDone]_vars
<1> DEFINE Inv == WorkerInv /\ RunsAwait
<1>1. ASSUME Inv, [Next]_vars, NEW j \in Jobs
      PROVE  /\ WorkLeft(j) \in Nat
             /\ Rests(j) => WorkLeft(j)' = WorkLeft(j)
             /\ Moves(j) => WorkLeft(j)' < WorkLeft(j)
  <2>1. /\ attempts[j] \in 0..MaxAttempts /\ MaxAttempts \in Nat
        /\ Providers \in Nat /\ Providers > 0
    BY <1>1, QueueAssumption, WorkerAssumption DEF WorkerInv, QueueInv, QueueTypes, AttemptsOK
  <2>2. LeftOfRun(j) \in 0..(Providers + 4)
    BY <1>1, LeftInRange
  <2>3. (MaxAttempts - attempts[j]) * RunSteps \in Nat
    BY <2>1, BudgetInNat DEF RunSteps
  <2>4. WorkLeft(j) \in Nat
    BY <2>2, <2>3 DEF WorkLeft
  <2>5. ASSUME Begins(j) PROVE WorkLeft(j)' < WorkLeft(j)
    <3>1. LeftOfRun(j)' \in 0..(Providers + 4) /\ LeftOfRun(j) = 0
      BY <2>1, <2>5, BeginCosts
    <3>2. attempts'[j] = attempts[j] + 1 /\ attempts[j] + 1 \in 0..MaxAttempts
      BY <2>1, <2>5 DEF Begins
    <3> QED
      BY <2>1, <2>3, <2>4, <3>1, <3>2, NewRunCosts DEF WorkLeft, RunSteps
  <2>6. ASSUME attempts'[j] = attempts[j], LeftOfRun(j)' \in Nat, LeftOfRun(j)' < LeftOfRun(j)
        PROVE  WorkLeft(j)' < WorkLeft(j)
    <3> DEFINE x == (MaxAttempts - attempts[j]) * RunSteps
    <3>1. WorkLeft(j) = x + LeftOfRun(j) /\ WorkLeft(j)' = x + LeftOfRun(j)'
      BY <2>6 DEF WorkLeft, RunSteps
    <3>2. x \in Nat
      BY <2>3
    <3> HIDE DEF x
    <3> QED
      BY <2>2, <2>6, <3>1, <3>2
  <2>7. ASSUME Arrives(j) PROVE WorkLeft(j)' < WorkLeft(j)
    <3>1. LeftOfRun(j)' \in Nat /\ LeftOfRun(j)' < LeftOfRun(j)
      BY <1>1, <2>7, ArrivalCosts
    <3>2. attempts'[j] = attempts[j]
      BY <2>7 DEF Arrives
    <3> QED
      BY <2>4, <2>6, <3>1, <3>2
  <2>8. ASSUME AsksNext(j) PROVE WorkLeft(j)' < WorkLeft(j)
    <3>1. LeftOfRun(j)' \in Nat /\ LeftOfRun(j)' < LeftOfRun(j)
      BY <1>1, <2>8, AskingCosts
    <3>2. attempts'[j] = attempts[j]
      BY <2>8 DEF AsksNext
    <3> QED
      BY <2>4, <2>6, <3>1, <3>2
  <2>9. ASSUME Stores(j) PROVE WorkLeft(j)' < WorkLeft(j)
    <3>1. LeftOfRun(j)' = 1 /\ LeftOfRun(j) = 2
      BY <2>9 DEF Stores, LeftOfRun, At
    <3>2. LeftOfRun(j)' \in Nat /\ LeftOfRun(j)' < LeftOfRun(j)
      BY <3>1
    <3>3. attempts'[j] = attempts[j]
      BY <2>9 DEF Stores
    <3> QED
      BY <2>4, <2>6, <3>2, <3>3
  <2>10. ASSUME Ends(j) PROVE WorkLeft(j)' < WorkLeft(j)
    <3>1. LeftOfRun(j)' \in Nat /\ LeftOfRun(j)' < LeftOfRun(j)
      BY <1>1, <2>10, EndCosts
    <3>2. attempts'[j] = attempts[j]
      BY <2>10 DEF Ends
    <3> QED
      BY <2>4, <2>6, <3>1, <3>2
  <2>11. ASSUME Rests(j) PROVE WorkLeft(j)' = WorkLeft(j)
    <3>1. LeftOfRun(j)' = LeftOfRun(j)
      BY <2>11, RestCosts
    <3>2. attempts'[j] = attempts[j]
      BY <2>11 DEF Rests
    <3> QED
      BY <3>1, <3>2 DEF WorkLeft, RunSteps
  <2> QED
    BY <2>4, <2>5, <2>7, <2>8, <2>9, <2>10, <2>11 DEF Moves
<1>2. Inv /\ [Next]_vars => WorkDone
  BY <1>1, StepsOfJobs DEF WorkDone
<1> QED
  BY <1>2, WorkerInvariance, RunsAlwaysAwaited, PTL DEF Spec
-----------------------------------------------------------------------------
(* Fallback.  Rates of the provider in position p have cost p - 1 failures.  *)
Earned(p) == p # None => p <= faults + 1
Fallback ==
  /\ \A d \in Dates : Earned(cache[d])
  /\ \A c \in Jobs \X (1..MaxAttempts) : fetch[c] # None => Earned(fetch[c].provider)
  /\ \A j \in Jobs : Earned(handler[j].rates)
  /\ \A j \in Jobs : snapshots[j] # None => Earned(snapshots[j].rates)

(* What was within the failures of a state is within those of the next.      *)
LEMMA OneMore ==
  /\ \A x, y, z \in Nat : x <= y + 1 /\ y <= z => x <= z + 1
  /\ \A z \in Nat : 1 <= z + 1
OBVIOUS

(* What a failure more leaves earned.                                        *)
LEMMA StillEarned ==
  ASSUME WorkerInv, NEW p \in (1..Providers) \cup {None}, Earned(p),
         faults' \in Nat, faults <= faults'
  PROVE  Earned(p)'
<1>1. faults \in Nat /\ Providers \in Nat
  BY FaultCount, WorkerAssumption DEF WorkerInv
<1>2. ASSUME p # None PROVE p <= faults' + 1
  <2>1. p \in 1..Providers
    BY <1>2
  <2>2. p <= faults + 1
    BY <1>2, Zenon DEF Earned
  <2>3. p \in Nat
    BY <1>1, <2>1
  <2> QED
    BY <1>1, <2>2, <2>3, OneMore
<1> QED
  BY <1>2 DEF Earned

(* Rates go from a provider to the cache and to a run, from the cache to a   *)
(* run, and from a run to its snapshot.                                      *)
LEMMA RatesFlow ==
  ASSUME WorkerInv, Fallback, WorkerInv', faults <= faults',
         \A d \in Dates : cache'[d] = cache[d]
            \/ \E c \in Jobs \X (1..MaxAttempts) : fetch[c] # None /\ cache'[d] = fetch[c].provider,
         \A c \in Jobs \X (1..MaxAttempts) : fetch'[c] = fetch[c] \/ fetch'[c] = None
            \/ fetch'[c].provider = 1
            \/ /\ fetch[c] # None /\ faults' = faults + 1
               /\ fetch'[c].provider = fetch[c].provider + 1,
         \A j \in Jobs : handler'[j].rates = handler[j].rates \/ handler'[j].rates = None
            \/ (\E d \in Dates : handler'[j].rates = cache[d])
            \/ \E c \in Jobs \X (1..MaxAttempts) :
                 fetch[c] # None /\ handler'[j].rates = fetch[c].provider,
         \A j \in Jobs : snapshots'[j] = snapshots[j] \/ snapshots'[j].rates = handler[j].rates
  PROVE  Fallback'
<1> DEFINE C == Jobs \X (1..MaxAttempts)
           P == (1..Providers) \cup {None}
<1>0. /\ cache \in [Dates -> P] /\ fetch \in [C -> [date : Dates, provider : 1..Providers] \cup {None}]
      /\ handler \in [Jobs -> Handler] /\ snapshots \in [Jobs -> Snapshot \cup {None}]
      /\ snapshots' \in [Jobs -> Snapshot \cup {None}]
      /\ fetch' \in [C -> [date : Dates, provider : 1..Providers] \cup {None}]
      /\ faults \in Nat /\ faults' \in Nat
  BY FaultCount DEF WorkerInv, WorkerTypes
<1>1. \A p \in P : Earned(p) => Earned(p)'
  BY <1>0, StillEarned
<1>2. /\ \A d \in Dates : cache[d] \in P /\ Earned(cache[d])
      /\ \A c \in C : fetch[c] # None => fetch[c].provider \in 1..Providers /\ Earned(fetch[c].provider)
      /\ \A j \in Jobs : handler[j].rates \in P /\ Earned(handler[j].rates)
      /\ \A j \in Jobs : snapshots[j] # None => snapshots[j].rates \in P /\ Earned(snapshots[j].rates)
  BY <1>0 DEF Fallback, Handler, Snapshot
<1>3. Earned(None)'
  BY DEF Earned
<1>4. \A d \in Dates : Earned(cache[d])'
  <2> SUFFICES ASSUME NEW d \in Dates PROVE \E p \in P : Earned(p)' /\ cache'[d] = p
    BY DEF Earned
  <2> QED
    BY <1>1, <1>2
<1>5. \A c \in C : (fetch[c] # None => Earned(fetch[c].provider))'
  <2> SUFFICES ASSUME NEW c \in C, fetch'[c] # None PROVE fetch'[c].provider <= faults' + 1
    BY DEF Earned
  <2>1. CASE fetch'[c] = fetch[c]
    <3>1. fetch[c].provider \in 1..Providers /\ fetch[c].provider # None
          /\ Earned(fetch[c].provider)
      BY <1>2, <2>1, WorkerAssumption
    <3>2. fetch[c].provider <= faults + 1
      BY <3>1, Zenon DEF Earned
    <3> QED
      BY <1>0, <2>1, <3>1, <3>2, WorkerAssumption
  <2>2. CASE fetch'[c].provider = 1
    <3>1. 1 <= faults' + 1
      BY <1>0, OneMore, Zenon
    <3> QED
      BY <2>2, <3>1
  <2>3. CASE fetch[c] # None /\ faults' = faults + 1 /\ fetch'[c].provider = fetch[c].provider + 1
    <3>1. fetch[c].provider \in 1..Providers /\ fetch[c].provider <= faults + 1
      BY <1>2, <2>3, WorkerAssumption DEF Earned
    <3> QED
      BY <1>0, <2>3, <3>1
  <2> QED
    BY <2>1, <2>2, <2>3
<1>6. \A j \in Jobs : Earned(handler[j].rates)'
  <2> SUFFICES ASSUME NEW j \in Jobs PROVE \E p \in P : Earned(p)' /\ handler'[j].rates = p
    BY DEF Earned
  <2> QED
    BY <1>1, <1>2, <1>3
<1>7. \A j \in Jobs : (snapshots[j] # None => Earned(snapshots[j].rates))'
  <2> SUFFICES ASSUME NEW j \in Jobs, snapshots'[j] # None
               PROVE  \E p \in P : Earned(p)' /\ snapshots'[j].rates = p
    BY DEF Earned
  <2> QED
    BY <1>1, <1>2
<1> QED
  BY <1>4, <1>5, <1>6, <1>7 DEF Fallback

(* The handler that a step gives job j, and the others as they were.         *)
LEMMA OneHandler ==
  ASSUME WorkerInv, NEW j \in Jobs, NEW h, handler' = [handler EXCEPT ![j] = h]
  PROVE  handler'[j] = h /\ \A k \in Jobs \ {j} : handler'[k] = handler[k]
BY DEF WorkerInv, WorkerTypes

LEMMA FallbackNext ==
  ASSUME WorkerInv, Fallback, [Next]_vars
  PROVE  Fallback'
<1> DEFINE C == Jobs \X (1..MaxAttempts)
<1>0. /\ WorkerInv' /\ faults \in Nat /\ cache \in [Dates -> (1..Providers) \cup {None}]
      /\ fetch \in [C -> [date : Dates, provider : 1..Providers] \cup {None}]
      /\ snapshots \in [Jobs -> Snapshot \cup {None}] /\ Idle.rates = None
  BY WorkerNextInv, FaultCount DEF WorkerInv, WorkerTypes, Idle
<1>1. CASE UNCHANGED vars
  BY <1>0, <1>1, RatesFlow DEF vars, rows
<1>2. ASSUME NEW j \in Jobs, Trigger(j) PROVE Fallback'
  BY <1>0, <1>2, RatesFlow DEF Trigger, rows
<1>3. ASSUME NEW w \in Runners, Stop(w) PROVE Fallback'
  BY <1>0, <1>3, RatesFlow DEF Stop, rows
<1>4. ASSUME NEW w \in Runners, Start(w) PROVE Fallback'
  <2>1. PICK j \in Jobs : /\ Shift(w, j)
                         /\ \/ /\ Rates!Hit(payload[j].date)
                               /\ handler' = [handler EXCEPT ![j] =
                                    [Idle EXCEPT !.pc = "reads", !.awaits = Reads \ {"rates"},
                                                 !.rates = cache[payload[j].date]]]
                               /\ UNCHANGED <<cache, fetch>>
                            \/ /\ Rates!Miss(payload[j].date)
                               /\ handler' = [handler EXCEPT ![j] =
                                    [Idle EXCEPT !.pc = "reads", !.awaits = Reads]]
                               /\ Rates!AskFirst(<<j, attempts[j] + 1>>, payload[j].date)
    BY <1>4, Zenon DEF Start
  <2>2. snapshots' = snapshots /\ faults' = faults
    BY <1>4 DEF Start, rows
  <2>3. payload[j].date \in Dates
    <3>1. j \in enqueued
      BY <2>1, ShiftEffect DEF WorkerInv
    <3> QED
      BY <3>1 DEF WorkerInv, JobOK, RowOK, WorkerTypes, Payload
  <2>4. PICK h : /\ handler' = [handler EXCEPT ![j] = h]
                 /\ h.rates = None \/ h.rates = cache[payload[j].date]
    <3> DEFINE h1 == [Idle EXCEPT !.pc = "reads", !.awaits = Reads \ {"rates"},
                                  !.rates = cache[payload[j].date]]
               h2 == [Idle EXCEPT !.pc = "reads", !.awaits = Reads]
    <3>1. h1.rates = cache[payload[j].date] /\ h2.rates = None
      BY DEF Idle
    <3> HIDE DEF h1, h2
    <3> QED
      BY <2>1, <3>1 DEF h1, h2
  <2>5. \A k \in Jobs : handler'[k].rates = handler[k].rates \/ handler'[k].rates = None
                        \/ \E d \in Dates : handler'[k].rates = cache[d]
    BY <2>3, <2>4, OneHandler
  <2>6. /\ cache' = cache
        /\ \A c \in C : fetch'[c] = fetch[c] \/ fetch'[c].provider = 1
    BY <1>0, <2>1 DEF Rates!AskFirst
  <2> QED
    BY <1>0, <2>2, <2>5, <2>6, RatesFlow
<1>5. ASSUME NEW j \in Jobs, Throws(j), cache' = cache,
             \A k \in Jobs : snapshots'[k] = snapshots[k] \/ snapshots'[k].rates = handler[k].rates,
             \A c \in C : fetch'[c] = fetch[c] \/ fetch'[c] = None, faults <= faults'
      PROVE Fallback'
  <2>1. \A k \in Jobs : handler'[k].rates = handler[k].rates \/ handler'[k].rates = None
    BY <1>0, <1>5, OneHandler DEF Throws
  <2> QED
    BY <1>0, <1>5, <2>1, RatesFlow
<1>6. ASSUME NEW j \in Jobs, NEW read, NEW locals \in Handler, Arrived(j, read, locals)
      PROVE  /\ handler'[j].rates = locals.rates
             /\ \A k \in Jobs \ {j} : handler'[k] = handler[k]
  <2> DEFINE h == [locals EXCEPT !.awaits = locals.awaits \ {read},
                     !.pc = IF locals.awaits \ {read} = {} THEN "createSnapshot" ELSE @]
  <2>1. handler' = [handler EXCEPT ![j] = h]
    BY <1>6 DEF Arrived
  <2>2. h.rates = locals.rates
    BY <1>6 DEF Handler
  <2> HIDE DEF h
  <2> QED
    BY <2>1, <2>2, OneHandler
<1>7. ASSUME NEW j \in Jobs, Reading(j) PROVE Fallback'
  <2>1. handler[j] \in Handler /\ UNCHANGED <<cache, fetch, snapshots>>
    BY <1>7 DEF Reading, GetPositions, FindPrevious, ReadFails, rows, WorkerInv, WorkerTypes
  <2>2. CASE ReadFails(j)
    <3>1. Throws(j) /\ faults <= faults'
      BY <1>0, <2>2 DEF ReadFails, Fault
    <3> QED
      BY <1>5, <2>1, <3>1
  <2>3. CASE GetPositions(j)
    <3>1. Arrived(j, "positions", handler[j]) /\ faults' = faults
      BY <2>3 DEF GetPositions
    <3>2. \A k \in Jobs : handler'[k].rates = handler[k].rates
      BY <1>6, <2>1, <3>1
    <3> QED
      BY <1>0, <2>1, <3>1, <3>2, RatesFlow
  <2>4. CASE FindPrevious(j)
    <3>1. PICK p \in Jobs \cup {None} : Arrived(j, "previous", [handler[j] EXCEPT !.previous = p])
      BY <2>4 DEF FindPrevious, InSeries
    <3>2. /\ [handler[j] EXCEPT !.previous = p] \in Handler
          /\ [handler[j] EXCEPT !.previous = p].rates = handler[j].rates
      BY <2>1 DEF Handler
    <3>3. \A k \in Jobs : handler'[k].rates = handler[k].rates
      BY <1>6, <3>1, <3>2
    <3>4. faults' = faults
      BY <2>4 DEF FindPrevious
    <3> QED
      BY <1>0, <2>1, <3>3, <3>4, RatesFlow
  <2> QED
    BY <1>7, <2>2, <2>3, <2>4 DEF Reading
<1>8. ASSUME NEW j \in Jobs, NEW a \in 1..MaxAttempts, Fetching(j, a) PROVE Fallback'
  <2> DEFINE c == <<j, a>>
  <2>1. c \in C /\ handler[j] \in Handler /\ snapshots' = snapshots
    BY <1>8 DEF Fetching, ProviderAnswers, ProviderFails, rows, WorkerInv, WorkerTypes
  <2> HIDE DEF c
  <2>2. CASE ProviderAnswers(j, a)
    <3>1. /\ fetch[c] # None /\ faults' = faults
          /\ cache' = [cache EXCEPT ![fetch[c].date] = fetch[c].provider]
          /\ fetch' = [fetch EXCEPT ![c] = None]
      BY <2>2 DEF ProviderAnswers, Rates!Answer, c
    <3>2. fetch[c].provider \in 1..Providers
      BY <1>0, <2>1, <3>1
    <3>3. \A k \in Jobs : handler'[k].rates = handler[k].rates
                          \/ handler'[k].rates = fetch[c].provider
      <4>1. CASE handler' = handler
        BY <4>1
      <4>2. CASE Arrived(j, "rates", [handler[j] EXCEPT !.rates = fetch[c].provider])
        <5>1. /\ [handler[j] EXCEPT !.rates = fetch[c].provider] \in Handler
              /\ [handler[j] EXCEPT !.rates = fetch[c].provider].rates = fetch[c].provider
          BY <2>1, <3>2 DEF Handler
        <5> QED
          BY <1>6, <4>2, <5>1
      <4> QED
        BY <2>2, <4>1, <4>2 DEF ProviderAnswers, c
    <3>4. /\ \A d \in Dates : cache'[d] = cache[d] \/ cache'[d] = fetch[c].provider
          /\ \A x \in C : fetch'[x] = fetch[x] \/ fetch'[x] = None
      BY <1>0, <3>1
    <3> QED
      BY <1>0, <2>1, <3>1, <3>3, <3>4, RatesFlow
  <2>3. CASE ProviderFails(j, a)
    <3>1. Fault /\ faults' = faults + 1 /\ faults <= faults'
      BY <1>0, <2>3 DEF ProviderFails, Fault
    <3>2. CASE Rates!AskNext(c)
      <4>1. /\ fetch[c] # None /\ fetch[c].provider < Providers /\ cache' = cache
            /\ fetch' = [fetch EXCEPT ![c].provider = fetch[c].provider + 1]
        BY <3>2 DEF Rates!AskNext
      <4>2. \A x \in C : \/ fetch'[x] = fetch[x]
                         \/ x = c /\ fetch'[x].provider = fetch[x].provider + 1
        <5>1. fetch[c] \in [date : Dates, provider : 1..Providers]
          BY <1>0, <2>1, <4>1
        <5>2. [fetch[c] EXCEPT !.provider = fetch[c].provider + 1].provider = fetch[c].provider + 1
          BY <5>1
        <5>3. fetch'[c] = [fetch[c] EXCEPT !.provider = fetch[c].provider + 1]
              /\ \A x \in C \ {c} : fetch'[x] = fetch[x]
          BY <1>0, <2>1, <4>1
        <5>4. fetch'[c].provider = fetch[c].provider + 1
          BY <5>2, <5>3, Zenon
        <5> QED
          BY <5>3, <5>4, Zenon
      <4>3. handler' = handler
        <5>1. fetch[c].provider \in 1..Providers
          BY <1>0, <2>1, <4>1
        <5>2. ~Rates!GiveUp(c)
          BY <4>1, <5>1, WorkerAssumption DEF Rates!GiveUp
        <5> QED
          BY <2>3, <5>2 DEF ProviderFails, c
      <4> QED
        BY <1>0, <2>1, <3>1, <4>1, <4>2, <4>3, RatesFlow
    <3>3. CASE Rates!GiveUp(c)
      <4>1. cache' = cache /\ \A x \in C : fetch'[x] = fetch[x] \/ fetch'[x] = None
        BY <1>0, <3>3 DEF Rates!GiveUp
      <4>2. CASE Throws(j)
        BY <1>5, <2>1, <3>1, <4>1, <4>2
      <4>3. CASE handler' = handler
        BY <1>0, <2>1, <3>1, <4>1, <4>3, RatesFlow
      <4> QED
        BY <2>3, <4>2, <4>3 DEF ProviderFails
    <3> QED
      BY <2>3, <3>2, <3>3 DEF ProviderFails, c
  <2> QED
    BY <1>8, <2>2, <2>3 DEF Fetching
<1>9. ASSUME NEW j \in Jobs, InsertSnapshot(j)
      PROVE  /\ snapshots'[j].rates = handler[j].rates
             /\ \A k \in Jobs \ {j} : snapshots'[k] = snapshots[k]
  BY <1>0, <1>9 DEF InsertSnapshot
<1>10. ASSUME NEW j \in Jobs, Creating(j) PROVE Fallback'
  <2>1. UNCHANGED <<cache, fetch>>
    BY <1>10 DEF Creating, CreateSnapshot, CreateSnapshotFails
  <2>2. CASE CreateSnapshot(j)
    <3>1. /\ InsertSnapshot(j) /\ faults' = faults
          /\ handler' = [handler EXCEPT ![j].pc = "createDiff"]
      BY <2>2 DEF CreateSnapshot
    <3>2. \A k \in Jobs : handler'[k].rates = handler[k].rates
      BY <3>1 DEF WorkerInv, WorkerTypes, Handler
    <3> QED
      BY <1>0, <1>9, <2>1, <3>1, <3>2, RatesFlow
  <2>3. CASE CreateSnapshotFails(j)
    <3>1. /\ Throws(j) /\ faults <= faults'
          /\ snapshots' = snapshots \/ InsertSnapshot(j)
      BY <1>0, <2>3 DEF CreateSnapshotFails, Fault
    <3> QED
      BY <1>5, <1>9, <2>1, <3>1
  <2> QED
    BY <1>10, <2>2, <2>3 DEF Creating
<1>11. ASSUME NEW j \in Jobs, Diffing(j) PROVE Fallback'
  <2>1. UNCHANGED <<cache, fetch, snapshots>> /\ faults <= faults'
    BY <1>0, <1>11 DEF Diffing, CreateDiff, CreateDiffFails, Fault
  <2>2. \A k \in Jobs : handler'[k].rates = handler[k].rates \/ handler'[k].rates = None
    BY <1>0, <1>11, OneHandler DEF Diffing, CreateDiff, CreateDiffFails, Returns, Throws
  <2> QED
    BY <1>0, <2>1, <2>2, RatesFlow
<1> QED
  BY <1>1, <1>2, <1>3, <1>4, <1>7, <1>8, <1>10, <1>11 DEF Next

(* A snapshot is never valued with the rates of a fallback provider unless   *)
(* every provider before it has failed: whoever cached the rates, and        *)
(* whichever run, alive or given up, had asked for them                      *)
(* (ratesProvider.js:8-24, snapshotProcessor.js:32-57).             *)
FallbackEarned ==
  \A j \in Jobs : snapshots[j] # None => snapshots[j].rates - 1 <= faults

THEOREM FallbackHasCause == Spec => []FallbackEarned
<1>1. Init => WorkerInv /\ Fallback
  <2>1. Init => Fallback
    BY DEF Init, Fallback, Earned, Rates!RatesInit, Idle
  <2> QED
    BY <2>1, WorkerInitInv
<1>2. WorkerInv /\ Fallback /\ [Next]_vars => WorkerInv' /\ Fallback'
  BY WorkerNextInv, FallbackNext
<1>3. WorkerInv /\ Fallback => FallbackEarned
  <2>1. ASSUME WorkerInv, Fallback, NEW j \in Jobs, snapshots[j] # None
        PROVE  snapshots[j].rates - 1 <= faults
    <3>1. snapshots[j].rates \in 1..Providers /\ Earned(snapshots[j].rates)
      BY <2>1 DEF WorkerInv, WorkerTypes, Snapshot, Fallback
    <3>2. snapshots[j].rates # None /\ snapshots[j].rates \in Nat /\ faults \in Nat
      BY <2>1, <3>1, FaultCount, WorkerAssumption DEF WorkerInv
    <3> QED
      BY <3>1, <3>2 DEF Earned
  <2> QED
    BY <2>1 DEF FallbackEarned
<1> QED
  BY <1>1, <1>2, <1>3, PTL DEF Spec
=============================================================================
