------------------------------- MODULE JobQueue -------------------------------
(***************************************************************************)
(* InMemoryQueue of the worker.  runPending is an async loop that nothing  *)
(* keeps from being called again while an earlier call awaits a handler,   *)
(* so several runners may shift jobs from the one pending list.  What a    *)
(* handler does is up to the composition: Resolve and Reject are the two   *)
(* ways in which the promise of a handler settles.                         *)
(***************************************************************************)
EXTENDS Naturals, Sequences, FiniteSets

CONSTANTS
  Jobs,         \* the jobs that may be enqueued, each once
  Runners,      \* the calls of runPending that may overlap
  MaxAttempts   \* maxAttempts of the constructor

ASSUME QueueAssumption ==
  /\ IsFiniteSet(Jobs)
  /\ Jobs \cap {"idle", "looping"} = {}
  /\ MaxAttempts \in Nat \ {0}

VARIABLES
  enqueued,    \* the jobs that were ever enqueued
  pending,     \* the pending list
  attempts,    \* [Jobs -> Nat]: job.attempts
  runner,      \* [Runners -> Jobs \cup {"idle", "looping"}]: the job whose handler the
               \* runner awaits; "looping": back from one, about to test pending.length
  deadLetter,  \* the dead letters, oldest first; stats.deadLetter is its length
  completed    \* stats.completed

queueVars == <<enqueued, pending, attempts, runner, deadLetter, completed>>

Elems(s)    == {s[i] : i \in 1..Len(s)}
Distinct(s) == \A i, k \in 1..Len(s) : s[i] = s[k] => i = k

Running(j) == \E w \in Runners : runner[w] = j

QueueInit ==
  /\ enqueued = {} /\ pending = <<>> /\ deadLetter = <<>> /\ completed = 0
  /\ attempts = [j \in Jobs |-> 0]
  /\ runner = [w \in Runners |-> "idle"]

Enqueue(j) ==
  /\ j \notin enqueued /\ enqueued' = enqueued \cup {j}
  /\ pending' = Append(pending, j)
  /\ UNCHANGED <<attempts, runner, deadLetter, completed>>

(* A runner shifts job j and calls its handler: runPending is called, or the *)
(* loop of an earlier call goes round.                                       *)
ShiftLate(w, j) ==  \* mutant: the job stays at the head until its handler has settled
  /\ runner[w] \in {"idle", "looping"}
  /\ pending # <<>> /\ j = Head(pending)
  /\ attempts' = [attempts EXCEPT ![j] = @ + 1]
  /\ runner' = [runner EXCEPT ![w] = j]
  /\ UNCHANGED <<enqueued, pending, deadLetter, completed>>

Shift(w, j) ==
  /\ runner[w] \in {"idle", "looping"}
  /\ pending # <<>> /\ j = Head(pending) /\ pending' = Tail(pending)
  /\ attempts' = [attempts EXCEPT ![j] = @ + 1]
  /\ runner' = [runner EXCEPT ![w] = j]
  /\ UNCHANGED <<enqueued, deadLetter, completed>>

LoopEndsEarly(w) ==  \* mutant: if (this.pending.length > 0) in place of while
  /\ runner[w] = "looping"
  /\ runner' = [runner EXCEPT ![w] = "idle"]
  /\ UNCHANGED <<enqueued, pending, attempts, deadLetter, completed>>

LoopEnds(w) ==
  /\ runner[w] = "looping" /\ pending = <<>>
  /\ runner' = [runner EXCEPT ![w] = "idle"]
  /\ UNCHANGED <<enqueued, pending, attempts, deadLetter, completed>>

Resolve(w, j) ==
  /\ runner[w] = j /\ runner' = [runner EXCEPT ![w] = "looping"]
  /\ completed' = completed + 1
  /\ UNCHANGED <<enqueued, pending, attempts, deadLetter>>

RetryReset(w, j) ==  \* mutant: enqueue(type, handler) again, with attempts 0
  /\ runner[w] = j /\ runner' = [runner EXCEPT ![w] = "looping"]
  /\ pending' = Append(pending, j)
  /\ attempts' = [attempts EXCEPT ![j] = 0]
  /\ UNCHANGED <<enqueued, deadLetter, completed>>

RetryDropped(w, j) ==  \* mutant: return without push
  /\ runner[w] = j /\ runner' = [runner EXCEPT ![w] = "looping"]
  /\ attempts[j] < MaxAttempts
  /\ UNCHANGED <<enqueued, pending, attempts, deadLetter, completed>>

Retry(w, j) ==
  /\ runner[w] = j /\ runner' = [runner EXCEPT ![w] = "looping"]
  /\ attempts[j] < MaxAttempts
  /\ pending' = Append(pending, j)
  /\ UNCHANGED <<enqueued, attempts, deadLetter, completed>>

Bury(w, j) ==
  /\ runner[w] = j /\ runner' = [runner EXCEPT ![w] = "looping"]
  /\ attempts[j] >= MaxAttempts
  /\ deadLetter' = Append(deadLetter, j)
  /\ UNCHANGED <<enqueued, pending, attempts, completed>>

RejectForGood(w, j) ==  \* mutant: every rejected job is a dead letter
  /\ runner[w] = j /\ runner' = [runner EXCEPT ![w] = "looping"]
  /\ deadLetter' = Append(deadLetter, j)
  /\ UNCHANGED <<enqueued, pending, attempts, completed>>

Reject(w, j) == Retry(w, j) \/ Bury(w, j)

QueueNext ==
  \/ \E j \in Jobs : Enqueue(j)
  \/ \E w \in Runners, j \in Jobs : Shift(w, j) \/ Resolve(w, j) \/ Reject(w, j)
  \/ \E w \in Runners : LoopEnds(w)

QueueSpec == QueueInit /\ [][QueueNext]_queueVars
-----------------------------------------------------------------------------
(* A job that was enqueued and is nowhere any more is taken for completed:   *)
(* CompletionsCounted says whether the queue agrees.                         *)
Outcome(j) ==
  CASE j \notin enqueued -> "new"
    [] j \in Elems(deadLetter) -> "dead"
    [] j \in Elems(pending) \/ Running(j) -> "accepted"
    [] OTHER -> "completed"

Done == {j \in Jobs : Outcome(j) = "completed"}

(* A job is in one place: pending once, awaited by one runner, or in one dead  *)
(* letter.  runPending may be called while another call awaits a handler.      *)
OnePlace ==
  /\ Elems(pending) \cup Elems(deadLetter) \subseteq enqueued
  /\ Elems(pending) \cap Elems(deadLetter) = {}
  /\ Distinct(pending) /\ Distinct(deadLetter)
  /\ \A w \in Runners : runner[w] \notin {"idle", "looping"} =>
       /\ runner[w] \in enqueued \ (Elems(pending) \cup Elems(deadLetter))
       /\ \A v \in Runners : runner[v] = runner[w] => v = w

(* No job is lost and none is counted twice: stats.completed is the number of  *)
(* enqueued jobs that are neither pending, nor running, nor dead-lettered.     *)
CompletionsCounted == completed = Cardinality(Done)

(* #runJob pushes a job to be retried without waking anybody up: while such a  *)
(* job is pending, some runPending loop is still to test pending.length.       *)
RetryNotStranded ==
  (\E j \in Elems(pending) : attempts[j] > 0) => \E w \in Runners : runner[w] # "idle"

Ledger == INSTANCE JobLedger WITH outcome <- [j \in Jobs |-> Outcome(j)], runs <- attempts

(* Every job of the queue lives as JobLedger says: queue.js:12-42.             *)
ImplementsLedger == Ledger!Spec
=============================================================================
