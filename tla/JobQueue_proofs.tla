---------------------------- MODULE JobQueue_proofs ----------------------------
(***************************************************************************)
(* The inductive invariant of InMemoryQueue, for any finite set of jobs,   *)
(* any runners and any positive MaxAttempts, and the steps of JobLedger    *)
(* that its steps are.                                                     *)
(***************************************************************************)
EXTENDS JobQueue, FiniteSetTheorems, SequenceTheorems, TLAPS

QueueTypes ==
  /\ enqueued \subseteq Jobs /\ pending \in Seq(Jobs) /\ deadLetter \in Seq(Jobs)
  /\ attempts \in [Jobs -> Nat] /\ completed \in Nat
  /\ runner \in [Runners -> Jobs \cup {"idle", "looping"}]

(* attempts counts the runs of a job, and tells how far it can have come.   *)
AttemptsOK ==
  \A j \in Jobs :
    /\ attempts[j] <= MaxAttempts
    /\ j \notin enqueued => attempts[j] = 0
    /\ j \in Elems(pending) => attempts[j] < MaxAttempts
    /\ Outcome(j) = "completed" \/ Running(j) => attempts[j] > 0
    /\ j \in Elems(deadLetter) => attempts[j] = MaxAttempts

QueueInv ==
  QueueTypes /\ OnePlace /\ AttemptsOK /\ CompletionsCounted /\ RetryNotStranded
-----------------------------------------------------------------------------
(* push: one more element, and still distinct if it is new.                 *)
LEMMA AppendElems ==
  ASSUME NEW S, NEW s \in Seq(S), NEW e \in S
  PROVE  /\ Append(s, e) \in Seq(S)
         /\ Elems(Append(s, e)) = Elems(s) \cup {e}
         /\ Distinct(s) /\ e \notin Elems(s) => Distinct(Append(s, e))
<1> DEFINE t == Append(s, e)
<1>1. /\ t \in Seq(S) /\ Len(t) = Len(s) + 1 /\ Len(s) \in Nat
      /\ \A i \in 1..Len(s) : t[i] = s[i]
      /\ t[Len(s) + 1] = e
  BY AppendProperties, LenProperties
<1> HIDE DEF t
<1>2. 1..Len(t) = (1..Len(s)) \cup {Len(s) + 1}
  BY <1>1
<1>3. Elems(t) = Elems(s) \cup {e}
  BY <1>1, <1>2 DEF Elems
<1>4. ASSUME Distinct(s), e \notin Elems(s)
      PROVE  Distinct(t)
  BY <1>1, <1>2, <1>4 DEF Elems, Distinct
<1> QED
  BY <1>1, <1>3, <1>4 DEF t

(* shift: the head is gone, and the rest is distinct.                       *)
LEMMA TailElems ==
  ASSUME NEW S, NEW s \in Seq(S), s # <<>>, Distinct(s)
  PROVE  /\ Tail(s) \in Seq(S) /\ Distinct(Tail(s))
         /\ Head(s) \in Elems(s)
         /\ Elems(Tail(s)) = Elems(s) \ {Head(s)}
<1> DEFINE t == Tail(s)
<1>1. /\ t \in Seq(S) /\ Len(t) = Len(s) - 1 /\ Len(s) \in Nat /\ Len(s) > 0
      /\ \A i \in 1..Len(t) : t[i] = s[i + 1]
      /\ Head(s) = s[1]
  BY HeadTailProperties, LenProperties, EmptySeq
<1> HIDE DEF t
<1>2. Head(s) \in Elems(s)
  BY <1>1 DEF Elems
<1>3. Distinct(t)
  BY <1>1 DEF Distinct
<1>4. ASSUME NEW x PROVE x \in Elems(t) <=> x \in Elems(s) /\ x # Head(s)
  <2>1. ASSUME x \in Elems(t) PROVE x \in Elems(s) /\ x # Head(s)
    <3>1. PICK i \in 1..Len(t) : x = t[i]
      BY <2>1 DEF Elems
    <3>2. i + 1 \in 1..Len(s) /\ x = s[i + 1] /\ 1 \in 1..Len(s) /\ i + 1 # 1
      BY <1>1, <3>1
    <3> QED BY <1>1, <3>2 DEF Elems, Distinct
  <2>2. ASSUME x \in Elems(s), x # Head(s) PROVE x \in Elems(t)
    <3>1. PICK i \in 1..Len(s) : x = s[i]
      BY <2>2 DEF Elems
    <3>2. i - 1 \in 1..Len(t) /\ x = t[i - 1]
      BY <1>1, <2>2, <3>1
    <3> QED BY <3>2 DEF Elems
  <2> QED BY <2>1, <2>2
<1> QED
  BY <1>1, <1>2, <1>3, <1>4 DEF t

(* The lists the queue starts with.                                         *)
LEMMA EmptyElems == Elems(<<>>) = {} /\ Distinct(<<>>)
BY DEF Elems, Distinct

(* A runner that was not awaiting a job awaits j, or it returns from j.     *)
LEMMA RunnerTakes ==
  ASSUME QueueTypes, QueueAssumption, NEW w \in Runners, NEW j \in Jobs,
         runner[w] \in {"idle", "looping"}, runner' = [runner EXCEPT ![w] = j]
  PROVE  /\ runner' \in [Runners -> Jobs \cup {"idle", "looping"}]
         /\ \A k \in Jobs : Running(k)' <=> Running(k) \/ k = j
BY DEF QueueTypes, QueueAssumption, Running

(* A runner that is back from a handler frees its job and no other.         *)
LEMMA RunnerReturns ==
  ASSUME QueueTypes, QueueAssumption, OnePlace, NEW w \in Runners, NEW j \in Jobs,
         runner[w] = j, runner' = [runner EXCEPT ![w] = "looping"]
  PROVE  /\ runner' \in [Runners -> Jobs \cup {"idle", "looping"}]
         /\ \A k \in Jobs : Running(k)' <=> Running(k) /\ k # j
         /\ Running(j) /\ runner'[w] # "idle"
         /\ j \in enqueued /\ j \notin Elems(pending) /\ j \notin Elems(deadLetter)
<1>1. runner' \in [Runners -> Jobs \cup {"idle", "looping"}] /\ Running(j) /\ runner'[w] = "looping"
  BY DEF QueueTypes, Running
<1>2. j \notin {"idle", "looping"}
  BY DEF QueueAssumption
<1>3. \A v \in Runners : runner[v] = j => v = w
  BY <1>2 DEF OnePlace
<1>4. ASSUME NEW k \in Jobs PROVE Running(k)' <=> Running(k) /\ k # j
  <2>1. k # "looping"
    BY DEF QueueAssumption
  <2> QED BY <1>3, <2>1 DEF QueueTypes, Running
<1>5. j \in enqueued /\ j \notin Elems(pending) /\ j \notin Elems(deadLetter)
  BY <1>2 DEF OnePlace
<1> QED
  BY <1>1, <1>4, <1>5

(* The completed jobs can be counted.                                       *)
LEMMA DoneFinite ==
  ASSUME QueueAssumption
  PROVE  IsFiniteSet(Done) /\ Cardinality(Done) \in Nat
<1>1. Done \in SUBSET Jobs
  BY DEF Done
<1> QED
  BY <1>1, FS_Subset, FS_CardinalityType DEF QueueAssumption
-----------------------------------------------------------------------------
(* One lemma per step: the types, the place of every job, and its attempts. *)
(* Each names the outcomes the step changes; completed follows from them.   *)
LEMMA EnqueueInv ==
  ASSUME QueueInv, QueueAssumption, NEW j \in Jobs, Enqueue(j)
  PROVE  /\ QueueInv'
         /\ Outcome(j) = "new" /\ Outcome(j)' = "accepted"
         /\ \A k \in Jobs \ {j} : Outcome(k)' = Outcome(k)
<1> USE DEF QueueInv
<1>1. /\ j \notin enqueued /\ enqueued' = enqueued \cup {j} /\ pending' = Append(pending, j)
      /\ UNCHANGED <<attempts, runner, deadLetter, completed>>
  BY DEF Enqueue
<1>2. /\ j \notin Elems(pending) /\ j \notin Elems(deadLetter) /\ ~Running(j)
  BY <1>1 DEF OnePlace, Running, QueueAssumption
<1>3. /\ pending' \in Seq(Jobs) /\ Elems(pending') = Elems(pending) \cup {j}
      /\ Distinct(pending')
  BY <1>1, <1>2, AppendElems DEF QueueTypes, OnePlace
<1>4. QueueTypes'
  BY <1>1, <1>3 DEF QueueTypes
<1>5. \A k \in Jobs : Running(k)' <=> Running(k)
  BY <1>1 DEF Running
<1>6. Elems(deadLetter)' = Elems(deadLetter) /\ Distinct(deadLetter)'
  BY <1>1 DEF OnePlace
<1>7. OnePlace'
  <2>1. ASSUME NEW w \in Runners, runner[w] \notin {"idle", "looping"}
        PROVE  runner[w] # j
    BY <1>2, <2>1 DEF Running
  <2> QED BY <1>1, <1>2, <1>3, <1>6, <2>1 DEF OnePlace
<1>8. Outcome(j) = "new" /\ Outcome(j)' = "accepted"
  BY <1>1, <1>2, <1>3, <1>5, <1>6 DEF Outcome
<1>9. \A k \in Jobs \ {j} : Outcome(k)' = Outcome(k)
  BY <1>1, <1>2, <1>3, <1>5, <1>6 DEF Outcome
<1>10. AttemptsOK'
  <2>1. attempts[j] = 0 /\ 0 < MaxAttempts
    BY <1>1 DEF AttemptsOK, QueueAssumption
  <2>2. ASSUME NEW k \in Jobs, k # j PROVE
         /\ attempts'[k] <= MaxAttempts
         /\ k \notin enqueued' => attempts'[k] = 0
         /\ k \in Elems(pending') => attempts'[k] < MaxAttempts
         /\ Outcome(k)' = "completed" \/ Running(k)' => attempts'[k] > 0
         /\ k \in Elems(deadLetter') => attempts'[k] = MaxAttempts
    BY <1>1, <1>3, <1>5, <1>6, <1>9, <2>2 DEF AttemptsOK
  <2>3. ~Running(j)' /\ Outcome(j)' # "completed"
    BY <1>2, <1>5, <1>8
  <2> QED BY <1>1, <1>2, <1>3, <1>5, <1>6, <2>1, <2>2, <2>3 DEF AttemptsOK, QueueAssumption
<1>11. Done' = Done
  BY <1>8, <1>9 DEF Done
<1>12. CompletionsCounted'
  BY <1>1, <1>11 DEF CompletionsCounted
<1>13. RetryNotStranded'
  <2>1. attempts[j] = 0
    BY <1>1 DEF AttemptsOK
  <2> QED BY <1>1, <1>3, <2>1 DEF RetryNotStranded
<1> QED
  BY <1>4, <1>7, <1>8, <1>9, <1>10, <1>12, <1>13

(* queue.js:18, 24: the shift and the count of the attempt.                 *)
LEMMA ShiftInv ==
  ASSUME QueueInv, QueueAssumption, NEW w \in Runners, NEW j \in Jobs, Shift(w, j)
  PROVE  /\ QueueInv'
         /\ Outcome(j) = "accepted" /\ attempts[j] < MaxAttempts
         /\ \A k \in Jobs : Outcome(k)' = Outcome(k)
<1> USE DEF QueueInv
<1>1. /\ runner[w] \in {"idle", "looping"} /\ pending # <<>>
      /\ j = Head(pending) /\ pending' = Tail(pending)
      /\ attempts' = [attempts EXCEPT ![j] = @ + 1]
      /\ runner' = [runner EXCEPT ![w] = j]
      /\ UNCHANGED <<enqueued, deadLetter, completed>>
  BY DEF Shift
<1>2. /\ pending' \in Seq(Jobs) /\ Distinct(pending') /\ j \in Elems(pending)
      /\ Elems(pending') = Elems(pending) \ {j}
  BY <1>1, TailElems DEF QueueTypes, OnePlace
<1>3. /\ runner' \in [Runners -> Jobs \cup {"idle", "looping"}]
      /\ \A k \in Jobs : Running(k)' <=> Running(k) \/ k = j
  BY <1>1, RunnerTakes
<1>4. /\ attempts' \in [Jobs -> Nat] /\ attempts'[j] = attempts[j] + 1
      /\ \A k \in Jobs \ {j} : attempts'[k] = attempts[k]
      /\ attempts[j] \in Nat
  BY <1>1 DEF QueueTypes
<1>5. QueueTypes'
  BY <1>1, <1>2, <1>3, <1>4 DEF QueueTypes
<1>6. Elems(deadLetter)' = Elems(deadLetter) /\ Distinct(deadLetter)'
  BY <1>1 DEF OnePlace
<1>7. j \in enqueued /\ j \notin Elems(deadLetter) /\ ~Running(j) /\ attempts[j] < MaxAttempts
  BY <1>2 DEF OnePlace, AttemptsOK, Running, QueueAssumption
<1>8. OnePlace'
  <2>1. ASSUME NEW v \in Runners, runner'[v] \notin {"idle", "looping"}
        PROVE  /\ runner'[v] \in enqueued' \ (Elems(pending') \cup Elems(deadLetter'))
               /\ \A u \in Runners : runner'[u] = runner'[v] => u = v
    <3>1. \A u \in Runners : runner'[u] = IF u = w THEN j ELSE runner[u]
      BY <1>1 DEF QueueTypes
    <3>2. \A u \in Runners : runner[u] # j
      BY <1>7 DEF Running
    <3>3. CASE v = w
      BY <1>1, <1>2, <1>6, <1>7, <3>1, <3>2, <3>3
    <3>4. CASE v # w
      BY <1>1, <1>2, <1>6, <2>1, <3>1, <3>2, <3>4 DEF OnePlace
    <3> QED BY <3>3, <3>4
  <2> QED BY <1>1, <1>2, <1>6, <2>1 DEF OnePlace
<1>9. Outcome(j) = "accepted" /\ Outcome(j)' = "accepted"
  BY <1>1, <1>2, <1>3, <1>6, <1>7 DEF Outcome
<1>10. \A k \in Jobs \ {j} : Outcome(k)' = Outcome(k)
  BY <1>1, <1>2, <1>3, <1>6 DEF Outcome
<1>11. AttemptsOK'
  <2>1. ASSUME NEW k \in Jobs, k # j PROVE
         /\ attempts'[k] <= MaxAttempts
         /\ k \notin enqueued' => attempts'[k] = 0
         /\ k \in Elems(pending') => attempts'[k] < MaxAttempts
         /\ Outcome(k)' = "completed" \/ Running(k)' => attempts'[k] > 0
         /\ k \in Elems(deadLetter') => attempts'[k] = MaxAttempts
    BY <1>1, <1>2, <1>3, <1>4, <1>6, <1>10, <2>1 DEF AttemptsOK
  <2>2. attempts'[j] <= MaxAttempts /\ attempts'[j] > 0
    BY <1>4, <1>7 DEF QueueAssumption
  <2>3. j \in enqueued' /\ j \notin Elems(pending') /\ j \notin Elems(deadLetter')
    BY <1>1, <1>2, <1>6, <1>7
  <2> QED BY <2>1, <2>2, <2>3 DEF AttemptsOK
<1>12. Done' = Done
  BY <1>9, <1>10 DEF Done
<1>13. CompletionsCounted'
  BY <1>1, <1>12 DEF CompletionsCounted
<1>14. RetryNotStranded'
  <2>1. runner'[w] = j /\ j # "idle"
    BY <1>1 DEF QueueTypes, QueueAssumption
  <2> QED BY <2>1 DEF RetryNotStranded
<1> QED
  BY <1>5, <1>7, <1>8, <1>9, <1>10, <1>11, <1>13, <1>14

(* A loop ends only when the list is empty.                                 *)
LEMMA LoopEndsInv ==
  ASSUME QueueInv, QueueAssumption, NEW w \in Runners, LoopEnds(w)
  PROVE  QueueInv' /\ \A k \in Jobs : Outcome(k)' = Outcome(k)
<1> USE DEF QueueInv
<1>1. /\ runner[w] = "looping" /\ pending = <<>>
      /\ runner' = [runner EXCEPT ![w] = "idle"]
      /\ UNCHANGED <<enqueued, pending, attempts, deadLetter, completed>>
  BY DEF LoopEnds
<1>2. \A k \in Jobs : Running(k)' <=> Running(k)
  BY <1>1 DEF Running, QueueTypes, QueueAssumption
<1>3. QueueTypes'
  BY <1>1 DEF QueueTypes
<1>4. \A v \in Runners : runner'[v] \notin {"idle", "looping"} => v # w /\ runner'[v] = runner[v]
  BY <1>1 DEF QueueTypes
<1>5. OnePlace'
  BY <1>1, <1>4 DEF OnePlace, QueueTypes
<1>6. \A k \in Jobs : Outcome(k)' = Outcome(k)
  BY <1>1, <1>2 DEF Outcome
<1>7. AttemptsOK'
  BY <1>1, <1>2, <1>6 DEF AttemptsOK
<1>8. Done' = Done
  BY <1>6 DEF Done
<1>9. CompletionsCounted' /\ RetryNotStranded'
  BY <1>1, <1>8, EmptyElems DEF CompletionsCounted, RetryNotStranded
<1> QED
  BY <1>3, <1>5, <1>6, <1>7, <1>9

(* The three ways a runner returns from job j have this in common.          *)
LEMMA ReturnInv ==
  ASSUME QueueInv, QueueAssumption, NEW w \in Runners, NEW j \in Jobs,
         runner[w] = j, runner' = [runner EXCEPT ![w] = "looping"],
         UNCHANGED <<enqueued, attempts>>,
         pending' \in Seq(Jobs), deadLetter' \in Seq(Jobs), completed' \in Nat,
         Distinct(pending'), Distinct(deadLetter'),
         Elems(pending') \subseteq Elems(pending) \cup {j},
         Elems(deadLetter') \subseteq Elems(deadLetter) \cup {j},
         Elems(pending) \subseteq Elems(pending'), Elems(deadLetter) \subseteq Elems(deadLetter'),
         Elems(pending') \cap Elems(deadLetter') = {},
         j \in Elems(pending') => attempts[j] < MaxAttempts,
         j \in Elems(deadLetter') => attempts[j] = MaxAttempts
  PROVE  /\ QueueTypes' /\ OnePlace' /\ AttemptsOK' /\ RetryNotStranded'
         /\ Outcome(j) = "accepted" /\ attempts[j] > 0
         /\ j \in Elems(pending') => Outcome(j)' = "accepted"
         /\ j \in Elems(deadLetter') => Outcome(j)' = "dead"
         /\ j \notin Elems(pending') \cup Elems(deadLetter') => Outcome(j)' = "completed"
         /\ \A k \in Jobs \ {j} : Outcome(k)' = Outcome(k)
<1> USE DEF QueueInv
<1>1. /\ runner' \in [Runners -> Jobs \cup {"idle", "looping"}]
      /\ \A k \in Jobs : Running(k)' <=> Running(k) /\ k # j
      /\ Running(j) /\ runner'[w] # "idle"
      /\ j \in enqueued /\ j \notin Elems(pending) /\ j \notin Elems(deadLetter)
  BY RunnerReturns
<1>2. QueueTypes'
  BY <1>1 DEF QueueTypes
<1>3. OnePlace'
  <2>1. ASSUME NEW v \in Runners, runner'[v] \notin {"idle", "looping"}
        PROVE  /\ runner'[v] \in enqueued' \ (Elems(pending') \cup Elems(deadLetter'))
               /\ \A u \in Runners : runner'[u] = runner'[v] => u = v
    <3>1. \A u \in Runners : runner'[u] = IF u = w THEN "looping" ELSE runner[u]
      BY DEF QueueTypes
    <3>2. v # w /\ runner[v] \notin {"idle", "looping"} /\ runner'[v] = runner[v]
      BY <2>1, <3>1
    <3>3. /\ runner[v] \in enqueued \ (Elems(pending) \cup Elems(deadLetter))
          /\ \A u \in Runners : runner[u] = runner[v] => u = v
      BY <3>2 DEF OnePlace
    <3>4. runner[v] # j
      BY <3>2, <3>3
    <3> QED BY <3>1, <3>2, <3>3, <3>4
  <2>2. Elems(pending') \cup Elems(deadLetter') \subseteq enqueued'
    BY <1>1 DEF OnePlace
  <2> QED BY <2>1, <2>2 DEF OnePlace
<1>4. Outcome(j) = "accepted" /\ attempts[j] > 0
  BY <1>1 DEF Outcome, AttemptsOK
<1>5. /\ j \in Elems(pending') => Outcome(j)' = "accepted"
      /\ j \in Elems(deadLetter') => Outcome(j)' = "dead"
      /\ j \notin Elems(pending') \cup Elems(deadLetter') => Outcome(j)' = "completed"
  <2>1. j \in enqueued' /\ ~Running(j)'
    BY <1>1
  <2> QED BY <2>1 DEF Outcome
<1>6. \A k \in Jobs \ {j} :
        /\ k \in Elems(pending') <=> k \in Elems(pending)
        /\ k \in Elems(deadLetter') <=> k \in Elems(deadLetter)
  OBVIOUS
<1>7. \A k \in Jobs \ {j} : Outcome(k)' = Outcome(k)
  <2>1. TAKE k \in Jobs \ {j}
  <2>2. /\ k \in enqueued' <=> k \in enqueued
        /\ k \in Elems(pending') <=> k \in Elems(pending)
        /\ k \in Elems(deadLetter') <=> k \in Elems(deadLetter)
        /\ Running(k)' <=> Running(k)
    BY <1>1, <1>6
  <2> QED BY <2>2 DEF Outcome
<1>8. AttemptsOK'
  <2>1. ASSUME NEW k \in Jobs, k # j PROVE
         /\ attempts'[k] <= MaxAttempts
         /\ k \notin enqueued' => attempts'[k] = 0
         /\ k \in Elems(pending') => attempts'[k] < MaxAttempts
         /\ Outcome(k)' = "completed" \/ Running(k)' => attempts'[k] > 0
         /\ k \in Elems(deadLetter') => attempts'[k] = MaxAttempts
    BY <1>1, <1>6, <1>7, <2>1 DEF AttemptsOK
  <2>2. attempts[j] <= MaxAttempts
    BY DEF AttemptsOK
  <2> QED BY <1>1, <1>4, <2>1, <2>2 DEF AttemptsOK
<1>9. RetryNotStranded'
  BY <1>1 DEF RetryNotStranded
<1> QED
  BY <1>2, <1>3, <1>4, <1>5, <1>7, <1>8, <1>9

(* A handler that returns completes its job.                                *)
LEMMA ResolveInv ==
  ASSUME QueueInv, QueueAssumption, NEW w \in Runners, NEW j \in Jobs, Resolve(w, j)
  PROVE  /\ QueueInv'
         /\ Outcome(j) = "accepted" /\ attempts[j] > 0 /\ Outcome(j)' = "completed"
         /\ \A k \in Jobs \ {j} : Outcome(k)' = Outcome(k)
<1> USE DEF QueueInv
<1>1. /\ runner[w] = j /\ runner' = [runner EXCEPT ![w] = "looping"]
      /\ completed' = completed + 1
      /\ UNCHANGED <<enqueued, pending, attempts, deadLetter>>
  BY DEF Resolve
<1>2. /\ j \notin Elems(pending) /\ j \notin Elems(deadLetter)
  BY <1>1, RunnerReturns
<1>3. /\ QueueTypes' /\ OnePlace' /\ AttemptsOK' /\ RetryNotStranded'
      /\ Outcome(j) = "accepted" /\ attempts[j] > 0
      /\ Outcome(j)' = "completed"
      /\ \A k \in Jobs \ {j} : Outcome(k)' = Outcome(k)
  <2>1. /\ pending' \in Seq(Jobs) /\ deadLetter' \in Seq(Jobs) /\ completed' \in Nat
        /\ Distinct(pending') /\ Distinct(deadLetter')
        /\ Elems(pending') = Elems(pending) /\ Elems(deadLetter') = Elems(deadLetter)
        /\ Elems(pending') \cap Elems(deadLetter') = {}
    BY <1>1 DEF QueueTypes, OnePlace
  <2> QED BY <1>1, <1>2, <2>1, ReturnInv
<1>4. Done' = Done \cup {j} /\ j \notin Done
  BY <1>3 DEF Done
<1>5. CompletionsCounted'
  <2>1. Cardinality(Done \cup {j}) = Cardinality(Done) + 1
    BY <1>4, DoneFinite, FS_AddElement
  <2> QED BY <1>1, <1>4, <2>1 DEF CompletionsCounted
<1> QED
  BY <1>3, <1>5

(* A rejected job with attempts left goes to the tail.                      *)
LEMMA RetryInv ==
  ASSUME QueueInv, QueueAssumption, NEW w \in Runners, NEW j \in Jobs, Retry(w, j)
  PROVE  QueueInv' /\ \A k \in Jobs : Outcome(k)' = Outcome(k)
<1> USE DEF QueueInv
<1>1. /\ runner[w] = j /\ runner' = [runner EXCEPT ![w] = "looping"]
      /\ attempts[j] < MaxAttempts /\ pending' = Append(pending, j)
      /\ UNCHANGED <<enqueued, attempts, deadLetter, completed>>
  BY DEF Retry
<1>2. /\ j \notin Elems(pending) /\ j \notin Elems(deadLetter)
  BY <1>1, RunnerReturns
<1>3. /\ pending' \in Seq(Jobs) /\ Distinct(pending')
      /\ Elems(pending') = Elems(pending) \cup {j}
  BY <1>1, <1>2, AppendElems DEF QueueTypes, OnePlace
<1>4. /\ QueueTypes' /\ OnePlace' /\ AttemptsOK' /\ RetryNotStranded'
      /\ Outcome(j) = "accepted" /\ Outcome(j)' = "accepted"
      /\ \A k \in Jobs \ {j} : Outcome(k)' = Outcome(k)
  <2>1. /\ deadLetter' \in Seq(Jobs) /\ completed' \in Nat /\ Distinct(deadLetter')
        /\ Elems(deadLetter') = Elems(deadLetter)
        /\ Elems(pending) \cap Elems(deadLetter) = {}
    BY <1>1 DEF QueueTypes, OnePlace
  <2>2. Elems(pending') \cap Elems(deadLetter') = {} /\ j \notin Elems(deadLetter')
    BY <1>2, <1>3, <2>1
  <2> QED BY <1>1, <1>3, <2>1, <2>2, ReturnInv
<1>5. Done' = Done
  BY <1>4 DEF Done
<1>6. CompletionsCounted'
  BY <1>1, <1>5 DEF CompletionsCounted
<1> QED
  BY <1>4, <1>6

(* A rejected job with none left goes to the dead letters.                  *)
LEMMA BuryInv ==
  ASSUME QueueInv, QueueAssumption, NEW w \in Runners, NEW j \in Jobs, Bury(w, j)
  PROVE  /\ QueueInv'
         /\ Outcome(j) = "accepted" /\ attempts[j] = MaxAttempts /\ Outcome(j)' = "dead"
         /\ \A k \in Jobs \ {j} : Outcome(k)' = Outcome(k)
<1> USE DEF QueueInv
<1>1. /\ runner[w] = j /\ runner' = [runner EXCEPT ![w] = "looping"]
      /\ attempts[j] >= MaxAttempts /\ deadLetter' = Append(deadLetter, j)
      /\ UNCHANGED <<enqueued, pending, attempts, completed>>
  BY DEF Bury
<1>2. /\ j \notin Elems(pending) /\ j \notin Elems(deadLetter)
  BY <1>1, RunnerReturns
<1>3. /\ deadLetter' \in Seq(Jobs) /\ Distinct(deadLetter')
      /\ Elems(deadLetter') = Elems(deadLetter) \cup {j}
  BY <1>1, <1>2, AppendElems DEF QueueTypes, OnePlace
<1>4. attempts[j] = MaxAttempts
  BY <1>1 DEF AttemptsOK, QueueTypes, QueueAssumption
<1>5. /\ QueueTypes' /\ OnePlace' /\ AttemptsOK' /\ RetryNotStranded'
      /\ Outcome(j) = "accepted" /\ Outcome(j)' = "dead"
      /\ \A k \in Jobs \ {j} : Outcome(k)' = Outcome(k)
  <2>1. /\ pending' \in Seq(Jobs) /\ completed' \in Nat /\ Distinct(pending')
        /\ Elems(pending') = Elems(pending)
        /\ Elems(pending) \cap Elems(deadLetter) = {}
    BY <1>1 DEF QueueTypes, OnePlace
  <2>2. Elems(pending') \cap Elems(deadLetter') = {} /\ j \notin Elems(pending')
    BY <1>2, <1>3, <2>1
  <2> QED BY <1>1, <1>3, <1>4, <2>1, <2>2, ReturnInv
<1>6. Done' = Done
  BY <1>5 DEF Done
<1>7. CompletionsCounted'
  BY <1>1, <1>6 DEF CompletionsCounted
<1> QED
  BY <1>4, <1>5, <1>7
-----------------------------------------------------------------------------
(* An empty queue.                                                          *)
LEMMA QueueInitInv ==
  ASSUME QueueInit, QueueAssumption
  PROVE  QueueInv /\ Ledger!Init
<1>1. QueueTypes
  BY EmptySeq DEF QueueInit, QueueTypes
<1>2. Elems(pending) = {} /\ Elems(deadLetter) = {} /\ Distinct(pending) /\ Distinct(deadLetter)
  BY EmptyElems DEF QueueInit
<1>3. \A w \in Runners : runner[w] = "idle"
  BY DEF QueueInit
<1>4. OnePlace
  BY <1>2, <1>3 DEF OnePlace
<1>5. \A j \in Jobs : Outcome(j) = "new" /\ attempts[j] = 0 /\ ~Running(j)
  <2>1. \A j \in Jobs : attempts[j] = 0 /\ j \notin enqueued
    BY DEF QueueInit
  <2>2. \A j \in Jobs : j # "idle"
    BY DEF QueueAssumption
  <2>3. \A j \in Jobs : ~Running(j)
    BY <1>3, <2>2 DEF Running
  <2>4. \A j \in Jobs : Outcome(j) = "new"
    <3>1. TAKE j \in Jobs
    <3>2. /\ j \notin enqueued /\ ~Running(j)
          /\ j \notin Elems(deadLetter) /\ j \notin Elems(pending)
      BY <1>2, <2>1, <2>3
    <3> QED BY <3>2 DEF Outcome
  <2> QED BY <2>1, <2>3, <2>4
<1>6. AttemptsOK
  BY <1>2, <1>5 DEF AttemptsOK, QueueAssumption
<1>7. Done = {}
  BY <1>5 DEF Done
<1>8. CompletionsCounted /\ RetryNotStranded
  BY <1>2, <1>7, FS_EmptySet DEF QueueInit, CompletionsCounted, RetryNotStranded
<1>9. Ledger!Init
  BY <1>5 DEF Ledger!Init, QueueInit
<1> QED
  BY <1>1, <1>4, <1>6, <1>8, <1>9 DEF QueueInv

(* A step of the queue keeps the invariant, and is a step of the ledger or  *)
(* leaves it alone.                                                        *)
LEMMA QueueNextInv ==
  ASSUME QueueInv, [QueueNext]_queueVars, QueueAssumption
  PROVE  QueueInv' /\ [Ledger!Next]_Ledger!ledgerVars
<1> USE DEF Ledger!ledgerVars
<1>0. attempts \in [Jobs -> Nat]
  BY DEF QueueInv, QueueTypes
<1>1. ASSUME NEW j \in Jobs, Enqueue(j)
      PROVE  QueueInv' /\ [Ledger!Next]_Ledger!ledgerVars
  <2>1. /\ QueueInv'
        /\ Outcome(j) = "new" /\ Outcome(j)' = "accepted"
        /\ \A k \in Jobs \ {j} : Outcome(k)' = Outcome(k)
    BY <1>1, EnqueueInv
  <2>2. Ledger!Accept(j)
    BY <1>1, <2>1 DEF Ledger!Accept, Enqueue
  <2> QED BY <2>1, <2>2 DEF Ledger!Next
<1>2. ASSUME NEW w \in Runners, NEW j \in Jobs, Shift(w, j)
      PROVE  QueueInv' /\ [Ledger!Next]_Ledger!ledgerVars
  <2>1. /\ QueueInv'
        /\ Outcome(j) = "accepted" /\ attempts[j] < MaxAttempts
        /\ \A k \in Jobs : Outcome(k)' = Outcome(k)
    BY <1>2, ShiftInv
  <2>2. Ledger!Run(j)
    BY <1>2, <2>1 DEF Ledger!Run, Shift
  <2> QED BY <2>1, <2>2 DEF Ledger!Next
<1>3. ASSUME NEW w \in Runners, NEW j \in Jobs, Resolve(w, j)
      PROVE  QueueInv' /\ [Ledger!Next]_Ledger!ledgerVars
  <2>1. /\ QueueInv'
        /\ Outcome(j) = "accepted" /\ attempts[j] > 0 /\ Outcome(j)' = "completed"
        /\ \A k \in Jobs \ {j} : Outcome(k)' = Outcome(k)
    BY <1>3, ResolveInv
  <2>2. Ledger!Complete(j)
    BY <1>3, <2>1 DEF Ledger!Complete, Resolve
  <2> QED BY <2>1, <2>2 DEF Ledger!Next
<1>4. ASSUME NEW w \in Runners, NEW j \in Jobs, Retry(w, j)
      PROVE  QueueInv' /\ [Ledger!Next]_Ledger!ledgerVars
  <2>1. QueueInv' /\ \A k \in Jobs : Outcome(k)' = Outcome(k)
    BY <1>4, RetryInv
  <2> QED BY <1>4, <2>1 DEF Retry
<1>5. ASSUME NEW w \in Runners, NEW j \in Jobs, Bury(w, j)
      PROVE  QueueInv' /\ [Ledger!Next]_Ledger!ledgerVars
  <2>1. /\ QueueInv'
        /\ Outcome(j) = "accepted" /\ attempts[j] = MaxAttempts /\ Outcome(j)' = "dead"
        /\ \A k \in Jobs \ {j} : Outcome(k)' = Outcome(k)
    BY <1>5, BuryInv
  <2>2. Ledger!Bury(j)
    BY <1>5, <2>1 DEF Ledger!Bury, Bury
  <2> QED BY <2>1, <2>2 DEF Ledger!Next
<1>6. ASSUME NEW w \in Runners, LoopEnds(w)
      PROVE  QueueInv' /\ [Ledger!Next]_Ledger!ledgerVars
  <2>1. QueueInv' /\ \A k \in Jobs : Outcome(k)' = Outcome(k)
    BY <1>6, LoopEndsInv
  <2> QED BY <1>6, <2>1 DEF LoopEnds
<1>7. ASSUME UNCHANGED queueVars
      PROVE  QueueInv' /\ [Ledger!Next]_Ledger!ledgerVars
  <2>1. \A k \in Jobs : (Running(k)' <=> Running(k)) /\ Outcome(k)' = Outcome(k)
    BY <1>7 DEF queueVars, Running, Outcome
  <2>2. Done' = Done
    BY <2>1 DEF Done
  <2>3. QueueInv'
    BY <1>7, <2>1, <2>2 DEF queueVars, QueueInv, QueueTypes, OnePlace, AttemptsOK,
                            CompletionsCounted, RetryNotStranded
  <2> QED BY <1>7, <2>1, <2>3 DEF queueVars
<1> QED
  BY <1>1, <1>2, <1>3, <1>4, <1>5, <1>6, <1>7 DEF QueueNext, Reject
=============================================================================
