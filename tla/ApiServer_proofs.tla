--------------------------- MODULE ApiServer_proofs ---------------------------
(***************************************************************************)
(* What the runs check of ApiServer on a small instance, for any number of *)
(* users, addresses, sessions, challenges, requests and restarts.  The     *)
(* Maps, the passkey tables and the idempotency store do not read each     *)
(* other, so each has an invariant of its own; only the cookie names a     *)
(* session of the Maps.                                                    *)
(***************************************************************************)
EXTENDS ApiServer, FiniteSetTheorems, WellFoundedInduction, TLAPS

(* The steps of the in-memory service, whichever route takes them.           *)
CountedCall ==
  \/ \E st \in StateIds, p \in Providers, ip \in Ips :
       CallbackThrottled(st, p, ip) \/ \E c \in Codes : CallbackAccepted(st, p, c, ip)
  \/ \E ip \in Ips :
       \/ RecoveryRight(ip)
       \/ \E email \in RecoveryEmails :
            \/ RecoveryThrottled(email, ip) \/ RecoveryLocked(email, ip)
            \/ RecoveryWrong(email, ip)
UncountedCall ==
  \/ \E p \in Providers : StartOAuth(p)
  \/ \E s \in SessionIds : VerifyMfaWrong(s) \/ VerifyMfaRight(s) \/ GetExpired(s)
MemoryNext == CountedCall \/ UncountedCall \/ Tick \/ Restart

(* Those of the passkey service, the authenticators and the clock.           *)
PasskeyNext ==
  \/ \E u \in Holders, type \in {"registration", "assertion"} : GenerateOptions(u, type)
  \/ \E v \in Ceremonies : VerifyStart(v) \/ VerifyStep(v)
  \/ \E c \in ChallengeIds : ChallengeLapses(c)
  \/ \E k \in Credentials, c \in ChallengeIds, t \in {"registration", "assertion"} :
       challenges[c] # NoRow /\ challenges[c].type = t /\ Signs(k, c, t)
  \/ CeremoniesLost

(* A step of the process is a step of the service, or leaves its Maps.       *)
LEMMA StepsOfMemory == [Next]_vars => [MemoryNext]_memVars
<1>1. ASSUME OAuthRoutes \/ RecoveryRoute PROVE MemoryNext
  BY <1>1 DEF OAuthRoutes, RecoveryRoute, MemoryNext, CountedCall, UncountedCall
<1>2. ASSUME NEW s \in SessionIds, MfaVerifyRoute(s) \/ SessionLookup(s) PROVE MemoryNext
  BY <1>2 DEF MfaVerifyRoute, SessionLookup, MemoryNext, UncountedCall
<1>3. ASSUME \/ DatabaseSignInRoutes \/ LogoutRoute \/ PasskeyRoutes
             \/ \E e \in Events : PostSnapshotReadyWebhook(e)
      PROVE  UNCHANGED memVars
  BY <1>3 DEF DatabaseSignInRoutes, LogoutRoute, PasskeyRoutes, PostSnapshotReadyWebhook
<1>4. ASSUME Crash PROVE MemoryNext
  BY <1>4 DEF Crash, MemoryNext
<1>5. ASSUME Environment PROVE [MemoryNext]_memVars
  BY <1>5 DEF Environment, MemoryNext
<1> QED
  BY <1>1, <1>2, <1>3, <1>4, <1>5 DEF Next, vars

(* The same of the passkey service and its tables.                           *)
LEMMA StepsOfPasskeys == [Next]_vars => [PasskeyNext]_passkeyVars
<1>1. ASSUME OAuthRoutes \/ RecoveryRoute \/ DatabaseSignInRoutes \/ LogoutRoute
      PROVE  UNCHANGED passkeyVars
  BY <1>1 DEF OAuthRoutes, RecoveryRoute, DatabaseSignInRoutes, LogoutRoute
<1>2. ASSUME NEW s \in SessionIds, MfaVerifyRoute(s) \/ SessionLookup(s)
      PROVE  UNCHANGED passkeyVars
  BY <1>2 DEF MfaVerifyRoute, SessionLookup
<1>3. ASSUME NEW e \in Events, PostSnapshotReadyWebhook(e) PROVE UNCHANGED passkeyVars
  BY <1>3 DEF PostSnapshotReadyWebhook
<1>4. ASSUME PasskeyRoutes PROVE PasskeyNext
  BY <1>4 DEF PasskeyRoutes, PasskeyNext
<1>5. ASSUME Crash PROVE PasskeyNext
  BY <1>5 DEF Crash, PasskeyNext
<1>6. ASSUME Environment PROVE [PasskeyNext]_passkeyVars
  BY <1>6 DEF Environment, PasskeyNext
<1> QED
  BY <1>1, <1>2, <1>3, <1>4, <1>5, <1>6 DEF Next, vars

-----------------------------------------------------------------------------
(* What a lock says of the wrong attempts g made against its key by time t:  *)
(* the attempts counted in it are the last ones, and those before them are   *)
(* older than a whole lock, or will be when the lock that runs now is over.  *)
FailsIn(l) == IF l = None THEN 0 ELSE l.fails
UntilIn(l) == IF l = None THEN 0 ELSE l.lockedUntil
Spread(g, gap, span) ==
  \A i \in 1..Len(g) : i + gap <= Len(g) => g[i + gap] >= g[i] + span
LockOK(g, l, t) ==
  /\ g \in Seq(Nat) /\ \A i \in 1..Len(g) : g[i] <= t
  /\ l \in {None} \cup [fails : Nat, lockedUntil : Nat]
  /\ l = None => g = <<>>
  /\ FailsIn(l) < Threshold /\ FailsIn(l) <= Len(g)
  /\ UntilIn(l) > 0 => FailsIn(l) = 0
  /\ \A i \in 1..Len(g) : i <= Len(g) - FailsIn(l)
       => g[i] + LockoutMs <= IF UntilIn(l) > 0 THEN UntilIn(l) ELSE t
  /\ Spread(g, Threshold, LockoutMs)

(* What a window rl says of the calls a bucket let pass by time t: the calls *)
(* counted in it are the last w, the first of them opened it, and a call     *)
(* that is a maximum before that one is two windows older than its end.      *)
CountedIn(rl, max) == IF rl.count <= max THEN rl.count ELSE max
BucketOK(a, rl, max, t) ==
  /\ a \in Seq(Nat) /\ \A i \in 1..Len(a) : a[i] <= t
  /\ \A i, j \in 1..Len(a) : i <= j => a[i] <= a[j]
  /\ rl \in {None} \cup [count : Nat, expiresAt : Nat]
  /\ rl = None => a = <<>>
  /\ rl # None =>
       LET w == CountedIn(rl, max)
       IN /\ rl.count >= 1 /\ w <= Len(a)
          /\ rl.expiresAt <= t + WindowMs
          /\ a[Len(a) - w + 1] + WindowMs = rl.expiresAt
          /\ \A i \in 1..Len(a) : i + w + max - 1 <= Len(a)
               => a[i] + 2 * WindowMs <= rl.expiresAt
  /\ Spread(a, 2 * max - 1, WindowMs)

(* The invariant of the in-memory service: its locks, its windows, and the   *)
(* sessions and states, whose undrawn ids name no entry.                     *)
LocksOK ==
  /\ lockouts \in [LockKeys -> {None} \cup [fails : Nat, lockedUntil : Nat]]
  /\ guesses \in [LockKeys -> Seq(Nat)]
  /\ \A k \in LockKeys : LockOK(guesses[k], lockouts[k], now)
BucketsOK ==
  /\ rateLimits \in [Buckets -> {None} \cup [count : Nat, expiresAt : Nat]]
  /\ admissions \in [Buckets -> Seq(Nat)]
  /\ \A b \in Buckets : BucketOK(admissions[b], rateLimits[b], MaxOf(b), now)
SessionType == {None} \cup
  [user : Users, state : {"pre_mfa", "authenticated"}, expiresAt : Nat]
EntriesOK ==
  /\ now \in 1..MaxTime
  /\ issued \in [states : 0..MaxStates, sessions : 0..MaxSessions]
  /\ oauthStates \in [StateIds -> {None} \cup [provider : Providers, expiresAt : Nat]]
  /\ sessions \in [SessionIds -> SessionType]
  /\ usersById \subseteq Users
  /\ SessionUsersKnown
  /\ \A i \in StateIds : i > issued.states => oauthStates[i] = None
  /\ \A s \in SessionIds : s > issued.sessions => sessions[s] = None
MemoryInv == LocksOK /\ BucketsOK /\ EntriesOK

(* The invariant of the passkey service.  A challenge that was accepted is   *)
(* gone and is not drawn again; a verification past its checks knows the     *)
(* user of its challenge, so that its DELETE reaches it.                     *)
Within(c) == c \in ChallengeIds /\ c <= drawn
CeremonyOK(it) ==
  LET row == challenges[it.response.challenge]
  IN /\ it \in CeremonyType
     /\ it.pc \in {"assert.credential", "assert.delete", "assert.update"}
          => Within(it.response.challenge)
     /\ it.pc \in {"assert.credential", "assert.delete"} /\ row # NoRow
          => row.user = it.user /\ row.type = "assertion"
     /\ it.pc = "assert.update" => row = NoRow
     /\ it.pc \in {"assert.delete", "assert.update"}
          => /\ it.response.counter >= it.seen
             /\ credentials[it.response.credential] # NoRow
PasskeyInv ==
  /\ PasskeyTypeOK
  /\ \A c \in ChallengeIds : c > drawn => challenges[c] = NoRow
  /\ \A c \in accepted : Within(c) /\ challenges[c] = NoRow
  /\ \A v \in Ceremonies : CeremonyOK(ceremony[v])

(* The invariant of the routes: the store's keys are what was accepted in    *)
(* this life, and the cookie names a session of the database, or one of the  *)
(* Maps that was drawn and elevated.                                         *)
RoutesInv ==
  /\ eventKeys \subseteq Events /\ accepts \in [Events -> Nat]
  /\ calls \in 0..MaxCalls /\ crashes \in 0..MaxCrashes
  /\ \A e \in Events :
       accepts[e] <= crashes + 1 /\ (e \notin eventKeys => accepts[e] <= crashes)
  /\ cookie \in SessionIds \cup DatabaseSessions \cup {None}
  /\ cookie \in SessionIds => cookie <= issued.sessions
  /\ MemoryCookieElevated

-----------------------------------------------------------------------------
(* The clock moves on, a wrong attempt and a right one keep what a lock says. *)
LEMMA LockKept ==
  ASSUME NEW g, NEW l, NEW t \in Nat, NEW u \in Nat, t <= u, LockOK(g, l, t)
  PROVE  LockOK(g, l, u)
<1> DEFINE n == Len(g)
           f == FailsIn(l)
           v == UntilIn(l)
<1>0. g \in Seq(Nat) /\ l \in {None} \cup [fails : Nat, lockedUntil : Nat]
  BY DEF LockOK
<1>1. /\ n \in Nat /\ f \in Nat /\ v \in Nat /\ LockoutMs \in Nat
      /\ \A i \in 1..n : g[i] \in Nat
  BY <1>0, MemoryAuthAssumption DEF FailsIn, UntilIn
<1>2. /\ \A i \in 1..n : g[i] <= t
      /\ \A i \in 1..n : i <= n - f => g[i] + LockoutMs <= IF v > 0 THEN v ELSE t
  BY DEF LockOK
<1> HIDE DEF n, f, v
<1>3. \A i \in 1..n : g[i] <= u
  BY <1>1, <1>2
<1>4. \A i \in 1..n : i <= n - f => g[i] + LockoutMs <= IF v > 0 THEN v ELSE u
  <2>1. CASE v > 0
    BY <2>1, <1>2
  <2>2. CASE ~(v > 0)
    BY <2>2, <1>1, <1>2
  <2> QED
    BY <2>1, <2>2
<1> QED
  BY <1>3, <1>4 DEF LockOK, n, f, v

(* A key without a lock and without attempts.                                *)
LEMMA LockEmpty == \A t \in Nat : LockOK(<<>>, None, t)
BY MemoryAuthAssumption DEF LockOK, FailsIn, UntilIn, Spread

(* A wrong attempt against a key that is not locked, locking it or not.      *)
LEMMA LockCounts ==
  ASSUME NEW g, NEW l, NEW t \in Nat, t >= 1, LockOK(g, l, t), UntilIn(l) <= t
  PROVE  LockOK(Append(g, t),
                IF FailsIn(l) + 1 >= Threshold
                THEN [fails |-> 0, lockedUntil |-> t + LockoutMs]
                ELSE [fails |-> FailsIn(l) + 1, lockedUntil |-> 0], t)
<1> DEFINE h == Append(g, t)
           n == Len(g)
           f == FailsIn(l)
           m == IF f + 1 >= Threshold
                THEN [fails |-> 0, lockedUntil |-> t + LockoutMs]
                ELSE [fails |-> f + 1, lockedUntil |-> 0]
<1>1. /\ g \in Seq(Nat) /\ n \in Nat /\ f \in Nat /\ f < Threshold /\ f <= n
      /\ Threshold \in Nat /\ LockoutMs \in Nat /\ UntilIn(l) \in Nat
      /\ Threshold >= 1 /\ LockoutMs >= 1
  BY MemoryAuthAssumption DEF LockOK, FailsIn, UntilIn
<1>2. /\ h \in Seq(Nat) /\ Len(h) = n + 1 /\ h[n + 1] = t
      /\ \A i \in 1..n : h[i] = g[i] /\ g[i] \in Nat
  BY <1>1
<1>3. \A i \in 1..n : g[i] <= t
  BY DEF LockOK
<1>4. \A i \in 1..n : i <= n - f => g[i] + LockoutMs <= t
  BY <1>1 DEF LockOK
<1>5. m \in [fails : Nat, lockedUntil : Nat] /\ m # None
  BY <1>1, MemoryAuthAssumption
<1>6. /\ FailsIn(m) = IF f + 1 >= Threshold THEN 0 ELSE f + 1
      /\ UntilIn(m) = IF f + 1 >= Threshold THEN t + LockoutMs ELSE 0
  BY <1>5 DEF FailsIn, UntilIn
<1> HIDE DEF h, m, f, n
<1>7. \A i \in 1..Len(h) : h[i] <= t
  BY <1>1, <1>2, <1>3
<1>8. FailsIn(m) < Threshold /\ FailsIn(m) <= Len(h) /\ (UntilIn(m) > 0 => FailsIn(m) = 0)
  BY <1>1, <1>2, <1>6
<1>9. \A i \in 1..Len(h) : i <= Len(h) - FailsIn(m)
        => h[i] + LockoutMs <= IF UntilIn(m) > 0 THEN UntilIn(m) ELSE t
  <2> DEFINE until == IF UntilIn(m) > 0 THEN UntilIn(m) ELSE t
  <2> HIDE DEF until
  <2> SUFFICES ASSUME NEW i \in 1..Len(h), i <= Len(h) - FailsIn(m)
               PROVE  h[i] + LockoutMs <= until
    BY DEF until
  <2>0. i \in 1..(n + 1) /\ i <= n + 1 - FailsIn(m)
    <3>1. FailsIn(m) \in Nat
      BY <1>1, <1>6
    <3> QED
      BY <3>1, <1>1, <1>2
  <2>1. h[i] \in Nat /\ h[i] <= t
    BY <1>2, <1>7
  <2>2. CASE f + 1 >= Threshold
    <3>1. UntilIn(m) = t + LockoutMs /\ UntilIn(m) > 0
      BY <2>2, <1>1, <1>6
    <3> QED
      BY <3>1, <2>1, <1>1 DEF until
  <2>3. CASE ~(f + 1 >= Threshold)
    <3>1. FailsIn(m) = f + 1 /\ UntilIn(m) = 0
      BY <2>3, <1>6
    <3>2. i \in 1..n /\ i <= n - f
      BY <3>1, <2>0, <1>1
    <3>3. h[i] + LockoutMs <= t
      BY <3>2, <1>2, <1>4
    <3> QED
      BY <3>1, <3>3 DEF until
  <2> QED
    BY <2>2, <2>3
<1>10. Spread(h, Threshold, LockoutMs)
  <2> SUFFICES ASSUME NEW i \in 1..Len(h), i + Threshold <= Len(h)
               PROVE  h[i + Threshold] >= h[i] + LockoutMs
    BY DEF Spread
  <2>1. CASE i + Threshold <= n
    <3>1. i \in 1..n /\ i + Threshold \in 1..n
      BY <2>1, <1>1, <1>2
    <3>2. g[i + Threshold] >= g[i] + LockoutMs
      BY <2>1, <3>1 DEF LockOK, Spread, n
    <3> QED
      BY <3>1, <3>2, <1>2
  <2>2. CASE i + Threshold = n + 1
    <3>1. i \in 1..n /\ i <= n - f
      BY <2>2, <1>1, <1>2
    <3>2. h[i] + LockoutMs <= t /\ h[i + Threshold] = t
      BY <3>1, <2>2, <1>2, <1>4
    <3> QED
      BY <3>2
  <2> QED
    BY <2>1, <2>2, <1>1, <1>2
<1>11. LockOK(h, m, t)
  BY <1>2, <1>5, <1>7, <1>8, <1>9, <1>10 DEF LockOK
<1> QED
  BY <1>11 DEF h, m, f

-----------------------------------------------------------------------------
(* The clock, a call in the open window, one that opens a window and one     *)
(* that is refused keep what a window says.                                  *)
LEMMA BucketKept ==
  ASSUME NEW a, NEW rl, NEW max \in Nat \ {0}, NEW t \in Nat, NEW u \in Nat, t <= u,
         BucketOK(a, rl, max, t)
  PROVE  BucketOK(a, rl, max, u)
<1> DEFINE n == Len(a)
<1>0. a \in Seq(Nat)
  BY DEF BucketOK
<1>1. n \in Nat /\ WindowMs \in Nat /\ \A i \in 1..n : a[i] \in Nat
  BY <1>0, MemoryAuthAssumption
<1>2. \A i \in 1..n : a[i] <= t
  BY DEF BucketOK
<1> HIDE DEF n
<1>3. \A i \in 1..n : a[i] <= u
  BY <1>1, <1>2
<1>4. ASSUME rl # None PROVE rl.expiresAt <= u + WindowMs
  <2>1. rl.expiresAt \in Nat /\ rl.expiresAt <= t + WindowMs
    BY <1>4 DEF BucketOK
  <2> QED
    BY <2>1, <1>1
<1> QED
  BY <1>3, <1>4 DEF BucketOK, n

(* A bucket that was never asked.                                            *)
LEMMA BucketEmpty == \A t \in Nat, max \in Nat \ {0} : BucketOK(<<>>, None, max, t)
BY MemoryAuthAssumption DEF BucketOK, Spread

(* A call that is refused is counted all the same.                           *)
LEMMA BucketRefuses ==
  ASSUME NEW a, NEW rl, NEW max \in Nat \ {0}, NEW t \in Nat, BucketOK(a, rl, max, t),
         rl # None, rl.count + 1 > max
  PROVE  BucketOK(a, [rl EXCEPT !.count = @ + 1], max, t)
<1> DEFINE m == [rl EXCEPT !.count = @ + 1]
<1>1. rl \in [count : Nat, expiresAt : Nat]
  BY DEF BucketOK
<1>2. m \in [count : Nat, expiresAt : Nat] /\ m.count = rl.count + 1
      /\ m.expiresAt = rl.expiresAt
  BY <1>1
<1>3. m # None
  BY <1>2, MemoryAuthAssumption
<1>4. rl.count \in Nat /\ rl.expiresAt \in Nat
  BY <1>1
<1>5. CountedIn(m, max) = max /\ CountedIn(rl, max) = max
  BY <1>2, <1>4 DEF CountedIn
<1>6. m.count >= 1
  BY <1>2, <1>4
<1> HIDE DEF m
<1>7. BucketOK(a, m, max, t)
  BY <1>2, <1>3, <1>5, <1>6 DEF BucketOK
<1> QED
  BY <1>7 DEF m

(* A call that the open window still has room for.                           *)
LEMMA BucketCounts ==
  ASSUME NEW a, NEW rl, NEW max \in Nat \ {0}, NEW t \in Nat, BucketOK(a, rl, max, t),
         rl # None, rl.expiresAt > t, rl.count + 1 <= max
  PROVE  BucketOK(Append(a, t), [rl EXCEPT !.count = @ + 1], max, t)
<1> DEFINE b == Append(a, t)
           n == Len(a)
           w == rl.count
           m == [rl EXCEPT !.count = @ + 1]
           e == rl.expiresAt
<1>0. rl \in [count : Nat, expiresAt : Nat] /\ w >= 1
  BY DEF BucketOK
<1>1. /\ m \in [count : Nat, expiresAt : Nat] /\ m # None
      /\ m.count = w + 1 /\ m.expiresAt = e
      /\ w \in Nat /\ w >= 1 /\ e \in Nat /\ e > t /\ w + 1 <= max
  BY <1>0, MemoryAuthAssumption
<1>2. CountedIn(rl, max) = w /\ CountedIn(m, max) = w + 1
  BY <1>1 DEF CountedIn
<1>3. a \in Seq(Nat) /\ n \in Nat /\ w <= n /\ WindowMs \in Nat
  BY <1>2, MemoryAuthAssumption DEF BucketOK
<1>4. /\ b \in Seq(Nat) /\ Len(b) = n + 1 /\ b[n + 1] = t
      /\ \A i \in 1..n : b[i] = a[i] /\ a[i] \in Nat
  BY <1>3
<1>5. /\ \A i \in 1..n : a[i] <= t
      /\ \A i, j \in 1..n : i <= j => a[i] <= a[j]
      /\ e <= t + WindowMs
      /\ a[n - w + 1] + WindowMs = e
      /\ \A i \in 1..n : i + w + max - 1 <= n => a[i] + 2 * WindowMs <= e
  BY <1>2 DEF BucketOK
<1> HIDE DEF b, m, n, w, e
<1>6. \A i \in 1..Len(b) : b[i] <= t
  <2> SUFFICES ASSUME NEW i \in 1..(n + 1) PROVE b[i] <= t
    BY <1>4
  <2>1. CASE i = n + 1
    BY <2>1, <1>4
  <2>2. CASE i # n + 1
    <3>1. i \in 1..n
      BY <2>2, <1>3
    <3> QED
      BY <3>1, <1>4, <1>5
  <2> QED
    BY <2>1, <2>2
<1>7. \A i, j \in 1..Len(b) : i <= j => b[i] <= b[j]
  <2> SUFFICES ASSUME NEW i \in 1..(n + 1), NEW j \in 1..(n + 1), i <= j
               PROVE  b[i] <= b[j]
    BY <1>4
  <2>1. CASE j = n + 1
    BY <2>1, <1>4, <1>6
  <2>2. CASE j # n + 1
    <3>1. i \in 1..n /\ j \in 1..n
      BY <2>2, <1>3
    <3> QED
      BY <3>1, <1>4, <1>5
  <2> QED
    BY <2>1, <2>2
<1>8. /\ w + 1 <= Len(b)
      /\ b[Len(b) - (w + 1) + 1] + WindowMs = e
  <2>1. n - w + 1 \in 1..n /\ Len(b) - (w + 1) + 1 = n - w + 1
    BY <1>1, <1>3, <1>4
  <2> QED
    BY <2>1, <1>1, <1>3, <1>4, <1>5
<1>9. \A i \in 1..Len(b) : i + (w + 1) + max - 1 <= Len(b)
        => b[i] + 2 * WindowMs <= e
  <2> SUFFICES ASSUME NEW i \in 1..(n + 1), i + (w + 1) + max - 1 <= n + 1
               PROVE  b[i] + 2 * WindowMs <= e
    BY <1>4
  <2>1. i \in 1..n /\ i + w + max - 1 <= n
    BY <1>1, <1>3
  <2> QED
    BY <2>1, <1>4, <1>5
<1>10. Spread(b, 2 * max - 1, WindowMs)
  <2> SUFFICES ASSUME NEW i \in 1..(n + 1), i + (2 * max - 1) <= n + 1
               PROVE  b[i + (2 * max - 1)] >= b[i] + WindowMs
    BY <1>4 DEF Spread
  <2>1. CASE i + (2 * max - 1) <= n
    <3>1. i \in 1..n /\ i + (2 * max - 1) \in 1..n
      BY <2>1, <1>3
    <3>2. a[i + (2 * max - 1)] >= a[i] + WindowMs
      BY <2>1, <3>1 DEF BucketOK, Spread, n
    <3> QED
      BY <3>1, <3>2, <1>4
  <2>2. CASE i + (2 * max - 1) = n + 1
    <3>1. i \in 1..n /\ i + w + max - 1 <= n
      BY <2>2, <1>1, <1>3
    <3>2. a[i] + 2 * WindowMs <= e /\ e <= t + WindowMs
      BY <3>1, <1>5
    <3>4. a[i] \in Nat
      BY <3>1, <1>4
    <3>3. b[i] = a[i] /\ b[i + (2 * max - 1)] = t
      BY <2>2, <3>1, <1>4
    <3> QED
      BY <3>2, <3>3, <3>4, <1>1, <1>3
  <2> QED
    BY <2>1, <2>2, <1>3
<1>11. BucketOK(b, m, max, t)
  BY <1>1, <1>2, <1>4, <1>5, <1>6, <1>7, <1>8, <1>9, <1>10 DEF BucketOK, e
<1> QED
  BY <1>11 DEF b, m

(* The call that opens a window.                                             *)
LEMMA BucketOpens ==
  ASSUME NEW a, NEW rl, NEW max \in Nat \ {0}, NEW t \in Nat, BucketOK(a, rl, max, t),
         rl = None \/ rl.expiresAt <= t
  PROVE  BucketOK(Append(a, t), [count |-> 1, expiresAt |-> t + WindowMs], max, t)
<1> DEFINE b == Append(a, t)
           n == Len(a)
           w == CountedIn(rl, max)
           m == [count |-> 1, expiresAt |-> t + WindowMs]
<1>1. a \in Seq(Nat) /\ n \in Nat /\ WindowMs \in Nat
  BY MemoryAuthAssumption DEF BucketOK
<1>2. m \in [count : Nat, expiresAt : Nat] /\ m # None /\ CountedIn(m, max) = 1
  BY <1>1, MemoryAuthAssumption DEF CountedIn
<1>3. /\ b \in Seq(Nat) /\ Len(b) = n + 1 /\ b[n + 1] = t
      /\ \A i \in 1..n : b[i] = a[i] /\ a[i] \in Nat
  BY <1>1
<1>4. /\ \A i \in 1..n : a[i] <= t
      /\ \A i, j \in 1..n : i <= j => a[i] <= a[j]
  BY DEF BucketOK
<1> HIDE DEF b, m, n, w
<1>5. ASSUME NEW i \in 1..n, i <= n + 1 - max PROVE a[i] + WindowMs <= t
  <2>1. rl # None
    <3>1. a # <<>>
      BY <1>1 DEF n
    <3> QED
      BY <3>1 DEF BucketOK
  <2>2. /\ w \in Nat /\ w >= 1 /\ w <= max /\ w <= n
        /\ a[n - w + 1] + WindowMs = rl.expiresAt /\ rl.expiresAt \in Nat
    BY <2>1 DEF BucketOK, CountedIn, w, n
  <2>3. i <= n - w + 1 /\ n - w + 1 \in 1..n
    BY <2>2, <1>1, <1>5
  <2>4. a[i] <= a[n - w + 1]
    BY <2>3, <1>4
  <2>5. rl.expiresAt <= t
    BY <2>1
  <2>6. a[i] \in Nat /\ a[n - w + 1] \in Nat
    BY <2>3, <1>3
  <2> QED
    BY <2>2, <2>4, <2>5, <2>6, <1>1
<1>6. \A i \in 1..Len(b) : b[i] <= t
  <2> SUFFICES ASSUME NEW i \in 1..(n + 1) PROVE b[i] <= t
    BY <1>3
  <2>1. CASE i = n + 1
    BY <2>1, <1>3
  <2>2. CASE i # n + 1
    <3>1. i \in 1..n
      BY <2>2, <1>1
    <3> QED
      BY <3>1, <1>3, <1>4
  <2> QED
    BY <2>1, <2>2
<1>7. \A i, j \in 1..Len(b) : i <= j => b[i] <= b[j]
  <2> SUFFICES ASSUME NEW i \in 1..(n + 1), NEW j \in 1..(n + 1), i <= j
               PROVE  b[i] <= b[j]
    BY <1>3
  <2>1. CASE j = n + 1
    BY <2>1, <1>3, <1>6
  <2>2. CASE j # n + 1
    <3>1. i \in 1..n /\ j \in 1..n
      BY <2>2, <1>1
    <3> QED
      BY <3>1, <1>3, <1>4
  <2> QED
    BY <2>1, <2>2
<1>8. \A i \in 1..Len(b) : i + 1 + max - 1 <= Len(b)
        => b[i] + 2 * WindowMs <= t + WindowMs
  <2> SUFFICES ASSUME NEW i \in 1..(n + 1), i + 1 + max - 1 <= n + 1
               PROVE  b[i] + 2 * WindowMs <= t + WindowMs
    BY <1>3
  <2>1. i \in 1..n /\ i <= n + 1 - max
    BY <1>1
  <2>2. a[i] + WindowMs <= t /\ b[i] = a[i] /\ a[i] \in Nat
    BY <2>1, <1>3, <1>5
  <2> QED
    BY <2>2, <1>1
<1>9. Spread(b, 2 * max - 1, WindowMs)
  <2> SUFFICES ASSUME NEW i \in 1..(n + 1), i + (2 * max - 1) <= n + 1
               PROVE  b[i + (2 * max - 1)] >= b[i] + WindowMs
    BY <1>3 DEF Spread
  <2>1. CASE i + (2 * max - 1) <= n
    <3>1. i \in 1..n /\ i + (2 * max - 1) \in 1..n
      BY <2>1, <1>1
    <3>2. a[i + (2 * max - 1)] >= a[i] + WindowMs
      BY <2>1, <3>1 DEF BucketOK, Spread, n
    <3> QED
      BY <3>1, <3>2, <1>3
  <2>2. CASE i + (2 * max - 1) = n + 1
    <3>1. i \in 1..n /\ i <= n + 1 - max
      BY <2>2, <1>1
    <3>2. a[i] + WindowMs <= t /\ b[i] = a[i] /\ b[i + (2 * max - 1)] = t
      BY <2>2, <3>1, <1>3, <1>5
    <3> QED
      BY <3>2
  <2> QED
    BY <2>1, <2>2, <1>1
<1>10. BucketOK(b, m, max, t)
  <2>1. m.count = 1 /\ m.expiresAt = t + WindowMs
    BY DEF m
  <2>2. n + 1 - 1 + 1 = n + 1 /\ 1 <= n + 1
    BY <1>1
  <2> QED
    BY <2>1, <2>2, <1>1, <1>2, <1>3, <1>6, <1>7, <1>8, <1>9 DEF BucketOK
<1> QED
  BY <1>10 DEF b, m

-----------------------------------------------------------------------------
(* The numbers of the configuration.                                         *)
LEMMA MemoryNumbers ==
  /\ Threshold \in Nat \ {0} /\ LockoutMs \in Nat \ {0} /\ WindowMs \in Nat \ {0}
  /\ StateTtl \in Nat /\ PreMfaTtl \in Nat /\ AuthTtl \in Nat
  /\ MaxStates \in Nat /\ MaxSessions \in Nat /\ MaxTime \in Nat \ {0}
  /\ \A b : MaxOf(b) \in Nat \ {0}
<1>1. MaxPerIp \in Nat \ {0} /\ MaxPerAccount \in Nat \ {0}
  BY MemoryAuthAssumption
<1>2. \A b : MaxOf(b) \in Nat \ {0}
  BY <1>1 DEF MaxOf
<1> QED
  BY <1>2, MemoryAuthAssumption

(* What leaves the locks alone keeps them while the clock does not go back.  *)
LEMMA LocksIdle ==
  ASSUME LocksOK, now \in Nat, now' \in Nat, now <= now', UNCHANGED <<lockouts, guesses>>
  PROVE  LocksOK'
<1> SUFFICES ASSUME NEW k \in LockKeys PROVE LockOK(guesses[k], lockouts[k], now')
  BY DEF LocksOK, LockKeys, Users
<1>1. LockOK(guesses[k], lockouts[k], now)
  BY DEF LocksOK
<1> QED
  BY <1>1, LockKept

(* A wrong attempt (failAuthAttempt), whichever handler makes it.            *)
LEMMA LocksFail ==
  ASSUME LocksOK, now \in Nat, now >= 1, now' = now,
         NEW k \in LockKeys, ~Locked(k), FailAuthAttempt(k)
  PROVE  LocksOK'
<1> DEFINE m == IF Fails(k) + 1 >= Threshold
                THEN [fails |-> 0, lockedUntil |-> now + LockoutMs]
                ELSE [fails |-> Fails(k) + 1, lockedUntil |-> 0]
<1>1. /\ lockouts' = [lockouts EXCEPT ![k] = m]
      /\ guesses' = [guesses EXCEPT ![k] = Append(guesses[k], now)]
  BY DEF FailAuthAttempt
<1>2. LockOK(guesses[k], lockouts[k], now)
  BY DEF LocksOK
<1>3. lockouts[k] \in {None} \cup [fails : Nat, lockedUntil : Nat]
  BY DEF LocksOK
<1>4. Fails(k) = FailsIn(lockouts[k])
  BY <1>2, <1>3 DEF LockOK, Fails, FailsIn, UntilIn
<1>5. UntilIn(lockouts[k]) <= now
  BY <1>3 DEF Locked, UntilIn
<1>6. LockOK(Append(guesses[k], now), m, now)
  BY <1>2, <1>4, <1>5, LockCounts
<1>7. m \in {None} \cup [fails : Nat, lockedUntil : Nat] /\ Append(guesses[k], now) \in Seq(Nat)
  BY <1>6 DEF LockOK
<1> HIDE DEF m
<1>8. lockouts' \in [LockKeys -> {None} \cup [fails : Nat, lockedUntil : Nat]]
  BY <1>1, <1>7 DEF LocksOK
<1>9. guesses' \in [LockKeys -> Seq(Nat)]
  BY <1>1, <1>7 DEF LocksOK
<1>10. ASSUME NEW j \in LockKeys PROVE LockOK(guesses'[j], lockouts'[j], now)
  <2>1. CASE j = k
    BY <2>1, <1>1, <1>6 DEF LocksOK
  <2>2. CASE j # k
    BY <2>2, <1>1 DEF LocksOK
  <2> QED
    BY <2>1, <2>2
<1> QED
  BY <1>8, <1>9, <1>10 DEF LocksOK, LockKeys, Users

(* A right attempt (clearAuthFailures).                                      *)
LEMMA LocksClear ==
  ASSUME LocksOK, now \in Nat, now' = now, NEW k \in LockKeys, ClearAuthFailures(k)
  PROVE  LocksOK'
<1>1. /\ lockouts' = [lockouts EXCEPT ![k] = None]
      /\ guesses' = [guesses EXCEPT ![k] = <<>>]
  BY DEF ClearAuthFailures
<1>2. LockOK(<<>>, None, now)
  BY LockEmpty
<1>3. ASSUME NEW j \in LockKeys PROVE LockOK(guesses'[j], lockouts'[j], now)
  <2>1. CASE j = k
    BY <2>1, <1>1, <1>2 DEF LocksOK
  <2>2. CASE j # k
    BY <2>2, <1>1 DEF LocksOK
  <2> QED
    BY <2>1, <2>2
<1>4. lockouts' \in [LockKeys -> {None} \cup [fails : Nat, lockedUntil : Nat]]
  BY <1>1 DEF LocksOK
<1>5. guesses' \in [LockKeys -> Seq(Nat)]
  BY <1>1 DEF LocksOK
<1> QED
  BY <1>3, <1>4, <1>5 DEF LocksOK, LockKeys, Users

-----------------------------------------------------------------------------
(* What leaves the windows alone keeps them.                                 *)
LEMMA BucketsIdle ==
  ASSUME BucketsOK, now \in Nat, now' \in Nat, now <= now',
         UNCHANGED <<rateLimits, admissions>>
  PROVE  BucketsOK'
<1> SUFFICES ASSUME NEW b \in Buckets
             PROVE  BucketOK(admissions[b], rateLimits[b], MaxOf(b), now')
  BY DEF BucketsOK
<1>1. BucketOK(admissions[b], rateLimits[b], MaxOf(b), now)
  BY DEF BucketsOK
<1> QED
  BY <1>1, BucketKept, MemoryNumbers

(* Every route counts the buckets it asks and lets pass those with room.     *)
LEMMA BucketsCount ==
  ASSUME BucketsOK, now \in Nat, now' = now, NEW hit, NEW passed,
         passed = {b \in hit : ~Limited(b)}, Throttle(hit, passed)
  PROVE  BucketsOK'
<1>1. /\ rateLimits' = [b \in Buckets |-> IF b \in hit THEN Counted(b) ELSE rateLimits[b]]
      /\ admissions' = [b \in Buckets |->
           IF b \in passed THEN Append(admissions[b], now) ELSE admissions[b]]
  BY DEF Throttle
<1>2. ASSUME NEW b \in Buckets
      PROVE  BucketOK(admissions'[b], rateLimits'[b], MaxOf(b), now)
  <2> DEFINE a == admissions[b]
             rl == rateLimits[b]
             max == MaxOf(b)
  <2>1. BucketOK(a, rl, max, now) /\ max \in Nat \ {0}
    BY MemoryNumbers DEF BucketsOK
  <2>2. CASE b \notin hit
    BY <2>2, <2>1, <1>1
  <2>3. CASE b \in hit /\ ~WindowOpen(b)
    <3>1. b \in passed /\ Counted(b) = [count |-> 1, expiresAt |-> now + WindowMs]
      BY <2>3 DEF Counted, Limited
    <3>2. rl = None \/ rl.expiresAt <= now
      BY <2>3, <2>1 DEF WindowOpen, BucketOK
    <3>3. BucketOK(Append(a, now), [count |-> 1, expiresAt |-> now + WindowMs], max, now)
      BY <2>1, <3>2, BucketOpens
    <3> QED
      BY <2>3, <3>1, <3>3, <1>1
  <2>4. CASE b \in hit /\ WindowOpen(b) /\ b \in passed
    <3>1. rl # None /\ rl.expiresAt > now /\ ~(rl.count + 1 > max)
      BY <2>4 DEF WindowOpen, Limited
    <3>2. rl.count \in Nat
      BY <2>1, <3>1 DEF BucketOK
    <3>3. rl.count + 1 <= max
      BY <3>1, <3>2, <2>1
    <3>4. BucketOK(Append(a, now), [rl EXCEPT !.count = @ + 1], max, now)
      BY <2>1, <3>1, <3>3, BucketCounts
    <3>5. Counted(b) = [rl EXCEPT !.count = @ + 1]
      BY <2>4 DEF Counted
    <3> QED
      BY <2>4, <3>4, <3>5, <1>1
  <2>5. CASE b \in hit /\ WindowOpen(b) /\ b \notin passed
    <3>1. rl # None /\ rl.count + 1 > max
      BY <2>5 DEF WindowOpen, Limited
    <3>2. BucketOK(a, [rl EXCEPT !.count = @ + 1], max, now)
      BY <2>1, <3>1, BucketRefuses
    <3>3. Counted(b) = [rl EXCEPT !.count = @ + 1]
      BY <2>5 DEF Counted
    <3> QED
      BY <2>5, <3>2, <3>3, <1>1
  <2> QED
    BY <2>2, <2>3, <2>4, <2>5
<1>3. ASSUME NEW b \in Buckets
      PROVE  /\ rateLimits'[b] \in {None} \cup [count : Nat, expiresAt : Nat]
             /\ admissions'[b] \in Seq(Nat)
  BY <1>2 DEF BucketOK
<1>4. rateLimits' \in [Buckets -> {None} \cup [count : Nat, expiresAt : Nat]]
  BY <1>1, <1>3
<1>5. admissions' \in [Buckets -> Seq(Nat)]
  BY <1>1, <1>3
<1> QED
  BY <1>2, <1>4, <1>5 DEF BucketsOK

-----------------------------------------------------------------------------
(* A pre_mfa session is opened under a fresh id, for a user in usersById.    *)
LEMMA EntriesOpen ==
  ASSUME EntriesOK, NEW u \in Users, OpenSession(u), u \in usersById',
         usersById' \subseteq Users, usersById \subseteq usersById', now' = now,
         oauthStates' \in [StateIds -> {None} \cup [provider : Providers, expiresAt : Nat]],
         \A i \in StateIds : oauthStates[i] = None => oauthStates'[i] = None
  PROVE  EntriesOK'
<1> DEFINE n == issued.sessions
           row == [user |-> u, state |-> "pre_mfa", expiresAt |-> now + PreMfaTtl]
<1>1. /\ n \in 0..MaxSessions /\ n < MaxSessions
      /\ issued \in [states : 0..MaxStates, sessions : 0..MaxSessions]
      /\ issued' = [issued EXCEPT !.sessions = n + 1]
      /\ sessions' = [sessions EXCEPT ![n + 1] = row]
  BY DEF EntriesOK, OpenSession
<1>2. /\ issued' \in [states : 0..MaxStates, sessions : 0..MaxSessions]
      /\ issued'.sessions = n + 1 /\ issued'.states = issued.states
      /\ n + 1 \in SessionIds
  BY <1>1, MemoryNumbers DEF SessionIds
<1>3. row \in SessionType /\ row.user = u
  BY MemoryNumbers DEF EntriesOK, SessionType
<1>4. sessions' \in [SessionIds -> SessionType]
  BY <1>1, <1>3 DEF EntriesOK
<1>5. ASSUME NEW s \in SessionIds
      PROVE  /\ sessions'[s] # None => sessions'[s].user \in usersById'
             /\ s > n + 1 => sessions'[s] = None
  <2>1. CASE s = n + 1
    BY <2>1, <1>1, <1>3 DEF EntriesOK
  <2>2. CASE s # n + 1
    <3>1. sessions'[s] = sessions[s]
      BY <2>2, <1>1 DEF EntriesOK
    <3>2. s > n + 1 => s > n
      BY <1>1, MemoryNumbers DEF SessionIds
    <3> QED
      BY <3>1, <3>2 DEF EntriesOK, SessionUsersKnown
  <2> QED
    BY <2>1, <2>2
<1> HIDE DEF n, row
<1>6. SessionUsersKnown'
  BY <1>5 DEF SessionUsersKnown, SessionIds
<1> QED
  BY <1>2, <1>4, <1>5, <1>6 DEF EntriesOK, SessionIds, StateIds, SessionType, Users

(* What leaves states, sessions and users alone keeps them.                  *)
LEMMA EntriesIdle ==
  ASSUME EntriesOK, UNCHANGED <<oauthStates, sessions, usersById, issued>>, now' \in 1..MaxTime
  PROVE  EntriesOK'
BY DEF EntriesOK, SessionUsersKnown, SessionIds, StateIds, SessionType, Users

(* The process starts with empty Maps.                                       *)
LEMMA MemoryFirst == MemoryInit => MemoryInv
<1> SUFFICES ASSUME MemoryInit PROVE MemoryInv
  OBVIOUS
<1>1. LocksOK
  BY LockEmpty DEF MemoryInit, EmptyMaps, LocksOK
<1>2. BucketsOK
  BY BucketEmpty, MemoryNumbers DEF MemoryInit, EmptyMaps, BucketsOK
<1>3. EntriesOK
  BY MemoryNumbers DEF MemoryInit, EmptyMaps, EntriesOK, SessionType, SessionUsersKnown
<1> QED
  BY <1>1, <1>2, <1>3 DEF MemoryInv

(* So does the next one; the random ids stay drawn.                          *)
LEMMA MemoryRestarts == ASSUME MemoryInv, Restart PROVE MemoryInv'
<1>0. now \in 1..MaxTime /\ now' = now /\ issued' = issued
  BY DEF MemoryInv, EntriesOK, Restart
<1>1. now \in Nat
  BY <1>0, MemoryNumbers
<1>2. LocksOK'
  BY <1>0, <1>1, LockEmpty DEF Restart, EmptyMaps, LocksOK, LockKeys, Users
<1>3. BucketsOK'
  BY <1>0, <1>1, BucketEmpty, MemoryNumbers
     DEF Restart, EmptyMaps, BucketsOK, Buckets, IpBuckets, MaxOf
<1>4. EntriesOK'
  BY <1>0 DEF Restart, EmptyMaps, MemoryInv, EntriesOK, SessionType, SessionUsersKnown,
     SessionIds, StateIds, Users
<1> QED
  BY <1>2, <1>3, <1>4 DEF MemoryInv

(* The calls of the routes that are limited.                                 *)
LEMMA MemoryCounts == ASSUME MemoryInv, CountedCall PROVE MemoryInv'
<1>0. LocksOK /\ BucketsOK /\ EntriesOK /\ now \in Nat /\ now >= 1 /\ now \in 1..MaxTime
  BY MemoryNumbers DEF MemoryInv, EntriesOK
<1>1. ASSUME NEW st \in StateIds, NEW p \in Providers, NEW ip \in Ips,
             CallbackThrottled(st, p, ip)
      PROVE  MemoryInv'
  <2>1. Throttle({<<"oauth-ip", ip>>}, {}) /\ {} = {b \in {<<"oauth-ip", ip>>} : ~Limited(b)}
    BY <1>1 DEF CallbackThrottled
  <2>2. BucketsOK'
    BY <1>0, <1>1, <2>1, BucketsCount DEF CallbackThrottled
  <2>3. LocksOK' /\ EntriesOK'
    BY <1>0, <1>1, LocksIdle, EntriesIdle DEF CallbackThrottled
  <2> QED
    BY <2>2, <2>3 DEF MemoryInv
<1>2. ASSUME NEW st \in StateIds, NEW p \in Providers, NEW ip \in Ips, NEW c \in Codes,
             CallbackAccepted(st, p, c, ip)
      PROVE  MemoryInv'
  <2>1. /\ Throttle({<<"oauth-ip", ip>>}, {<<"oauth-ip", ip>>})
        /\ {<<"oauth-ip", ip>>} = {b \in {<<"oauth-ip", ip>>} : ~Limited(b)}
    BY <1>2 DEF CallbackAccepted
  <2>2. BucketsOK'
    BY <1>0, <1>2, <2>1, BucketsCount DEF CallbackAccepted
  <2>3. LocksOK'
    BY <1>0, <1>2, LocksIdle DEF CallbackAccepted
  <2>4. /\ oauthStates' = [oauthStates EXCEPT ![st] = None]
        /\ usersById' = usersById \cup {<<c, p>>} /\ <<c, p>> \in Users
    BY <1>2 DEF CallbackAccepted, Users
  <2>5. EntriesOK'
    <3>1. /\ oauthStates' \in [StateIds -> {None} \cup [provider : Providers, expiresAt : Nat]]
          /\ \A i \in StateIds : oauthStates[i] = None => oauthStates'[i] = None
      BY <2>4, <1>0 DEF EntriesOK
    <3>2. usersById' \subseteq Users /\ usersById \subseteq usersById' /\ <<c, p>> \in usersById'
      BY <2>4, <1>0 DEF EntriesOK
    <3> QED
      BY <3>1, <3>2, <2>4, <1>0, <1>2, EntriesOpen DEF CallbackAccepted
  <2> QED
    BY <2>2, <2>3, <2>5 DEF MemoryInv
<1>3. ASSUME NEW ip \in Ips, RecoveryRight(ip) PROVE MemoryInv'
  <2> DEFINE hit == {IpBucket(ip), AccountBucket(RecoveryEmail)}
  <2>1. Throttle(hit, hit) /\ hit = {b \in hit : ~Limited(b)}
    BY <1>3 DEF RecoveryRight, CountRecovery, RecoveryAdmitted
  <2>2. BucketsOK'
    BY <1>0, <1>3, <2>1, BucketsCount DEF RecoveryRight
  <2>3. RecoveryEmail \in LockKeys /\ RecoveryUser \in Users
    BY MemoryAuthAssumption DEF LockKeys, Users
  <2>4. LocksOK'
    BY <1>0, <1>3, <2>3, LocksClear DEF RecoveryRight
  <2>5. EntriesOK'
    <3>1. oauthStates' = oauthStates /\ usersById' = usersById \cup {RecoveryUser} /\ now' = now
          /\ OpenSession(RecoveryUser)
      BY <1>3 DEF RecoveryRight
    <3>2. /\ usersById' \subseteq Users /\ usersById \subseteq usersById'
          /\ RecoveryUser \in usersById'
          /\ oauthStates' \in [StateIds -> {None} \cup [provider : Providers, expiresAt : Nat]]
      BY <3>1, <2>3, <1>0 DEF EntriesOK
    <3> QED
      BY <3>1, <3>2, <2>3, <1>0, EntriesOpen
  <2> QED
    BY <2>2, <2>4, <2>5 DEF MemoryInv
<1>4. ASSUME NEW ip \in Ips, NEW email \in RecoveryEmails, RecoveryThrottled(email, ip)
      PROVE  MemoryInv'
  <2>1. \E hit : Throttle(hit, {b \in hit : ~Limited(b)})
    <3>1. CASE Limited(IpBucket(ip)) /\ Throttle({IpBucket(ip)}, {})
      <4>1. {} = {b \in {IpBucket(ip)} : ~Limited(b)}
        BY <3>1
      <4> QED
        BY <3>1, <4>1
    <3>2. CASE /\ ~Limited(IpBucket(ip)) /\ Limited(AccountBucket(email))
               /\ Throttle({IpBucket(ip), AccountBucket(email)}, {IpBucket(ip)})
      <4>1. {IpBucket(ip)} = {b \in {IpBucket(ip), AccountBucket(email)} : ~Limited(b)}
        BY <3>2
      <4> QED
        BY <3>2, <4>1
    <3> QED
      BY <1>4, <3>1, <3>2 DEF RecoveryThrottled
  <2>2. BucketsOK'
    BY <1>0, <1>4, <2>1, BucketsCount DEF RecoveryThrottled
  <2>3. LocksOK' /\ EntriesOK'
    BY <1>0, <1>4, LocksIdle, EntriesIdle DEF RecoveryThrottled
  <2> QED
    BY <2>2, <2>3 DEF MemoryInv
<1>5. ASSUME NEW ip \in Ips, NEW email \in RecoveryEmails,
             RecoveryLocked(email, ip) \/ RecoveryWrong(email, ip)
      PROVE  MemoryInv'
  <2> DEFINE hit == {IpBucket(ip), AccountBucket(email)}
  <2>1. Throttle(hit, hit) /\ hit = {b \in hit : ~Limited(b)}
    BY <1>5 DEF RecoveryLocked, RecoveryWrong, CountRecovery, RecoveryAdmitted
  <2>2. BucketsOK'
    BY <1>0, <1>5, <2>1, BucketsCount DEF RecoveryLocked, RecoveryWrong
  <2>3. email \in LockKeys
    BY DEF LockKeys
  <2>4. LocksOK'
    BY <1>0, <1>5, <2>3, LocksIdle, LocksFail DEF RecoveryLocked, RecoveryWrong
  <2>5. EntriesOK'
    BY <1>0, <1>5, EntriesIdle DEF RecoveryLocked, RecoveryWrong
  <2> QED
    BY <2>2, <2>4, <2>5 DEF MemoryInv
<1> QED
  BY <1>1, <1>2, <1>3, <1>4, <1>5 DEF CountedCall

(* The calls that are not limited, and a session found over.                 *)
LEMMA MemoryUncounted == ASSUME MemoryInv, UncountedCall PROVE MemoryInv'
<1>0. LocksOK /\ BucketsOK /\ EntriesOK /\ now \in Nat /\ now >= 1 /\ now \in 1..MaxTime
  BY MemoryNumbers DEF MemoryInv, EntriesOK
<1>1. ASSUME NEW p \in Providers, StartOAuth(p) PROVE MemoryInv'
  <2> DEFINE n == issued.states
             row == [provider |-> p, expiresAt |-> now + StateTtl]
  <2>1. /\ n \in 0..MaxStates /\ n < MaxStates
        /\ issued \in [states : 0..MaxStates, sessions : 0..MaxSessions]
        /\ issued' = [issued EXCEPT !.states = n + 1]
        /\ oauthStates' = [oauthStates EXCEPT ![n + 1] = row]
    BY <1>0, <1>1 DEF StartOAuth, EntriesOK
  <2>2. /\ issued' \in [states : 0..MaxStates, sessions : 0..MaxSessions]
        /\ issued'.states = n + 1 /\ issued'.sessions = issued.sessions
        /\ n + 1 \in StateIds
    BY <2>1, MemoryNumbers DEF StateIds
  <2>3. row \in [provider : Providers, expiresAt : Nat]
    BY <1>0, MemoryNumbers
  <2>4. oauthStates' \in [StateIds -> {None} \cup [provider : Providers, expiresAt : Nat]]
    BY <1>0, <2>1, <2>3 DEF EntriesOK
  <2>5. ASSUME NEW i \in StateIds, i > n + 1 PROVE oauthStates'[i] = None
    <3>1. i > n /\ i # n + 1
      BY <2>1, <2>5, MemoryNumbers DEF StateIds
    <3> QED
      BY <3>1, <2>1, <1>0 DEF EntriesOK
  <2> HIDE DEF n, row
  <2>6. EntriesOK'
    BY <1>0, <1>1, <2>2, <2>4, <2>5
       DEF StartOAuth, EntriesOK, SessionUsersKnown, SessionIds, StateIds, SessionType, Users
  <2>7. LocksOK' /\ BucketsOK'
    BY <1>0, <1>1, LocksIdle, BucketsIdle DEF StartOAuth
  <2> QED
    BY <2>6, <2>7 DEF MemoryInv
<1>2. ASSUME NEW s \in SessionIds, VerifyMfaWrong(s) PROVE MemoryInv'
  <2>1. sessions[s].user \in LockKeys /\ ~Locked(sessions[s].user)
    BY <1>0, <1>2 DEF VerifyMfaWrong, MayTryCode, EntriesOK, SessionType, LockKeys
  <2>2. LocksOK'
    BY <1>0, <1>2, <2>1, LocksFail DEF VerifyMfaWrong
  <2>3. BucketsOK' /\ EntriesOK'
    BY <1>0, <1>2, BucketsIdle, EntriesIdle DEF VerifyMfaWrong
  <2> QED
    BY <2>2, <2>3 DEF MemoryInv
<1>3. ASSUME NEW s \in SessionIds, VerifyMfaRight(s) PROVE MemoryInv'
  <2>1. /\ sessions[s] \in [user : Users, state : {"pre_mfa", "authenticated"}, expiresAt : Nat]
        /\ sessions[s] # None /\ sessions[s].user \in LockKeys
    BY <1>0, <1>3 DEF VerifyMfaRight, MayTryCode, EntriesOK, SessionType, LockKeys
  <2>2. LocksOK'
    BY <1>0, <1>3, <2>1, LocksClear DEF VerifyMfaRight
  <2>3. BucketsOK'
    BY <1>0, <1>3, BucketsIdle DEF VerifyMfaRight
  <2> DEFINE row == [sessions[s] EXCEPT !.state = "authenticated", !.expiresAt = now + AuthTtl]
  <2>4. row \in SessionType /\ row.user = sessions[s].user
    <3>1. now + AuthTtl \in Nat
      BY <1>0, MemoryNumbers
    <3> QED
      BY <2>1, <3>1 DEF SessionType
  <2>5. sessions' = [sessions EXCEPT ![s] = row]
    BY <1>0, <1>3 DEF VerifyMfaRight, EntriesOK
  <2> HIDE DEF row
  <2>6. sessions' \in [SessionIds -> SessionType]
    BY <1>0, <2>4, <2>5 DEF EntriesOK
  <2>7. ASSUME NEW j \in SessionIds
        PROVE  /\ sessions'[j] # None => sessions'[j].user \in usersById
               /\ j > issued.sessions => sessions'[j] = None
    BY <1>0, <2>1, <2>4, <2>5 DEF EntriesOK, SessionUsersKnown
  <2>8. EntriesOK'
    BY <1>0, <1>3, <2>6, <2>7
       DEF VerifyMfaRight, EntriesOK, SessionUsersKnown, SessionIds, StateIds, SessionType, Users
  <2> QED
    BY <2>2, <2>3, <2>8 DEF MemoryInv
<1>4. ASSUME NEW s \in SessionIds, GetExpired(s) PROVE MemoryInv'
  <2>1. LocksOK' /\ BucketsOK'
    BY <1>0, <1>4, LocksIdle, BucketsIdle DEF GetExpired
  <2>2. sessions' \in [SessionIds -> SessionType]
    BY <1>0, <1>4 DEF GetExpired, EntriesOK, SessionType
  <2>3. \A j \in SessionIds : sessions'[j] = None \/ sessions'[j] = sessions[j]
    BY <1>0, <1>4 DEF GetExpired, EntriesOK
  <2>4. EntriesOK'
    BY <1>0, <1>4, <2>2, <2>3
       DEF GetExpired, EntriesOK, SessionUsersKnown, SessionIds, StateIds, SessionType, Users
  <2> QED
    BY <2>1, <2>4 DEF MemoryInv
<1> QED
  BY <1>1, <1>2, <1>3, <1>4 DEF UncountedCall

(* Every step of the in-memory service keeps its invariant.                  *)
LEMMA MemoryStep == MemoryInv /\ [MemoryNext]_memVars => MemoryInv'
<1> SUFFICES ASSUME MemoryInv, [MemoryNext]_memVars PROVE MemoryInv'
  OBVIOUS
<1>0. LocksOK /\ BucketsOK /\ EntriesOK /\ now \in 1..MaxTime /\ now \in Nat
  BY MemoryNumbers DEF MemoryInv, EntriesOK
<1>1. CASE Tick
  <2>1. now' \in 1..MaxTime /\ now' \in Nat /\ now <= now'
    BY <1>0, <1>1, MemoryNumbers DEF Tick
  <2> QED
    BY <1>0, <1>1, <2>1, LocksIdle, BucketsIdle, EntriesIdle DEF Tick, MemoryInv
<1>2. CASE UNCHANGED memVars
  BY <1>0, <1>2, LocksIdle, BucketsIdle, EntriesIdle DEF memVars, MemoryInv
<1> QED
  BY <1>1, <1>2, MemoryCounts, MemoryUncounted, MemoryRestarts DEF MemoryNext

-----------------------------------------------------------------------------
(* What the steps of a ceremony may do to the rows that another relies on.   *)
Types == {"registration", "assertion"}
Challenge == [user : Holders, type : Types, lapsed : BOOLEAN]
RowsFade ==
  /\ drawn <= drawn'
  /\ \A c \in ChallengeIds : c <= drawn =>
       \/ challenges'[c] = NoRow
       \/ /\ challenges[c] # NoRow
          /\ challenges'[c].user = challenges[c].user
          /\ challenges'[c].type = challenges[c].type
  /\ \A k \in Credentials : credentials[k] # NoRow => credentials'[k] # NoRow

(* Fading rows keep what a ceremony in flight relies on.                     *)
LEMMA CeremonyKept ==
  ASSUME NEW it, CeremonyOK(it), RowsFade, drawn \in Nat, drawn' \in Nat
  PROVE  CeremonyOK(it)'
<1> DEFINE c == it.response.challenge
           k == it.response.credential
<1>1. CASE it.pc \notin {"assert.credential", "assert.delete", "assert.update"}
  BY <1>1 DEF CeremonyOK, CeremonyType, Response, ChallengeIds, Idle
<1>2. CASE it.pc \in {"assert.credential", "assert.delete", "assert.update"}
  <2>1. it \in CeremonyType /\ c \in ChallengeIds /\ c \in Nat /\ c <= drawn
    BY <1>2 DEF CeremonyOK, Within, ChallengeIds
  <2>2. c <= drawn'
    BY <2>1 DEF RowsFade
  <2>3. it.response \in Response
    BY <2>1, <1>2 DEF CeremonyType, Idle
  <2>4. k \in Credentials
    BY <2>3 DEF Response
  <2>5. it.pc \in {"assert.credential", "assert.delete"} /\ challenges'[c] # NoRow
          => challenges'[c].user = it.user /\ challenges'[c].type = "assertion"
    BY <2>1 DEF CeremonyOK, RowsFade
  <2>6. it.pc = "assert.update" => challenges'[c] = NoRow
    BY <2>1 DEF CeremonyOK, RowsFade
  <2>7. it.pc \in {"assert.delete", "assert.update"} => credentials'[k] # NoRow
    BY <2>4 DEF CeremonyOK, RowsFade
  <2>8. it.pc \in {"assert.delete", "assert.update"} => it.response.counter >= it.seen
    BY DEF CeremonyOK
  <2> HIDE DEF c, k
  <2> QED
    BY <1>2, <2>1, <2>2, <2>5, <2>6, <2>7, <2>8
       DEF CeremonyOK, Within, c, k, CeremonyType, Response, ChallengeIds, Idle
<1> QED
  BY <1>1, <1>2

(* So a step that lets the rows fade keeps the accepted challenges gone.     *)
LEMMA AcceptedKept ==
  ASSUME PasskeyInv, RowsFade, drawn' \in Nat, accepted' = accepted
  PROVE  (\A c \in accepted : Within(c) /\ challenges[c] = NoRow)'
<1> SUFFICES ASSUME NEW c \in accepted
             PROVE  c \in ChallengeIds /\ c <= drawn' /\ challenges'[c] = NoRow
  BY DEF Within, ChallengeIds
<1>1. c \in ChallengeIds /\ c \in Nat /\ c <= drawn /\ challenges[c] = NoRow /\ drawn \in Nat
  BY DEF PasskeyInv, PasskeyTypeOK, Within, ChallengeIds
<1> QED
  BY <1>1 DEF RowsFade

(* The bounds, and NoRow is no row.                                          *)
LEMMA PasskeyNumbers ==
  /\ MaxChallenges \in Nat /\ MaxSigned \in Nat
  /\ NoRow \notin [user : Holders, signCount : Nat] /\ NoRow \notin Challenge
BY PasskeyAssumption DEF Challenge, Types

(* The tables are empty and nothing is in flight.                            *)
LEMMA PasskeyFirst == PasskeysInit => PasskeyInv
<1> SUFFICES ASSUME PasskeysInit PROVE PasskeyInv
  OBVIOUS
<1>1. PasskeyTypeOK
  BY PasskeyNumbers DEF PasskeysInit, PasskeyTypeOK, CeremonyType
<1>2. ASSUME NEW v \in Ceremonies PROVE CeremonyOK(ceremony[v])
  BY DEF PasskeysInit, CeremonyOK, CeremonyType, Idle
<1> QED
  BY <1>1, <1>2 DEF PasskeysInit, PasskeyInv

(* Steps that read and write no ceremony.                                    *)
LEMMA PasskeyOptions ==
  ASSUME PasskeyInv, NEW u \in Holders, NEW type \in Types, GenerateOptions(u, type)
  PROVE  PasskeyInv'
<1> DEFINE row == [user |-> u, type |-> type, lapsed |-> FALSE]
<1>1. /\ drawn \in 0..MaxChallenges /\ drawn \in Nat /\ drawn < MaxChallenges
      /\ drawn' = drawn + 1 /\ challenges' = [challenges EXCEPT ![drawn + 1] = row]
      /\ UNCHANGED <<credentials, counters, responses, ceremony, accepted>>
  BY PasskeyNumbers DEF GenerateOptions, PasskeyInv, PasskeyTypeOK
<1>2. drawn' \in 0..MaxChallenges /\ drawn' \in Nat /\ drawn + 1 \in ChallengeIds
  BY <1>1, PasskeyNumbers DEF ChallengeIds
<1>3. challenges' \in [ChallengeIds -> {NoRow} \cup Challenge]
  BY <1>1 DEF PasskeyInv, PasskeyTypeOK, Challenge, Types
<1>4. ASSUME NEW c \in ChallengeIds, c # drawn + 1 PROVE challenges'[c] = challenges[c]
  BY <1>1, <1>4 DEF PasskeyInv, PasskeyTypeOK
<1>5. RowsFade
  <2>1. ASSUME NEW c \in ChallengeIds, c <= drawn
        PROVE  challenges'[c] = challenges[c]
    BY <2>1, <1>1, <1>4, PasskeyNumbers DEF ChallengeIds
  <2> QED
    BY <2>1, <1>1 DEF RowsFade
<1>6. ASSUME NEW c \in ChallengeIds, c > drawn' PROVE challenges'[c] = NoRow
  <2>1. c > drawn /\ c # drawn + 1
    BY <1>6, <1>1, PasskeyNumbers DEF ChallengeIds
  <2> QED
    BY <2>1, <1>4 DEF PasskeyInv
<1> HIDE DEF row
<1>7. PasskeyTypeOK'
  BY <1>1, <1>2, <1>3
     DEF PasskeyInv, PasskeyTypeOK, CeremonyType, Response, ChallengeIds, Idle, Challenge, Types
<1>8. ASSUME NEW v \in Ceremonies PROVE CeremonyOK(ceremony[v])'
  BY <1>1, <1>2, <1>5, CeremonyKept DEF PasskeyInv
<1> QED
  BY <1>1, <1>2, <1>5, <1>6, <1>7, <1>8, AcceptedKept DEF PasskeyInv, ChallengeIds

(* Time passes, or an authenticator signs.                                   *)
LEMMA PasskeyWorld ==
  ASSUME PasskeyInv, NEW c \in ChallengeIds,
         \/ ChallengeLapses(c)
         \/ \E k \in Credentials, t \in Types : Signs(k, c, t)
  PROVE  PasskeyInv'
<1>1. /\ drawn \in 0..MaxChallenges /\ drawn \in Nat
      /\ drawn' = drawn /\ UNCHANGED <<credentials, ceremony, accepted>>
  BY PasskeyNumbers DEF ChallengeLapses, Signs, PasskeyInv, PasskeyTypeOK
<1>2. /\ challenges' \in [ChallengeIds -> {NoRow} \cup Challenge]
      /\ counters' \in [Credentials -> Nat] /\ responses' \subseteq Response
      /\ \A d \in ChallengeIds :
           \/ challenges'[d] = challenges[d]
           \/ /\ challenges[d] # NoRow
              /\ challenges'[d].user = challenges[d].user
              /\ challenges'[d].type = challenges[d].type
  <2>1. CASE ChallengeLapses(c)
    <3>1. /\ challenges' = [challenges EXCEPT ![c].lapsed = TRUE] /\ challenges[c] # NoRow
          /\ UNCHANGED <<counters, responses>>
      BY <2>1 DEF ChallengeLapses
    <3>2. challenges[c] \in Challenge /\ challenges \in [ChallengeIds -> {NoRow} \cup Challenge]
      BY <3>1 DEF PasskeyInv, PasskeyTypeOK, Challenge, Types
    <3> DEFINE row == [challenges[c] EXCEPT !.lapsed = TRUE]
    <3>3. row \in Challenge /\ row.user = challenges[c].user /\ row.type = challenges[c].type
      BY <3>2 DEF Challenge
    <3>4. challenges' = [challenges EXCEPT ![c] = row]
      BY <3>1
    <3> HIDE DEF row
    <3>5. challenges' \in [ChallengeIds -> {NoRow} \cup Challenge]
      BY <3>2, <3>3, <3>4
    <3>6. \A d \in ChallengeIds : d # c => challenges'[d] = challenges[d]
      BY <3>2, <3>4
    <3>7. challenges'[c] = row
      BY <3>2, <3>4
    <3> QED
      BY <3>1, <3>3, <3>5, <3>6, <3>7 DEF PasskeyInv, PasskeyTypeOK
  <2>2. ASSUME NEW k \in Credentials, NEW t \in Types, Signs(k, c, t)
        PROVE  /\ challenges' = challenges
               /\ counters' \in [Credentials -> Nat] /\ responses' \subseteq Response
    <3>1. /\ counters \in [Credentials -> Nat] /\ responses \subseteq Response
          /\ counters' = [counters EXCEPT ![k] = IF t = "assertion" THEN @ + 1 ELSE @]
          /\ responses' = responses \cup
               {[credential |-> k, challenge |-> c, type |-> t, counter |-> counters'[k]]}
          /\ challenges' = challenges
      BY <2>2 DEF Signs, PasskeyInv, PasskeyTypeOK
    <3>2. counters' \in [Credentials -> Nat]
      BY <3>1
    <3> QED
      BY <3>1, <3>2 DEF Response, Types
  <2> QED
    BY <2>1, <2>2 DEF PasskeyInv, PasskeyTypeOK, Challenge, Types
<1>3. RowsFade
  BY <1>1, <1>2 DEF RowsFade
<1>4. PasskeyTypeOK'
  BY <1>1, <1>2
     DEF PasskeyInv, PasskeyTypeOK, CeremonyType, Response, ChallengeIds, Idle, Challenge, Types
<1>5. ASSUME NEW v \in Ceremonies PROVE CeremonyOK(ceremony[v])'
  BY <1>1, <1>3, CeremonyKept DEF PasskeyInv
<1>6. \A d \in ChallengeIds : d > drawn' => challenges'[d] = NoRow
  BY <1>1, <1>2 DEF PasskeyInv
<1> QED
  BY <1>1, <1>3, <1>4, <1>5, <1>6, AcceptedKept DEF PasskeyInv, ChallengeIds

(* Deleting a user's challenges of a type removes those and no other.        *)
LEMMA Deleted ==
  ASSUME PasskeyInv, NEW u, NEW type, DeleteChallenges(u, type)
  PROVE  /\ challenges' \in [ChallengeIds -> {NoRow} \cup Challenge]
         /\ \A c \in ChallengeIds :
              /\ challenges'[c] = NoRow \/ challenges'[c] = challenges[c]
              /\ challenges[c] # NoRow /\ challenges[c].user = u /\ challenges[c].type = type
                   => challenges'[c] = NoRow
BY DEF PasskeyInv, PasskeyTypeOK, DeleteChallenges, Challenge, Types

(* A step of one ceremony: the rows fade for the others, and its own next    *)
(* step finds what it relies on.                                             *)
LEMMA PasskeyMoves ==
  ASSUME PasskeyInv, NEW v \in Ceremonies, NEW it,
         ceremony' = [ceremony EXCEPT ![v] = it], CeremonyOK(it)',
         RowsFade, UNCHANGED <<drawn, counters, responses>>,
         challenges' \in [ChallengeIds -> {NoRow} \cup Challenge],
         \A c \in ChallengeIds : challenges'[c] = NoRow \/ challenges'[c] = challenges[c],
         credentials' \in [Credentials -> {NoRow} \cup [user : Holders, signCount : Nat]],
         accepted' \subseteq ChallengeIds,
         \A c \in accepted' : c \in accepted \/ (Within(c) /\ challenges'[c] = NoRow)
  PROVE  PasskeyInv'
<1>1. drawn \in Nat /\ drawn' = drawn /\ drawn' \in Nat
  BY PasskeyNumbers DEF PasskeyInv, PasskeyTypeOK
<1>2. ASSUME NEW w \in Ceremonies PROVE CeremonyOK(ceremony[w])'
  <2>1. CASE w = v
    BY <2>1 DEF PasskeyInv, PasskeyTypeOK
  <2>2. CASE w # v
    <3>1. ceremony'[w] = ceremony[w] /\ CeremonyOK(ceremony[w])
      BY <2>2 DEF PasskeyInv, PasskeyTypeOK
    <3>2. ASSUME NEW x, CeremonyOK(x) PROVE CeremonyOK(x)'
      BY <3>2, <1>1, CeremonyKept
    <3> QED
      BY <3>1, <3>2
  <2> QED
    BY <2>1, <2>2
<1>3. it \in CeremonyType'
  BY DEF CeremonyOK
<1>4. PasskeyTypeOK'
  BY <1>1, <1>3
     DEF PasskeyInv, PasskeyTypeOK, CeremonyType, Response, ChallengeIds, Idle, Challenge, Types
<1>5. \A c \in ChallengeIds : c > drawn' => challenges'[c] = NoRow
  BY <1>1 DEF PasskeyInv
<1>6. ASSUME NEW c \in accepted' PROVE Within(c) /\ challenges'[c] = NoRow
  <2>1. CASE c \in accepted
    <3>1. Within(c) /\ challenges[c] = NoRow /\ c \in ChallengeIds
      BY <2>1 DEF PasskeyInv, PasskeyTypeOK
    <3> QED
      BY <3>1
  <2> QED
    BY <2>1
<1> QED
  BY <1>1, <1>2, <1>4, <1>5, <1>6 DEF PasskeyInv, Within, ChallengeIds

(* The first SELECT of either verification.                                  *)
LEMMA PasskeyStarts ==
  ASSUME PasskeyInv, NEW v \in Ceremonies, VerifyStart(v)
  PROVE  PasskeyInv'
<1> PICK u \in Holders, r \in responses : RegistrationSelect(v, u, r) \/ AssertionSelect(v, u, r)
  BY DEF VerifyStart
<1> DEFINE pc == IF r.type = "registration" THEN "register.delete" ELSE "assert.credential"
           it == [pc |-> pc, user |-> u, response |-> r]
<1>1. /\ ceremony' = [ceremony EXCEPT ![v] = it]
      /\ UNCHANGED <<challenges, drawn, credentials, counters, responses, accepted>>
      /\ pc = "assert.credential" => r.type = "assertion" /\ IsLatest(r.challenge, u, "assertion")
  BY DEF RegistrationSelect, AssertionSelect
<1>2. /\ r \in Response /\ r.challenge \in ChallengeIds /\ drawn \in Nat
      /\ challenges \in [ChallengeIds -> {NoRow} \cup Challenge]
      /\ credentials \in [Credentials -> {NoRow} \cup [user : Holders, signCount : Nat]]
      /\ accepted \subseteq ChallengeIds
  BY PasskeyNumbers DEF PasskeyInv, PasskeyTypeOK, Response, Challenge, Types
<1>3. it \in CeremonyType
  BY <1>2 DEF CeremonyType
<1>4. pc = "assert.credential" =>
        /\ challenges[r.challenge] # NoRow
        /\ challenges[r.challenge].user = u /\ challenges[r.challenge].type = "assertion"
  BY <1>1 DEF IsLatest, Pending
<1>5. pc = "assert.credential" => r.challenge <= drawn
  BY <1>2, <1>4 DEF PasskeyInv, ChallengeIds
<1>6. it.pc = pc /\ it.user = u /\ it.response = r
  OBVIOUS
<1>7. pc = "register.delete" \/ pc = "assert.credential"
  OBVIOUS
<1> HIDE DEF it, pc
<1>8. CeremonyOK(it)
  BY <1>2, <1>3, <1>4, <1>5, <1>6, <1>7 DEF CeremonyOK, Within
<1>9. RowsFade
  BY <1>1, <1>2 DEF RowsFade
<1>10. CeremonyOK(it)'
  BY <1>1, <1>2, <1>8, <1>9, CeremonyKept
<1> QED
  BY <1>1, <1>2, <1>9, <1>10, PasskeyMoves

(* The later queries of a verification.                                      *)
LEMMA PasskeyVerifies ==
  ASSUME PasskeyInv, NEW v \in Ceremonies, VerifyStep(v)
  PROVE  PasskeyInv'
<1> PICK it : it = ceremony[v]
  OBVIOUS
<1> DEFINE r == it.response
<1>1. /\ drawn \in Nat /\ it \in CeremonyType /\ CeremonyOK(it)
      /\ challenges \in [ChallengeIds -> {NoRow} \cup Challenge]
      /\ credentials \in [Credentials -> {NoRow} \cup [user : Holders, signCount : Nat]]
      /\ ceremony \in [Ceremonies -> CeremonyType]
      /\ accepted \subseteq ChallengeIds
  BY PasskeyNumbers DEF PasskeyInv, PasskeyTypeOK, Challenge, Types
<1>2. CASE RegistrationDelete(v)
  <2> DEFINE new == [it EXCEPT !.pc = "register.upsert"]
  <2>1. /\ it.pc = "register.delete" /\ DeleteChallenges(it.user, "registration")
        /\ ceremony' = [ceremony EXCEPT ![v] = new]
        /\ UNCHANGED <<drawn, credentials, counters, responses, accepted>>
    BY <1>2 DEF RegistrationDelete
  <2>2. new \in CeremonyType /\ new.pc = "register.upsert"
    BY <1>1, <2>1 DEF CeremonyType, Idle
  <2> HIDE DEF new
  <2>3. CeremonyOK(new)
    BY <2>2 DEF CeremonyOK
  <2>4. RowsFade
    BY <1>1, <2>1, Deleted DEF RowsFade
  <2>5. CeremonyOK(new)'
    BY <1>1, <2>1, <2>3, <2>4, CeremonyKept
  <2> QED
    BY <1>1, <2>1, <2>4, <2>5, Deleted, PasskeyMoves
<1>3. CASE RegistrationUpsert(v)
  <2> DEFINE k == r.credential
             owner == IF credentials[k] = NoRow THEN it.user ELSE credentials[k].user
             row == [user |-> owner, signCount |-> r.counter]
  <2>1. /\ it.pc = "register.upsert" /\ credentials' = [credentials EXCEPT ![k] = row]
        /\ ceremony' = [ceremony EXCEPT ![v] = Idle]
        /\ UNCHANGED <<challenges, drawn, counters, responses, accepted>>
    BY <1>3 DEF RegistrationUpsert
  <2>2. it.user \in Holders /\ k \in Credentials /\ r.counter \in Nat
    BY <1>1, <2>1 DEF CeremonyType, Idle, Response
  <2>3. row \in [user : Holders, signCount : Nat] /\ row # NoRow
    BY <1>1, <2>2, PasskeyNumbers
  <2> HIDE DEF row, owner
  <2>4. /\ credentials' \in [Credentials -> {NoRow} \cup [user : Holders, signCount : Nat]]
        /\ \A j \in Credentials : credentials[j] # NoRow => credentials'[j] # NoRow
    BY <1>1, <2>1, <2>2, <2>3
  <2>5. RowsFade
    BY <1>1, <2>1, <2>4 DEF RowsFade
  <2>6. CeremonyOK(Idle)'
    BY DEF CeremonyOK, CeremonyType, Idle
  <2> QED
    BY <1>1, <2>1, <2>4, <2>5, <2>6, PasskeyMoves
<1>4. CASE AssertionCredential(v)
  <2> PICK row : row = credentials[r.credential]
    OBVIOUS
  <2> DEFINE valid == /\ row # NoRow /\ row.user = it.user
                      /\ CounterAccepted(row.signCount, r.counter)
             next == [pc |-> "assert.delete", user |-> it.user, response |-> r,
                      seen |-> row.signCount]
             new == IF valid THEN next ELSE Idle
  <2>1. /\ it.pc = "assert.credential" /\ ceremony' = [ceremony EXCEPT ![v] = new]
        /\ UNCHANGED <<challenges, drawn, credentials, counters, responses, accepted>>
    BY <1>4 DEF AssertionCredential
  <2>2. it.user \in Holders /\ r \in Response /\ r.counter \in Nat /\ r.credential \in Credentials
    BY <1>1, <2>1 DEF CeremonyType, Idle, Response
  <2>3. RowsFade
    BY <1>1, <2>1 DEF RowsFade
  <2>4. CASE valid
    <3>1. row.signCount \in Nat /\ r.counter >= row.signCount
      BY <1>1, <2>2, <2>4 DEF CounterAccepted
    <3>2. next \in CeremonyType
      BY <2>2, <3>1 DEF CeremonyType
    <3>3. /\ next.pc = "assert.delete" /\ next.user = it.user /\ next.response = r
          /\ next.seen = row.signCount
      OBVIOUS
    <3>4. /\ Within(r.challenge)
          /\ challenges[r.challenge] # NoRow
               => /\ challenges[r.challenge].user = it.user
                  /\ challenges[r.challenge].type = "assertion"
      BY <1>1, <2>1 DEF CeremonyOK
    <3>5. new = next
      BY <2>4
    <3> HIDE DEF next
    <3>6. CeremonyOK(next)
      BY <2>4, <3>1, <3>2, <3>3, <3>4 DEF CeremonyOK
    <3>7. CeremonyOK(next)'
      BY <1>1, <2>1, <2>3, <3>6, CeremonyKept
    <3> QED
      BY <1>1, <2>1, <2>3, <3>5, <3>7, PasskeyMoves
  <2>5. CASE ~valid
    <3>1. CeremonyOK(Idle)'
      BY DEF CeremonyOK, CeremonyType, Idle
    <3> QED
      BY <1>1, <2>1, <2>3, <2>5, <3>1, PasskeyMoves
  <2> QED
    BY <2>4, <2>5
<1>5. CASE AssertionDelete(v)
  <2> DEFINE new == [it EXCEPT !.pc = "assert.update"]
  <2>1. /\ it.pc = "assert.delete" /\ DeleteChallenges(it.user, "assertion")
        /\ ceremony' = [ceremony EXCEPT ![v] = new]
        /\ UNCHANGED <<drawn, credentials, counters, responses, accepted>>
    BY <1>5 DEF AssertionDelete
  <2>2. /\ new \in CeremonyType /\ new.pc = "assert.update" /\ new.user = it.user
        /\ new.response = r /\ new.seen = it.seen
    BY <1>1, <2>1 DEF CeremonyType, Idle
  <2>3. /\ Within(r.challenge) /\ r.counter >= it.seen
        /\ credentials[r.credential] # NoRow
        /\ challenges[r.challenge] # NoRow
             => challenges[r.challenge].user = it.user /\ challenges[r.challenge].type = "assertion"
    BY <1>1, <2>1 DEF CeremonyOK
  <2>4. challenges'[r.challenge] = NoRow
    BY <2>1, <2>3, Deleted DEF Within
  <2>5. RowsFade
    BY <1>1, <2>1, Deleted DEF RowsFade
  <2> HIDE DEF new
  <2>6. /\ r.challenge \in ChallengeIds' /\ r.challenge <= drawn'
        /\ credentials'[r.credential] # NoRow
    BY <2>1, <2>3 DEF Within, ChallengeIds
  <2>7. new \in CeremonyType'
    BY <2>2 DEF CeremonyType, Response, ChallengeIds, Idle
  <2>8. CeremonyOK(new)'
    BY <2>2, <2>3, <2>4, <2>6, <2>7 DEF CeremonyOK, Within
  <2> QED
    BY <1>1, <2>1, <2>5, <2>8, Deleted, PasskeyMoves
<1>6. CASE AssertionUpdate(v)
  <2> DEFINE k == r.credential
             row == [credentials[k] EXCEPT !.signCount = r.counter]
  <2>1. /\ it.pc = "assert.update"
        /\ ceremony' = [ceremony EXCEPT ![v] = Idle]
        /\ accepted' = accepted \cup {r.challenge}
        /\ UNCHANGED <<challenges, drawn, counters, responses>>
    BY <1>6 DEF AssertionUpdate
  <2>2. credentials' = [credentials EXCEPT ![k] = row]
    BY <1>6 DEF AssertionUpdate
  <2>3. k \in Credentials /\ r.counter \in Nat
    BY <1>1, <2>1 DEF CeremonyType, Idle, Response
  <2>4. Within(r.challenge) /\ challenges[r.challenge] = NoRow /\ credentials[k] # NoRow
    BY <1>1, <2>1 DEF CeremonyOK
  <2>5. row \in [user : Holders, signCount : Nat] /\ row # NoRow
    BY <1>1, <2>3, <2>4, PasskeyNumbers
  <2> HIDE DEF row
  <2>6. /\ credentials' \in [Credentials -> {NoRow} \cup [user : Holders, signCount : Nat]]
        /\ \A j \in Credentials : credentials[j] # NoRow => credentials'[j] # NoRow
    BY <1>1, <2>2, <2>3, <2>5
  <2>7. RowsFade
    BY <1>1, <2>1, <2>6 DEF RowsFade
  <2>8. CeremonyOK(Idle)'
    BY DEF CeremonyOK, CeremonyType, Idle
  <2>9. accepted' \subseteq ChallengeIds
    BY <1>1, <2>1, <2>4 DEF Within
  <2>10. \A c \in accepted' : c \in accepted \/ (Within(c) /\ challenges'[c] = NoRow)
    BY <2>1, <2>4
  <2> QED
    BY <1>1, <2>1, <2>6, <2>7, <2>8, <2>9, <2>10, PasskeyMoves
<1> QED
  BY <1>2, <1>3, <1>4, <1>5, <1>6 DEF VerifyStep

(* The process dies: the rows stay, the ceremonies are gone.                 *)
LEMMA PasskeyDies == ASSUME PasskeyInv, CeremoniesLost PROVE PasskeyInv'
<1>1. /\ ceremony' = [v \in Ceremonies |-> Idle]
      /\ UNCHANGED <<challenges, drawn, credentials, counters, responses, accepted>>
  BY DEF CeremoniesLost
<1>2. \A v \in Ceremonies : CeremonyOK(ceremony[v])'
  BY <1>1 DEF CeremonyOK, CeremonyType, Idle
<1>3. PasskeyTypeOK'
  BY <1>1
     DEF PasskeyInv, PasskeyTypeOK, CeremonyType, Response, ChallengeIds, Idle
<1> QED
  BY <1>1, <1>2, <1>3 DEF PasskeyInv, Within, ChallengeIds

(* Every step of the passkey service keeps its invariant.                    *)
LEMMA PasskeyStep == PasskeyInv /\ [PasskeyNext]_passkeyVars => PasskeyInv'
<1> SUFFICES ASSUME PasskeyInv, [PasskeyNext]_passkeyVars PROVE PasskeyInv'
  OBVIOUS
<1>1. CASE UNCHANGED passkeyVars
  BY <1>1 DEF passkeyVars, PasskeyInv, PasskeyTypeOK, CeremonyOK, CeremonyType, Response,
     ChallengeIds, Idle, Within
<1>2. CASE PasskeyNext
  BY <1>2, PasskeyOptions, PasskeyWorld, PasskeyStarts, PasskeyVerifies, PasskeyDies
     DEF PasskeyNext, Types
<1> QED
  BY <1>1, <1>2

-----------------------------------------------------------------------------
(* A session that was drawn is dropped, left alone or elevated, whatever the *)
(* step; the ids drawn stay drawn.                                           *)
Elevates ==
  /\ issued.sessions <= issued'.sessions
  /\ \A s \in SessionIds : s <= issued.sessions =>
       \/ sessions'[s] = None \/ sessions'[s] = sessions[s]
       \/ sessions'[s].state = "authenticated"

(* Every step of the in-memory service is of that kind.                      *)
LEMMA SessionsElevate == ASSUME MemoryInv, [MemoryNext]_memVars PROVE Elevates
<1>0. /\ EntriesOK /\ issued.sessions \in 0..MaxSessions /\ issued.sessions \in Nat
      /\ issued \in [states : 0..MaxStates, sessions : 0..MaxSessions]
      /\ sessions \in [SessionIds -> SessionType]
  BY MemoryNumbers DEF MemoryInv, EntriesOK
<1>1. ASSUME UNCHANGED sessions, issued'.sessions = issued.sessions PROVE Elevates
  BY <1>0, <1>1 DEF Elevates
<1>2. ASSUME NEW u, OpenSession(u) PROVE Elevates
  <2>1. /\ issued' = [issued EXCEPT !.sessions = issued.sessions + 1]
        /\ sessions' = [sessions EXCEPT ![issued.sessions + 1] =
             [user |-> u, state |-> "pre_mfa", expiresAt |-> now + PreMfaTtl]]
    BY <1>2 DEF OpenSession
  <2>2. issued'.sessions = issued.sessions + 1
    BY <1>0, <2>1
  <2>3. ASSUME NEW s \in SessionIds, s <= issued.sessions PROVE sessions'[s] = sessions[s]
    <3>1. s # issued.sessions + 1
      BY <1>0, <2>3, MemoryNumbers DEF SessionIds
    <3> QED
      BY <1>0, <2>1, <3>1
  <2> QED
    BY <1>0, <2>2, <2>3 DEF Elevates
<1>3. CASE CountedCall
  BY <1>1, <1>2, <1>3
     DEF CountedCall, CallbackThrottled, CallbackAccepted, RecoveryRight, RecoveryThrottled,
         RecoveryLocked, RecoveryWrong
<1>4. CASE UncountedCall
  <2>1. ASSUME NEW q \in Providers, StartOAuth(q) PROVE Elevates
    BY <1>0, <1>1, <2>1 DEF StartOAuth
  <2>2. ASSUME NEW s \in SessionIds, VerifyMfaWrong(s) PROVE Elevates
    BY <1>1, <2>2 DEF VerifyMfaWrong
  <2>3. ASSUME NEW s \in SessionIds, VerifyMfaRight(s) PROVE Elevates
    <3>1. sessions[s] \in [user : Users, state : {"pre_mfa", "authenticated"}, expiresAt : Nat]
      BY <1>0, <2>3 DEF VerifyMfaRight, MayTryCode, SessionType
    <3> DEFINE row == [sessions[s] EXCEPT !.state = "authenticated", !.expiresAt = now + AuthTtl]
    <3>2. row.state = "authenticated"
      BY <3>1
    <3>3. sessions' = [sessions EXCEPT ![s] = row] /\ issued' = issued
      BY <1>0, <2>3 DEF VerifyMfaRight
    <3> HIDE DEF row
    <3> QED
      BY <1>0, <3>2, <3>3 DEF Elevates
  <2>4. ASSUME NEW s \in SessionIds, GetExpired(s) PROVE Elevates
    <3>1. sessions' = [sessions EXCEPT ![s] = None] /\ issued' = issued
      BY <2>4 DEF GetExpired
    <3> QED
      BY <1>0, <3>1 DEF Elevates
  <2> QED
    BY <1>4, <2>1, <2>2, <2>3, <2>4 DEF UncountedCall
<1>5. CASE Restart
  BY <1>0, <1>5 DEF Restart, EmptyMaps, Elevates
<1>6. CASE Tick \/ UNCHANGED memVars
  BY <1>1, <1>6 DEF Tick, memVars
<1> QED
  BY <1>3, <1>4, <1>5, <1>6 DEF MemoryNext

(* A cookie that is kept or cleared, or set by the database-backed service,  *)
(* names no session of the Map that is half signed in.                       *)
LEMMA CookieKept ==
  ASSUME MemoryInv, RoutesInv, [MemoryNext]_memVars,
         cookie' \in {cookie, None} \cup DatabaseSessions
  PROVE  /\ cookie' \in SessionIds \cup DatabaseSessions \cup {None}
         /\ cookie' \in SessionIds => cookie' <= issued'.sessions
         /\ MemoryCookieElevated'
<1>1. issued.sessions \in Nat /\ issued'.sessions \in Nat /\ Elevates
  BY SessionsElevate, StepsOfMemory, MemoryStep, MemoryNumbers DEF MemoryInv, EntriesOK
<1>2. CASE cookie' \in DatabaseSessions \cup {None}
  <2>1. cookie' \notin SessionIds
    BY <1>2, ApiServerAssumption, MemoryAuthAssumption DEF SessionIds
  <2> QED
    BY <1>2, <2>1 DEF MemoryCookieElevated
<1>3. CASE cookie' = cookie /\ cookie \in SessionIds
  <2>1. cookie <= issued.sessions /\ MemoryCookieElevated
    BY <1>3 DEF RoutesInv
  <2>2. cookie <= issued'.sessions
    BY <1>1, <1>3, <2>1 DEF Elevates, SessionIds
  <2> QED
    BY <1>1, <1>3, <2>1, <2>2 DEF Elevates, MemoryCookieElevated
<1> QED
  BY <1>2, <1>3 DEF RoutesInv

(* No cookie, no key, no call.                                               *)
LEMMA RoutesFirst == Init => RoutesInv
<1> SUFFICES ASSUME Init PROVE RoutesInv
  OBVIOUS
<1> QED
  BY ApiServerAssumption, MemoryAuthAssumption
  DEF Init, RoutesInv, MemoryCookieElevated, SessionIds

(* Every step keeps the invariant of the routes.                             *)
LEMMA RoutesStep == ASSUME MemoryInv, RoutesInv, [Next]_vars PROVE RoutesInv'
<1>0. [MemoryNext]_memVars /\ MaxCalls \in Nat /\ MaxCrashes \in Nat
  BY StepsOfMemory, ApiServerAssumption
<1>1. ASSUME UNCHANGED <<eventKeys, accepts, crashes>>, calls' \in 0..MaxCalls,
             cookie' \in {cookie, None} \cup DatabaseSessions
      PROVE  RoutesInv'
  BY <1>0, <1>1, CookieKept DEF RoutesInv, SessionIds
<1>2. ASSUME NEW routes, Arrives(routes) \/ \E method : Request(method, routes)
      PROVE  calls' \in 0..MaxCalls /\ crashes' = crashes
  BY <1>0, <1>2 DEF Request, Arrives, RoutesInv
<1>3. CASE OAuthRoutes \/ RecoveryRoute \/ DatabaseSignInRoutes \/ LogoutRoute \/ PasskeyRoutes
  BY <1>1, <1>2, <1>3
  DEF OAuthRoutes, RecoveryRoute, DatabaseSignInRoutes, LogoutRoute, PasskeyRoutes
<1>4. ASSUME NEW s \in SessionIds, MfaVerifyRoute(s) \/ SessionLookup(s) PROVE RoutesInv'
  <2>1. CASE SessionLookup(s) \/ (MfaVerifyRoute(s) /\ UNCHANGED cookie)
    BY <1>1, <1>2, <2>1 DEF SessionLookup, MfaVerifyRoute
  <2>2. CASE MfaVerifyRoute(s) /\ cookie' = s /\ VerifyMfaRight(s)
    <3>1. /\ calls' \in 0..MaxCalls /\ UNCHANGED <<eventKeys, accepts, crashes>>
      BY <1>2, <2>2 DEF MfaVerifyRoute
    <3>2. /\ sessions \in [SessionIds -> SessionType] /\ sessions[s] # None
          /\ s <= issued.sessions /\ issued' = issued
      <4>1. issued.sessions \in Nat
        BY MemoryNumbers DEF MemoryInv, EntriesOK
      <4> QED
        BY <2>2, <4>1 DEF MemoryInv, EntriesOK, VerifyMfaRight, MayTryCode, SessionIds
    <3>3. sessions[s] \in [user : Users, state : {"pre_mfa", "authenticated"}, expiresAt : Nat]
      BY <3>2 DEF SessionType
    <3> DEFINE row == [sessions[s] EXCEPT !.state = "authenticated", !.expiresAt = now + AuthTtl]
    <3>4. sessions' = [sessions EXCEPT ![s] = row]
      BY <2>2, <3>2 DEF VerifyMfaRight
    <3>5. row.state = "authenticated"
      BY <3>3
    <3> HIDE DEF row
    <3>6. MemoryCookieElevated' /\ cookie' \in SessionIds' /\ cookie' <= issued'.sessions
      BY <2>2, <3>2, <3>4, <3>5 DEF MemoryCookieElevated, SessionIds
    <3> QED
      BY <3>1, <3>6 DEF RoutesInv
  <2> QED
    BY <1>4, <2>1, <2>2 DEF MfaVerifyRoute
<1>5. ASSUME NEW e \in Events, PostSnapshotReadyWebhook(e) PROVE RoutesInv'
  <2>1. /\ calls' \in 0..MaxCalls /\ crashes' = crashes /\ cookie' = cookie
        /\ e \notin eventKeys /\ eventKeys' = eventKeys \cup {e}
        /\ accepts' = [accepts EXCEPT ![e] = @ + 1]
    BY <1>2, <1>5 DEF PostSnapshotReadyWebhook
  <2>2. accepts \in [Events -> Nat] /\ accepts[e] <= crashes /\ crashes \in Nat
    BY <1>0, <2>1 DEF RoutesInv
  <2>3. ASSUME NEW d \in Events
        PROVE  accepts'[d] <= crashes + 1 /\ (d \notin eventKeys' => accepts'[d] <= crashes)
    <3>1. CASE d = e
      BY <2>1, <2>2, <3>1
    <3>2. CASE d # e
      BY <2>1, <2>2, <3>2 DEF RoutesInv
    <3> QED
      BY <3>1, <3>2
  <2> QED
    BY <1>0, <2>1, <2>2, <2>3, CookieKept DEF RoutesInv, SessionIds
<1>6. CASE Crash
  <2>1. /\ crashes' = crashes + 1 /\ crashes < MaxCrashes /\ eventKeys' = {}
        /\ UNCHANGED <<accepts, cookie, calls>>
    BY <1>6 DEF Crash
  <2>2. /\ accepts \in [Events -> Nat] /\ crashes \in 0..MaxCrashes
        /\ \A d \in Events : accepts[d] <= crashes + 1 /\ calls \in 0..MaxCalls
    BY DEF RoutesInv
  <2>3. \A d \in Events : accepts[d] <= crashes' /\ accepts[d] <= crashes' + 1
    BY <1>0, <2>1, <2>2
  <2>4. crashes' \in 0..MaxCrashes
    BY <1>0, <2>1, <2>2
  <2>5. calls \in 0..MaxCalls
    BY DEF RoutesInv
  <2> QED
    BY <1>0, <2>1, <2>2, <2>3, <2>4, <2>5, CookieKept DEF RoutesInv, SessionIds
<1>7. CASE Environment \/ UNCHANGED vars
  <2>1. UNCHANGED <<eventKeys, accepts, cookie, calls, crashes>>
    BY <1>7 DEF Environment, vars, apiVars
  <2> QED
    BY <1>1, <2>1 DEF RoutesInv
<1> QED
  BY <1>3, <1>4, <1>5, <1>6, <1>7 DEF Next

-----------------------------------------------------------------------------
(* The three invariants hold together, over any interleaving of the routes,  *)
(* the clock, the authenticators and restarts.                               *)
THEOREM ApiInvariance == Spec => [](MemoryInv /\ PasskeyInv /\ RoutesInv)
<1> DEFINE Inv == MemoryInv /\ PasskeyInv /\ RoutesInv
<1>1. Init => Inv
  BY MemoryFirst, PasskeyFirst, RoutesFirst DEF Init
<1>2. Inv /\ [Next]_vars => Inv'
  BY StepsOfMemory, StepsOfPasskeys, MemoryStep, PasskeyStep, RoutesStep
<1> HIDE DEF Inv
<1>3. Spec => []Inv
  BY <1>1, <1>2, PTL DEF Spec
<1> QED
  BY <1>3 DEF Inv

(* Maps, tables, cookie and counters keep their types, ids that were never   *)
(* drawn name no entry, and a verification that is about to write a count    *)
(* read a row that is still there (the Maps of authService.js, the queries   *)
(* of passkeyService.js).                                                    *)
THEOREM ApiTypeCorrect == Spec => []TypeOK
<1>1. ASSUME MemoryInv PROVE MemoryTypeOK
  BY <1>1 DEF MemoryInv, LocksOK, BucketsOK, EntriesOK, SessionType, MemoryTypeOK
<1>2. ASSUME MemoryInv, RoutesInv, NEW s \in SessionIds, s > issued.sessions PROVE cookie # s
  <2>1. s \in Nat /\ issued.sessions \in Nat /\ s # None
    BY <1>2, MemoryNumbers, MemoryAuthAssumption DEF MemoryInv, EntriesOK, SessionIds
  <2> QED
    BY <1>2, <2>1 DEF RoutesInv
<1>3. ASSUME PasskeyInv, NEW v \in Ceremonies,
             ceremony[v].pc \in {"assert.delete", "assert.update"}
      PROVE  credentials[ceremony[v].response.credential] # NoRow
  BY <1>3 DEF PasskeyInv, CeremonyOK
<1>4. MemoryInv /\ PasskeyInv /\ RoutesInv => TypeOK
  BY <1>1, <1>2, <1>3 DEF TypeOK, MemoryInv, EntriesOK, PasskeyInv, RoutesInv
<1> QED
  BY <1>4, ApiInvariance, PTL

(* failAuthAttempt: the last of Threshold + 1 wrong attempts in a row comes  *)
(* a whole lock after the first, for every threshold and every key.          *)
THEOREM WrongAttemptsSpaced == Spec => []GuessesSpaced
<1>1. MemoryInv => GuessesSpaced
  BY DEF MemoryInv, LocksOK, LockOK, Spread, GuessesSpaced
<1> QED
  BY <1>1, ApiInvariance, PTL

(* hitRateLimit: of any 2 * max calls in a row that a bucket lets pass the   *)
(* last comes a window after the first, for every maximum and every window.  *)
THEOREM AdmittedCallsSpaced == Spec => []AdmissionsSpaced
<1>1. ASSUME MemoryInv, NEW b \in Buckets, NEW i \in 1..Len(admissions[b]),
             i + 2 * MaxOf(b) - 1 <= Len(admissions[b])
      PROVE  admissions[b][i + 2 * MaxOf(b) - 1] >= admissions[b][i] + WindowMs
  <2>1. Spread(admissions[b], 2 * MaxOf(b) - 1, WindowMs)
    BY <1>1 DEF MemoryInv, BucketsOK, BucketOK
  <2>2. MaxOf(b) \in Nat /\ i \in Nat /\ i + (2 * MaxOf(b) - 1) = i + 2 * MaxOf(b) - 1
    BY MemoryNumbers
  <2> QED
    BY <1>1, <2>1, <2>2 DEF Spread
<1>2. MemoryInv => AdmissionsSpaced
  BY <1>1 DEF AdmissionsSpaced
<1> QED
  BY <1>2, ApiInvariance, PTL

(* Every session of the Map belongs to a user that has a TOTP secret, over   *)
(* restarts too (upsertUserByEmail before createSession).                    *)
THEOREM SessionsHaveUsers == Spec => []SessionUsersKnown
<1>1. MemoryInv => SessionUsersKnown
  BY DEF MemoryInv, EntriesOK
<1> QED
  BY <1>1, ApiInvariance, PTL

(* The challenge of an accepted assertion is gone for good (verifyAssertion  *)
(* deletes it before it answers).                                            *)
THEOREM ChallengesUsedUp == Spec => []AcceptedChallengeGone
<1>1. PasskeyInv => AcceptedChallengeGone
  BY DEF PasskeyInv, AcceptedChallengeGone
<1> QED
  BY <1>1, ApiInvariance, PTL

(* InMemoryIdempotencyStore: one acceptance per event and life.              *)
THEOREM EventsAcceptedOnce == Spec => []AcceptedOncePerLife
<1>1. RoutesInv => AcceptedOncePerLife
  BY DEF RoutesInv, AcceptedOncePerLife
<1> QED
  BY <1>1, ApiInvariance, PTL

(* A session of the Map that the cookie names is fully signed in, for any    *)
(* number of sessions of either kind (setSessionCookie of authRoutes.js).    *)
THEOREM MemoryCookiesElevated == Spec => []MemoryCookieElevated
<1>1. RoutesInv => MemoryCookieElevated
  BY DEF RoutesInv
<1> QED
  BY <1>1, ApiInvariance, PTL

(* Without another verification between its SELECT and its UPDATE, an        *)
(* assertion does not lower the stored counter (verifyAssertion).            *)
THEOREM CountersRise == Spec => CounterFallsOnlyByRace
<1> DEFINE Rises(v) ==
      (ceremony[v].pc = "assert.update" /\ ceremony'[v] = Idle /\ credentials' # credentials)
      => LET k == ceremony[v].response.credential
         IN \/ credentials'[k].signCount >= credentials[k].signCount
            \/ credentials[k].signCount # ceremony[v].seen
<1>1. ASSUME PasskeyInv, PasskeyNext, NEW v \in Ceremonies PROVE Rises(v)
  <2> SUFFICES ASSUME ceremony[v].pc = "assert.update", ceremony'[v] = Idle,
                      credentials' # credentials
               PROVE  LET k == ceremony[v].response.credential
                      IN \/ credentials'[k].signCount >= credentials[k].signCount
                         \/ credentials[k].signCount # ceremony[v].seen
    OBVIOUS
  <2>1. ceremony \in [Ceremonies -> CeremonyType] /\ ceremony[v] # Idle
    BY <1>1 DEF PasskeyInv, PasskeyTypeOK, Idle
  <2>2. PICK w \in Ceremonies : RegistrationUpsert(w) \/ AssertionUpdate(w)
    BY <1>1 DEF PasskeyNext, GenerateOptions, VerifyStart, RegistrationSelect, AssertionSelect,
       VerifyStep, RegistrationDelete, AssertionCredential, AssertionDelete, ChallengeLapses,
       Signs, CeremoniesLost
  <2>3. ceremony' = [ceremony EXCEPT ![w] = Idle]
    BY <2>2 DEF RegistrationUpsert, AssertionUpdate
  <2>4. w = v
    BY <2>1, <2>3
  <2>5. AssertionUpdate(v)
    BY <2>2, <2>4 DEF RegistrationUpsert
  <2> DEFINE r == ceremony[v].response
             k == r.credential
  <2>6. /\ credentials \in [Credentials -> {NoRow} \cup [user : Holders, signCount : Nat]]
        /\ k \in Credentials /\ credentials[k] # NoRow /\ r.counter >= ceremony[v].seen
    <3>1. CeremonyOK(ceremony[v])
      BY <1>1 DEF PasskeyInv
    <3>2. ceremony[v].response \in Response
      BY <3>1 DEF CeremonyOK, CeremonyType, Idle
    <3> QED
      BY <1>1, <3>1, <3>2 DEF CeremonyOK, PasskeyInv, PasskeyTypeOK, Response
  <2>7. credentials[k] \in [user : Holders, signCount : Nat]
    BY <2>6
  <2>8. credentials'[k].signCount = r.counter
    BY <2>5, <2>6, <2>7 DEF AssertionUpdate
  <2> QED
    BY <2>6, <2>8
<1>2. ASSUME PasskeyInv, [Next]_vars PROVE [\A v \in Ceremonies : Rises(v)]_passkeyVars
  BY <1>1, <1>2, StepsOfPasskeys
<1>3. MemoryInv /\ PasskeyInv /\ RoutesInv /\ [Next]_vars
        => [\A v \in Ceremonies : Rises(v)]_passkeyVars
  BY <1>2
<1>4. Spec => [][\A v \in Ceremonies : Rises(v)]_passkeyVars
  BY <1>3, ApiInvariance, PTL DEF Spec
<1> QED
  BY <1>4 DEF CounterFallsOnlyByRace
-----------------------------------------------------------------------------
(* The refinement: what a step of the in-memory service does to the          *)
(* sessions of AccountLifecycle.                                             *)

(* A step that drops sessions, or does nothing the contract sees.            *)
Drops ==
  /\ issued'.sessions = issued.sessions
  /\ \A s \in SessionIds : sessions'[s] = None \/ sessions'[s] = sessions[s]

(* A step that makes a session fully signed in, whatever it was before.      *)
Completes(s) ==
  /\ issued' = issued /\ sessions[s] # None
  /\ sessions' = [sessions EXCEPT ![s].state = "authenticated",
                                  ![s].expiresAt = now + AuthTtl]

(* Every step drops sessions, opens one or completes one.                    *)
LEMMA SessionSteps ==
  ASSUME MemoryInv, [MemoryNext]_memVars
  PROVE  \/ Drops
         \/ \E u \in Users : OpenSession(u)
         \/ \E s \in SessionIds : Completes(s)
<1>0. /\ sessions \in [SessionIds -> SessionType]
      /\ issued \in [states : 0..MaxStates, sessions : 0..MaxSessions]
  BY DEF MemoryInv, EntriesOK
<1>1. CASE CountedCall
  <2>1. RecoveryUser \in Users /\ \A c \in Codes, p \in Providers : <<c, p>> \in Users
    BY DEF Users
  <2> QED
    BY <1>0, <1>1, <2>1
       DEF CountedCall, CallbackThrottled, CallbackAccepted, RecoveryRight, RecoveryThrottled,
           RecoveryLocked, RecoveryWrong, Drops
<1>2. CASE UncountedCall
  <2>1. ASSUME NEW p \in Providers, StartOAuth(p) PROVE Drops
    BY <1>0, <2>1 DEF StartOAuth, Drops
  <2>2. ASSUME NEW s \in SessionIds, VerifyMfaWrong(s) PROVE Drops
    BY <2>2 DEF VerifyMfaWrong, Drops
  <2>3. ASSUME NEW s \in SessionIds, VerifyMfaRight(s) PROVE Completes(s)
    BY <2>3 DEF VerifyMfaRight, MayTryCode, Completes
  <2>4. ASSUME NEW s \in SessionIds, GetExpired(s) PROVE Drops
    BY <1>0, <2>4 DEF GetExpired, Drops
  <2> QED
    BY <1>2, <2>1, <2>2, <2>3, <2>4 DEF UncountedCall
<1>3. CASE Tick \/ Restart \/ UNCHANGED memVars
  BY <1>0, <1>3 DEF Tick, Restart, EmptyMaps, memVars, Drops
<1> QED
  BY <1>1, <1>2, <1>3 DEF MemoryNext

(* A drop retires the sessions it ends.                                      *)
LEMMA DropsRetire == ASSUME MemoryInv, Drops PROVE Lifecycle!Retire
<1>1. \A s \in SessionIds : s > issued.sessions => sessions[s] = None
  BY DEF MemoryInv, EntriesOK
<1>2. SpentSessions \subseteq SpentSessions' /\ SpentSessions' \subseteq SessionIds
  BY DEF SpentSessions, Drops, SessionIds
<1>3. ASSUME NEW s \in SessionIds
      PROVE  MemorySession(s)' = IF s \in SpentSessions' THEN None ELSE MemorySession(s)
  <2>1. s \in SessionIds' /\ (s <= issued.sessions \/ s > issued.sessions)
    BY MemoryNumbers DEF SessionIds, MemoryInv, EntriesOK
  <2> QED
    BY <1>1, <2>1 DEF SpentSessions, MemorySession, Drops
<1>4. [s \in SessionIds |-> MemorySession(s)']
        = [s \in SessionIds |-> IF s \in SpentSessions' THEN None
                               ELSE [q \in SessionIds |-> MemorySession(q)][s]]
  BY <1>3
<1> QED
  BY <1>2, <1>4 DEF Lifecycle!Retire, SessionIds, Users

(* A fresh session opens half signed in, under an id that names none.        *)
LEMMA FreshOpens ==
  ASSUME MemoryInv, NEW u \in Users, OpenSession(u)
  PROVE  \E s \in SessionIds : Lifecycle!Open(s, u)
<1> DEFINE n == issued.sessions + 1
           row == [user |-> u, state |-> "pre_mfa", expiresAt |-> now + PreMfaTtl]
           M == [s \in SessionIds |-> MemorySession(s)]
<1>0. /\ sessions \in [SessionIds -> SessionType] /\ now \in Nat
      /\ issued \in [states : 0..MaxStates, sessions : 0..MaxSessions]
      /\ issued.sessions \in Nat
      /\ \A s \in SessionIds : s > issued.sessions => sessions[s] = None
  BY MemoryNumbers DEF MemoryInv, EntriesOK
<1>1. n \in SessionIds /\ sessions[n] = None /\ n \notin SpentSessions
  BY <1>0, MemoryNumbers DEF OpenSession, SessionIds, SpentSessions
<1>2. sessions' = [sessions EXCEPT ![n] = row] /\ issued'.sessions = n
  BY <1>0 DEF OpenSession
<1>3. row \in [user : Users, state : {"pre_mfa", "authenticated"}, expiresAt : Nat]
  BY <1>0, MemoryNumbers
<1>4. row # None /\ row.user = u /\ row.state = "pre_mfa"
  BY <1>3, SessionAssumption
<1> HIDE DEF row
<1>5. \A s \in SessionIds : sessions'[s] = IF s = n THEN row ELSE sessions[s]
  BY <1>0, <1>2
<1>6. SpentSessions' = SpentSessions
  <2>1. /\ SessionIds' = SessionIds /\ ~(n <= issued.sessions)
        /\ \A s \in SessionIds : s <= n <=> (s = n \/ s <= issued.sessions)
    BY <1>0, MemoryNumbers DEF SessionIds
  <2>2. \A s \in SessionIds : (s <= issued'.sessions /\ sessions'[s] = None)
                             <=> (s <= issued.sessions /\ sessions[s] = None)
    BY <1>2, <1>4, <1>5, <2>1
  <2> QED
    BY <2>1, <2>2 DEF SpentSessions
<1>7. \A s \in SessionIds :
        MemorySession(s)' = IF s = n THEN [user |-> u, full |-> FALSE] ELSE MemorySession(s)
  BY <1>4, <1>5 DEF MemorySession
<1>8. [s \in SessionIds |-> MemorySession(s)'] = [M EXCEPT ![n] = [user |-> u, full |-> FALSE]]
  BY <1>7
<1>9. M[n] = None /\ [v \in Users |-> "active"][u] = "active"
  BY <1>1 DEF MemorySession
<1> HIDE DEF n
<1>10. Lifecycle!Open(n, u)
  BY <1>1, <1>6, <1>8, <1>9 DEF Lifecycle!Open, SessionIds, Users
<1> QED
  BY <1>1, <1>10

(* The fields of an elevated session of the contract.                        *)
LEMMA ElevatedContractSession ==
  ASSUME NEW row \in [user : Users, full : BOOLEAN]
  PROVE  [row EXCEPT !.full = TRUE] = [user |-> row.user, full |-> TRUE]
<1> DEFINE a == [row EXCEPT !.full = TRUE]
           b == [user |-> row.user, full |-> TRUE]
<1>1. a \in [user : Users, full : BOOLEAN] /\ b \in [user : Users, full : BOOLEAN]
  OBVIOUS
<1>2. a.user = b.user /\ a.full = b.full
  OBVIOUS
<1>3. ASSUME NEW c \in [user : Users, full : BOOLEAN], NEW d \in [user : Users, full : BOOLEAN],
             c.user = d.user, c.full = d.full
      PROVE  c = d
  BY <1>3
<1> HIDE DEF a, b
<1>4. a = b
  BY <1>1, <1>2, <1>3
<1> QED
  BY <1>4 DEF a, b

(* A right code elevates the session it names.                               *)
LEMMA CompletesElevates ==
  ASSUME MemoryInv, NEW t \in SessionIds, Completes(t)
  PROVE  Lifecycle!Elevate(t)
<1> DEFINE M == [s \in SessionIds |-> MemorySession(s)]
           row == [sessions[t] EXCEPT !.state = "authenticated", !.expiresAt = now + AuthTtl]
           full == [user |-> sessions[t].user, full |-> TRUE]
<1>0. /\ sessions \in [SessionIds -> SessionType] /\ now \in Nat
      /\ sessions[t] \in [user : Users, state : {"pre_mfa", "authenticated"}, expiresAt : Nat]
  BY MemoryNumbers DEF MemoryInv, EntriesOK, SessionType, Completes
<1>1. row \in [user : Users, state : {"pre_mfa", "authenticated"}, expiresAt : Nat]
  <2>1. now + AuthTtl \in Nat
    BY <1>0, MemoryNumbers
  <2> QED
    BY <1>0, <2>1
<1>2. row # None /\ row.user = sessions[t].user /\ row.state = "authenticated"
  BY <1>0, <1>1, SessionAssumption
<1>3. sessions' = [sessions EXCEPT ![t] = row] /\ issued' = issued
  BY <1>0 DEF Completes
<1> HIDE DEF row
<1>4. \A s \in SessionIds : sessions'[s] = IF s = t THEN row ELSE sessions[s]
  BY <1>0, <1>3
<1>5. SpentSessions' = SpentSessions
  BY <1>2, <1>3, <1>4 DEF SpentSessions, Completes, SessionIds
<1>6. \A s \in SessionIds : MemorySession(s)' = IF s = t THEN full ELSE MemorySession(s)
  BY <1>2, <1>4 DEF MemorySession
<1>7. M[t] = [user |-> sessions[t].user, full |-> sessions[t].state = "authenticated"]
  BY DEF MemorySession, Completes
<1>8. M[t] \in [user : Users, full : BOOLEAN] /\ M[t].user = sessions[t].user
  <2> DEFINE b == sessions[t].state = "authenticated"
  <2>1. b \in BOOLEAN /\ M[t] = [user |-> sessions[t].user, full |-> b]
    BY <1>7
  <2> HIDE DEF b, M
  <2> QED
    BY <1>0, <2>1
<1>9. [M[t] EXCEPT !.full = TRUE] = full
  <2> HIDE DEF M
  <2> QED
    BY <1>8, ElevatedContractSession
<1>10. [s \in SessionIds |-> MemorySession(s)'] = [M EXCEPT ![t] = full]
  BY <1>6
<1>11. [s \in SessionIds |-> MemorySession(s)'] = [M EXCEPT ![t].full = TRUE]
  <2>1. [M EXCEPT ![t].full = TRUE] = [M EXCEPT ![t] = [M[t] EXCEPT !.full = TRUE]]
    OBVIOUS
  <2> QED
    BY <1>9, <1>10, <2>1
<1>12. M[t] # None /\ M[t].user \in Users
  BY <1>8, SessionAssumption
<1> QED
  BY <1>5, <1>11, <1>12 DEF Lifecycle!Elevate, SessionIds, Users

(* The in-memory service implements AccountLifecycle: a session opens half   *)
(* signed in under an id that never named one, is elevated by a right code   *)
(* and, once it is dropped or forgotten by a restart, never comes back       *)
(* (loginRecovery, handleOAuthCallback, verifyMfa and getSession).           *)
THEOREM MemoryRefinesLifecycle == Spec => ImplementsLifecycle
<1>1. Init => Lifecycle!Init
  <2> SUFFICES ASSUME Init PROVE Lifecycle!Init
    OBVIOUS
  <2>1. \A s \in SessionIds : MemorySession(s) = None
    BY DEF Init, MemoryInit, EmptyMaps, MemorySession
  <2>2. [u \in Users |-> "active"] \in [Users -> {"absent", "active"}]
        /\ Users = {u \in Users : [v \in Users |-> "active"][u] = "active"}
    OBVIOUS
  <2>3. [s \in SessionIds |-> MemorySession(s)] \in
          [SessionIds -> {None} \cup [user : Users, full : BOOLEAN]]
    BY <2>1
  <2>4. SpentSessions \subseteq SessionIds
        /\ \A s \in SpentSessions : [q \in SessionIds |-> MemorySession(q)][s] = None
    BY <2>1 DEF SpentSessions
  <2> QED
    BY <2>2, <2>3, <2>4 DEF Lifecycle!Init
<1>2. ASSUME MemoryInv, [Next]_vars PROVE Lifecycle!Next
  BY <1>2, StepsOfMemory, SessionSteps, DropsRetire, FreshOpens, CompletesElevates
     DEF Lifecycle!Next
<1>3. MemoryInv /\ PasskeyInv /\ RoutesInv /\ [Next]_vars
        => [Lifecycle!Next]_Lifecycle!lifecycleVars
  BY <1>2
<1> QED
  BY <1>1, <1>3, ApiInvariance, PTL DEF Spec, ImplementsLifecycle, Lifecycle!Spec
-----------------------------------------------------------------------------
(* What the two spacings amount to: how many fall within any span of time.   *)

(* The positions of what a history g holds from t on, before t + span.       *)
WithinSpan(g, t, span) == {i \in 1..Len(g) : t <= g[i] /\ g[i] < t + span}

(* A history in order, whose element gap further on is a span later, has no  *)
(* more than gap elements within any span.                                   *)
LEMMA SpanHolds ==
  ASSUME NEW g \in Seq(Nat), \A i, j \in 1..Len(g) : i <= j => g[i] <= g[j],
         NEW gap \in Nat \ {0}, NEW span \in Nat, Spread(g, gap, span), NEW t \in Nat
  PROVE  Cardinality(WithinSpan(g, t, span)) <= gap
<1> DEFINE S == WithinSpan(g, t, span)
<1>1. S \subseteq 1..Len(g) /\ S \in SUBSET Nat /\ Len(g) \in Nat
  BY DEF WithinSpan
<1>2. CASE S = {}
  BY <1>2, FS_EmptySet
<1>3. CASE S # {}
  <2>1. PICK low \in S : \A i \in S : low <= i
    <3> DEFINE R == OpToRel(<, Nat)
    <3>1. \A x, y \in Nat : <<y, x>> \in R <=> y < x
      BY DEF OpToRel
    <3>2. IsWellFoundedOn(R, Nat) /\ S \subseteq Nat /\ S # {}
      BY <1>1, <1>3, NatLessThanWellFounded
    <3> HIDE DEF S, R
    <3>3. \E x \in S : \A y \in S : ~ (<<y, x>> \in R)
      BY <3>2, WFMin, Zenon
    <3>4. PICK x \in S : \A y \in S : ~ (<<y, x>> \in R)
      BY <3>3
    <3>5. ASSUME NEW y \in S PROVE x <= y
      <4>1. x \in Nat /\ y \in Nat /\ ~(<<y, x>> \in R)
        BY <3>2, <3>4
      <4>2. ~(y < x)
        BY <3>1, <4>1, Zenon
      <4> QED
        BY <4>1, <4>2
    <3> QED
      BY <3>5
  <2>2. low \in 1..Len(g) /\ low \in Nat /\ t <= g[low] /\ g[low] \in Nat
    BY <2>1 DEF WithinSpan
  <2>3. ASSUME NEW i \in S PROVE i \in low..(low + gap - 1)
    <3>1. i \in 1..Len(g) /\ i \in Nat /\ low <= i /\ g[i] < t + span /\ g[i] \in Nat
      BY <2>1 DEF WithinSpan
    <3>2. CASE i >= low + gap
      <4>1. low + gap \in 1..Len(g) /\ low + gap <= i
        BY <2>2, <3>1, <3>2
      <4>2. g[low + gap] >= g[low] + span /\ g[low + gap] <= g[i] /\ g[low + gap] \in Nat
        BY <2>2, <3>1, <4>1 DEF Spread
      <4>3. ASSUME NEW a \in Nat, NEW b \in Nat, NEW c \in Nat,
                   t <= a, b >= a + span, b <= c, c < t + span
            PROVE  FALSE
        BY <4>3
      <4> QED
        BY <2>2, <3>1, <4>2, <4>3
    <3> QED
      BY <2>2, <3>1, <3>2
  <2>4. IsFiniteSet(low..(low + gap - 1)) /\ Cardinality(low..(low + gap - 1)) = gap
    <3>1. low \in Int /\ low + gap - 1 \in Int /\ ~(low > low + gap - 1)
      BY <2>2
    <3>2. /\ IsFiniteSet(low..(low + gap - 1))
          /\ Cardinality(low..(low + gap - 1)) = IF low > low + gap - 1 THEN 0 ELSE low + gap - 1 - low + 1
      BY <3>1, FS_Interval
    <3> QED
      BY <2>2, <3>1, <3>2
  <2> DEFINE T == low..(low + gap - 1)
  <2>5. S \in SUBSET T
    BY <2>3
  <2>6. IsFiniteSet(T) /\ Cardinality(T) = gap
    BY <2>4
  <2> HIDE DEF S, T
  <2>7. Cardinality(S) <= Cardinality(T)
    BY <2>5, <2>6, FS_Subset
  <2> QED
    BY <2>6, <2>7 DEF S
<1> QED
  BY <1>2, <1>3

(* Wrong attempts are kept in the order they were made.                      *)
GuessesOrdered ==
  \A k \in LockKeys : \A i, j \in 1..Len(guesses[k]) :
    i <= j => guesses[k][i] <= guesses[k][j]

(* A step appends the present to a history, forgets it or leaves it.         *)
LEMMA HistorySteps ==
  ASSUME MemoryInv, [MemoryNext]_memVars, NEW k \in LockKeys
  PROVE  guesses'[k] \in {guesses[k], <<>>, Append(guesses[k], now)}
<1>0. guesses \in [LockKeys -> Seq(Nat)]
  BY DEF MemoryInv, LocksOK
<1>1. ASSUME NEW q, FailAuthAttempt(q) \/ ClearAuthFailures(q)
      PROVE  guesses'[k] \in {guesses[k], <<>>, Append(guesses[k], now)}
  BY <1>0, <1>1 DEF FailAuthAttempt, ClearAuthFailures
<1>2. CASE CountedCall
  BY <1>1, <1>2
     DEF CountedCall, CallbackThrottled, CallbackAccepted, RecoveryRight, RecoveryThrottled,
         RecoveryLocked, RecoveryWrong
<1>3. CASE UncountedCall
  BY <1>1, <1>3 DEF UncountedCall, StartOAuth, VerifyMfaWrong, VerifyMfaRight, GetExpired
<1>4. CASE Tick \/ Restart \/ UNCHANGED memVars
  BY <1>4 DEF Tick, Restart, EmptyMaps, memVars
<1> QED
  BY <1>2, <1>3, <1>4 DEF MemoryNext

(* So they stay in order.                                                    *)
LEMMA OrderKept ==
  ASSUME MemoryInv, GuessesOrdered, [MemoryNext]_memVars
  PROVE  GuessesOrdered'
<1> SUFFICES ASSUME NEW k \in LockKeys, NEW i \in 1..Len(guesses'[k]),
                    NEW j \in 1..Len(guesses'[k]), i <= j
             PROVE  guesses'[k][i] <= guesses'[k][j]
  BY DEF GuessesOrdered, LockKeys, Users
<1> DEFINE g == guesses[k]
<1>1. g \in Seq(Nat) /\ now \in Nat /\ \A n \in 1..Len(g) : g[n] <= now
  BY MemoryNumbers DEF MemoryInv, LocksOK, LockOK, EntriesOK
<1>2. \A m, n \in 1..Len(g) : m <= n => g[m] <= g[n]
  BY DEF GuessesOrdered
<1>3. guesses'[k] \in {g, <<>>, Append(g, now)}
  BY HistorySteps
<1> HIDE DEF g
<1>4. CASE guesses'[k] = g
  BY <1>2, <1>4
<1>5. CASE guesses'[k] = <<>>
  BY <1>5
<1>6. CASE guesses'[k] = Append(g, now)
  <2>1. Len(Append(g, now)) = Len(g) + 1 /\ Len(g) \in Nat
        /\ \A n \in 1..(Len(g) + 1) : Append(g, now)[n] = IF n = Len(g) + 1 THEN now ELSE g[n]
    BY <1>1
  <2>2. i \in 1..(Len(g) + 1) /\ j \in 1..(Len(g) + 1)
    BY <1>6, <2>1
  <2>3. CASE j = Len(g) + 1
    BY <1>1, <1>6, <2>1, <2>2, <2>3
  <2>4. CASE j # Len(g) + 1
    <3>1. i \in 1..Len(g) /\ j \in 1..Len(g)
      BY <2>1, <2>2, <2>4
    <3> QED
      BY <1>2, <1>6, <2>1, <2>2, <2>4, <3>1
  <2> QED
    BY <2>3, <2>4
<1> QED
  BY <1>3, <1>4, <1>5, <1>6

(* Whatever sessions and addresses share a key, no span shorter than a lock  *)
(* holds more than Threshold wrong attempts against it (failAuthAttempt).    *)
AttemptsBounded ==
  \A k \in LockKeys, t \in Nat : Cardinality(WithinSpan(guesses[k], t, LockoutMs)) <= Threshold

(* No span shorter than a window holds more than twice the maximum, less     *)
(* one, of the calls a bucket lets pass (hitRateLimit).                      *)
CallsBounded ==
  \A b \in Buckets, t \in Nat :
    Cardinality(WithinSpan(admissions[b], t, WindowMs)) <= 2 * MaxOf(b) - 1

(* The lock bounds the rate of guessing, in one life of the process: of the  *)
(* wrong attempts since the last right one, at most Threshold fall within    *)
(* any LockoutMs (checkLockout, failAuthAttempt).                            *)
THEOREM GuessingRate == Spec => []AttemptsBounded
<1>1. Init => GuessesOrdered
  BY DEF Init, MemoryInit, EmptyMaps, GuessesOrdered
<1>2. MemoryInv /\ PasskeyInv /\ RoutesInv /\ GuessesOrdered /\ [Next]_vars => GuessesOrdered'
  BY StepsOfMemory, OrderKept
<1>3. MemoryInv /\ GuessesOrdered => AttemptsBounded
  <2> SUFFICES ASSUME MemoryInv, GuessesOrdered, NEW k \in LockKeys, NEW t \in Nat
               PROVE  Cardinality(WithinSpan(guesses[k], t, LockoutMs)) <= Threshold
    BY DEF AttemptsBounded
  <2>1. /\ guesses[k] \in Seq(Nat) /\ Spread(guesses[k], Threshold, LockoutMs)
        /\ \A i, j \in 1..Len(guesses[k]) : i <= j => guesses[k][i] <= guesses[k][j]
    BY DEF MemoryInv, LocksOK, LockOK, GuessesOrdered
  <2> QED
    BY <2>1, MemoryNumbers, SpanHolds
<1> QED
  BY <1>1, <1>2, <1>3, ApiInvariance, PTL DEF Spec

(* The limiter bounds the rate of calls: the fixed windows let twice the     *)
(* maximum, less one, through in any WindowMs, and no more (hitRateLimit).   *)
THEOREM AdmissionRate == Spec => []CallsBounded
<1>1. MemoryInv => CallsBounded
  <2> SUFFICES ASSUME MemoryInv, NEW b \in Buckets, NEW t \in Nat
               PROVE  Cardinality(WithinSpan(admissions[b], t, WindowMs)) <= 2 * MaxOf(b) - 1
    BY DEF CallsBounded
  <2>1. /\ admissions[b] \in Seq(Nat) /\ Spread(admissions[b], 2 * MaxOf(b) - 1, WindowMs)
        /\ \A i, j \in 1..Len(admissions[b]) : i <= j => admissions[b][i] <= admissions[b][j]
    BY DEF MemoryInv, BucketsOK, BucketOK
  <2>2. 2 * MaxOf(b) - 1 \in Nat \ {0} /\ WindowMs \in Nat
    BY MemoryNumbers
  <2> QED
    BY <2>1, <2>2, SpanHolds
<1> QED
  BY <1>1, ApiInvariance, PTL

-----------------------------------------------------------------------------
(* A passkey is never locked out: whatever verifications race and whatever   *)
(* responses are sent again, the count that is stored is one its             *)
(* authenticator has reached, so the counter of the next assertion it signs  *)
(* is accepted (registration upsert, assertion update).                      *)
NextAssertionPasses ==
  \A k \in Credentials :
    credentials[k] # NoRow => CounterAccepted(credentials[k].signCount, counters[k] + 1)

(* What that rests on: nothing in flight or stored is ahead of the           *)
(* authenticator.                                                            *)
CountsBehind ==
  /\ \A r \in responses : r.counter <= counters[r.credential]
  /\ \A v \in Ceremonies : ceremony[v] # Idle =>
       ceremony[v].response.counter <= counters[ceremony[v].response.credential]
  /\ \A k \in Credentials : credentials[k] # NoRow => credentials[k].signCount <= counters[k]

(* A credential keeps the user it was first registered for.                  *)
OwnersKept ==
  \A k \in Credentials : credentials[k] # NoRow =>
    credentials'[k] # NoRow /\ credentials'[k].user = credentials[k].user

(* A verification in flight carries the response it began with, one that an  *)
(* authenticator signed.                                                     *)
LEMMA ResponseCarried ==
  ASSUME PasskeyInv, [PasskeyNext]_passkeyVars, NEW w \in Ceremonies
  PROVE  \/ ceremony'[w] = Idle
         \/ ceremony[w] # Idle /\ ceremony'[w].response = ceremony[w].response
         \/ ceremony'[w].response \in responses
<1>0. ceremony \in [Ceremonies -> CeremonyType]
  BY DEF PasskeyInv, PasskeyTypeOK
<1>1. ASSUME NEW v \in Ceremonies, VerifyStart(v)
      PROVE  ceremony'[w] = ceremony[w] \/ ceremony'[w].response \in responses
  BY <1>0, <1>1 DEF VerifyStart, RegistrationSelect, AssertionSelect
<1>2. ASSUME NEW v \in Ceremonies, VerifyStep(v)
      PROVE  \/ ceremony'[w] \in {ceremony[w], Idle}
             \/ ceremony[w] # Idle /\ ceremony'[w].response = ceremony[w].response
  <2>1. CASE w # v
    BY <1>0, <1>2, <2>1 DEF VerifyStep, RegistrationDelete, RegistrationUpsert, AssertionCredential,
       AssertionDelete, AssertionUpdate
  <2>2. CASE w = v
    <3>1. ceremony[v] # Idle
      BY <1>2 DEF VerifyStep, RegistrationDelete, RegistrationUpsert, AssertionCredential,
         AssertionDelete, AssertionUpdate, Idle
    <3>2. CASE RegistrationUpsert(v) \/ AssertionUpdate(v)
      BY <1>0, <2>2, <3>2 DEF RegistrationUpsert, AssertionUpdate
    <3>3. CASE AssertionCredential(v)
      BY <1>0, <2>2, <3>1, <3>3 DEF AssertionCredential
    <3>4. CASE RegistrationDelete(v) \/ AssertionDelete(v)
      <4>1. PICK pc \in {"register.upsert", "assert.update"} :
              ceremony' = [ceremony EXCEPT ![v].pc = pc]
        BY <3>4 DEF RegistrationDelete, AssertionDelete
      <4>2. ceremony[v] \in CeremonyType \ {Idle}
        BY <1>0, <3>1
      <4>3. [ceremony[v] EXCEPT !.pc = pc].response = ceremony[v].response
        BY <4>2 DEF CeremonyType
      <4>4. ceremony'[v] = [ceremony[v] EXCEPT !.pc = pc]
        BY <1>0, <4>1
      <4> QED
        BY <2>2, <3>1, <4>3, <4>4
    <3> QED
      BY <1>2, <3>2, <3>3, <3>4 DEF VerifyStep
  <2> QED
    BY <2>1, <2>2
<1>3. CASE CeremoniesLost
  BY <1>3 DEF CeremoniesLost
<1>4. ASSUME ~(\E v \in Ceremonies : VerifyStart(v) \/ VerifyStep(v)), ~CeremoniesLost
      PROVE  ceremony' = ceremony
  BY <1>4 DEF PasskeyNext, GenerateOptions, ChallengeLapses, Signs, passkeyVars
<1> QED
  BY <1>1, <1>2, <1>3, <1>4

(* A credential's row is written by the last query of a verification only,   *)
(* which gives it the count of its response and leaves its user.             *)
LEMMA RowWritten ==
  ASSUME PasskeyInv, [PasskeyNext]_passkeyVars, NEW k \in Credentials
  PROVE  \/ credentials'[k] = credentials[k]
         \/ \E v \in Ceremonies :
              /\ ceremony[v] # Idle /\ ceremony[v].response.credential = k
              /\ counters' = counters /\ credentials'[k] # NoRow
              /\ credentials'[k].signCount = ceremony[v].response.counter
              /\ credentials[k] # NoRow => credentials'[k].user = credentials[k].user
<1>0. /\ ceremony \in [Ceremonies -> CeremonyType]
      /\ credentials \in [Credentials -> {NoRow} \cup [user : Holders, signCount : Nat]]
  BY DEF PasskeyInv, PasskeyTypeOK
<1>1. ASSUME NEW v \in Ceremonies, RegistrationUpsert(v) \/ AssertionUpdate(v),
             credentials'[k] # credentials[k]
      PROVE  /\ ceremony[v] # Idle /\ ceremony[v].response.credential = k
             /\ counters' = counters /\ credentials'[k] # NoRow
             /\ credentials'[k].signCount = ceremony[v].response.counter
             /\ credentials[k] # NoRow => credentials'[k].user = credentials[k].user
  <2> DEFINE r == ceremony[v].response
             owner == IF credentials[k] = NoRow THEN ceremony[v].user ELSE credentials[k].user
  <2>1. ceremony[v].pc \in {"register.upsert", "assert.update"} /\ ceremony[v] # Idle
        /\ counters' = counters
    BY <1>1 DEF RegistrationUpsert, AssertionUpdate, Idle
  <2>2. r \in Response /\ r.counter \in Nat /\ ceremony[v].user \in Holders
    BY <1>0, <2>1 DEF CeremonyType, Response
  <2>3. ceremony[v].pc = "assert.update" => credentials[r.credential] # NoRow
    BY DEF PasskeyInv, CeremonyOK
  <2>4. r.credential = k
    BY <1>0, <1>1, <2>2 DEF RegistrationUpsert, AssertionUpdate, Response
  <2>5. CASE RegistrationUpsert(v)
    <3>1. credentials'[k] = [user |-> owner, signCount |-> r.counter]
      BY <1>0, <2>4, <2>5 DEF RegistrationUpsert
    <3>2. [user |-> owner, signCount |-> r.counter] \in [user : Holders, signCount : Nat]
      BY <1>0, <2>2
    <3> QED
      BY <2>1, <2>4, <3>1, <3>2, PasskeyNumbers
  <2>6. CASE AssertionUpdate(v)
    <3>1. credentials[k] \in [user : Holders, signCount : Nat]
      BY <1>0, <2>3, <2>4, <2>6 DEF AssertionUpdate
    <3>2. credentials'[k] = [credentials[k] EXCEPT !.signCount = r.counter]
      BY <1>0, <2>4, <2>6 DEF AssertionUpdate
    <3>3. credentials'[k] \in [user : Holders, signCount : Nat]
          /\ credentials'[k].signCount = r.counter /\ credentials'[k].user = credentials[k].user
      BY <2>2, <3>1, <3>2
    <3> QED
      BY <2>1, <2>4, <3>3, PasskeyNumbers
  <2> QED
    BY <1>1, <2>5, <2>6
<1>2. ASSUME ~(\E v \in Ceremonies : RegistrationUpsert(v) \/ AssertionUpdate(v))
      PROVE  credentials' = credentials
  BY <1>2 DEF PasskeyNext, GenerateOptions, ChallengeLapses, Signs, VerifyStart, RegistrationSelect,
     AssertionSelect, VerifyStep, RegistrationDelete, AssertionCredential, AssertionDelete,
     CeremoniesLost, passkeyVars
<1> QED
  BY <1>1, <1>2

(* An authenticator only counts up, and what it signs carries its count.     *)
LEMMA CountersRun ==
  ASSUME PasskeyInv, [PasskeyNext]_passkeyVars
  PROVE  /\ counters' \in [Credentials -> Nat] /\ \A k \in Credentials : counters[k] <= counters'[k]
         /\ \A r \in responses' : r \in responses \/ r.counter = counters'[r.credential]
<1>0. counters \in [Credentials -> Nat]
  BY DEF PasskeyInv, PasskeyTypeOK
<1>1. ASSUME NEW k \in Credentials, NEW c, NEW t, Signs(k, c, t)
      PROVE  /\ counters' \in [Credentials -> Nat] /\ \A q \in Credentials : counters[q] <= counters'[q]
             /\ \A r \in responses' : r \in responses \/ r.counter = counters'[r.credential]
  <2>1. counters' = [counters EXCEPT ![k] = IF t = "assertion" THEN counters[k] + 1 ELSE counters[k]]
    BY <1>0, <1>1 DEF Signs
  <2>2. \A r \in responses' : r \in responses \/ r.counter = counters'[r.credential]
    BY <1>1 DEF Signs
  <2> QED
    BY <1>0, <2>1, <2>2
<1>2. ASSUME ~(\E k \in Credentials, c \in ChallengeIds, t \in {"registration", "assertion"} :
                Signs(k, c, t))
      PROVE  counters' = counters /\ responses' = responses
  BY <1>2 DEF PasskeyNext, GenerateOptions, ChallengeLapses, VerifyStart, RegistrationSelect,
     AssertionSelect, VerifyStep, RegistrationDelete, RegistrationUpsert, AssertionCredential,
     AssertionDelete, AssertionUpdate, CeremoniesLost, passkeyVars
<1> QED
  BY <1>0, <1>1, <1>2

(* What was signed can always be sent.                                       *)
LEMMA ResponsesGrow == ASSUME [PasskeyNext]_passkeyVars PROVE responses \subseteq responses'
BY DEF PasskeyNext, GenerateOptions, ChallengeLapses, Signs, VerifyStart, RegistrationSelect,
   AssertionSelect, VerifyStep, RegistrationDelete, RegistrationUpsert, AssertionCredential,
   AssertionDelete, AssertionUpdate, CeremoniesLost, passkeyVars

(* So no step takes a count ahead of its authenticator, or a credential away *)
(* from its user.                                                            *)
LEMMA CountsStayBehind ==
  ASSUME PasskeyInv, CountsBehind, [PasskeyNext]_passkeyVars
  PROVE  CountsBehind' /\ OwnersKept
<1>0. /\ counters \in [Credentials -> Nat] /\ counters' \in [Credentials -> Nat]
      /\ \A k \in Credentials : counters[k] <= counters'[k]
      /\ responses \subseteq Response
      /\ credentials \in [Credentials -> {NoRow} \cup [user : Holders, signCount : Nat]]
  BY CountersRun DEF PasskeyInv, PasskeyTypeOK
<1>1. ASSUME NEW r \in responses' PROVE r.counter <= counters'[r.credential]
  <2>1. CASE r \in responses
    <3>1. r \in Response /\ r.counter <= counters[r.credential]
      BY <1>0, <2>1 DEF CountsBehind
    <3>2. r.credential \in Credentials /\ r.counter \in Nat
      BY <3>1 DEF Response
    <3> QED
      BY <1>0, <3>1, <3>2
  <2>2. CASE r \notin responses
    <3>1. PasskeyInv'
      BY PasskeyStep
    <3>2. r.counter = counters'[r.credential] /\ r.counter \in Nat
      BY <2>2, <3>1, CountersRun DEF PasskeyInv, PasskeyTypeOK, Response
    <3> QED
      BY <3>2
  <2> QED
    BY <2>1, <2>2
<1>2. ASSUME NEW v \in Ceremonies, ceremony[v] # Idle
      PROVE  /\ ceremony[v].response.credential \in Credentials
             /\ ceremony[v].response.counter \in Nat
             /\ ceremony[v].response.counter <= counters[ceremony[v].response.credential]
  <2>1. ceremony[v].response \in Response
    BY <1>2 DEF PasskeyInv, PasskeyTypeOK, CeremonyType
  <2> QED
    BY <1>2, <2>1 DEF CountsBehind, Response
<1>3. ASSUME NEW v \in Ceremonies, ceremony'[v] # Idle
      PROVE  ceremony'[v].response.counter <= counters'[ceremony'[v].response.credential]
  <2>1. CASE ceremony'[v].response \in responses
    <3>1. ceremony'[v].response \in responses'
      BY <2>1, ResponsesGrow
    <3> QED
      BY <1>1, <3>1
  <2>2. CASE ceremony[v] # Idle /\ ceremony'[v].response = ceremony[v].response
    BY <1>0, <1>2, <2>2
  <2> QED
    BY <1>3, <2>1, <2>2, ResponseCarried
<1>4. ASSUME NEW k \in Credentials
      PROVE  /\ credentials'[k] # NoRow => credentials'[k].signCount <= counters'[k]
             /\ credentials[k] # NoRow =>
                  credentials'[k] # NoRow /\ credentials'[k].user = credentials[k].user
  <2>1. CASE credentials'[k] = credentials[k]
    <3>1. credentials[k] # NoRow => credentials[k].signCount \in Nat
      BY <1>0
    <3> QED
      BY <1>0, <2>1, <3>1 DEF CountsBehind
  <2>2. CASE credentials'[k] # credentials[k]
    <3>1. PICK v \in Ceremonies :
            /\ ceremony[v] # Idle /\ ceremony[v].response.credential = k
            /\ counters' = counters /\ credentials'[k] # NoRow
            /\ credentials'[k].signCount = ceremony[v].response.counter
            /\ credentials[k] # NoRow => credentials'[k].user = credentials[k].user
      BY <2>2, RowWritten
    <3> QED
      BY <1>2, <3>1
  <2> QED
    BY <2>1, <2>2
<1> QED
  BY <1>1, <1>3, <1>4 DEF CountsBehind, OwnersKept

(* No race of verifications and no response sent again locks a passkey out:  *)
(* the counter of the next assertion its authenticator signs is always       *)
(* accepted (verifyRegistration, verifyAssertion).                           *)
THEOREM PasskeyNeverLockedOut == Spec => []NextAssertionPasses
<1>1. Init => CountsBehind
  BY DEF Init, PasskeysInit, CountsBehind
<1>2. MemoryInv /\ PasskeyInv /\ RoutesInv /\ CountsBehind /\ [Next]_vars => CountsBehind'
  BY StepsOfPasskeys, CountsStayBehind
<1>3. PasskeyInv /\ CountsBehind => NextAssertionPasses
  <2> SUFFICES ASSUME PasskeyInv, CountsBehind, NEW k \in Credentials, credentials[k] # NoRow
               PROVE  CounterAccepted(credentials[k].signCount, counters[k] + 1)
    BY DEF NextAssertionPasses
  <2>1. credentials[k].signCount \in Nat /\ counters[k] \in Nat
    BY DEF PasskeyInv, PasskeyTypeOK
  <2> QED
    BY <2>1 DEF CountsBehind, CounterAccepted
<1> QED
  BY <1>1, <1>2, <1>3, ApiInvariance, PTL DEF Spec

(* A credential never moves to another user, whoever registers it again (ON  *)
(* CONFLICT in verifyRegistration writes the count only).                    *)
THEOREM CredentialsKeepOwner == Spec => [][OwnersKept]_vars
<1>1. Init => CountsBehind
  BY DEF Init, PasskeysInit, CountsBehind
<1>2. MemoryInv /\ PasskeyInv /\ RoutesInv /\ CountsBehind /\ [Next]_vars
        => CountsBehind' /\ OwnersKept
  BY StepsOfPasskeys, CountsStayBehind
<1> QED
  BY <1>1, <1>2, ApiInvariance, PTL DEF Spec
===============================================================================
