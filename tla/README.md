# FMsys: formal model of the API, the snapshot worker and the web client

This directory holds TLA+ modules that model the FMsys repository (`src/`), TLC
configurations that check them on small instances, and proofs that TLAPS checks
for every value of the constants.  `PROJECT.json` lists, for every definition, the
source lines it stands for, for every property the run that checks it and a mutant
of the code it rejects, and the hazards of the code.

## 1. Inventory

FMsys is a personal-finance dashboard: a Node API (`apps/api`), an asynchronous
worker (`apps/worker`), shared functions (`packages/shared`), a Next.js front end
(`apps/web`) and a PostgreSQL schema (`db/migrations`).

| Component | State it keeps | Operations | Interacts with |
|---|---|---|---|
| Database-backed auth service (`authService.js:418-736`) | rows of `user_auth_profiles`, `auth_tokens`, `auth_sessions`, `known_devices`, `recovery_codes`; the `rateLimits` map | register, verifyEmail, setupPassword, setupMfa, verifyMfaSetup, verifyMfaDb, login, forgotPassword, resetPassword, changePassword, logoutDb, getSessionDb, listSessions, revokeSession, revokeAllOtherSessions | repositories (one SQL statement per await), e-mail service, `authRoutes.js` |
| Repositories (`userRepository.js`, `tokenRepository.js`, `sessionRepository.js`, `recoveryCodeService.js`) | the tables | one query per method | PostgreSQL through `db.js` |
| In-memory auth service (`authService.js:39-415`) | Maps of sessions, OAuth states, users, rate limits, locks | startOAuth, handleOAuthCallback, loginRecovery, verifyMfa, getSession, ensureAuthenticated, logout | the same routes; OAuth provider (external) |
| Passkey service (`passkeyService.js`) | rows of `webauthn_challenges`, and of `webauthn_credentials` with their sign counts | registration and authentication options, verification | WebAuthn library (external) |
| API server and routes (`server.js`, `authRoutes.js`, `csrfGuard.js`) | the cleanup timer | dispatch, cookies, the deletion of expired rows every 10 minutes | everything above |
| Snapshot trigger and webhook (`snapshotRoutes.js`, `webhookRoutes.js`) | set of event keys already seen | postSnapshotTrigger, postSnapshotReadyWebhook | worker queue, transaction provider |
| Worker queue (`queue.js`) | pending jobs, dead letters, counters | enqueue, runPending | job handlers |
| Snapshot processor (`snapshotProcessor.js`) | rows of `snapshots` and `snapshot_diffs` | processSnapshotJob | transaction API, rates provider, snapshot repository |
| Rates provider (`ratesProvider.js`) | cache by date | getRates | a list of providers (external) |
| Shared functions (`packages/shared`, `reporting.js`, `analyticsRoutes.js`) | none | valuation, aggregation, display currency, SQL text, projections | processor, API, web |
| Web middleware and router (`middleware.ts`, `app/page.tsx`, `app/settings`) | the session cookie, the page and the navigation under way | redirects by session state, client navigation, reload | API, panels |
| Auth panels (`components/auth`, `lib/auth-client.js`) | `useState` values of eight panels, `legacy_session_id` in sessionStorage | typing, submitting, the code after each await | router, API |
| Security settings (`components/settings`) | list of sessions, flags, change-password form | load, revoke, revoke all others, change the password | API |
| Web shell (`components/layout`, `ui`, `profile`, `notifications`, `lib/theme.ts`) | what is open, profile draft, theme | open, close by button, backdrop, Escape or a click elsewhere; theme switch | pages, other tabs through localStorage |
| Data pages (`app/cashflow`, `app/allocation`, `app/reports`, `app/dashboard` and their components) | tab, accounts, transactions, subscriptions, month shown, upload, dialogs | the handlers of those | shell, address bar |

### What is hard about it

* **Interleaving.**  Every database-backed operation is an `async` function of two
  to ten awaits.  Between two awaits any other handler may run, so each handler works
  on a snapshot of rows that may be stale, and no operation uses a transaction.
* **Partial failure.**  An await that rejects is caught nowhere between the handler
  and `http.createServer`, so it ends the Node process: each pair of writes of a
  handler can be cut in two, for that handler and for every other one in flight, and
  the Maps of the process are lost while browsers keep their cookies.
* **Time.**  Tokens, sessions, idle timeouts, locks and limiter windows expire while
  a handler that found them valid is still running; the cleanup job deletes rows
  whose ids handlers still hold.
* **Split protocols.**  An account becomes usable through five requests linked only
  by tokens and session states; a passkey ceremony is two requests linked by a
  challenge; a worker job writes a snapshot and its diff in two statements and is
  retried by a queue that knows nothing of either.
* **Late answers in the browser.**  A panel sets flags, awaits and clears them; the
  answer may be lost, come after the page was left or after another one, and the
  middleware decides on a session state that has changed meanwhile.
* **Copies of one fact in the client.**  Theme attribute and switch, tab and address,
  draft and saved profile, type and category of a form are separate states that many
  handlers write.

### What makes each component correct

* *Auth tables*: an active account is verified and has a password; tokens are issued
  and used for the purpose of their type; sessions belong to existing, active accounts.
* *Registration*: the phases absent, pending, verified, active are passed in that order.
* *Sign-in*: the threshold of failed attempts locks; a session is elevated only with a
  second factor; a session that ended never comes back; devices are recorded.
* *Registration e-mail*: while nothing fails or expires, only an e-mail that was not sent keeps an
  address from being verified.
* *Recovery and change*: a password is written only by a request that has spent a token of that
  user, or that has a session of theirs and knew the password of the row it read.
* *Session administration*: a user ends only their own sessions.
* *Cleanup*: an expired row stays expired whatever late handlers write, and is deleted in the end.
* *In-memory auth*: wrong attempts and admitted calls are spaced as the limits say; every
  session has its user; an in-memory session that the cookie names is elevated.
* *Passkeys, webhook*: a challenge that was used is gone, except to verifications that had read it
  before; a lone replay never lowers a sign count; an event is accepted once in each life of the process.
* *Queue and worker*: every job is completed or dead-lettered once, after at most
  `maxAttempts` runs; a completed job has a snapshot and its diff.
* *Web, signed out*: redirects settle; a page behind the login is mounted only on the
  word of the API; a flag is set exactly while its request is awaited.
* *Web, signed in*: a session reported revoked is listed no more once nothing is awaited, unless two
  lists overlapped; the category of a transaction fits its type; theme and profile agree with what they
  are copies of.

## 2. Modules

### The auth gateway

    AuthTables <- AuthRequests <- Registration  \
                               <- SignIn         \
                               <- PasswordRecovery > AuthService <- AuthInvariant <- AuthEffects <- AuthService_proofs
                               <- SessionAdmin  /       |       <- AuthClaims    <- MCAuthService
                                                        +- INSTANCE AccountLifecycle

* **AuthTables** - the tables as functions from ids to rows or `None`, and one operator
  per repository query.  A query is atomic, as a single SQL statement is.  Ids are
  chosen so that no generator is needed: a request creates at most one token, one
  session and one TOTP secret, which carry the number of the request.  Passwords are
  model values and `hash(p)` is `p`; a TOTP code stands for the secret it was computed
  from, so that a right code is one of the secret stored *now*.  Deadlines are
  booleans (`lapsed`): a row may lapse at any moment after it is written, which covers
  every TTL of the configuration, and a lapsed row is what `findValid`'s
  `expires_at > NOW()` refuses.
* **AuthRequests** - the process: `req[r]` is the handler of request `r`, with `pc`
  naming the await whose query runs next and the locals it still needs.  `Crash` ends
  every handler in flight and empties the memory of the process, and leaves the
  tables.  The cleanup job and its two `DELETE`s are here; `CleanupFails` is the error of either that the
  job swallows.
* **Registration, SignIn, PasswordRecovery, SessionAdmin** - one action per call and
  one per await of the operations of the same names.  The calling action contains
  everything up to the first write or the second read: in these handlers the code
  before it is one `SELECT` and tests on the row it returned.
* **AuthService** - the composition, its fairness, and the properties.
* **AccountLifecycle** - the abstract specification: the "two state machines" of the
  login design over accounts and sessions, without requests, tokens or tables.
  Three modules implement it, each under the mapping at its end: AuthService (rows of the
  database), ApiServer (the Maps of the in-memory service, whose users are active from the start)
  and WebAuth (the API as one browser sees it).  So the two services and the client's picture of
  them keep one contract.
* **AuthClaims** - sentences of comments and of the design document which the code does not
  keep.
* **AuthInvariant** - the inductive invariant.  **AuthEffects** - lemmas about the
  operators.  **AuthService_proofs** - the proofs.

Correspondence of state and code:

| TLA+ | Code |
|---|---|
| `users[u]` | row of `user_auth_profiles` with `primary_email` u; `None`: no row |
| `users[u].lock` | `locked_until`: NULL, in the future, in the past |
| `tokens[t].delivered` | the client holds the token value: the e-mail was sent, or the answer returned it |
| `tokens[t].consumed` | `consumed_at IS NOT NULL` |
| `sessions[s].state` | `pre_mfa`, `mfa_setup`, `authenticated` |
| `devices[u][d]`, `codes[u]` | number of rows of `known_devices` and of unconsumed `recovery_codes` |
| `req[r].pc = "login.reread"` | the handler awaits `users.findById` of authService.js:505, and likewise for the other names |
| `ipHits[d]` | count of the `login-ip` bucket of `rateLimits` |
| `job` | between `sessions.deleteExpired()` and `tokens.deleteExpired()` of server.js |

`DeliverToken` is the await of an e-mail.  It may send nothing: without a Resend client `send` returns at once
(emailService.js:14-18), and no handler can tell.  Both outcomes are in the model; as `createServer` hands the options
over it is always this one (section 4).

An HTTP client can present any session id, but only a token it was given (a token is 32
random bytes): `TokenPresented`.  Session ids are left guessable because the ownership
tests of `revokeSession` are what protects them.

### The snapshot worker

    JobLedger <- INSTANCE - JobQueue  <- SnapshotWorker <- SnapshotClaims <- MCSnapshotWorker
                 RatesProvider <- INSTANCE -/     |
                            JobQueue_proofs <- SnapshotWorker_proofs

* **JobLedger** - the abstract specification: an accepted job runs at most `MaxAttempts` times
  and ends once.
* **JobQueue** - `InMemoryQueue`.  Nothing keeps `runPending` from being called while an
  earlier call awaits a handler, so `Runners` calls may overlap.  `runner[w]` is the job whose
  handler call w awaits; `Resolve` and `Reject` are the two ways the handler's promise settles,
  with all of `#runJob` that follows; `Shift` and `LoopEnds` are the two outcomes of the test in
  the `while`.
* **RatesProvider** - the cache and the position each call of `getRates` has reached in the
  list of providers.  A call is not cancelled when its caller gives up.
* **SnapshotWorker** - the trigger route enqueues, the queue runs `processSnapshotJob`.  The
  repository has the parts and no worker program: that failed jobs are retried by the queue and
  dead-lettered is what the design (openspec `design.md:58`), the task list and
  `ops/runbooks/backup-restore.md:16` say, and the tests call the parts with stubs.  Two
  interfaces do not fit by themselves: the route calls `enqueue(name, payload)` where the queue
  takes `(type, handler)`, and the payload has no `snapshotDate`; the model has the closure
  supply both, as `scripts/demo.js` does.  `findPreviousSnapshot` is
  external and may return any snapshot of the series, since it is told no date.  The tables are
  those of `001_init_snapshot_schema.sql` with its UNIQUE constraint.  Any external call may
  fail, and an INSERT may also be done although its answer is lost.
* **SnapshotClaims** - a requirement of the repository that the code does not keep.

| TLA+ | Code |
|---|---|
| `pending`, `attempts`, `deadLetter`, `completed` | the fields of `InMemoryQueue` and of its jobs |
| `handler[j].awaits` | promises of the `Promise.all` not yet fulfilled |
| `handler[j].pc` | the await of snapshotProcessor.js:31, 44 or 59 |
| `fetch[<<j, a>>]` | the `for` loop of `getRates` called by run a of job j |
| `snapshots[j]`, `diffs[j]` | the row job j inserted, and the row of `snapshot_diffs` for it |

Left out: amounts (net worth, change, anomalies), the text of a dead letter's
reason, an empty list of providers, and a restart of the worker, which would empty the queue
and so lose accepted jobs.

### The API process

    MemoryAuth \
    Passkeys    > ApiServer <- MCApiServer
                      |     <- ApiServer_proofs

* **MemoryAuth** - the half of `authService.js` that keeps its state in Maps.  No handler
  awaits, so each is one action.  Time is absolute and moves with `Tick`, because limits and locks
  are about durations; `rateLimits`, `lockouts` and the deadlines are the code's.  `guesses` and
  `admissions` are history variables: when a key failed and when a bucket let a call pass.
* **Passkeys** - both ceremonies, one action per query.  The library's check of a signature is
  external; what the code does with its answer, and the two readings it made before, is modelled.
  An authenticator's response can be sent any number of times.
* **ApiServer** - the routes over both with the CSRF guard in front, the webhook behind its signature, the cookie of
  one browser, and `Crash`, which empties the Maps and keeps the tables.  Of the database-backed service only the ids of
  its sessions appear: login and setup-password put the `pre_mfa` or `mfa_setup` session they opened in the cookie
  (`DatabaseSignInRoutes`, authRoutes.js:153 and 166).

| TLA+ | Code |
|---|---|
| `sessions`, `oauthStates`, `usersById`, `lockouts`, `rateLimits` | the Maps of authService.js:39-44; ids are never drawn twice |
| `rateLimits[b]` | the entry of `hitRateLimit` for bucket b (`oauth-ip`, `recovery-ip`, `recovery-account`) |
| `challenges[c]` | a row of `webauthn_challenges`, ordered by the time it expires |
| `credentials[k].signCount`, `counters[k]` | `sign_count` of the row; the authenticator's own counter |
| `ceremony[v].pc` | the await a verification request has reached |
| `eventKeys`, `accepts[e]` | the store of idempotency keys; how often event e was answered 202 |

In `createServer` the passkey routes are not wired to the service and answer 501; they are modelled
as `createAuthRoutes` has them when it is given the service.  `webhookRoutes.js` is mounted nowhere in `server.js`
and checks no origin; it is modelled as the module has it.

### The web client, signed out and security settings

    AuthApi <- WebRouter <- AuthPanels <- SecuritySettings <- WebAuth <- MCWebAuth
                                                                      <- WebAuth_proofs

* **AuthApi** - what the browser sees of the API: requests in flight, the sessions of both stores
  without what decides whether a secret is right (any request may be refused), the cookie.  An answer
  may be lost after the server did what it was asked to.  The refusals and effects are those of the routes
  that MemoryAuth and AuthService model in full.
* **WebRouter** - a navigation asks `/session` in one step and decides in a later one; a redirect
  starts over.  The router of the framework is external: it keeps the document on a push and loses
  it on a link.
* **AuthPanels** - eight panels: the first state, the controls enabled, each handler up to its await
  and after it.
* **SecuritySettings** - the sessions list and the change of the password.
* **WebAuth** - one tab: the panels over the router, the address bar, the back button, the API.

| TLA+ | Code |
|---|---|
| `page`, `nav` | the mounted page and the navigation under way; `nav.seen` is what `fetchSessionState` returned |
| `panel` | the `useState` values of the mounted panel |
| `request[r].by` | who waits: the mounted `page`, a `past` page of the same document, or nobody (`gone`) |
| `legacyId` | `legacy_session_id` in sessionStorage |
| `revoked`, `overlapped` | history: sessions this page was told are revoked; two lists were under way at once |

### The web client, signed in

    PageShell <- DataPages <- WebPages <- MCWebPages
                                       <- WebPages_proofs

* **PageShell** - header popovers, overlays, the overlay over an overlay, the profile editor, the
  theme, and which layer takes the mouse.  The mouse reaches the topmost layer; the keyboard reaches
  any mounted one, since no dialog keeps the focus.  Escape reaches every listener at once.
* **DataPages** - cashflow (tabs, accounts, transactions, subscriptions), allocation (month, type,
  upload), reports.
* **WebPages** - one tab of the browser with another tab that writes the stored theme; links, reloads, and Back and
  Forward to any page and `?tab=` of the document's history (`TraverseHistory`), which change the address under a
  page that is mounted already.

| TLA+ | Code |
|---|---|
| `openPanel`, `openOverlay`, `nested`, `dialogs` | the `useState` flags that mount a layer |
| `account` | `editing`, `draft`, `saved` of MyAccountOverlay |
| `attr`, `stored`, `isDark` | `data-theme`, `localStorage`, `useTheme` |
| `query`, `view` | `?tab=`, and the `useState` values of the mounted page |
| `LatestMonth` | the month `getInitialPeriod` computes from the seed records |

### What is left out

* Auth tables: `suspended` accounts, `touch`, `activateAccount`, `recoveryCodes.verify` and
  `deleteAll`: no code reachable from a route calls or writes them.  The in-memory `logout` has no
  route.
* Answers: `Return` covers every status code.  `getSessionDb` and `listSessions` read
  only.  The limits on e-mails per IP and per address that the design states (section 8) have no code.
  The IP limit of login is modelled, because the same call also counts.
* Password policy: `Passwords` holds those the server accepts.
* Analytics routes, `transactionApiClient.js`, worker reporting and the shared finance functions:
  stateless projections, sums and texts; no decision of a modelled part depends on their results.
* `security.js`, `authConfig.js`, `db.js`, the text of e-mails: wrappers without state.
* Web: static markup and figures drawn from seed data, show/hide toggles, periods of charts,
  search and filter selects, the local choices of dialogs whose buttons have no handler.
* `scripts/`, `prototype/`, `ops/`: demo programs, static HTML, runbooks.

## 3. Runs

`MCAuthService` has the first three runs and their claims, `MCSnapshotWorker` the two of the worker,
`MCApiServer`, `MCWebAuth` and `MCWebPages` one each.
`CHECK_DEADLOCK FALSE`, since a behaviour ends when the bounded number of requests or acts
is used up or all jobs are over.

| Run | Checks | Instance |
|---|---|---|
| AuthRegistration | AuthInv (of which TypeOK is a conjunct), OnlyMailStrands, ActiveIsVerified, OneVerificationToken, AuthenticatedHasFactor, ImplementsLifecycle, ExpiredStaysExpired, ExpiredRowsPurged | one address, no account, 5 requests, 1 failure, 1 deadline, 2 codes |
| AuthSignIn | LockoutEngages, AuthenticatedDeviceKnown, SessionsOnlyElevate | one enrolled user, 2 passwords, threshold 2, 4 requests, 1 crash, 1 deadline |
| AuthAccess | PasswordWritesAuthorised, OnlyOwnerEndsSessions | two signed-in users, 2 passwords, 3 requests, 1 crash, 1 deadline |
| ClaimTokenSingleUse, ClaimLockHolds, ClaimResetForcesRelogin | refuted, see section 4 | 3 requests |
| WorkerJobs | TypeOK, OnePlace, CompletionsCounted, RetryNotStranded, CompletedJobsStored, BaselinesPrecede, DeathHasCause, ImplementsLedger | 3 jobs, 2 runners, 2 attempts, 2 series, 2 dates, 2 providers, 2 failures; symmetric |
| WorkerEnds | StartedJobsEnd | 2 jobs for one date, 2 runners, 2 attempts, 2 providers, 3 failures |
| ClaimSnapshotsDiffed | refuted, see section 4 | 1 job, 1 runner, 1 failure |
| ApiProcess | TypeOK, GuessesSpaced, AdmissionsSpaced, SessionUsersKnown, AcceptedChallengeGone, AcceptedOncePerLife, MemoryCookieElevated, CounterFallsOnlyByRace | 1 OAuth user, the recovery user, 1 address, 1 database session, threshold 2, maxima 1 and 2, lock and window of 2 ticks, 4 ticks, 2 sessions, 1 holder, 1 credential, 2 verifications at once, 2 challenges, 1 event, 7 calls, 1 crash; 466 thousand states |
| WebSignIn | TypeOK, PendingWhileCalling, RevokedGoneWhenQuiet, TypingKeepsOthers, RedirectsSettle, PagesAskFirst | 3 sessions, 2 requests in flight, 2 boxes, 2 passwords, two other devices, 2 acts; 452 thousand states |
| WebPages | TypeOK, CategoryFitsType, ThemeShown, DraftIsSaved | 4 pages, 2 items of a kind, 2 names, 2 categories of a kind, 7 acts; 718 thousand states |

**Bounds.**  `MaxRequests`, `MaxFaults` and `MaxLapses` bound behaviours, not code; they
appear only in guards and ranges.  Five requests are the shortest complete
registration, and every shorter flow leaves requests over to race with it (a second click on
the link, a second `setupMfa`).  Four requests are two failed logins that reach the
threshold, a successful one racing them, and a verification or sign-out.  Three requests suffice
for forgot, reset and a concurrent change or logout.  The threshold 2 is the least for which
increment and lock are different requests; `RateLimitMaxPerIp` 3 lets the limiter
refuse the fourth login.  Three jobs are the least with which a retried job has
others before and behind it at the tail; two attempts and two failures make every cause of a dead
letter possible, and a third failure one in which an abandoned call of `getRates` fails by itself.

ApiProcess: the passkey tables and the webhook share no variable with the Maps, so `Traffics` lets a behaviour
use either half, each with crashes; seven calls are threshold + 1 wrong codes over two sessions, or two full windows,
with the sign-ins before them.  Two verifications at once are what the race on a sign count takes.
WebSignIn: an act is a link, a step back or a request; what a behaviour starts with (any page, any state of the cookie) replaces
the acts that would lead there, and two requests in flight are two overlapping lists or a late answer
with a new form.  WebPages: the longest shortest counterexample of the mutants takes six acts.
The proofs (section 5) remove the bounds for the invariants.

**Fairness.**  Weak fairness of every handler's next step and of the two steps of the
cleanup job: Node resumes every settled await, and `setInterval` fires while the process
lives.  A crash is a restart in which the interval is set up again.  Clients,
deadlines and failures are not fair.  Of the auth runs only AuthRegistration has a property that
uses fairness, ExpiredRowsPurged.  WorkerEnds assumes weak fairness of every call of another service (it settles, one way or
the other) and of a `runPending` loop that is back from a handler; nobody is bound to call
`runPending` or the trigger.  The API process and the web client are given none: users and the network owe nothing.

**What each property says.**

* *ActiveIsVerified*, *AuthenticatedHasFactor* relate columns that different requests
  write.  They fail if a setup step forgets the type of its token, or if the code
  check accepts an account without a secret.
* *OneVerificationToken*: concurrent registrations of an address; relies on the UNIQUE
  constraint alone.
* *OnlyMailStrands*: three awaits of `register` and three of `verifyEmail` hand one address on, under several
  clicks and registrations.  While nothing fails or expires no step drops it but an e-mail that is skipped: its token
  then lies in the table, still good, and nobody has it.  An address that is dropped is dropped for good (section 4).
* *LockoutEngages*: the three queries of a failed login against each other and against
  a success that resets counter and lock.  It is stated for behaviours without failures:
  a crash between the increment and the lock leaves a counter at the threshold with
  no lock until the next failed attempt.
* *AuthenticatedDeviceKnown*: stated without failures too, since the code swallows errors of
  the device bookkeeping after the session is already elevated.
* *SessionsOnlyElevate*: a session never changes its owner or goes back to a lower
  state, and one that was deleted under a verifying handler stays deleted.
* *PasswordWritesAuthorised*: a written password has a spent token behind it (consuming before writing means that a
  crash in between can lose a token but never leave a live one), or a request of `changePassword` that named a live
  session of that user when it arrived and passed the check of the current password against the row it read
  (`ChangesVouched`).  A reset may replace the password between that read and the write: the property says what was
  shown, not that it is still so.
* *OnlyOwnerEndsSessions*: no id in a path ends somebody else's session.
* *ExpiredStaysExpired*, *ExpiredRowsPurged*: whatever handlers do with the ids they hold, a row past its deadline
  is not made valid again, one that is gone does not come back, and none stays.
* *ImplementsLifecycle*: refinement of AccountLifecycle.
* *OnePlace*, *CompletionsCounted*: overlapping loops neither run a job twice nor lose it.
* *RetryNotStranded*: `#runJob` pushes a rejected job and wakes nobody; the loop that pushed it
  is what guarantees the retry.
* *CompletedJobsStored*, *BaselinesPrecede*, *DeathHasCause*: what a retry of the whole handler does to
  rows that an earlier run has written.  The UNIQUE constraint keeps a retried job from being
  compared with itself, at the price of the claim refuted below.
* *StartedJobsEnd*: a started job ends, although the loop that took it first may be gone.
* *ImplementsLedger*: refinement of JobLedger.
* *GuessesSpaced*, *AdmissionsSpaced*: what the locker and the limiter are worth in time.  The
  limiter counts in fixed windows, so what holds is a spacing of 2 * max calls: twice the maximum less
  one may come together around the end of a window.
* *SessionUsersKnown*, *MemoryCookieElevated*: Maps against each other and against the browser, over
  sign-out, expiry, restarts and the other sign-in routes.  The cookie does name half signed in sessions, those of the
  database, which the middleware asks for; it names no such entry of the Map.
* *AcceptedChallengeGone*, *CounterFallsOnlyByRace*: two verifications between whose queries anything
  may happen; a lone replay is refused.  Verifications that read the challenge before one of them deleted it may all
  be accepted, and both properties except them.
* *AcceptedOncePerLife*: the idempotency store against repeated deliveries within one life of the process.
* *PendingWhileCalling*: every path of every handler, and every loss of an answer, frees the form, and no
  form sends twice.
* *RevokedGoneWhenQuiet*: the list after any number of revocations and loads, except where two
  loads overlapped, in which case the older list may arrive last.
* *TypingKeepsOthers*: the code is one string behind several boxes.  Clearing a box and the arrival of the demo code
  are other handlers, which do change other boxes.
* *RedirectsSettle*, *PagesAskFirst*: the middleware and the page redirects together.
* *CategoryFitsType*, *ThemeShown*, *DraftIsSaved*: copies of one fact that different
  handlers write, whatever the order of clicks, keys and Escapes.  CategoryFitsType is about the type a transaction
  was entered as, which decides whether its amount is negated; the sign shown depends on the sign typed as well.
  Nothing is claimed of tab and address, which do part (section 4).

## 4. Divergences found while modelling

Four are checked by runs that TLC refutes:

* **ClaimTokenSingleUse** - `consume` is an unconditional `UPDATE`.  Two clicks on one link that
  both pass `findValid` both act; two `password_setup` tokens are issued.
* **ClaimLockHolds** - a login that read the row before the lock was set, with the right
  password, runs `resetFailedAttempts` and lifts the lock.
* **ClaimResetForcesRelogin** - a login that verified the old password inserts its
  session after `revokeAll` of the reset has run, so that nothing revokes it.  (One that is inserted between
  `updatePassword` and `revokeAll` is revoked with the others, and the property allows it.)
* **ClaimSnapshotsDiffed** - when an attempt fails after its INSERT (in the trace the answer of `createSnapshot` is
  lost; a `createDiff` that rejects does the same), the retry runs `createSnapshot` again, which the UNIQUE constraint
  refuses: the job ends as a dead letter and its snapshot has no diff.

Others need no interleaving and are recorded here and as hazards:

* design:154 "click the email link again or request a new one", design:90 "resend verification":
  `register` of a pending address answers 409 and no operation issues a second token.
  Once the first has expired (or its mail was not sent) the address stays unverified:
  the theorem **StrandedForGood** proves it for every behaviour.
* design:148 "A token is consumed only when the action it gates completes successfully":
  every handler consumes first, so a failure loses the token without the effect.
* design:94 "`active` only after ... MFA configured": `setPassword` activates.
* recoveryCodeService.js:57 "used before regenerating": `setupMfa` never calls `deleteAll`.
* design:239 "Revoke all OTHER sessions": `changePassword` revokes none.
* snapshot-lifecycle-management/spec.md:11 "the immediately previous snapshot": two overlapping jobs
  of a series both read the same earlier snapshot before either stores its own, so that one of them
  is compared with a baseline that is no longer the latest.

The modules of the API process and of the web client met these:

* No route calls `verifyMfaDb`.  A password login stores its session in the database, `/mfa/verify` looks
  in the Map and answers invalid_session: such a session is never elevated over HTTP.
* OAuth and the recovery login set no cookie, so that the middleware sends the browser from `/mfa`
  back to `/login`.
* `withAuthRequired` asks the in-memory service only, so a session of the database gets 401 from
  every data endpoint; unknown paths answer 401 rather than 404 to a client that is not signed in.
* `dashboard/page.tsx` reads the cookie `fm_session_id`, the API sets `fm_sid`: the page always shows
  seed data.
* `server.js` hands `createEmailService` `{apiKey, emailFrom}` where it reads `resendApiKey` and `appUrl`:
  every e-mail is skipped, without an error.  So is one that Resend answers with an error, which nobody looks at.
* The passkey routes answer 501 in `createServer`.
* authService.js:330: an in-memory session past its deadline can still be elevated, until a lookup drops it.
* docs/superpowers/plans/2026-03-29-login-system.md:1001 "deletes current session": sign-out leaves the in-memory session.
* React's strict mode mounts `/mfa/setup` twice in development, and each mount stores a new secret.
* The security panel accepts new passwords of 8 to 11 characters, which the server's policy refuses.
* `updateDigit`: clearing a box that is not the last moves the later digits one box to the left.
* The link of the header to `/cashflow` while on it drops `?tab=` and leaves the tab; choosing another tab and going Back
  then leaves an address that names a tab other than the one shown, since `?tab=` is read on mount only.
* `webhookRoutes.js` is mounted nowhere in `server.js`.
* Transactions live in the component of their tab and are gone when the tab changes; saved profile
  edits are gone when the overlay closes.  A new investment record is not kept; an import is only acted out.
* No dialog keeps the focus, so by keyboard an account can be removed while the form of a transaction
  still names it; an amount may be negative, and is then shown with the other sign.
* Escape closes both of two nested overlays.
* These buttons have no handler: edit subscription, edit and new target, deposit, import transaction, delete subscription,
  generate and export, upgrade, update password (profile), the actions of notifications, mark all as
  read, log out (profile).  "Sign Out" of the account overlay only closes it.  AddInflowModal is never mounted.
* `setRevoking(null)` at the end of one revocation enables the button of another that is under way.

(design is `docs/superpowers/specs/2026-03-29-login-system-design.md`.)

## 5. Proofs

`AuthService_proofs` proves, for any numbers of users, passwords, devices, requests,
crashes and deadlines, `Spec => []AuthInv` (**Invariance**) and its corollaries
**TypeCorrect**, **ActiveAccountsVerified**, **VerificationTokensUnique**,
**SessionsHaveFactor** and **LockoutAtThreshold**, from `AuthAssumption` (kinds of the
constants) and `RowAssumption` (NULL is not a row).

*Why the invariant is stronger than the properties.*  None of them is inductive: what a
handler writes depends on what it read some awaits ago.  `AuthInv` adds what makes stale
locals harmless: `LocalsOK` (the locals have the kind the next query needs, and
the user they name still exists: users are never deleted) and `KnowledgeOK` (what the handler
saw still holds: e-mails stay verified, accounts active, secrets set; a session keeps
its owner), `RowsOK` (rows belong to users in the right phase), `OneRegistrar` (only one
handler at a time is about to issue the verification token of an address), and
`ArrivalsOK` (numbers of requests are fresh, so a new session cannot collide with one that a
handler remembers).  AuthInv is also an invariant of AuthRegistration.

*How the proof goes.*  `AuthEffects` expands each table operator once and concludes in
terms of `UsersAdvance`, `CountersKept`, `TokensKept`, `SessionsKept` and `Moves`: no later proof
looks inside a row.  `StableHandler` shows that a handler which does not move keeps what it
knows while accounts advance and sessions keep their owners; `RowsPreserved`,
`FactorPreserved`, `RegistrarPreserved` and `LockoutKept` do the same for the other
conjuncts.  Then one lemma per action shows that it is such a step and that the acting handler
knows what it must at its next await.  The lockout lemmas are the ones that depend on order:
increment leads to re-read, and a handler that does not go on to lock has read a
counter below the threshold.

*The rest of the gateway.*  The action properties and the refinement rest on AuthInv and two more
invariants, stated in `AuthInvariant`.
**TokensHeld**: a request that has issued its token issues no other, even after the row is purged,
so an id held across awaits names the token that was read (`TokenInv`); **WritesAuthorised**
follows, since consume precedes both writes that rely on a token, and `changePassword` reaches its write only from the
read of the row whose password it was given (`HandlerChanges`).  **DevicesKnown**: the handler that elevates a session
has the session's device (`DeviceInv`).  **OwnersEndSessions** and **SessionsElevateOnce**
need no further invariant: `SessionChange` lists the ways in which one session may change in a step.
**ExpiryIsFinal** (ExpiredStaysExpired) combines TokenInv with the latter: no handler that still holds the id of a row makes an expired row valid
or a deleted one exist again, so that ExpiredRowsPurged needs of the interval job only that it runs.
**RefinesLifecycle** is the refinement of AccountLifecycle: every step that writes no account and
neither opens nor elevates a session is a `Retire` or a stutter; each of the others is one of
`Register`, `Verify`, `Activate`, `AddFactor`, `Open` and `Elevate`.  It assumes
`LifecycleAssumption` (NULL is no session) besides.
**StrandedForGood** is about one address at a time: `Stranded(u)` says that u is registered, unverified, and that
neither a handler nor a presentable token is left that could verify it.  The one step that could free it
is the mailing of a token, and `MailInv` (the handler of forgotPassword mails a reset token) excludes the only
handler that mails without having registered.
**OnlyMailStrandsAddresses** is its counterpart: without failure and expiry an address is lost by nothing but an e-mail
that was skipped, and its token then stays good and undelivered (`StrandedOrLost`).  A handler on its way
passes the address on (`VerifyingPasses`), and a good token is spent only by the handler that read it as the token of
the address it will mark: consuming reads the id alone, so this needs TokenInv and `VerifyInv` (`TokenPasses`).
**HandlersAnswer** counts `AwaitsLeft`, the awaits on the longest way to the answer: each query of a handler lowers it, no step
of another one raises it, and `CodesCounted` bounds the loop of setupMfa.  With the fairness of the handlers this is why each is answered.

*The snapshot worker.*  `JobQueue_proofs` proves the invariant `QueueInv` of the queue (types,
OnePlace, CompletionsCounted, RetryNotStranded, and `AttemptsOK`, which ties the number of runs
to the place of a job) and that each step of the queue is a step of JobLedger or a stutter, from
`QueueAssumption` (finitely many jobs, at least one attempt).  `SnapshotWorker_proofs` shows that
every step of the worker is a step of the queue or leaves it alone, and carries the results over:
**JobsInOnePlace**, **NoJobLost**, **RetriesHaveRunner**, **QueueRefinesLedger**.  The
worker's own invariant `WorkerInv` says of each job that its handler is under way exactly while a
runner awaits it, that its rows match its payload, and (`CauseOK`) that its failed runs are no more
than the failed calls unless its key is taken: **WorkerTypeCorrect**, **CompletedMeansStored** and
**DeadLettersHaveCause** follow, with `WorkerAssumption` and `RowAssumption`.
**BaselinesAreEarlier** needs `BaseInv`: the base of a row is what its handler read as the previous snapshot, from the
INSERT of the row until its diff holds it, and every base is a stored row.  Hence a new row is nobody's base, and in
every set of rows some base still leads out of the set; a retried job cannot reopen the circle, since
the UNIQUE constraint lets it insert no second row.
**RunsAlwaysAwaited**: a run whose rates are unsettled has its own call of `getRates` at a provider, and a run that
reads awaits something, so no runner hangs on a promise that an abandoned call of an earlier run would have settled.
On it rests **EveryStepUsesBudget**, the part of StartedJobsEnd that is not about fairness: `WorkLeft(j)`, the
attempts left times the steps of a run plus those left of the run under way, is a natural number, drops with every step of j
and rises with none.  **FallbackHasCause** relates the provider a stored snapshot was valued with, possibly
through the cache, to the number of failed calls.

*The API process.*  `ApiServer_proofs` proves `MemoryInv /\ PasskeyInv /\ RoutesInv` (**ApiInvariance**)
from the assumptions of the three modules.  `MemoryInv` ties the history to the Maps: the wrong attempts a
lock still counts are the last ones of `guesses` and nothing before them lies within `LockoutMs`
of what may follow (`LocksOK`), the calls counted in an open window are the last
of `admissions` and any older ones came before the window opened (`BucketsOK`), and ids not yet drawn name no
entry (`EntriesOK`).  None of this is in the properties, which only compare times; they follow as
**WrongAttemptsSpaced** and **AdmittedCallsSpaced**.  `PasskeyInv` says what a verification under way knows at each
await: the challenge it read has that user, and one that was accepted is neither in the table nor drawn
again; hence **ChallengesUsedUp** and the action property **CountersRise**.  `RoutesInv` gives
**EventsAcceptedOnce** and **MemoryCookiesElevated**.

Five more results say what these are worth.  **GuessingRate** and **AdmissionRate** turn the spacing into counts: no
span of `LockoutMs` holds more than `Threshold` wrong attempts against a key (since its last success, in one life of the
process), and no span of `WindowMs` more than twice the maximum, less one, of the calls of a bucket; the step is a
lemma on increasing sequences.  **PasskeyNeverLockedOut** is the other half of CountersRise: a sign count may fall by a
race, but `CountsBehind` (nothing stored or in flight is ahead of the authenticator) keeps the next
genuine assertion acceptable.  **CredentialsKeepOwner**: ON CONFLICT writes the count only.
**MemoryRefinesLifecycle** shows that the in-memory service implements AccountLifecycle, with
`SessionAssumption` (NULL is no session); ids are drawn once, which is what keeps an ended session from coming back.

*The pages.*  `WebPages_proofs` proves `PagesInv` (**PagesInvariance**), from which **PagesTypeCorrect**,
**CategoriesFitTypes**, **ThemesShown** and **DraftsAreSaved** follow.  The shell's part is
closed under the shell's actions alone; the view's part needs which dialog may be open on which page (`DialogsFit`),
since a dialog's handler writes the view it was opened from, and the categories a form offers.

*The web client, signed out and security settings.*  `WebAuth_proofs` proves `WebInv` (**WebInvariance**) from
`AuthApiAssumption`, `AuthPanelsAssumption` and `WebAuthAssumption`; all six properties of WebSignIn
follow, for any number of sessions, requests in flight, digits, texts, pages and acts.  The parts of
`WebInv` are needed together:

* `ApiOK`: only sessions that were drawn are named by the cookie, the stored id, a request or an answer, and what the
  answer to a revocation lists has ended; hence **WebTypeCorrect**.
* `RouterOK`: a redirect stands where the answer before it leads (`Led`).  `LedTwice` shows that it leads no
  further, hence **NoCircles**; **NoPageUnasked** is an action property of the same decision.
* `PanelOK` and `FlagsOK`: the requests of the mounted page belong to its handlers, and each flag
  stands for exactly one of them; hence **FormsSubmitOnce**.  Every answer needs both: without the owner, the answer to a
  page that was left could clear the flag of the next one.
* `ListsOK`: unless two lists were awaited at once, an answered list not yet shown holds nothing that was
  revoked; hence **RevokedGone**.

`AuthPanels_proofs` shows what `UpdateDigit` does to a code of any length (`DigitUpdated`), from which
**DigitsStay** follows.  **ClientApiRefinesLifecycle**: the short model of the routes that the browser uses,
with every refusal and loss it allows, implements AccountLifecycle as well (one user, active and with an authenticator).

*Only model-checked:* ExpiredRowsPurged and StartedJobsEnd (liveness under fairness is outside this
prover).  Of both, the part that is not about fairness is proved: ExpiryIsFinal (with HandlersAnswer) and EveryStepUsesBudget.
Facts by induction over data (recursive definitions) cannot be proved with the installed
provers and stay with TLC.  The refuted claims of section 4 are runs only.

*Assumptions.*  Every theorem rests on the named ASSUMEs of the modules it is about and on nothing else.  They
say of which kind the constants are, that NULL is neither a row nor a session nor (in the worker) a call of
`getRates`, and that bounds and limits are natural numbers, positive where the code's are.

## 6. Plan and what is left

Done: the auth gateway with its claims, abstract lifecycle and inductive invariant; the snapshot worker
with its ledger; the API process; the web client, signed out and signed in; the proofs of section 5, among
them the refinement of AccountLifecycle by the two services and by the client's picture of them.

Left: consequences of AccountLifecycle and JobLedger themselves, stated once for everything that implements them;
property coverage of the hazards in `PROJECT.json` that have a note instead.  Not planned: what section 2 lists under "What is left out"; it keeps no state and has no
ordering to get wrong.
