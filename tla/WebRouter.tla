----------------------------- MODULE WebRouter ------------------------------
(* middleware.ts and the router: a navigation asks the API for the session   *)
(* in one step and decides in a later one; a redirect starts over.           *)
EXTENDS AuthApi

VARIABLES
  page,       \* the mounted page: its path and the query that matters to it
  nav         \* the navigation under way
routerVars == <<page, nav>>

(* The query is next= for /login and /mfa, and whether there is a token= for *)
(* the pages that an e-mail links to.                                        *)
To(name, query) == [name |-> name, query |-> query]

(* The prefixes of the middleware, and the pages below them.                 *)
ProtectedPrefixes == {"/dashboard", "/cashflow", "/allocation", "/reports", "/settings"}
PagesBelow == [p \in ProtectedPrefixes |->
  IF p = "/settings" THEN {"/settings", "/settings/security"} ELSE {p}]
PagesBehindLogin == UNION {PagesBelow[p] : p \in ProtectedPrefixes}

\* mutant: the prefix has to be the whole path
IsProtectedExactly(name) == name \in ProtectedPrefixes
IsProtectedPath(name) == \E p \in ProtectedPrefixes : name \in PagesBelow[p]

(* config.matcher: the other pages are served without asking the API.        *)
Matched(name) == IsProtectedPath(name) \/ name \in {"/login", "/mfa", "/mfa/setup"}

\* mutant: a half signed in session counts for the pages, a whole one for /login
DecisionMixed(to, seen) ==
  CASE IsProtectedPath(to.name) /\ seen # "pre_mfa" -> To("/login", to.name)
    [] to.name \in {"/login", "/mfa"} /\ seen = "authenticated" -> To("/dashboard", None)
    [] to.name = "/mfa" /\ seen = None -> To("/login", None)
    [] to.name = "/mfa" /\ seen = "mfa_setup" -> To("/mfa/setup", None)
    [] to.name = "/mfa/setup" /\ seen \notin {"mfa_setup", "authenticated"} -> To("/login", None)
    [] OTHER -> to

(* Where a request for a page leads, by the state the API answered.          *)
Decision(to, seen) ==
  CASE IsProtectedPath(to.name) /\ seen # "authenticated" -> To("/login", to.name)
    [] to.name \in {"/login", "/mfa"} /\ seen = "authenticated" -> To("/dashboard", None)
    [] to.name = "/mfa" /\ seen = None -> To("/login", None)
    [] to.name = "/mfa" /\ seen = "mfa_setup" -> To("/mfa/setup", None)
    [] to.name = "/mfa/setup" /\ seen \notin {"mfa_setup", "authenticated"} -> To("/login", None)
    [] OTHER -> to

(* The pages that only redirect.                                             *)
PageRedirect(to) ==
  CASE to.name = "/" -> To("/login", None)
    [] to.name = "/settings" -> To("/settings/security", None)
    [] OTHER -> to

(* before is the state the previous hop of a chain of redirects was told.    *)
Going(to, before) == [to |-> to, asked |-> FALSE, seen |-> None, before |-> before]
Start(to) == Going(to, "none yet")

(* fetchSessionState: null when the API cannot be reached.                   *)
FetchSessionState ==
  /\ nav # None /\ ~nav.asked /\ Matched(nav.to.name)
  /\ \E seen \in {SessionState, None} : nav' = [nav EXCEPT !.asked = TRUE, !.seen = seen]
  /\ UNCHANGED <<page, apiVars>>

Destination == PageRedirect(IF nav.asked THEN Decision(nav.to, nav.seen) ELSE nav.to)
Decidable == nav # None /\ (nav.asked \/ ~Matched(nav.to.name))

RouterRedirects ==
  /\ Decidable /\ Destination # nav.to
  /\ nav' = Going(Destination, IF nav.asked THEN nav.seen ELSE "none yet")
  /\ UNCHANGED <<page, apiVars>>

(* The document stays: what the old page waits for will find it gone.  The   *)
(* state and the effects of the page that mounts are with the pages.         *)
MountableWith(first) ==
  /\ Decidable /\ Destination = nav.to
  /\ page' = nav.to /\ nav' = None
  /\ LET past == [r \in Slots |->
           IF request[r] # Free /\ request[r].by = "page"
           THEN [request[r] EXCEPT !.by = "past"] ELSE request[r]]
     IN IF first = Free THEN request' = past
        ELSE \E r \in Slots : FreeSlot(r) /\ request' = [past EXCEPT ![r] = first]
  /\ UNCHANGED <<sess, opened, secret, cookie>>

(* An <a href> loads a new document: the old one is gone at once, and with   *)
(* it whatever waited for an answer.                                         *)
Load(to) ==
  /\ page' = To("blank", None) /\ nav' = Start(to)
  /\ request' = [r \in Slots |->
       IF request[r].status = "sent" THEN [request[r] EXCEPT !.by = "gone"] ELSE Free]
  /\ UNCHANGED <<sess, opened, secret, cookie>>

-----------------------------------------------------------------------------
(* A redirect is never redirected again by the same answer of the API: the   *)
(* middleware sends nobody in circles while the session stays as it is.      *)
RedirectsSettle ==
  nav # None => (nav.asked /\ nav.seen = nav.before => Destination = nav.to)

(* No page behind the login mounts unless the API answered this navigation   *)
(* that the session is authenticated.                                        *)
PagesAskFirst ==
  [][page' # page /\ page'.name \in PagesBehindLogin
     => nav.asked /\ nav.seen = "authenticated"]_<<page, nav>>
=============================================================================
