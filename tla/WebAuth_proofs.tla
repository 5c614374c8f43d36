---------------------------- MODULE WebAuth_proofs ----------------------------
(***************************************************************************)
(* What the run checks of WebAuth on a small instance, for any number of   *)
(* sessions, requests in flight, digits, texts, pages and acts.            *)
(***************************************************************************)
EXTENDS WebAuth, AuthPanels_proofs

(* The page whose handlers wait for a call, and what a call and its answer   *)
(* carry.                                                                    *)
PageOf(op) ==
  CASE op \in {"oauth.start", "oauth.callback", "recovery", "login"} -> "/login"
    [] op \in {"mfa.verify", "mfa.code"} -> "/mfa"
    [] op \in {"mfa.setup", "mfa.setup.verify"} -> "/mfa/setup"
    [] op = "register" -> "/register"
    [] op = "forgot-password" -> "/forgot-password"
    [] op = "verify-email" -> "/verify-email"
    [] op = "setup-password" -> "/setup-password"
    [] op = "reset-password" -> "/reset-password"
    [] OTHER -> "/settings/security"
Drawn == {s \in SessionIds : s <= opened}
Named == Drawn \cup {None}
NextType == PagesBehindLogin \cup {None}
ArgOK(q) ==
  /\ q.op \in {"oauth.start", "oauth.callback", "recovery", "login", "mfa.verify"}
       => q.next \in NextType
  /\ q.op \in {"mfa.verify", "mfa.code"} => q.arg \in Named
  /\ q.op = "revoke" => q.arg \in SessionIds
  /\ q.op = "sessions" => q.arg \in {"mount", "revoke", "revoke-all"}
ValueOK(op, value) ==
  /\ op \in {"recovery", "login"} => value.id \in Drawn /\ value.state = "pre_mfa"
  /\ op = "mfa.setup" => value \in 1..MaxSetups
  /\ op = "sessions" => value \subseteq Drawn
  /\ op \in {"revoke", "revoke-all"} =>
       value \subseteq Drawn /\ \A s \in value : sess[s] = None
CallOK(q) ==
  /\ q.op \in Calls /\ q.by \in {"page", "past", "gone"}
  /\ ArgOK(q)
  /\ \/ /\ q.status = "sent" /\ q.as \in Named
        /\ q = [status |-> "sent", op |-> q.op, arg |-> q.arg, next |-> q.next,
                by |-> q.by, as |-> q.as]
     \/ /\ q.status \in {"ok", "failed"} /\ q.set \in Named
        /\ q.status = "ok" => ValueOK(q.op, q.value)
        /\ q = [status |-> q.status, value |-> q.value, set |-> q.set,
                op |-> q.op, arg |-> q.arg, next |-> q.next, by |-> q.by]

SessType == {None} \cup
  [store : {"db", "memory"}, state : {"pre_mfa", "mfa_setup", "authenticated"}]
ApiOK ==
  /\ sess \in [SessionIds -> SessType]
  /\ opened \in 0..MaxSessions /\ secret \in 0..MaxSetups
  /\ cookie \in Named /\ legacyId \in Named
  /\ \A s \in SessionIds : s > opened => sess[s] = None
  /\ DOMAIN request = Slots
  /\ \A r \in Slots : request[r] # Free => CallOK(request[r])

(* A hop of a chain of redirects goes where the answer before it leads.      *)
Seen == {None, "pre_mfa", "mfa_setup", "authenticated"}
Led(to, seen) == PageRedirect(Decision(to, seen))
NavOK(n) ==
  /\ n \in [to : PageType, asked : BOOLEAN, seen : Seen, before : Seen \cup {"none yet"}]
  /\ n.asked => Matched(n.to.name)
  /\ n.before = "none yet"
     \/ (n.before \in Seen /\ \E t \in PageType : Matched(t.name) /\ n.to = Led(t, n.before))
RouterOK ==
  /\ page \in PageType
  /\ nav # None => NavOK(nav)

(* The page's own requests, by the flag that stands for them.                *)
Mine(r) == request[r] # Free /\ request[r].by = "page"
KindOf(q) ==
  CASE q.op \in Submits -> "form"
    [] q.op = "revoke-all" \/ (q.op = "sessions" /\ q.arg = "revoke-all") -> "all"
    [] q.op = "change-password" -> "change"
    [] OTHER -> "none"
Kinds == {"form", "all", "change"}
Flag(kind, name, p) ==
  CASE kind = "form" -> name \in FormPages /\ p.pending
    [] kind = "all" -> name = "/settings/security" /\ p.revokingAll
    [] OTHER -> name = "/settings/security" /\ p.submitting
PanelOK ==
  /\ panel \in PanelType(page.name)
  /\ \A r \in Slots : Mine(r) => page.name = PageOf(request[r].op)
Pend(kind) == {r \in Slots : Mine(r) /\ KindOf(request[r]) = kind}
FlagsOK ==
  \A kind \in Kinds :
    /\ Flag(kind, page.name, panel) => \E r \in Slots : Pend(kind) = {r}
    /\ ~Flag(kind, page.name, panel) => Pend(kind) = {}

(* A revoked session is gone for good; a list that was not overlapped was    *)
(* taken after everything this page revoked.                                 *)
Quiet ==
  \A r \in Slots : Mine(r) => request[r].op \notin {"sessions", "revoke", "revoke-all"}
ListsOK ==
  /\ revoked \subseteq Drawn /\ overlapped \in BOOLEAN
  /\ \A s \in revoked : sess[s] = None
  /\ ~overlapped =>
       /\ \A r, q \in Slots :
            Mine(r) /\ request[r].op = "sessions" /\ Mine(q) /\ request[q].op = "sessions"
            => r = q
       /\ \A r \in Slots :
            Mine(r) /\ request[r].op = "sessions" /\ request[r].status = "ok"
            => request[r].value \cap revoked = {}
       /\ page.name = "/settings/security" /\ Quiet /\ ~panel.error
            => panel.sessions \cap revoked = {}

WebInv ==
  /\ ApiOK /\ RouterOK /\ PanelOK /\ FlagsOK /\ ListsOK
  /\ acts \in 0..MaxActs

-----------------------------------------------------------------------------
(* What None is not.                                                         *)
LEMMA NoneApart ==
  /\ None \notin Nat /\ None # "none yet" /\ None # "pre_mfa" /\ None # "mfa_setup"
  /\ None # "authenticated" /\ "none yet" \notin Seen
  /\ \A x \in SessType : x # None =>
       x \in [store : {"db", "memory"}, state : {"pre_mfa", "mfa_setup", "authenticated"}]
BY WebAuthAssumption DEF Seen, SessType

(* The pages of middleware.ts, by name.                                      *)
LEMMA PageNames ==
  /\ PagesBehindLogin = {"/dashboard", "/cashflow", "/allocation", "/reports",
                         "/settings", "/settings/security"}
  /\ \A name : IsProtectedPath(name) <=> name \in PagesBehindLogin
<1>1. \A p \in ProtectedPrefixes : PagesBelow[p] =
        IF p = "/settings" THEN {"/settings", "/settings/security"} ELSE {p}
  BY DEF PagesBelow
<1>2. \A name : (\E p \in ProtectedPrefixes : name \in PagesBelow[p]) <=>
        name \in {"/dashboard", "/cashflow", "/allocation", "/reports",
                  "/settings", "/settings/security"}
  BY <1>1 DEF ProtectedPrefixes
<1>3. \A name : name \in PagesBehindLogin <=> IsProtectedPath(name)
  BY DEF PagesBehindLogin, IsProtectedPath
<1> QED
  BY <1>2, <1>3 DEF IsProtectedPath

(* Where an answer leads it leads again, for the pages that are asked about. *)
LEMMA LedTwice ==
  ASSUME NEW t, NEW seen \in Seen, Matched(t.name)
  PROVE  Led(Led(t, seen), seen) = Led(t, seen)
<1> DEFINE prot(n) == n \in {"/dashboard", "/cashflow", "/allocation", "/reports",
                             "/settings", "/settings/security"}
<1>1. \A x : Decision(x, seen) =
        CASE prot(x.name) /\ seen # "authenticated" -> To("/login", x.name)
          [] x.name \in {"/login", "/mfa"} /\ seen = "authenticated" -> To("/dashboard", None)
          [] x.name = "/mfa" /\ seen = None -> To("/login", None)
          [] x.name = "/mfa" /\ seen = "mfa_setup" -> To("/mfa/setup", None)
          [] x.name = "/mfa/setup" /\ seen \notin {"mfa_setup", "authenticated"} -> To("/login", None)
          [] OTHER -> x
  BY PageNames DEF Decision
<1>2. \A n, q : To(n, q).name = n
  BY DEF To
<1>3. \/ Decision(t, seen) \in {To("/login", t.name), To("/login", None)} /\ seen # "authenticated"
      \/ Decision(t, seen) = To("/dashboard", None) /\ seen = "authenticated"
      \/ Decision(t, seen) = To("/mfa/setup", None) /\ seen = "mfa_setup"
      \/ /\ Decision(t, seen) = t
         /\ prot(t.name) => seen = "authenticated"
         /\ t.name \in {"/login", "/mfa"} => seen # "authenticated"
         /\ t.name = "/mfa" => seen = "pre_mfa"
         /\ t.name = "/mfa/setup" => seen \in {"mfa_setup", "authenticated"}
  <2>1. seen = None \/ seen = "pre_mfa" \/ seen = "mfa_setup" \/ seen = "authenticated"
    BY DEF Seen
  <2>2. CASE prot(t.name)
    BY <2>1, <2>2, <1>1, NoneApart
  <2>3. CASE ~prot(t.name)
    BY <2>1, <2>3, <1>1, NoneApart
  <2> QED
    BY <2>2, <2>3
<1>4. ASSUME NEW u, u.name = "/login", seen # "authenticated" PROVE Led(u, seen) = u
  BY <1>1, <1>4 DEF Led, PageRedirect
<1>5. ASSUME NEW u, u.name = "/dashboard" \/ u.name = "/settings/security", seen = "authenticated"
      PROVE  Led(u, seen) = u
  BY <1>1, <1>5 DEF Led, PageRedirect
<1>6. ASSUME NEW u, u.name = "/mfa/setup", seen = "mfa_setup" PROVE Led(u, seen) = u
  BY <1>1, <1>6, NoneApart DEF Led, PageRedirect
<1>7. ASSUME Decision(t, seen) = t, t.name \notin {"/", "/settings"} PROVE Led(t, seen) = t
  BY <1>7 DEF Led, PageRedirect
<1>8. CASE Decision(t, seen) \in {To("/login", t.name), To("/login", None)} /\ seen # "authenticated"
  BY <1>2, <1>4, <1>8 DEF Led, PageRedirect
<1>9. CASE Decision(t, seen) = To("/dashboard", None) /\ seen = "authenticated"
  BY <1>2, <1>5, <1>9 DEF Led, PageRedirect
<1>10. CASE Decision(t, seen) = To("/mfa/setup", None) /\ seen = "mfa_setup"
  BY <1>2, <1>6, <1>10 DEF Led, PageRedirect
<1>11. CASE Decision(t, seen) = t
  <2>1. CASE t.name = "/settings"
    <3>1. Led(t, seen) = To("/settings/security", None)
      BY <1>11, <2>1 DEF Led, PageRedirect
    <3>2. seen = "authenticated"
      <4>1. ASSUME seen # "authenticated" PROVE FALSE
        <5>1. Decision(t, seen) = To("/login", t.name)
          BY <4>1, <2>1, <1>1
        <5> QED
          BY <5>1, <1>11, <1>2, <2>1
      <4> QED
        BY <4>1
    <3> QED
      BY <3>1, <3>2, <1>2, <1>5
  <2>2. CASE t.name = "/"
    BY <2>2, PageNames DEF Matched
  <2>3. CASE t.name \notin {"/", "/settings"}
    BY <1>7, <1>11, <2>3
  <2> QED
    BY <2>1, <2>2, <2>3
<1> QED
  BY <1>3, <1>8, <1>9, <1>10, <1>11

(* Where an answer leads is a page of this application.                      *)
LEMMA LedPage ==
  ASSUME NEW t \in PageType, NEW seen \in Seen
  PROVE  /\ Led(t, seen) \in PageType /\ PageRedirect(t) \in PageType
<1>1. /\ \A x \in PagesBehindLogin \cup {None} : To("/login", x) \in PageType
      /\ \A n \in PagesBehindLogin \cup {"/login", "/mfa", "/mfa/setup"} : To(n, None) \in PageType
  BY DEF PageType, To, Entries, PublicPages
<1>2. \A x \in PageType : PageRedirect(x) \in PageType
  BY <1>1, PageNames DEF PageRedirect
<1>3. Decision(t, seen) \in PageType
  <2>1. IsProtectedPath(t.name) => t.name \in PagesBehindLogin
    BY PageNames
  <2>2. "/dashboard" \in PagesBehindLogin
    BY PageNames
  <2> QED
    BY <1>1, <2>1, <2>2 DEF Decision
<1> QED
  BY <1>2, <1>3 DEF Led

(* The query of the pages that hand it on.                                   *)
LEMMA QueryType ==
  ASSUME NEW t \in PageType, t.name \in {"/login", "/mfa"}
  PROVE  t.query \in NextType
<1>1. t \in PublicPages => t.query = None
  BY DEF PublicPages
<1>2. t \in [name : Targets, query : {None}] => t.query = None
  OBVIOUS
<1>3. t = To("blank", None) => t.query = None
  BY DEF To
<1> QED
  BY <1>1, <1>2, <1>3 DEF PageType, Entries, NextType

(* Where the handlers push.                                                  *)
LEMMA Pushed ==
  ASSUME NEW x \in NextType
  PROVE  /\ {To("/mfa", x), To("/mfa/setup", None), To("/dashboard", None),
              To("/setup-password", "token"), NextPath(x)} \subseteq PageType
<1>1. "/dashboard" \in PagesBehindLogin
  BY PageNames
<1>2. {To("/mfa", x), To("/mfa/setup", None), To("/dashboard", None),
       To("/setup-password", "token")} \subseteq PageType
  BY <1>1 DEF PageType, To, Entries, PublicPages, NextType
<1>3. x # None => To(x, None) \in PageType
  BY DEF PageType, To, NextType
<1> QED
  BY <1>2, <1>3 DEF NextPath

(* The record of a navigation.                                               *)
LEMMA NavFields ==
  ASSUME NEW to \in PageType, NEW asked \in BOOLEAN, NEW seen \in Seen,
         NEW before \in Seen \cup {"none yet"}, asked => Matched(to.name),
         before = "none yet" \/ \E t \in PageType : Matched(t.name) /\ to = Led(t, before),
         NEW n, n = [to |-> to, asked |-> asked, seen |-> seen, before |-> before]
  PROVE  NavOK(n)
<1>1. n \in [to : PageType, asked : BOOLEAN, seen : Seen, before : Seen \cup {"none yet"}]
  OBVIOUS
<1>2. n.to = to /\ n.before = before /\ n.asked = asked
  OBVIOUS
<1> QED
  BY <1>1, <1>2, Zenon DEF NavOK

(* A navigation that starts is well formed.                                  *)
LEMMA StartOK ==
  ASSUME NEW to \in PageType
  PROVE  NavOK(Start(to))
<1>1. Start(to) = [to |-> to, asked |-> FALSE, seen |-> None, before |-> "none yet"]
  BY DEF Start, Going
<1>2. FALSE \in BOOLEAN /\ None \in Seen /\ "none yet" \in Seen \cup {"none yet"}
  BY DEF Seen
<1>3. PICK n : n = [to |-> to, asked |-> FALSE, seen |-> None, before |-> "none yet"]
  OBVIOUS
<1> QED
  BY <1>1, <1>2, <1>3, NavFields, Zenon

(* No character is a code.                                                   *)
LEMMA EmptyCode == <<>> \in Codes
<1>1. CodeLength \in Nat /\ <<>> \in Seq(Chars) /\ Len(<<>>) = 0
  BY AuthPanelsAssumption
<1>2. PICK c \in Seq(Chars) : c = <<>>
  BY <1>1
<1>3. Len(c) <= CodeLength
  BY <1>1, <1>2
<1> QED
  BY <1>2, <1>3, CodeSeq

(* Every panel starts with a state of its own type and no flag set.          *)
LEMMA FirstStateOK ==
  ASSUME NEW to
  PROVE  /\ FirstState(to) \in PanelType(to.name)
         /\ \A kind \in Kinds : ~Flag(kind, to.name, FirstState(to))
<1> DEFINE no == FALSE
<1>0. ~no /\ no \in BOOLEAN
  OBVIOUS
<1> HIDE DEF no
<1>1. CASE to.name = "/login"
  <2>1. FirstState(to) =
          [pending |-> no, error |-> no]
    BY <1>1 DEF FirstState, no
  <2>2. PanelType(to.name) =
          [pending : BOOLEAN, error : BOOLEAN]
    BY <1>1 DEF PanelType
  <2>3. FirstState(to) \in PanelType(to.name) /\ FirstState(to).pending = no
    BY <1>0, <2>1, <2>2
  <2> QED
    BY <1>0, <1>1, <2>3, Zenon DEF Flag, Kinds
<1>2. CASE to.name = "/mfa"
  <2>1. FirstState(to) =
          [code |-> <<>>, recovery |-> no, pending |-> no, error |-> no]
    BY <1>2 DEF FirstState, no
  <2>2. PanelType(to.name) =
          [code : Codes, recovery : BOOLEAN, pending : BOOLEAN, error : BOOLEAN]
    BY <1>2 DEF PanelType
  <2>3. FirstState(to) \in PanelType(to.name) /\ FirstState(to).pending = no
    BY <1>0, <2>1, <2>2, EmptyCode
  <2> QED
    BY <1>0, <1>2, <2>3, Zenon DEF Flag, Kinds
<1>3. CASE to.name = "/mfa/setup"
  <2>1. FirstState(to) =
          [code |-> <<>>, setup |-> None, loadError |-> no, copied |-> no,
             pending |-> no, error |-> no]
    BY <1>3 DEF FirstState, no
  <2>2. PanelType(to.name) =
          [code : Codes, setup : 1..MaxSetups \cup {None}, loadError : BOOLEAN,
             copied : BOOLEAN, pending : BOOLEAN, error : BOOLEAN]
    BY <1>3 DEF PanelType
  <2>3. FirstState(to) \in PanelType(to.name) /\ FirstState(to).pending = no
    BY <1>0, <2>1, <2>2, EmptyCode
  <2> QED
    BY <1>0, <1>3, <2>3, Zenon DEF Flag, Kinds
<1>4. CASE to.name \in {"/register", "/forgot-password"}
  <2>1. FirstState(to) =
          [done |-> no, pending |-> no, error |-> no]
    BY <1>4 DEF FirstState, no
  <2>2. PanelType(to.name) =
          [done : BOOLEAN, pending : BOOLEAN, error : BOOLEAN]
    BY <1>4 DEF PanelType
  <2>3. FirstState(to) \in PanelType(to.name) /\ FirstState(to).pending = no
    BY <1>0, <2>1, <2>2
  <2> QED
    BY <1>0, <1>4, <2>3, Zenon DEF Flag, Kinds
<1>5. CASE to.name = "/setup-password"
  <2>1. FirstState(to) =
          [password |-> NoText, confirm |-> NoText, pending |-> no, error |-> no]
    BY <1>5 DEF FirstState, no
  <2>2. PanelType(to.name) =
          [password : Texts, confirm : Texts, pending : BOOLEAN, error : BOOLEAN]
    BY <1>5 DEF PanelType
  <2>3. FirstState(to) \in PanelType(to.name) /\ FirstState(to).pending = no
    BY <1>0, <2>1, <2>2 DEF Texts
  <2> QED
    BY <1>0, <1>5, <2>3, Zenon DEF Flag, Kinds
<1>6. CASE to.name = "/reset-password"
  <2>1. FirstState(to) =
          [password |-> NoText, confirm |-> NoText, done |-> no,
             pending |-> no, error |-> no]
    BY <1>6 DEF FirstState, no
  <2>2. PanelType(to.name) =
          [password : Texts, confirm : Texts, done : BOOLEAN, pending : BOOLEAN,
             error : BOOLEAN]
    BY <1>6 DEF PanelType
  <2>3. FirstState(to) \in PanelType(to.name) /\ FirstState(to).pending = no
    BY <1>0, <2>1, <2>2 DEF Texts
  <2> QED
    BY <1>0, <1>6, <2>3, Zenon DEF Flag, Kinds
<1>7. CASE to.name = "/verify-email"
  <2>1. PICK status \in {"loading", "success", "error"} : FirstState(to) = [status |-> status]
    BY <1>7 DEF FirstState
  <2>2. FirstState(to) \in PanelType(to.name)
    BY <1>7, <2>1 DEF PanelType
  <2> QED
    BY <1>7, <2>2 DEF Flag, Kinds, FormPages
<1>8. CASE to.name = "/settings/security"
  <2>1. FirstState(to) =
          [sessions |-> {}, loading |-> TRUE, revoking |-> None, revokingAll |-> no,
           error |-> no, current |-> no, password |-> NoText, confirm |-> NoText,
           submitting |-> no, done |-> no, changeError |-> no]
    BY <1>8 DEF FirstState, SecurityPanel, no
  <2>2. PanelType(to.name) =
          [sessions : SUBSET SessionIds, loading : BOOLEAN, revoking : SessionIds \cup {None},
           revokingAll : BOOLEAN, error : BOOLEAN, current : BOOLEAN, password : Texts,
           confirm : Texts, submitting : BOOLEAN, done : BOOLEAN, changeError : BOOLEAN]
    BY <1>8 DEF PanelType
  <2>3. /\ FirstState(to) \in PanelType(to.name)
        /\ FirstState(to).revokingAll = no /\ FirstState(to).submitting = no
    BY <1>0, <2>1, <2>2 DEF Texts
  <2> QED
    BY <1>0, <1>8, <2>3, Zenon DEF Flag, Kinds, FormPages
<1>9. CASE to.name \notin FormPages \cup {"/verify-email", "/settings/security"}
  <2>1. FirstState(to) = [mounted |-> TRUE] /\ PanelType(to.name) = [mounted : {TRUE}]
    BY <1>9 DEF FirstState, PanelType, FormPages
  <2>2. FirstState(to) \in PanelType(to.name)
    BY <2>1
  <2> QED
    BY <1>9, <2>2 DEF Flag, Kinds
<1> QED
  BY <1>1, <1>2, <1>3, <1>4, <1>5, <1>6, <1>7, <1>8, <1>9 DEF FormPages

-----------------------------------------------------------------------------
(* What every step does to the sessions: none that was drawn comes back.     *)
Fades ==
  /\ opened \in Nat /\ opened' \in Nat /\ opened <= opened'
  /\ \A s \in Drawn : sess[s] = None => sess'[s] = None

(* So a call stays well formed, and a session that was named.                *)
LEMMA DrawnGrows ==
  ASSUME Fades
  PROVE  Drawn \subseteq Drawn' /\ Named \subseteq Named'
<1>1. ASSUME NEW s \in Drawn PROVE s \in Drawn'
  <2>1. s \in SessionIds /\ s <= opened /\ s \in Nat
    BY AuthApiAssumption DEF Drawn, SessionIds
  <2>2. s <= opened'
    BY <2>1 DEF Fades
  <2> QED
    BY <2>1, <2>2 DEF Drawn
<1> QED
  BY <1>1 DEF Named

(* A call stays well formed while sessions fade and are drawn.               *)
LEMMA CallKept ==
  ASSUME Fades, NEW q, CallOK(q)
  PROVE  CallOK(q)'
<1>1. Drawn \subseteq Drawn' /\ Named \subseteq Named'
  BY DrawnGrows
<1>2. \A s \in Drawn : sess[s] = None => sess'[s] = None
  BY DEF Fades
<1>3. ArgOK(q)'
  <2>1. ArgOK(q)
    BY DEF CallOK
  <2> HIDE DEF Drawn, Named
  <2> QED
    BY <1>1, <2>1 DEF ArgOK
<1>4. ASSUME NEW op, NEW value, ValueOK(op, value) PROVE ValueOK(op, value)'
  <2> HIDE DEF Drawn, Named
  <2> QED
    BY <1>1, <1>2, <1>4 DEF ValueOK
<1> HIDE DEF Drawn, Named, ArgOK, ValueOK
<1>5. CASE q.status = "sent"
  <2>1. /\ q.op \in Calls /\ q.by \in {"page", "past", "gone"} /\ q.as \in Named
        /\ q = [status |-> "sent", op |-> q.op, arg |-> q.arg, next |-> q.next,
                by |-> q.by, as |-> q.as]
    BY <1>5 DEF CallOK
  <2>2. q.as \in Named'
    BY <1>1, <2>1
  <2> QED
    BY <1>3, <1>5, <2>1, <2>2 DEF CallOK
<1>6. CASE q.status # "sent"
  <2>1. /\ q.op \in Calls /\ q.by \in {"page", "past", "gone"} /\ q.set \in Named
        /\ q.status \in {"ok", "failed"}
        /\ q.status = "ok" => ValueOK(q.op, q.value)
        /\ q = [status |-> q.status, value |-> q.value, set |-> q.set,
                op |-> q.op, arg |-> q.arg, next |-> q.next, by |-> q.by]
    BY <1>6 DEF CallOK
  <2>2. q.set \in Named' /\ (q.status = "ok" => ValueOK(q.op, q.value)')
    <3>1. PICK o, v : o = q.op /\ v = q.value
      OBVIOUS
    <3> QED
      BY <1>1, <1>4, <2>1, <3>1
  <2> QED
    BY <1>3, <1>6, <2>1, <2>2 DEF CallOK
<1> QED
  BY <1>5, <1>6

(* A step that changes what one slot holds.                                  *)
LEMMA SlotSet ==
  ASSUME DOMAIN request = Slots, \A q \in Slots : request[q] # Free => CallOK(request[q]),
         Fades, NEW r \in Slots, NEW x, x = Free \/ CallOK(x)',
         request' = [request EXCEPT ![r] = x]
  PROVE  /\ DOMAIN request' = Slots
         /\ \A q \in Slots : request'[q] = IF q = r THEN x ELSE request[q]
         /\ \A q \in Slots : request'[q] # Free => CallOK(request[q])'
<1>1. /\ DOMAIN request' = Slots
      /\ \A q \in Slots : request'[q] = IF q = r THEN x ELSE request[q]
  BY DEF Slots
<1>2. ASSUME NEW q \in Slots, request'[q] # Free PROVE CallOK(request[q])'
  <2>1. PICK y : y = request'[q]
    OBVIOUS
  <2>2. CallOK(y)'
    <3>1. CASE q = r
      BY <1>1, <1>2, <2>1, <3>1
    <3>2. CASE q # r
      BY <1>1, <1>2, <2>1, <3>2, CallKept
    <3> QED
      BY <3>1, <3>2
  <2> QED
    BY <2>1, <2>2
<1> QED
  BY <1>1, <1>2

InKind(q, kind) == q # Free /\ q.by = "page" /\ KindOf(q) = kind

(* The flags, when one slot and perhaps the panel changes.                   *)
LEMMA FlagsStep ==
  ASSUME FlagsOK, DOMAIN request = Slots, NEW r \in Slots, NEW o, o = request[r], NEW x,
         request' = [request EXCEPT ![r] = x], page'.name = page.name,
         \A kind \in Kinds :
           \/ /\ InKind(o, kind) <=> InKind(x, kind)
              /\ Flag(kind, page'.name, panel') <=> Flag(kind, page.name, panel)
           \/ /\ ~InKind(o, kind) /\ InKind(x, kind)
              /\ ~Flag(kind, page.name, panel) /\ Flag(kind, page'.name, panel')
           \/ InKind(o, kind) /\ ~InKind(x, kind) /\ ~Flag(kind, page'.name, panel')
  PROVE  FlagsOK'
<1>1. \A q \in Slots : request'[q] = IF q = r THEN x ELSE request[q]
  BY DEF Slots
<1>2. ASSUME NEW kind \in Kinds
      PROVE  /\ Flag(kind, page'.name, panel') => \E q \in Slots : Pend(kind)' = {q}
             /\ ~Flag(kind, page'.name, panel') => Pend(kind)' = {}
  <2> DEFINE new == Pend(kind)'
             old == Pend(kind)
  <2>1. \A q \in Slots : (q \in old <=> InKind(request[q], kind))
                          /\ (q \in new <=> InKind(request'[q], kind))
    BY DEF Pend, Mine, InKind
  <2>2. old \subseteq Slots /\ new \subseteq Slots
    BY DEF Pend
  <2>3. /\ Flag(kind, page.name, panel) => \E q \in Slots : old = {q}
        /\ ~Flag(kind, page.name, panel) => old = {}
    BY DEF FlagsOK
  <2> HIDE DEF new, old
  <2>4. CASE /\ InKind(o, kind) <=> InKind(x, kind)
             /\ Flag(kind, page'.name, panel') <=> Flag(kind, page.name, panel)
    <3>1. new = old
      BY <1>1, <2>1, <2>2, <2>4
    <3> QED
      BY <2>3, <2>4, <3>1 DEF new
  <2>5. CASE /\ ~InKind(o, kind) /\ InKind(x, kind)
             /\ ~Flag(kind, page.name, panel) /\ Flag(kind, page'.name, panel')
    <3>1. new = {r}
      BY <1>1, <2>1, <2>2, <2>3, <2>5
    <3> QED
      BY <2>5, <3>1 DEF new
  <2>6. CASE InKind(o, kind) /\ ~InKind(x, kind) /\ ~Flag(kind, page'.name, panel')
    <3>1. r \in old
      BY <2>1, <2>6
    <3>2. old = {r}
      BY <2>3, <3>1
    <3>3. new = {}
      BY <1>1, <2>1, <2>2, <2>6, <3>2
    <3> QED
      BY <2>6, <3>3 DEF new
  <2> QED
    BY <2>4, <2>5, <2>6
<1> QED
  BY <1>2 DEF FlagsOK

(* Where the page's own requests belong.                                     *)
LEMMA OwnersStep ==
  ASSUME PanelOK, DOMAIN request = Slots, NEW r \in Slots, NEW x,
         request' = [request EXCEPT ![r] = x], page'.name = page.name,
         x # Free /\ x.by = "page" => page.name = PageOf(x.op)
  PROVE  \A q \in Slots : Mine(q)' => page'.name = PageOf(request'[q].op)
<1>1. \A q \in Slots : request'[q] = IF q = r THEN x ELSE request[q]
  BY DEF Slots
<1> QED
  BY <1>1 DEF PanelOK, Mine

(* The calls that the list of sessions depends on.                           *)
ListCalls == {"sessions", "revoke", "revoke-all"}
OfList(q) == q # Free /\ q.by = "page" /\ q.op \in ListCalls

(* The lists, when the slot that changes holds none of their calls.          *)
LEMMA ListsStep ==
  ASSUME ListsOK, Fades, sess \in [SessionIds -> SessType], DOMAIN request = Slots,
         UNCHANGED securityVars, page'.name = page.name,
         NEW r \in Slots, NEW o, o = request[r], NEW x,
         request' = [request EXCEPT ![r] = x], ~OfList(o), ~OfList(x),
         page.name = "/settings/security" =>
           panel'.sessions = panel.sessions /\ panel'.error = panel.error
  PROVE  ListsOK'
<1>1. \A q \in Slots : request'[q] = IF q = r THEN x ELSE request[q]
  BY DEF Slots
<1>2. \A q \in Slots : (Mine(q) /\ request[q].op \in ListCalls) <=> OfList(request[q])
  BY DEF Mine, OfList
<1>3. \A q \in Slots : (Mine(q)' /\ request'[q].op \in ListCalls) <=> OfList(request'[q])
  BY DEF Mine, OfList
<1>4. \A q \in Slots : OfList(request'[q]) <=> OfList(request[q])
  BY <1>1
<1>5. \A q \in Slots : OfList(request[q]) => request'[q] = request[q]
  BY <1>1
<1>6. revoked' = revoked /\ overlapped' = overlapped
  BY DEF securityVars
<1>7. revoked' \subseteq Drawn' /\ overlapped' \in BOOLEAN
  BY <1>6, DrawnGrows DEF ListsOK
<1>8. \A s \in revoked' : sess'[s] = None
  BY <1>6 DEF ListsOK, Fades
<1>9. Quiet' <=> Quiet
  <2>1. Quiet <=> \A q \in Slots : ~OfList(request[q])
    BY <1>2 DEF Quiet, ListCalls
  <2>2. Quiet' <=> \A q \in Slots : ~OfList(request'[q])
    BY <1>3 DEF Quiet, ListCalls
  <2> QED
    BY <1>4, <2>1, <2>2
<1>10. ASSUME ~overlapped'
       PROVE  /\ \A q1, q2 \in Slots :
                   Mine(q1)' /\ request'[q1].op = "sessions"
                   /\ Mine(q2)' /\ request'[q2].op = "sessions" => q1 = q2
              /\ \A q \in Slots :
                   Mine(q)' /\ request'[q].op = "sessions" /\ request'[q].status = "ok"
                   => request'[q].value \cap revoked' = {}
              /\ page'.name = "/settings/security" /\ Quiet' /\ ~panel'.error
                   => panel'.sessions \cap revoked' = {}
  <2>1. \A q \in Slots : Mine(q)' /\ request'[q].op = "sessions" =>
          Mine(q) /\ request[q].op = "sessions" /\ request'[q] = request[q]
    BY <1>2, <1>3, <1>4, <1>5 DEF ListCalls
  <2> QED
    BY <1>6, <1>9, <1>10, <2>1 DEF ListsOK
<1> QED
  BY <1>7, <1>8, <1>10 DEF ListsOK

-----------------------------------------------------------------------------
(* The API's side, when one slot changes and the sessions perhaps fade.      *)
LEMMA StillFades ==
  ASSUME ApiOK, sess' = sess, opened' = opened
  PROVE  Fades
<1>1. opened \in Nat
  BY AuthApiAssumption DEF ApiOK
<1> QED
  BY <1>1 DEF Fades

(* The API's part, when one slot is filled, answered or freed.               *)
LEMMA ApiSlot ==
  ASSUME ApiOK, Fades, sess' \in [SessionIds -> SessType], opened' \in 0..MaxSessions,
         secret' \in 0..MaxSetups, cookie' \in Named', legacyId' \in Named',
         \A s \in SessionIds : s > opened' => sess'[s] = None,
         NEW r \in Slots, NEW x, x = Free \/ CallOK(x)', request' = [request EXCEPT ![r] = x]
  PROVE  ApiOK'
<1>1. DOMAIN request = Slots /\ \A q \in Slots : request[q] # Free => CallOK(request[q])
  BY DEF ApiOK
<1>2. /\ DOMAIN request' = Slots
      /\ \A q \in Slots : request'[q] # Free => CallOK(request[q])'
  BY <1>1, SlotSet
<1> QED
  BY <1>2 DEF ApiOK

(* The same when all that changes besides is the cookie and the id.          *)
LEMMA ApiQuietSlot ==
  ASSUME ApiOK, UNCHANGED <<sess, opened, secret>>, cookie' \in Named, legacyId' \in Named,
         NEW r \in Slots, NEW x, x = Free \/ CallOK(x), request' = [request EXCEPT ![r] = x]
  PROVE  ApiOK' /\ Fades
<1>1. Fades
  BY StillFades
<1>2. x = Free \/ CallOK(x)'
  BY <1>1, CallKept
<1>3. cookie' \in Named' /\ legacyId' \in Named'
  BY <1>1, DrawnGrows
<1>4. /\ sess' \in [SessionIds -> SessType] /\ opened' \in 0..MaxSessions
      /\ secret' \in 0..MaxSetups
      /\ \A s \in SessionIds : s > opened' => sess'[s] = None
  BY DEF ApiOK
<1> QED
  BY <1>1, <1>2, <1>3, <1>4, ApiSlot

(* The API's part, when nothing of it changes.                               *)
LEMMA ApiSame ==
  ASSUME ApiOK, UNCHANGED <<apiVars, legacyId>>
  PROVE  ApiOK' /\ Fades
<1>1. UNCHANGED <<sess, opened, secret, cookie, request, legacyId>>
  BY DEF apiVars
<1>2. Fades
  BY <1>1, StillFades
<1>3. ASSUME NEW q \in Slots, request'[q] # Free PROVE CallOK(request[q])'
  <2>1. PICK y : y = request[q]
    OBVIOUS
  <2>2. CallOK(y)
    BY <1>1, <1>3, <2>1 DEF ApiOK
  <2>3. CallOK(y)'
    BY <1>2, <2>2, CallKept
  <2> QED
    BY <1>1, <2>1, <2>3
<1>4. cookie' \in Named' /\ legacyId' \in Named'
  BY <1>1, <1>2, DrawnGrows DEF ApiOK
<1> QED
  BY <1>1, <1>2, <1>3, <1>4 DEF ApiOK

(* A handler that only sets what its panel shows.                            *)
LEMMA ChangeKeeps ==
  ASSUME WebInv, NEW p, Change(p), UNCHANGED securityVars, acts' \in 0..MaxActs,
         p \in PanelType(page.name),
         \A kind \in Kinds : Flag(kind, page.name, p) <=> Flag(kind, page.name, panel),
         page.name = "/settings/security" =>
           p.sessions = panel.sessions /\ p.error = panel.error
  PROVE  WebInv'
<1>1. UNCHANGED <<apiVars, legacyId>> /\ page' = page /\ nav' = nav /\ panel' = p
      /\ request' = request
  BY DEF Change, Keep, routerVars, apiVars
<1>2. ApiOK' /\ Fades
  BY <1>1, ApiSame DEF WebInv
<1>3. RouterOK'
  BY <1>1 DEF WebInv, RouterOK
<1>4. PanelOK'
  BY <1>1 DEF WebInv, PanelOK, Mine
<1>5. \A kind : Pend(kind)' = Pend(kind)
  BY <1>1 DEF Pend, Mine
<1>6. FlagsOK'
  BY <1>1, <1>5 DEF WebInv, FlagsOK
<1>7. revoked' \subseteq Drawn'
  BY <1>2, DrawnGrows DEF WebInv, ListsOK, securityVars
<1>8. ListsOK'
  <2>1. /\ revoked' = revoked /\ overlapped' = overlapped /\ sess' = sess /\ request' = request
        /\ page' = page
    BY <1>1 DEF securityVars, apiVars
  <2>2. Quiet' <=> Quiet
    BY <2>1 DEF Quiet, Mine
  <2>3. ASSUME ~overlapped' PROVE
          /\ \A r, q \in Slots :
               Mine(r)' /\ request'[r].op = "sessions" /\ Mine(q)' /\ request'[q].op = "sessions"
               => r = q
          /\ \A r \in Slots :
               Mine(r)' /\ request'[r].op = "sessions" /\ request'[r].status = "ok"
               => request'[r].value \cap revoked' = {}
          /\ page'.name = "/settings/security" /\ Quiet' /\ ~panel'.error
               => panel'.sessions \cap revoked' = {}
    BY <1>1, <2>1, <2>2, <2>3 DEF WebInv, ListsOK, Mine
  <2> QED
    BY <1>7, <2>1, <2>3 DEF WebInv, ListsOK
<1> QED
  BY <1>2, <1>3, <1>4, <1>6, <1>8 DEF WebInv

(* What jsonFetch sends is well formed.                                      *)
LEMMA SentOK ==
  ASSUME ApiOK, NEW op \in Calls, NEW arg, NEW next, NEW by \in {"page", "past", "gone"},
         NEW x, x = SentBy(op, arg, next, by),
         op \in {"oauth.start", "oauth.callback", "recovery", "login", "mfa.verify"}
           => next \in NextType,
         op \in {"mfa.verify", "mfa.code"} => arg \in Named,
         op = "revoke" => arg \in SessionIds,
         op = "sessions" => arg \in {"mount", "revoke", "revoke-all"}
  PROVE  /\ CallOK(x) /\ x # Free /\ x.op = op /\ x.arg = arg /\ x.next = next /\ x.by = by
         /\ x.status = "sent"
<1>1. x = [status |-> "sent", op |-> op, arg |-> arg, next |-> next, by |-> by, as |-> cookie]
  BY DEF SentBy
<1>2. /\ x.op = op /\ x.arg = arg /\ x.next = next /\ x.by = by /\ x.status = "sent"
      /\ x.as = cookie
  BY <1>1
<1>3. x # Free
  <2>1. Free.status = "free"
    BY DEF Free
  <2> QED
    BY <1>2, <2>1
<1>4. ArgOK(x)
  BY <1>2 DEF ArgOK
<1>5. x = [status |-> "sent", op |-> x.op, arg |-> x.arg, next |-> x.next, by |-> x.by, as |-> x.as]
  BY <1>1, <1>2
<1>6. x.as \in Named
  BY <1>2 DEF ApiOK
<1> HIDE DEF ArgOK
<1>7. CallOK(x)
  BY <1>2, <1>4, <1>5, <1>6 DEF CallOK
<1> QED
  BY <1>2, <1>3, <1>7

(* A handler that sends a request and waits.                                 *)
LEMMA AskKeeps ==
  ASSUME WebInv, NEW op \in Calls \ {"sessions"}, NEW arg, NEW next, NEW p,
         Ask(op, arg, next, p), UNCHANGED securityVars, acts' \in 0..MaxActs,
         op \in {"oauth.start", "oauth.callback", "recovery", "login", "mfa.verify"}
           => next \in NextType,
         op \in {"mfa.verify", "mfa.code"} => arg \in Named,
         op = "revoke" => arg \in SessionIds,
         page.name = PageOf(op), p \in PanelType(page.name),
         NEW k, \A q : q.op = op => KindOf(q) = k,
         \A kind \in Kinds :
           IF kind = k THEN ~Flag(kind, page.name, panel) /\ Flag(kind, page.name, p)
           ELSE Flag(kind, page.name, p) <=> Flag(kind, page.name, panel),
         page.name = "/settings/security" =>
           /\ p.sessions = panel.sessions
           /\ op \in ListCalls \/ p.error = panel.error
  PROVE  WebInv'
<1>0. ApiOK /\ RouterOK /\ PanelOK /\ FlagsOK /\ ListsOK /\ DOMAIN request = Slots
  BY DEF WebInv, ApiOK
<1>1. PICK r \in Slots :
        FreeSlot(r) /\ request' = [request EXCEPT ![r] = SentBy(op, arg, next, "page")]
  BY DEF Ask, Sent
<1>2. PICK x : x = SentBy(op, arg, next, "page")
  OBVIOUS
<1>3. CallOK(x) /\ x # Free /\ x.op = op /\ x.by = "page" /\ x.status = "sent"
  BY <1>0, <1>2, SentOK
<1>4. request[r] = Free /\ request' = [request EXCEPT ![r] = x]
  BY <1>1, <1>2 DEF FreeSlot
<1>5. /\ UNCHANGED <<sess, opened, secret, cookie, legacyId, page, nav>> /\ panel' = p
  BY DEF Ask, routerVars
<1>6. ApiOK' /\ Fades
  BY <1>0, <1>3, <1>4, <1>5, ApiQuietSlot DEF ApiOK
<1>7. RouterOK'
  BY <1>0, <1>5 DEF RouterOK
<1>8. PanelOK'
  <2>1. \A q \in Slots : Mine(q)' => page'.name = PageOf(request'[q].op)
    BY <1>0, <1>3, <1>4, <1>5, OwnersStep
  <2> QED
    BY <1>5, <2>1 DEF PanelOK
<1>9. FlagsOK'
  <2>1. \A kind \in Kinds : ~InKind(Free, kind) /\ (InKind(x, kind) <=> kind = k)
    BY <1>3 DEF InKind
  <2>2. PICK o : o = request[r]
    OBVIOUS
  <2> QED
    BY <1>0, <1>4, <1>5, <2>1, <2>2, FlagsStep
<1>10. ListsOK'
  <2>1. CASE op \notin ListCalls
    <3>1. ~OfList(x) /\ ~OfList(Free)
      BY <1>3, <2>1 DEF OfList
    <3>2. PICK o : o = request[r]
      OBVIOUS
    <3> QED
      BY <1>0, <1>4, <1>5, <1>6, <2>1, <3>1, <3>2, ListsStep DEF ApiOK
  <2>2. CASE op \in ListCalls
    <3>1. \A q \in Slots : request'[q] = IF q = r THEN x ELSE request[q]
      BY <1>0, <1>4
    <3>2. revoked' = revoked /\ overlapped' = overlapped /\ sess' = sess
      BY <1>5 DEF securityVars
    <3>3. revoked' \subseteq Drawn'
      BY <1>0, <1>6, <3>2, DrawnGrows DEF ListsOK
    <3>4. ~Quiet'
      BY <1>3, <2>2, <3>1 DEF Quiet, Mine, ListCalls
    <3>5. \A q \in Slots : Mine(q)' /\ request'[q].op = "sessions" =>
            Mine(q) /\ request[q].op = "sessions" /\ request'[q] = request[q]
      BY <1>3, <3>1 DEF Mine
    <3> QED
      BY <1>0, <3>2, <3>3, <3>4, <3>5 DEF ListsOK
  <2> QED
    BY <2>1, <2>2
<1> QED
  BY <1>6, <1>7, <1>8, <1>9, <1>10 DEF WebInv

(* What is known of an answer that has arrived.                              *)
LEMMA ArrivedCall ==
  ASSUME ApiOK, NEW r \in Slots, NEW op, Arrived(r, op)
  PROVE  /\ request[r] # Free /\ CallOK(request[r]) /\ request[r].op = op
         /\ request[r].by \in {"page", "past"} /\ request[r].set \in Named
         /\ Ok(r) => ValueOK(op, request[r].value)
         /\ ArgOK(request[r])
<1>1. request[r].status \in {"ok", "failed"} /\ request[r].by # "gone" /\ request[r].op = op
  BY DEF Arrived
<1>2. request[r] # Free
  <2>1. Free.status = "free"
    BY DEF Free
  <2> QED
    BY <1>1, <2>1
<1>3. CallOK(request[r])
  BY <1>2 DEF ApiOK
<1>4. /\ request[r].by \in {"page", "past", "gone"} /\ request[r].set \in Named
      /\ request[r].status = "ok" => ValueOK(request[r].op, request[r].value)
      /\ ArgOK(request[r])
  <2> HIDE DEF ArgOK, ValueOK
  <2> QED
    BY <1>1, <1>3 DEF CallOK
<1> HIDE DEF CallOK, ArgOK, ValueOK
<1> QED
  BY <1>1, <1>2, <1>3, <1>4 DEF Ok

(* How the flags may change with the slot of a handler that goes on.         *)
Moves(o, x, p) ==
  \A kind \in Kinds :
    \/ /\ InKind(o, kind) <=> InKind(x, kind)
       /\ Flag(kind, page.name, p) <=> Flag(kind, page.name, panel)
    \/ InKind(o, kind) /\ ~InKind(x, kind) /\ ~Flag(kind, page.name, p)

(* A handler that goes on after its await.                                   *)
LEMMA ResumeBase ==
  ASSUME WebInv, NEW r \in Slots, NEW op, Arrived(r, op), NEW p,
         NEW push, push = None \/ push \in PageType, NEW x, x = Free \/ CallOK(x),
         Resume(r, p, push, x), legacyId' \in Named,
         x # Free => x.by = request[r].by /\ PageOf(x.op) = PageOf(op),
         request[r].by = "page" =>
           p \in PanelType(page.name) /\ Moves(request[r], x, p)
  PROVE  /\ ApiOK' /\ Fades /\ RouterOK' /\ PanelOK' /\ FlagsOK'
         /\ DOMAIN request = Slots /\ page' = page /\ sess' = sess
<1>0. ApiOK /\ RouterOK /\ PanelOK /\ FlagsOK /\ DOMAIN request = Slots
  BY DEF WebInv, ApiOK
<1>1. /\ request' = [request EXCEPT ![r] = x] /\ page' = page
      /\ panel' = (IF request[r].by = "page" THEN p ELSE panel)
      /\ nav' = (IF push = None THEN nav ELSE Start(push))
      /\ cookie' = (IF request[r].set = None THEN cookie ELSE request[r].set)
      /\ UNCHANGED <<sess, opened, secret>>
  BY DEF Resume
<1>2. PICK o : o = request[r]
  OBVIOUS
<1>3. o # Free /\ o.op = op /\ o.by \in {"page", "past"} /\ o.set \in Named
  BY <1>0, <1>2, ArrivedCall
<1>4. cookie' \in Named
  BY <1>0, <1>1, <1>2, <1>3 DEF ApiOK
<1>5. ApiOK' /\ Fades
  BY <1>0, <1>1, <1>4, ApiQuietSlot
<1>6. RouterOK'
  <2>1. CASE push = None
    BY <1>0, <1>1, <2>1 DEF RouterOK
  <2>2. CASE push # None
    <3>1. nav' = Start(push) /\ push \in PageType
      BY <1>1, <2>2
    <3>2. PICK n : n = Start(push)
      OBVIOUS
    <3>3. NavOK(n)
      BY <3>1, <3>2, StartOK
    <3>4. NavOK(nav')
      BY <3>1, <3>2, <3>3
    <3> QED
      BY <1>0, <1>1, <3>4 DEF RouterOK
  <2> QED
    BY <2>1, <2>2
<1>7. o.by = "page" => page.name = PageOf(op)
  BY <1>0, <1>2, <1>3 DEF PanelOK, Mine
<1>8. PanelOK'
  <2>1. x # Free /\ x.by = "page" => page.name = PageOf(x.op)
    BY <1>2, <1>7
  <2>2. \A q \in Slots : Mine(q)' => page'.name = PageOf(request'[q].op)
    BY <1>0, <1>1, <2>1, OwnersStep
  <2>3. panel' \in PanelType(page'.name)
    BY <1>0, <1>1 DEF PanelOK
  <2> QED
    BY <2>2, <2>3 DEF PanelOK
<1>9. FlagsOK'
  <2>1. CASE o.by = "page"
    BY <1>0, <1>1, <1>2, <2>1, FlagsStep DEF Moves
  <2>2. CASE o.by # "page"
    <3>1. \A kind \in Kinds : ~InKind(o, kind) /\ ~InKind(x, kind)
      BY <1>2, <2>2 DEF InKind
    <3>2. panel' = panel
      BY <1>1, <1>2, <2>2
    <3> QED
      BY <1>0, <1>1, <1>2, <3>1, <3>2, FlagsStep
  <2> QED
    BY <2>1, <2>2
<1> QED
  BY <1>0, <1>1, <1>5, <1>6, <1>8, <1>9

(* The same, for the handlers that have nothing to do with the list.         *)
LEMMA ResumeKeeps ==
  ASSUME WebInv, NEW r \in Slots, NEW op, Arrived(r, op), op \notin ListCalls, NEW p,
         NEW push, push = None \/ push \in PageType, NEW x, x = Free \/ CallOK(x),
         Resume(r, p, push, x), legacyId' \in Named,
         UNCHANGED <<securityVars, acts>>,
         x # Free => x.by = request[r].by /\ PageOf(x.op) = PageOf(op) /\ x.op \notin ListCalls,
         request[r].by = "page" =>
           /\ p \in PanelType(page.name) /\ Moves(request[r], x, p)
           /\ page.name = "/settings/security" =>
                p.sessions = panel.sessions /\ p.error = panel.error
  PROVE  WebInv'
<1>1. /\ ApiOK' /\ Fades /\ RouterOK' /\ PanelOK' /\ FlagsOK'
      /\ request' = [request EXCEPT ![r] = x] /\ DOMAIN request = Slots
      /\ page' = page /\ sess' = sess
      /\ panel' = IF request[r].by = "page" THEN p ELSE panel
  <2>1. x # Free => x.by = request[r].by /\ PageOf(x.op) = PageOf(op)
    OBVIOUS
  <2>2. request[r].by = "page" => p \in PanelType(page.name) /\ Moves(request[r], x, p)
    OBVIOUS
  <2>3. /\ ApiOK' /\ Fades /\ RouterOK' /\ PanelOK' /\ FlagsOK'
        /\ DOMAIN request = Slots /\ page' = page /\ sess' = sess
    BY <2>1, <2>2, ResumeBase
  <2>4. /\ request' = [request EXCEPT ![r] = x]
        /\ panel' = IF request[r].by = "page" THEN p ELSE panel
    BY DEF Resume
  <2> QED
    BY <2>3, <2>4
<1>2. PICK o : o = request[r]
  OBVIOUS
<1>3. ~OfList(o) /\ ~OfList(x)
  <2>1. request[r].op = op
    BY DEF Arrived
  <2> QED
    BY <1>2, <2>1 DEF OfList
<1>4. ListsOK /\ sess \in [SessionIds -> SessType] /\ UNCHANGED securityVars
  BY DEF WebInv, ApiOK
<1>5. page.name = "/settings/security" =>
           panel'.sessions = panel.sessions /\ panel'.error = panel.error
  BY <1>1
<1>6. ListsOK'
  BY <1>1, <1>2, <1>3, <1>4, <1>5, ListsStep
<1> QED
  BY <1>1, <1>6 DEF WebInv

(* The answer to a document that was left.                                   *)
LEMMA DroppedKeeps ==
  ASSUME WebInv, NEW r \in Slots, Dropped(r), UNCHANGED <<securityVars, acts>>
  PROVE  WebInv'
<1>0. ApiOK /\ RouterOK /\ PanelOK /\ FlagsOK /\ ListsOK /\ DOMAIN request = Slots
      /\ sess \in [SessionIds -> SessType]
  BY DEF WebInv, ApiOK
<1>1. /\ request[r].status \in {"ok", "failed"} /\ request[r].by = "gone"
      /\ request' = [request EXCEPT ![r] = Free]
      /\ cookie' \in {cookie} \cup ({request[r].set} \ {None})
      /\ UNCHANGED <<sess, opened, secret, page, nav, panel, legacyId>>
  BY DEF Dropped, routerVars, panelVars
<1>2. PICK o : o = request[r]
  OBVIOUS
<1>3. o.set \in Named
  <2>1. o # Free
    <3>1. Free.status = "free"
      BY DEF Free
    <3> QED
      BY <1>1, <1>2, <3>1
  <2>2. CallOK(o)
    BY <1>0, <1>2, <2>1 DEF ApiOK
  <2> QED
    BY <1>1, <1>2, <2>2 DEF CallOK
<1>4. ApiOK' /\ Fades
  BY <1>0, <1>1, <1>2, <1>3, ApiQuietSlot DEF ApiOK
<1>5. RouterOK'
  BY <1>0, <1>1 DEF RouterOK
<1>6. PanelOK'
  <2>1. \A q \in Slots : Mine(q)' => page'.name = PageOf(request'[q].op)
    BY <1>0, <1>1, OwnersStep
  <2> QED
    BY <1>0, <1>1, <2>1 DEF PanelOK
<1>7. FlagsOK'
  <2>1. \A kind \in Kinds : ~InKind(o, kind) /\ ~InKind(Free, kind)
    BY <1>1, <1>2 DEF InKind
  <2> QED
    BY <1>0, <1>1, <1>2, <2>1, FlagsStep
<1>8. ListsOK'
  <2>1. ~OfList(o) /\ ~OfList(Free)
    BY <1>1, <1>2 DEF OfList
  <2> QED
    BY <1>0, <1>1, <1>2, <1>4, <2>1, ListsStep
<1> QED
  BY <1>4, <1>5, <1>6, <1>7, <1>8 DEF WebInv

-----------------------------------------------------------------------------
(* The answer to a call, or its loss.                                        *)
Success(o, value, set) ==
  [status |-> "ok", value |-> value, set |-> set,
   op |-> o.op, arg |-> o.arg, next |-> o.next, by |-> o.by]
(* An answer is a failure or a success.                                      *)
LEMMA AnswerIs ==
  ASSUME NEW r \in Slots, NEW value, NEW set, Answer(r, value, set), NEW o, o = request[r],
         DOMAIN request = Slots
  PROVE  \E x \in {Failure(o), Success(o, value, set)} : request' = [request EXCEPT ![r] = x]
<1>1. PICK lost \in BOOLEAN :
        request' = [request EXCEPT ![r] = IF lost THEN Failure(@) ELSE Success(@, value, set)]
  BY DEF Answer, Success
<1>2. CASE lost
  BY <1>1, <1>2
<1>3. CASE ~lost
  BY <1>1, <1>3
<1> QED
  BY <1>2, <1>3

(* An answered call is well formed.                                          *)
LEMMA AnsweredOK ==
  ASSUME Fades, NEW o, CallOK(o), NEW v, NEW s \in Named', ValueOK(o.op, v)',
         NEW x \in {Failure(o), Success(o, v, s)}
  PROVE  /\ CallOK(x)' /\ x # Free /\ x.op = o.op /\ x.by = o.by /\ x.arg = o.arg
         /\ x.status = "ok" => x.value = v
<1>1. /\ x = [status |-> x.status, value |-> x.value, set |-> x.set,
              op |-> o.op, arg |-> o.arg, next |-> o.next, by |-> o.by]
      /\ x.status \in {"ok", "failed"} /\ x.set \in {s, None} /\ (x.status = "ok" => x.value = v)
  BY DEF Failure, Success
<1>2. x.op = o.op /\ x.arg = o.arg /\ x.next = o.next /\ x.by = o.by
  BY <1>1
<1>3. x # Free
  <2>1. Free.status = "free"
    BY DEF Free
  <2> QED
    BY <1>1, <2>1
<1>4. /\ o.op \in Calls /\ o.by \in {"page", "past", "gone"} /\ ArgOK(o)'
  <2>1. CallOK(o)'
    BY CallKept
  <2> HIDE DEF ArgOK
  <2> QED
    BY <2>1 DEF CallOK
<1>5. ArgOK(x)'
  BY <1>2, <1>4 DEF ArgOK
<1>6. x.set \in Named'
  BY <1>1 DEF Named
<1>7. x.status = "ok" => ValueOK(x.op, x.value)'
  BY <1>1, <1>2
<1>8. x = [status |-> x.status, value |-> x.value, set |-> x.set,
           op |-> x.op, arg |-> x.arg, next |-> x.next, by |-> x.by]
  BY <1>1, <1>2
<1> HIDE DEF ArgOK, ValueOK
<1>9. CallOK(x)'
  BY <1>1, <1>2, <1>4, <1>5, <1>6, <1>7, <1>8 DEF CallOK
<1> QED
  BY <1>1, <1>2, <1>3, <1>9

(* What a call does to the sessions, together with its answer.               *)
LEMMA ServedStep ==
  ASSUME WebInv, Fades, sess' \in [SessionIds -> SessType], opened' \in 0..MaxSessions,
         secret' \in 0..MaxSetups, cookie' = cookie,
         \A s \in SessionIds : s > opened' => sess'[s] = None,
         NEW r \in Slots, NEW v, NEW s \in Named', NEW op, op = request[r].op, ValueOK(op, v)',
         request[r] # Free, request[r].status = "sent", Answer(r, v, s),
         op = "sessions" => v \cap revoked = {},
         UNCHANGED <<routerVars, panelVars, securityVars, acts>>
  PROVE  WebInv'
<1>0. ApiOK /\ RouterOK /\ PanelOK /\ FlagsOK /\ ListsOK /\ DOMAIN request = Slots
  BY DEF WebInv, ApiOK
<1>1. UNCHANGED <<page, nav, panel, legacyId, revoked, overlapped, acts>>
  BY DEF routerVars, panelVars, securityVars
<1>2. PICK o : o = request[r]
  OBVIOUS
<1>3. CallOK(o) /\ o.status = "sent" /\ o # Free
  BY <1>0, <1>2 DEF ApiOK
<1>4. PICK x \in {Failure(o), Success(o, v, s)} : request' = [request EXCEPT ![r] = x]
  BY <1>0, <1>2, AnswerIs
<1>5. /\ CallOK(x)' /\ x # Free /\ x.op = o.op /\ x.by = o.by /\ x.arg = o.arg
      /\ x.status = "ok" => x.value = v
  <2>1. ValueOK(o.op, v)'
    BY <1>2
  <2> QED
    BY <1>3, <2>1, AnsweredOK
<1>6. ApiOK'
  <2>1. cookie' \in Named' /\ legacyId' \in Named'
    BY <1>0, <1>1, DrawnGrows DEF ApiOK
  <2> QED
    BY <1>0, <1>4, <1>5, <2>1, ApiSlot
<1>7. RouterOK'
  BY <1>0, <1>1 DEF RouterOK
<1>8. \A q \in Slots : request'[q] = IF q = r THEN x ELSE request[q]
  BY <1>0, <1>4
<1>9. \A q \in Slots : request'[q].op = request[q].op /\ (Mine(q)' <=> Mine(q))
  <2>1. ASSUME NEW q \in Slots
        PROVE  request'[q].op = request[q].op /\ (Mine(q)' <=> Mine(q))
    <3>1. CASE q = r
      BY <1>2, <1>3, <1>5, <1>8, <3>1 DEF Mine
    <3>2. CASE q # r
      <4>1. request'[q] = request[q]
        BY <1>8, <3>2
      <4> QED
        BY <4>1 DEF Mine
    <3> QED
      BY <3>1, <3>2
  <2> QED
    BY <2>1
<1>10. PanelOK'
  <2>1. ASSUME NEW q \in Slots, Mine(q)' PROVE page'.name = PageOf(request'[q].op)
    <3>1. Mine(q) /\ request'[q].op = request[q].op
      BY <1>9, <2>1
    <3>2. page.name = PageOf(request[q].op)
      BY <1>0, <3>1 DEF PanelOK
    <3> QED
      BY <1>1, <3>1, <3>2
  <2>2. panel' \in PanelType(page'.name)
    BY <1>0, <1>1 DEF PanelOK
  <2> QED
    BY <2>1, <2>2 DEF PanelOK
<1>11. FlagsOK'
  <2>1. \A kind \in Kinds : InKind(o, kind) <=> InKind(x, kind)
    BY <1>3, <1>5 DEF InKind, KindOf
  <2> QED
    BY <1>0, <1>1, <1>2, <1>4, <2>1, FlagsStep
<1>12. ListsOK'
  <2>1. revoked' \subseteq Drawn' /\ overlapped' \in BOOLEAN
        /\ \A t \in revoked' : sess'[t] = None
    BY <1>0, <1>1, DrawnGrows DEF ListsOK, Fades
  <2>2. Quiet' <=> Quiet
    BY <1>9 DEF Quiet
  <2>3. \A q \in Slots :
          Mine(q)' /\ request'[q].op = "sessions" /\ request'[q].status = "ok" /\ ~overlapped'
          => request'[q].value \cap revoked' = {}
    <3>1. ASSUME NEW q \in Slots, Mine(q)', request'[q].op = "sessions",
                 request'[q].status = "ok", ~overlapped'
          PROVE  request'[q].value \cap revoked' = {}
      <4>1. CASE q = r
        BY <1>1, <1>2, <1>5, <1>8, <3>1, <4>1
      <4>2. CASE q # r
        BY <1>0, <1>1, <1>8, <1>9, <3>1, <4>2 DEF ListsOK
      <4> QED
        BY <4>1, <4>2
    <3> QED
      BY <3>1
  <2> QED
    BY <1>0, <1>1, <1>9, <2>1, <2>2, <2>3 DEF ListsOK
<1> QED
  BY <1>1, <1>6, <1>7, <1>10, <1>11, <1>12 DEF WebInv
(* What the sessions may do in a step of the API.                            *)
SessionsMove ==
  /\ Fades /\ sess' \in [SessionIds -> SessType] /\ opened' \in 0..MaxSessions
  /\ secret' \in 0..MaxSetups /\ cookie' = cookie
  /\ \A s \in SessionIds : s > opened' => sess'[s] = None

(* A session is opened under the next id.                                    *)
LEMMA OpenedOK ==
  ASSUME ApiOK, NEW store \in {"db", "memory"},
         NEW state \in {"pre_mfa", "mfa_setup", "authenticated"}, OpenSession(store, state)
  PROVE  SessionsMove /\ opened + 1 \in Drawn'
<1>1. /\ sess \in [SessionIds -> SessType] /\ opened \in 0..MaxSessions /\ opened < MaxSessions
      /\ \A s \in SessionIds : s > opened => sess[s] = None
      /\ MaxSessions \in Nat /\ opened' = opened + 1 /\ UNCHANGED <<secret, cookie>>
      /\ secret \in 0..MaxSetups
  BY AuthApiAssumption DEF ApiOK, OpenSession
<1>2. PICK y : y = [store |-> store, state |-> state]
  OBVIOUS
<1>3. y \in SessType
  BY <1>2 DEF SessType
<1>4. sess' = [sess EXCEPT ![opened + 1] = y]
  BY <1>2 DEF OpenSession
<1>5. opened + 1 \in SessionIds /\ opened \in Nat /\ opened' \in 0..MaxSessions
  BY <1>1 DEF SessionIds
<1>6. opened + 1 \in Drawn'
  BY <1>1, <1>5 DEF Drawn
<1>7. \A s \in SessionIds : sess'[s] = IF s = opened + 1 THEN y ELSE sess[s]
  BY <1>1, <1>4
<1>8. \A s \in SessionIds : s \in Nat
  BY <1>1 DEF SessionIds
<1>9. \A s \in SessionIds : s > opened' => sess'[s] = None
  BY <1>1, <1>5, <1>7, <1>8
<1>10. Fades
  BY <1>1, <1>5, <1>7, <1>8 DEF Fades, Drawn
<1>11. sess' \in [SessionIds -> SessType]
  BY <1>1, <1>3, <1>4
<1> QED
  BY <1>1, <1>5, <1>6, <1>9, <1>10, <1>11 DEF SessionsMove

(* None is opened, and those that are gone stay so.                          *)
LEMMA MovedOK ==
  ASSUME ApiOK, sess' \in [SessionIds -> SessType], opened' = opened,
         secret' \in 0..MaxSetups, cookie' = cookie,
         \A s \in SessionIds : sess[s] = None => sess'[s] = None
  PROVE  SessionsMove
<1>1. opened \in 0..MaxSessions /\ \A s \in SessionIds : s > opened => sess[s] = None
  BY DEF ApiOK
<1>2. Fades
  BY <1>1 DEF Fades, Drawn
<1> QED
  BY <1>1, <1>2 DEF SessionsMove

(* A live session rises.                                                     *)
LEMMA ElevatedOK ==
  ASSUME ApiOK, NEW t \in SessionIds, sess[t] # None,
         sess' = [sess EXCEPT ![t].state = "authenticated"],
         UNCHANGED <<opened, secret, cookie>>
  PROVE  SessionsMove
<1>1. PICK y : y = sess[t]
  OBVIOUS
<1>2. y \in [store : {"db", "memory"}, state : {"pre_mfa", "mfa_setup", "authenticated"}]
  BY <1>1, NoneApart DEF ApiOK
<1>3. PICK z : z = [y EXCEPT !.state = "authenticated"]
  OBVIOUS
<1>4. z \in SessType
  BY <1>2, <1>3 DEF SessType
<1>5. sess' = [sess EXCEPT ![t] = z]
  BY <1>1, <1>3
<1>6. sess' \in [SessionIds -> SessType]
  BY <1>4, <1>5 DEF ApiOK
<1>7. \A s \in SessionIds : sess[s] = None => sess'[s] = None
  BY <1>5 DEF ApiOK
<1> QED
  BY <1>6, <1>7, MovedOK DEF ApiOK

(* Some end.                                                                 *)
LEMMA EndedOK ==
  ASSUME ApiOK, NEW gone, sess' = [s \in SessionIds |-> IF s \in gone THEN None ELSE sess[s]],
         UNCHANGED <<opened, secret, cookie>>
  PROVE  SessionsMove /\ \A s \in SessionIds \cap gone : sess'[s] = None
<1>1. sess \in [SessionIds -> SessType] /\ None \in SessType /\ secret \in 0..MaxSetups
  BY DEF ApiOK, SessType
<1>2. sess' \in [SessionIds -> SessType]
  BY <1>1
<1> QED
  BY <1>1, <1>2, MovedOK

(* The rows of the user's sessions are among those drawn.                    *)
LEMMA LiveDrawn ==
  ASSUME ApiOK
  PROVE  LiveDb \subseteq Drawn
<1>1. \A s \in LiveDb : s \in SessionIds /\ sess[s] # None
  BY DEF LiveDb
<1>2. ASSUME NEW s \in SessionIds, sess[s] # None PROVE s \in Drawn
  <2>1. ~(s > opened) /\ opened \in 0..MaxSessions
    BY <1>2 DEF ApiOK
  <2>2. s <= opened
    BY <2>1, AuthApiAssumption DEF SessionIds
  <2> QED
    BY <2>2 DEF Drawn
<1> QED
  BY <1>1, <1>2

(* ServedStep for a step of the sessions.                                    *)
LEMMA Served ==
  ASSUME WebInv, SessionsMove, NEW r \in Slots, NEW v, NEW s \in Named',
         NEW op, op = request[r].op, ValueOK(op, v)',
         request[r].status = "sent", Answer(r, v, s), op = "sessions" => v \cap revoked = {},
         UNCHANGED <<routerVars, panelVars, securityVars, acts>>
  PROVE  WebInv'
<1>1. request[r] # Free
  <2>1. Free.status = "free"
    BY DEF Free
  <2> QED
    BY <2>1
<1> QED
  BY <1>1, ServedStep DEF SessionsMove
(* The routes, one by one.                                                   *)
LEMMA RefuseKeeps ==
  ASSUME WebInv, NEW r \in Slots, Refuse(r),
         UNCHANGED <<routerVars, panelVars, securityVars, acts>>
  PROVE  WebInv'
<1>0. ApiOK /\ RouterOK /\ PanelOK /\ FlagsOK /\ ListsOK /\ DOMAIN request = Slots
  BY DEF WebInv, ApiOK
<1>1. PICK o : o = request[r]
  OBVIOUS
<1>2. /\ o.status = "sent" /\ request' = [request EXCEPT ![r] = Failure(o)]
      /\ UNCHANGED <<sess, opened, secret, cookie>>
  BY <1>0, <1>1 DEF Refuse
<1>3. PICK x : x = Failure(o)
  OBVIOUS
<1>4. x.op = o.op /\ x.by = o.by /\ x.arg = o.arg /\ x.next = o.next
      /\ x.status = "failed" /\ x.set = None
      /\ x = [status |-> x.status, value |-> x.value, set |-> x.set,
              op |-> x.op, arg |-> x.arg, next |-> x.next, by |-> x.by]
  BY <1>3 DEF Failure
<1>5. o # Free /\ x # Free
  <2>1. Free.status = "free"
    BY DEF Free
  <2> QED
    BY <1>2, <1>4, <2>1
<1>6. CallOK(x)
  <2>1. CallOK(o)
    BY <1>0, <1>1, <1>5 DEF ApiOK
  <2>2. o.op \in Calls /\ o.by \in {"page", "past", "gone"} /\ ArgOK(o)
    BY <2>1 DEF CallOK
  <2>3. ArgOK(x)
    BY <1>4, <2>2 DEF ArgOK
  <2>4. x.set \in Named
    BY <1>4 DEF Named
  <2> HIDE DEF ArgOK
  <2> QED
    BY <1>4, <2>2, <2>3, <2>4 DEF CallOK
<1>7. ApiOK' /\ Fades
  BY <1>0, <1>2, <1>3, <1>6, ApiQuietSlot DEF ApiOK, panelVars
<1>8. UNCHANGED <<page, nav, panel, legacyId, revoked, overlapped>> /\ sess' = sess
  BY <1>2 DEF routerVars, panelVars, securityVars
<1>9. RouterOK'
  BY <1>0, <1>8 DEF RouterOK
<1>10. \A q \in Slots : request'[q] = IF q = r THEN x ELSE request[q]
  BY <1>0, <1>2, <1>3
<1>11. \A q \in Slots : request'[q].op = request[q].op /\ (Mine(q)' <=> Mine(q))
         /\ (Mine(q)' /\ request'[q].status = "ok" => request'[q] = request[q])
  <2>1. ASSUME NEW q \in Slots
        PROVE  request'[q].op = request[q].op /\ (Mine(q)' <=> Mine(q))
               /\ (Mine(q)' /\ request'[q].status = "ok" => request'[q] = request[q])
    <3>1. CASE q = r
      BY <1>1, <1>4, <1>5, <1>10, <3>1 DEF Mine
    <3>2. CASE q # r
      <4>1. request'[q] = request[q]
        BY <1>10, <3>2
      <4> QED
        BY <4>1 DEF Mine
    <3> QED
      BY <3>1, <3>2
  <2> QED
    BY <2>1
<1>12. PanelOK'
  BY <1>0, <1>8, <1>11 DEF PanelOK
<1>13. FlagsOK'
  <2>1. \A kind \in Kinds : InKind(o, kind) <=> InKind(x, kind)
    BY <1>4, <1>5 DEF InKind, KindOf
  <2> QED
    BY <1>0, <1>1, <1>2, <1>3, <1>8, <2>1, FlagsStep
<1>14. ListsOK'
  <2>1. Quiet' <=> Quiet
    BY <1>11 DEF Quiet
  <2>2. revoked' \subseteq Drawn'
    BY <1>0, <1>7, <1>8, DrawnGrows DEF ListsOK
  <2> QED
    BY <1>0, <1>8, <1>11, <2>1, <2>2 DEF ListsOK
<1> QED
  BY <1>7, <1>8, <1>9, <1>12, <1>13, <1>14 DEF WebInv

(* A value that says nothing of the sessions.                                *)
LEMMA PlainValue ==
  ASSUME NEW op, NEW v, op \notin {"recovery", "login", "mfa.setup", "sessions", "revoke", "revoke-all"}
  PROVE  ValueOK(op, v)'
BY DEF ValueOK

(* The calls that open no session.                                           *)
LEMMA StatelessKeeps ==
  ASSUME WebInv, NEW r \in Slots, ServeStateless(r),
         UNCHANGED <<routerVars, panelVars, securityVars, acts>>
  PROVE  WebInv'
<1>1. PICK op : op = request[r].op
  OBVIOUS
<1>2. /\ op \in {"oauth.start", "register", "verify-email", "forgot-password", "change-password",
                 "mfa.code"}
      /\ request[r].status = "sent" /\ Answer(r, None, None)
      /\ UNCHANGED <<sess, opened, secret, cookie>>
  BY <1>1 DEF ServeStateless, Waiting
<1>3. SessionsMove
  BY <1>2, MovedOK DEF WebInv, ApiOK
<1>4. None \in Named' /\ ValueOK(op, None)'
  BY <1>2, PlainValue DEF Named
<1> QED
  BY <1>1, <1>2, <1>3, <1>4, Served

(* The logins.                                                               *)
LEMMA LoginKeeps ==
  ASSUME WebInv, NEW r \in Slots, ServeMemoryLogin(r) \/ ServeLogin(r) \/ ServeSetupPassword(r),
         UNCHANGED <<routerVars, panelVars, securityVars, acts>>
  PROVE  WebInv'
<1>1. PICK op : op = request[r].op
  OBVIOUS
<1>2. PICK v : v = [id |-> opened + 1, state |-> "pre_mfa"]
  OBVIOUS
<1>3. v.id = opened + 1 /\ v.state = "pre_mfa"
  BY <1>2
<1>4. ApiOK
  BY DEF WebInv
<1>5. CASE ServeMemoryLogin(r)
  <2>1. op \in {"oauth.callback", "recovery"} /\ request[r].status = "sent"
        /\ OpenSession("memory", "pre_mfa") /\ Answer(r, v, None)
    BY <1>1, <1>2, <1>5 DEF ServeMemoryLogin, Waiting
  <2>2. SessionsMove /\ v.id \in Drawn'
    BY <1>3, <1>4, <2>1, OpenedOK
  <2>3. ValueOK(op, v)' /\ None \in Named'
    BY <1>3, <2>1, <2>2 DEF ValueOK, Named
  <2> QED
    BY <1>1, <2>1, <2>2, <2>3, Served
<1>6. CASE ServeLogin(r)
  <2>1. op = "login" /\ request[r].status = "sent"
        /\ OpenSession("db", "pre_mfa") /\ Answer(r, v, v.id)
    BY <1>1, <1>2, <1>3, <1>6 DEF ServeLogin, Waiting
  <2>2. SessionsMove /\ v.id \in Drawn'
    BY <1>3, <1>4, <2>1, OpenedOK
  <2>3. ValueOK(op, v)' /\ v.id \in Named'
    BY <1>3, <2>1, <2>2 DEF ValueOK, Named
  <2> QED
    BY <1>1, <2>1, <2>2, <2>3, Served
<1>7. CASE ServeSetupPassword(r)
  <2>1. op = "setup-password" /\ request[r].status = "sent"
        /\ OpenSession("db", "mfa_setup") /\ Answer(r, None, v.id)
    BY <1>1, <1>3, <1>7 DEF ServeSetupPassword, Waiting
  <2>2. SessionsMove /\ v.id \in Drawn'
    BY <1>3, <1>4, <2>1, OpenedOK
  <2>3. ValueOK(op, None)' /\ v.id \in Named'
    BY <2>1, <2>2, PlainValue DEF Named
  <2> QED
    BY <1>1, <2>1, <2>2, <2>3, Served
<1> QED
  BY <1>5, <1>6, <1>7

(* The one-time code.                                                        *)
LEMMA CodeKeeps ==
  ASSUME WebInv, NEW r \in Slots,
         ServeMfaVerify(r) \/ ServeMfaSetup(r) \/ ServeMfaSetupVerify(r),
         UNCHANGED <<routerVars, panelVars, securityVars, acts>>
  PROVE  WebInv'
<1>1. PICK o : o = request[r]
  OBVIOUS
<1>2. ApiOK /\ (o.status = "sent" => CallOK(o))
  <2>1. Free.status = "free"
    BY DEF Free
  <2> QED
    BY <1>1, <2>1 DEF WebInv, ApiOK
<1>3. CASE ServeMfaVerify(r)
  <2>1. /\ o.op = "mfa.verify" /\ o.status = "sent" /\ o.arg # None /\ sess[o.arg] # None
        /\ sess' = [sess EXCEPT ![o.arg].state = "authenticated"]
        /\ Answer(r, None, o.arg) /\ UNCHANGED <<opened, secret, cookie>>
    BY <1>1, <1>3 DEF ServeMfaVerify, Waiting
  <2>2. o.arg \in Named
    BY <1>2, <2>1 DEF CallOK, ArgOK
  <2>3. PICK t : t = o.arg
    OBVIOUS
  <2>4. t \in SessionIds /\ t \in Named
    BY <2>1, <2>2, <2>3 DEF Named, Drawn
  <2>5. SessionsMove
    BY <1>2, <2>1, <2>3, <2>4, ElevatedOK
  <2>6. t \in Named'
    BY <2>4, <2>5, DrawnGrows DEF SessionsMove
  <2>7. PICK op : op = request[r].op
    OBVIOUS
  <2>8. ValueOK(op, None)'
    BY <1>1, <2>1, <2>7, PlainValue
  <2> QED
    BY <1>1, <2>1, <2>3, <2>5, <2>6, <2>7, <2>8, Served
<1>4. CASE ServeMfaSetup(r)
  <2>1. PICK op : op = request[r].op
    OBVIOUS
  <2>2. PICK v : v = secret'
    OBVIOUS
  <2>3. /\ op = "mfa.setup" /\ request[r].status = "sent" /\ secret < MaxSetups
        /\ secret' = secret + 1 /\ Answer(r, v, None) /\ UNCHANGED <<sess, opened, cookie>>
    BY <1>4, <2>1, <2>2 DEF ServeMfaSetup, Waiting
  <2>4. secret \in 0..MaxSetups /\ MaxSetups \in Nat
    BY <1>2, AuthApiAssumption DEF ApiOK
  <2>5. secret' \in 0..MaxSetups /\ v \in 1..MaxSetups
    BY <2>2, <2>3, <2>4
  <2>6. SessionsMove
    BY <1>2, <2>3, <2>5, MovedOK DEF ApiOK
  <2>7. ValueOK(op, v)' /\ None \in Named'
    BY <2>3, <2>5 DEF ValueOK, Named
  <2> QED
    BY <2>1, <2>3, <2>6, <2>7, Served
<1>5. CASE ServeMfaSetupVerify(r)
  <2>1. PICK t : t = request[r].as
    OBVIOUS
  <2>2. PICK op : op = request[r].op
    OBVIOUS
  <2>3. /\ op = "mfa.setup.verify" /\ request[r].status = "sent" /\ t \in LiveDb
        /\ sess' = [sess EXCEPT ![t].state = "authenticated"]
        /\ Answer(r, None, None) /\ UNCHANGED <<opened, secret, cookie>>
    BY <1>5, <2>1, <2>2 DEF ServeMfaSetupVerify, Waiting, SettingUp
  <2>4. t \in SessionIds /\ sess[t] # None
    BY <2>3 DEF LiveDb
  <2>5. SessionsMove
    BY <1>2, <2>3, <2>4, ElevatedOK
  <2>6. ValueOK(op, None)' /\ None \in Named'
    BY <2>3, PlainValue DEF Named
  <2> QED
    BY <2>2, <2>3, <2>5, <2>6, Served
<1> QED
  BY <1>3, <1>4, <1>5

(* The calls about sessions.                                                 *)
LEMMA SessionCallsKeep ==
  ASSUME WebInv, NEW r \in Slots, ServeResetPassword(r) \/ ServeSessions(r) \/ ServeRevoke(r),
         UNCHANGED <<routerVars, panelVars, securityVars, acts>>
  PROVE  WebInv'
<1>1. PICK op : op = request[r].op
  OBVIOUS
<1>2. ApiOK /\ ListsOK
  BY DEF WebInv
<1>3. PICK live : live = LiveDb
  OBVIOUS
<1>4. live \subseteq Drawn /\ \A s \in live : s \in SessionIds /\ sess[s] # None
  BY <1>2, <1>3, LiveDrawn DEF LiveDb
<1>5. None \in Named'
  BY DEF Named
<1>6. CASE ServeResetPassword(r)
  <2>1. /\ op = "reset-password" /\ request[r].status = "sent" /\ Answer(r, None, None)
        /\ sess' = [s \in SessionIds |-> IF s \in live THEN None ELSE sess[s]]
        /\ UNCHANGED <<opened, secret, cookie>>
    BY <1>1, <1>3, <1>6 DEF ServeResetPassword, Waiting
  <2>2. SessionsMove
    BY <1>2, <2>1, EndedOK
  <2>3. ValueOK(op, None)'
    BY <2>1, PlainValue
  <2> QED
    BY <1>1, <1>5, <2>1, <2>2, <2>3, Served
<1>7. CASE ServeSessions(r)
  <2>1. /\ op = "sessions" /\ request[r].status = "sent" /\ Answer(r, live, None)
        /\ UNCHANGED <<sess, opened, secret, cookie>>
    BY <1>1, <1>3, <1>7 DEF ServeSessions, Waiting
  <2>2. SessionsMove
    BY <1>2, <2>1, MovedOK DEF ApiOK
  <2>3. live \subseteq Drawn'
    BY <1>4, <2>2, DrawnGrows DEF SessionsMove
  <2>4. ValueOK(op, live)'
    BY <2>1, <2>3 DEF ValueOK
  <2>5. live \cap revoked = {}
    BY <1>2, <1>4 DEF ListsOK
  <2> QED
    BY <1>1, <1>5, <2>1, <2>2, <2>4, <2>5, Served
<1>8. CASE ServeRevoke(r)
  <2>1. PICK gone \in SUBSET live :
          /\ op \in {"revoke", "revoke-all"} /\ request[r].status = "sent"
          /\ sess' = [s \in SessionIds |-> IF s \in gone THEN None ELSE sess[s]]
          /\ Answer(r, gone, None) /\ UNCHANGED <<opened, secret, cookie>>
    BY <1>1, <1>3, <1>8 DEF ServeRevoke, Waiting
  <2>2. SessionsMove /\ \A s \in SessionIds \cap gone : sess'[s] = None
    BY <1>2, <2>1, EndedOK
  <2>3. gone \subseteq Drawn' /\ \A s \in gone : sess'[s] = None
    BY <1>4, <2>2, DrawnGrows DEF SessionsMove
  <2>4. ValueOK(op, gone)'
    BY <2>1, <2>3 DEF ValueOK
  <2> QED
    BY <1>1, <1>5, <2>1, <2>2, <2>4, Served
<1> QED
  BY <1>6, <1>7, <1>8

(* The API's steps together.                                                 *)
LEMMA ServeKeeps ==
  ASSUME WebInv, NEW r \in Slots, Serve(r),
         UNCHANGED <<routerVars, panelVars, securityVars, acts>>
  PROVE  WebInv'
BY RefuseKeeps, StatelessKeeps, LoginKeeps, CodeKeeps, SessionCallsKeep DEF Serve

(* A session ends.                                                           *)
LEMMA SessionEndsKeeps ==
  ASSUME WebInv, SessionEnds, UNCHANGED <<routerVars, panelVars, securityVars, acts>>
  PROVE  WebInv'
<1>0. ApiOK /\ RouterOK /\ PanelOK /\ FlagsOK /\ ListsOK /\ DOMAIN request = Slots
  BY DEF WebInv, ApiOK
<1>1. /\ cookie # None /\ sess' = [sess EXCEPT ![cookie] = None]
      /\ UNCHANGED <<opened, secret, cookie, request>>
      /\ UNCHANGED <<page, nav, panel, legacyId, revoked, overlapped>>
  BY DEF SessionEnds, routerVars, panelVars, securityVars
<1>2. sess' \in [SessionIds -> SessType] /\ \A s \in SessionIds : sess[s] = None => sess'[s] = None
  <2>1. None \in SessType /\ sess \in [SessionIds -> SessType]
    BY <1>0 DEF ApiOK, SessType
  <2> QED
    BY <1>1, <2>1
<1>3. SessionsMove
  BY <1>0, <1>1, <1>2, MovedOK DEF ApiOK
<1>4. ASSUME NEW q \in Slots, request'[q] # Free PROVE CallOK(request[q])'
  <2>1. PICK y : y = request[q]
    OBVIOUS
  <2>2. CallOK(y)
    BY <1>0, <1>1, <1>4, <2>1 DEF ApiOK
  <2>3. CallOK(y)'
    BY <1>3, <2>2, CallKept DEF SessionsMove
  <2> QED
    BY <1>1, <2>1, <2>3
<1>5. ApiOK'
  <2>1. cookie' \in Named' /\ legacyId' \in Named'
    BY <1>0, <1>1, <1>3, DrawnGrows DEF ApiOK, SessionsMove
  <2> QED
    BY <1>0, <1>1, <1>3, <1>4, <2>1 DEF ApiOK, SessionsMove
<1>6. RouterOK'
  BY <1>0, <1>1 DEF RouterOK
<1>7. PanelOK'
  BY <1>0, <1>1 DEF PanelOK, Mine
<1>8. \A kind : Pend(kind)' = Pend(kind)
  BY <1>1 DEF Pend, Mine
<1>9. FlagsOK'
  BY <1>0, <1>1, <1>8 DEF FlagsOK
<1>10. ListsOK'
  <2>1. Quiet' <=> Quiet
    BY <1>1 DEF Quiet, Mine
  <2>2. revoked' \subseteq Drawn' /\ \A s \in revoked' : sess'[s] = None
    BY <1>0, <1>1, <1>3, DrawnGrows DEF ListsOK, SessionsMove, Fades
  <2>3. \A q : Mine(q)' <=> Mine(q)
    BY <1>1 DEF Mine
  <2> QED
    BY <1>0, <1>1, <2>1, <2>2, <2>3 DEF ListsOK
<1> QED
  BY <1>0, <1>1, <1>5, <1>6, <1>7, <1>9, <1>10 DEF WebInv
-----------------------------------------------------------------------------
(* An act is one of the bounded number.                                      *)
LEMMA ActOK ==
  ASSUME acts \in 0..MaxActs, Act
  PROVE  acts' \in 0..MaxActs
<1>1. MaxActs \in Nat
  BY WebAuthAssumption
<1>2. PICK n \in 0..MaxActs : n = acts
  OBVIOUS
<1>3. n < MaxActs /\ acts' = n + 1
  BY <1>2 DEF Act
<1> QED
  BY <1>1, <1>3

(* A step of the router that keeps the page.                                 *)
LEMMA NavStep ==
  ASSUME WebInv, UNCHANGED <<apiVars, page, panelVars, securityVars>>, acts' \in 0..MaxActs,
         NavOK(nav')
  PROVE  WebInv'
<1>0. ApiOK /\ RouterOK /\ PanelOK /\ FlagsOK /\ ListsOK
  BY DEF WebInv
<1>1. /\ UNCHANGED <<sess, opened, secret, cookie, request, page, panel, legacyId>>
      /\ UNCHANGED <<revoked, overlapped>>
  BY DEF apiVars, panelVars, securityVars
<1>2. ApiOK' /\ Fades
  BY <1>0, <1>1, ApiSame DEF apiVars
<1>3. RouterOK'
  BY <1>0, <1>1 DEF RouterOK
<1>4. PanelOK'
  BY <1>0, <1>1 DEF PanelOK, Mine
<1>5. \A kind : Pend(kind)' = Pend(kind)
  BY <1>1 DEF Pend, Mine
<1>6. FlagsOK'
  BY <1>0, <1>1, <1>5 DEF FlagsOK
<1>7. ListsOK'
  <2>1. Quiet' <=> Quiet
    BY <1>1 DEF Quiet, Mine
  <2>2. revoked' \subseteq Drawn'
    BY <1>0, <1>1, <1>2, DrawnGrows DEF ListsOK
  <2>3. \A q : Mine(q)' <=> Mine(q)
    BY <1>1 DEF Mine
  <2> QED
    BY <1>0, <1>1, <2>1, <2>2, <2>3 DEF ListsOK
<1> QED
  BY <1>2, <1>3, <1>4, <1>6, <1>7 DEF WebInv

(* The pages a tab is opened on are pages.                                   *)
LEMMA EntryPages == Entries \subseteq PageType /\ To("blank", None) \in PageType
BY DEF PageType

(* The state of a session is one the middleware knows.                       *)
LEMMA StateSeen ==
  ASSUME ApiOK
  PROVE  {SessionState, None} \subseteq Seen
<1>1. CASE cookie = None \/ sess[cookie] = None
  BY <1>1 DEF SessionState, Seen
<1>2. CASE cookie # None /\ sess[cookie] # None
  <2>1. cookie \in SessionIds
    BY <1>2 DEF ApiOK, Named, Drawn
  <2>2. PICK y : y = sess[cookie]
    OBVIOUS
  <2>3. y \in [store : {"db", "memory"}, state : {"pre_mfa", "mfa_setup", "authenticated"}]
    BY <1>2, <2>1, <2>2, NoneApart DEF ApiOK
  <2>4. SessionState = y.state
    BY <1>2, <2>2 DEF SessionState
  <2> QED
    BY <2>3, <2>4 DEF Seen
<1> QED
  BY <1>1, <1>2

(* The middleware asks.                                                      *)
LEMMA FetchKeeps ==
  ASSUME WebInv, FetchSessionState, UNCHANGED <<panelVars, securityVars, acts>>
  PROVE  WebInv'
<1>1. PICK seen \in {SessionState, None} : nav' = [nav EXCEPT !.asked = TRUE, !.seen = seen]
  BY DEF FetchSessionState
<1>2. PICK n : n = nav
  OBVIOUS
<1>3. NavOK(n) /\ Matched(n.to.name) /\ seen \in Seen
  BY <1>1, <1>2, StateSeen DEF FetchSessionState, WebInv, RouterOK
<1> DEFINE yes == TRUE
<1>4. yes \in BOOLEAN
  OBVIOUS
<1>5. nav' = [n EXCEPT !.asked = yes, !.seen = seen]
  BY <1>1, <1>2
<1> HIDE DEF yes
<1>6. /\ n \in [to : PageType, asked : BOOLEAN, seen : Seen, before : Seen \cup {"none yet"}]
      /\ n.before = "none yet" \/ \E t \in PageType : Matched(t.name) /\ n.to = Led(t, n.before)
  BY <1>3 DEF NavOK
<1>7. PICK m : m = [n EXCEPT !.asked = yes, !.seen = seen]
  OBVIOUS
<1>8. /\ m \in [to : PageType, asked : BOOLEAN, seen : Seen, before : Seen \cup {"none yet"}]
      /\ m.to = n.to /\ m.before = n.before
  BY <1>3, <1>4, <1>6, <1>7
<1>9. NavOK(m)
  BY <1>3, <1>6, <1>8 DEF NavOK
<1>10. UNCHANGED <<apiVars, page>>
  BY DEF FetchSessionState
<1>11. acts' \in 0..MaxActs /\ NavOK(nav')
  BY <1>5, <1>7, <1>9 DEF WebInv
<1> QED
  BY <1>10, <1>11, NavStep

(* The middleware, or a page, sends the browser elsewhere.                   *)
LEMMA RedirectKeeps ==
  ASSUME WebInv, RouterRedirects, UNCHANGED <<panelVars, securityVars, acts>>
  PROVE  WebInv'
<1>1. PICK n : n = nav
  OBVIOUS
<1>2. NavOK(n)
  BY <1>1 DEF RouterRedirects, Decidable, WebInv, RouterOK
<1>3. n \in [to : PageType, asked : BOOLEAN, seen : Seen, before : Seen \cup {"none yet"}]
      /\ (n.asked => Matched(n.to.name))
  BY <1>2 DEF NavOK
<1>4. n.to \in PageType /\ n.seen \in Seen
  BY <1>3
<1>5. PICK goal : goal = Destination
  OBVIOUS
<1>6. PICK from : from = IF n.asked THEN n.seen ELSE "none yet"
  OBVIOUS
<1> DEFINE no == FALSE
<1>7. no \in BOOLEAN /\ ~no
  OBVIOUS
<1>8. nav' = [to |-> goal, asked |-> no, seen |-> None, before |-> from]
  BY <1>1, <1>5, <1>6 DEF RouterRedirects, Going
<1> HIDE DEF no
<1>9. PICK m : m = [to |-> goal, asked |-> no, seen |-> None, before |-> from]
  OBVIOUS
<1>10. None \in Seen
  BY DEF Seen
<1>11. CASE n.asked
  <2>1. goal = Led(n.to, n.seen) /\ from = n.seen /\ Matched(n.to.name)
    BY <1>1, <1>3, <1>5, <1>6, <1>11 DEF Destination, Led
  <2>2. goal \in PageType
    BY <1>4, <2>1, LedPage
  <2>3. from \in Seen \cup {"none yet"}
        /\ \E t \in PageType : Matched(t.name) /\ goal = Led(t, from)
    BY <1>4, <2>1
  <2>4. NavOK(m)
    BY <1>7, <1>9, <1>10, <2>2, <2>3, NavFields
  <2> QED
    BY <1>8, <1>9, <2>4, NavStep DEF RouterRedirects, WebInv
<1>12. CASE ~n.asked
  <2>1. goal = PageRedirect(n.to) /\ from = "none yet"
    BY <1>1, <1>5, <1>6, <1>12 DEF Destination
  <2>2. goal \in PageType
    BY <1>4, <1>10, <2>1, LedPage
  <2>3. NavOK(m)
    BY <1>7, <1>9, <1>10, <2>1, <2>2, NavFields
  <2> QED
    BY <1>8, <1>9, <2>3, NavStep DEF RouterRedirects, WebInv
<1> QED
  BY <1>11, <1>12

(* The back button.                                                          *)
LEMMA GoBackKeeps ==
  ASSUME WebInv, GoBack
  PROVE  WebInv'
<1>1. PICK to \in Entries : nav' = Start(to)
  BY DEF GoBack
<1>2. PICK n : n = Start(to)
  OBVIOUS
<1>3. NavOK(n)
  BY <1>2, EntryPages, StartOK
<1>4. acts' \in 0..MaxActs
  BY ActOK DEF GoBack, WebInv
<1> QED
  BY <1>1, <1>2, <1>3, <1>4, NavStep DEF GoBack

-----------------------------------------------------------------------------
(* A call that somebody else waits for now is still well formed.             *)
LEMMA Handed ==
  ASSUME NEW o, CallOK(o), NEW b \in {"page", "past", "gone"}, NEW x, x = [o EXCEPT !.by = b]
  PROVE  CallOK(x) /\ x.by = b
<1>1. o.op \in Calls /\ ArgOK(o)
  BY DEF CallOK
<1>2. CASE o.status = "sent"
  <2>1. /\ o.as \in Named
        /\ o = [status |-> "sent", op |-> o.op, arg |-> o.arg, next |-> o.next,
                by |-> o.by, as |-> o.as]
    BY <1>2 DEF CallOK
  <2>2. x = [status |-> "sent", op |-> o.op, arg |-> o.arg, next |-> o.next,
             by |-> b, as |-> o.as]
    BY <2>1
  <2>3. x.op = o.op /\ x.arg = o.arg /\ x.next = o.next /\ x.by = b /\ x.as = o.as
        /\ x.status = "sent"
    BY <2>2
  <2>4. ArgOK(x)
    BY <1>1, <2>3 DEF ArgOK
  <2> HIDE DEF ArgOK
  <2>5. x = [status |-> "sent", op |-> x.op, arg |-> x.arg, next |-> x.next,
             by |-> x.by, as |-> x.as]
    BY <2>2, <2>3
  <2> QED
    BY <1>1, <2>1, <2>3, <2>4, <2>5 DEF CallOK
<1>3. CASE o.status # "sent"
  <2>1. /\ o.status \in {"ok", "failed"} /\ o.set \in Named
        /\ o.status = "ok" => ValueOK(o.op, o.value)
        /\ o = [status |-> o.status, value |-> o.value, set |-> o.set,
                op |-> o.op, arg |-> o.arg, next |-> o.next, by |-> o.by]
    BY <1>3 DEF CallOK
  <2>2. x = [status |-> o.status, value |-> o.value, set |-> o.set,
             op |-> o.op, arg |-> o.arg, next |-> o.next, by |-> b]
    BY <2>1
  <2>3. x.op = o.op /\ x.arg = o.arg /\ x.next = o.next /\ x.by = b /\ x.set = o.set
        /\ x.status = o.status /\ x.value = o.value
    BY <2>2
  <2>4. ArgOK(x)
    BY <1>1, <2>3 DEF ArgOK
  <2> HIDE DEF ArgOK, ValueOK
  <2>5. x = [status |-> x.status, value |-> x.value, set |-> x.set,
             op |-> x.op, arg |-> x.arg, next |-> x.next, by |-> x.by]
    BY <2>2, <2>3
  <2> QED
    BY <1>1, <2>1, <2>3, <2>4, <2>5 DEF CallOK
<1> QED
  BY <1>2, <1>3

(* A page that appears waits for at most one call, which is not a flag's.    *)
LEMMA NewPage ==
  ASSUME WebInv, UNCHANGED <<sess, opened, secret, cookie, legacyId>>, RouterOK',
         panel' = FirstState(page'), revoked' = {}, overlapped' = FALSE, acts' \in 0..MaxActs,
         DOMAIN request' = Slots,
         \A q \in Slots : request'[q] # Free => CallOK(request'[q]),
         \A q \in Slots : Mine(q)' =>
           /\ page'.name = PageOf(request'[q].op)
           /\ KindOf(request'[q]) = "none" /\ request'[q].status = "sent",
         \A p, q \in Slots : Mine(p)' /\ Mine(q)' => p = q
  PROVE  WebInv'
<1>1. ApiOK
  BY DEF WebInv
<1>2. Fades
  BY <1>1, StillFades
<1>3. ASSUME NEW q \in Slots, request'[q] # Free PROVE CallOK(request[q])'
  <2>1. PICK y : y = request'[q]
    OBVIOUS
  <2>2. CallOK(y)
    BY <1>3, <2>1
  <2>3. CallOK(y)'
    BY <1>2, <2>2, CallKept
  <2> QED
    BY <2>1, <2>3
<1>4. ApiOK'
  <2>1. cookie' \in Named' /\ legacyId' \in Named'
    BY <1>1, <1>2, DrawnGrows DEF ApiOK
  <2> QED
    BY <1>1, <1>3, <2>1 DEF ApiOK
<1>5. PICK to : to = page'
  OBVIOUS
<1>6. /\ FirstState(to) \in PanelType(to.name)
      /\ \A kind \in Kinds : ~Flag(kind, to.name, FirstState(to))
  BY FirstStateOK
<1>7. PanelOK'
  BY <1>5, <1>6 DEF PanelOK
<1>8. \A kind \in Kinds : Pend(kind)' = {}
  BY DEF Pend, Kinds
<1>9. FlagsOK'
  BY <1>5, <1>6, <1>8 DEF FlagsOK
<1>10. ListsOK'
  BY DEF ListsOK
<1> QED
  BY <1>4, <1>7, <1>9, <1>10 DEF WebInv

(* An <a href>.                                                              *)
LEMMA LeaveKeeps ==
  ASSUME WebInv, Leave
  PROVE  WebInv'
<1>0. ApiOK
  BY DEF WebInv
<1>1. PICK to \in Entries : Load(to)
  BY DEF Leave
<1>2. /\ page' = To("blank", None) /\ nav' = Start(to)
      /\ request' = [r \in Slots |->
           IF request[r].status = "sent" THEN [request[r] EXCEPT !.by = "gone"] ELSE Free]
      /\ UNCHANGED <<sess, opened, secret, cookie>>
  BY <1>1 DEF Load
<1>3. /\ panel' = FirstState(page') /\ revoked' = {} /\ overlapped' = FALSE
      /\ legacyId' = legacyId /\ acts' \in 0..MaxActs
  BY ActOK DEF Leave, WebInv
<1>4. RouterOK'
  <2>1. PICK n : n = Start(to)
    OBVIOUS
  <2>2. NavOK(n)
    BY <2>1, EntryPages, StartOK
  <2> QED
    BY <1>2, <2>1, <2>2, EntryPages DEF RouterOK
<1>5. ASSUME NEW q \in Slots
      PROVE  /\ request'[q] # Free => CallOK(request'[q])
             /\ ~Mine(q)'
  <2>1. PICK o : o = request[q]
    OBVIOUS
  <2>2. CASE o.status = "sent"
    <3>1. CallOK(o)
      <4>1. Free.status = "free"
        BY DEF Free
      <4> QED
        BY <1>0, <2>1, <2>2, <4>1 DEF ApiOK
    <3>2. PICK x : x = [o EXCEPT !.by = "gone"]
      OBVIOUS
    <3>3. CallOK(x) /\ x.by = "gone"
      BY <3>1, <3>2, Handed
    <3>4. request'[q] = x
      BY <1>2, <2>1, <2>2, <3>2
    <3> QED
      BY <3>3, <3>4 DEF Mine
  <2>3. CASE o.status # "sent"
    BY <1>2, <2>1, <2>3 DEF Mine
  <2> QED
    BY <2>2, <2>3
<1>6. DOMAIN request' = Slots
  BY <1>2
<1> QED
  BY <1>2, <1>3, <1>4, <1>5, <1>6, NewPage

(* What a page asks for when it appears.                                     *)
LEMMA FirstCall ==
  ASSUME ApiOK, NEW to, NEW x, x = FirstRequest(to), x # Free
  PROVE  /\ CallOK(x) /\ x.by = "page" /\ x.status = "sent"
         /\ to.name = PageOf(x.op) /\ KindOf(x) = "none"
<1>1. CASE to.name = "/mfa/setup"
  <2>1. x = SentBy("mfa.setup", None, None, "page")
    BY <1>1 DEF FirstRequest, Sent
  <2>2. CallOK(x) /\ x.by = "page" /\ x.status = "sent" /\ x.op = "mfa.setup"
    BY <2>1, SentOK DEF Calls
  <2> QED
    BY <1>1, <2>2 DEF PageOf, KindOf, Submits
<1>2. CASE to.name = "/verify-email"
  <2>1. x = SentBy("verify-email", None, None, "page")
    BY <1>2 DEF FirstRequest, Sent
  <2>2. CallOK(x) /\ x.by = "page" /\ x.status = "sent" /\ x.op = "verify-email"
    BY <2>1, SentOK DEF Calls
  <2> QED
    BY <1>2, <2>2 DEF PageOf, KindOf, Submits
<1>3. CASE to.name = "/settings/security"
  <2>1. x = SentBy("sessions", "mount", None, "page")
    BY <1>3 DEF FirstRequest, Sent
  <2>2. CallOK(x) /\ x.by = "page" /\ x.status = "sent" /\ x.op = "sessions" /\ x.arg = "mount"
    BY <2>1, SentOK DEF Calls
  <2> QED
    BY <1>3, <2>2 DEF PageOf, KindOf, Submits
<1>4. CASE to.name \notin {"/mfa/setup", "/verify-email", "/settings/security"}
  BY <1>4 DEF FirstRequest
<1> QED
  BY <1>1, <1>2, <1>3, <1>4

(* A page takes the place of another in the document.                        *)
LEMMA MountKeeps ==
  ASSUME WebInv, MountPage, UNCHANGED acts
  PROVE  WebInv'
<1>0. ApiOK /\ RouterOK
  BY DEF WebInv
<1>1. PICK first : first = FirstRequest(nav.to)
  OBVIOUS
<1>2. /\ Decidable /\ Destination = nav.to /\ page' = nav.to /\ nav' = None
      /\ panel' = FirstState(page') /\ revoked' = {} /\ overlapped' = FALSE
      /\ UNCHANGED <<sess, opened, secret, cookie, legacyId>> /\ acts' \in 0..MaxActs
  BY DEF MountPage, MountableWith, WebInv
<1> DEFINE past == [r \in Slots |->
             IF request[r] # Free /\ request[r].by = "page"
             THEN [request[r] EXCEPT !.by = "past"] ELSE request[r]]
<1>3. \/ first = Free /\ request' = past
      \/ first # Free /\ \E r \in Slots : request' = [past EXCEPT ![r] = first]
  BY <1>1 DEF MountPage, MountableWith
<1>4. ASSUME NEW q \in Slots
      PROVE  past[q] # Free => CallOK(past[q]) /\ past[q].by # "page"
  <2>1. PICK o : o = request[q]
    OBVIOUS
  <2>2. CASE o # Free /\ o.by = "page"
    <3>1. PICK x : x = [o EXCEPT !.by = "past"]
      OBVIOUS
    <3>2. CallOK(o)
      BY <1>0, <2>1, <2>2 DEF ApiOK
    <3>3. CallOK(x) /\ x.by = "past"
      BY <3>1, <3>2, Handed
    <3>4. past[q] = x
      BY <2>1, <2>2, <3>1
    <3> QED
      BY <3>3, <3>4
  <2>3. CASE ~(o # Free /\ o.by = "page")
    <3>1. past[q] = o
      BY <2>1, <2>3
    <3>2. o # Free => CallOK(o)
      BY <1>0, <2>1 DEF ApiOK
    <3> QED
      BY <2>3, <3>1, <3>2
  <2> QED
    BY <2>2, <2>3
<1>5. nav.to \in PageType
  <2>1. NavOK(nav)
    BY <1>0, <1>2 DEF Decidable, RouterOK
  <2> QED
    BY <2>1 DEF NavOK
<1>6. RouterOK'
  BY <1>2, <1>5 DEF RouterOK
<1>7. DOMAIN past = Slots
  OBVIOUS
<1>8. CASE first = Free
  <2>1. request' = past
    BY <1>3, <1>8
  <2>2. DOMAIN request' = Slots
    BY <1>7, <2>1
  <2>3. \A q \in Slots : (request'[q] # Free => CallOK(request'[q])) /\ ~Mine(q)'
    BY <1>4, <2>1 DEF Mine
  <2> HIDE DEF past
  <2> QED
    BY <1>2, <1>6, <2>2, <2>3, NewPage
<1>9. CASE first # Free
  <2>1. PICK r \in Slots : request' = [past EXCEPT ![r] = first]
    BY <1>3, <1>9
  <2>2. \A q \in Slots : request'[q] = IF q = r THEN first ELSE past[q]
    BY <1>7, <2>1
  <2>3. DOMAIN request' = Slots
    BY <1>7, <2>1
  <2>4. /\ CallOK(first) /\ first.by = "page" /\ first.status = "sent"
        /\ nav.to.name = PageOf(first.op) /\ KindOf(first) = "none"
    <3>1. PICK to : to = nav.to
      OBVIOUS
    <3>2. first = FirstRequest(to)
      BY <1>1, <3>1
    <3> QED
      BY <1>0, <1>9, <3>1, <3>2, FirstCall
  <2> HIDE DEF past
  <2>5. \A q \in Slots : request'[q] # Free => CallOK(request'[q])
    BY <1>4, <2>2, <2>4
  <2>6. \A q \in Slots : Mine(q)' => q = r
    BY <1>4, <2>2 DEF Mine
  <2>7. \A q \in Slots : Mine(q)' =>
          /\ page'.name = PageOf(request'[q].op)
          /\ KindOf(request'[q]) = "none" /\ request'[q].status = "sent"
    BY <1>2, <2>2, <2>4, <2>6
  <2> QED
    BY <1>2, <1>6, <2>3, <2>5, <2>6, <2>7, NewPage
<1> QED
  BY <1>8, <1>9
-----------------------------------------------------------------------------
(* The flags of a form.                                                      *)
LEMMA FormFlags ==
  ASSUME NEW name \in FormPages, NEW p
  PROVE  \A kind \in Kinds : Flag(kind, name, p) <=> (kind = "form" /\ p.pending)
BY DEF Flag, FormPages, Kinds

(* The flags of the settings.                                                *)
LEMMA SecurityFlags ==
  ASSUME NEW p
  PROVE  \A kind \in Kinds : Flag(kind, "/settings/security", p) <=>
           (kind = "all" /\ p.revokingAll) \/ (kind = "change" /\ p.submitting)
BY DEF Flag, FormPages, Kinds

(* The panel of a form that was submitted, and one whose answer is there.    *)
LEMMA FormPanel ==
  ASSUME PanelOK, NEW name, name = page.name, name \in FormPages,
         NEW e, e \in BOOLEAN, NEW f, f \in BOOLEAN,
         NEW p, p = [panel EXCEPT !.pending = e, !.error = f]
  PROVE  p \in PanelType(name) /\ p.pending = e
<1>1. PICK x : x = panel
  OBVIOUS
<1>2. PICK B : B = BOOLEAN
  OBVIOUS
<1>3. PICK T : T = PanelType(name)
  OBVIOUS
<1>4. x \in T
  BY <1>1, <1>3 DEF PanelOK
<1>5. p = [x EXCEPT !.pending = e, !.error = f] /\ e \in B /\ f \in B
  BY <1>1, <1>2
<1>6. PICK C, D, E : C = Codes /\ D = 1..MaxSetups \cup {None} /\ E = Texts
  OBVIOUS
<1>7. \/ T = [pending : B, error : B] \/ T = [done : B, pending : B, error : B]
      \/ T = [code : C, recovery : B, pending : B, error : B]
      \/ T = [code : C, setup : D, loadError : B, copied : B, pending : B, error : B]
      \/ T = [password : E, confirm : E, pending : B, error : B]
      \/ T = [password : E, confirm : E, done : B, pending : B, error : B]
  BY <1>2, <1>3, <1>6 DEF PanelType, FormPages
<1>8. p \in T /\ p.pending = e
  <2>1. CASE T = [pending : B, error : B]
    <3>1. x \in [pending : B, error : B]
      BY <1>4, <2>1
    <3>2. p \in [pending : B, error : B] /\ p.pending = e
      BY <1>5, <3>1
    <3> QED
      BY <2>1, <3>2
  <2>2. CASE T = [done : B, pending : B, error : B]
    <3>1. x \in [done : B, pending : B, error : B]
      BY <1>4, <2>2
    <3>2. p \in [done : B, pending : B, error : B] /\ p.pending = e
      BY <1>5, <3>1
    <3> QED
      BY <2>2, <3>2
  <2>3. CASE T = [code : C, recovery : B, pending : B, error : B]
    <3>1. x \in [code : C, recovery : B, pending : B, error : B]
      BY <1>4, <2>3
    <3>2. p \in [code : C, recovery : B, pending : B, error : B] /\ p.pending = e
      BY <1>5, <3>1
    <3> QED
      BY <2>3, <3>2
  <2>4. CASE T = [code : C, setup : D, loadError : B, copied : B, pending : B, error : B]
    <3>1. x \in [code : C, setup : D, loadError : B, copied : B, pending : B, error : B]
      BY <1>4, <2>4
    <3>2. p \in [code : C, setup : D, loadError : B, copied : B, pending : B, error : B] /\ p.pending = e
      BY <1>5, <3>1
    <3> QED
      BY <2>4, <3>2
  <2>5. CASE T = [password : E, confirm : E, pending : B, error : B]
    <3>1. x \in [password : E, confirm : E, pending : B, error : B]
      BY <1>4, <2>5
    <3>2. p \in [password : E, confirm : E, pending : B, error : B] /\ p.pending = e
      BY <1>5, <3>1
    <3> QED
      BY <2>5, <3>2
  <2>6. CASE T = [password : E, confirm : E, done : B, pending : B, error : B]
    <3>1. x \in [password : E, confirm : E, done : B, pending : B, error : B]
      BY <1>4, <2>6
    <3>2. p \in [password : E, confirm : E, done : B, pending : B, error : B] /\ p.pending = e
      BY <1>5, <3>1
    <3> QED
      BY <2>6, <3>2
  <2> QED
    BY <1>7, <2>1, <2>2, <2>3, <2>4, <2>5, <2>6
<1> QED
  BY <1>3, <1>8

(* A form that is submitted.                                                 *)
LEMMA AskedPanel ==
  ASSUME PanelOK, page.name \in FormPages,
         NEW p, p = [panel EXCEPT !.pending = TRUE, !.error = FALSE]
  PROVE  p \in PanelType(page.name) /\ p.pending
<1> DEFINE yes == TRUE
           no == FALSE
<1>1. yes \in BOOLEAN /\ no \in BOOLEAN /\ yes
  OBVIOUS
<1>2. p = [panel EXCEPT !.pending = yes, !.error = no]
  OBVIOUS
<1> HIDE DEF yes, no
<1>3. PICK name : name = page.name
  OBVIOUS
<1>4. p \in PanelType(name) /\ p.pending = yes
  BY <1>1, <1>2, <1>3, FormPanel
<1> QED
  BY <1>1, <1>3, <1>4

(* A form whose answer is there.                                             *)
LEMMA SettledPanel ==
  ASSUME PanelOK, page.name \in FormPages, NEW r, NEW p, p = Settled(r)
  PROVE  p \in PanelType(page.name) /\ ~p.pending
<1> DEFINE no == FALSE
<1>1. no \in BOOLEAN /\ ~no
  OBVIOUS
<1>2. PICK f : f = ~Ok(r)
  OBVIOUS
<1>3. f \in BOOLEAN
  BY <1>2 DEF Ok
<1>4. p = [panel EXCEPT !.pending = no, !.error = f]
  BY <1>2 DEF Settled
<1> HIDE DEF no
<1>5. PICK name : name = page.name
  OBVIOUS
<1>6. p \in PanelType(name) /\ p.pending = no
  BY <1>1, <1>3, <1>4, <1>5, FormPanel
<1> QED
  BY <1>1, <1>5, <1>6

(* The page a call belongs to.                                               *)
LEMMA FormCalls ==
  \A op \in Submits : /\ PageOf(op) \in FormPages /\ op \in Calls /\ op \notin ListCalls
                      /\ op # "sessions"
                      /\ \A q : q.op = op => KindOf(q) = "form"
BY DEF Submits, PageOf, FormPages, Calls, ListCalls, KindOf

(* A form is submitted.                                                      *)
LEMMA SubmitKeeps ==
  ASSUME WebInv, NEW op \in Submits, PageOf(op) = page.name, ~panel.pending,
         NEW arg, NEW next,
         Ask(op, arg, next, [panel EXCEPT !.pending = TRUE, !.error = FALSE]),
         op \in {"oauth.start", "oauth.callback", "recovery", "login", "mfa.verify"}
           => next \in NextType,
         op = "mfa.verify" => arg \in Named,
         UNCHANGED securityVars, acts' \in 0..MaxActs
  PROVE  WebInv'
<1>1. PICK p : p = [panel EXCEPT !.pending = TRUE, !.error = FALSE]
  OBVIOUS
<1>2. page.name \in FormPages /\ op \in Calls \ {"sessions"} /\ \A q : q.op = op => KindOf(q) = "form"
  BY FormCalls
<1>3. p \in PanelType(page.name) /\ p.pending
  BY <1>1, <1>2, AskedPanel DEF WebInv
<1>4. \A kind \in Kinds :
        IF kind = "form" THEN ~Flag(kind, page.name, panel) /\ Flag(kind, page.name, p)
        ELSE Flag(kind, page.name, p) <=> Flag(kind, page.name, panel)
  BY <1>2, <1>3, FormFlags
<1>5. page.name # "/settings/security" /\ op \notin {"mfa.code", "revoke"}
  BY <1>2 DEF FormPages, Submits
<1>6. Ask(op, arg, next, p)
  BY <1>1
<1> QED
  BY <1>2, <1>3, <1>4, <1>5, <1>6, AskKeeps

(* The page that waits for an answer.                                        *)
LEMMA OwnPage ==
  ASSUME WebInv, NEW r \in Slots, NEW op, Arrived(r, op), request[r].by = "page"
  PROVE  page.name = PageOf(op)
<1>1. request[r] # Free /\ request[r].op = op
  BY ArrivedCall DEF WebInv
<1> QED
  BY <1>1 DEF WebInv, PanelOK, Mine

(* The answer to a form.                                                     *)
LEMMA SettleKeeps ==
  ASSUME WebInv, NEW r \in Slots, NEW op \in Submits, Arrived(r, op), NEW p,
         NEW push, push = None \/ push \in PageType, Resume(r, p, push, Free),
         request[r].by = "page" => p \in PanelType(page.name) /\ ~p.pending,
         legacyId' \in Named, UNCHANGED <<securityVars, acts>>
  PROVE  WebInv'
<1>1. PICK o : o = request[r]
  OBVIOUS
<1>2. o.op = op /\ o # Free
  BY <1>1, ArrivedCall DEF WebInv
<1>3. KindOf(o) = "form" /\ PageOf(op) \in FormPages /\ op \notin ListCalls
  BY <1>2, FormCalls
<1>4. ASSUME o.by = "page"
      PROVE  p \in PanelType(page.name) /\ Moves(o, Free, p) /\ page.name # "/settings/security"
  <2>1. page.name \in FormPages
    BY <1>1, <1>3, <1>4, OwnPage
  <2>2. \A kind \in Kinds : Flag(kind, page.name, panel) <=> (kind = "form" /\ panel.pending)
    BY <2>1, FormFlags
  <2>3. \A kind \in Kinds : ~Flag(kind, page.name, p)
    BY <1>1, <1>4, <2>1, FormFlags
  <2>4. \A kind \in Kinds : (InKind(o, kind) <=> kind = "form") /\ ~InKind(Free, kind)
    BY <1>2, <1>3, <1>4 DEF InKind
  <2>5. Moves(o, Free, p)
    BY <2>2, <2>3, <2>4 DEF Moves
  <2> QED
    BY <1>1, <1>4, <2>1, <2>5 DEF FormPages
<1>5. PICK x : x = Free
  OBVIOUS
<1>6. Resume(r, p, push, x)
  BY <1>5
<1> QED
  BY <1>1, <1>3, <1>4, <1>5, <1>6, ResumeKeeps

(* An answer that no flag waits for.                                         *)
LEMMA PlainKeeps ==
  ASSUME WebInv, NEW r \in Slots, NEW op \in {"mfa.code", "mfa.setup", "verify-email"},
         Arrived(r, op), NEW p, NEW push, push = None \/ push \in PageType,
         Resume(r, p, push, Free),
         request[r].by = "page" => /\ p \in PanelType(page.name)
                                   /\ op # "verify-email" => p.pending = panel.pending,
         legacyId' \in Named, UNCHANGED <<securityVars, acts>>
  PROVE  WebInv'
<1>1. PICK o : o = request[r]
  OBVIOUS
<1>2. o.op = op /\ o # Free
  BY <1>1, ArrivedCall DEF WebInv
<1>3. KindOf(o) = "none" /\ op \notin ListCalls
      /\ PageOf(op) \in {"/mfa", "/mfa/setup", "/verify-email"}
  BY <1>2 DEF KindOf, Submits, ListCalls, PageOf
<1>4. ASSUME o.by = "page"
      PROVE  p \in PanelType(page.name) /\ Moves(o, Free, p) /\ page.name # "/settings/security"
  <2>1. page.name = PageOf(op)
    BY <1>1, <1>4, OwnPage
  <2>2. \A kind \in Kinds : Flag(kind, page.name, p) <=> Flag(kind, page.name, panel)
    <3>1. CASE op = "verify-email"
      BY <2>1, <3>1 DEF PageOf, Flag, FormPages, Kinds
    <3>2. CASE op # "verify-email"
      <4>1. page.name \in FormPages
        BY <2>1, <3>2 DEF PageOf, FormPages
      <4> QED
        BY <1>1, <1>4, <3>2, <4>1, FormFlags
    <3> QED
      BY <3>1, <3>2
  <2>3. \A kind \in Kinds : ~InKind(o, kind) /\ ~InKind(Free, kind)
    BY <1>3 DEF InKind, Kinds
  <2>4. Moves(o, Free, p)
    BY <2>2, <2>3 DEF Moves
  <2> QED
    BY <1>1, <1>3, <1>4, <2>1, <2>4
<1>5. PICK x : x = Free
  OBVIOUS
<1>6. Resume(r, p, push, x)
  BY <1>5
<1> QED
  BY <1>1, <1>3, <1>4, <1>5, <1>6, ResumeKeeps

(* Something is typed into a form.                                           *)
LEMMA TypedKeeps ==
  ASSUME WebInv, page.name \in FormPages, NEW p, Change(p), p \in PanelType(page.name),
         p.pending = panel.pending, UNCHANGED securityVars, acts' \in 0..MaxActs
  PROVE  WebInv'
<1>1. \A kind \in Kinds : Flag(kind, page.name, p) <=> Flag(kind, page.name, panel)
  BY FormFlags
<1>2. page.name # "/settings/security"
  BY DEF FormPages
<1> QED
  BY <1>1, <1>2, ChangeKeeps

(* The buttons that submit a form are enabled while it is not pending.       *)
LEMMA Enabled ==
  /\ LoginControls # {} => ~panel.pending
  /\ MfaControls # {} => ~panel.pending
  /\ "submit" \in MfaSetupControls => ~panel.pending
  /\ "submit" \in RegisterControls => ~panel.pending
  /\ ForgotPasswordControls # {} => ~panel.pending
  /\ SetupPasswordControls # {} => ~panel.pending
  /\ ResetPasswordControls # {} => ~panel.pending
<1>1. LoginControls # {} => ~panel.pending
  BY Zenon DEF LoginControls
<1>2. MfaControls # {} => ~panel.pending
  BY Zenon DEF MfaControls
<1>3. "submit" \in MfaSetupControls => ~panel.pending
  BY DEF MfaSetupControls
<1>4. "submit" \in RegisterControls => ~panel.pending
  BY DEF RegisterControls
<1>5. ForgotPasswordControls # {} => ~panel.pending
  BY Zenon DEF ForgotPasswordControls
<1>6. SetupPasswordControls # {} => ~panel.pending
  BY Zenon DEF SetupPasswordControls
<1>7. ResetPasswordControls # {} => ~panel.pending
  BY Zenon DEF ResetPasswordControls
<1> QED
  BY <1>1, <1>2, <1>3, <1>4, <1>5, <1>6, <1>7

(* One handler's submit, on its own page.                                    *)
LEMMA SubmitsKeep ==
  ASSUME WebInv, UNCHANGED securityVars, acts' \in 0..MaxActs,
         HandleOAuth \/ HandleLoginSubmit \/ MfaSubmit \/ MfaSetupSubmit \/ SubmitAddress
           \/ ResetPasswordSubmit
  PROVE  WebInv'
<1>0. /\ page.name \in {"/login", "/mfa"} => page.query \in NextType
      /\ legacyId \in Named
  BY QueryType DEF WebInv, RouterOK, ApiOK
<1> DEFINE asked == [panel EXCEPT !.pending = TRUE, !.error = FALSE]
<1>1. CASE HandleOAuth
  <2>1. page.name = "/login" /\ ~panel.pending /\ Ask("oauth.start", None, page.query, asked)
    BY <1>1, Enabled DEF HandleOAuth, On
  <2>2. "oauth.start" \in Submits /\ PageOf("oauth.start") = page.name
    BY <2>1 DEF Submits, PageOf
  <2> QED
    BY <1>0, <2>1, <2>2, SubmitKeeps
<1>2. CASE HandleLoginSubmit
  <2>1. PICK op \in {"recovery", "login"} : Ask(op, None, page.query, asked)
    BY <1>2 DEF HandleLoginSubmit
  <2>2. page.name = "/login" /\ ~panel.pending
    BY <1>2, Enabled DEF HandleLoginSubmit, On
  <2>3. op \in Submits /\ PageOf(op) = page.name
    BY <2>2 DEF Submits, PageOf
  <2> QED
    BY <1>0, <2>1, <2>2, <2>3, SubmitKeeps
<1>3. CASE MfaSubmit
  <2>1. page.name = "/mfa" /\ ~panel.pending /\ Ask("mfa.verify", legacyId, page.query, asked)
    BY <1>3, Enabled DEF MfaSubmit, On
  <2>2. "mfa.verify" \in Submits /\ PageOf("mfa.verify") = page.name
    BY <2>1 DEF Submits, PageOf
  <2> QED
    BY <1>0, <2>1, <2>2, SubmitKeeps
<1>4. CASE MfaSetupSubmit
  <2>1. page.name = "/mfa/setup" /\ ~panel.pending /\ Ask("mfa.setup.verify", None, None, asked)
    BY <1>4, Enabled DEF MfaSetupSubmit, On
  <2>2. "mfa.setup.verify" \in Submits /\ PageOf("mfa.setup.verify") = page.name
    BY <2>1 DEF Submits, PageOf
  <2> QED
    BY <2>1, <2>2, SubmitKeeps
<1>5. CASE SubmitAddress
  <2>1. ~panel.pending /\ page.name \in {"/register", "/forgot-password"}
    BY <1>5, Enabled DEF SubmitAddress, On
  <2>2. PICK op \in {"register", "forgot-password"} :
          Ask(op, None, None, asked) /\ op = IF page.name = "/register" THEN "register" ELSE "forgot-password"
    BY <1>5 DEF SubmitAddress, On
  <2>3. op \in Submits /\ PageOf(op) = page.name
    BY <2>1, <2>2 DEF Submits, PageOf
  <2> QED
    BY <2>1, <2>2, <2>3, SubmitKeeps
<1>6. CASE ResetPasswordSubmit
  <2>1. page.name = "/reset-password" /\ ~panel.pending /\ Ask("reset-password", None, None, asked)
    BY <1>6, Enabled DEF ResetPasswordSubmit, On
  <2>2. "reset-password" \in Submits /\ PageOf("reset-password") = page.name
    BY <2>1 DEF Submits, PageOf
  <2> QED
    BY <2>1, <2>2, SubmitKeeps
<1> QED
  BY <1>1, <1>2, <1>3, <1>4, <1>5, <1>6

(* The answers to the forms that end with Settled and push or do not.        *)
LEMMA AnswersKeep ==
  ASSUME WebInv, UNCHANGED <<securityVars, acts>>, NEW r \in Slots,
         OAuthCalledBack(r) \/ LoginAnswered(r) \/ MfaVerified(r) \/ MfaSetupVerified(r)
           \/ PasswordSetUp(r)
  PROVE  WebInv'
<1> DEFINE lands(op, push) ==
             /\ op \in Submits /\ Arrived(r, op) /\ (push = None \/ push \in PageType)
             /\ Resume(r, Settled(r), push, Free) /\ legacyId' \in Named
<1>1. ASSUME NEW op, NEW push, lands(op, push) PROVE WebInv'
  <2>1. PICK p : p = Settled(r)
    OBVIOUS
  <2>2. Resume(r, p, push, Free)
    BY <1>1, <2>1
  <2>3. request[r].by = "page" => page.name \in FormPages
    BY <1>1, OwnPage, FormCalls
  <2>4. request[r].by = "page" => p \in PanelType(page.name) /\ ~p.pending
    BY <2>1, <2>3, SettledPanel DEF WebInv
  <2> QED
    BY <1>1, <2>2, <2>4, SettleKeeps
<1>2. legacyId \in Named /\ None \in Named
  BY DEF WebInv, ApiOK, Named
<1>3. ASSUME NEW op, Arrived(r, op),
             op \in {"oauth.start", "oauth.callback", "recovery", "login", "mfa.verify"}
      PROVE  request[r].next \in NextType
  <2>1. PICK q : q = request[r]
    OBVIOUS
  <2>2. q.op = op /\ ArgOK(q)
    BY <1>3, <2>1, ArrivedCall DEF WebInv
  <2>3. q.next \in NextType
    BY <1>3, <2>2 DEF ArgOK
  <2> QED
    BY <2>1, <2>3
<1>10. ASSUME NEW op \in {"recovery", "login"}, Arrived(r, op), Ok(r)
       PROVE  request[r].value.id \in Named
  <2>1. PICK v : v = request[r].value
    OBVIOUS
  <2>2. ValueOK(op, v)
    BY <1>10, <2>1, ArrivedCall DEF WebInv
  <2>3. v.id \in Named
    BY <2>2 DEF ValueOK, Named
  <2> QED
    BY <2>1, <2>3
<1>4. CASE OAuthCalledBack(r)
  <2>1. request[r].next \in NextType
    BY <1>3, <1>4 DEF OAuthCalledBack
  <2>2. PICK push : push = IF Ok(r) THEN To("/mfa", request[r].next) ELSE None
    OBVIOUS
  <2>3. push = None \/ push \in PageType
    BY <2>1, <2>2, Pushed
  <2>4. lands("oauth.callback", push)
    BY <1>2, <1>4, <2>2, <2>3 DEF OAuthCalledBack, Submits
  <2> QED
    BY <2>4, <1>1
<1>5. CASE LoginAnswered(r)
  <2>1. PICK op \in {"recovery", "login"} : Arrived(r, op)
    BY <1>5 DEF LoginAnswered
  <2>2. op \in Submits /\ request[r].next \in NextType
    BY <1>3, <2>1 DEF Submits
  <2>3. CASE Ok(r)
    <3>1. request[r].value.id \in Named
      BY <1>10, <2>1, <2>3
    <3>2. PICK push : push = LoginTarget(request[r].value.state, request[r].next)
      OBVIOUS
    <3>3. push \in PageType
      BY <2>2, <3>2, Pushed DEF LoginTarget
    <3>4. lands(op, push)
      BY <1>5, <2>1, <2>2, <2>3, <3>1, <3>2, <3>3 DEF LoginAnswered
    <3> QED
      BY <3>4, <1>1
  <2>4. CASE ~Ok(r)
    <3>1. lands(op, None)
      BY <1>2, <1>5, <2>1, <2>2, <2>4 DEF LoginAnswered
    <3> QED
      BY <3>1, <1>1
  <2> QED
    BY <2>3, <2>4
<1>6. CASE MfaVerified(r)
  <2>1. request[r].next \in NextType
    BY <1>3, <1>6 DEF MfaVerified
  <2>2. PICK push : push = IF Ok(r) THEN NextPath(request[r].next) ELSE None
    OBVIOUS
  <2>3. push = None \/ push \in PageType
    BY <2>1, <2>2, Pushed
  <2>4. lands("mfa.verify", push)
    BY <1>2, <1>6, <2>2, <2>3 DEF MfaVerified, Submits
  <2> QED
    BY <2>4, <1>1
<1>7. /\ To("/dashboard", None) \in PageType /\ To("/mfa/setup", None) \in PageType
  BY Pushed DEF NextType
<1>8. CASE MfaSetupVerified(r)
  <2>1. PICK push : push = IF Ok(r) THEN To("/dashboard", None) ELSE None
    OBVIOUS
  <2>2. lands("mfa.setup.verify", push)
    BY <1>2, <1>7, <1>8, <2>1 DEF MfaSetupVerified, Submits
  <2> QED
    BY <2>2, <1>1
<1>9. CASE PasswordSetUp(r)
  <2>1. PICK push : push = IF Ok(r) THEN To("/mfa/setup", None) ELSE None
    OBVIOUS
  <2>2. lands("setup-password", push)
    BY <1>2, <1>7, <1>9, <2>1 DEF PasswordSetUp, Submits
  <2> QED
    BY <2>2, <1>1
<1> QED
  BY <1>4, <1>5, <1>6, <1>8, <1>9

(* Only the text that says a form is done changes.                           *)
LEMMA DoneKept ==
  ASSUME NEW name, name \in {"/register", "/forgot-password", "/reset-password"},
         NEW x, x \in PanelType(name), NEW g, g \in BOOLEAN, NEW p, p = [x EXCEPT !.done = g]
  PROVE  p \in PanelType(name) /\ p.pending = x.pending
<1>1. PICK B, E, T : B = BOOLEAN /\ E = Texts /\ T = PanelType(name)
  OBVIOUS
<1>2. \/ T = [done : B, pending : B, error : B]
      \/ T = [password : E, confirm : E, done : B, pending : B, error : B]
  BY <1>1 DEF PanelType
<1>3. x \in T /\ g \in B
  BY <1>1
<1>4. CASE T = [done : B, pending : B, error : B]
  <2>1. x \in [done : B, pending : B, error : B]
    BY <1>3, <1>4
  <2>2. p \in [done : B, pending : B, error : B] /\ p.pending = x.pending
    BY <1>3, <2>1
  <2> QED
    BY <1>1, <1>4, <2>2
<1>5. CASE T = [password : E, confirm : E, done : B, pending : B, error : B]
  <2>1. x \in [password : E, confirm : E, done : B, pending : B, error : B]
    BY <1>3, <1>5
  <2>2. /\ p \in [password : E, confirm : E, done : B, pending : B, error : B]
        /\ p.pending = x.pending
    BY <1>3, <2>1
  <2> QED
    BY <1>1, <1>5, <2>2
<1> QED
  BY <1>2, <1>4, <1>5

(* The answers that give way to a text, and the step from the first request  *)
(* of OAuth to the second.                                                   *)
LEMMA DoneAnswersKeep ==
  ASSUME WebInv, UNCHANGED <<securityVars, acts>>, NEW r \in Slots,
         Registered(r) \/ PasswordReset(r) \/ Forgotten(r)
  PROVE  WebInv'
<1>0. legacyId \in Named
  BY DEF WebInv, ApiOK
<1> DEFINE yes == TRUE
           no == FALSE
<1>1. yes \in BOOLEAN /\ no \in BOOLEAN /\ yes /\ ~no
  OBVIOUS
<1>2. PICK g : g = Ok(r)
  OBVIOUS
<1>3. g \in BOOLEAN
  BY <1>2 DEF Ok
<1>4. CASE Registered(r) \/ PasswordReset(r)
  <2>1. PICK s : s = Settled(r)
    OBVIOUS
  <2>2. PICK p : p = [s EXCEPT !.done = g]
    OBVIOUS
  <2>3. PICK op \in {"register", "reset-password"} : Arrived(r, op) /\ Resume(r, p, None, Free)
    BY <1>2, <1>4, <2>1, <2>2 DEF Registered, PasswordReset
  <2>4. op \in Submits
    BY DEF Submits
  <2>5. ASSUME request[r].by = "page" PROVE p \in PanelType(page.name) /\ ~p.pending
    <3>1. page.name \in {"/register", "/forgot-password", "/reset-password"}
      BY <2>3, <2>5, OwnPage DEF PageOf
    <3>2. s \in PanelType(page.name) /\ ~s.pending
      BY <2>1, <3>1, SettledPanel DEF WebInv, FormPages
    <3> QED
      BY <1>3, <2>2, <3>1, <3>2, DoneKept
  <2>6. legacyId' = legacyId
    BY <1>4 DEF Registered, PasswordReset
  <2> QED
    BY <1>0, <2>3, <2>4, <2>5, <2>6, SettleKeeps
<1>5. CASE Forgotten(r)
  <2>1. PICK s : s = [panel EXCEPT !.pending = no]
    OBVIOUS
  <2>2. PICK p : p = [s EXCEPT !.done = yes]
    OBVIOUS
  <2>3. Arrived(r, "forgot-password") /\ Resume(r, p, None, Free) /\ legacyId' = legacyId
    BY <1>5, <2>1, <2>2 DEF Forgotten
  <2>4. "forgot-password" \in Submits
    BY DEF Submits
  <2>5. ASSUME request[r].by = "page" PROVE p \in PanelType(page.name) /\ ~p.pending
    <3>1. PICK name : name = page.name
      OBVIOUS
    <3>2. name = "/forgot-password"
      BY <2>3, <2>5, <3>1, OwnPage DEF PageOf
    <3>3. PICK x, B : x = panel /\ B = BOOLEAN
      OBVIOUS
    <3>4. PanelType(name) = [done : B, pending : B, error : B]
      BY <3>2, <3>3 DEF PanelType
    <3>5. x \in PanelType(name)
      BY <3>1, <3>3 DEF WebInv, PanelOK
    <3>6. x \in [done : B, pending : B, error : B] /\ s = [x EXCEPT !.pending = no] /\ no \in B
      BY <1>1, <2>1, <3>3, <3>4, <3>5
    <3> HIDE DEF no, yes
    <3>7. s \in [done : B, pending : B, error : B] /\ s.pending = no
      BY <3>6
    <3>8. s \in PanelType(name) /\ ~s.pending
      BY <1>1, <3>4, <3>7
    <3>9. p \in PanelType(name) /\ p.pending = s.pending
      BY <1>1, <2>2, <3>2, <3>8, DoneKept
    <3> QED
      BY <3>1, <3>8, <3>9
  <2> QED
    BY <1>0, <2>3, <2>4, <2>5, SettleKeeps
<1> QED
  BY <1>4, <1>5

(* The first of the two requests of OAuth is answered.                       *)
LEMMA OAuthKeeps ==
  ASSUME WebInv, UNCHANGED <<securityVars, acts>>, NEW r \in Slots, OAuthStarted(r)
  PROVE  WebInv'
<1>1. Arrived(r, "oauth.start") /\ legacyId' = legacyId
  BY DEF OAuthStarted
<1>2. legacyId \in Named /\ panel \in PanelType(page.name)
  BY DEF WebInv, ApiOK, PanelOK
<1>3. PICK o : o = request[r]
  OBVIOUS
<1>4. /\ o # Free /\ o.op = "oauth.start" /\ o.by \in {"page", "past"} /\ o.next \in NextType
  <2>1. o # Free /\ o.op = "oauth.start" /\ o.by \in {"page", "past"} /\ ArgOK(o)
    BY <1>1, <1>3, ArrivedCall DEF WebInv
  <2> QED
    BY <2>1 DEF ArgOK
<1>5. CASE ~Ok(r)
  <2>1. PICK p : p = Settled(r)
    OBVIOUS
  <2>2. Resume(r, p, None, Free)
    BY <1>5, <2>1 DEF OAuthStarted
  <2>3. "oauth.start" \in Submits
    BY DEF Submits
  <2>4. request[r].by = "page" => page.name \in FormPages
    BY <1>1, <2>3, OwnPage, FormCalls
  <2>5. request[r].by = "page" => p \in PanelType(page.name) /\ ~p.pending
    BY <2>1, <2>4, SettledPanel DEF WebInv
  <2> QED
    BY <1>1, <1>2, <2>2, <2>3, <2>5, SettleKeeps
<1>6. CASE Ok(r)
  <2>1. PICK x : x = SentBy("oauth.callback", None, o.next, o.by)
    OBVIOUS
  <2>2. Resume(r, panel, None, x)
    BY <1>3, <1>6, <2>1 DEF OAuthStarted, Then
  <2>3. "oauth.callback" \in Calls
    BY DEF Calls
  <2>4. CallOK(x) /\ x # Free /\ x.op = "oauth.callback" /\ x.by = o.by
    BY <1>4, <2>1, <2>3, SentOK DEF WebInv
  <2>5. KindOf(o) = "form" /\ KindOf(x) = "form"
    BY <1>4, <2>4 DEF KindOf, Submits
  <2>6. Moves(o, x, panel)
    BY <1>4, <2>4, <2>5 DEF Moves, InKind
  <2>7. PageOf("oauth.callback") = PageOf("oauth.start")
    BY DEF PageOf
  <2>8. "oauth.start" \notin ListCalls /\ "oauth.callback" \notin ListCalls
    BY DEF ListCalls
  <2>9. PICK p : p = panel
    OBVIOUS
  <2>10. Resume(r, p, None, x) /\ p \in PanelType(page.name) /\ Moves(request[r], x, p)
         /\ p.sessions = panel.sessions /\ p.error = panel.error
    BY <1>2, <1>3, <2>2, <2>6, <2>9
  <2> QED
    BY <1>1, <1>2, <1>3, <2>4, <2>7, <2>8, <2>10, ResumeKeeps
<1> QED
  BY <1>5, <1>6

(* What is typed into the panels leaves them of their type.                  *)
LEMMA MfaTyped ==
  ASSUME PanelOK, page.name = "/mfa", NEW c, c \in Codes, NEW e, e \in BOOLEAN,
         NEW v, v \in BOOLEAN, NEW p,
         \/ p = [panel EXCEPT !.code = c] \/ p = [panel EXCEPT !.error = e]
         \/ p = [panel EXCEPT !.code = c, !.error = e, !.recovery = v]
  PROVE  p \in PanelType(page.name) /\ p.pending = panel.pending
<1>1. PICK x, B, C, T : x = panel /\ B = BOOLEAN /\ C = Codes /\ T = PanelType(page.name)
  OBVIOUS
<1>2. T = [code : C, recovery : B, pending : B, error : B]
  BY <1>1 DEF PanelType
<1>3. x \in T
  BY <1>1 DEF PanelOK
<1>4. x \in [code : C, recovery : B, pending : B, error : B] /\ c \in C /\ e \in B /\ v \in B
  BY <1>1, <1>2, <1>3
<1>5. \/ p = [x EXCEPT !.code = c] \/ p = [x EXCEPT !.error = e]
      \/ p = [x EXCEPT !.code = c, !.error = e, !.recovery = v]
  BY <1>1
<1>6. p \in [code : C, recovery : B, pending : B, error : B] /\ p.pending = x.pending
  BY <1>4, <1>5
<1> QED
  BY <1>1, <1>2, <1>6

(* The same of the setup of the second factor.                               *)
LEMMA SetupTyped ==
  ASSUME PanelOK, page.name = "/mfa/setup", NEW c, c \in Codes, NEW e, e \in BOOLEAN,
         NEW n, n \in 1..MaxSetups \cup {None}, NEW p,
         \/ p = [panel EXCEPT !.code = c] \/ p = [panel EXCEPT !.error = e]
         \/ p = [panel EXCEPT !.copied = e] \/ p = [panel EXCEPT !.loadError = e]
         \/ p = [panel EXCEPT !.setup = n]
  PROVE  p \in PanelType(page.name) /\ p.pending = panel.pending
<1>1. PICK x, B, C, D, T : /\ x = panel /\ B = BOOLEAN /\ C = Codes
                           /\ D = 1..MaxSetups \cup {None} /\ T = PanelType(page.name)
  OBVIOUS
<1>2. T = [code : C, setup : D, loadError : B, copied : B, pending : B, error : B]
  BY <1>1 DEF PanelType
<1>3. x \in T
  BY <1>1 DEF PanelOK
<1>4. /\ x \in [code : C, setup : D, loadError : B, copied : B, pending : B, error : B]
      /\ c \in C /\ e \in B /\ n \in D
  BY <1>1, <1>2, <1>3
<1>5. \/ p = [x EXCEPT !.code = c] \/ p = [x EXCEPT !.error = e]
      \/ p = [x EXCEPT !.copied = e] \/ p = [x EXCEPT !.loadError = e]
      \/ p = [x EXCEPT !.setup = n]
  BY <1>1
<1>6. /\ p \in [code : C, setup : D, loadError : B, copied : B, pending : B, error : B]
      /\ p.pending = x.pending
  BY <1>4, <1>5
<1> QED
  BY <1>1, <1>2, <1>6

(* The same of the two panels with password fields.                          *)
LEMMA PasswordTyped ==
  ASSUME PanelOK, page.name \in {"/setup-password", "/reset-password"},
         NEW t, t \in Texts, NEW e, e \in BOOLEAN, NEW p,
         \/ p = [panel EXCEPT !.password = t] \/ p = [panel EXCEPT !.confirm = t]
         \/ p = [panel EXCEPT !.error = e]
  PROVE  p \in PanelType(page.name) /\ p.pending = panel.pending
<1>1. PICK x, B, E, T : x = panel /\ B = BOOLEAN /\ E = Texts /\ T = PanelType(page.name)
  OBVIOUS
<1>2. \/ T = [password : E, confirm : E, pending : B, error : B]
      \/ T = [password : E, confirm : E, done : B, pending : B, error : B]
  BY <1>1 DEF PanelType
<1>3. x \in T /\ t \in E /\ e \in B
  BY <1>1 DEF PanelOK
<1>4. \/ p = [x EXCEPT !.password = t] \/ p = [x EXCEPT !.confirm = t]
      \/ p = [x EXCEPT !.error = e]
  BY <1>1
<1>5. CASE T = [password : E, confirm : E, pending : B, error : B]
  <2>1. x \in [password : E, confirm : E, pending : B, error : B]
    BY <1>3, <1>5
  <2>2. p \in [password : E, confirm : E, pending : B, error : B] /\ p.pending = x.pending
    BY <1>3, <1>4, <2>1
  <2> QED
    BY <1>1, <1>5, <2>2
<1>6. CASE T = [password : E, confirm : E, done : B, pending : B, error : B]
  <2>1. x \in [password : E, confirm : E, done : B, pending : B, error : B]
    BY <1>3, <1>6
  <2>2. /\ p \in [password : E, confirm : E, done : B, pending : B, error : B]
        /\ p.pending = x.pending
    BY <1>3, <1>4, <2>1
  <2> QED
    BY <1>1, <1>6, <2>2
<1> QED
  BY <1>2, <1>5, <1>6

(* A full code is a code.                                                    *)
LEMMA FullIsCode == FullCodes \subseteq Codes
<1>1. CodeLength \in 0..CodeLength
  BY AuthPanelsAssumption
<1>2. [1..CodeLength -> Digits] \subseteq [1..CodeLength -> Digits \cup {Blank}]
  OBVIOUS
<1> QED
  BY <1>1, <1>2 DEF FullCodes, Codes

(* The code of a panel that has boxes.                                       *)
LEMMA PanelCode ==
  ASSUME PanelOK, page.name \in {"/mfa", "/mfa/setup"}
  PROVE  panel.code \in Codes
<1>1. PICK x, B, C, D, T : /\ x = panel /\ B = BOOLEAN /\ C = Codes
                           /\ D = 1..MaxSetups \cup {None} /\ T = PanelType(page.name)
  OBVIOUS
<1>2. \/ T = [code : C, recovery : B, pending : B, error : B]
      \/ T = [code : C, setup : D, loadError : B, copied : B, pending : B, error : B]
  BY <1>1 DEF PanelType
<1>3. x \in T
  BY <1>1 DEF PanelOK
<1>4. x.code \in C
  BY <1>2, <1>3
<1> QED
  BY <1>1, <1>4

(* The answers that no flag waits for.                                       *)
LEMMA LoadsKeep ==
  ASSUME WebInv, UNCHANGED <<securityVars, acts>>, NEW r \in Slots,
         DemoCodeLoaded(r) \/ SetupLoaded(r) \/ EmailVerified(r)
  PROVE  WebInv'
<1>0. legacyId \in Named /\ PanelOK /\ ApiOK
  BY DEF WebInv, ApiOK
<1>1. PICK yes : yes = TRUE
  OBVIOUS
<1>2. yes \in BOOLEAN
  BY <1>1
<1>3. CASE DemoCodeLoaded(r)
  <2>1. PICK value \in FullCodes :
          Resume(r, IF Ok(r) THEN [panel EXCEPT !.code = value]
                    ELSE [panel EXCEPT !.error = TRUE], None, Free)
    BY <1>3 DEF DemoCodeLoaded
  <2>2. PICK p : p = IF Ok(r) THEN [panel EXCEPT !.code = value] ELSE [panel EXCEPT !.error = yes]
    OBVIOUS
  <2>3. Resume(r, p, None, Free) /\ Arrived(r, "mfa.code") /\ legacyId' = legacyId
    BY <1>1, <1>3, <2>1, <2>2 DEF DemoCodeLoaded
  <2>4. ASSUME request[r].by = "page" PROVE p \in PanelType(page.name) /\ p.pending = panel.pending
    <3>1. page.name = "/mfa"
      BY <2>3, <2>4, OwnPage DEF PageOf
    <3>2. value \in Codes
      BY FullIsCode
    <3>3. p = [panel EXCEPT !.code = value] \/ p = [panel EXCEPT !.error = yes]
      BY <2>2
    <3> QED
      BY <1>0, <1>2, <3>1, <3>2, <3>3, MfaTyped
  <2> QED
    BY <1>0, <2>3, <2>4, PlainKeeps
<1>4. CASE SetupLoaded(r)
  <2>1. PICK p : p = IF Ok(r) THEN [panel EXCEPT !.setup = request[r].value]
                     ELSE [panel EXCEPT !.loadError = yes]
    OBVIOUS
  <2>2. Resume(r, p, None, Free) /\ Arrived(r, "mfa.setup") /\ legacyId' = legacyId
    BY <1>1, <1>4, <2>1 DEF SetupLoaded
  <2>3. ASSUME request[r].by = "page" PROVE p \in PanelType(page.name) /\ p.pending = panel.pending
    <3>1. page.name = "/mfa/setup"
      BY <2>2, <2>3, OwnPage DEF PageOf
    <3>2. CASE Ok(r)
      <4>1. PICK n : n = request[r].value
        OBVIOUS
      <4>2. ValueOK("mfa.setup", n)
        BY <1>0, <2>2, <3>2, <4>1, ArrivedCall
      <4>3. n \in 1..MaxSetups
        BY <4>2 DEF ValueOK
      <4>4. p = [panel EXCEPT !.setup = n]
        BY <2>1, <3>2, <4>1
      <4> QED
        BY <1>0, <1>2, <3>1, <4>3, <4>4, EmptyCode, SetupTyped
    <3>3. CASE ~Ok(r)
      <4>1. p = [panel EXCEPT !.loadError = yes]
        BY <2>1, <3>3
      <4> QED
        BY <1>0, <1>2, <3>1, <4>1, EmptyCode, SetupTyped
    <3> QED
      BY <3>2, <3>3
  <2> QED
    BY <1>0, <2>2, <2>3, PlainKeeps
<1>5. CASE EmailVerified(r)
  <2>1. PICK s, p, push :
          /\ s = IF Ok(r) THEN "success" ELSE "error"
          /\ p = [panel EXCEPT !.status = s]
          /\ push = IF Ok(r) THEN To("/setup-password", "token") ELSE None
    OBVIOUS
  <2>2. Resume(r, p, push, Free) /\ Arrived(r, "verify-email") /\ legacyId' = legacyId
    BY <1>5, <2>1 DEF EmailVerified
  <2>3. push = None \/ push \in PageType
    <3>1. None \in NextType
      BY DEF NextType
    <3> QED
      BY <2>1, <3>1, Pushed
  <2>4. ASSUME request[r].by = "page" PROVE p \in PanelType(page.name)
    <3>1. page.name = "/verify-email"
      BY <2>2, <2>4, OwnPage DEF PageOf
    <3>2. PICK x : x = panel
      OBVIOUS
    <3>3. PanelType(page.name) = [status : {"loading", "success", "error"}]
      BY <3>1 DEF PanelType
    <3>4. x \in [status : {"loading", "success", "error"}] /\ p = [x EXCEPT !.status = s]
      BY <1>0, <2>1, <3>2, <3>3 DEF PanelOK
    <3>5. p \in [status : {"loading", "success", "error"}]
      BY <2>1, <3>4
    <3> QED
      BY <3>3, <3>5
  <2> QED
    BY <1>0, <2>2, <2>3, <2>4, PlainKeeps
<1> QED
  BY <1>3, <1>4, <1>5

(* Typing, and the buttons that send nothing.                                *)
LEMMA TypingKeeps ==
  ASSUME WebInv, UNCHANGED securityVars, acts' \in 0..MaxActs,
         MfaType \/ ToggleRecoveryMode \/ MfaSetupType \/ CopyAllCodes \/ RegisterAgain
           \/ TypePassword
  PROVE  WebInv'
<1>0. PanelOK /\ (page.name \in {"/mfa", "/mfa/setup"} => panel.code \in Codes)
  BY PanelCode DEF WebInv
<1>1. ASSUME NEW p, Change(p), page.name \in FormPages,
             p \in PanelType(page.name) /\ p.pending = panel.pending
      PROVE  WebInv'
  BY <1>1, TypedKeeps
<1>2. PICK yes, no : yes = TRUE /\ no = FALSE
  OBVIOUS
<1>3. yes \in BOOLEAN /\ no \in BOOLEAN
  BY <1>2
<1>4. \A i \in 1..CodeLength, d \in Digits \cup {None} : panel.code \in Codes =>
        UpdateDigit(panel.code, i, d) \in Codes
  BY DigitUpdated
<1>5. CASE MfaType
  <2>1. page.name = "/mfa" /\ page.name \in FormPages
    BY <1>5 DEF MfaType, On, FormPages
  <2>2. PICK c \in Codes : Change([panel EXCEPT !.code = c])
    <3>1. CASE \E i \in 1..CodeLength, d \in Digits \cup {None} :
                 Change([panel EXCEPT !.code = UpdateDigit(@, i, d)])
      BY <1>0, <1>4, <2>1, <3>1
    <3>2. CASE \E text \in FullCodes \cup {<<>>} : Change([panel EXCEPT !.code = text])
      BY <3>2, FullIsCode, EmptyCode
    <3> QED
      BY <1>5, <3>1, <3>2 DEF MfaType
  <2>3. PICK p : p = [panel EXCEPT !.code = c]
    OBVIOUS
  <2>4. p \in PanelType(page.name) /\ p.pending = panel.pending
    BY <1>0, <1>3, <2>1, <2>3, MfaTyped
  <2> QED
    BY <1>1, <2>1, <2>2, <2>3, <2>4
<1>6. CASE ToggleRecoveryMode
  <2>1. page.name = "/mfa" /\ page.name \in FormPages
    BY <1>6 DEF ToggleRecoveryMode, On, FormPages
  <2>2. PICK v : v = ~panel.recovery
    OBVIOUS
  <2>3. v \in BOOLEAN
    BY <2>2
  <2>4. PICK p : p = [panel EXCEPT !.code = <<>>, !.error = no, !.recovery = v]
    OBVIOUS
  <2>5. Change(p)
    BY <1>2, <1>6, <2>2, <2>4 DEF ToggleRecoveryMode
  <2>6. p \in PanelType(page.name) /\ p.pending = panel.pending
    BY <1>0, <1>3, <2>1, <2>3, <2>4, EmptyCode, MfaTyped
  <2> QED
    BY <1>1, <2>1, <2>5, <2>6
<1>7. CASE MfaSetupType
  <2>1. page.name = "/mfa/setup" /\ page.name \in FormPages
    BY <1>7 DEF MfaSetupType, On, FormPages
  <2>2. PICK c \in Codes : Change([panel EXCEPT !.code = c])
    BY <1>0, <1>4, <1>7, <2>1 DEF MfaSetupType
  <2>3. PICK p : p = [panel EXCEPT !.code = c]
    OBVIOUS
  <2>4. p \in PanelType(page.name) /\ p.pending = panel.pending
    BY <1>0, <1>3, <2>1, <2>3, SetupTyped
  <2> QED
    BY <1>1, <2>1, <2>2, <2>3, <2>4
<1>8. CASE CopyAllCodes
  <2>1. page.name = "/mfa/setup" /\ page.name \in FormPages
    BY <1>8 DEF CopyAllCodes, On, FormPages
  <2>2. PICK p : /\ Change(p)
                 /\ \/ p = [panel EXCEPT !.copied = yes] \/ p = [panel EXCEPT !.error = yes]
                    \/ p = [panel EXCEPT !.copied = no]
    BY <1>2, <1>8 DEF CopyAllCodes
  <2>3. p \in PanelType(page.name) /\ p.pending = panel.pending
    BY <1>0, <1>3, <2>1, <2>2, EmptyCode, SetupTyped
  <2> QED
    BY <1>1, <2>1, <2>2, <2>3
<1>9. CASE RegisterAgain
  <2>1. page.name = "/register" /\ page.name \in FormPages
    BY <1>9 DEF RegisterAgain, On, FormPages
  <2>2. PICK p : p = [panel EXCEPT !.done = no]
    OBVIOUS
  <2>3. Change(p)
    BY <1>2, <1>9, <2>2 DEF RegisterAgain
  <2>4. PICK name, x : name = page.name /\ x = panel
    OBVIOUS
  <2>5. x \in PanelType(name) /\ name \in {"/register", "/forgot-password", "/reset-password"}
        /\ p = [x EXCEPT !.done = no]
    BY <1>0, <2>1, <2>2, <2>4 DEF PanelOK
  <2>6. p \in PanelType(name) /\ p.pending = x.pending
    BY <1>3, <2>5, DoneKept
  <2> QED
    BY <1>1, <2>1, <2>3, <2>4, <2>6
<1>10. CASE TypePassword
  <2>1. page.name \in {"/setup-password", "/reset-password"} /\ page.name \in FormPages
    BY <1>10 DEF TypePassword, On, FormPages
  <2>2. PICK t \in Texts : \E p : /\ Change(p)
                                  /\ \/ p = [panel EXCEPT !.password = t]
                                     \/ p = [panel EXCEPT !.confirm = t]
    BY <1>10 DEF TypePassword
  <2>3. PICK p : /\ Change(p)
                 /\ p = [panel EXCEPT !.password = t] \/ p = [panel EXCEPT !.confirm = t]
    BY <2>2
  <2>4. p \in PanelType(page.name) /\ p.pending = panel.pending
    BY <1>0, <1>3, <2>1, <2>3, PasswordTyped
  <2> QED
    BY <1>1, <2>1, <2>3, <2>4
<1> QED
  BY <1>5, <1>6, <1>7, <1>8, <1>9, <1>10

(* setup-password-panel.tsx validates first.                                 *)
LEMMA SetupPasswordKeeps ==
  ASSUME WebInv, UNCHANGED securityVars, acts' \in 0..MaxActs, SetupPasswordSubmit
  PROVE  WebInv'
<1>1. page.name = "/setup-password" /\ page.name \in FormPages /\ ~panel.pending
  BY Enabled DEF SetupPasswordSubmit, On, FormPages
<1>2. CASE Ask("setup-password", None, None, [panel EXCEPT !.pending = TRUE, !.error = FALSE])
  <2>1. "setup-password" \in Submits /\ PageOf("setup-password") = page.name
    BY <1>1 DEF Submits, PageOf
  <2> QED
    BY <1>1, <1>2, <2>1, SubmitKeeps
<1>3. CASE Change([panel EXCEPT !.error = TRUE])
  <2>1. PICK yes : yes = TRUE
    OBVIOUS
  <2>2. yes \in BOOLEAN /\ NoText \in Texts /\ PanelOK
    BY <2>1 DEF Texts, WebInv
  <2>3. PICK p : p = [panel EXCEPT !.error = yes]
    OBVIOUS
  <2>4. p \in PanelType(page.name) /\ p.pending = panel.pending
    BY <1>1, <2>2, <2>3, PasswordTyped
  <2>5. Change(p)
    BY <1>3, <2>1, <2>3
  <2> QED
    BY <1>1, <2>4, <2>5, TypedKeeps
<1> QED
  BY <1>2, <1>3 DEF SetupPasswordSubmit

(* The demo code is asked for without a flag.                                *)
LEMMA LoadDemoKeeps ==
  ASSUME WebInv, UNCHANGED securityVars, acts' \in 0..MaxActs, LoadDemoCode
  PROVE  WebInv'
<1>1. page.name = "/mfa" /\ page.name \in FormPages /\ PageOf("mfa.code") = "/mfa"
  BY DEF LoadDemoCode, On, FormPages, PageOf
<1>2. PICK no, p : no = FALSE /\ p = [panel EXCEPT !.error = no]
  OBVIOUS
<1>3. Ask("mfa.code", legacyId, None, p)
  BY <1>2 DEF LoadDemoCode
<1>4. no \in BOOLEAN /\ PanelOK /\ legacyId \in Named
  BY <1>2 DEF WebInv, ApiOK
<1>5. p \in PanelType(page.name) /\ p.pending = panel.pending
  BY <1>1, <1>2, <1>4, EmptyCode, MfaTyped
<1>6. \A kind \in Kinds : Flag(kind, page.name, p) <=> Flag(kind, page.name, panel)
  BY <1>1, <1>5, FormFlags
<1>7. PICK k : k = "none"
  OBVIOUS
<1>8. /\ \A q : q.op = "mfa.code" => KindOf(q) = k
      /\ k \notin Kinds /\ "mfa.code" \in Calls \ {"sessions"}
  BY <1>7 DEF KindOf, Submits, Kinds, Calls
<1>9. \A kind \in Kinds :
        IF kind = k THEN ~Flag(kind, page.name, panel) /\ Flag(kind, page.name, p)
        ELSE Flag(kind, page.name, p) <=> Flag(kind, page.name, panel)
  BY <1>6, <1>8
<1> QED
  BY <1>1, <1>3, <1>4, <1>5, <1>8, <1>9, AskKeeps
-----------------------------------------------------------------------------
(* The state of the settings.                                                *)
Settings(B, S, I, T) ==
  [sessions : S, loading : B, revoking : I, revokingAll : B, error : B, current : B,
   password : T, confirm : T, submitting : B, done : B, changeError : B]

(* It is what the panel of that page holds.                                  *)
LEMMA SettingsType ==
  ASSUME PanelOK, page.name = "/settings/security"
  PROVE  /\ PanelType(page.name) =
              Settings(BOOLEAN, SUBSET SessionIds, SessionIds \cup {None}, Texts)
         /\ panel \in Settings(BOOLEAN, SUBSET SessionIds, SessionIds \cup {None}, Texts)
<1>1. PanelType(page.name) =
        Settings(BOOLEAN, SUBSET SessionIds, SessionIds \cup {None}, Texts)
  BY DEF PanelType, Settings
<1> QED
  BY <1>1 DEF PanelOK

(* What the buttons and fields of the settings do.                           *)
LEMMA SettingsKeep ==
  ASSUME WebInv, acts' \in 0..MaxActs, SecurityStep
  PROVE  WebInv'
<1>1. UNCHANGED securityVars /\ page.name = "/settings/security"
  BY DEF SecurityStep, HandleRevoke, HandleRevokeAll, TypeInChangePassword,
         ChangePasswordSubmit, SecurityPage, On
<1>2. PICK x, B, S, I, T, name :
        /\ x = panel /\ name = page.name /\ B = BOOLEAN /\ S = SUBSET SessionIds
        /\ I = SessionIds \cup {None} /\ T = Texts
  OBVIOUS
<1>3. PanelType(name) = Settings(B, S, I, T) /\ x \in Settings(B, S, I, T)
  BY <1>1, <1>2, SettingsType DEF WebInv
<1>4. PICK yes, no : yes = TRUE /\ no = FALSE
  OBVIOUS
<1>5. yes \in B /\ no \in B /\ NoText \in T /\ None \in I
  BY <1>2, <1>4 DEF Texts
<1>6. \A p : \A kind \in Kinds : Flag(kind, page.name, p) <=>
               (kind = "all" /\ p.revokingAll) \/ (kind = "change" /\ p.submitting)
  BY <1>1, SecurityFlags
<1>7. PageOf("revoke") = page.name /\ PageOf("revoke-all") = page.name
      /\ PageOf("change-password") = page.name
  BY <1>1 DEF PageOf
<1>8. /\ {"revoke", "revoke-all", "change-password"} \subseteq Calls \ {"sessions"}
      /\ \A q : /\ q.op = "revoke" => KindOf(q) = "none"
                /\ q.op = "revoke-all" => KindOf(q) = "all"
                /\ q.op = "change-password" => KindOf(q) = "change"
      /\ "revoke" \in ListCalls /\ "revoke-all" \in ListCalls
  BY DEF Calls, KindOf, Submits, ListCalls
<1>9. CASE HandleRevokeAll
  <2>1. PICK p : p = [x EXCEPT !.revokingAll = yes, !.error = no]
    OBVIOUS
  <2>2. Ask("revoke-all", None, None, p)
    BY <1>2, <1>4, <1>9, <2>1 DEF HandleRevokeAll
  <2>3. /\ p \in Settings(B, S, I, T) /\ p.sessions = x.sessions /\ p.revokingAll = yes
        /\ p.submitting = x.submitting
    BY <1>3, <1>5, <2>1 DEF Settings
  <2>4. ~panel.revokingAll
    BY <1>9 DEF HandleRevokeAll, RevokeAllEnabled
  <2>5. PICK k : k = "all"
    OBVIOUS
  <2>6. \A kind \in Kinds :
          IF kind = k THEN ~Flag(kind, page.name, panel) /\ Flag(kind, page.name, p)
          ELSE Flag(kind, page.name, p) <=> Flag(kind, page.name, panel)
    BY <1>2, <1>4, <1>6, <2>3, <2>4, <2>5
  <2>7. p \in PanelType(page.name) /\ p.sessions = panel.sessions
    BY <1>2, <1>3, <2>3
  <2>8. \A q : q.op = "revoke-all" => KindOf(q) = k
    BY <1>8, <2>5
  <2> QED
    BY <1>1, <1>7, <1>8, <2>2, <2>6, <2>7, <2>8, AskKeeps
<1>10. CASE ChangePasswordSubmit
  <2>1. PICK p : p = [x EXCEPT !.submitting = yes, !.changeError = no, !.done = no]
    OBVIOUS
  <2>2. Ask("change-password", None, None, p)
    BY <1>2, <1>4, <1>10, <2>1 DEF ChangePasswordSubmit
  <2>3. /\ p \in Settings(B, S, I, T) /\ p.sessions = x.sessions /\ p.error = x.error
        /\ p.revokingAll = x.revokingAll /\ p.submitting = yes
    BY <1>3, <1>5, <2>1 DEF Settings
  <2>4. ~panel.submitting
    BY <1>10 DEF ChangePasswordSubmit, CanSubmit
  <2>5. PICK k : k = "change"
    OBVIOUS
  <2>6. \A kind \in Kinds :
          IF kind = k THEN ~Flag(kind, page.name, panel) /\ Flag(kind, page.name, p)
          ELSE Flag(kind, page.name, p) <=> Flag(kind, page.name, panel)
    BY <1>2, <1>4, <1>6, <2>3, <2>4, <2>5
  <2>7. p \in PanelType(page.name) /\ p.sessions = panel.sessions /\ p.error = panel.error
    BY <1>2, <1>3, <2>3
  <2>8. \A q : q.op = "change-password" => KindOf(q) = k
    BY <1>8, <2>5
  <2> QED
    BY <1>1, <1>7, <1>8, <2>2, <2>6, <2>7, <2>8, AskKeeps
<1>11. CASE TypeInChangePassword
  <2>1. PICK current \in BOOLEAN, password \in Texts, confirm \in Texts :
          Change([panel EXCEPT !.current = current, !.password = password, !.confirm = confirm])
    BY <1>11 DEF TypeInChangePassword
  <2>2. PICK e : e = current
    OBVIOUS
  <2>3. PICK p : p = [x EXCEPT !.current = e, !.password = password, !.confirm = confirm]
    OBVIOUS
  <2>4. Change(p) /\ e \in B
    BY <1>2, <2>1, <2>2, <2>3
  <2>5. /\ p \in Settings(B, S, I, T) /\ p.sessions = x.sessions /\ p.error = x.error
        /\ p.revokingAll = x.revokingAll /\ p.submitting = x.submitting
    BY <1>2, <1>3, <2>3, <2>4 DEF Settings
  <2>6. \A kind \in Kinds : Flag(kind, page.name, p) <=> Flag(kind, page.name, panel)
    BY <1>2, <1>6, <2>5
  <2>7. p \in PanelType(page.name) /\ p.sessions = panel.sessions /\ p.error = panel.error
    BY <1>2, <1>3, <2>5
  <2> QED
    BY <1>1, <2>4, <2>6, <2>7, ChangeKeeps
<1>12. ASSUME NEW s \in SessionIds, HandleRevoke(s) PROVE WebInv'
  <2>1. PICK p : p = [x EXCEPT !.revoking = s, !.error = no]
    OBVIOUS
  <2>2. Ask("revoke", s, None, p)
    BY <1>2, <1>4, <1>12, <2>1 DEF HandleRevoke
  <2>3. s \in I
    BY <1>2
  <2>4. /\ p \in Settings(B, S, I, T) /\ p.sessions = x.sessions
        /\ p.revokingAll = x.revokingAll /\ p.submitting = x.submitting
    BY <1>3, <1>5, <2>1, <2>3 DEF Settings
  <2>5. PICK k : k = "none"
    OBVIOUS
  <2>6. k \notin Kinds
    BY <2>5 DEF Kinds
  <2>7. \A kind \in Kinds :
          IF kind = k THEN ~Flag(kind, page.name, panel) /\ Flag(kind, page.name, p)
          ELSE Flag(kind, page.name, p) <=> Flag(kind, page.name, panel)
    BY <1>2, <1>6, <2>4, <2>6
  <2>8. p \in PanelType(page.name) /\ p.sessions = panel.sessions
    BY <1>2, <1>3, <2>4
  <2>9. \A q : q.op = "revoke" => KindOf(q) = k
    BY <1>8, <2>5
  <2> QED
    BY <1>1, <1>7, <1>8, <2>2, <2>7, <2>8, <2>9, AskKeeps
<1> QED
  BY <1>9, <1>10, <1>11, <1>12 DEF SecurityStep

(* The answer to the change of the password.                                 *)
LEMMA ChangedKeeps ==
  ASSUME WebInv, NEW r \in Slots, PasswordChanged(r), UNCHANGED acts
  PROVE  WebInv'
<1>1. /\ Arrived(r, "change-password") /\ legacyId' = legacyId
      /\ UNCHANGED <<securityVars, acts>>
  BY DEF PasswordChanged
<1>2. PICK o, x, yes, no : o = request[r] /\ x = panel /\ yes = TRUE /\ no = FALSE
  OBVIOUS
<1>3. PICK p : p = IF Ok(r)
                   THEN [x EXCEPT !.submitting = no, !.done = yes, !.current = no,
                                  !.password = NoText, !.confirm = NoText]
                   ELSE [x EXCEPT !.submitting = no, !.changeError = yes]
  OBVIOUS
<1>4. Resume(r, p, None, Free)
  BY <1>2, <1>3 DEF PasswordChanged
<1>5. o # Free /\ o.op = "change-password" /\ legacyId \in Named
  BY <1>1, <1>2, ArrivedCall DEF WebInv, ApiOK
<1>6. KindOf(o) = "change" /\ "change-password" \notin ListCalls
  BY <1>5 DEF KindOf, Submits, ListCalls
<1>7. ASSUME o.by = "page"
      PROVE  /\ p \in PanelType(page.name) /\ Moves(o, Free, p)
             /\ p.sessions = panel.sessions /\ p.error = panel.error
  <2>1. page.name = "/settings/security"
    BY <1>1, <1>2, <1>7, OwnPage DEF PageOf
  <2>2. PICK B, S, I, T, name :
          /\ name = page.name /\ B = BOOLEAN /\ S = SUBSET SessionIds
          /\ I = SessionIds \cup {None} /\ T = Texts
    OBVIOUS
  <2>3. PanelType(name) = Settings(B, S, I, T) /\ x \in Settings(B, S, I, T)
    BY <1>2, <2>1, <2>2, SettingsType DEF WebInv
  <2>4. yes \in B /\ no \in B /\ NoText \in T
    BY <1>2, <2>2 DEF Texts
  <2>5. \/ p = [x EXCEPT !.submitting = no, !.changeError = yes]
        \/ p = [x EXCEPT !.submitting = no, !.done = yes, !.current = no,
                         !.password = NoText, !.confirm = NoText]
    BY <1>3
  <2>6. /\ p \in Settings(B, S, I, T) /\ p.sessions = x.sessions /\ p.error = x.error
        /\ p.revokingAll = x.revokingAll /\ p.submitting = no
    BY <2>3, <2>4, <2>5 DEF Settings
  <2>7. \A y : \A kind \in Kinds : Flag(kind, page.name, y) <=>
                 (kind = "all" /\ y.revokingAll) \/ (kind = "change" /\ y.submitting)
    BY <2>1, SecurityFlags
  <2>8. \A kind \in Kinds : (InKind(o, kind) <=> kind = "change") /\ ~InKind(Free, kind)
    BY <1>5, <1>6, <1>7 DEF InKind
  <2>9. Moves(o, Free, p)
    BY <1>2, <2>6, <2>7, <2>8 DEF Moves, Kinds
  <2> QED
    BY <1>2, <2>2, <2>3, <2>6, <2>9
<1>8. PICK free : free = Free
  OBVIOUS
<1>9. Resume(r, p, None, free)
  BY <1>4, <1>8
<1> QED
  BY <1>1, <1>2, <1>5, <1>6, <1>7, <1>8, <1>9, ResumeKeeps

(* The history of the settings, when one of its own answers is there: either *)
(* nothing more is asked for, or the list is asked for again.                *)
LEMMA ListsAnswered ==
  ASSUME ListsOK, UNCHANGED <<sess, opened>>, DOMAIN request = Slots,
         NEW r \in Slots, NEW o, o = request[r], o # Free, o.by = "page", NEW x, NEW v,
         request' = [request EXCEPT ![r] = x],
         \/ /\ x = Free /\ UNCHANGED securityVars
            /\ panel'.error \/ (/\ o.op = "sessions" /\ o.status = "ok"
                                /\ panel'.sessions = o.value)
         \/ /\ x # Free /\ x.op = "sessions" /\ x.by = "page" /\ x.status = "sent"
            /\ revoked' = revoked \cup v /\ v \subseteq Drawn /\ \A s \in v : sess[s] = None
            /\ overlapped' = (overlapped \/ Awaited("sessions") # {})
  PROVE  ListsOK'
<1>1. \A q \in Slots : request'[q] = IF q = r THEN x ELSE request[q]
  OBVIOUS
<1>2. revoked' \subseteq Drawn' /\ overlapped' \in BOOLEAN /\ \A s \in revoked' : sess'[s] = None
  BY DEF ListsOK, Drawn, securityVars
<1>3. CASE x = Free
  <2>1. \A q \in Slots : Mine(q)' => q # r /\ Mine(q) /\ request'[q] = request[q]
    BY <1>1, <1>3 DEF Mine
  <2>2. UNCHANGED securityVars
    BY <1>3
  <2>3. ASSUME ~overlapped
        PROVE  /\ \A p, q \in Slots : Mine(p) /\ request[p].op = "sessions"
                                      /\ Mine(q) /\ request[q].op = "sessions" => p = q
               /\ \A q \in Slots : Mine(q) /\ request[q].op = "sessions" /\ request[q].status = "ok"
                                      => request[q].value \cap revoked = {}
    BY <2>3 DEF ListsOK
  <2>4. ASSUME ~overlapped', NEW p \in Slots, NEW q \in Slots, Mine(p)', request'[p].op = "sessions",
               Mine(q)', request'[q].op = "sessions"
        PROVE  p = q
    BY <2>1, <2>2, <2>3, <2>4 DEF securityVars
  <2>5. ASSUME ~overlapped', NEW q \in Slots, Mine(q)', request'[q].op = "sessions",
               request'[q].status = "ok"
        PROVE  request'[q].value \cap revoked' = {}
    BY <2>1, <2>2, <2>3, <2>5 DEF securityVars
  <2>6. ASSUME ~overlapped', ~panel'.error PROVE panel'.sessions \cap revoked' = {}
    <3>1. o.op = "sessions" /\ o.status = "ok" /\ panel'.sessions = o.value
      BY <1>3, <2>6
    <3>2. Mine(r)
      BY DEF Mine
    <3>3. o.value \cap revoked = {}
      BY <2>2, <2>3, <2>6, <3>1, <3>2 DEF securityVars
    <3> QED
      BY <2>2, <3>1, <3>3 DEF securityVars
  <2> QED
    BY <1>2, <2>4, <2>5, <2>6 DEF ListsOK
<1>4. CASE x # Free
  <2>1. overlapped' = (overlapped \/ Awaited("sessions") # {})
    BY <1>4
  <2>2. ASSUME ~overlapped', NEW q \in Slots, Mine(q)', request'[q].op = "sessions" PROVE q = r
    <3>1. q \notin Awaited("sessions")
      BY <2>1, <2>2
    <3> QED
      BY <1>1, <2>2, <3>1 DEF Mine, Awaited
  <2>3. Mine(r)' /\ request'[r].op = "sessions" /\ request'[r].status = "sent"
    BY <1>1, <1>4 DEF Mine
  <2>4. ~Quiet'
    BY <2>3 DEF Quiet
  <2> QED
    BY <1>2, <2>2, <2>3, <2>4 DEF ListsOK
<1> QED
  BY <1>3, <1>4

(* The settings of a page that waits for an answer.                          *)
LEMMA OwnSettings ==
  ASSUME WebInv, NEW r \in Slots, NEW op, Arrived(r, op), request[r].by = "page",
         PageOf(op) = "/settings/security"
  PROVE  /\ page.name = "/settings/security"
         /\ PanelType(page.name) =
              Settings(BOOLEAN, SUBSET SessionIds, SessionIds \cup {None}, Texts)
         /\ panel \in Settings(BOOLEAN, SUBSET SessionIds, SessionIds \cup {None}, Texts)
         /\ \A y : \A kind \in Kinds : Flag(kind, page.name, y) <=>
              (kind = "all" /\ y.revokingAll) \/ (kind = "change" /\ y.submitting)
<1>1. page.name = "/settings/security"
  BY OwnPage
<1> QED
  BY <1>1, SettingsType, SecurityFlags DEF WebInv

(* The parts of WebInv about the settings, when one of their answers is      *)
(* there.                                                                    *)
LEMMA ListAnswerKeeps ==
  ASSUME WebInv, NEW r \in Slots, NEW op \in ListCalls, Arrived(r, op), NEW p,
         NEW x, x = Free \/ (CallOK(x) /\ x.op = "sessions" /\ x.status = "sent"
                             /\ x.by = request[r].by),
         Resume(r, p, None, x), legacyId' = legacyId, acts' = acts,
         request[r].by = "page" => p \in PanelType(page.name) /\ Moves(request[r], x, p),
         request[r].by # "page" => UNCHANGED securityVars,
         request[r].by = "page" => ListsOK'
  PROVE  WebInv'
<1>1. legacyId' \in Named /\ ListsOK /\ sess \in [SessionIds -> SessType] /\ acts' \in 0..MaxActs
  BY DEF WebInv, ApiOK
<1>2. x # Free => x.by = request[r].by /\ PageOf(x.op) = PageOf(op)
  BY DEF PageOf, ListCalls
<1>3. x = Free \/ CallOK(x)
  OBVIOUS
<1>4. request[r].by = "page" => p \in PanelType(page.name) /\ Moves(request[r], x, p)
  OBVIOUS
<1>5. /\ ApiOK' /\ Fades /\ RouterOK' /\ PanelOK' /\ FlagsOK'
      /\ DOMAIN request = Slots /\ page' = page /\ sess' = sess
  BY <1>1, <1>2, <1>3, <1>4, ResumeBase
<1>6. CASE request[r].by # "page"
  <2>1. PICK o : o = request[r]
    OBVIOUS
  <2>2. ~OfList(o) /\ ~OfList(x)
    BY <1>6, <2>1 DEF OfList
  <2>3. request' = [request EXCEPT ![r] = x] /\ panel' = panel /\ UNCHANGED securityVars
    BY <1>6 DEF Resume
  <2>4. ListsOK'
    BY <1>1, <1>5, <2>1, <2>2, <2>3, ListsStep
  <2> QED
    BY <1>1, <1>5, <2>4 DEF WebInv
<1>7. CASE request[r].by = "page"
  BY <1>1, <1>5, <1>7 DEF WebInv
<1> QED
  BY <1>6, <1>7

(* A session was revoked, or all others were.                                *)
LEMMA RevokedKeeps ==
  ASSUME WebInv, NEW r \in Slots, RevokeAnswered(r), UNCHANGED acts
  PROVE  WebInv'
<1>1. PICK op \in {"revoke", "revoke-all"} : Arrived(r, op)
  BY DEF RevokeAnswered
<1>2. PICK o, v : o = request[r] /\ v = request[r].value
  OBVIOUS
<1>3. /\ o # Free /\ o.op = op /\ o.by \in {"page", "past"} /\ op \in ListCalls
      /\ PageOf(op) = "/settings/security"
      /\ KindOf(o) = IF op = "revoke-all" THEN "all" ELSE "none"
  <2>1. o # Free /\ o.op = op /\ o.by \in {"page", "past"}
    BY <1>1, <1>2, ArrivedCall DEF WebInv
  <2> QED
    BY <2>1 DEF ListCalls, PageOf, KindOf, Submits
<1>4. /\ ApiOK /\ ListsOK /\ DOMAIN request = Slots /\ legacyId' = legacyId
  BY DEF WebInv, ApiOK, RevokeAnswered
<1>5. PICK x, yes, no : x = panel /\ yes = TRUE /\ no = FALSE
  OBVIOUS
<1>6. PICK B, S, I, T, name :
        /\ name = page.name /\ B = BOOLEAN /\ S = SUBSET SessionIds
        /\ I = SessionIds \cup {None} /\ T = Texts
  OBVIOUS
<1>7. ASSUME o.by = "page"
      PROVE  /\ PanelType(name) = Settings(B, S, I, T) /\ x \in Settings(B, S, I, T)
             /\ \A y : \A kind \in Kinds : Flag(kind, page.name, y) <=>
                  (kind = "all" /\ y.revokingAll) \/ (kind = "change" /\ y.submitting)
  BY <1>1, <1>2, <1>3, <1>5, <1>6, <1>7, OwnSettings
<1>8. yes \in B /\ no \in B /\ None \in I
  BY <1>5, <1>6
<1>9. CASE Ok(r)
  <2>1. PICK c : c = SentBy("sessions", op, o.next, o.by)
    OBVIOUS
  <2>2. PICK p : p = [x EXCEPT !.loading = yes, !.error = no]
    OBVIOUS
  <2>3. Resume(r, p, None, c)
    BY <1>1, <1>2, <1>3, <1>5, <1>9, <2>1, <2>2 DEF RevokeAnswered, Then
  <2>4. "sessions" \in Calls /\ op \in {"mount", "revoke", "revoke-all"}
    BY DEF Calls
  <2>5. CallOK(c) /\ c # Free /\ c.op = "sessions" /\ c.arg = op /\ c.by = o.by /\ c.status = "sent"
    BY <1>3, <1>4, <2>1, <2>4, SentOK
  <2>6. KindOf(c) = IF op = "revoke-all" THEN "all" ELSE "none"
    BY <2>5 DEF KindOf, Submits
  <2>7. ASSUME o.by = "page" PROVE p \in PanelType(page.name) /\ Moves(o, c, p)
    <3>1. /\ p \in Settings(B, S, I, T) /\ p.revokingAll = x.revokingAll
          /\ p.submitting = x.submitting
      BY <1>7, <1>8, <2>2, <2>7 DEF Settings
    <3>2. Moves(o, c, p)
      BY <1>3, <1>5, <1>7, <2>5, <2>6, <2>7, <3>1 DEF Moves, InKind
    <3> QED
      BY <1>6, <1>7, <2>7, <3>1, <3>2
  <2>8. ASSUME o.by = "page" PROVE ListsOK'
    <3>1. ValueOK(op, v)
      BY <1>1, <1>2, <1>4, <1>9, ArrivedCall
    <3>2. v \subseteq Drawn /\ \A s \in v : sess[s] = None
      BY <3>1 DEF ValueOK
    <3>3. revoked' = revoked \cup v /\ overlapped' = (overlapped \/ Awaited("sessions") # {})
      BY <1>2, <1>9, <2>8 DEF RevokeAnswered
    <3>4. request' = [request EXCEPT ![r] = c] /\ UNCHANGED <<sess, opened>>
      BY <2>3 DEF Resume
    <3> QED
      BY <1>2, <1>3, <1>4, <2>5, <2>8, <3>2, <3>3, <3>4, ListsAnswered
  <2>9. o.by # "page" => UNCHANGED securityVars
    BY <1>2, <1>9 DEF RevokeAnswered
  <2> QED
    BY <1>1, <1>2, <1>3, <1>4, <2>3, <2>5, <2>7, <2>8, <2>9, ListAnswerKeeps
<1>10. CASE ~Ok(r)
  <2>1. PICK p : p = IF op = "revoke" THEN [x EXCEPT !.revoking = None, !.error = yes]
                     ELSE [x EXCEPT !.revokingAll = no, !.error = yes]
    OBVIOUS
  <2>2. PICK c : c = Free
    OBVIOUS
  <2>3. UNCHANGED securityVars /\ Resume(r, [Finished(panel, request[r].op) EXCEPT !.error = TRUE], None, Free)
    BY <1>10 DEF RevokeAnswered
  <2>4. [Finished(x, op) EXCEPT !.error = yes] = p
    <3>1. CASE op = "revoke"
      BY <2>1, <3>1 DEF Finished
    <3>2. CASE op = "revoke-all"
      BY <1>5, <2>1, <3>2 DEF Finished
    <3> QED
      BY <3>1, <3>2
  <2>5. Resume(r, p, None, c)
    BY <1>2, <1>3, <1>5, <2>2, <2>3, <2>4
  <2>6. ASSUME o.by = "page"
        PROVE  /\ p \in Settings(B, S, I, T) /\ p.submitting = x.submitting /\ p.error = yes
               /\ p.revokingAll = IF op = "revoke-all" THEN no ELSE x.revokingAll
    <3>1. CASE op = "revoke"
      <4>1. p = [x EXCEPT !.revoking = None, !.error = yes]
        BY <2>1, <3>1
      <4>2. /\ p \in Settings(B, S, I, T) /\ p.submitting = x.submitting /\ p.error = yes
            /\ p.revokingAll = x.revokingAll
        BY <1>7, <1>8, <2>6, <4>1 DEF Settings
      <4> QED
        BY <3>1, <4>2
    <3>2. CASE op = "revoke-all"
      <4>1. p = [x EXCEPT !.revokingAll = no, !.error = yes]
        BY <2>1, <3>2
      <4>2. /\ p \in Settings(B, S, I, T) /\ p.submitting = x.submitting /\ p.error = yes
            /\ p.revokingAll = no
        BY <1>7, <1>8, <2>6, <4>1 DEF Settings
      <4> QED
        BY <3>2, <4>2
    <3> QED
      BY <3>1, <3>2
  <2>7. ASSUME o.by = "page" PROVE p \in PanelType(page.name) /\ Moves(o, c, p)
    <3>1. \A kind \in Kinds : (InKind(o, kind) <=> (kind = "all" /\ op = "revoke-all"))
                              /\ ~InKind(c, kind)
      BY <1>3, <2>2, <2>7 DEF InKind, Kinds
    <3>2. Moves(o, c, p)
      BY <1>5, <1>7, <2>6, <2>7, <3>1 DEF Moves
    <3> QED
      BY <1>6, <1>7, <2>6, <2>7, <3>2
  <2>8. ASSUME o.by = "page" PROVE ListsOK'
    <3>1. /\ request' = [request EXCEPT ![r] = c] /\ UNCHANGED <<sess, opened>>
          /\ panel' = p
      BY <1>2, <2>5, <2>8 DEF Resume
    <3>2. panel'.error
      BY <1>5, <2>6, <2>8, <3>1
    <3> QED
      BY <1>2, <1>3, <1>4, <2>2, <2>3, <2>8, <3>1, <3>2, ListsAnswered
  <2> QED
    BY <1>1, <1>2, <1>3, <1>4, <2>2, <2>3, <2>5, <2>7, <2>8, ListAnswerKeeps
<1> QED
  BY <1>9, <1>10

(* A list of sessions is there.                                              *)
LEMMA LoadedKeeps ==
  ASSUME WebInv, NEW r \in Slots, SessionsLoaded(r), UNCHANGED acts
  PROVE  WebInv'
<1>1. Arrived(r, "sessions") /\ legacyId' = legacyId /\ UNCHANGED securityVars
  BY DEF SessionsLoaded
<1>2. PICK o, v : o = request[r] /\ v = request[r].value
  OBVIOUS
<1>3. /\ o # Free /\ o.op = "sessions" /\ o.by \in {"page", "past"} /\ "sessions" \in ListCalls
      /\ o.arg \in {"mount", "revoke", "revoke-all"}
      /\ PageOf("sessions") = "/settings/security"
      /\ KindOf(o) = IF o.arg = "revoke-all" THEN "all" ELSE "none"
  <2>1. o # Free /\ o.op = "sessions" /\ o.by \in {"page", "past"} /\ ArgOK(o)
    BY <1>1, <1>2, ArrivedCall DEF WebInv
  <2>2. o.arg \in {"mount", "revoke", "revoke-all"}
    BY <2>1 DEF ArgOK
  <2> QED
    BY <2>1, <2>2 DEF ListCalls, PageOf, KindOf, Submits
<1>4. ApiOK /\ ListsOK /\ DOMAIN request = Slots
  BY DEF WebInv, ApiOK
<1>5. PICK x, yes, no : x = panel /\ yes = TRUE /\ no = FALSE
  OBVIOUS
<1>6. PICK B, S, I, T, name :
        /\ name = page.name /\ B = BOOLEAN /\ S = SUBSET SessionIds
        /\ I = SessionIds \cup {None} /\ T = Texts
  OBVIOUS
<1>7. ASSUME o.by = "page"
      PROVE  /\ PanelType(name) = Settings(B, S, I, T) /\ x \in Settings(B, S, I, T)
             /\ \A y : \A kind \in Kinds : Flag(kind, page.name, y) <=>
                  (kind = "all" /\ y.revokingAll) \/ (kind = "change" /\ y.submitting)
  BY <1>1, <1>2, <1>3, <1>5, <1>6, <1>7, OwnSettings
<1>8. yes \in B /\ no \in B /\ None \in I
  BY <1>5, <1>6
<1>9. PICK a, c : a = [x EXCEPT !.loading = no] /\ c = Free
  OBVIOUS
<1>10. PICK b : b = IF o.arg = "revoke" THEN [a EXCEPT !.revoking = None]
                    ELSE IF o.arg = "revoke-all" THEN [a EXCEPT !.revokingAll = no] ELSE a
  OBVIOUS
<1>11. b = Finished(a, o.arg)
  BY <1>5, <1>10 DEF Finished
<1>12. PICK p : p = IF Ok(r) THEN [b EXCEPT !.sessions = v] ELSE [b EXCEPT !.error = yes]
  OBVIOUS
<1>13. Resume(r, p, None, c)
  BY <1>2, <1>5, <1>9, <1>11, <1>12 DEF SessionsLoaded
<1>14. ASSUME o.by = "page"
       PROVE  /\ b \in Settings(B, S, I, T) /\ b.submitting = x.submitting
              /\ b.revokingAll = IF o.arg = "revoke-all" THEN no ELSE x.revokingAll
  <2>1. a \in Settings(B, S, I, T) /\ a.submitting = x.submitting /\ a.revokingAll = x.revokingAll
    BY <1>7, <1>8, <1>9, <1>14 DEF Settings
  <2>2. CASE o.arg = "revoke"
    <3>1. b = [a EXCEPT !.revoking = None]
      BY <1>10, <2>2
    <3>2. b \in Settings(B, S, I, T) /\ b.submitting = a.submitting /\ b.revokingAll = a.revokingAll
      BY <1>8, <2>1, <3>1 DEF Settings
    <3> QED
      BY <2>1, <2>2, <3>2
  <2>3. CASE o.arg = "revoke-all"
    <3>1. b = [a EXCEPT !.revokingAll = no]
      BY <1>10, <2>3
    <3>2. b \in Settings(B, S, I, T) /\ b.submitting = a.submitting /\ b.revokingAll = no
      BY <1>8, <2>1, <3>1 DEF Settings
    <3> QED
      BY <2>1, <2>3, <3>2
  <2>4. CASE o.arg = "mount"
    BY <1>10, <2>1, <2>4
  <2> QED
    BY <1>3, <2>2, <2>3, <2>4
<1>15. Ok(r) => v \in SUBSET Drawn
  <2>1. Ok(r) => ValueOK("sessions", v)
    BY <1>1, <1>2, <1>4, ArrivedCall
  <2> QED
    BY <2>1 DEF ValueOK
<1>16. ASSUME o.by = "page"
       PROVE  /\ p \in Settings(B, S, I, T) /\ p.submitting = x.submitting
              /\ p.revokingAll = IF o.arg = "revoke-all" THEN no ELSE x.revokingAll
              /\ IF Ok(r) THEN p.sessions = v ELSE p.error = yes
  <2>1. CASE Ok(r)
    <3>1. p = [b EXCEPT !.sessions = v]
      BY <1>12, <2>1
    <3>2. v \in S
      BY <1>6, <1>15, <2>1 DEF Drawn
    <3>3. /\ p \in Settings(B, S, I, T) /\ p.submitting = b.submitting
          /\ p.revokingAll = b.revokingAll /\ p.sessions = v
      BY <1>14, <1>16, <3>1, <3>2 DEF Settings
    <3> QED
      BY <1>14, <1>16, <2>1, <3>3
  <2>2. CASE ~Ok(r)
    <3>1. p = [b EXCEPT !.error = yes]
      BY <1>12, <2>2
    <3>2. /\ p \in Settings(B, S, I, T) /\ p.submitting = b.submitting
          /\ p.revokingAll = b.revokingAll /\ p.error = yes
      BY <1>8, <1>14, <1>16, <3>1 DEF Settings
    <3> QED
      BY <1>14, <1>16, <2>2, <3>2
  <2> QED
    BY <2>1, <2>2
<1>17. ASSUME o.by = "page" PROVE p \in PanelType(page.name) /\ Moves(o, c, p)
  <2>1. \A kind \in Kinds : (InKind(o, kind) <=> (kind = "all" /\ o.arg = "revoke-all"))
                            /\ ~InKind(c, kind)
    BY <1>3, <1>9, <1>17 DEF InKind, Kinds
  <2>2. Moves(o, c, p)
    BY <1>5, <1>7, <1>16, <1>17, <2>1 DEF Moves
  <2> QED
    BY <1>6, <1>7, <1>16, <1>17, <2>2
<1>18. ASSUME o.by = "page" PROVE ListsOK'
  <2>1. /\ request' = [request EXCEPT ![r] = c] /\ UNCHANGED <<sess, opened>> /\ panel' = p
    BY <1>2, <1>13, <1>18 DEF Resume
  <2>2. panel'.error \/ (o.op = "sessions" /\ o.status = "ok" /\ panel'.sessions = o.value)
    BY <1>2, <1>3, <1>5, <1>16, <1>18, <2>1 DEF Ok
  <2> QED
    BY <1>1, <1>2, <1>3, <1>4, <1>9, <1>18, <2>1, <2>2, ListsAnswered
<1> QED
  BY <1>1, <1>2, <1>3, <1>9, <1>13, <1>17, <1>18, ListAnswerKeeps

-----------------------------------------------------------------------------
(* The invariant of a browser tab.                                           *)
LEMMA WebInit ==
  ASSUME Init
  PROVE  WebInv
<1>1. PICK held \in {None, "pre_mfa", "mfa_setup", "authenticated"} :
        /\ cookie = (IF held = None THEN None ELSE 1)
        /\ opened = IF held = "authenticated" THEN 1 + Cardinality(Devices) ELSE 1
        /\ sess = [s \in SessionIds |->
             IF s > opened \/ held = None THEN None
             ELSE [store |-> "db", state |-> IF s = 1 THEN held ELSE "authenticated"]]
  BY DEF Init
<1>2. MaxSessions \in Nat /\ MaxSetups \in Nat /\ SessionIds = 1..MaxSessions
  BY AuthApiAssumption DEF SessionIds
<1>3. Cardinality(Devices) \in Nat /\ 1 + Cardinality(Devices) <= MaxSessions
  BY WebAuthAssumption, FS_CardinalityType
<1>4. opened \in 0..MaxSessions /\ 1 \in Drawn
  BY <1>1, <1>2, <1>3 DEF Drawn
<1>5. sess \in [SessionIds -> SessType]
  <2>1. \A s \in SessionIds : sess[s] \in SessType
    <3>1. ASSUME NEW s \in SessionIds PROVE sess[s] \in SessType
      <4>1. CASE s > opened \/ held = None
        BY <1>1, <4>1 DEF SessType
      <4>2. CASE ~(s > opened \/ held = None)
        <5>1. PICK state : state = IF s = 1 THEN held ELSE "authenticated"
          OBVIOUS
        <5>2. state \in {"pre_mfa", "mfa_setup", "authenticated"}
          BY <4>2, <5>1
        <5>3. sess[s] = [store |-> "db", state |-> state]
          BY <1>1, <4>2, <5>1
        <5> QED
          BY <5>2, <5>3 DEF SessType
      <4> QED
        BY <4>1, <4>2
    <3> QED
      BY <3>1
  <2> QED
    BY <1>1, <2>1
<1>6. \A s \in SessionIds : s > opened => sess[s] = None
  BY <1>1
<1>7. /\ secret = 0 /\ page = To("blank", None) /\ panel = FirstState(page) /\ legacyId = None
      /\ revoked = {} /\ overlapped = FALSE /\ acts = 0 /\ MaxActs \in Nat
      /\ DOMAIN request = Slots /\ \A r \in Slots : request[r] = Free
  BY WebAuthAssumption DEF Init
<1>8. ApiOK
  BY <1>1, <1>2, <1>4, <1>5, <1>6, <1>7 DEF ApiOK, Named
<1>9. RouterOK
  BY <1>7, EntryPages, StartOK DEF RouterOK, Init
<1>10. \A r \in Slots : ~Mine(r)
  BY <1>7 DEF Mine
<1>11. PanelOK /\ FlagsOK
  BY <1>7, <1>10, FirstStateOK DEF PanelOK, FlagsOK, Pend
<1>12. ListsOK
  BY <1>7, <1>10 DEF ListsOK
<1> QED
  BY <1>7, <1>8, <1>9, <1>11, <1>12 DEF WebInv

(* A step of nothing.                                                        *)
LEMMA WebStays ==
  ASSUME WebInv, UNCHANGED vars
  PROVE  WebInv'
<1>1. /\ UNCHANGED <<apiVars, legacyId>> /\ page' = page /\ nav' = nav /\ panel' = panel
      /\ revoked' = revoked /\ overlapped' = overlapped /\ acts' = acts
      /\ request' = request /\ sess' = sess /\ opened' = opened
  BY DEF vars, apiVars, routerVars, panelVars, securityVars
<1>2. ApiOK'
  BY <1>1, ApiSame DEF WebInv
<1>3. RouterOK'
  BY <1>1 DEF WebInv, RouterOK, NavOK
<1>4. PanelOK'
  BY <1>1 DEF WebInv, PanelOK, Mine
<1>5. FlagsOK'
  <2>1. \A kind \in Kinds : Pend(kind)' = Pend(kind)
    BY <1>1 DEF Pend, Mine
  <2> QED
    BY <1>1, <2>1 DEF WebInv, FlagsOK
<1>6. ListsOK'
  <2>1. \A q \in Slots : Mine(q)' <=> Mine(q)
    BY <1>1 DEF Mine
  <2>2. Quiet' <=> Quiet
    BY <1>1, <2>1 DEF Quiet
  <2> QED
    BY <1>1, <2>1, <2>2 DEF WebInv, ListsOK, Drawn
<1> QED
  BY <1>1, <1>2, <1>3, <1>4, <1>5, <1>6 DEF WebInv

(* Any answer.                                                               *)
LEMMA ContinueKeeps ==
  ASSUME WebInv, NEW r \in Slots, Continue(r), UNCHANGED acts
  PROVE  WebInv'
<1>1. CASE /\ UNCHANGED securityVars
           /\ OAuthCalledBack(r) \/ LoginAnswered(r) \/ MfaVerified(r) \/ MfaSetupVerified(r)
                \/ PasswordSetUp(r)
  BY <1>1, AnswersKeep
<1>2. CASE UNCHANGED securityVars /\ (DemoCodeLoaded(r) \/ SetupLoaded(r) \/ EmailVerified(r))
  BY <1>2, LoadsKeep
<1>3. CASE UNCHANGED securityVars /\ (Registered(r) \/ PasswordReset(r) \/ Forgotten(r))
  BY <1>3, DoneAnswersKeep
<1>4. CASE UNCHANGED securityVars /\ OAuthStarted(r)
  BY <1>4, OAuthKeeps
<1>5. CASE RevokeAnswered(r)
  BY <1>5, RevokedKeeps
<1>6. CASE SessionsLoaded(r)
  BY <1>6, LoadedKeeps
<1>7. CASE PasswordChanged(r)
  BY <1>7, ChangedKeeps
<1>8. CASE Dropped(r) /\ UNCHANGED securityVars
  BY <1>8, DroppedKeeps
<1> QED
  BY <1>1, <1>2, <1>3, <1>4, <1>5, <1>6, <1>7, <1>8 DEF Continue

(* Any step.                                                                 *)
LEMMA WebNext ==
  ASSUME WebInv, Next
  PROVE  WebInv'
<1>1. acts \in 0..MaxActs
  BY DEF WebInv
<1>2. CASE Leave
  BY <1>2, LeaveKeeps
<1>3. CASE GoBack
  BY <1>3, GoBackKeeps
<1>4. CASE PanelStep /\ IF request' = request THEN UNCHANGED acts ELSE Act
  <2>1. UNCHANGED securityVars
    BY <1>4 DEF PanelStep
  <2>2. acts' \in 0..MaxActs
    BY <1>1, <1>4, ActOK
  <2>3. CASE HandleOAuth \/ HandleLoginSubmit \/ MfaSubmit \/ MfaSetupSubmit \/ SubmitAddress
               \/ ResetPasswordSubmit
    BY <2>1, <2>2, <2>3, SubmitsKeep
  <2>4. CASE MfaType \/ ToggleRecoveryMode \/ MfaSetupType \/ CopyAllCodes \/ RegisterAgain
               \/ TypePassword
    BY <2>1, <2>2, <2>4, TypingKeeps
  <2>5. CASE SetupPasswordSubmit
    BY <2>1, <2>2, <2>5, SetupPasswordKeeps
  <2>6. CASE LoadDemoCode
    BY <2>1, <2>2, <2>6, LoadDemoKeeps
  <2> QED
    BY <1>4, <2>3, <2>4, <2>5, <2>6 DEF PanelStep
<1>5. CASE SecurityStep /\ Act
  BY <1>1, <1>5, ActOK, SettingsKeep
<1>6. CASE Route /\ UNCHANGED acts
  <2>1. CASE FetchSessionState /\ UNCHANGED <<panelVars, securityVars>>
    BY <1>6, <2>1, FetchKeeps
  <2>2. CASE RouterRedirects /\ UNCHANGED <<panelVars, securityVars>>
    BY <1>6, <2>2, RedirectKeeps
  <2>3. CASE MountPage
    BY <1>6, <2>3, MountKeeps
  <2> QED
    BY <1>6, <2>1, <2>2, <2>3 DEF Route
<1>7. CASE ApiStep /\ UNCHANGED acts
  <2>1. UNCHANGED <<routerVars, panelVars, securityVars, acts>>
    BY <1>7 DEF ApiStep
  <2>2. CASE SessionEnds
    BY <2>1, <2>2, SessionEndsKeeps
  <2>3. ASSUME NEW r \in Slots, Serve(r) PROVE WebInv'
    BY <2>1, <2>3, ServeKeeps
  <2> QED
    BY <1>7, <2>2, <2>3 DEF ApiStep
<1>8. ASSUME NEW r \in Slots, Continue(r), UNCHANGED acts PROVE WebInv'
  BY <1>8, ContinueKeeps
<1> QED
  BY <1>2, <1>3, <1>4, <1>5, <1>6, <1>7, <1>8 DEF Next

(* Every state of a tab satisfies WebInv: what the API has drawn, where a    *)
(* navigation comes from, whose a request is, which flag stands for it, and  *)
(* what a list of sessions may show.                                         *)
THEOREM WebInvariance == Spec => []WebInv
<1>1. Init => WebInv
  BY WebInit
<1>2. WebInv /\ [Next]_vars => WebInv'
  BY WebNext, WebStays
<1> QED
  BY <1>1, <1>2, PTL DEF Spec

-----------------------------------------------------------------------------
(* The types of every state, the names of sessions only of those that the    *)
(* API has drawn.                                                            *)
THEOREM WebTypeCorrect == Spec => []TypeOK
<1>1. WebInv => TypeOK
  <2> SUFFICES ASSUME WebInv PROVE TypeOK
    OBVIOUS
  <2>1. /\ sess \in [SessionIds -> SessType] /\ opened \in 0..MaxSessions
        /\ secret \in 0..MaxSetups /\ cookie \in Named /\ legacyId \in Named
        /\ \A s \in SessionIds : s > opened => sess[s] = None
        /\ \A r \in Slots : request[r] # Free => CallOK(request[r])
    BY DEF WebInv, ApiOK
  <2>2. page \in PageType /\ panel \in PanelType(page.name)
    BY DEF WebInv, RouterOK, PanelOK
  <2>3. revoked \subseteq SessionIds /\ overlapped \in BOOLEAN /\ acts \in 0..MaxActs
    BY DEF WebInv, ListsOK, Drawn
  <2>4. {cookie, legacyId} \subseteq SessionIds \cup {None}
    BY <2>1 DEF Named, Drawn
  <2>5. ASSUME NEW s \in SessionIds, s > opened PROVE cookie # s /\ legacyId # s
    <3>1. s \in Nat /\ opened \in Nat
      BY <2>1, AuthApiAssumption DEF SessionIds
    <3>2. s \notin Drawn
      BY <2>5, <3>1 DEF Drawn
    <3>3. s # None
      BY <3>1, NoneApart
    <3> QED
      BY <2>1, <3>2, <3>3 DEF Named
  <2>6. \A r \in Slots : request[r] # Free =>
          /\ request[r].status \in {"sent", "ok", "failed"}
          /\ request[r].op \in Calls
          /\ request[r].by \in {"page", "past", "gone"}
    <3>1. \A q : CallOK(q) => /\ q.status \in {"sent", "ok", "failed"}
                              /\ q.op \in Calls /\ q.by \in {"page", "past", "gone"}
      BY DEF CallOK
    <3> QED
      BY <2>1, <3>1
  <2>7. sess \in [SessionIds -> {None} \cup
          [store : {"db", "memory"}, state : {"pre_mfa", "mfa_setup", "authenticated"}]]
    BY <2>1 DEF SessType
  <2> QED
    BY <2>1, <2>2, <2>3, <2>4, <2>5, <2>6, <2>7 DEF TypeOK
<1> QED
  BY <1>1, WebInvariance, PTL

(* A form is pending exactly while one request of its own is awaited, and    *)
(* the buttons of the settings likewise: no double submission, and no button *)
(* that stays disabled once the answer is there (the handlers of the panels, *)
(* try to finally).                                                          *)
THEOREM FormsSubmitOnce == Spec => []PendingWhileCalling
<1>1. WebInv => PendingWhileCalling
  <2> SUFFICES ASSUME WebInv PROVE PendingWhileCalling
    OBVIOUS
  <2>1. ASSUME NEW kind \in Kinds, NEW S, S = Pend(kind)
        PROVE  Cardinality(S) = IF Flag(kind, page.name, panel) THEN 1 ELSE 0
    <3>1. CASE Flag(kind, page.name, panel)
      <4>1. PICK r \in Slots : S = {r}
        BY <2>1, <3>1 DEF WebInv, FlagsOK
      <4> QED
        BY <3>1, <4>1, FS_Singleton
    <3>2. CASE ~Flag(kind, page.name, panel)
      <4>1. S = {}
        BY <2>1, <3>2 DEF WebInv, FlagsOK
      <4> QED
        BY <3>2, <4>1, FS_EmptySet
    <3> QED
      BY <3>1, <3>2
  <2>2. ASSUME page.name \in FormPages
        PROVE  LET mine == UNION {Awaited(op) : op \in Submits}
               IN Cardinality(mine) = IF panel.pending THEN 1 ELSE 0
    <3>1. UNION {Awaited(op) : op \in Submits} = Pend("form")
      <4>1. \A r : r \in UNION {Awaited(op) : op \in Submits} <=>
                   r \in Slots /\ Mine(r) /\ request[r].op \in Submits
        BY DEF Awaited, Mine
      <4>2. \A q : KindOf(q) = "form" <=> q.op \in Submits
        BY DEF KindOf, Submits
      <4> QED
        BY <4>1, <4>2 DEF Pend
    <3>2. "form" \in Kinds /\ (Flag("form", page.name, panel) <=> panel.pending)
      BY <2>2 DEF Kinds, Flag
    <3> QED
      BY <2>1, <3>1, <3>2
  <2>3. ASSUME SecurityPage
        PROVE  /\ Cardinality(Awaited("revoke-all")
                    \cup {r \in Awaited("sessions") : request[r].arg = "revoke-all"})
                  = IF panel.revokingAll THEN 1 ELSE 0
               /\ Cardinality(Awaited("change-password")) = IF panel.submitting THEN 1 ELSE 0
    <3>1. page.name = "/settings/security"
      BY <2>3 DEF SecurityPage, On
    <3>2. \A kind \in Kinds : Flag(kind, page.name, panel) <=>
            (kind = "all" /\ panel.revokingAll) \/ (kind = "change" /\ panel.submitting)
      BY <3>1, SecurityFlags
    <3>3. \A q : /\ KindOf(q) = "all" <=>
                      (q.op = "revoke-all" \/ (q.op = "sessions" /\ q.arg = "revoke-all"))
                 /\ KindOf(q) = "change" <=> q.op = "change-password"
      BY DEF KindOf, Submits
    <3>4. /\ Awaited("revoke-all") \cup {r \in Awaited("sessions") : request[r].arg = "revoke-all"}
             = Pend("all")
          /\ Awaited("change-password") = Pend("change")
      BY <3>3 DEF Awaited, Pend, Mine
    <3>5. "all" \in Kinds /\ "change" \in Kinds
      BY DEF Kinds
    <3> QED
      BY <2>1, <3>2, <3>4, <3>5
  <2> QED
    BY <2>2, <2>3 DEF PendingWhileCalling
<1> QED
  BY <1>1, WebInvariance, PTL

(* A list of sessions that is shown when nothing is awaited shows none that  *)
(* this page revoked, however the answers arrived (handleRevoke,             *)
(* handleRevokeAll and loadSessions of security-panel.tsx).                  *)
THEOREM RevokedGone == Spec => []RevokedGoneWhenQuiet
<1>1. WebInv => RevokedGoneWhenQuiet
  <2> SUFFICES ASSUME WebInv, SecurityPage,
                      Awaited("revoke") \cup Awaited("revoke-all") \cup Awaited("sessions") = {},
                      ~overlapped, ~panel.error
               PROVE  panel.sessions \cap revoked = {}
    BY DEF RevokedGoneWhenQuiet
  <2>1. Quiet
    BY DEF Quiet, Awaited, Mine
  <2> QED
    BY <2>1 DEF WebInv, ListsOK, SecurityPage, On
<1> QED
  BY <1>1, WebInvariance, PTL

(* Typing a digit changes no other box of the code (updateDigit).            *)
THEOREM DigitsStay == Spec => []TypingKeepsOthers
<1>1. WebInv => TypingKeepsOthers
  <2> SUFFICES ASSUME WebInv, page.name \in {"/mfa", "/mfa/setup"},
                      NEW i \in 1..CodeLength, NEW j \in 1..CodeLength, NEW d \in Digits
               PROVE  Box(UpdateDigit(panel.code, i, d), j)
                        = IF j = i THEN d ELSE Box(panel.code, j)
    BY DEF TypingKeepsOthers
  <2>1. panel.code \in Codes
    BY PanelCode DEF WebInv
  <2> QED
    BY <2>1, DigitUpdated
<1> QED
  BY <1>1, WebInvariance, PTL

(* The middleware sends nobody in circles: where one answer about the        *)
(* session led, the same answer leads no further.                            *)
THEOREM NoCircles == Spec => []RedirectsSettle
<1>1. WebInv => RedirectsSettle
  <2> SUFFICES ASSUME WebInv, nav # None, nav.asked, nav.seen = nav.before
               PROVE  Destination = nav.to
    BY DEF RedirectsSettle
  <2>1. PICK n : n = nav
    OBVIOUS
  <2>2. NavOK(n) /\ n.asked /\ n.seen = n.before
    BY <2>1 DEF WebInv, RouterOK
  <2>3. n.seen \in Seen
    BY <2>2 DEF NavOK
  <2>4. n.before # "none yet"
    BY <2>2, <2>3, NoneApart
  <2>5. PICK t \in PageType : Matched(t.name) /\ n.to = Led(t, n.seen)
    BY <2>2, <2>4 DEF NavOK
  <2>6. Led(n.to, n.seen) = n.to
    BY <2>3, <2>5, LedTwice
  <2> QED
    BY <2>1, <2>2, <2>6 DEF Destination, Led
<1> QED
  BY <1>1, WebInvariance, PTL

(* Only two steps change the page.                                           *)
LEMMA PageKept ==
  ASSUME [Next]_vars, ~MountPage, ~Leave
  PROVE  page' = page
<1>1. CASE UNCHANGED vars
  BY <1>1 DEF vars, routerVars
<1>2. CASE GoBack
  BY <1>2 DEF GoBack
<1>3. CASE PanelStep
  <2>1. CASE HandleOAuth \/ HandleLoginSubmit \/ LoadDemoCode \/ MfaSubmit \/ MfaSetupSubmit
               \/ SubmitAddress \/ ResetPasswordSubmit
    BY <2>1 DEF HandleOAuth, HandleLoginSubmit, LoadDemoCode, MfaSubmit, MfaSetupSubmit,
                SubmitAddress, ResetPasswordSubmit, Ask, routerVars
  <2>2. CASE MfaType \/ ToggleRecoveryMode \/ MfaSetupType \/ CopyAllCodes \/ RegisterAgain
               \/ TypePassword
    BY <2>2 DEF MfaType, ToggleRecoveryMode, MfaSetupType, CopyAllCodes, RegisterAgain,
                TypePassword, Change, Keep, routerVars
  <2>3. CASE SetupPasswordSubmit
    BY <2>3 DEF SetupPasswordSubmit, Ask, Change, Keep, routerVars
  <2> QED
    BY <1>3, <2>1, <2>2, <2>3 DEF PanelStep
<1>4. CASE SecurityStep
  BY <1>4 DEF SecurityStep, HandleRevokeAll, TypeInChangePassword, ChangePasswordSubmit,
              HandleRevoke, Ask, Change, Keep, routerVars
<1>5. CASE Route
  BY <1>5 DEF Route, FetchSessionState, RouterRedirects
<1>6. CASE ApiStep
  BY <1>6 DEF ApiStep, routerVars
<1>7. ASSUME NEW r \in Slots, Continue(r) PROVE page' = page
  <2>1. CASE Dropped(r)
    BY <2>1 DEF Dropped, routerVars
  <2>2. CASE \E p, push, x : Resume(r, p, push, x)
    BY <2>2 DEF Resume
  <2>3. CASE RevokeAnswered(r) \/ SessionsLoaded(r) \/ PasswordChanged(r)
    BY <2>2, <2>3 DEF RevokeAnswered, SessionsLoaded, PasswordChanged
  <2>4. CASE OAuthStarted(r) \/ OAuthCalledBack(r) \/ LoginAnswered(r) \/ MfaVerified(r)
    BY <2>2, <2>4 DEF OAuthStarted, OAuthCalledBack, LoginAnswered, MfaVerified
  <2>5. CASE DemoCodeLoaded(r) \/ SetupLoaded(r) \/ MfaSetupVerified(r) \/ EmailVerified(r)
    BY <2>2, <2>5 DEF DemoCodeLoaded, SetupLoaded, MfaSetupVerified, EmailVerified
  <2>6. CASE Registered(r) \/ Forgotten(r) \/ PasswordSetUp(r) \/ PasswordReset(r)
    BY <2>2, <2>6 DEF Registered, Forgotten, PasswordSetUp, PasswordReset
  <2> QED
    BY <1>7, <2>1, <2>3, <2>4, <2>5, <2>6 DEF Continue
<1> QED
  BY <1>1, <1>2, <1>3, <1>4, <1>5, <1>6, <1>7 DEF Next

(* A page behind the login mounts only when the API answered this very       *)
(* navigation that the session is authenticated (middleware.ts).             *)
THEOREM NoPageUnasked == Spec => PagesAskFirst
<1>1. ASSUME [Next]_vars, page' # page, page'.name \in PagesBehindLogin
      PROVE  nav.asked /\ nav.seen = "authenticated"
  <2>1. CASE Leave
    <3>1. page'.name = "blank"
      BY <2>1 DEF Leave, Load, To
    <3> QED
      BY <1>1, <3>1, PageNames
  <2>2. CASE MountPage
    <3>1. Decidable /\ Destination = nav.to /\ page' = nav.to
      BY <2>2 DEF MountPage, MountableWith
    <3>2. IsProtectedPath(nav.to.name)
      BY <1>1, <3>1, PageNames
    <3>3. nav.asked
      BY <3>1, <3>2 DEF Decidable, Matched
    <3>4. ASSUME nav.seen # "authenticated" PROVE FALSE
      <4>1. Decision(nav.to, nav.seen) = To("/login", nav.to.name)
        BY <1>1, <3>1, <3>4, PageNames DEF Decision
      <4>2. PageRedirect(Decision(nav.to, nav.seen)).name = "/login"
        BY <4>1 DEF PageRedirect, To
      <4>3. Destination.name = "/login"
        BY <3>3, <4>2 DEF Destination
      <4> QED
        BY <1>1, <3>1, <4>3, PageNames
    <3> QED
      BY <3>3, <3>4
  <2> QED
    BY <1>1, <2>1, <2>2, PageKept
<1>2. [Next]_vars => [page' # page /\ page'.name \in PagesBehindLogin
                      => nav.asked /\ nav.seen = "authenticated"]_<<page, nav>>
  BY <1>1
<1> QED
  BY <1>2, PTL DEF Spec, PagesAskFirst
-----------------------------------------------------------------------------
(* The refinement: what a step does to the sessions of AccountLifecycle.     *)

(* Only the API's own steps touch the sessions.                              *)
LEMMA SessionsKept ==
  ASSUME [Next]_vars, ~ApiStep
  PROVE  UNCHANGED <<sess, opened>>
<1>1. CASE UNCHANGED vars
  BY <1>1 DEF vars, apiVars
<1>2. CASE Leave \/ GoBack
  BY <1>2 DEF Leave, Load, GoBack, apiVars
<1>3. CASE PanelStep
  <2>1. CASE HandleOAuth \/ HandleLoginSubmit \/ LoadDemoCode \/ MfaSubmit \/ MfaSetupSubmit
               \/ SubmitAddress \/ ResetPasswordSubmit
    BY <2>1 DEF HandleOAuth, HandleLoginSubmit, LoadDemoCode, MfaSubmit, MfaSetupSubmit,
                SubmitAddress, ResetPasswordSubmit, Ask
  <2>2. CASE MfaType \/ ToggleRecoveryMode \/ MfaSetupType \/ CopyAllCodes \/ RegisterAgain
               \/ TypePassword
    BY <2>2 DEF MfaType, ToggleRecoveryMode, MfaSetupType, CopyAllCodes, RegisterAgain,
                TypePassword, Change, Keep, apiVars
  <2>3. CASE SetupPasswordSubmit
    BY <2>3 DEF SetupPasswordSubmit, Ask, Change, Keep, apiVars
  <2> QED
    BY <1>3, <2>1, <2>2, <2>3 DEF PanelStep
<1>4. CASE SecurityStep
  <2>1. CASE HandleRevokeAll
    BY <2>1 DEF HandleRevokeAll, Ask
  <2>2. CASE TypeInChangePassword
    BY <2>2 DEF TypeInChangePassword, Change, Keep, apiVars
  <2>3. CASE ChangePasswordSubmit
    BY <2>3 DEF ChangePasswordSubmit, Ask
  <2>4. ASSUME NEW s \in SessionIds, HandleRevoke(s) PROVE UNCHANGED <<sess, opened>>
    BY <2>4 DEF HandleRevoke, Ask
  <2> QED
    BY <1>4, <2>1, <2>2, <2>3, <2>4 DEF SecurityStep
<1>5. CASE Route
  <2>1. CASE FetchSessionState
    BY <2>1 DEF FetchSessionState, apiVars
  <2>2. CASE RouterRedirects
    <3>1. UNCHANGED apiVars
      BY <2>2, Zenon DEF RouterRedirects
    <3> QED
      BY <3>1 DEF apiVars
  <2>3. CASE MountPage
    BY <2>3 DEF MountPage, MountableWith
  <2> QED
    BY <1>5, <2>1, <2>2, <2>3 DEF Route
<1>6. ASSUME NEW r \in Slots, Continue(r) PROVE UNCHANGED <<sess, opened>>
  <2>1. CASE Dropped(r)
    BY <2>1 DEF Dropped
  <2>2. CASE \E p, push, x : Resume(r, p, push, x)
    BY <2>2 DEF Resume
  <2>3. CASE RevokeAnswered(r) \/ SessionsLoaded(r) \/ PasswordChanged(r)
    BY <2>2, <2>3 DEF RevokeAnswered, SessionsLoaded, PasswordChanged
  <2>4. CASE OAuthStarted(r) \/ OAuthCalledBack(r) \/ LoginAnswered(r) \/ MfaVerified(r)
    BY <2>2, <2>4 DEF OAuthStarted, OAuthCalledBack, LoginAnswered, MfaVerified
  <2>5. CASE DemoCodeLoaded(r) \/ SetupLoaded(r) \/ MfaSetupVerified(r) \/ EmailVerified(r)
    BY <2>2, <2>5 DEF DemoCodeLoaded, SetupLoaded, MfaSetupVerified, EmailVerified
  <2>6. CASE Registered(r) \/ Forgotten(r) \/ PasswordSetUp(r) \/ PasswordReset(r)
    BY <2>2, <2>6 DEF Registered, Forgotten, PasswordSetUp, PasswordReset
  <2> QED
    BY <1>6, <2>1, <2>3, <2>4, <2>5, <2>6 DEF Continue
<1> QED
  BY <1>1, <1>2, <1>3, <1>4, <1>5, <1>6 DEF Next

(* A step of the API ends sessions or leaves them, opens one half signed in, *)
(* or elevates one.                                                          *)
SessionsEnd ==
  opened' = opened /\ \A s \in SessionIds : sess'[s] = None \/ sess'[s] = sess[s]
SessionRises(t) ==
  /\ sess[t] # None /\ opened' = opened
  /\ sess' = [sess EXCEPT ![t].state = "authenticated"]

LEMMA ApiSessions ==
  ASSUME WebInv, ApiStep
  PROVE  \/ SessionsEnd
         \/ \E store \in {"db", "memory"}, state \in {"pre_mfa", "mfa_setup"} :
              OpenSession(store, state)
         \/ \E t \in SessionIds : SessionRises(t)
<1>0. /\ sess \in [SessionIds -> SessType]
      /\ \A r \in Slots : request[r] # Free => CallOK(request[r])
  BY DEF WebInv, ApiOK
<1>1. CASE SessionEnds
  BY <1>0, <1>1 DEF SessionEnds, SessionsEnd
<1>2. ASSUME NEW r \in Slots, Serve(r)
      PROVE  \/ SessionsEnd
             \/ \E store \in {"db", "memory"}, state \in {"pre_mfa", "mfa_setup"} :
                  OpenSession(store, state)
             \/ \E t \in SessionIds : SessionRises(t)
  <2>1. CASE Refuse(r) \/ ServeStateless(r) \/ ServeMfaSetup(r) \/ ServeSessions(r)
    BY <2>1 DEF Refuse, ServeStateless, ServeMfaSetup, ServeSessions, SessionsEnd
  <2>2. CASE ServeMemoryLogin(r) \/ ServeLogin(r) \/ ServeSetupPassword(r)
    BY <2>2 DEF ServeMemoryLogin, ServeLogin, ServeSetupPassword
  <2>3. CASE ServeMfaVerify(r)
    <3>1. PICK q : q = request[r]
      OBVIOUS
    <3>2. /\ q.status = "sent" /\ q.op = "mfa.verify" /\ q.arg # None /\ sess[q.arg] # None
          /\ sess' = [sess EXCEPT ![q.arg].state = "authenticated"] /\ opened' = opened
      BY <2>3, <3>1 DEF ServeMfaVerify, Waiting
    <3>3. q # Free
      BY <3>2 DEF Free
    <3>4. q.arg \in Named
      BY <1>0, <3>1, <3>2, <3>3 DEF CallOK, ArgOK
    <3>5. q.arg \in SessionIds
      BY <3>2, <3>4 DEF Named, Drawn
    <3> QED
      BY <3>2, <3>5 DEF SessionRises
  <2>4. CASE ServeMfaSetupVerify(r)
    <3>1. request[r].as \in SessionIds /\ sess[request[r].as] # None
      BY <2>4 DEF ServeMfaSetupVerify, SettingUp, LiveDb
    <3> QED
      BY <2>4, <3>1 DEF ServeMfaSetupVerify, SessionRises
  <2>5. CASE ServeResetPassword(r)
    BY <2>5 DEF ServeResetPassword, SessionsEnd
  <2>6. CASE ServeRevoke(r)
    BY <2>6 DEF ServeRevoke, SessionsEnd
  <2> QED
    BY <1>2, <2>1, <2>2, <2>3, <2>4, <2>5, <2>6 DEF Serve
<1> QED
  BY <1>1, <1>2 DEF ApiStep

(* Sessions that end are retired.                                            *)
LEMMA EndsRetire == ASSUME WebInv, SessionsEnd PROVE Lifecycle!Retire
<1>1. /\ \A s \in SessionIds : s > opened => sess[s] = None
      /\ opened \in Nat /\ \A s \in SessionIds : s \in Nat
  BY AuthApiAssumption DEF WebInv, ApiOK, SessionIds
<1>2. SpentIds \subseteq SpentIds' /\ SpentIds' \subseteq SessionIds
  BY DEF SpentIds, SessionsEnd, SessionIds
<1>3. ASSUME NEW s \in SessionIds
      PROVE  ContractSession(s)' = IF s \in SpentIds' THEN None ELSE ContractSession(s)
  <2>1. s \in SessionIds' /\ (s <= opened \/ s > opened)
    BY <1>1 DEF SessionIds
  <2> QED
    BY <1>1, <2>1 DEF SpentIds, ContractSession, SessionsEnd
<1>4. [s \in SessionIds |-> ContractSession(s)']
        = [s \in SessionIds |-> IF s \in SpentIds' THEN None
                               ELSE [q \in SessionIds |-> ContractSession(q)][s]]
  BY <1>3
<1> QED
  BY <1>2, <1>4 DEF Lifecycle!Retire, SessionIds

(* A login opens a session under an id that never named one.                 *)
LEMMA LoginOpens ==
  ASSUME WebInv, NEW store \in {"db", "memory"}, NEW state \in {"pre_mfa", "mfa_setup"},
         OpenSession(store, state)
  PROVE  \E s \in SessionIds : Lifecycle!Open(s, "holder")
<1> DEFINE n == opened + 1
           row == [store |-> store, state |-> state]
           half == [user |-> "holder", full |-> FALSE]
           M == [s \in SessionIds |-> ContractSession(s)]
<1>0. /\ sess \in [SessionIds -> SessType] /\ opened \in Nat /\ opened \in 0..MaxSessions
      /\ \A s \in SessionIds : s > opened => sess[s] = None
  BY AuthApiAssumption DEF WebInv, ApiOK
<1>1. n \in SessionIds /\ sess[n] = None /\ n \notin SpentIds
  BY <1>0, AuthApiAssumption DEF OpenSession, SessionIds, SpentIds
<1>2. sess' = [sess EXCEPT ![n] = row] /\ opened' = n
  BY DEF OpenSession
<1>3. row \in [store : {"db", "memory"}, state : {"pre_mfa", "mfa_setup", "authenticated"}]
  OBVIOUS
<1>4. row # None /\ row.state # "authenticated"
  <2>1. row.state = state /\ state # "authenticated"
    OBVIOUS
  <2>2. None \notin [store : {"db", "memory"}, state : {"pre_mfa", "mfa_setup", "authenticated"}]
    BY WebAuthAssumption, Zenon
  <2> HIDE DEF row
  <2> QED
    BY <1>3, <2>1, <2>2
<1> HIDE DEF row
<1>5. \A s \in SessionIds : sess'[s] = IF s = n THEN row ELSE sess[s]
  BY <1>0, <1>2
<1>6. SpentIds' = SpentIds
  <2>1. /\ SessionIds' = SessionIds /\ ~(n <= opened)
        /\ \A s \in SessionIds : s <= n <=> (s = n \/ s <= opened)
    BY <1>0, AuthApiAssumption DEF SessionIds
  <2>2. \A s \in SessionIds : (s <= opened' /\ sess'[s] = None) <=> (s <= opened /\ sess[s] = None)
    BY <1>2, <1>4, <1>5, <2>1
  <2> QED
    BY <2>1, <2>2 DEF SpentIds
<1> HIDE DEF half
<1>7. \A s \in SessionIds : ContractSession(s)' = IF s = n THEN half ELSE ContractSession(s)
  BY <1>4, <1>5 DEF ContractSession, half
<1>8. [s \in SessionIds |-> ContractSession(s)'] = [M EXCEPT ![n] = half]
  BY <1>7
<1>9. M[n] = None /\ [v \in {"holder"} |-> "active"]["holder"] = "active"
  BY <1>1 DEF ContractSession
<1> HIDE DEF n
<1>10. Lifecycle!Open(n, "holder")
  BY <1>1, <1>6, <1>8, <1>9 DEF Lifecycle!Open, SessionIds, half
<1> QED
  BY <1>1, <1>10

(* The fields of an elevated session of the contract.                        *)
LEMMA ElevatedContract ==
  ASSUME NEW row \in [user : {"holder"}, full : BOOLEAN]
  PROVE  [row EXCEPT !.full = TRUE] = [user |-> "holder", full |-> TRUE]
<1> DEFINE a == [row EXCEPT !.full = TRUE]
           b == [user |-> "holder", full |-> TRUE]
<1>1. a \in [user : {"holder"}, full : BOOLEAN] /\ b \in [user : {"holder"}, full : BOOLEAN]
  OBVIOUS
<1>2. a.user = b.user /\ a.full = b.full
  OBVIOUS
<1>3. ASSUME NEW c \in [user : {"holder"}, full : BOOLEAN],
             NEW d \in [user : {"holder"}, full : BOOLEAN], c.user = d.user, c.full = d.full
      PROVE  c = d
  BY <1>3
<1> HIDE DEF a, b
<1>4. a = b
  BY <1>1, <1>2, <1>3
<1> QED
  BY <1>4 DEF a, b

(* A right code elevates the session it was entered for.                     *)
LEMMA RiseElevates ==
  ASSUME WebInv, NEW t \in SessionIds, SessionRises(t)
  PROVE  Lifecycle!Elevate(t)
<1> DEFINE M == [s \in SessionIds |-> ContractSession(s)]
           row == [sess[t] EXCEPT !.state = "authenticated"]
           full == [user |-> "holder", full |-> TRUE]
<1>0. /\ sess \in [SessionIds -> SessType]
      /\ sess[t] \in [store : {"db", "memory"}, state : {"pre_mfa", "mfa_setup", "authenticated"}]
  BY DEF WebInv, ApiOK, SessType, SessionRises
<1>1. row \in [store : {"db", "memory"}, state : {"pre_mfa", "mfa_setup", "authenticated"}]
      /\ row.state = "authenticated"
  BY <1>0
<1>2. row # None
  <2>1. None \notin [store : {"db", "memory"}, state : {"pre_mfa", "mfa_setup", "authenticated"}]
    BY WebAuthAssumption, Zenon
  <2> HIDE DEF row
  <2> QED
    BY <1>1, <2>1
<1>3. sess' = [sess EXCEPT ![t] = row] /\ opened' = opened
  BY <1>0 DEF SessionRises
<1> HIDE DEF row
<1>4. \A s \in SessionIds : sess'[s] = IF s = t THEN row ELSE sess[s]
  BY <1>0, <1>3
<1>5. SpentIds' = SpentIds
  BY <1>2, <1>3, <1>4 DEF SpentIds, SessionRises, SessionIds
<1>6. \A s \in SessionIds : ContractSession(s)' = IF s = t THEN full ELSE ContractSession(s)
  BY <1>1, <1>2, <1>4 DEF ContractSession
<1>7. M[t] = [user |-> "holder", full |-> sess[t].state = "authenticated"]
  BY DEF ContractSession, SessionRises
<1>8. M[t] \in [user : {"holder"}, full : BOOLEAN] /\ M[t].user = "holder"
  <2> DEFINE b == sess[t].state = "authenticated"
  <2>1. b \in BOOLEAN /\ M[t] = [user |-> "holder", full |-> b]
    BY <1>7
  <2> HIDE DEF b, M
  <2> QED
    BY <2>1
<1>9. [M[t] EXCEPT !.full = TRUE] = full
  <2> HIDE DEF M
  <2> QED
    BY <1>8, ElevatedContract
<1>10. [s \in SessionIds |-> ContractSession(s)'] = [M EXCEPT ![t] = full]
  BY <1>6
<1>11. [s \in SessionIds |-> ContractSession(s)'] = [M EXCEPT ![t].full = TRUE]
  <2>1. [M EXCEPT ![t].full = TRUE] = [M EXCEPT ![t] = [M[t] EXCEPT !.full = TRUE]]
    OBVIOUS
  <2> QED
    BY <1>9, <1>10, <2>1
<1>12. M[t] # None /\ M[t].user \in {"holder"}
  BY <1>8, ContractAssumption
<1> QED
  BY <1>5, <1>11, <1>12 DEF Lifecycle!Elevate, SessionIds

(* What the browser takes the API to be keeps the contract that the services *)
(* are proved to keep: over every answer, loss, reload and expiry, a session *)
(* opens half signed in, is elevated, and never comes back (auth-client.js). *)
THEOREM ClientApiRefinesLifecycle == Spec => ImplementsLifecycle
<1>1. ASSUME Init PROVE Lifecycle!Init
  <2>1. /\ SpentIds \subseteq SessionIds
        /\ \A s \in SpentIds : [q \in SessionIds |-> ContractSession(q)][s] = None
    BY DEF SpentIds, ContractSession
  <2>2. /\ [u \in {"holder"} |-> "active"] \in [{"holder"} -> {"absent", "active"}]
        /\ {"holder"} = {u \in {"holder"} : [v \in {"holder"} |-> "active"][u] = "active"}
    OBVIOUS
  <2>3. ASSUME NEW s \in SessionIds
        PROVE  ContractSession(s) \in {None} \cup [user : {"holder"}, full : BOOLEAN]
    <3> DEFINE b == sess[s].state = "authenticated"
    <3>1. b \in BOOLEAN /\ ContractSession(s) \in {None, [user |-> "holder", full |-> b]}
      BY DEF ContractSession
    <3> HIDE DEF b
    <3> QED
      BY <3>1
  <2>4. [s \in SessionIds |-> ContractSession(s)] \in
          [SessionIds -> {None} \cup [user : {"holder"}, full : BOOLEAN]]
    BY <2>3
  <2> QED
    BY <2>1, <2>2, <2>4 DEF Lifecycle!Init
<1>2. ASSUME WebInv, ApiStep PROVE Lifecycle!Next
  BY <1>2, ApiSessions, EndsRetire, LoginOpens, RiseElevates DEF Lifecycle!Next
<1>3. ASSUME WebInv, UNCHANGED <<sess, opened>> PROVE Lifecycle!Next
  <2>1. SessionsEnd
    BY <1>3 DEF SessionsEnd
  <2> QED
    BY <1>3, <2>1, EndsRetire DEF Lifecycle!Next
<1>4. WebInv /\ [Next]_vars => [Lifecycle!Next]_Lifecycle!lifecycleVars
  BY <1>2, <1>3, SessionsKept
<1> QED
  BY <1>1, <1>4, WebInvariance, PTL DEF Spec, ImplementsLifecycle, Lifecycle!Spec
===============================================================================
