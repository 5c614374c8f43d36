------------------------------ MODULE WebPages ------------------------------
(* A tab of the browser on the data pages: the shell and the page in it.     *)
EXTENDS DataPages
CONSTANTS MaxActs     \* bound: what the user does in one visit

ASSUME WebPagesAssumption == MaxActs \in Nat

VARIABLES acts
vars == <<shellVars, pageVars, acts>>

(* ?tab= may name a tab or anything else.                                    *)
Addresses == Tabs \cup {None, "other"}
Visit(to) == IF to = "/cashflow" THEN Addresses ELSE {None}

Init ==
  /\ path \in Paths /\ query \in Visit(path) /\ view = FirstView(path, query)
  /\ openPanel = None /\ openOverlay = None /\ nested = None /\ account = None
  /\ dialogs = {} /\ isDark = FALSE /\ stored \in {None, "dark", "light"}
  /\ attr = IF stored = None THEN IF PrefersDark THEN "dark" ELSE "light" ELSE stored
  /\ acts = 0

(* A link of the header or of a page: the address changes, and the page is   *)
(* mounted anew unless it is the one shown already, whose state stays.       *)
Links ==
  [to : Paths, tab : {None}]
  \cup [to : {t \in {"/cashflow"} : On("/allocation") \/ On("/dashboard")}, tab : {"Target"}]
FollowLink ==
  \E link \in Links :
    /\ query' = link.tab /\ UNCHANGED <<attr, stored>>
    /\ IF link.to = path
       THEN /\ UNCHANGED <<path, overlayVars, dialogs, view>>
            /\ openPanel' \in {openPanel} \cup {p \in {None} : OnTop("header")}
            /\ isDark' = (openPanel' # None /\ isDark)
       ELSE MountShell(link.to) /\ view' = FirstView(link.to, link.tab)

Reload ==
  /\ MountShell(path) /\ InitTheme /\ UNCHANGED <<stored, query>>
  /\ view' = FirstView(path, query)

Escape ==
  /\ EscapeClosesLayers /\ UNCHANGED query
  /\ view' = CASE "add transaction" \in dialogs -> Closed("add transaction")
               [] "import records" \in dialogs -> Closed("import records")
               [] OTHER -> view

(* Back and Forward to a page of this document: the entry's address returns, *)
(* and a page that is mounted already keeps its state whatever tab its       *)
(* address names, for ?tab= is read on mount only (useEffect).  Any entry    *)
(* may be there: the history holds those this tab went through before.       *)
TraverseHistory ==
  \E to \in Paths : \E tab \in Visit(to) :
    /\ query' = tab /\ UNCHANGED <<attr, stored>>
    /\ IF to = path
       THEN UNCHANGED <<path, openPanel, isDark, overlayVars, dialogs, view>>
       ELSE MountShell(to) /\ view' = FirstView(to, tab)

Next ==
  /\ acts < MaxActs /\ acts' = acts + 1
  /\ \/ ShellStep /\ UNCHANGED pageVars
     \/ PageStep \/ FollowLink \/ TraverseHistory \/ Reload \/ Escape

Spec == Init /\ [][Next]_vars

-----------------------------------------------------------------------------
(* Types, and: the forms of the dialogs exist while they are open, a month   *)
(* is a month of the year, and an upload has its file.                       *)
ViewOK ==
  CASE path = "/cashflow" ->
         /\ view.tab \in Tabs /\ view.accounts \in Seq(Labels)
         /\ Len(view.accounts) <= MaxItems /\ view.subs \in 0..MaxItems
         /\ view.reminders \in BOOLEAN /\ view.offset \in -1..1
         /\ \A i \in DOMAIN view.txs :
              view.txs[i] \in [category : InflowCategories \cup OutflowCategories,
                               method : Labels \cup {Cash}, negated : BOOLEAN]
         /\ IF "add transaction" \in dialogs
            THEN /\ view.form.category \in InflowCategories \cup OutflowCategories
                 /\ view.form.method \in Labels \cup {Cash}
            ELSE view.form = None
    [] path = "/allocation" ->
         /\ view.month \in 0..11 /\ view.type \in Types \cup {"all"}
         /\ view.upload \in {"idle", "selected", "success"}
         /\ view.file = (view.upload # "idle")
         /\ "import records" \notin dialogs => view.upload = "idle"
    [] OTHER -> view = [mounted |-> TRUE]
TypeOK == ShellTypeOK /\ ViewOK /\ query \in Visit(path) /\ acts \in 0..MaxActs

(* The category of a transaction is one of the type it was entered as:       *)
(* salary and the like are never negated as an outflow, food and the like    *)
(* never taken as an inflow, however the form was switched back and forth    *)
(* before (handleAdd).  Nothing is said of the sign shown: a negative amount *)
(* may be typed, and then food has a plus.                                   *)
CategoryFitsType ==
  path = "/cashflow" =>
    \A i \in DOMAIN view.txs :
      view.txs[i].negated <=> view.txs[i].category \in OutflowCategories
=============================================================================
