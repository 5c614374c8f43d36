----------------------------- MODULE DataPages ------------------------------
(* The pages inside the shell: cashflow with its tabs, accounts, transactions *)
(* and subscriptions; allocation with its investment records; reports.  What *)
(* they show is seed data; the state is what the user adds and chooses, and  *)
(* lasts as long as the component that holds it.  A text that is typed       *)
(* matters when it is submitted.  Choices that only restyle the page (the    *)
(* periods of the charts, the search box and the selects above the           *)
(* transactions) and dialogs whose buttons have no handler are left out, but *)
(* for their being open.                                                     *)
EXTENDS PageShell, SequencesExt
CONSTANTS
  Labels,           \* names typed for an account
  InflowCategories, OutflowCategories,
  Salary, Food,     \* the first of each
  Types,            \* kinds of an investment record
  LatestMonth,      \* month of the latest of them, 0 to 11
  MaxItems          \* bound: accounts, transactions and subscriptions

ASSUME DataPagesAssumption ==
  /\ Salary \in InflowCategories /\ Food \in OutflowCategories
  /\ InflowCategories \cap OutflowCategories = {}
  /\ LatestMonth \in 0..11 /\ MaxItems \in Nat \ {0} /\ Labels # {}

VARIABLES
  query,      \* the tab in the address bar
  view        \* the useState values of the mounted page
pageVars == <<query, view>>

Tabs == {"Overview", "Inflow", "Outflow", "Transaction", "Subscription", "Target"}
ASSUME TabsAssumption == None \notin Tabs
Cash == "Cash"
Methods(accounts) == {Cash} \cup {accounts[i] : i \in DOMAIN accounts}

(* useState of the component of a tab: the transactions added, newest first, *)
(* the form of the transaction under way, the month that is shown.           *)
FirstInTab(tab, accounts, subs, reminders) ==
  [tab |-> tab, accounts |-> accounts, subs |-> subs, reminders |-> reminders,
   txs |-> <<>>, form |-> None, offset |-> 0]

(* useState of each page.  The tab comes from ?tab= when that names one      *)
(* (useEffect).                                                              *)
InitialAccounts == <<CHOOSE l \in Labels : TRUE>>
FirstView(to, tab) ==
  CASE to = "/cashflow" ->
         FirstInTab(IF tab \in Tabs THEN tab ELSE "Overview", InitialAccounts, 0, TRUE)
    [] to = "/allocation" ->
         [month |-> LatestMonth, year |-> 0, type |-> "all", upload |-> "idle", file |-> FALSE]
    [] OTHER -> [mounted |-> TRUE]

On(to) == path = to
Shown(layer) ==
  Press(layer) /\ UNCHANGED <<path, overlayVars, attr, stored>>
InPage(layer, v) == Shown(layer) /\ view' = v /\ UNCHANGED <<dialogs, query>>
Closing(d, v) == Shown(d) /\ view' = v /\ dialogs' = dialogs \ {d} /\ UNCHANGED query

-----------------------------------------------------------------------------
(* The dialogs that the buttons of each tab and page open.                   *)
OverviewButtons == {"accounts"}
InflowButtons == {"all inflow"}
OutflowButtons == {"all outflow"}
TransactionButtons == {"import transaction", "add transaction"}
SubscriptionButtons == {"add subscription", "edit subscription"}
TargetButtons == {"new target", "edit target", "deposit"}
AllocationButtons == {"add record", "import records"}
ReportsButtons == {"export"}

(* Those on screen.                                                          *)
CashflowButtons ==
  CASE view.tab = "Overview" -> OverviewButtons
    [] view.tab = "Inflow" -> InflowButtons
    [] view.tab = "Outflow" -> OutflowButtons
    [] view.tab = "Transaction" -> TransactionButtons
    [] view.tab = "Subscription" -> SubscriptionButtons
    [] view.tab = "Target" -> TargetButtons
Buttons ==
  CASE On("/cashflow") -> CashflowButtons
    [] On("/allocation") -> AllocationButtons
    [] On("/reports") -> ReportsButtons
    [] OTHER -> {}
TabDialogs == {"all inflow", "all outflow", "import transaction", "add transaction", "deposit"}

(* useState of AddTransactionModal and ImportRecordsModal.                   *)
FirstMethod == IF view.accounts = <<>> THEN Cash ELSE Head(view.accounts)
Opened(d) ==
  CASE d = "add transaction" ->
         [view EXCEPT !.form = [type |-> "Outflow", category |-> Food, method |-> FirstMethod]]
    [] d = "import records" -> [view EXCEPT !.upload = "idle", !.file = FALSE]
    [] OTHER -> view
Closed(d) ==
  CASE d = "add transaction" -> [view EXCEPT !.form = None]
    [] d = "import records" -> [view EXCEPT !.upload = "idle", !.file = FALSE]
    [] OTHER -> view
OpenDialog(d) ==
  /\ d \in Buttons \ dialogs /\ Shown("page")
  /\ dialogs' = dialogs \cup {d} /\ view' = Opened(d) /\ UNCHANGED query
(* X, Discard, Cancel, Done and the backdrop.                                *)
CloseDialog(d) == d \in dialogs /\ Closing(d, Closed(d))

-----------------------------------------------------------------------------
(* cashflow/page.tsx                                                         *)
(* Another tab unmounts the component of this one, with its dialogs; what    *)
(* the page holds stays.  The address is replaced.                           *)
HandleTabChange(tab) ==
  /\ On("/cashflow") /\ Shown("page")
  /\ IF tab = view.tab THEN UNCHANGED <<view, dialogs>>
     ELSE /\ view' = FirstInTab(tab, view.accounts, view.subs, view.reminders)
          /\ dialogs' = dialogs \ TabDialogs
  /\ query' = tab

(* manage-accounts-modal.tsx: the form stays for the next account.           *)
AddAccount(label) ==
  /\ "accounts" \in dialogs /\ Len(view.accounts) < MaxItems
  /\ InPage("accounts", [view EXCEPT !.accounts = Append(@, label)])
RemoveAccount(i) ==
  /\ "accounts" \in dialogs /\ i \in DOMAIN view.accounts
  /\ InPage("accounts", [view EXCEPT !.accounts = RemoveAt(@, i)])

(* subscription-tab.tsx, add-subscription-modal.tsx                          *)
ToggleReminders ==
  /\ On("/cashflow") /\ view.tab = "Subscription"
  /\ InPage("page", [view EXCEPT !.reminders = ~@])
AddSubscription ==
  /\ "add subscription" \in dialogs /\ view.subs < MaxItems
  /\ Closing("add subscription", [view EXCEPT !.subs = @ + 1])

(* inflow-tab.tsx, outflow-tab.tsx                                           *)
ShiftMonth ==
  /\ On("/cashflow") /\ view.tab \in {"Inflow", "Outflow"}
  /\ \E o \in {view.offset - 1, view.offset + 1} \cap (-1..1) :
       InPage("page", [view EXCEPT !.offset = o])

(* add-transaction-modal.tsx                                                 *)
Categories(type) == IF type = "Inflow" THEN InflowCategories ELSE OutflowCategories
FirstOf(type) == IF type = "Inflow" THEN Salary ELSE Food
\* mutant: the category is kept
WithTypeOnly(form, type) == [form EXCEPT !.type = type]
WithType(form, type) == [form EXCEPT !.type = type, !.category = FirstOf(type)]
ChooseInForm ==
  /\ "add transaction" \in dialogs
  /\ \E form \in {WithType(view.form, t) : t \in {"Inflow", "Outflow"}}
          \cup {[view.form EXCEPT !.category = c] : c \in Categories(view.form.type)}
          \cup {[view.form EXCEPT !.method = m] : m \in Methods(view.accounts)} :
       InPage("add transaction", [view EXCEPT !.form = form])

(* transaction-tab.tsx: an outflow is the negated amount.  The amount typed  *)
(* may be negative itself, so the sign that is shown follows from both; the  *)
(* amount is left out, and with it the sign.                                 *)
Transaction(form) ==
  [category |-> form.category, method |-> form.method, negated |-> form.type # "Inflow"]
HandleAdd ==
  /\ "add transaction" \in dialogs /\ Len(view.txs) < MaxItems
  /\ Closing("add transaction",
             [view EXCEPT !.txs = <<Transaction(view.form)>> \o @, !.form = None])

-----------------------------------------------------------------------------
(* investment-records.tsx.  The month shown, and the year since the year of  *)
(* the latest record.                                                        *)
PrevMonth(v) ==
  IF v.month = 0 THEN [v EXCEPT !.month = 11, !.year = @ - 1] ELSE [v EXCEPT !.month = @ - 1]
\* mutant: the year ends one month late
NextMonthLate(v) ==
  IF v.month = 12 THEN [v EXCEPT !.month = 0, !.year = @ + 1] ELSE [v EXCEPT !.month = @ + 1]
NextMonth(v) ==
  IF v.month = 11 THEN [v EXCEPT !.month = 0, !.year = @ + 1] ELSE [v EXCEPT !.month = @ + 1]
ChangeMonth ==
  /\ On("/allocation")
  /\ InPage("page", PrevMonth(view)) \/ InPage("page", NextMonth(view))
ChooseType ==
  /\ On("/allocation") /\ \E t \in Types \cup {"all"} : InPage("page", [view EXCEPT !.type = t])

(* import-records-modal.tsx                                                  *)
UploadControls ==
  CASE view.upload = "idle" -> {"file"}
    [] view.upload = "selected" -> {"file", "import"}
    [] OTHER -> {"reset"}
InUpload(control, upload, file) ==
  /\ "import records" \in dialogs /\ control \in UploadControls
  /\ InPage("import records", [view EXCEPT !.upload = upload, !.file = file])
HandleFile == InUpload("file", "selected", TRUE)
HandleImport == InUpload("import", "success", view.file)
Reset == InUpload("reset", "idle", FALSE)

PageStep ==
  \/ \E d \in Dialogs : OpenDialog(d) \/ CloseDialog(d)
  \/ \E tab \in Tabs : HandleTabChange(tab)
  \/ \E label \in Labels : AddAccount(label)
  \/ \E i \in 1..MaxItems : RemoveAccount(i)
  \/ ToggleReminders \/ AddSubscription \/ ShiftMonth \/ ChooseInForm \/ HandleAdd
  \/ ChangeMonth \/ ChooseType \/ HandleFile \/ HandleImport \/ Reset
=============================================================================
