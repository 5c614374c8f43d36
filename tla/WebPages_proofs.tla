--------------------------- MODULE WebPages_proofs ----------------------------
(***************************************************************************)
(* The properties of WebPages for any names, accounts, categories, record  *)
(* types and number of acts.  The shell and the page share three variables *)
(* only (path, the popover, the dialogs), so each has its own invariant    *)
(* and the steps of the one are shown to leave the other alone.            *)
(***************************************************************************)
EXTENDS WebPages, TLAPS

(* The shell: its types and the two properties about it.                     *)
ShellInv == ShellTypeOK /\ ThemeShown /\ DraftIsSaved

(* A form always offers a category of its type, and a transaction is negated *)
(* as the type of its form was.                                              *)
Kinds == {"Inflow", "Outflow"}
FormType ==
  {f \in [type : Kinds, category : InflowCategories \cup OutflowCategories,
          method : Labels \cup {Cash}] : f.category \in Categories(f.type)}
TxType ==
  {t \in [category : InflowCategories \cup OutflowCategories, method : Labels \cup {Cash},
          negated : BOOLEAN] : t.negated <=> t.category \in OutflowCategories}
CashflowView ==
  [tab : Tabs, accounts : Seq(Labels), subs : 0..MaxItems, reminders : BOOLEAN,
   txs : Seq(TxType), form : FormType \cup {None}, offset : -1..1]
AllocationView ==
  [month : 0..11, year : Int, type : Types \cup {"all"},
   upload : {"idle", "selected", "success"}, file : BOOLEAN]
CashflowInv ==
  /\ view \in CashflowView
  /\ Len(view.accounts) <= MaxItems
  /\ IF "add transaction" \in dialogs THEN view.form \in FormType ELSE view.form = None
AllocationInv ==
  /\ view \in AllocationView
  /\ view.file = (view.upload # "idle")
  /\ "import records" \notin dialogs => view.upload = "idle"

(* A dialog is open on the page whose buttons open it.                       *)
DialogsFit ==
  /\ dialogs \cap {"accounts", "add subscription", "add transaction"} # {} => path = "/cashflow"
  /\ "import records" \in dialogs => path = "/allocation"
ViewInv ==
  /\ path = "/cashflow" => CashflowInv
  /\ path = "/allocation" => AllocationInv
  /\ path \in {"/dashboard", "/reports"} => view = [mounted |-> TRUE]
  /\ DialogsFit
  /\ query \in Visit(path)
PagesInv == ShellInv /\ ViewInv /\ acts \in 0..MaxActs

-----------------------------------------------------------------------------
(* What None is not, and what stands in the order of the layers.             *)
LEMMA NoneApart ==
  /\ None \notin Panels /\ None \notin Overlays /\ None \notin {"detail", "password"}
  /\ None # "settings" /\ None # "notifications" /\ None # "profile"
  /\ None # "myAccount" /\ None # "notificationCenter"
  /\ None \notin [editing : BOOLEAN, draft : Names, saved : Names]
BY NoneAssumption DEF Panels, Overlays

(* A profile is mounted with a name that is its own draft.                   *)
LEMMA FirstAccountType ==
  /\ FirstAccount \in [editing : BOOLEAN, draft : Names, saved : Names]
  /\ FirstAccount.draft = FirstAccount.saved /\ ~FirstAccount.editing
<1> DEFINE n == CHOOSE x \in Names : TRUE
<1>1. n \in Names
  BY PageShellAssumption
<1>2. FirstAccount = [editing |-> FALSE, draft |-> n, saved |-> n]
  BY DEF FirstAccount
<1> HIDE DEF n
<1> QED
  BY <1>1, <1>2

(* A press leaves the popover as it is or closes it.                         *)
LEMMA PressKeepsShell ==
  ASSUME ShellInv, NEW layer, Press(layer), path' \in Paths,
         UNCHANGED <<overlayVars, attr, stored>>, dialogs' \subseteq Dialogs
  PROVE  ShellInv'
<1>1. \/ openPanel' = openPanel /\ isDark' = (openPanel # None /\ isDark)
      \/ openPanel' = None /\ isDark' = FALSE
  BY DEF Press
<1>2. (isDark' => openPanel' = "settings") /\ openPanel' \in Panels \cup {None} /\ isDark' \in BOOLEAN
  BY <1>1 DEF ShellInv, ShellTypeOK
<1>3. ThemeShown'
  BY <1>1, NoneApart DEF ShellInv, ShellTypeOK, ThemeShown
<1> QED
  BY <1>2, <1>3 DEF ShellInv, ShellTypeOK, ThemeShown, DraftIsSaved, overlayVars

(* A page that mounts mounts an empty shell.                                 *)
LEMMA MountKeepsShell ==
  ASSUME ShellInv, NEW to \in Paths, MountShell(to),
         attr' \in {"dark", "light"}, stored' = stored
  PROVE  ShellInv'
BY NoneApart DEF ShellInv, ShellTypeOK, ThemeShown, DraftIsSaved, MountShell, overlayVars

(* No step of the shell leaves the theme or the profile wrong.               *)
LEMMA ShellKeepsShell ==
  ASSUME ShellInv, ShellStep
  PROVE  ShellInv' /\ path' = path /\ dialogs' = dialogs
<1> DEFINE A == [editing : BOOLEAN, draft : Names, saved : Names]
<1>0. /\ account # None <=> openOverlay = "myAccount"
      /\ openOverlay = "myAccount" => account \in A
  BY NoneApart DEF ShellInv, ShellTypeOK
<1> USE DEF overlayVars, themeVars
<1>1. CASE ToggleTheme
  BY <1>1 DEF ToggleTheme, ShellInv, ShellTypeOK, ThemeShown, DraftIsSaved
<1>2. CASE OtherTabToggles
  BY <1>2 DEF OtherTabToggles, ShellInv, ShellTypeOK, ThemeShown, DraftIsSaved
<1>3. CASE ClosePanel
  BY <1>3, NoneApart DEF ClosePanel, ShellInv, ShellTypeOK, ThemeShown, DraftIsSaved
<1>4. CASE OpenOverlay
  <2>1. openPanel' = None /\ isDark' = FALSE /\ UNCHANGED <<path, attr, stored, dialogs>>
    BY <1>4 DEF OpenOverlay
  <2>2. openOverlay' \in Overlays
    BY <1>4, NoneApart DEF OpenOverlay, LedTo, NotificationPopover, ProfilePopover, Overlays,
                           ShellInv, ShellTypeOK, Panels
  <2>3. CASE openOverlay' = openOverlay
    <3>1. nested' = nested /\ account' = account
      BY <1>4, <2>3 DEF OpenOverlay
    <3> QED
      BY <2>1, <2>2, <2>3, <3>1, NoneApart DEF ShellInv, ShellTypeOK, ThemeShown, DraftIsSaved
  <2>4. CASE openOverlay' # openOverlay
    <3>1. nested' = None /\ account' = IF openOverlay' = "myAccount" THEN FirstAccount ELSE None
      BY <1>4, <2>4 DEF OpenOverlay
    <3>2. ShellTypeOK'
      BY <2>1, <2>2, <3>1, FirstAccountType DEF ShellInv, ShellTypeOK
    <3>3. ThemeShown' /\ DraftIsSaved'
      BY <2>1, <3>1, FirstAccountType, NoneApart DEF ThemeShown, DraftIsSaved
    <3> QED
      BY <2>1, <3>2, <3>3 DEF ShellInv
  <2> QED
    BY <2>1, <2>3, <2>4
<1>5. ASSUME NEW panel \in Panels, Toggle(panel) PROVE ShellInv' /\ path' = path /\ dialogs' = dialogs
  BY <1>5 DEF Toggle, MountedTheme, ShellInv, ShellTypeOK, ThemeShown, DraftIsSaved
<1>6. ASSUME NEW layer, InOverlay(layer),
             nested' \in {None} \cup (CASE openOverlay' = "notificationCenter" -> {"detail"}
                                         [] openOverlay' = "myAccount" -> {"password"}
                                         [] OTHER -> {}),
             openOverlay' \in Overlays \cup {None},
             IF openOverlay' = "myAccount" THEN account' \in A ELSE account' = None,
             DraftIsSaved'
      PROVE  ShellInv' /\ path' = path /\ dialogs' = dialogs
  <2>1. \/ openPanel' = openPanel /\ isDark' = (openPanel # None /\ isDark)
        \/ openPanel' = None /\ isDark' = FALSE
    BY <1>6 DEF Press, InOverlay
  <2>2. (isDark' => openPanel' = "settings") /\ openPanel' \in Panels \cup {None} /\ isDark' \in BOOLEAN
    BY <2>1 DEF ShellInv, ShellTypeOK
  <2>3. UNCHANGED <<path, attr, stored, dialogs>>
    BY <1>6 DEF InOverlay
  <2>4. ThemeShown'
    BY <2>1, <2>3, NoneApart DEF ShellInv, ShellTypeOK, ThemeShown
  <2> QED
    BY <1>6, <2>2, <2>3, <2>4 DEF ShellInv, ShellTypeOK
<1>7. CASE CloseOverlay
  BY <1>6, <1>7, NoneApart DEF CloseOverlay, DraftIsSaved
<1>8. CASE CloseNested
  BY <1>6, <1>8, NoneApart DEF CloseNested, DraftIsSaved, ShellInv, ShellTypeOK
<1>9. CASE SelectNotification
  BY <1>6, <1>9, NoneApart DEF SelectNotification, DraftIsSaved, ShellInv, ShellTypeOK
<1>10. ASSUME NEW c, InAccount(c), account' \in A, openOverlay' = openOverlay,
              nested' = nested \/ nested' = "password",
              ~account'.editing => account'.draft = account'.saved
       PROVE  ShellInv' /\ path' = path /\ dialogs' = dialogs
  <2>1. openOverlay = "myAccount" /\ InOverlay("overlay")
    BY <1>10 DEF InAccount
  <2>2. nested' \in {None} \cup {"password"}
    BY <1>10, <2>1 DEF ShellInv, ShellTypeOK
  <2> QED
    BY <1>6, <1>10, <2>1, <2>2 DEF DraftIsSaved, ShellInv, ShellTypeOK
<1>11. ASSUME NEW c, InAccount(c) PROVE account \in A /\ (account.editing <=> c \in {"field", "save", "cancel"})
  BY <1>0, <1>11 DEF InAccount, AccountControls
<1>12. CASE EditProfile
  <2>1. account \in A /\ InAccount("edit") /\ account' = [account EXCEPT !.editing = TRUE]
    BY <1>11, <1>12 DEF EditProfile
  <2> QED
    BY <1>10, <1>12, <2>1 DEF EditProfile
<1>13. CASE TypeField
  <2>1. account \in A /\ InAccount("field") /\ account.editing
    BY <1>11, <1>13 DEF TypeField
  <2>2. PICK n \in Names : account' = [account EXCEPT !.draft = n]
    BY <1>13 DEF TypeField
  <2> QED
    BY <1>10, <1>13, <2>1, <2>2 DEF TypeField
<1>14. CASE HandleSave
  <2>1. account \in A /\ InAccount("save")
    BY <1>11, <1>14 DEF HandleSave
  <2> QED
    BY <1>10, <1>14, <2>1 DEF HandleSave
<1>15. CASE HandleCancel
  <2>1. account \in A /\ InAccount("cancel")
    BY <1>11, <1>15 DEF HandleCancel
  <2> QED
    BY <1>10, <1>15, <2>1 DEF HandleCancel, Cancelled
<1>16. CASE OpenPassword
  <2>1. account \in A /\ InAccount("password") /\ ~account.editing
    BY <1>11, <1>16 DEF OpenPassword
  <2>2. account.draft = account.saved
    BY <1>0, <2>1 DEF ShellInv, DraftIsSaved, InAccount
  <2> QED
    BY <1>10, <1>16, <2>1, <2>2 DEF OpenPassword
<1> QED
  BY <1>1, <1>2, <1>3, <1>4, <1>5, <1>7, <1>8, <1>9, <1>12, <1>13, <1>14, <1>15, <1>16
     DEF ShellStep

-----------------------------------------------------------------------------
(* The dialog that a button opens belongs to the page of the button.         *)
LEMMA ButtonsFit ==
  ASSUME ViewInv, path \in Paths, NEW d \in Buttons
  PROVE  /\ d \in {"accounts", "add subscription", "add transaction"} => path = "/cashflow"
         /\ d = "import records" => path = "/allocation"
<1>1. CASE path = "/cashflow"
  <2>1. view.tab \in Tabs
    BY <1>1 DEF ViewInv, CashflowInv, CashflowView
  <2>2. CashflowButtons \in {OverviewButtons, InflowButtons, OutflowButtons, TransactionButtons,
                             SubscriptionButtons, TargetButtons}
    BY <2>1, Zenon DEF CashflowButtons, Tabs
  <2>3. d # "import records"
    BY <1>1, <2>2 DEF Buttons, On, OverviewButtons, InflowButtons, OutflowButtons,
                      TransactionButtons, SubscriptionButtons, TargetButtons
  <2> QED
    BY <1>1, <2>3
<1>2. CASE path = "/allocation"
  BY <1>2 DEF Buttons, On, AllocationButtons
<1>3. CASE path \in {"/dashboard", "/reports"}
  BY <1>3 DEF Buttons, On, ReportsButtons
<1> QED
  BY <1>1, <1>2, <1>3 DEF Paths

(* Taking one element out of a sequence, putting one before it.              *)
LEMMA RemovedType ==
  ASSUME NEW S, NEW s \in Seq(S), NEW i \in DOMAIN s
  PROVE  RemoveAt(s, i) \in Seq(S) /\ Len(RemoveAt(s, i)) <= Len(s)
<1>1. i \in 1..Len(s) /\ Len(s) \in Nat
  OBVIOUS
<1>2. SubSeq(s, 1, i - 1) \in Seq(S) /\ Len(SubSeq(s, 1, i - 1)) = i - 1
  BY <1>1
<1>3. SubSeq(s, i + 1, Len(s)) \in Seq(S) /\ Len(SubSeq(s, i + 1, Len(s))) = Len(s) - i
  BY <1>1
<1> QED
  BY <1>1, <1>2, <1>3 DEF RemoveAt

(* The records the two stateful pages keep.                                  *)
LEMMA CashflowRecord ==
  ASSUME NEW a \in Tabs, NEW b \in Seq(Labels), NEW c \in 0..MaxItems, NEW d \in BOOLEAN,
         NEW e \in Seq(TxType), NEW f \in FormType \cup {None}, NEW g \in -1..1
  PROVE  [tab |-> a, accounts |-> b, subs |-> c, reminders |-> d,
          txs |-> e, form |-> f, offset |-> g] \in CashflowView
BY DEF CashflowView

(* The same of the allocation page.                                          *)
LEMMA AllocationRecord ==
  ASSUME NEW a \in 0..11, NEW b \in Int, NEW c \in Types \cup {"all"},
         NEW d \in {"idle", "selected", "success"}, NEW e \in BOOLEAN
  PROVE  [month |-> a, year |-> b, type |-> c, upload |-> d, file |-> e] \in AllocationView
BY DEF AllocationView

(* What a page starts with.                                                  *)
LEMMA FirstViewType ==
  ASSUME NEW to \in Paths, NEW tab
  PROVE  /\ to = "/cashflow" => /\ FirstView(to, tab) \in CashflowView
                                /\ Len(FirstView(to, tab).accounts) <= MaxItems
                                /\ FirstView(to, tab).form = None
                                /\ tab \in Tabs => FirstView(to, tab).tab = tab
         /\ to = "/allocation" => /\ FirstView(to, tab) \in AllocationView
                                  /\ FirstView(to, tab).upload = "idle"
                                  /\ FirstView(to, tab).file = FALSE
         /\ to \in {"/dashboard", "/reports"} => FirstView(to, tab) = [mounted |-> TRUE]
<1> DEFINE l == CHOOSE x \in Labels : TRUE
           t == IF tab \in Tabs THEN tab ELSE "Overview"
<1>1. l \in Labels
  BY DataPagesAssumption
<1>2. InitialAccounts = <<l>>
  BY DEF InitialAccounts
<1>3. t \in Tabs /\ (tab \in Tabs => t = tab)
  BY DEF Tabs
<1>4. FirstView("/cashflow", tab) =
        [tab |-> t, accounts |-> InitialAccounts, subs |-> 0, reminders |-> TRUE,
         txs |-> <<>>, form |-> None, offset |-> 0]
  BY DEF FirstView, FirstInTab
<1> HIDE DEF l, t
<1>5. InitialAccounts \in Seq(Labels) /\ Len(InitialAccounts) = 1
  BY <1>1, <1>2
<1>6. <<>> \in Seq(TxType) /\ MaxItems >= 1 /\ MaxItems \in Nat
  BY DataPagesAssumption
<1> DEFINE v == FirstView("/cashflow", tab)
<1>7. v \in CashflowView
  <2> DEFINE zero == 0
             yes == TRUE
             none == None
  <2>1. zero \in -1..1 /\ zero \in 0..MaxItems /\ yes \in BOOLEAN
        /\ none \in FormType \cup {None}
    BY <1>6
  <2>2. v = [tab |-> t, accounts |-> InitialAccounts, subs |-> zero, reminders |-> yes,
             txs |-> <<>>, form |-> none, offset |-> zero]
    BY <1>4
  <2> HIDE DEF zero, yes, none
  <2>3. PICK txs \in Seq(TxType) : txs = <<>>
    BY <1>6
  <2> HIDE DEF v
  <2> QED
    BY <1>3, <1>5, <2>1, <2>2, <2>3, CashflowRecord, Zenon
<1>8. v.accounts = InitialAccounts /\ v.form = None /\ v.tab = t
  BY <1>4
<1> DEFINE w == FirstView("/allocation", tab)
<1>9. w = [month |-> LatestMonth, year |-> 0, type |-> "all", upload |-> "idle", file |-> FALSE]
  BY DEF FirstView
<1>10. w \in AllocationView
  <2> DEFINE zero == 0
             no == FALSE
  <2>1. zero \in Int /\ no \in BOOLEAN
    OBVIOUS
  <2>2. w = [month |-> LatestMonth, year |-> zero, type |-> "all", upload |-> "idle", file |-> no]
    BY <1>9
  <2> HIDE DEF zero, no
  <2>3. "all" \in Types \cup {"all"} /\ "idle" \in {"idle", "selected", "success"}
    OBVIOUS
  <2> HIDE DEF w
  <2> QED
    BY <2>1, <2>2, <2>3, AllocationRecord, DataPagesAssumption, Zenon
<1>11. w.upload = "idle" /\ w.file = FALSE
  BY <1>9
<1>12. to \in {"/dashboard", "/reports"} => FirstView(to, tab) = [mounted |-> TRUE]
  BY DEF FirstView
<1> QED
  BY <1>3, <1>5, <1>6, <1>7, <1>8, <1>10, <1>11, <1>12

(* A page that mounts has a good view.                                       *)
LEMMA MountKeepsView ==
  ASSUME NEW to \in Paths, MountShell(to), view' = FirstView(to, query'), query' \in Visit(to)
  PROVE  ViewInv'
<1>1. path' = to /\ dialogs' = {}
  BY DEF MountShell
<1> QED
  BY <1>1, FirstViewType DEF ViewInv, CashflowInv, AllocationInv, DialogsFit, Paths

(* A step within the cashflow page, within the allocation page.              *)
LEMMA CashflowStep ==
  ASSUME ViewInv, path = "/cashflow", path' = path, CashflowInv', dialogs' \subseteq dialogs \cup
           {"accounts", "add subscription", "add transaction"}, query' \in Visit(path)
  PROVE  ViewInv'
BY DEF ViewInv, DialogsFit, Paths

(* The same of the allocation page.                                          *)
LEMMA AllocationStep ==
  ASSUME ViewInv, path = "/allocation", path' = path, AllocationInv', dialogs' \subseteq dialogs,
         query' = query
  PROVE  ViewInv'
BY DEF ViewInv, DialogsFit, Paths

(* Giving one field of the cashflow view a value of its type.                *)
LEMMA CashflowFields ==
  ASSUME NEW v \in CashflowView
  PROVE  /\ \A x \in Seq(Labels) : [v EXCEPT !.accounts = x] \in CashflowView
         /\ \A x \in 0..MaxItems : [v EXCEPT !.subs = x] \in CashflowView
         /\ \A x \in BOOLEAN : [v EXCEPT !.reminders = x] \in CashflowView
         /\ \A x \in FormType \cup {None} : [v EXCEPT !.form = x] \in CashflowView
         /\ \A x \in -1..1 : [v EXCEPT !.offset = x] \in CashflowView
         /\ \A x \in Seq(TxType), f \in FormType \cup {None} :
              [v EXCEPT !.txs = x, !.form = f] \in CashflowView
BY DEF CashflowView

(* What a form may become, and the transaction it makes.                     *)
LEMMA FormSteps ==
  ASSUME NEW f \in FormType
  PROVE  /\ \A t \in Kinds : WithType(f, t) \in FormType
         /\ \A c \in Categories(f.type) : [f EXCEPT !.category = c] \in FormType
         /\ \A m \in Labels \cup {Cash} : [f EXCEPT !.method = m] \in FormType
         /\ Transaction(f) \in TxType
<1>1. \A t \in Kinds : FirstOf(t) \in Categories(t)
                       /\ Categories(t) \subseteq InflowCategories \cup OutflowCategories
  BY DataPagesAssumption DEF FirstOf, Categories, Kinds
<1>2. /\ f \in [type : Kinds, category : InflowCategories \cup OutflowCategories,
                method : Labels \cup {Cash}]
      /\ f.category \in Categories(f.type) /\ f.type \in Kinds
  BY DEF FormType
<1>3. \A t \in Kinds : WithType(f, t) \in FormType
  BY <1>1, <1>2 DEF WithType, FormType
<1>4. \A c \in Categories(f.type) : [f EXCEPT !.category = c] \in FormType
  BY <1>1, <1>2 DEF FormType
<1>5. \A m \in Labels \cup {Cash} : [f EXCEPT !.method = m] \in FormType
  BY <1>2 DEF FormType
<1>6. f.type # "Inflow" <=> f.category \in OutflowCategories
  BY <1>2, DataPagesAssumption DEF Categories, Kinds
<1>7. PICK n \in BOOLEAN : n <=> f.type # "Inflow"
  OBVIOUS
<1>8. Transaction(f) = [category |-> f.category, method |-> f.method, negated |-> (f.type # "Inflow")]
  BY DEF Transaction
<1>9. /\ Transaction(f).category = f.category /\ Transaction(f).negated = (f.type # "Inflow")
      /\ Transaction(f) \in [category : InflowCategories \cup OutflowCategories,
                             method : Labels \cup {Cash}, negated : BOOLEAN]
  BY <1>2, <1>8
<1>10. Transaction(f) \in TxType
  BY <1>6, <1>9 DEF TxType
<1> QED
  BY <1>3, <1>4, <1>5, <1>10

(* Opening a dialog.                                                         *)
LEMMA OpenKeepsView ==
  ASSUME ViewInv, path \in Paths, NEW d \in Dialogs, OpenDialog(d)
  PROVE  ViewInv'
<1>0. /\ d \in Buttons /\ d \notin dialogs /\ dialogs' = dialogs \cup {d}
      /\ view' = Opened(d) /\ query' = query /\ path' = path
  BY DEF OpenDialog, Shown
<1>1. /\ d \in {"accounts", "add subscription", "add transaction"} => path = "/cashflow"
      /\ d = "import records" => path = "/allocation"
  BY <1>0, ButtonsFit
<1>2. DialogsFit' /\ query' \in Visit(path')
  BY <1>0, <1>1 DEF ViewInv, DialogsFit
<1>3. CASE d = "add transaction"
  <2>1. path = "/cashflow" /\ CashflowInv
    BY <1>1, <1>3 DEF ViewInv
  <2>2. FirstMethod \in Labels \cup {Cash}
    <3>1. view.accounts \in Seq(Labels)
      BY <2>1 DEF CashflowInv, CashflowView
    <3>2. \A a \in Seq(Labels) : a # <<>> => Head(a) \in Labels
      OBVIOUS
    <3> QED
      BY <3>1, <3>2, Zenon DEF FirstMethod
  <2> DEFINE f == [type |-> "Outflow", category |-> Food, method |-> FirstMethod]
  <2>3. f \in FormType
    BY <2>2, DataPagesAssumption DEF FormType, Categories, Kinds
  <2>4. view' = [view EXCEPT !.form = f]
    BY <1>0, <1>3 DEF Opened
  <2> HIDE DEF f
  <2>5. view' \in CashflowView
    BY <2>1, <2>3, <2>4, CashflowFields DEF CashflowInv
  <2>6. view'.form = f /\ view'.accounts = view.accounts /\ view'.tab = view.tab
    BY <2>1, <2>4 DEF CashflowInv, CashflowView
  <2>7. CashflowInv'
    BY <1>0, <1>3, <2>1, <2>3, <2>5, <2>6 DEF CashflowInv
  <2> QED
    BY <1>0, <1>2, <2>1, <2>7 DEF ViewInv
<1>4. CASE d = "import records"
  <2>1. path = "/allocation" /\ view \in AllocationView
    BY <1>1, <1>4 DEF ViewInv, AllocationInv
  <2>2. view' = [view EXCEPT !.upload = "idle", !.file = FALSE]
    BY <1>0, <1>4 DEF Opened
  <2>3. view' \in AllocationView /\ view'.upload = "idle" /\ view'.file = FALSE
    BY <2>1, <2>2 DEF AllocationView
  <2> QED
    BY <1>0, <1>2, <2>1, <2>3 DEF ViewInv, AllocationInv
<1>5. CASE d \notin {"add transaction", "import records"}
  <2>1. view' = view
    BY <1>0, <1>5 DEF Opened
  <2> QED
    BY <1>0, <1>2, <1>5, <2>1 DEF ViewInv, CashflowInv, AllocationInv
<1> QED
  BY <1>3, <1>4, <1>5

(* Closing a dialog, whether its own button does it or Escape with all the   *)
(* others.                                                                   *)
LEMMA CloseKeepsView ==
  ASSUME ViewInv, path \in Paths, path' = path, query' = query, dialogs' \subseteq dialogs,
         \/ view' = Closed("add transaction") /\ "add transaction" \in dialogs
              /\ "add transaction" \notin dialogs'
         \/ view' = Closed("import records") /\ "import records" \in dialogs
              /\ "import records" \notin dialogs'
         \/ view' = view
              /\ dialogs \cap {"add transaction", "import records"} \subseteq dialogs'
  PROVE  ViewInv'
<1>1. DialogsFit' /\ query' \in Visit(path')
  BY DEF ViewInv, DialogsFit
<1>2. CASE view' = Closed("add transaction") /\ "add transaction" \in dialogs
             /\ "add transaction" \notin dialogs'
  <2>1. path = "/cashflow" /\ CashflowInv
    BY <1>2 DEF ViewInv, DialogsFit
  <2>2. view' = [view EXCEPT !.form = None]
    BY <1>2 DEF Closed
  <2>3. view' \in CashflowView
    BY <2>1, <2>2, CashflowFields DEF CashflowInv
  <2>4. view'.form = None /\ view'.accounts = view.accounts /\ view'.tab = view.tab
    BY <2>1, <2>2 DEF CashflowInv, CashflowView
  <2>5. CashflowInv'
    BY <1>2, <2>1, <2>3, <2>4 DEF CashflowInv
  <2> QED
    BY <1>1, <2>1, <2>5 DEF ViewInv
<1>3. CASE view' = Closed("import records") /\ "import records" \in dialogs
             /\ "import records" \notin dialogs'
  <2>1. path = "/allocation" /\ view \in AllocationView
    BY <1>3 DEF ViewInv, DialogsFit, AllocationInv
  <2>2. view' = [view EXCEPT !.upload = "idle", !.file = FALSE]
    BY <1>3 DEF Closed
  <2>3. view' \in AllocationView /\ view'.upload = "idle" /\ view'.file = FALSE
    BY <2>1, <2>2 DEF AllocationView
  <2> QED
    BY <1>1, <2>1, <2>3 DEF ViewInv, AllocationInv
<1>4. CASE view' = view /\ dialogs \cap {"add transaction", "import records"} \subseteq dialogs'
  BY <1>1, <1>4 DEF ViewInv, CashflowInv, AllocationInv
<1> QED
  BY <1>2, <1>3, <1>4

(* Changing the tab.                                                         *)
LEMMA TabKeepsView ==
  ASSUME ViewInv, path \in Paths, NEW tab \in Tabs, HandleTabChange(tab)
  PROVE  ViewInv'
<1>1. /\ path = "/cashflow" /\ path' = path /\ CashflowInv /\ query' = tab
      /\ view \in CashflowView /\ query' \in Visit(path)
  BY DEF HandleTabChange, Shown, On, ViewInv, Visit, Addresses, CashflowInv
<1>2. CASE tab = view.tab
  <2>1. view' = view /\ dialogs' = dialogs
    BY <1>2 DEF HandleTabChange
  <2> QED
    BY <1>1, <1>2, <2>1, CashflowStep DEF CashflowInv
<1>3. CASE tab # view.tab
  <2>1. /\ view' = FirstInTab(tab, view.accounts, view.subs, view.reminders)
        /\ dialogs' = dialogs \ TabDialogs
    BY <1>3 DEF HandleTabChange
  <2>2. "add transaction" \notin dialogs' /\ dialogs' \subseteq dialogs
    BY <2>1 DEF TabDialogs
  <2> DEFINE zero == 0
             none == None
             empty == <<>>
  <2>3. /\ view.accounts \in Seq(Labels) /\ view.subs \in 0..MaxItems
        /\ view.reminders \in BOOLEAN /\ zero \in -1..1 /\ none \in FormType \cup {None}
        /\ empty \in Seq(TxType)
    BY <1>1 DEF CashflowView
  <2>4. view' = [tab |-> tab, accounts |-> view.accounts, subs |-> view.subs,
                 reminders |-> view.reminders, txs |-> empty, form |-> none, offset |-> zero]
    BY <2>1 DEF FirstInTab
  <2>5. view'.tab = tab /\ view'.accounts = view.accounts /\ view'.form = None
    BY <2>4
  <2> HIDE DEF zero, none, empty
  <2>6. view' \in CashflowView
    BY <2>3, <2>4, CashflowRecord, Zenon
  <2>7. CashflowInv'
    BY <1>1, <2>2, <2>5, <2>6 DEF CashflowInv
  <2> QED
    BY <1>1, <2>2, <2>7, CashflowStep
<1> QED
  BY <1>2, <1>3

(* The other handlers of the cashflow page, by the field each changes.       *)
LEMMA CashflowKeepsView ==
  ASSUME ViewInv, path \in Paths,
         \/ \E label \in Labels : AddAccount(label)
         \/ \E i \in 1..MaxItems : RemoveAccount(i)
         \/ ToggleReminders \/ AddSubscription \/ ShiftMonth \/ ChooseInForm \/ HandleAdd
  PROVE  ViewInv'
<1>1. /\ path = "/cashflow" /\ CashflowInv /\ view \in CashflowView
      /\ view.accounts \in Seq(Labels) /\ view.txs \in Seq(TxType)
      /\ view.subs \in 0..MaxItems /\ MaxItems \in Nat
  BY DataPagesAssumption
     DEF ViewInv, DialogsFit, CashflowInv, CashflowView, AddAccount, RemoveAccount,
         ToggleReminders, AddSubscription, ShiftMonth, ChooseInForm, HandleAdd, On
<1>2. ASSUME path' = path, query' = query, view' \in CashflowView,
             view'.accounts = view.accounts, view'.tab = view.tab,
             dialogs' \subseteq dialogs,
             IF "add transaction" \in dialogs' THEN view'.form \in FormType ELSE view'.form = None
      PROVE  ViewInv'
  <2>1. CashflowInv'
    BY <1>1, <1>2 DEF CashflowInv
  <2>2. query' \in Visit(path)
    BY <1>2 DEF ViewInv
  <2> QED
    BY <1>1, <1>2, <2>1, <2>2, CashflowStep
<1>3. ASSUME NEW accounts \in Seq(Labels), Len(accounts) <= MaxItems, NEW layer,
             InPage(layer, [view EXCEPT !.accounts = accounts])
      PROVE  ViewInv'
  <2>1. /\ path' = path /\ query' = query /\ dialogs' = dialogs
        /\ view' = [view EXCEPT !.accounts = accounts]
    BY <1>3 DEF InPage, Shown
  <2>2. view' \in CashflowView /\ view'.accounts = accounts /\ view'.tab = view.tab
        /\ view'.form = view.form
    BY <1>1, <2>1, CashflowFields DEF CashflowView
  <2>3. CashflowInv' /\ query' \in Visit(path)
    BY <1>1, <1>3, <2>1, <2>2 DEF CashflowInv, ViewInv
  <2> QED
    BY <1>1, <2>1, <2>3, CashflowStep
<1>4. ASSUME NEW label \in Labels, AddAccount(label) PROVE ViewInv'
  <2>1. /\ InPage("accounts", [view EXCEPT !.accounts = Append(@, label)])
        /\ Len(view.accounts) < MaxItems
    BY <1>4 DEF AddAccount
  <2>2. Append(view.accounts, label) \in Seq(Labels) /\ Len(Append(view.accounts, label)) <= MaxItems
    BY <1>1, <2>1
  <2>3. PICK a : a = Append(view.accounts, label)
    OBVIOUS
  <2> QED
    BY <1>3, <2>1, <2>2, <2>3
<1>5. ASSUME NEW i \in 1..MaxItems, RemoveAccount(i) PROVE ViewInv'
  <2>1. /\ InPage("accounts", [view EXCEPT !.accounts = RemoveAt(@, i)])
        /\ i \in DOMAIN view.accounts
    BY <1>5 DEF RemoveAccount
  <2>2. RemoveAt(view.accounts, i) \in Seq(Labels)
        /\ Len(RemoveAt(view.accounts, i)) <= Len(view.accounts)
    BY <1>1, <2>1, RemovedType
  <2>3. PICK a : a = RemoveAt(view.accounts, i)
    OBVIOUS
  <2>4. Len(a) <= MaxItems
    <3>1. \A q \in Seq(Labels) : Len(q) \in Nat
      OBVIOUS
    <3>2. Len(view.accounts) \in Nat /\ Len(a) \in Nat
      BY <1>1, <2>2, <2>3, <3>1, Zenon
    <3>3. Len(view.accounts) <= MaxItems
      BY <1>1 DEF CashflowInv
    <3>4. Len(a) <= Len(view.accounts)
      BY <2>2, <2>3
    <3> QED
      BY <1>1, <3>2, <3>3, <3>4
  <2> QED
    BY <1>3, <2>1, <2>2, <2>3, <2>4
<1>6. CASE ToggleReminders
  <2>1. path' = path /\ query' = query /\ dialogs' = dialogs
        /\ view' = [view EXCEPT !.reminders = ~view.reminders]
    BY <1>6 DEF ToggleReminders, InPage, Shown
  <2>2. view' \in CashflowView /\ view'.accounts = view.accounts /\ view'.tab = view.tab
        /\ view'.form = view.form
    BY <1>1, <2>1 DEF CashflowView
  <2> QED
    BY <1>1, <1>2, <2>1, <2>2 DEF CashflowInv
<1>7. CASE AddSubscription
  <2>1. path' = path /\ query' = query /\ dialogs' = dialogs \ {"add subscription"}
        /\ view' = [view EXCEPT !.subs = view.subs + 1] /\ view.subs < MaxItems
    BY <1>7 DEF AddSubscription, Closing, Shown
  <2>3. view.subs + 1 \in 0..MaxItems
    <3>1. PICK n \in 0..MaxItems : n = view.subs
      BY <1>1
    <3>2. n < MaxItems
      BY <2>1, <3>1
    <3>3. n + 1 \in 0..MaxItems
      BY <1>1, <3>2
    <3> QED
      BY <3>1, <3>3
  <2>2. view' \in CashflowView /\ view'.accounts = view.accounts /\ view'.tab = view.tab
        /\ view'.form = view.form
    BY <1>1, <2>1, <2>3, CashflowFields DEF CashflowView
  <2> QED
    BY <1>1, <1>2, <2>1, <2>2 DEF CashflowInv
<1>8. CASE ShiftMonth
  <2>1. PICK o \in -1..1 : InPage("page", [view EXCEPT !.offset = o])
    BY <1>8 DEF ShiftMonth
  <2>2. path' = path /\ query' = query /\ dialogs' = dialogs /\ view' = [view EXCEPT !.offset = o]
    BY <2>1 DEF InPage, Shown
  <2>3. view' \in CashflowView /\ view'.accounts = view.accounts /\ view'.tab = view.tab
        /\ view'.form = view.form
    BY <1>1, <2>2, CashflowFields DEF CashflowView
  <2> QED
    BY <1>1, <1>2, <2>2, <2>3 DEF CashflowInv
<1>9. CASE ChooseInForm
  <2>1. "add transaction" \in dialogs /\ view.form \in FormType
    BY <1>1, <1>9 DEF ChooseInForm, CashflowInv
  <2>2. Methods(view.accounts) \subseteq Labels \cup {Cash}
    BY <1>1 DEF Methods
  <2>3. PICK form \in FormType : InPage("add transaction", [view EXCEPT !.form = form])
    BY <1>9, <2>1, <2>2, FormSteps DEF ChooseInForm, Kinds
  <2>4. path' = path /\ query' = query /\ dialogs' = dialogs /\ view' = [view EXCEPT !.form = form]
    BY <2>3 DEF InPage, Shown
  <2>5. view' \in CashflowView /\ view'.accounts = view.accounts /\ view'.tab = view.tab
        /\ view'.form = form
    BY <1>1, <2>4, CashflowFields DEF CashflowView
  <2> QED
    BY <1>2, <2>1, <2>4, <2>5
<1>10. CASE HandleAdd
  <2>1. view.form \in FormType
    BY <1>1, <1>10 DEF HandleAdd, CashflowInv
  <2>2. /\ path' = path /\ query' = query /\ dialogs' = dialogs \ {"add transaction"}
        /\ view' = [view EXCEPT !.txs = <<Transaction(view.form)>> \o view.txs, !.form = None]
    BY <1>10 DEF HandleAdd, Closing, Shown
  <2>3. Transaction(view.form) \in TxType
    BY <2>1, FormSteps
  <2>4. <<Transaction(view.form)>> \o view.txs \in Seq(TxType)
    BY <1>1, <2>3
  <2>5. view' \in CashflowView
    BY <1>1, <2>2, <2>4, CashflowFields
  <2>6. view'.accounts = view.accounts /\ view'.tab = view.tab /\ view'.form = None
    BY <1>1, <2>2 DEF CashflowView
  <2> QED
    BY <1>2, <2>2, <2>5, <2>6
<1> QED
  BY <1>4, <1>5, <1>6, <1>7, <1>8, <1>9, <1>10

(* The handlers of the investment records.                                   *)
LEMMA AllocationKeepsView ==
  ASSUME ViewInv, path \in Paths,
         ChangeMonth \/ ChooseType \/ HandleFile \/ HandleImport \/ Reset
  PROVE  ViewInv'
<1>1. /\ path = "/allocation" /\ AllocationInv /\ view \in AllocationView
      /\ path' = path /\ query' = query /\ dialogs' = dialogs
  BY DEF ViewInv, DialogsFit, AllocationInv, ChangeMonth, ChooseType, HandleFile, HandleImport,
         Reset, InUpload, InPage, Shown, On
<1>2. ASSUME view' \in AllocationView, view'.upload = view.upload, view'.file = view.file
      PROVE  ViewInv'
  BY <1>1, <1>2, AllocationStep DEF AllocationInv
<1>3. CASE ChangeMonth
  <2>1. view' = PrevMonth(view) \/ view' = NextMonth(view)
    BY <1>3 DEF ChangeMonth, InPage
  <2>2. PICK m \in 0..11, y \in Int : m = view.month /\ y = view.year
    BY <1>1 DEF AllocationView
  <2>3. PICK p \in 0..11, z \in Int : view' = [view EXCEPT !.month = p, !.year = z]
    <3>1. CASE view' = PrevMonth(view) /\ m = 0
      <4>1. view' = [view EXCEPT !.month = 11, !.year = y - 1]
        BY <2>2, <3>1 DEF PrevMonth
      <4>2. 11 \in 0..11 /\ y - 1 \in Int
        OBVIOUS
      <4> QED
        BY <4>1, <4>2
    <3>2. CASE view' = NextMonth(view) /\ m = 11
      <4>1. view' = [view EXCEPT !.month = 0, !.year = y + 1]
        BY <2>2, <3>2 DEF NextMonth
      <4>2. 0 \in 0..11 /\ y + 1 \in Int
        OBVIOUS
      <4> QED
        BY <4>1, <4>2
    <3>3. CASE view' = PrevMonth(view) /\ m # 0
      <4>1. view' = [view EXCEPT !.month = m - 1, !.year = y]
        BY <1>1, <2>2, <3>3 DEF PrevMonth, AllocationView
      <4>2. m - 1 \in 0..11
        BY <3>3
      <4> QED
        BY <4>1, <4>2
    <3>4. CASE view' = NextMonth(view) /\ m # 11
      <4>1. view' = [view EXCEPT !.month = m + 1, !.year = y]
        BY <1>1, <2>2, <3>4 DEF NextMonth, AllocationView
      <4>2. m + 1 \in 0..11
        BY <3>4
      <4> QED
        BY <4>1, <4>2
    <3> QED
      BY <2>1, <3>1, <3>2, <3>3, <3>4
  <2>4. view' \in AllocationView /\ view'.upload = view.upload /\ view'.file = view.file
    BY <1>1, <2>3 DEF AllocationView
  <2> QED
    BY <1>2, <2>4
<1>4. CASE ChooseType
  <2>1. PICK t \in Types \cup {"all"} : view' = [view EXCEPT !.type = t]
    BY <1>4 DEF ChooseType, InPage
  <2>2. view' \in AllocationView /\ view'.upload = view.upload /\ view'.file = view.file
    BY <1>1, <2>1 DEF AllocationView
  <2> QED
    BY <1>2, <2>2
<1>5. ASSUME NEW c, NEW u \in {"idle", "selected", "success"}, NEW f \in BOOLEAN,
             InUpload(c, u, f), f = (u # "idle")
      PROVE  ViewInv'
  <2>1. view' = [view EXCEPT !.upload = u, !.file = f] /\ "import records" \in dialogs
    BY <1>5 DEF InUpload, InPage
  <2>2. view' \in AllocationView /\ view'.upload = u /\ view'.file = f
    BY <1>1, <2>1 DEF AllocationView
  <2>3. view'.file = (view'.upload # "idle")
    BY <1>5, <2>2
  <2>4. AllocationInv'
    BY <1>1, <2>1, <2>2, <2>3 DEF AllocationInv
  <2> QED
    BY <1>1, <2>4, AllocationStep
<1>6. CASE HandleFile
  BY <1>5, <1>6 DEF HandleFile
<1>7. CASE HandleImport
  <2>1. PICK f \in BOOLEAN : f = view.file
    BY <1>1 DEF AllocationView
  <2>2. f = ("success" # "idle")
    BY <1>1, <1>7, <2>1 DEF HandleImport, InUpload, UploadControls, AllocationInv, AllocationView
  <2> QED
    BY <1>5, <1>7, <2>1, <2>2 DEF HandleImport
<1>8. CASE Reset
  BY <1>5, <1>8 DEF Reset
<1> QED
  BY <1>3, <1>4, <1>6, <1>7, <1>8

(* Every step of a page presses somewhere and leaves the shell to it.        *)
LEMMA PageStepShown ==
  ASSUME PageStep, dialogs \subseteq Dialogs
  PROVE  (\E layer : Shown(layer)) /\ dialogs' \subseteq Dialogs
<1>1. ASSUME NEW d \in Dialogs, OpenDialog(d) \/ CloseDialog(d)
      PROVE  (\E layer : Shown(layer)) /\ dialogs' \subseteq Dialogs
  BY <1>1 DEF OpenDialog, CloseDialog, Closing
<1>2. ASSUME NEW tab \in Tabs, HandleTabChange(tab)
      PROVE  (\E layer : Shown(layer)) /\ dialogs' \subseteq Dialogs
  BY <1>2 DEF HandleTabChange
<1>3. ASSUME NEW v, NEW layer, InPage(layer, v)
      PROVE  (\E l : Shown(l)) /\ dialogs' \subseteq Dialogs
  BY <1>3 DEF InPage
<1>4. ASSUME NEW v, NEW d, Closing(d, v)
      PROVE  (\E l : Shown(l)) /\ dialogs' \subseteq Dialogs
  BY <1>4 DEF Closing
<1>5. ASSUME NEW label \in Labels, AddAccount(label)
      PROVE  (\E l : Shown(l)) /\ dialogs' \subseteq Dialogs
  BY <1>3, <1>5 DEF AddAccount
<1>6. ASSUME NEW i \in 1..MaxItems, RemoveAccount(i)
      PROVE  (\E l : Shown(l)) /\ dialogs' \subseteq Dialogs
  BY <1>3, <1>6 DEF RemoveAccount
<1>7. CASE ToggleReminders
  BY <1>3, <1>7 DEF ToggleReminders
<1>8. CASE AddSubscription \/ HandleAdd
  BY <1>4, <1>8 DEF AddSubscription, HandleAdd
<1>9. CASE ShiftMonth \/ ChooseInForm
  BY <1>3, <1>9 DEF ShiftMonth, ChooseInForm
<1>10. CASE ChangeMonth \/ ChooseType
  BY <1>3, <1>10 DEF ChangeMonth, ChooseType
<1>11. CASE HandleFile \/ HandleImport \/ Reset
  BY <1>3, <1>11 DEF HandleFile, HandleImport, Reset, InUpload
<1> QED
  BY <1>1, <1>2, <1>5, <1>6, <1>7, <1>8, <1>9, <1>10, <1>11 DEF PageStep

-----------------------------------------------------------------------------
(* The tab is opened with PagesInv.                                          *)
LEMMA InitPages == Init => PagesInv
<1> SUFFICES ASSUME Init PROVE PagesInv
  OBVIOUS
<1>1. ShellInv
  BY NoneApart, PageShellAssumption
     DEF Init, ShellInv, ShellTypeOK, ThemeShown, DraftIsSaved
<1>2. ViewInv
  <2>1. path \in Paths /\ query \in Visit(path) /\ view = FirstView(path, query) /\ dialogs = {}
    BY DEF Init
  <2>2. path = "/cashflow" => CashflowInv
    BY <2>1, FirstViewType DEF CashflowInv
  <2>3. path = "/allocation" => AllocationInv
    <3>1. FALSE = ("idle" # "idle")
      OBVIOUS
    <3> QED
      BY <2>1, <3>1, FirstViewType DEF AllocationInv
  <2> QED
    BY <2>1, <2>2, <2>3, FirstViewType DEF ViewInv, DialogsFit
<1>3. acts \in 0..MaxActs
  BY WebPagesAssumption DEF Init
<1> QED
  BY <1>1, <1>2, <1>3 DEF PagesInv

(* Every act keeps it.                                                       *)
LEMMA NextPages ==
  ASSUME PagesInv, Next
  PROVE  PagesInv'
<1>0. /\ ShellInv /\ ViewInv /\ path \in Paths /\ dialogs \subseteq Dialogs
      /\ attr \in {"dark", "light"} /\ acts \in 0..MaxActs
  BY DEF PagesInv, ShellInv, ShellTypeOK
<1>1. acts' \in 0..MaxActs
  BY <1>0, WebPagesAssumption DEF Next
<1>2. CASE ShellStep /\ UNCHANGED pageVars
  <2>1. ShellInv' /\ path' = path /\ dialogs' = dialogs
    BY <1>0, <1>2, ShellKeepsShell
  <2>2. ViewInv'
    BY <1>0, <1>2, <2>1 DEF pageVars, ViewInv, CashflowInv, AllocationInv, DialogsFit
  <2> QED
    BY <1>1, <2>1, <2>2 DEF PagesInv
<1>3. CASE PageStep
  <2>1. PICK layer : Shown(layer)
    BY <1>0, <1>3, PageStepShown
  <2>2. ShellInv'
    BY <1>0, <1>3, <2>1, PageStepShown, PressKeepsShell DEF Shown
  <2>3. ASSUME NEW d \in Dialogs, CloseDialog(d) PROVE ViewInv'
    <3>1. /\ d \in dialogs /\ dialogs' = dialogs \ {d} /\ view' = Closed(d)
          /\ query' = query /\ path' = path
      BY <2>3 DEF CloseDialog, Closing, Shown
    <3>2. d \notin {"add transaction", "import records"} => view' = view
      BY <3>1 DEF Closed
    <3> QED
      BY <1>0, <3>1, <3>2, CloseKeepsView
  <2>4. ViewInv'
    <3>1. CASE \/ \E label \in Labels : AddAccount(label)
               \/ \E i \in 1..MaxItems : RemoveAccount(i)
               \/ ToggleReminders \/ AddSubscription \/ ShiftMonth \/ ChooseInForm \/ HandleAdd
      BY <1>0, <3>1, CashflowKeepsView
    <3>2. CASE ChangeMonth \/ ChooseType \/ HandleFile \/ HandleImport \/ Reset
      BY <1>0, <3>2, AllocationKeepsView
    <3>3. CASE \E d \in Dialogs : OpenDialog(d)
      BY <1>0, <3>3, OpenKeepsView
    <3>4. CASE \E tab \in Tabs : HandleTabChange(tab)
      BY <1>0, <3>4, TabKeepsView
    <3> QED
      BY <1>3, <2>3, <3>1, <3>2, <3>3, <3>4 DEF PageStep
  <2> QED
    BY <1>1, <2>2, <2>4 DEF PagesInv
<1>4. CASE FollowLink
  <2>1. PICK link \in Links :
          /\ query' = link.tab /\ UNCHANGED <<attr, stored>>
          /\ IF link.to = path
             THEN /\ UNCHANGED <<path, overlayVars, dialogs, view>>
                  /\ openPanel' \in {openPanel} \cup {p \in {None} : OnTop("header")}
                  /\ isDark' = (openPanel' # None /\ isDark)
             ELSE MountShell(link.to) /\ view' = FirstView(link.to, link.tab)
    BY <1>4 DEF FollowLink
  <2>2. /\ link.to \in Paths /\ (link.tab = None \/ (link.tab = "Target" /\ link.to = "/cashflow"))
        /\ link.to = path => link.tab = None
    <3>1. CASE link \in [to : Paths, tab : {None}]
      BY <3>1
    <3>2. CASE link \in [to : {t \in {"/cashflow"} : On("/allocation") \/ On("/dashboard")},
                        tab : {"Target"}]
      BY <3>2 DEF Paths, On
    <3> QED
      BY <3>1, <3>2 DEF Links
  <2>3. query' \in Visit(link.to)
    BY <2>1, <2>2 DEF Visit, Addresses, Tabs
  <2>4. CASE link.to # path
    <3>1. MountShell(link.to) /\ view' = FirstView(link.to, query')
      BY <2>1, <2>4
    <3>2. PICK to \in Paths : to = link.to
      BY <2>2
    <3> QED
      BY <1>0, <1>1, <2>1, <2>3, <3>1, <3>2, MountKeepsShell, MountKeepsView DEF PagesInv
  <2>5. CASE link.to = path
    <3>1. ShellInv'
      <4>1. \/ openPanel' = openPanel /\ isDark' = (openPanel # None /\ isDark)
            \/ openPanel' = None /\ isDark' = FALSE
        BY <2>1, <2>5
      <4>2. (isDark' => openPanel' = "settings") /\ openPanel' \in Panels \cup {None}
            /\ isDark' \in BOOLEAN
        BY <1>0, <4>1 DEF ShellInv, ShellTypeOK
      <4>3. ThemeShown'
        BY <1>0, <2>1, <4>1, NoneApart DEF ShellInv, ShellTypeOK, ThemeShown
      <4> QED
        BY <1>0, <2>1, <2>5, <4>2, <4>3 DEF ShellInv, ShellTypeOK, DraftIsSaved, overlayVars
    <3>2. query' = None /\ UNCHANGED <<path, dialogs, view>>
      BY <2>1, <2>2, <2>5
    <3>3. CashflowInv => CashflowInv'
      BY <3>2, TabsAssumption DEF CashflowInv
    <3>4. ViewInv'
      BY <1>0, <2>3, <2>5, <3>2, <3>3 DEF ViewInv, AllocationInv, DialogsFit
    <3> QED
      BY <1>1, <3>1, <3>4 DEF PagesInv
  <2> QED
    BY <2>4, <2>5
<1>5. CASE Reload
  <2>1. MountShell(path) /\ stored' = stored /\ query' = query /\ view' = FirstView(path, query)
    BY <1>5 DEF Reload
  <2>2. attr' \in {"dark", "light"}
    BY <1>0, <1>5 DEF Reload, InitTheme, ShellInv, ShellTypeOK
  <2>3. PICK to \in Paths : to = path
    BY <1>0
  <2> QED
    BY <1>0, <1>1, <2>1, <2>2, <2>3, MountKeepsShell, MountKeepsView DEF PagesInv, ViewInv
<1>6. CASE Escape
  <2>1. /\ openPanel' = None /\ isDark' = FALSE /\ openOverlay' = None /\ nested' = None
        /\ account' = None /\ dialogs' = {} /\ UNCHANGED <<path, attr, stored, query>>
    BY <1>6 DEF Escape, EscapeClosesLayers
  <2>2. ShellInv'
    BY <1>0, <2>1, NoneApart DEF ShellInv, ShellTypeOK, ThemeShown, DraftIsSaved
  <2>3. \/ view' = Closed("add transaction") /\ "add transaction" \in dialogs
        \/ view' = Closed("import records") /\ "import records" \in dialogs
        \/ view' = view /\ dialogs \cap {"add transaction", "import records"} = {}
    <3>1. view' = CASE "add transaction" \in dialogs -> Closed("add transaction")
                    [] "import records" \in dialogs -> Closed("import records")
                    [] OTHER -> view
      BY <1>6 DEF Escape
    <3>2. CASE "add transaction" \notin dialogs /\ "import records" \notin dialogs
      BY <3>1, <3>2
    <3>3. CASE "add transaction" \in dialogs /\ "import records" \notin dialogs
      BY <3>1, <3>3
    <3>4. CASE "add transaction" \notin dialogs /\ "import records" \in dialogs
      BY <3>1, <3>4
    <3>5. CASE "add transaction" \in dialogs /\ "import records" \in dialogs
      BY <1>0, <3>5 DEF ViewInv, DialogsFit
    <3> QED
      BY <3>2, <3>3, <3>4, <3>5
  <2>4. ViewInv'
    BY <1>0, <2>1, <2>3, CloseKeepsView
  <2> QED
    BY <1>1, <2>2, <2>4 DEF PagesInv
<1>7. CASE TraverseHistory
  <2>0. PICK to \in Paths : \E tab \in Visit(to) :
          /\ query' = tab /\ UNCHANGED <<attr, stored>>
          /\ IF to = path
             THEN UNCHANGED <<path, openPanel, isDark, overlayVars, dialogs, view>>
             ELSE MountShell(to) /\ view' = FirstView(to, tab)
    BY <1>7 DEF TraverseHistory
  <2>1. PICK tab \in Visit(to) :
          /\ query' = tab /\ UNCHANGED <<attr, stored>>
          /\ IF to = path
             THEN UNCHANGED <<path, openPanel, isDark, overlayVars, dialogs, view>>
             ELSE MountShell(to) /\ view' = FirstView(to, tab)
    BY <2>0
  <2>2. CASE to # path
    <3>1. MountShell(to) /\ view' = FirstView(to, query') /\ query' \in Visit(to)
      BY <2>1, <2>2
    <3> QED
      BY <1>0, <1>1, <2>1, <3>1, MountKeepsShell, MountKeepsView DEF PagesInv
  <2>3. CASE to = path
    <3>1. ShellInv'
      BY <1>0, <2>1, <2>3 DEF ShellInv, ShellTypeOK, ThemeShown, DraftIsSaved, overlayVars
    <3>2. ViewInv'
      BY <1>0, <2>1, <2>3 DEF ViewInv, CashflowInv, AllocationInv, DialogsFit
    <3> QED
      BY <1>1, <3>1, <3>2 DEF PagesInv
  <2> QED
    BY <2>2, <2>3
<1> QED
  BY <1>2, <1>3, <1>4, <1>5, <1>6, <1>7 DEF Next

(* PagesInv is what the theorems below follow from.                          *)
THEOREM PagesInvariance == Spec => []PagesInv
<1>1. PagesInv /\ UNCHANGED vars => PagesInv'
  <2> SUFFICES ASSUME PagesInv, UNCHANGED vars PROVE PagesInv'
    OBVIOUS
  <2>1. UNCHANGED <<path, openPanel, openOverlay, nested, account, attr, stored, isDark, dialogs,
                    query, view, acts>>
    BY DEF vars, shellVars, pageVars, overlayVars, themeVars
  <2>2. ShellInv'
    BY <2>1 DEF PagesInv, ShellInv, ShellTypeOK, ThemeShown, DraftIsSaved
  <2>3. ViewInv'
    BY <2>1 DEF PagesInv, ViewInv, CashflowInv, AllocationInv, DialogsFit
  <2> QED
    BY <2>1, <2>2, <2>3 DEF PagesInv
<1> QED
  BY InitPages, NextPages, <1>1, PTL DEF Spec

(* The state of the shell and of the pages always has its type: no form      *)
(* outlives its dialog, no month leaves the year, no upload loses its file.  *)
THEOREM PagesTypeCorrect == Spec => []TypeOK
<1>1. PagesInv => TypeOK
  <2> SUFFICES ASSUME PagesInv PROVE TypeOK
    OBVIOUS
  <2>1. CASE path = "/cashflow"
    <3>1. CashflowInv
      BY <2>1 DEF PagesInv, ViewInv
    <3>2. /\ view.tab \in Tabs /\ view.accounts \in Seq(Labels) /\ view.subs \in 0..MaxItems
          /\ view.reminders \in BOOLEAN /\ view.offset \in -1..1 /\ view.txs \in Seq(TxType)
      BY <3>1 DEF CashflowInv, CashflowView
    <3>3. \A i \in DOMAIN view.txs :
              view.txs[i] \in [category : InflowCategories \cup OutflowCategories,
                               method : Labels \cup {Cash}, negated : BOOLEAN]
      BY <3>2 DEF TxType
    <3>4. "add transaction" \in dialogs =>
            /\ view.form.category \in InflowCategories \cup OutflowCategories
            /\ view.form.method \in Labels \cup {Cash}
      BY <3>1 DEF CashflowInv, FormType
    <3>5. "add transaction" \notin dialogs => view.form = None
      BY <3>1 DEF CashflowInv
    <3>6. Len(view.accounts) <= MaxItems
      BY <3>1 DEF CashflowInv
    <3>7. ViewOK
      BY <2>1, <3>2, <3>3, <3>4, <3>5, <3>6, Zenon DEF ViewOK
    <3> QED
      BY <3>7 DEF TypeOK, PagesInv, ShellInv, ViewInv
  <2>2. CASE path = "/allocation"
    <3>1. AllocationInv
      BY <2>2 DEF PagesInv, ViewInv
    <3>2. ViewOK
      BY <2>2, <3>1 DEF ViewOK, AllocationInv, AllocationView
    <3> QED
      BY <3>2 DEF TypeOK, PagesInv, ShellInv, ViewInv
  <2>3. CASE path \in {"/dashboard", "/reports"}
    <3>1. ViewOK
      BY <2>3 DEF ViewOK, PagesInv, ViewInv
    <3> QED
      BY <3>1 DEF TypeOK, PagesInv, ShellInv, ViewInv
  <2> QED
    BY <2>1, <2>2, <2>3 DEF PagesInv, ShellInv, ShellTypeOK, Paths
<1> QED
  BY PagesInvariance, <1>1, PTL

(* No transaction of the list has a category of the other type, whatever was *)
(* chosen in the form before and in which order.                             *)
THEOREM CategoriesFitTypes == Spec => []CategoryFitsType
<1>1. PagesInv => CategoryFitsType
  <2> SUFFICES ASSUME PagesInv, path = "/cashflow", NEW i \in DOMAIN view.txs
               PROVE  view.txs[i].negated <=> view.txs[i].category \in OutflowCategories
    BY DEF CategoryFitsType
  <2>1. view.txs \in Seq(TxType)
    BY DEF PagesInv, ViewInv, CashflowInv, CashflowView
  <2>2. view.txs[i] \in TxType
    BY <2>1
  <2> QED
    BY <2>2 DEF TxType
<1> QED
  BY PagesInvariance, <1>1, PTL

(* The switch of the settings popover shows the theme of this document,      *)
(* though other tabs write the same key.                                     *)
THEOREM ThemesShown == Spec => []ThemeShown
<1>1. PagesInv => ThemeShown
  BY DEF PagesInv, ShellInv
<1> QED
  BY PagesInvariance, <1>1, PTL

(* No way out of the profile editor leaves a draft behind.                   *)
THEOREM DraftsAreSaved == Spec => []DraftIsSaved
<1>1. PagesInv => DraftIsSaved
  BY DEF PagesInv, ShellInv
<1> QED
  BY PagesInvariance, <1>1, PTL
===============================================================================
