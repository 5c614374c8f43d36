----------------------------- MODULE PageShell ------------------------------
(* What surrounds the data pages: the header with its popovers and overlays, *)
(* the theme, and the layers a page is drawn in.  Every layer stays in the   *)
(* document while it is open, so that the keyboard reaches a control of any  *)
(* of them; the mouse reaches the topmost only.  Local choices of an overlay *)
(* that go nowhere (asset preferences, the switches of the security center,  *)
(* the search and filter of the notifications) are left out.                 *)
EXTENDS Naturals, Sequences, FiniteSets
CONSTANTS
  None,
  Names,          \* what the account holder may write in a field
  PrefersDark     \* the system's own colour scheme

ASSUME PageShellAssumption == Names # {} /\ PrefersDark \in BOOLEAN

VARIABLES
  path,           \* the page shown
  openPanel,      \* header: None, "notifications", "settings" or "profile"
  openOverlay,    \* header: None or the overlay opened from a popover
  nested,         \* the overlay over that one: None, "detail" or "password"
  account,        \* useState of MyAccountOverlay while it is mounted
  attr,           \* data-theme of the document
  stored,         \* localStorage: fmsys-theme, shared by all tabs
  isDark,         \* useTheme of the settings popover while it is mounted
  dialogs         \* the dialogs of the page that are open
themeVars == <<attr, stored, isDark>>
overlayVars == <<openOverlay, nested, account>>
shellVars == <<path, openPanel, overlayVars, themeVars, dialogs>>

Panels == {"notifications", "settings", "profile"}
Overlays == {"notificationCenter", "myAccount", "assetPreferences", "securityCenter"}
Paths == {"/dashboard", "/cashflow", "/allocation", "/reports"}     \* navLinks

(* None is none of the values it stands beside.                              *)
ASSUME NoneAssumption ==
  /\ None \notin Panels \cup Overlays \cup {"detail", "password", "dark", "light"}
  /\ None \notin [editing : BOOLEAN, draft : Names, saved : Names]

(* Dialogs are drawn over the overlays, later ones of the page over earlier. *)
DialogOrder ==
  <<"deposit", "add transaction", "import transaction", "all inflow", "all outflow",
    "new target", "edit target", "add subscription", "edit subscription", "accounts",
    "add record", "import records", "export">>
Dialogs == {DialogOrder[i] : i \in DOMAIN DialogOrder}
LayerOrder == <<"overlay", "nested">> \o DialogOrder
OpenLayers ==
  dialogs \cup {l \in {"overlay"} : openOverlay # None} \cup {l \in {"nested"} : nested # None}
OnTop(layer) ==
  IF OpenLayers = {} THEN layer \in {"page", "header"}
  ELSE \E i \in DOMAIN LayerOrder :
         /\ LayerOrder[i] = layer /\ layer \in OpenLayers
         /\ \A j \in DOMAIN LayerOrder : LayerOrder[j] \in OpenLayers => j <= i

(* A control outside the header is used: the mousedown closes the popover    *)
(* (handleMouseDown), the keyboard leaves it open.                           *)
Press(layer) ==
  /\ layer \in {"page"} \cup OpenLayers
  /\ openPanel' \in {openPanel} \cup {p \in {None} : OnTop(layer)}
  /\ isDark' = (openPanel' # None /\ isDark)

-----------------------------------------------------------------------------
(* The theme.  The script of the layout sets the attribute before the first  *)
(* paint; the popover reads it back when it mounts.                          *)
InitTheme == attr' = IF stored = None THEN IF PrefersDark THEN "dark" ELSE "light" ELSE stored

\* mutant: the popover trusts what is stored, not what is shown
MountedThemeStored == stored = "dark"
MountedTheme == attr = "dark"

ToggleTheme ==
  /\ openPanel = "settings"
  /\ attr' = (IF isDark THEN "light" ELSE "dark")
  /\ stored' = attr' /\ isDark' = ~isDark
  /\ UNCHANGED <<path, openPanel, overlayVars, dialogs>>

(* Another tab of the application has a switch of its own.                   *)
OtherTabToggles ==
  /\ stored' \in {"dark", "light"}
  /\ UNCHANGED <<path, openPanel, overlayVars, attr, isDark, dialogs>>

-----------------------------------------------------------------------------
(* The header.                                                               *)
Toggle(panel) ==
  /\ openPanel' = IF openPanel = panel THEN None ELSE panel
  /\ isDark' = (openPanel' = "settings" /\ MountedTheme)
  /\ UNCHANGED <<path, overlayVars, attr, stored, dialogs>>

(* Each popover has its own X, and leads to these overlays.                  *)
NotificationPopover == {"notificationCenter"}
ProfilePopover == {"myAccount", "assetPreferences", "securityCenter"}
LedTo(panel) ==
  CASE panel = "notifications" -> NotificationPopover
    [] panel = "profile" -> ProfilePopover
    [] OTHER -> {}
ClosePanel ==
  /\ openPanel # None /\ openPanel' = None /\ isDark' = FALSE
  /\ UNCHANGED <<path, overlayVars, attr, stored, dialogs>>
FirstAccount == LET name == CHOOSE n \in Names : TRUE
                IN [editing |-> FALSE, draft |-> name, saved |-> name]
OpenOverlay ==
  /\ openPanel # None
  /\ openOverlay' \in LedTo(openPanel) /\ openPanel' = None /\ isDark' = FALSE
  /\ IF openOverlay' = openOverlay THEN UNCHANGED <<nested, account>>
     ELSE /\ nested' = None
          /\ account' = IF openOverlay' = "myAccount" THEN FirstAccount ELSE None
  /\ UNCHANGED <<path, attr, stored, dialogs>>

-----------------------------------------------------------------------------
(* The overlays; X, the backdrop, Escape and "Sign Out" all just close.      *)
InOverlay(layer) == Press(layer) /\ UNCHANGED <<path, attr, stored, dialogs>>
CloseOverlay ==
  /\ openOverlay # None /\ InOverlay("overlay")
  /\ openOverlay' = None /\ nested' = None /\ account' = None
CloseNested ==
  /\ nested # None /\ InOverlay("nested")
  /\ nested' = None /\ UNCHANGED <<openOverlay, account>>
SelectNotification ==
  /\ openOverlay = "notificationCenter" /\ InOverlay("overlay")
  /\ nested' = "detail" /\ UNCHANGED <<openOverlay, account>>

(* MyAccountOverlay.  Nothing of it outlives the overlay.                    *)
AccountControls ==
  IF account.editing THEN {"field", "save", "cancel"} ELSE {"edit", "password"}
InAccount(control) ==
  openOverlay = "myAccount" /\ control \in AccountControls /\ InOverlay("overlay")
EditProfile ==
  /\ InAccount("edit") /\ account' = [account EXCEPT !.editing = TRUE]
  /\ UNCHANGED <<openOverlay, nested>>
TypeField ==
  /\ InAccount("field") /\ \E n \in Names : account' = [account EXCEPT !.draft = n]
  /\ UNCHANGED <<openOverlay, nested>>
HandleSave ==
  /\ InAccount("save")
  /\ account' = [account EXCEPT !.saved = account.draft, !.editing = FALSE]
  /\ UNCHANGED <<openOverlay, nested>>
\* mutant: the draft is kept
CancelledKeepsDraft == [account EXCEPT !.editing = FALSE]
Cancelled == [account EXCEPT !.draft = account.saved, !.editing = FALSE]
HandleCancel ==
  /\ InAccount("cancel") /\ account' = Cancelled /\ UNCHANGED <<openOverlay, nested>>
OpenPassword ==
  /\ InAccount("password") /\ nested' = "password" /\ UNCHANGED <<openOverlay, account>>

ShellStep ==
  \/ ToggleTheme \/ OtherTabToggles \/ ClosePanel \/ OpenOverlay
  \/ \E panel \in Panels : Toggle(panel)
  \/ CloseOverlay \/ CloseNested \/ SelectNotification
  \/ EditProfile \/ TypeField \/ HandleSave \/ HandleCancel \/ OpenPassword

(* Every layer listens to Escape on the document, and none stops it.         *)
EscapeClosesLayers ==
  /\ openPanel' = None /\ isDark' = FALSE
  /\ openOverlay' = None /\ nested' = None /\ account' = None /\ dialogs' = {}
  /\ UNCHANGED <<path, attr, stored>>
(* Each page draws a shell of its own: on another page all of it is new.     *)
MountShell(to) ==
  /\ path' = to /\ openPanel' = None /\ isDark' = FALSE
  /\ openOverlay' = None /\ nested' = None /\ account' = None /\ dialogs' = {}

-----------------------------------------------------------------------------
ShellTypeOK ==
  /\ path \in Paths /\ dialogs \subseteq Dialogs
  /\ openPanel \in Panels \cup {None} /\ openOverlay \in Overlays \cup {None}
  /\ nested \in {None} \cup (CASE openOverlay = "notificationCenter" -> {"detail"}
                               [] openOverlay = "myAccount" -> {"password"} [] OTHER -> {})
  /\ IF openOverlay = "myAccount"
     THEN account \in [editing : BOOLEAN, draft : Names, saved : Names]
     ELSE account = None
  /\ attr \in {"dark", "light"} /\ stored \in {"dark", "light", None}
  /\ isDark \in BOOLEAN /\ (isDark => openPanel = "settings")

(* The switch of the settings popover shows the theme of this document,      *)
(* whatever another tab has stored meanwhile (useTheme).                     *)
ThemeShown == openPanel = "settings" => (isDark <=> attr = "dark")

(* Unless it is being edited, the profile shown is the profile saved: no way *)
(* out of the editor leaves a draft behind for the next edit (my-account-    *)
(* overlay.tsx).                                                             *)
DraftIsSaved == account # None /\ ~account.editing => account.draft = account.saved
=============================================================================
