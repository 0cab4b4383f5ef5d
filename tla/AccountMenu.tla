------------------------------ MODULE AccountMenu ------------------------------
(***************************************************************************)
(* Whose page is it?  account_scope of crates/browser-adapter/src/pipe.rs  *)
(* and BrowserScope of crates/runtime/src/browser_scope.rs: the account    *)
(* and the workspace are read from three places of the page in turn - the  *)
(* account menu, its switcher, the settings - while the user may switch    *)
(* to another account or workspace, which loads the page anew and closes   *)
(* whatever was open.                                                      *)
(*                                                                         *)
(* The personal context shows no workspace, and the program never takes    *)
(* missing data for it: menu, switcher and settings must then agree.  A    *)
(* workspace that the menu names is taken as it is, with the account of    *)
(* the menu or, when that shows none or several, of the settings.          *)
(***************************************************************************)
EXTENDS Naturals

CONSTANTS Owners,       \* the accounts
          Workspaces,
          NoOwner, Personal,  \* no account; the context without a workspace
          MaxSwitches   \* how often the page changes under the call

ASSUME AccountAssumption ==
  /\ NoOwner \notin Owners /\ Personal \notin Workspaces /\ MaxSwitches \in Nat

VARIABLES view,      \* the page: its context, and what is open
          layout,    \* what this page's menu names
          look,      \* the call and what it has read; named: the menu showed one account
          contexts   \* history: the contexts that the page had during the call

accountVars == <<view, layout, look, contexts>>

Context == Owners \X (Workspaces \cup {Personal})

AccountTypeOK ==
  /\ view.context \in Context /\ contexts \subseteq Context
  /\ view.menu \in BOOLEAN /\ view.limited \in BOOLEAN /\ look.named \in BOOLEAN
  /\ view.rows \in {"none", "empty", "shown"} /\ view.dialog \in {"closed", "other", "account"}
  /\ view.switches \in 0..MaxSwitches
  /\ look.at \in {"limit", "open", "menu", "switcher", "leave", "settings", "panel", "close",
                  "again", "bind", "done"}
  /\ look.account \in Owners \cup {NoOwner} /\ look.switcher \in Owners \cup {NoOwner}
  /\ look.scope \in Context \cup {<< >>}

AccountInit ==
  /\ \E c \in Context :
       /\ view = [context |-> c, menu |-> FALSE, rows |-> "none", dialog |-> "closed",
                  limited |-> FALSE, switches |-> 0]
       /\ contexts = {c}
  /\ layout \in [account : BOOLEAN, workspace : BOOLEAN]
  /\ look = [at |-> "limit", account |-> NoOwner, workspace |-> Personal, personal |-> FALSE,
             named |-> FALSE, switcher |-> NoOwner, plain |-> FALSE, settings |-> FALSE,
             failed |-> FALSE,
             scope |-> << >>]
-----------------------------------------------------------------------------
(* The page. *)

Closed(v) == [v EXCEPT !.menu = FALSE, !.rows = "none", !.dialog = "closed"]

\* Another context loads the page anew.  The user may also just close what is open, and
\* the service may say that there were too many requests.
PageSwitches ==
  /\ view.switches < MaxSwitches /\ look.at # "done"
  /\ \/ \E c \in Context \ {view.context} :
          view' = [Closed(view) EXCEPT !.context = c, !.switches = @ + 1]
     \/ (view.menu \/ view.dialog # "closed") /\ view' = [Closed(view) EXCEPT !.switches = @ + 1]
     \/ ~view.limited /\ view' = [view EXCEPT !.limited = TRUE, !.switches = @ + 1]
  /\ UNCHANGED <<layout, look>>

\* The rows of the switcher and the account panel appear later than what holds them.
PageHydrates ==
  /\ \/ view.rows = "empty" /\ view' = [view EXCEPT !.rows = "shown"]
     \/ view.dialog = "other" /\ view' = [view EXCEPT !.dialog = "account"]
  /\ UNCHANGED <<layout, look>>
-----------------------------------------------------------------------------
(* account_scope. *)

Go(at) == look' = [look EXCEPT !.at = at]
\* An error between opening and closing closes first; its code wins at the end.
Fail(at) == look' = [look EXCEPT !.at = at, !.failed = TRUE]

\* check_service_limit, before the inspection and after it.
Limit ==
  /\ look.at \in {"limit", "again"}
  /\ IF look.at = "limit"
     THEN IF view.limited THEN Fail("again") ELSE Go("open") \/ Fail("again")
     ELSE IF view.limited THEN Fail("bind") ELSE Go("bind")
  /\ UNCHANGED <<view, layout>>

\* No entry point, more than one, or a click that failed end the inspection.
OpenMenu ==
  /\ look.at = "open"
  /\ \/ view' = [view EXCEPT !.menu = TRUE] /\ Go("menu")
     \/ UNCHANGED view /\ Fail("again")
  /\ UNCHANGED layout

\* account_scope.js: the account of the only email in the menu, none if it shows no
\* email or several; the workspace that it names, with or without an account; whether
\* it is the known menu of an account without workspaces.
NamedAccount == IF layout.account THEN view.context[1] ELSE NoOwner
NamedWorkspace == IF layout.workspace THEN view.context[2] ELSE Personal
KnownMenu == view.context[2] = Personal

ReadMenu ==
  /\ look.at = "menu"
  /\ \/ /\ view.menu
        /\ look' = [look EXCEPT !.at = "switcher", !.account = NamedAccount,
                                !.named = layout.account, !.workspace = NamedWorkspace,
                                !.personal = KnownMenu]
     \/ Fail("close")
  /\ UNCHANGED <<view, layout>>

\* Hovering opens the submenu; its rows count when one of them is selected.  Without
\* them the inspection goes on after ten seconds, with nothing read; a submenu that was
\* seen at all is dismissed.
ReadSwitcher ==
  /\ look.at = "switcher"
  /\ \/ /\ view.menu /\ view.rows = "none"
        /\ view' = [view EXCEPT !.rows = "empty"] /\ UNCHANGED look
     \/ /\ view.menu /\ view.rows = "shown"
        /\ look' = [look EXCEPT !.at = "leave", !.switcher = view.context[1],
                                !.plain = view.context[2] = Personal]
        /\ UNCHANGED view
     \/ /\ view.rows # "shown" /\ UNCHANGED view
        /\ \/ Go("leave")
           \/ view.rows = "none" /\ Go("settings")
  /\ UNCHANGED layout

\* Escape may close the menu with its submenu; it is opened again, on whatever page
\* this is by now.
LeaveSwitcher ==
  /\ look.at = "leave"
  /\ \/ view' = [view EXCEPT !.rows = "none", !.menu = TRUE] /\ Go("settings")
     \/ view' = [view EXCEPT !.rows = "none"] /\ Fail("close")
  /\ UNCHANGED layout

\* Mutant: the settings are opened whatever the menu named.
SettingsAlways ==
  /\ look.at = "settings"
  /\ \/ /\ view.menu /\ view.dialog = "closed"
        /\ view' = [view EXCEPT !.dialog = "other", !.menu = FALSE] /\ Go("panel")
     \/ UNCHANGED view /\ (Go("close") \/ Fail("close"))
  /\ UNCHANGED layout

\* The settings are asked for what the menu did not name, if the menu offers them and is
\* still there.
OpenSettings ==
  /\ look.at = "settings"
  /\ \/ /\ look.account = NoOwner \/ look.workspace = Personal
        /\ view.menu /\ view.dialog = "closed"
        /\ view' = [view EXCEPT !.dialog = "other", !.menu = FALSE] /\ Go("panel")
     \/ UNCHANGED view /\ (Go("close") \/ Fail("close"))
  /\ UNCHANGED layout

\* What the account panel shows replaces what the menu named, of whatever account the
\* page is by now; after fifteen seconds without it, or with a panel that is still loading
\* or shows several emails, there is no evidence from the settings.
ReadSettings ==
  /\ look.at = "panel"
  /\ \/ /\ view.dialog = "account"
        /\ look' = [look EXCEPT !.at = "close", !.account = view.context[1], !.settings = TRUE]
     \/ view.dialog # "account" /\ Go("close")
     \/ Fail("close")
  /\ UNCHANGED <<view, layout>>

CloseMenus ==
  /\ look.at = "close"
  /\ \/ ~view.limited /\ view' = Closed(view) /\ Go("again")
     \/ UNCHANGED view /\ Fail("again")
  /\ UNCHANGED layout
-----------------------------------------------------------------------------
(* The evidence. *)

\* Mutant: a switcher and settings of any accounts agree.
MatchesAny == look.settings /\ look.switcher # NoOwner

Matches == look.settings /\ look.switcher # NoOwner /\ look.switcher = look.account

\* Mutant: a workspace that nothing names is taken for the personal one.
DefaultFromAbsence == look.account # NoOwner /\ look.workspace = Personal /\ look.settings

\* qualifies_default_context
DefaultContext ==
  /\ look.account # NoOwner /\ look.workspace = Personal
  /\ look.personal /\ Matches /\ look.plain

\* BrowserScope::from_surface: an account that the menu or the settings showed, with a
\* named workspace or the whole evidence for none.
BindScope ==
  /\ look.at = "bind"
  /\ look' = [look EXCEPT !.at = "done",
                !.scope = IF /\ ~look.failed /\ look.account # NoOwner
                             /\ look.named \/ look.settings
                             /\ look.workspace # Personal \/ DefaultContext
                          THEN <<look.account, look.workspace>> ELSE << >>]
  /\ UNCHANGED <<view, layout>>

AccountNext ==
  /\ \/ PageSwitches \/ PageHydrates
     \/ Limit \/ OpenMenu \/ ReadMenu \/ ReadSwitcher \/ LeaveSwitcher
     \/ OpenSettings \/ ReadSettings \/ CloseMenus \/ BindScope
     \/ look.at = "done" /\ UNCHANGED <<view, layout, look>>
  /\ contexts' = contexts \cup {view'.context}

AccountSpec == AccountInit /\ [][AccountNext]_accountVars
-----------------------------------------------------------------------------
AccountsShown == {c[1] : c \in contexts}
WorkspacesShown == {c[2] : c \in contexts}

\* The account and the workspace that a session is bound to are those of one page, however
\* often it changes while they are read: the personal context is never put together from
\* what two contexts showed, nor is a workspace whose menu names one account.  There is one
\* exception: without an account in the menu the settings give it, which are read later and
\* are then compared with nothing, and the two may be of two pages.
ScopeWasShown ==
  look.scope # << >> =>
    \/ look.scope \in contexts
    \/ /\ ~look.named /\ look.scope[2] # Personal
       /\ look.scope[1] \in AccountsShown /\ look.scope[2] \in WorkspacesShown
=============================================================================
