----------------------------- MODULE BrowserProofs -----------------------------
(***************************************************************************)
(* The browser: whose page it is, which process the profile has, what the  *)
(* efforts of the installed route stand for, and what was read of its menu *)
(* of models; and the setup: the profile has one owner and its session one *)
(* consumer, however many accounts and installations there are and         *)
(* whatever the user does, with the scheduler's guarantees.                *)
(***************************************************************************)
EXTENDS AccountMenu, BrowserTargets, EffortRoutes, ModelMenu, Setup, Scheduler, FiniteSetTheorems,
        WellFoundedInduction, TLAPS
-----------------------------------------------------------------------------
(* One browser after the other.                                            *)

Chrome == [run : {"none", "suspended", "running", "ending"}, mode : {"login", "background"},
           contained : BOOLEAN, pipe : BOOLEAN, page : {"absent", "idle", "busy", "unknown"},
           tabs : SUBSET Tabs]
Holder == [at : {"free"} \cup Replacing \cup Launching, goal : {"login", "background"},
           holds : {"none", "login", "background"}, page : BOOLEAN, allowed : BOOLEAN]
Past == [tabs : SUBSET Tabs, draft : BOOLEAN, lost : SUBSET (Tabs \cup {"draft"}), two : BOOLEAN]

TargetsTyped == chrome \in Chrome /\ holder \in Holder /\ past \in Past /\ mishaps \in 0..MaxMishaps

\* While a browser is launched nobody else touches its process, and a launch begins only
\* when the last one is gone.
LaunchFits ==
  /\ holder.at = "create" => Exited
  /\ holder.at = "contain" => chrome.run = "suspended" /\ holder.holds = "none" /\ chrome.mode = holder.goal
  /\ holder.at = "resume" => /\ chrome.run = "suspended" /\ chrome.contained
                             /\ holder.holds = "none" /\ chrome.mode = holder.goal

\* A draft is in the page until the page is probed, and a page to be closed has none; what
\* was open when it was closed is open until it is looked for again.
DraftFits ==
  /\ holder.at \in {"inventory", "probe"} /\ past.draft => chrome.page = "busy" \/ chrome.run # "running"
  /\ holder.at = "close_page" => ~past.draft
TabsFit ==
  /\ holder.at \in {"inventory", "probe", "close_page", "quit"} => past.tabs = {}
  /\ holder.at = "recheck" => past.tabs \subseteq chrome.tabs \/ chrome.run # "running"

TargetsInv ==
  /\ TargetsTyped /\ LaunchFits /\ DraftFits /\ TabsFit
  /\ BrowserIsReplaced

LEMMA TargetsInitially == TargetsInit => TargetsInv
  BY TargetsAssumption
     DEF TargetsInit, TargetsInv, TargetsTyped, Chrome, Holder, Past, NoBrowser, LaunchFits, DraftFits,
         TabsFit, BrowserIsReplaced, WorkSurvives, NothingRunsAlone, Exited, Replacing, Launching

LEMMA MishapsCount ==
  ASSUME TargetsTyped, Misfortune \/ Fine
  PROVE  mishaps' \in 0..MaxMishaps
  BY TargetsAssumption DEF TargetsTyped, Misfortune, Fine

LEMMA ReplacingKeeps ==
  ASSUME TargetsInv,
         Connect \/ Restore \/ TakeInventory \/ ProbePage \/ ClosePage \/ Recheck \/ QuitBrowser \/ WaitForExit
  PROVE  TargetsInv'
<1>0. Misfortune \/ Fine => mishaps' \in 0..MaxMishaps
  BY MishapsCount DEF TargetsInv
<1> USE DEF TargetsInv, TargetsTyped, Chrome, Holder, Past, LaunchFits, DraftFits, TabsFit,
            BrowserIsReplaced, WorkSurvives, NothingRunsAlone, Exited, Replacing, Launching, Step
<1>1. CASE Connect
  <2>1. TargetsTyped'
    BY <1>0, <1>1 DEF Connect, StartReplacing
  <2>2. LaunchFits' /\ DraftFits' /\ TabsFit'
    BY <1>1 DEF Connect, StartReplacing
  <2>3. BrowserIsReplaced'
    BY <1>1 DEF Connect, StartReplacing
  <2> QED
    BY <2>1, <2>2, <2>3
<1>2. CASE Restore
  <2>1. TargetsTyped'
    BY <1>0, <1>2 DEF Restore, StartReplacing
  <2>2. LaunchFits' /\ DraftFits' /\ TabsFit'
    BY <1>2 DEF Restore, StartReplacing
  <2>3. BrowserIsReplaced'
    BY <1>2 DEF Restore, StartReplacing
  <2> QED
    BY <2>1, <2>2, <2>3
<1>3. CASE TakeInventory
  BY <1>0, <1>3 DEF TakeInventory, Inventory, Reachable
<1>4. CASE ProbePage
  BY <1>0, <1>4 DEF ProbePage, Reachable
<1>5. CASE ClosePage
  <2>1. CASE /\ Reachable /\ chrome' = [chrome EXCEPT !.page = "absent"] /\ Step("recheck") /\ Fine
             /\ past' = [past EXCEPT !.tabs = chrome.tabs,
                                     !.lost = IF past.draft THEN @ \cup {"draft"} ELSE @]
    <3>1. past' = [past EXCEPT !.tabs = chrome.tabs]
      BY <1>5, <2>1 DEF ClosePage
    <3> QED
      BY <1>0, <2>1, <3>1
  <2>2. CASE (Misfortune \/ (~Reachable /\ Fine)) /\ Step("free") /\ UNCHANGED <<chrome, past>>
    BY <1>0, <2>2
  <2> QED
    BY <1>5, <2>1, <2>2 DEF ClosePage
<1>6. CASE Recheck
  BY <1>0, <1>6 DEF Recheck, Inventory, Reachable
<1>7. CASE QuitBrowser
  BY <1>0, <1>7 DEF QuitBrowser, Reachable
<1>8. CASE WaitForExit
  BY <1>0, <1>8 DEF WaitForExit
<1> QED
  BY <1>1, <1>2, <1>3, <1>4, <1>5, <1>6, <1>7, <1>8

LEMMA LaunchingKeeps ==
  ASSUME TargetsInv,
         \/ CreateSuspended \/ ContainInJob \/ ResumeProcess \/ HiddenPageFails
         \/ CreateTarget \/ ParkWindows \/ AttachTarget \/ NavigatePage
  PROVE  TargetsInv'
<1>0. Misfortune \/ Fine => mishaps' \in 0..MaxMishaps
  BY MishapsCount DEF TargetsInv
<1> USE DEF TargetsInv, TargetsTyped, Chrome, Holder, Past, LaunchFits, DraftFits, TabsFit,
            BrowserIsReplaced, WorkSurvives, NothingRunsAlone, Exited, Replacing, Launching, Step
<1>1. CASE CreateSuspended
  <2>1. /\ Exited /\ UNCHANGED <<past>>
        /\ mishaps' \in 0..MaxMishaps
    BY <1>0, <1>1 DEF CreateSuspended
  <2>2. CASE /\ chrome' = [NoBrowser EXCEPT !.run = "suspended", !.mode = holder.goal]
             /\ holder' = [NothingHeld EXCEPT !.at = "contain"]
    <3>1. /\ chrome' = [run |-> "suspended", mode |-> holder.goal, contained |-> FALSE, pipe |-> TRUE,
                        page |-> "absent", tabs |-> {}]
      BY <2>2 DEF NoBrowser
    <3>2. holder' = [holder EXCEPT !.holds = "none", !.page = FALSE, !.at = "contain"]
      BY <2>2 DEF NothingHeld
    <3> QED
      BY <2>1, <3>1, <3>2
  <2>3. CASE holder' = NothingHeld /\ UNCHANGED chrome
    BY <2>1, <2>3 DEF NothingHeld
  <2> QED
    BY <1>1, <2>2, <2>3 DEF CreateSuspended
<1>2. CASE ContainInJob
  <2>1. CASE chrome' = [chrome EXCEPT !.contained = TRUE] /\ Step("resume")
    BY <1>0, <1>2, <2>1 DEF ContainInJob
  <2>2. CASE chrome' = NoBrowser /\ holder' = NothingHeld
    BY <1>0, <1>2, <2>2 DEF ContainInJob, NothingHeld, NoBrowser
  <2> QED
    BY <1>2, <2>1, <2>2 DEF ContainInJob
<1>3. CASE ResumeProcess
  <2>1. CASE /\ chrome' = [chrome EXCEPT !.run = "running"]
             /\ holder' = [holder EXCEPT !.holds = holder.goal,
                            !.at = IF holder.goal = "login" THEN "free" ELSE "target"]
    BY <1>0, <1>3, <2>1 DEF ResumeProcess
  <2>2. CASE chrome' = JobCloses /\ holder' = NothingHeld
    BY <1>0, <1>3, <2>2 DEF ResumeProcess, JobCloses, NothingHeld, NoBrowser
  <2> QED
    BY <1>3, <2>1, <2>2 DEF ResumeProcess
<1>4. CASE HiddenPageFails
  BY <1>0, <1>4 DEF HiddenPageFails, JobCloses, NothingHeld, NoBrowser
<1>5. CASE CreateTarget
  BY <1>0, <1>5 DEF CreateTarget, Reachable
<1>6. CASE ParkWindows
  BY <1>0, <1>6 DEF ParkWindows
<1>7. CASE AttachTarget
  BY <1>0, <1>7 DEF AttachTarget
<1>8. CASE NavigatePage
  BY <1>0, <1>8 DEF NavigatePage
<1> QED
  BY <1>1, <1>2, <1>3, <1>4, <1>5, <1>6, <1>7, <1>8

LEMMA ChangesKeep ==
  ASSUME TargetsInv, TabsChange \/ PageChanges \/ PipeBreaks \/ BrowserExits \/ ProgramEnds
  PROVE  TargetsInv'
<1>0. Misfortune \/ Fine => mishaps' \in 0..MaxMishaps
  BY MishapsCount DEF TargetsInv
<1> USE DEF TargetsInv, TargetsTyped, Chrome, Holder, Past, LaunchFits, DraftFits, TabsFit,
            BrowserIsReplaced, WorkSurvives, NothingRunsAlone, Exited, Replacing, Launching
<1>1. CASE TabsChange
  BY <1>0, <1>1 DEF TabsChange
<1>2. CASE PageChanges
  BY <1>0, <1>2 DEF PageChanges
<1>3. CASE PipeBreaks
  BY <1>0, <1>3 DEF PipeBreaks
<1>4. CASE BrowserExits
  BY <1>0, <1>4 DEF BrowserExits, NoBrowser
<1>5. CASE ProgramEnds
  BY <1>0, <1>5 DEF ProgramEnds, JobCloses, NothingHeld, NoBrowser
<1> QED
  BY <1>1, <1>2, <1>3, <1>4, <1>5

LEMMA TargetsQuiet == TargetsInv /\ UNCHANGED targetsVars => TargetsInv'
  BY DEF targetsVars, TargetsInv, TargetsTyped, LaunchFits, DraftFits, TabsFit,
         BrowserIsReplaced, WorkSurvives, NothingRunsAlone, Exited

\* The profile never has two browsers, none that runs is out of the job or without an owner,
\* and no replacement closes a tab or a draft that was there before.
THEOREM BrowsersAreReplaced == TargetsSpec => []BrowserIsReplaced
<1>1. TargetsInv /\ [TargetsNext]_targetsVars => TargetsInv'
  BY ReplacingKeeps, LaunchingKeeps, ChangesKeep, TargetsQuiet DEF TargetsNext
<1>2. TargetsInv => BrowserIsReplaced
  BY DEF TargetsInv
<1> QED
  BY <1>1, <1>2, TargetsInitially, PTL DEF TargetsSpec

LEMMA TargetsAreTyped == TargetsTyped => TargetsTypeOK
  BY DEF TargetsTyped, TargetsTypeOK, Chrome, Holder, Past
-----------------------------------------------------------------------------
(* Whose page it is.                                                       *)

Look == [at : {"limit", "open", "menu", "switcher", "leave", "settings", "panel", "close",
               "again", "bind", "done"},
         account : Owners \cup {NoOwner}, named : BOOLEAN,
         workspace : Workspaces \cup {Personal}, personal : BOOLEAN,
         switcher : Owners \cup {NoOwner}, plain : BOOLEAN, settings : BOOLEAN, failed : BOOLEAN,
         scope : Context \cup {<< >>}]
View == [context : Context, menu : BOOLEAN, rows : {"none", "empty", "shown"},
         dialog : {"closed", "other", "account"}, limited : BOOLEAN, switches : 0..MaxSwitches]

AccountTyped ==
  /\ view \in View /\ look \in Look /\ contexts \subseteq Context
  /\ layout \in [account : BOOLEAN, workspace : BOOLEAN]

\* A workspace whose menu names its account comes with it from one reading and is not asked
\* of the settings; without one the account is of some page too.  A plain row of the switcher
\* comes with its account.
NamedFits ==
  look.named =>
    /\ look.account # NoOwner
    /\ look.workspace # Personal => <<look.account, look.workspace>> \in contexts
UnnamedFits ==
  /\ look.account # NoOwner => look.account \in AccountsShown
  /\ look.workspace # Personal => look.workspace \in WorkspacesShown
EvidenceFits ==
  /\ view.context \in contexts /\ NamedFits /\ UnnamedFits
  /\ look.at = "panel" => look.workspace = Personal \/ ~look.named
  /\ look.plain => <<look.switcher, Personal>> \in contexts
  /\ look.at # "done" => look.scope = << >>

LEMMA ShownGrow ==
  ASSUME contexts \subseteq contexts'
  PROVE  AccountsShown \subseteq AccountsShown' /\ WorkspacesShown \subseteq WorkspacesShown'
  BY DEF AccountsShown, WorkspacesShown

LEMMA ShownParts ==
  ASSUME NEW c \in contexts
  PROVE  c[1] \in AccountsShown /\ c[2] \in WorkspacesShown
  BY DEF AccountsShown, WorkspacesShown

AccountInv == AccountTyped /\ EvidenceFits /\ ScopeWasShown

LEMMA AccountInitially == AccountInit => AccountInv
  BY AccountAssumption
     DEF AccountInit, AccountInv, AccountTyped, EvidenceFits, NamedFits, UnnamedFits, ScopeWasShown,
         View, Look, Context

\* Steps that read nothing and load no other context.
LEMMA AccountQuiet ==
  ASSUME AccountInv, view' \in View, view'.context = view.context, contexts' = contexts,
         UNCHANGED <<look, layout>>
  PROVE  AccountInv'
<1>1. AccountsShown' = AccountsShown /\ WorkspacesShown' = WorkspacesShown
  BY DEF AccountsShown, WorkspacesShown
<1>2. AccountTyped'
  BY DEF AccountInv, AccountTyped
<1>3. EvidenceFits'
  BY <1>1 DEF AccountInv, EvidenceFits, NamedFits, UnnamedFits
<1>4. ScopeWasShown'
  BY <1>1 DEF AccountInv, ScopeWasShown
<1> QED
  BY <1>2, <1>3, <1>4 DEF AccountInv

LEMMA PageKeepsAccount ==
  ASSUME AccountInv, PageSwitches \/ PageHydrates, contexts' = contexts \cup {view'.context}
  PROVE  AccountInv'
<1>1. UNCHANGED <<look, layout>> /\ view \in View
  BY DEF PageSwitches, PageHydrates, AccountInv, AccountTyped
<1>2. view' \in View
  <2>1. Closed(view) \in View /\ Closed(view).switches = view.switches
    BY <1>1 DEF Closed, View
  <2>2. CASE PageHydrates
    BY <1>1, <2>2 DEF PageHydrates, View
  <2>3. CASE PageSwitches
    <3>1. view.switches < MaxSwitches /\ view.switches + 1 \in 0..MaxSwitches
      <4>1. view.switches \in 0..MaxSwitches
        BY <1>1 DEF View
      <4>2. view.switches < MaxSwitches
        BY <2>3 DEF PageSwitches
      <4> QED
        BY <4>1, <4>2, AccountAssumption
    <3>2. PICK v \in View, c \in Context, n \in 0..MaxSwitches :
            \/ view' = [v EXCEPT !.context = c, !.switches = n]
            \/ view' = [v EXCEPT !.switches = n]
            \/ view' = [v EXCEPT !.limited = TRUE, !.switches = n]
      <4>1. view.context \in Context
        BY <1>1 DEF View
      <4> QED
        BY <1>1, <2>1, <2>3, <3>1, <4>1 DEF PageSwitches
    <3> QED
      BY <3>2 DEF View
  <2> QED
    BY <2>2, <2>3
<1>3. view'.context \in Context
  BY <1>2 DEF View
<1>4. AccountsShown \subseteq AccountsShown' /\ WorkspacesShown \subseteq WorkspacesShown'
  BY ShownGrow
<1> QED
  BY <1>1, <1>2, <1>3, <1>4
     DEF AccountInv, AccountTyped, EvidenceFits, NamedFits, UnnamedFits, ScopeWasShown

\* A step of the inspection that reads nothing.
LEMMA GoingKeepsAccount ==
  ASSUME AccountInv, view' \in View, view'.context = view.context, contexts' = contexts, UNCHANGED layout,
         NEW at \in {"limit", "open", "menu", "switcher", "leave", "settings", "panel", "close",
                     "again", "bind", "done"},
         Go(at) \/ Fail(at), at = "panel" => look.workspace = Personal \/ ~look.named,
         look.at # "done"
  PROVE  AccountInv'
<1>0. look \in Look
  BY DEF AccountInv, AccountTyped
<1>1. look' = [look EXCEPT !.at = at] \/ look' = [look EXCEPT !.at = at, !.failed = TRUE]
  BY DEF Go, Fail
<1>2. look' \in Look
  <2>1. CASE look' = [look EXCEPT !.at = at]
    BY <1>0, <2>1 DEF Look
  <2>2. CASE look' = [look EXCEPT !.at = at, !.failed = TRUE]
    BY <1>0, <2>2 DEF Look
  <2> QED
    BY <1>1, <2>1, <2>2
<1>3. /\ look'.at = at /\ look'.account = look.account /\ look'.workspace = look.workspace
      /\ look'.named = look.named
      /\ look'.switcher = look.switcher /\ look'.plain = look.plain /\ look'.scope = look.scope
  <2>1. CASE look' = [look EXCEPT !.at = at]
    BY <1>0, <2>1 DEF Look
  <2>2. CASE look' = [look EXCEPT !.at = at, !.failed = TRUE]
    BY <1>0, <2>2 DEF Look
  <2> QED
    BY <1>1, <2>1, <2>2
<1>4. AccountsShown' = AccountsShown /\ WorkspacesShown' = WorkspacesShown
  BY DEF AccountsShown, WorkspacesShown
<1> QED
  BY <1>2, <1>3, <1>4
     DEF AccountInv, AccountTyped, EvidenceFits, NamedFits, UnnamedFits, ScopeWasShown

LEMMA LookKeepsAccount ==
  ASSUME AccountInv, contexts' = contexts \cup {view'.context},
         \/ Limit \/ OpenMenu \/ ReadMenu \/ ReadSwitcher \/ LeaveSwitcher
         \/ OpenSettings \/ ReadSettings \/ CloseMenus \/ BindScope
         \/ look.at = "done" /\ UNCHANGED <<view, layout, look>>
  PROVE  AccountInv'
<1>1. /\ view \in View /\ look \in Look /\ view.context \in contexts /\ view.context \in Context
      /\ contexts \subseteq Context /\ layout \in [account : BOOLEAN, workspace : BOOLEAN]
  BY DEF AccountInv, AccountTyped, EvidenceFits, View
<1>2. PICK c \in Context : c = view.context
  BY <1>1
<1>3. /\ c = <<c[1], c[2]>> /\ c[1] \in Owners /\ c[2] \in Workspaces \cup {Personal} /\ c[1] # NoOwner
  BY AccountAssumption DEF Context
<1>4. /\ UNCHANGED view => contexts' = contexts
      /\ AccountsShown \subseteq AccountsShown' /\ WorkspacesShown \subseteq WorkspacesShown'
  BY <1>1, ShownGrow
<1>5. CASE Limit
  <2>1. look.at # "done" /\ (Go("open") \/ Go("bind") \/ Fail("again") \/ Fail("bind"))
    BY <1>5 DEF Limit
  <2> QED
    BY <1>1, <1>4, <1>5, <2>1, GoingKeepsAccount DEF Limit
<1>6. CASE OpenMenu \/ LeaveSwitcher \/ CloseMenus
  <2>1. /\ Go("menu") \/ Fail("again") \/ Go("settings") \/ Fail("close") \/ Go("again")
        /\ look.at # "done" /\ UNCHANGED layout
    BY <1>6 DEF OpenMenu, LeaveSwitcher, CloseMenus
  <2>2. view' \in View /\ view'.context = view.context
    BY <1>1, <1>6 DEF OpenMenu, LeaveSwitcher, CloseMenus, Closed, View
  <2> QED
    BY <1>1, <2>1, <2>2, GoingKeepsAccount
<1>7. CASE ReadMenu
  <2>1. CASE Fail("close")
    BY <1>1, <1>4, <1>7, <2>1, GoingKeepsAccount DEF ReadMenu
  <2>2. CASE look' = [look EXCEPT !.at = "switcher", !.account = NamedAccount,
                                  !.named = layout.account, !.workspace = NamedWorkspace,
                                  !.personal = KnownMenu]
    <3>1. PICK a \in Owners \cup {NoOwner}, n \in BOOLEAN, s \in Workspaces \cup {Personal}, k \in BOOLEAN :
            /\ look' = [look EXCEPT !.at = "switcher", !.account = a, !.named = n, !.workspace = s,
                                    !.personal = k]
            /\ n => a = c[1]
            /\ a \in {c[1], NoOwner} /\ s \in {c[2], Personal}
      <4>1. NamedAccount \in Owners \cup {NoOwner} /\ NamedWorkspace \in Workspaces \cup {Personal}
        BY <1>2, <1>3 DEF NamedAccount, NamedWorkspace
      <4>2. /\ layout.account => NamedAccount = c[1]
            /\ NamedAccount \in {c[1], NoOwner} /\ NamedWorkspace \in {c[2], Personal}
        BY <1>2 DEF NamedAccount, NamedWorkspace
      <4>3. KnownMenu \in BOOLEAN /\ layout.account \in BOOLEAN
        BY <1>1 DEF KnownMenu
      <4> QED
        BY <2>2, <4>1, <4>2, <4>3
    <3>2. /\ look' \in Look /\ look'.at = "switcher" /\ look'.account = a /\ look'.workspace = s
          /\ look'.named = n
          /\ look'.switcher = look.switcher /\ look'.plain = look.plain /\ look'.scope = look.scope
      BY <1>1, <3>1 DEF Look
    <3>3. look.scope = << >>
      BY <1>7 DEF ReadMenu, AccountInv, EvidenceFits
    <3>4. n => a # NoOwner /\ (s # Personal => <<a, s>> \in contexts)
      BY <1>1, <1>2, <1>3, <3>1
    <3>5. (a # NoOwner => a \in AccountsShown) /\ (s # Personal => s \in WorkspacesShown)
      BY <1>1, <1>2, <3>1, ShownParts
    <3>6. UNCHANGED <<view, layout>>
      BY <1>7 DEF ReadMenu
    <3> QED
      BY <1>4, <3>2, <3>3, <3>4, <3>5, <3>6
         DEF AccountInv, AccountTyped, EvidenceFits, NamedFits, UnnamedFits, ScopeWasShown
  <2> QED
    BY <1>7, <2>1, <2>2 DEF ReadMenu
<1>8. CASE ReadSwitcher
  <2>1. CASE view' = [view EXCEPT !.rows = "empty"] /\ UNCHANGED <<look, layout>>
    <3>1. view' \in View /\ view'.context = view.context
      BY <1>1, <2>1 DEF View
    <3> QED
      BY <1>1, <2>1, <3>1, AccountQuiet
  <2>2. CASE /\ look' = [look EXCEPT !.at = "leave", !.switcher = view.context[1],
                                     !.plain = view.context[2] = Personal]
             /\ UNCHANGED <<view, layout>>
    <3>1. PICK k \in BOOLEAN : k = (c[2] = Personal)
      OBVIOUS
    <3>2. look' = [look EXCEPT !.at = "leave", !.switcher = c[1], !.plain = k]
      BY <1>2, <2>2, <3>1
    <3>3. /\ look' \in Look /\ look'.at = "leave" /\ look'.account = look.account
          /\ look'.workspace = look.workspace /\ look'.named = look.named
          /\ look'.switcher = c[1] /\ look'.plain = k /\ look'.scope = look.scope
      BY <1>1, <1>3, <3>2 DEF Look
    <3>4. k => <<c[1], Personal>> \in contexts
      BY <1>1, <1>2, <1>3, <3>1
    <3>5. look.scope = << >>
      BY <1>8 DEF ReadSwitcher, AccountInv, EvidenceFits
    <3> QED
      BY <1>4, <2>2, <3>3, <3>4, <3>5
         DEF AccountInv, AccountTyped, EvidenceFits, NamedFits, UnnamedFits, ScopeWasShown
  <2>3. CASE (Go("leave") \/ Go("settings")) /\ UNCHANGED <<view, layout>>
    <3>1. look.at # "done"
      BY <1>8 DEF ReadSwitcher
    <3> QED
      BY <1>1, <1>4, <2>3, <3>1, GoingKeepsAccount
  <2> QED
    BY <1>8, <2>1, <2>2, <2>3 DEF ReadSwitcher
<1>9. CASE OpenSettings
  <2>0. look.at # "done"
    BY <1>9 DEF OpenSettings
  <2>1. CASE /\ look.account = NoOwner \/ look.workspace = Personal
             /\ view' = [view EXCEPT !.dialog = "other", !.menu = FALSE] /\ Go("panel") /\ UNCHANGED layout
    <3>1. view' \in View /\ view'.context = view.context
      BY <1>1, <2>1 DEF View
    <3>2. look.workspace = Personal \/ ~look.named
      BY <2>1 DEF AccountInv, EvidenceFits, NamedFits
    <3> QED
      BY <1>1, <2>0, <2>1, <3>1, <3>2, GoingKeepsAccount
  <2>2. CASE (Go("close") \/ Fail("close")) /\ UNCHANGED <<view, layout>>
    BY <1>1, <1>4, <2>0, <2>2, GoingKeepsAccount
  <2> QED
    BY <1>9, <2>1, <2>2 DEF OpenSettings
<1>10. CASE ReadSettings
  <2>1. CASE /\ look' = [look EXCEPT !.at = "close", !.account = view.context[1], !.settings = TRUE]
             /\ UNCHANGED <<view, layout>>
    <3>1. /\ look' \in Look /\ look'.at = "close" /\ look'.workspace = look.workspace
          /\ look'.named = look.named /\ look'.account = c[1]
          /\ look'.switcher = look.switcher /\ look'.plain = look.plain /\ look'.scope = look.scope
      BY <1>1, <1>2, <1>3, <2>1 DEF Look
    <3>2. (look.workspace = Personal \/ ~look.named) /\ look.scope = << >>
      BY <1>10 DEF ReadSettings, AccountInv, EvidenceFits
    <3>3. c[1] \in AccountsShown
      BY <1>1, <1>2, ShownParts
    <3> QED
      BY <1>3, <1>4, <2>1, <3>1, <3>2, <3>3
         DEF AccountInv, AccountTyped, EvidenceFits, NamedFits, UnnamedFits, ScopeWasShown
  <2>2. CASE (Go("close") \/ Fail("close")) /\ UNCHANGED <<view, layout>>
    <3>1. look.at # "done"
      BY <1>10 DEF ReadSettings
    <3> QED
      BY <1>1, <1>4, <2>2, <3>1, GoingKeepsAccount
  <2> QED
    BY <1>10, <2>1, <2>2 DEF ReadSettings
<1>11. CASE BindScope
  <2>1. PICK e \in Context \cup {<< >>} :
          /\ look' = [look EXCEPT !.at = "done", !.scope = e]
          /\ e # << >> =>
               \/ e \in contexts
               \/ ~look.named /\ e[2] # Personal /\ e[1] \in AccountsShown /\ e[2] \in WorkspacesShown
    <3> DEFINE bound == <<look.account, look.workspace>>
    <3>1. CASE /\ ~look.failed /\ look.account # NoOwner
               /\ look.named \/ look.settings
               /\ look.workspace # Personal \/ DefaultContext
      <4>1. bound \in Context
        <5>1. look.account \in Owners \cup {NoOwner} /\ look.workspace \in Workspaces \cup {Personal}
          BY <1>1 DEF Look
        <5> QED
          BY <3>1, <5>1 DEF Context
      <4>2. CASE look.workspace # Personal /\ ~look.named
        <5>1. look.account \in AccountsShown /\ look.workspace \in WorkspacesShown
          BY <3>1, <4>2 DEF AccountInv, EvidenceFits, UnnamedFits
        <5>2. bound[1] \in AccountsShown /\ bound[2] \in WorkspacesShown /\ bound[2] # Personal
          BY <4>2, <5>1
        <5>3. look' = [look EXCEPT !.at = "done", !.scope = bound]
          BY <1>11, <3>1 DEF BindScope
        <5> HIDE DEF bound
        <5> QED
          BY <4>1, <4>2, <5>2, <5>3
      <4>3. CASE ~(look.workspace # Personal /\ ~look.named)
        <5>1. bound \in contexts
          BY <3>1, <4>3 DEF DefaultContext, Matches, AccountInv, EvidenceFits, NamedFits
        <5> QED
          BY <1>11, <3>1, <4>1, <5>1 DEF BindScope
      <4> QED
        BY <4>2, <4>3
    <3>2. CASE ~(/\ ~look.failed /\ look.account # NoOwner
                 /\ look.named \/ look.settings
                 /\ look.workspace # Personal \/ DefaultContext)
      BY <1>11, <3>2 DEF BindScope
    <3> QED
      BY <3>1, <3>2
  <2>2. /\ look' \in Look /\ look'.at = "done" /\ look'.account = look.account
        /\ look'.workspace = look.workspace /\ look'.named = look.named
        /\ look'.switcher = look.switcher /\ look'.plain = look.plain /\ look'.scope = e
    BY <1>1, <2>1 DEF Look
  <2>3. UNCHANGED <<view, layout>>
    BY <1>11 DEF BindScope
  <2> QED
    BY <1>4, <2>1, <2>2, <2>3
       DEF AccountInv, AccountTyped, EvidenceFits, NamedFits, UnnamedFits, ScopeWasShown
<1>12. CASE look.at = "done" /\ UNCHANGED <<view, layout, look>>
  BY <1>1, <1>4, <1>12, AccountQuiet
<1> QED
  BY <1>5, <1>6, <1>7, <1>8, <1>9, <1>10, <1>11, <1>12

\* A session is bound to an account and a workspace that one page showed together, or, where
\* the menu names a workspace and no account, to two that pages of the same call showed.
THEOREM ScopesWereShown == AccountSpec => []ScopeWasShown
<1>1. AccountInv /\ [AccountNext]_accountVars => AccountInv'
  <2>1. AccountInv /\ AccountNext => AccountInv'
    BY PageKeepsAccount, LookKeepsAccount DEF AccountNext
  <2>2. AccountInv /\ UNCHANGED accountVars => AccountInv'
    BY AccountQuiet DEF accountVars, AccountInv, AccountTyped
  <2> QED
    BY <2>1, <2>2
<1>2. AccountInv => ScopeWasShown
  BY DEF AccountInv
<1> QED
  BY <1>1, <1>2, AccountInitially, PTL DEF AccountSpec
-----------------------------------------------------------------------------
(* What the efforts stand for.                                             *)

Binding == [default : [family : {"f"}, name : Labels \cup {"plain"}, place : Places,
                       effort : Recorded \cup {"unset"}],
            variants : SUBSET MenuChoices]

\* A level is served as it was shown, and says what its name says if the default does.
Honours(b, l) == \E c \in All(b) : Selection(b, l.effort) = {c} /\ c.name = l.name
Canonical(b, l) == Told(b.default) => l.name \in Labels /\ l.effort = ObservedEffort(l.name)

\* Journal, driver and clients: the driver has the receipt or the one that the receipt
\* extends, and both honour every level that is or was published.
EffortInv ==
  /\ receipt \in Binding /\ ValidReceipt(receipt)
  /\ extension \in [at : {"idle", "qualified", "saved", "adopted"}, binding : Binding \cup {NoBinding}]
  /\ live # NoBinding => live \in Binding /\ ValidReceipt(live) /\ live.default = receipt.default
  /\ \A l \in published \cup known :
       Canonical(receipt, l) /\ Honours(receipt, l) /\ (live # NoBinding => Honours(live, l))
  /\ extension.at = "qualified" =>
       live # NoBinding /\ Told(live.default) /\ extension.binding \in Qualified(live)
  /\ extension.at \in {"saved", "adopted"} => extension.binding = receipt /\ live # NoBinding
  /\ extension.at = "adopted" => live = receipt

LEMMA AgreeingChoice ==
  ASSUME NEW c \in MenuChoices, Agrees(c)
  PROVE  /\ c.name \in Labels /\ Level(c) = [effort |-> ObservedEffort(c.name), name |-> c.name]
         /\ ObservedEffort(c.name) \in {"low", "medium", "high"}
         /\ \A e \in {"low", "medium", "high"} : StandsFor(c, e) <=> e = ObservedEffort(c.name)
         /\ StandsFor(c, "none") <=> c.name = "Instant"
         /\ \A d \in MenuChoices : ObservedEffort(c.name) = ObservedEffort(d.name) /\ d.name \in Labels
                                     => c.name = d.name
  BY DEF MenuChoices, Agrees, Level, Told, StandsFor, Alias, ObservedEffort, Labels, Recorded

LEMMA ToldBinding ==
  ASSUME NEW b \in Binding, ValidReceipt(b), Told(b.default)
  PROVE  /\ All(b) \subseteq MenuChoices /\ \A c \in All(b) : Agrees(c)
         /\ \A c, d \in All(b) : c.name = d.name => c = d
<1>1. All(b) \subseteq MenuChoices
  BY DEF Binding, All, MenuChoices, ValidReceipt, ValidCatalog
<1>2. \A c \in All(b) : Agrees(c)
  BY DEF ValidReceipt, ValidCatalog, All
<1>3. \A c, d \in All(b) : Level(c).effort = Level(d).effort => c = d
  BY DEF ValidReceipt, ValidCatalog
<1> QED
  BY <1>1, <1>2, <1>3, AgreeingChoice

\* The choice that a name stands for.
LEMMA Selects ==
  ASSUME NEW b \in Binding, ValidReceipt(b), Told(b.default), NEW c \in All(b)
  PROVE  /\ Selection(b, ObservedEffort(c.name)) = {c}
         /\ c.name = "Instant" => Selection(b, "none") = {c}
<1>1. /\ All(b) \subseteq MenuChoices /\ \A d \in All(b) : Agrees(d)
      /\ \A d \in All(b) : d.name = c.name => d = c
  BY ToldBinding
<1>2. ObservedEffort(c.name) \in {"low", "medium", "high"}
  BY <1>1, AgreeingChoice
<1>3. \A d \in All(b) : StandsFor(d, ObservedEffort(c.name)) <=> d = c
  <2> SUFFICES ASSUME NEW d \in All(b) PROVE StandsFor(d, ObservedEffort(c.name)) <=> d = c
    OBVIOUS
  <2>1. StandsFor(d, ObservedEffort(c.name)) <=> ObservedEffort(c.name) = ObservedEffort(d.name)
    BY <1>1, <1>2, AgreeingChoice
  <2> QED
    BY <1>1, <2>1, AgreeingChoice
<1>4. c.name = "Instant" => \A d \in All(b) : StandsFor(d, "none") <=> d = c
  BY <1>1, AgreeingChoice
<1>5. ObservedEffort(c.name) # "unset"
  BY <1>2
<1>6. b.default \in All(b) /\ b.variants \subseteq All(b) /\ (c = b.default \/ c \in b.variants)
  BY DEF All
<1>7. ASSUME NEW e, e # "unset", \A d \in All(b) : StandsFor(d, e) <=> d = c
      PROVE  Selection(b, e) = {c}
  BY <1>6, <1>7 DEF Selection
<1> QED
  BY <1>3, <1>4, <1>5, <1>7

\* A default whose name tells no effort is alone.
LEMMA PlainBinding ==
  ASSUME NEW b \in Binding, ValidReceipt(b), ~Told(b.default)
  PROVE  All(b) = {b.default} /\ Level(b.default) = [effort |-> b.default.effort, name |-> b.default.name]
         /\ Selection(b, b.default.effort) = {b.default}
  BY DEF ValidReceipt, ValidCatalog, All, Level, Selection, StandsFor, Agrees

LEMMA CatalogIsHonoured ==
  ASSUME NEW b \in Binding, ValidReceipt(b), NEW l \in Catalog(b)
  PROVE  Honours(b, l) /\ Canonical(b, l)
<1>1. PICK c \in All(b) : l = Level(c)
  BY DEF Catalog
<1>2. CASE Told(b.default)
  <2>1. l.name = c.name /\ l.effort = ObservedEffort(c.name) /\ c.name \in Labels
    BY <1>1, <1>2, ToldBinding, AgreeingChoice
  <2> QED
    BY <1>2, <2>1, Selects DEF Honours, Canonical
<1>3. CASE ~Told(b.default)
  <2>1. c = b.default
    BY <1>3, PlainBinding
  <2>3. l = [effort |-> b.default.effort, name |-> b.default.name]
    BY <1>1, <1>3, <2>1, PlainBinding
  <2> QED
    BY <1>3, <2>3, PlainBinding DEF Honours, Canonical
<1> QED
  BY <1>2, <1>3

LEMMA QualifiedFacts ==
  ASSUME NEW b \in Binding, Told(b.default), NEW next \in Qualified(b)
  PROVE  /\ next \in Binding /\ next.default = b.default
         /\ \A n \in Labels : \E c \in All(next) : c.name = n
<1> DEFINE others == Labels \ {b.default.name}
<1>1. PICK menu \in [others -> Places \ {b.default.place}] :
        next = [default |-> b.default,
                variants |-> {[family |-> b.default.family, name |-> n, place |-> menu[n],
                               effort |-> ObservedEffort(n)] : n \in others}]
  BY DEF Qualified
<1>2. \A n \in others : [family |-> b.default.family, name |-> n, place |-> menu[n],
                         effort |-> ObservedEffort(n)] \in MenuChoices
  BY DEF Binding, MenuChoices, ObservedEffort, Labels, Recorded
<1>3. next.default = b.default /\ next.variants \subseteq MenuChoices
  BY <1>1, <1>2
<1>4. next \in Binding
  BY <1>1, <1>3 DEF Binding
<1>5. ASSUME NEW n \in Labels PROVE \E c \in All(next) : c.name = n
  <2>1. CASE n = b.default.name
    BY <1>3, <2>1 DEF All
  <2>2. CASE n \in others
    <3>1. PICK c : c = [family |-> b.default.family, name |-> n, place |-> menu[n],
                        effort |-> ObservedEffort(n)]
      OBVIOUS
    <3>2. c \in next.variants /\ c.name = n
      BY <1>1, <2>2, <3>1
    <3> QED
      BY <3>2 DEF All
  <2> QED
    BY <2>1, <2>2
<1> QED
  BY <1>3, <1>4, <1>5

\* A qualified set of choices honours every level that its default's route ever had.
LEMMA QualifiedHonours ==
  ASSUME NEW b \in Binding, Told(b.default), NEW next \in Qualified(b), ValidReceipt(next),
         NEW l, Canonical(b, l)
  PROVE  Honours(next, l) /\ Canonical(next, l)
<1>1. next \in Binding /\ next.default = b.default /\ l.name \in Labels /\ l.effort = ObservedEffort(l.name)
  BY QualifiedFacts DEF Canonical
<1>2. PICK c \in All(next) : c.name = l.name
  BY <1>1, QualifiedFacts
<1> QED
  BY <1>1, <1>2, Selects DEF Honours, Canonical

LEMMA EffortsInitially == EffortInit => EffortInv
<1> SUFFICES ASSUME EffortInit PROVE EffortInv
  OBVIOUS
<1>1. receipt \in Binding /\ ValidReceipt(receipt)
  BY DEF EffortInit, Installable, Bindings, Binding
<1> QED
  BY <1>1 DEF EffortInit, EffortInv, NoExtension

LEMMA EffortsStep == EffortInv /\ [EffortNext]_effortVars => EffortInv'
<1> SUFFICES ASSUME EffortInv, [EffortNext]_effortVars PROVE EffortInv'
  OBVIOUS
<1>1. CASE RestoreReceipt
  <2>1. /\ live' = receipt /\ published' = Catalog(receipt) /\ UNCHANGED <<receipt, extension, known>>
        /\ live = NoBinding
    BY <1>1 DEF RestoreReceipt
  <2>2. \A l \in Catalog(receipt) : Honours(receipt, l) /\ Canonical(receipt, l)
    BY CatalogIsHonoured DEF EffortInv
  <2> QED
    BY <2>1, <2>2 DEF EffortInv
<1>2. CASE ReadCatalog
  BY <1>2 DEF ReadCatalog, EffortInv
<1>3. CASE QualifyEfforts
  <2>1. PICK next \in Qualified(live) : extension' = [at |-> "qualified", binding |-> next]
    BY <1>3 DEF QualifyEfforts
  <2>2. live # NoBinding /\ Told(live.default) /\ UNCHANGED <<receipt, live, published, known>>
    BY <1>3 DEF QualifyEfforts
  <2>3. next \in Binding
    BY <2>2, QualifiedFacts DEF EffortInv
  <2> QED
    BY <2>1, <2>2, <2>3 DEF EffortInv
<1>4. CASE SaveReceipt
  <2> DEFINE next == extension.binding
  <2>1. /\ extension.at = "qualified" /\ UNCHANGED <<live, published, known>>
        /\ live # NoBinding /\ Told(live.default) /\ next \in Qualified(live) /\ live \in Binding
    BY <1>4 DEF SaveReceipt, EffortInv
  <2>2. \/ receipt' = receipt /\ extension' = NoExtension
        \/ /\ receipt = live /\ ValidReceipt(next) /\ receipt' = next
           /\ extension' = NoExtension \/ extension' = [extension EXCEPT !.at = "saved"]
    BY <1>4 DEF SaveReceipt
  <2>3. CASE receipt' = receipt /\ extension' = NoExtension
    BY <2>1, <2>3 DEF EffortInv, NoExtension
  <2>4. CASE /\ receipt = live /\ ValidReceipt(next) /\ receipt' = next
             /\ extension' = NoExtension \/ extension' = [extension EXCEPT !.at = "saved"]
    <3>1. next \in Binding /\ next.default = live.default
      BY <2>1, QualifiedFacts
    <3>2. \A l \in published \cup known : Honours(next, l) /\ Canonical(next, l)
      <4>1. \A l \in published \cup known : Canonical(live, l)
        BY <2>4 DEF EffortInv
      <4> QED
        BY <2>1, <2>4, <4>1, QualifiedHonours
    <3>3. /\ extension'.at \in {"idle", "saved"} /\ (extension'.at = "saved" => extension'.binding = next)
          /\ extension' \in [at : {"idle", "qualified", "saved", "adopted"}, binding : Binding \cup {NoBinding}]
      BY <2>1, <2>4 DEF NoExtension, EffortInv
    <3> QED
      BY <2>1, <2>4, <3>1, <3>2, <3>3 DEF EffortInv
  <2> QED
    BY <2>2, <2>3, <2>4
<1>5. CASE AdoptBinding
  <2>1. extension.at = "saved" /\ extension.binding = receipt /\ UNCHANGED <<receipt, known>>
    BY <1>5 DEF AdoptBinding, EffortInv
  <2>2. CASE live' = NoBinding /\ published' = {} /\ extension' = NoExtension
    BY <2>1, <2>2 DEF EffortInv, NoExtension
  <2>3. CASE /\ live' = receipt /\ extension' = [extension EXCEPT !.at = "adopted"] /\ UNCHANGED published
    <3>1. /\ extension'.at = "adopted" /\ extension'.binding = receipt /\ live # NoBinding
          /\ extension' \in [at : {"idle", "qualified", "saved", "adopted"}, binding : Binding \cup {NoBinding}]
      BY <2>1, <2>3 DEF EffortInv
    <3>2. receipt # NoBinding
      BY DEF EffortInv, Binding, NoBinding, Labels
    <3> QED
      BY <2>1, <2>3, <3>1, <3>2 DEF EffortInv
  <2> QED
    BY <1>5, <2>1, <2>2, <2>3 DEF AdoptBinding
<1>6. CASE PublishEfforts
  <2>1. /\ extension.at = "adopted" /\ live = receipt /\ extension.binding = receipt /\ receipt \in Binding
        /\ published' = Catalog(receipt) /\ extension' = NoExtension /\ UNCHANGED <<receipt, live, known>>
        /\ ValidReceipt(receipt)
    BY <1>6 DEF PublishEfforts, EffortInv
  <2>2. \A l \in Catalog(receipt) : Honours(receipt, l) /\ Canonical(receipt, l)
    BY <2>1, CatalogIsHonoured
  <2> QED
    BY <2>1, <2>2 DEF EffortInv, NoExtension
<1>7. CASE EffortsStop
  BY <1>7 DEF EffortsStop, EffortInv, NoExtension
<1>8. CASE UNCHANGED effortVars
  BY <1>8 DEF effortVars, EffortInv
<1> QED
  BY <1>1, <1>2, <1>3, <1>4, <1>5, <1>6, <1>7, <1>8 DEF EffortNext

LEMMA HonouredLevels == EffortInv => EffortsAreHonoured
<1> SUFFICES ASSUME EffortInv, live # NoBinding PROVE
       /\ \A l \in published \cup known : {c.name : c \in Selection(live, l.effort)} = {l.name}
       /\ \A l \in published \cup known : Cardinality(Selection(live, l.effort)) = 1
       /\ (\E l \in published : l.name = "Instant") => Selection(live, "none") = Selection(live, "low")
       /\ Selection(live, "unset") = {receipt.default}
  BY DEF EffortsAreHonoured
<1>1. /\ \A l \in published \cup known : Honours(live, l)
      /\ live \in Binding /\ ValidReceipt(live) /\ live.default = receipt.default
  BY DEF EffortInv
<1>2. ASSUME NEW l \in published \cup known
      PROVE  /\ {c.name : c \in Selection(live, l.effort)} = {l.name}
             /\ Cardinality(Selection(live, l.effort)) = 1
  <2>1. PICK c : Selection(live, l.effort) = {c} /\ c.name = l.name
    BY <1>1 DEF Honours
  <2>2. Cardinality({c}) = 1
    BY FS_Singleton
  <2> QED
    BY <2>1, <2>2
<1>3. ASSUME NEW l \in published, l.name = "Instant"
      PROVE  Selection(live, "none") = Selection(live, "low")
  <2>1. PICK c \in All(live) : c.name = "Instant"
    BY <1>1, <1>3 DEF Honours
  <2>2. Told(live.default)
    <3>1. ~Told(live.default) => c = live.default
      BY <1>1, PlainBinding
    <3> QED
      BY <2>1, <3>1 DEF Told, Labels
  <2>3. ObservedEffort(c.name) = "low"
    BY <2>1 DEF ObservedEffort
  <2> QED
    BY <1>1, <2>1, <2>2, <2>3, Selects
<1>4. Selection(live, "unset") = {receipt.default}
  BY <1>1 DEF Selection
<1> QED
  BY <1>2, <1>3, <1>4

\* Every level that a client has ever read of this installation is served as it was shown.
THEOREM EffortsHonoured == EffortSpec => []EffortsAreHonoured
  BY EffortsInitially, EffortsStep, HonouredLevels, PTL DEF EffortSpec
-----------------------------------------------------------------------------
(* The menu of models.                                                     *)

MenuLabels == Families \X Names
Cand == [id : Identity, label : MenuLabels, selected : BOOLEAN]
RouteRec == [id : Identity, label : MenuLabels]
TestRec == [id : Identity, label : MenuLabels, kind : {"text", "tools"},
            state : {"Completed", "Failed", "SubmissionUncertain"}]
MenuCodes == {"none", "other", "E_MODEL_RESTORE"}

Picker == [family : Families, value : Values, top : [Families -> Values], off : SUBSET Families,
           name : [Families -> [Values -> Names]], pending : Int, touched : BOOLEAN, moves : 0..MaxMoves]
Picks == [at : {"family", "effort", "close", "done"}, id : Identity, alone : BOOLEAN, clicked : BOOLEAN,
          previous : {0} \cup Values, keys : Nat, label : {NoLabel} \cup MenuLabels, ok : BOOLEAN]
Unread == {Scanning, [at |-> "done", code |-> "other", found |-> {}]}
OpenScan == [at : {"values", "restore", "done"}, code : MenuCodes, found : SUBSET Cand,
             next : Nat \ {0},
             first : Identity, label : MenuLabels, others : SUBSET Families]
Tasks == [kind : {"discover", "extend", "reopen"},
          at : {"start", "families", "restore", "confirm", "select", "test", "routes", "done"},
          code : MenuCodes, route : RouteRec, next : RouteRec \cup Cand, listed : SUBSET Cand,
          todo : SUBSET (Families \cup Cand), tests : SUBSET TestRec, step : {1, 2},
          family : Families, start : Identity]

MenuTyped ==
  /\ picker \in Picker /\ pick \in {Resting} \cup Picks
  /\ scan \in {Resting} \cup Unread \cup OpenScan /\ task \in Tasks
  /\ task.todo \subseteq (IF task.kind = "discover" THEN Families ELSE Cand)
  /\ shown \subseteq Identity \X MenuLabels

\* Which of the three layers has a call under way, and what for.
CallsFit ==
  /\ scan.at \in {"open", "done"} => pick.at = "idle"
  /\ scan.at = "values" /\ pick.at # "idle" => pick.id = [scan.first EXCEPT !.value = scan.next] /\ ~pick.alone
  /\ scan.at = "restore" => pick.at # "idle" /\ pick.id = scan.first /\ ~pick.alone
  /\ task.at \in {"restore", "confirm", "test", "routes", "done"} => scan.at = "idle"
  /\ task.at \in {"test", "done"} => pick.at = "idle"
  /\ task.at = "start" /\ scan.at = "idle" => pick.at = "idle"
  /\ task.at \in {"restore", "confirm"} => pick.at # "idle" /\ pick.id = task.route.id /\ ~pick.alone
  /\ task.at = "routes" /\ pick.at # "idle" => pick.id = task.next.id /\ ~pick.alone
  /\ pick.at = "effort" => ~pick.alone
  /\ task.at \in {"start", "families", "restore"} => task.kind = "discover"
  /\ task.at \in {"select", "test"} => task.kind = "extend"
  /\ task.at = "routes" => task.kind = "reopen"
  /\ task.at = "confirm" => task.kind # "extend"

\* A slider that was found at its position, and a menu that was read.
PickHolds == pick.at = "close" \/ (pick.at = "done" /\ pick.ok)
ScanHolds == scan \in OpenScan => <<scan.first, scan.label>> \in shown /\ \A c \in scan.found : <<c.id, c.label>> \in shown

TaskHolds ==
  /\ task.kind # "reopen" => \A c \in task.listed : <<c.id, c.label>> \in shown
  /\ task.at = "test" => \A c \in task.todo : <<c.id, c.label>> \in shown
  /\ task.kind = "reopen" => /\ task.todo \subseteq task.listed
                             /\ task.next \in task.listed \/ task.at # "routes" \/ pick.at = "idle"
                             /\ \A c \in task.listed \ task.todo : <<c.id, c.label>> \in shown
                             /\ task.at = "confirm" \/ Succeeded => task.todo = {}

\* MenuLabels are of the page: what a pick read, what a scan found, what a task lists.
LabelsFit ==
  /\ <<Here, LabelHere>> \in shown
  /\ PickHolds /\ ~pick.alone => <<pick.id, pick.label>> \in shown
  /\ ScanHolds /\ TaskHolds

AtHome == picker.family = task.start.family /\ picker.value = task.start.value /\ picker.pending = 0

\* A page that nobody else touches: at most one key is on its way, and only while a pick
\* waits for it, which then finds the slider where it wants it; a discovery starts from the
\* selection that it found and ends there.
KeysFit ==
  ~picker.touched =>
    /\ picker.pending \in {-1, 0, 1}
    /\ pick.at # "effort" => picker.pending = 0
    /\ pick.at = "effort" /\ picker.pending # 0 => picker.value = pick.previous
    /\ PickHolds /\ ~pick.alone => picker.family = pick.id.family /\ picker.value = pick.id.value

HomeFits ==
  task.kind = "discover" /\ ~picker.touched =>
    /\ task.at = "start" /\ scan.at \in {"idle", "open"} => AtHome
    /\ task.at = "start" /\ scan.at = "done" => AtHome \/ scan.code = "E_MODEL_RESTORE"
    /\ task.at = "start" /\ scan \in OpenScan =>
         scan.first.family = task.start.family /\ scan.first.value = task.start.value
    /\ task.at \in {"families", "restore", "confirm"} =>
         task.route.id.family = task.start.family /\ task.route.id.value = task.start.value
    /\ task.at = "confirm" => AtHome
    /\ task.at = "done" => AtHome \/ task.code = "E_MODEL_RESTORE"

Passed(c, kind) == [id |-> c.id, label |-> c.label, kind |-> kind, state |-> "Completed"] \in task.tests
IsFirst(d, todo) == \A e \in todo : d.id.value <= e.id.value
FirstOf(todo) == CHOOSE d \in todo : IsFirst(d, todo)

\* A family is read value by value, and its candidates are tested one after the other.
FoundFits ==
  scan \in OpenScan =>
    /\ IsFiniteSet(scan.found)
    /\ \A c \in scan.found : c.id = [scan.first EXCEPT !.value = c.id.value] /\ c.id.value < scan.next
    /\ \A c, d \in scan.found : c.id = d.id => c = d

TestsFit ==
  task.kind = "extend" =>
    /\ task.at = "select" => task.listed = {} /\ task.step = 1
    /\ \A c \in task.listed : Passed(c, "text") /\ Passed(c, "tools")
    /\ task.at = "test" =>
         /\ {c.label[2] : c \in task.listed \cup task.todo} = Names \ {task.route.label[2]}
         /\ task.step = 2 => task.todo # {} /\ Passed(FirstOf(task.todo), "text")
    /\ Succeeded => {c.label[2] : c \in task.listed} = Names \ {task.route.label[2]}

MenuInv ==
  /\ MenuTyped /\ CallsFit /\ LabelsFit /\ KeysFit /\ HomeFits /\ FoundFits /\ TestsFit /\ MenuIsTrue

\* The parts say what MenuIsTrue promises.
LEMMA PartsMakeTrue ==
  ASSUME MenuTyped, LabelsFit, HomeFits, TestsFit
  PROVE  MenuIsTrue
<1>1. LabelsWereShown
  BY DEF LabelsWereShown, LabelsFit, TaskHolds, Succeeded
<1>2. SelectionIsKept
  BY DEF SelectionIsKept, HomeFits, AtHome
<1>3. VariantsAreTested
  <2>1. \A i \in DOMAIN TestKinds : TestKinds[i] \in {"text", "tools"}
    BY DEF TestKinds
  <2> QED
    BY <2>1 DEF VariantsAreTested, TestsFit, Passed, Succeeded
<1> QED
  BY <1>1, <1>2, <1>3 DEF MenuIsTrue

LEMMA PartsMakeTrueNext ==
  ASSUME MenuTyped', LabelsFit', HomeFits', TestsFit'
  PROVE  MenuIsTrue'
<1>1. \A i \in DOMAIN TestKinds : TestKinds[i] \in {"text", "tools"}
  BY DEF TestKinds
<1>2. LabelsWereShown'
  BY DEF LabelsWereShown, LabelsFit, TaskHolds, Succeeded
<1>3. SelectionIsKept'
  BY DEF SelectionIsKept, HomeFits, AtHome
<1>4. VariantsAreTested'
  BY <1>1 DEF VariantsAreTested, TestsFit, Passed, Succeeded
<1> QED
  BY <1>2, <1>3, <1>4 DEF MenuIsTrue

LEMMA ValuesFacts ==
  /\ Cardinality(Names) \in Nat \ {0} /\ Values = 1..Cardinality(Names) /\ Values \subseteq Nat
  /\ \A v \in Values : 1..v \subseteq Values
<1>1. IsFiniteSet(Names) /\ Names # {}
  BY MenuAssumption
<1>2. Cardinality(Names) \in Nat /\ Cardinality(Names) # 0
  BY <1>1, FS_CardinalityType, FS_EmptySet
<1> QED
  BY <1>2 DEF Values

LEMMA HereFits ==
  ASSUME picker \in Picker
  PROVE  Here \in Identity /\ LabelHere \in MenuLabels
<1>1. /\ picker.family \in Families /\ picker.value \in Values /\ picker.top[picker.family] \in Values
      /\ picker.name[picker.family][picker.value] \in Names
  BY DEF Picker
<1> QED
  BY <1>1 DEF Here, LabelHere, Identity, MenuLabels

LEMMA MenuInitially == MenuInit => MenuInv
<1> SUFFICES ASSUME MenuInit
             PROVE  MenuInv
  OBVIOUS
<1>0. Cardinality(Names) \in Values /\ 0 \in 0..MaxMoves
  BY ValuesFacts, MenuAssumption
<1>1. PICK f \in Families, v \in Values, n \in [Values -> Names] :
        /\ \A u, w \in Values : n[u] = n[w] => u = w
        /\ picker = [family |-> f, value |-> v, top |-> [g \in Families |-> Cardinality(Names)],
                     off |-> {}, name |-> [g \in Families |-> n], pending |-> 0,
                     touched |-> FALSE, moves |-> 0]
  BY DEF MenuInit
<1>2. picker \in Picker
  BY <1>0, <1>1 DEF Picker
<1>3. Here \in Identity /\ LabelHere \in MenuLabels
  BY <1>2, HereFits
<1>4. PICK here \in Identity, label \in MenuLabels : here = Here /\ label = LabelHere
  BY <1>3
<1>5. Variants \in SUBSET Cand
  <2>1. ASSUME NEW u \in Values
        PROVE  Candidate([here EXCEPT !.value = u], <<picker.family, picker.name[picker.family][u]>>, FALSE) \in Cand
    <3>1. [here EXCEPT !.value = u] \in Identity
      BY DEF Identity
    <3>2. <<picker.family, picker.name[picker.family][u]>> \in MenuLabels
      BY <1>2 DEF MenuLabels, Picker
    <3> QED
      BY <3>1, <3>2 DEF Candidate, Cand
  <2> QED
    BY <1>4, <2>1 DEF Variants
<1>6. PICK variants \in SUBSET Cand : variants = Variants
  BY <1>5
<1>7. PICK route \in RouteRec : route = Installed
  BY <1>3 DEF Installed, RouteRec
<1>8. PICK kind \in {"discover", "extend", "reopen"} :
       task = [kind |-> kind, code |-> "none", route |-> route, next |-> route,
               at |-> CASE kind = "discover" -> "start" [] kind = "extend" -> "select"
                        [] OTHER -> "routes",
               listed |-> IF kind = "reopen" THEN variants ELSE {},
               todo |-> IF kind = "reopen" THEN variants ELSE {},
               tests |-> {}, step |-> 1, family |-> picker.family, start |-> here]
  BY <1>4, <1>6, <1>7 DEF MenuInit
<1>9. task \in Tasks
  <2>1. picker.family \in Families
    BY <1>1
  <2> QED
    BY <1>8, <2>1 DEF Tasks, MenuCodes
<1>10. pick = Resting /\ scan = Resting /\ pick.at = "idle" /\ scan.at = "idle" /\ scan \notin OpenScan
  BY DEF MenuInit, Resting, OpenScan
<1>11. /\ task.kind = kind /\ task.code = "none" /\ task.start = Here /\ task.listed = task.todo
       /\ kind # "reopen" => task.listed = {}
       /\ task.at = IF kind = "discover" THEN "start" ELSE IF kind = "extend" THEN "select" ELSE "routes"
       /\ task.step = 1
  BY <1>4, <1>8
<1>12. MenuTyped /\ CallsFit
  <2>1. shown \subseteq Identity \X MenuLabels
    BY <1>3 DEF MenuInit
  <2>2. task.todo \subseteq (IF task.kind = "discover" THEN Families ELSE Cand)
    BY <1>8
  <2> QED
    BY <1>2, <1>9, <1>10, <1>11, <2>1, <2>2 DEF MenuTyped, CallsFit
<1>13. LabelsFit
  <2>1. <<Here, LabelHere>> \in shown
    BY DEF MenuInit
  <2> QED
    BY <1>10, <1>11, <2>1 DEF LabelsFit, PickHolds, ScanHolds, TaskHolds, Succeeded
<1>14. KeysFit /\ HomeFits
  <2>1. picker.pending = 0 /\ AtHome
    BY <1>1, <1>11 DEF AtHome, Here
  <2> QED
    BY <1>10, <1>11, <2>1 DEF KeysFit, HomeFits, PickHolds
<1>15. FoundFits /\ TestsFit
  BY <1>10, <1>11 DEF FoundFits, TestsFit, Succeeded
<1> QED
  BY <1>12, <1>13, <1>14, <1>15, PartsMakeTrue DEF MenuInv

\* The history only grows, by what the page shows after each step.
Noted == shown' = shown \cup {<<Here', LabelHere'>>}

LEMMA StillShown ==
  ASSUME MenuInv, Noted, UNCHANGED picker
  PROVE  shown' = shown
<1>1. <<Here, LabelHere>> \in shown
  BY DEF MenuInv, LabelsFit
<1>2. Here' = Here /\ LabelHere' = LabelHere
  BY DEF Here, LabelHere
<1> QED
  BY <1>1, <1>2 DEF Noted

LEMMA ShownTyped ==
  ASSUME MenuInv, Noted, picker' \in Picker
  PROVE  /\ shown' \subseteq Identity \X MenuLabels /\ shown \subseteq shown'
         /\ <<Here', LabelHere'>> \in shown'
<1>1. /\ picker'.family \in Families /\ picker'.value \in Values /\ picker'.top[picker'.family] \in Values
      /\ picker'.name[picker'.family][picker'.value] \in Names
  BY DEF Picker
<1>2. Here' \in Identity /\ LabelHere' \in MenuLabels
  BY <1>1 DEF Here, LabelHere, Identity, MenuLabels
<1> QED
  BY <1>2 DEF Noted, MenuInv, MenuTyped

\* The page moves by itself: unless somebody else moved it, the selection stays.
LEMMA PageMovesKeepMenu ==
  ASSUME MenuInv, Noted, UNCHANGED <<pick, scan, task>>, picker' \in Picker,
         ~picker'.touched => /\ ~picker.touched
                             /\ picker'.family = picker.family /\ picker'.value = picker.value
                             /\ picker'.pending = picker.pending
  PROVE  MenuInv'
<1>1. MenuTyped' /\ CallsFit' /\ FoundFits' /\ TestsFit'
  BY ShownTyped DEF MenuInv, MenuTyped, CallsFit, FoundFits, TestsFit, Passed, Succeeded
<1>2. LabelsFit'
  BY ShownTyped DEF MenuInv, LabelsFit, PickHolds, ScanHolds, TaskHolds, Succeeded
<1>3. KeysFit'
  BY DEF MenuInv, KeysFit, PickHolds
<1>4. HomeFits'
  BY DEF MenuInv, HomeFits, AtHome
<1> QED
  BY <1>1, <1>2, <1>3, <1>4, PartsMakeTrueNext DEF MenuInv

LEMMA KeyLandsKeepsMenu ==
  ASSUME MenuInv, Noted, KeyLands
  PROVE  MenuInv'
<1>1. UNCHANGED <<pick, scan, task>> /\ picker.pending # 0 /\ picker \in Picker
  BY DEF KeyLands, MenuInv, MenuTyped
<1>2. PICK step \in {1, -1}, value \in Values :
        /\ picker' = [picker EXCEPT !.pending = picker.pending - step, !.value = value]
        /\ step = IF picker.pending > 0 THEN 1 ELSE -1
  <2>1. PICK step \in {1, -1} : step = IF picker.pending > 0 THEN 1 ELSE -1
    OBVIOUS
  <2>2. picker' = [picker EXCEPT !.pending = picker.pending - step,
                     !.value = IF picker.value + step \in 1..picker.top[picker.family]
                               THEN picker.value + step ELSE picker.value]
    BY <2>1 DEF KeyLands
  <2>3. picker.value \in Values /\ picker.top[picker.family] \in Values
    BY <1>1 DEF Picker
  <2>4. PICK value \in Values : value = IF picker.value + step \in 1..picker.top[picker.family]
                                        THEN picker.value + step ELSE picker.value
    BY <2>3, ValuesFacts
  <2> QED
    BY <2>1, <2>2, <2>4
<1>3. /\ picker' \in Picker /\ picker'.touched = picker.touched
      /\ picker'.pending = picker.pending - step
      /\ picker'.family = picker.family
  <2>1. PICK pending \in Int : pending = picker.pending - step
    BY <1>1 DEF Picker
  <2>2. picker' = [picker EXCEPT !.pending = pending, !.value = value]
    BY <1>2, <2>1
  <2> QED
    BY <1>1, <2>1, <2>2 DEF Picker
<1>4. CASE picker.touched
  BY <1>1, <1>3, <1>4, PageMovesKeepMenu DEF Picker
<1>5. CASE ~picker.touched
  <2>1. /\ pick.at = "effort" /\ picker.pending \in {-1, 1}
        /\ ~PickHolds
    BY <1>1, <1>5 DEF MenuInv, KeysFit, PickHolds
  <2>2. picker'.pending = 0
    BY <1>2, <1>3, <2>1
  <2>3. MenuTyped' /\ CallsFit' /\ FoundFits' /\ TestsFit'
    BY <1>1, <1>3, ShownTyped DEF MenuInv, MenuTyped, CallsFit, FoundFits, TestsFit, Passed, Succeeded
  <2>4. LabelsFit'
    BY <1>1, <1>3, ShownTyped DEF MenuInv, LabelsFit, PickHolds, ScanHolds, TaskHolds, Succeeded
  <2>5. KeysFit'
    BY <1>1, <2>1, <2>2 DEF KeysFit, PickHolds
  <2>6. HomeFits'
    <3>1. /\ ~(task.at = "start" /\ scan.at \in {"idle", "open", "done"})
          /\ task.kind = "discover" => task.at \notin {"confirm", "done"}
      BY <1>1, <1>5, <2>1 DEF MenuInv, CallsFit, HomeFits, AtHome
    <3> QED
      BY <1>1, <1>3, <1>5, <3>1 DEF MenuInv, HomeFits
  <2> QED
    BY <2>3, <2>4, <2>5, <2>6, PartsMakeTrueNext DEF MenuInv
<1> QED
  BY <1>4, <1>5

LEMMA OthersMoveKeepMenu ==
  ASSUME MenuInv, Noted, UserPicks \/ OfferChanges
  PROVE  MenuInv'
<1>1. picker \in Picker /\ picker.top \in [Families -> Values] /\ picker.moves \in 0..MaxMoves
      /\ picker.value \in Values /\ picker.family \in Families
  BY DEF MenuInv, MenuTyped, Picker
\* PageMoved, of what becomes of the page before it is counted.
<1>2. ASSUME NEW p \in Picker, PageMoved(p), p.moves = picker.moves,
             ~p.touched => /\ ~picker.touched /\ p.family = picker.family /\ p.value = picker.value
                           /\ p.pending = picker.pending
      PROVE  MenuInv'
  <2>1. picker.moves + 1 \in 0..MaxMoves
    BY <1>1, <1>2, MenuAssumption DEF PageMoved
  <2>2. picker' = [p EXCEPT !.moves = picker.moves + 1] /\ UNCHANGED <<pick, scan, task>>
    BY <1>2 DEF PageMoved
  <2>3. /\ picker' \in Picker /\ picker'.touched = p.touched /\ picker'.family = p.family
        /\ picker'.value = p.value /\ picker'.pending = p.pending
    BY <2>1, <2>2 DEF Picker
  <2> QED
    BY <1>2, <2>2, <2>3, PageMovesKeepMenu
<1>3. CASE UserPicks
  <2>0. PICK f \in Families \ picker.off : \E v \in 1..picker.top[f] :
          PageMoved([picker EXCEPT !.family = f, !.value = v, !.touched = TRUE])
    BY <1>3 DEF UserPicks
  <2>1. PICK v \in 1..picker.top[f] : PageMoved([picker EXCEPT !.family = f, !.value = v, !.touched = TRUE])
    BY <2>0
  <2>2. v \in Values
    BY <1>1, ValuesFacts
  <2>3. PICK p : p = [picker EXCEPT !.family = f, !.value = v, !.touched = TRUE]
    OBVIOUS
  <2>4. p \in Picker /\ p.moves = picker.moves /\ p.touched = TRUE
    BY <1>1, <2>2, <2>3 DEF Picker
  <2> QED
    BY <1>2, <2>1, <2>3, <2>4
<1>4. ASSUME NEW f \in Families, NEW v \in Values, NEW n \in Names,
             PageMoved([picker EXCEPT !.name[f][v] = n])
      PROVE  MenuInv'
  <2>1. PICK p : p = [picker EXCEPT !.name[f][v] = n]
    OBVIOUS
  <2>2. PICK row : row = [picker.name[f] EXCEPT ![v] = n]
    OBVIOUS
  <2>3. PICK names : names = [picker.name EXCEPT ![f] = row]
    OBVIOUS
  <2>4. p = [picker EXCEPT !.name = names]
    BY <2>1, <2>2, <2>3
  <2>5. row \in [Values -> Names]
    BY <1>1, <2>2 DEF Picker
  <2>6. names \in [Families -> [Values -> Names]]
    BY <1>1, <2>3, <2>5 DEF Picker
  <2>7. /\ p \in Picker /\ p.moves = picker.moves /\ p.touched = picker.touched
        /\ p.family = picker.family /\ p.value = picker.value /\ p.pending = picker.pending
    BY <1>1, <2>4, <2>6 DEF Picker
  <2> QED
    BY <1>2, <1>4, <2>1, <2>7
<1>5. ASSUME NEW f \in Families, NEW t \in Values,
             PageMoved([picker EXCEPT !.top[f] = t,
                          !.value = IF f = picker.family /\ @ > t THEN t ELSE @,
                          !.touched = @ \/ (f = picker.family /\ picker.value > t)])
      PROVE  MenuInv'
  <2>1. PICK p : p = [picker EXCEPT !.top[f] = t,
                          !.value = IF f = picker.family /\ @ > t THEN t ELSE @,
                          !.touched = @ \/ (f = picker.family /\ picker.value > t)]
    OBVIOUS
  <2>2. PICK tops : tops = [picker.top EXCEPT ![f] = t]
    OBVIOUS
  <2>3. PICK value \in Values : value = IF f = picker.family /\ picker.value > t THEN t ELSE picker.value
    BY <1>1
  <2>4. PICK touched \in BOOLEAN : touched = (picker.touched \/ (f = picker.family /\ picker.value > t))
    OBVIOUS
  <2>5. p = [picker EXCEPT !.top = tops, !.value = value, !.touched = touched]
    BY <2>1, <2>2, <2>3, <2>4
  <2>6. tops \in [Families -> Values]
    BY <1>1, <2>2
  <2>7. /\ p \in Picker /\ p.moves = picker.moves /\ (p.touched <=> touched)
        /\ p.family = picker.family /\ p.value = value /\ p.pending = picker.pending
    BY <1>1, <2>5, <2>6 DEF Picker
  <2>8. ~p.touched => ~picker.touched /\ p.value = picker.value
    BY <2>3, <2>4, <2>7
  <2> QED
    BY <1>2, <1>5, <2>1, <2>7, <2>8
<1>6. ASSUME NEW f \in Families, PageMoved([picker EXCEPT !.off = @ \cup {f}])
      PROVE  MenuInv'
  <2>1. PICK p : p = [picker EXCEPT !.off = @ \cup {f}]
    OBVIOUS
  <2>2. /\ p \in Picker /\ p.moves = picker.moves /\ p.touched = picker.touched
        /\ p.family = picker.family /\ p.value = picker.value /\ p.pending = picker.pending
    BY <1>1, <2>1 DEF Picker
  <2> QED
    BY <1>2, <1>6, <2>1, <2>2
<1> QED
  BY <1>3, <1>4, <1>5, <1>6 DEF OfferChanges

\* A pick goes on: it is the same one, and what it found holds.
LEMMA PickGoesKeepsMenu ==
  ASSUME MenuInv, Noted, UNCHANGED <<scan, task>>, pick \in Picks, pick.at # "done",
         pick' \in Picks, pick'.id = pick.id, pick'.alone = pick.alone,
         pick'.at = "effort" => ~pick.alone,
         picker' \in Picker, picker'.touched = picker.touched,
         PickHolds' /\ ~pick.alone => <<pick'.id, pick'.label>> \in shown',
         KeysFit', HomeFits'
  PROVE  MenuInv'
<1>1. pick.at # "idle" /\ pick'.at # "idle"
  BY DEF Picks
<1>2. MenuTyped' /\ FoundFits' /\ TestsFit'
  BY ShownTyped DEF MenuInv, MenuTyped, FoundFits, TestsFit, Passed, Succeeded
<1>3. CallsFit'
  BY <1>1 DEF MenuInv, CallsFit
<1>4. LabelsFit'
  <2>1. ScanHolds'
    BY DEF Noted, MenuInv, LabelsFit, ScanHolds
  <2> QED
    BY <1>1, <2>1, ShownTyped DEF MenuInv, LabelsFit, TaskHolds, Succeeded
<1> QED
  BY <1>2, <1>3, <1>4, PartsMakeTrueNext DEF MenuInv

LEMMA PickFailsKeepsMenu ==
  ASSUME MenuInv, Noted, PickFails
  PROVE  MenuInv'
<1>1. /\ UNCHANGED <<scan, task>> /\ pick.at \in {"family", "effort", "close"} /\ picker \in Picker
      /\ pick \in Picks
  BY DEF PickFails, MenuInv, MenuTyped, Resting
<1>2. /\ pick' \in Picks /\ pick'.at = "done" /\ ~pick'.ok /\ pick'.id = pick.id /\ pick'.alone = pick.alone
  BY <1>1 DEF PickFails, Picks
<1>3. /\ picker' \in Picker /\ picker'.touched = picker.touched /\ picker'.family = picker.family
      /\ picker'.value = picker.value /\ picker'.pending = 0
  BY <1>1 DEF PickFails, Picker
<1>4. ~PickHolds'
  BY <1>2 DEF PickHolds
<1>5. KeysFit' /\ HomeFits'
  BY <1>1, <1>2, <1>3, <1>4 DEF MenuInv, KeysFit, HomeFits, AtHome
<1> QED
  BY <1>1, <1>2, <1>3, <1>4, <1>5, PickGoesKeepsMenu

LEMMA PickFamilyKeepsMenu ==
  ASSUME MenuInv, Noted, PickFamily
  PROVE  MenuInv'
<1>1. /\ UNCHANGED <<scan, task>> /\ pick.at = "family" /\ picker \in Picker /\ pick \in Picks
  <2>1. UNCHANGED <<scan, task>> /\ pick.at = "family"
    BY DEF PickFamily
  <2> QED
    BY <2>1 DEF MenuInv, MenuTyped, Resting
<1>2. pick.id.family \in Families /\ pick.id \in Identity /\ pick.alone \in BOOLEAN
  BY <1>1 DEF Picks, Identity
<1>3. CASE picker.family = pick.id.family /\ UNCHANGED picker
           /\ pick' = [pick EXCEPT !.at = IF pick.alone THEN "done" ELSE "effort", !.ok = pick.alone]
  <2>1. /\ pick' \in Picks /\ pick'.id = pick.id /\ pick'.alone = pick.alone
        /\ pick'.at = "effort" => ~pick.alone
        /\ PickHolds' => pick.alone
    BY <1>1, <1>2, <1>3 DEF Picks, PickHolds
  <2>2. KeysFit' /\ HomeFits'
    BY <1>1, <1>3, <2>1 DEF MenuInv, KeysFit, HomeFits, AtHome, PickHolds
  <2> QED
    BY <1>1, <1>3, <2>1, <2>2, PickGoesKeepsMenu
<1>4. ASSUME picker.family # pick.id.family, NEW v \in 1..picker.top[pick.id.family],
             picker' = [picker EXCEPT !.family = pick.id.family, !.value = v],
             pick' = [pick EXCEPT !.clicked = TRUE]
      PROVE  MenuInv'
  <2>1. v \in Values
    BY <1>1, <1>2, ValuesFacts DEF Picker
  <2>2. picker' \in Picker /\ picker'.touched = picker.touched /\ picker'.pending = picker.pending
    BY <1>1, <1>2, <1>4, <2>1 DEF Picker
  <2>3. pick' \in Picks /\ pick'.id = pick.id /\ pick'.alone = pick.alone /\ pick'.at = "family" /\ ~PickHolds'
    BY <1>1, <1>4 DEF Picks, PickHolds
  <2>4. KeysFit'
    BY <1>1, <2>2, <2>3 DEF MenuInv, KeysFit
  <2>5. HomeFits'
    <3>1. /\ ~(task.at = "start" /\ scan.at \in {"idle", "open", "done"})
          /\ task.at # "done"
          /\ ~(task.kind = "discover" /\ ~picker.touched /\ task.at = "confirm")
      BY <1>1, <1>4 DEF MenuInv, CallsFit, HomeFits, AtHome
    <3> QED
      BY <1>1, <2>2, <3>1 DEF MenuInv, HomeFits
  <2> QED
    BY <1>1, <2>2, <2>3, <2>4, <2>5, PickGoesKeepsMenu
<1> QED
  BY <1>3, <1>4 DEF PickFamily

LEMMA PickEffortKeepsMenu ==
  ASSUME MenuInv, Noted, PickEffort
  PROVE  MenuInv'
<1>1. /\ UNCHANGED <<scan, task>> /\ pick.at = "effort" /\ picker \in Picker /\ pick \in Picks
      /\ ~pick.alone
  BY DEF PickEffort, MenuInv, MenuTyped, Resting, CallsFit
<1>2. /\ picker.family = pick.id.family /\ picker.top[picker.family] = pick.id.top
      /\ picker.value # pick.previous
  BY DEF PickEffort, SliderMoved, Slider
<1>3. ~picker.touched => picker.pending = 0
  BY <1>1, <1>2 DEF MenuInv, KeysFit
<1>4. CASE picker.value = pick.id.value /\ UNCHANGED picker
           /\ pick' = [pick EXCEPT !.at = "close", !.label = LabelHere]
  <2>1. PICK label \in MenuLabels : label = LabelHere
    BY <1>1, HereFits
  <2>2. pick' = [pick EXCEPT !.at = "close", !.label = label]
    BY <1>4, <2>1
  <2>3. /\ pick' \in Picks /\ pick'.id = pick.id /\ pick'.alone = pick.alone /\ pick'.at = "close"
        /\ pick'.label = label
    BY <1>1, <2>2 DEF Picks
  <2>4. Here = pick.id
    <3>1. pick.id \in Identity
      BY <1>1 DEF Picks
    <3> QED
      BY <1>2, <1>4, <3>1 DEF Here, Identity
  <2>5. <<pick'.id, pick'.label>> \in shown'
    BY <2>1, <2>3, <2>4 DEF Noted, MenuInv, LabelsFit
  <2>6. KeysFit' /\ HomeFits'
    BY <1>1, <1>2, <1>3, <1>4, <2>3 DEF MenuInv, KeysFit, HomeFits, AtHome, PickHolds
  <2> QED
    BY <1>1, <1>4, <2>3, <2>5, <2>6, PickGoesKeepsMenu
<1>5. CASE picker.value # pick.id.value
           /\ picker' = [picker EXCEPT !.pending = @ + (IF pick.id.value > picker.value THEN 1 ELSE -1)]
           /\ pick' = [pick EXCEPT !.keys = @ + 1, !.previous = picker.value]
  <2>1. picker.value \in Values /\ picker.pending \in Int /\ pick.keys \in Nat
    BY <1>1 DEF Picker, Picks
  <2>2. PICK step \in {1, -1} : step = IF pick.id.value > picker.value THEN 1 ELSE -1
    OBVIOUS
  <2>3. /\ picker' \in Picker /\ picker'.touched = picker.touched /\ picker'.pending = picker.pending + step
        /\ picker'.value = picker.value /\ picker'.family = picker.family
    BY <1>1, <1>5, <2>1, <2>2 DEF Picker
  <2>4. /\ pick' \in Picks /\ pick'.id = pick.id /\ pick'.alone = pick.alone /\ pick'.at = "effort"
        /\ pick'.previous = picker.value /\ ~PickHolds'
    <3>1. PICK keys \in Nat : keys = pick.keys + 1
      BY <2>1
    <3>2. PICK previous \in {0} \cup Values : previous = picker.value
      BY <2>1
    <3>3. pick' = [pick EXCEPT !.keys = keys, !.previous = previous]
      BY <1>5, <3>1, <3>2
    <3> QED
      BY <1>1, <3>1, <3>2, <3>3 DEF Picks, PickHolds
  <2>5. KeysFit'
    BY <1>3, <2>3, <2>4 DEF KeysFit
  <2>6. HomeFits'
    <3>1. /\ ~(task.at = "start" /\ scan.at \in {"idle", "open", "done"})
          /\ task.at # "done"
          /\ ~(task.kind = "discover" /\ ~picker.touched /\ task.at = "confirm")
      <4>1. task.at = "confirm" => pick.id = task.route.id
        BY <1>1 DEF MenuInv, CallsFit
      <4>2. task.kind = "discover" /\ ~picker.touched /\ task.at = "confirm" => picker.value = pick.id.value
        BY <4>1 DEF MenuInv, HomeFits, AtHome
      <4> QED
        BY <1>1, <1>5, <4>2 DEF MenuInv, CallsFit
    <3> QED
      BY <1>1, <2>3, <3>1 DEF MenuInv, HomeFits
  <2> QED
    BY <1>1, <2>3, <2>4, <2>5, <2>6, PickGoesKeepsMenu
<1> QED
  BY <1>4, <1>5 DEF PickEffort

LEMMA PickClosesKeepsMenu ==
  ASSUME MenuInv, Noted, PickCloses
  PROVE  MenuInv'
<1>1. /\ UNCHANGED <<picker, scan, task>> /\ pick.at = "close" /\ picker \in Picker /\ pick \in Picks
  BY DEF PickCloses, MenuInv, MenuTyped, Resting
<1>2. /\ pick' \in Picks /\ pick'.at = "done" /\ pick'.id = pick.id /\ pick'.alone = pick.alone
      /\ pick'.label = pick.label /\ PickHolds
  BY <1>1 DEF PickCloses, Picks, PickHolds
<1>3. KeysFit' /\ HomeFits'
  BY <1>1, <1>2 DEF MenuInv, KeysFit, HomeFits, AtHome, PickHolds
<1>4. ~pick.alone => <<pick'.id, pick'.label>> \in shown'
  BY <1>2 DEF Noted, MenuInv, LabelsFit
<1> QED
  BY <1>1, <1>2, <1>3, <1>4, PickGoesKeepsMenu

LEMMA PickingFits ==
  ASSUME NEW id \in Identity, NEW alone \in BOOLEAN
  PROVE  /\ Picking(id, alone) \in Picks /\ Picking(id, alone).id = id
         /\ Picking(id, alone).alone = alone /\ Picking(id, alone).at = "family"
  BY DEF Picking, Picks

LEMMA ScanKinds ==
  ASSUME MenuTyped
  PROVE  /\ scan.at = "idle" => scan = Resting
         /\ scan.at = "open" => scan = Scanning
         /\ scan.at \in {"values", "restore"} \/ Scanned => scan \in OpenScan
         /\ scan.at = "done" /\ scan \notin OpenScan => scan.code = "other"
  BY DEF MenuTyped, Resting, Scanning, Unread, OpenScan, Scanned

LEMMA StillKinds ==
  Resting \notin OpenScan /\ Scanning \notin OpenScan /\ Resting.at = "idle" /\ Scanning.at = "open"
  BY DEF Resting, Scanning, OpenScan

\* A scan goes on: it keeps its first reading, and what it found was shown.
LEMMA ScanGoesKeepsMenu ==
  ASSUME MenuInv, Noted, UNCHANGED <<picker, task>>, scan \in OpenScan,
         scan.at \in {"values", "restore"}, pick.at \in {"idle", "done"},
         scan' \in OpenScan, scan'.first = scan.first, scan'.label = scan.label,
         pick' \in {Resting} \cup Picks, pick'.at \in {"idle", "family"},
         pick'.at # "idle" => ~pick'.alone,
         scan'.at = "values" /\ pick'.at # "idle" => pick'.id = [scan.first EXCEPT !.value = scan'.next],
         scan'.at = "restore" => pick'.at # "idle" /\ pick'.id = scan.first,
         scan'.at = "done" => /\ pick'.at = "idle"
                              /\ task.kind = "discover" /\ task.at = "start" /\ ~picker.touched
                                   => AtHome \/ scan'.code = "E_MODEL_RESTORE",
         FoundFits', \A c \in scan'.found : <<c.id, c.label>> \in shown
  PROVE  MenuInv'
<1>0. shown' = shown /\ scan'.at \in {"values", "restore", "done"}
  BY StillShown DEF OpenScan
<1>1. MenuTyped'
  BY <1>0 DEF MenuInv, MenuTyped
<1>2. CallsFit'
  BY <1>0 DEF MenuInv, CallsFit
<1>3. LabelsFit'
  <2>1. <<Here, LabelHere>>' \in shown'
    BY ShownTyped DEF MenuInv, MenuTyped
  <2>2. ScanHolds' /\ ~PickHolds'
    BY <1>0 DEF MenuInv, LabelsFit, ScanHolds, PickHolds
  <2>3. TaskHolds'
    <3>1. task.at # "routes"
      BY DEF MenuInv, CallsFit
    <3> QED
      BY <1>0, <3>1 DEF MenuInv, LabelsFit, TaskHolds, Succeeded
  <2> QED
    BY <2>1, <2>2, <2>3 DEF LabelsFit
<1>4. KeysFit'
  BY DEF MenuInv, KeysFit, PickHolds
<1>5. HomeFits'
  BY <1>0 DEF MenuInv, HomeFits, AtHome
<1>6. TestsFit'
  BY DEF MenuInv, TestsFit, Passed, Succeeded
<1> QED
  BY <1>1, <1>2, <1>3, <1>4, <1>5, <1>6, PartsMakeTrueNext DEF MenuInv

LEMMA ScanOpensKeepsMenu ==
  ASSUME MenuInv, Noted, ScanOpens
  PROVE  MenuInv'
<1>1. /\ UNCHANGED <<picker, pick, task>> /\ scan.at = "open" /\ pick.at = "idle" /\ picker \in Picker
      /\ shown' = shown
  BY StillShown DEF ScanOpens, MenuInv, MenuTyped
<1>2. task.at \in {"start", "families", "select"}
  BY <1>1 DEF MenuInv, MenuTyped, CallsFit, Tasks
<1>3. PICK here \in Identity, label \in MenuLabels : here = Here /\ label = LabelHere /\ <<here, label>> \in shown
  BY <1>1, HereFits DEF MenuInv, LabelsFit
<1>4. /\ scan' \in Unread \cup OpenScan /\ scan'.at \in {"values", "done"}
      /\ scan' \in OpenScan => /\ scan'.at = "values" /\ scan'.first = here /\ scan'.label = label
                               /\ scan'.found = {}
  <2>1. CASE scan' = [at |-> "values", code |-> "none", found |-> {}, next |-> 1, first |-> Here,
                      label |-> LabelHere, others |-> Families \ (picker.off \cup {picker.family})]
    <3>1. PICK others \in SUBSET Families : others = Families \ (picker.off \cup {picker.family})
      OBVIOUS
    <3>2. scan' = [at |-> "values", code |-> "none", found |-> {}, next |-> 1, first |-> here,
                   label |-> label, others |-> others]
      BY <1>3, <2>1, <3>1
    <3> QED
      BY <3>2 DEF OpenScan, MenuCodes
  <2>2. CASE scan' = [scan EXCEPT !.at = "done", !.code = "other"]
    <3>1. scan = [at |-> "open", code |-> "none", found |-> {}]
      BY <1>1, ScanKinds DEF MenuInv, Scanning
    <3>2. scan' = [at |-> "done", code |-> "other", found |-> {}]
      BY <2>2, <3>1
    <3> QED
      BY <3>2 DEF Unread, OpenScan
  <2> QED
    BY <2>1, <2>2 DEF ScanOpens
<1>5. MenuTyped'
  BY <1>1, <1>4 DEF MenuInv, MenuTyped
<1>6. CallsFit'
  BY <1>1, <1>2, <1>4 DEF MenuInv, CallsFit
<1>7. LabelsFit'
  <2>1. <<Here, LabelHere>>' \in shown'
    BY <1>1, ShownTyped
  <2>2. ScanHolds' /\ ~PickHolds'
    BY <1>1, <1>3, <1>4 DEF ScanHolds, PickHolds
  <2>3. TaskHolds'
    BY <1>1, <1>2 DEF MenuInv, LabelsFit, TaskHolds, Succeeded
  <2> QED
    BY <2>1, <2>2, <2>3 DEF LabelsFit
<1>8. KeysFit'
  BY <1>1 DEF MenuInv, KeysFit, PickHolds
<1>9. HomeFits'
  <2>1. task.kind = "discover" /\ ~picker.touched /\ task.at = "start" =>
          AtHome /\ here.family = task.start.family /\ here.value = task.start.value
    BY <1>1, <1>3 DEF MenuInv, HomeFits, AtHome, Here
  <2> QED
    BY <1>1, <1>2, <1>4, <2>1 DEF MenuInv, HomeFits, AtHome
<1>10. FoundFits'
  BY <1>4, FS_EmptySet DEF FoundFits
<1>11. TestsFit'
  BY <1>1 DEF MenuInv, TestsFit, Passed, Succeeded
<1> QED
  BY <1>5, <1>6, <1>7, <1>8, <1>9, <1>10, <1>11, PartsMakeTrueNext DEF MenuInv

\* One more position was read.
LEMMA FoundKeepsMenu ==
  ASSUME MenuInv, Noted, UNCHANGED <<picker, task>>, scan \in OpenScan, scan.at = "values",
         scan.next \in Values, NEW label \in MenuLabels, scan' = Found(label),
         <<[scan.first EXCEPT !.value = scan.next], label>> \in shown,
         pick.at \in {"idle", "done"}, pick' = Resting
  PROVE  MenuInv'
<1>1. /\ scan.first \in Identity /\ scan.found \in SUBSET Cand /\ scan.next \in Nat \ {0}
      /\ scan.next + 1 \in Nat \ {0}
  BY DEF OpenScan
<1>2. PICK id \in Identity : id = [scan.first EXCEPT !.value = scan.next]
  BY <1>1 DEF Identity
<1>3. PICK selected \in BOOLEAN : selected <=> scan.next = scan.first.value
  OBVIOUS
<1>4. PICK c \in Cand : c = [id |-> id, label |-> label, selected |-> selected]
  BY DEF Cand
<1>5. PICK found \in SUBSET Cand : found = scan.found \cup {c}
  BY <1>1
<1>6. Candidate([scan.first EXCEPT !.value = scan.next], label, scan.next = scan.first.value) = c
  <2>1. (scan.next = scan.first.value) = selected
    BY <1>3
  <2> QED
    BY <1>2, <1>4, <2>1 DEF Candidate
<1>7. scan' = [scan EXCEPT !.next = scan.next + 1, !.found = found]
  BY <1>5, <1>6 DEF Found
<1>8. /\ scan' \in OpenScan /\ scan'.first = scan.first /\ scan'.label = scan.label /\ scan'.at = "values"
      /\ scan'.next = scan.next + 1 /\ scan'.found = found
  BY <1>1, <1>7 DEF OpenScan
<1>9. FoundFits'
  <2>1. /\ IsFiniteSet(scan.found)
        /\ \A d \in scan.found : d.id = [scan.first EXCEPT !.value = d.id.value] /\ d.id.value < scan.next
        /\ \A d, e \in scan.found : d.id = e.id => d = e
    BY DEF MenuInv, FoundFits
  <2>2. IsFiniteSet(found)
    BY <1>5, <2>1, FS_AddElement
  <2>3. c.id = id /\ c.id.value = scan.next /\ c.id = [scan.first EXCEPT !.value = c.id.value]
    BY <1>1, <1>2, <1>4 DEF Identity
  <2>0. \A d \in scan.found : d.id.value \in Nat
    BY <1>1, ValuesFacts DEF Cand, Identity
  <2>4. ASSUME NEW d \in found
        PROVE  d.id = [scan.first EXCEPT !.value = d.id.value] /\ d.id.value < scan.next + 1
    <3>1. CASE d = c
      BY <1>1, <2>3, <3>1
    <3>2. CASE d \in scan.found
      BY <1>1, <2>0, <2>1, <3>2
    <3> QED
      BY <1>5, <3>1, <3>2
  <2>5. ASSUME NEW d \in found, NEW e \in found, d.id = e.id
        PROVE  d = e
    <3>1. ASSUME NEW g \in scan.found
          PROVE  g.id # c.id
      <4>1. g.id.value \in Nat /\ g.id.value < scan.next
        BY <2>0, <2>1
      <4> QED
        BY <1>1, <2>3, <4>1
    <3> QED
      BY <1>5, <2>1, <2>5, <3>1
  <2> QED
    BY <1>8, <2>2, <2>4, <2>5 DEF FoundFits
<1>10. \A d \in scan'.found : <<d.id, d.label>> \in shown
  <2>1. <<c.id, c.label>> \in shown
    BY <1>2, <1>4
  <2>2. \A d \in scan.found : <<d.id, d.label>> \in shown
    BY DEF MenuInv, LabelsFit, ScanHolds
  <2> QED
    BY <1>5, <1>8, <2>1, <2>2
<1> QED
  BY <1>8, <1>9, <1>10, ScanGoesKeepsMenu, StillKinds

LEMMA ScanValueKeepsMenu ==
  ASSUME MenuInv, Noted, ScanValue
  PROVE  MenuInv'
<1>1. UNCHANGED <<picker, task>> /\ scan.at = "values"
  BY DEF ScanValue
<1>2. /\ scan \in OpenScan /\ scan.first \in Identity /\ scan.next \in Nat \ {0} /\ scan.first.top \in Values
      /\ scan.first.value \in Values /\ scan.label \in MenuLabels /\ <<scan.first, scan.label>> \in shown
      /\ FoundFits /\ \A c \in scan.found : <<c.id, c.label>> \in shown
  BY <1>1, ScanKinds DEF MenuInv, OpenScan, Identity, LabelsFit, ScanHolds
<1>3. ASSUME NEW code \in MenuCodes, scan' = [scan EXCEPT !.at = "restore", !.code = code],
             pick' = Picking(scan.first, FALSE), pick.at \in {"idle", "done"}
      PROVE  MenuInv'
  <2>1. /\ scan' \in OpenScan /\ scan'.first = scan.first /\ scan'.label = scan.label
        /\ scan'.at = "restore" /\ scan'.found = scan.found /\ scan'.next = scan.next
    BY <1>2, <1>3 DEF OpenScan
  <2>2. /\ pick' \in Picks /\ pick'.id = scan.first /\ ~pick'.alone /\ pick'.at = "family"
    BY <1>2, <1>3, PickingFits
  <2>3. FoundFits'
    BY <1>2, <2>1 DEF FoundFits
  <2> QED
    BY <1>1, <1>2, <1>3, <2>1, <2>2, <2>3, ScanGoesKeepsMenu
<1>4. CASE pick.at = "idle" /\ scan' = [scan EXCEPT !.at = "restore"] /\ pick' = Picking(scan.first, FALSE)
  <2>1. scan.code \in MenuCodes /\ scan' = [scan EXCEPT !.at = "restore", !.code = scan.code]
    BY <1>2, <1>4 DEF OpenScan
  <2> QED
    BY <1>3, <1>4, <2>1
<1>5. CASE /\ pick.at = "idle" /\ scan.next <= scan.first.top /\ scan.next = scan.first.value
           /\ scan' = Found(scan.label) /\ UNCHANGED pick
  <2>1. [scan.first EXCEPT !.value = scan.next] = scan.first
    BY <1>2, <1>5 DEF Identity
  <2>2. scan.next \in Values /\ pick = Resting
    BY <1>2, <1>5 DEF MenuInv, MenuTyped, Picks
  <2> QED
    BY <1>1, <1>2, <1>5, <2>1, <2>2, FoundKeepsMenu
<1>6. CASE /\ pick.at = "idle" /\ scan.next <= scan.first.top
           /\ pick' = Picking([scan.first EXCEPT !.value = scan.next], FALSE) /\ UNCHANGED scan
  <2>1. scan.next \in Values
    BY <1>2, <1>6, ValuesFacts
  <2>2. PICK id \in Identity : id = [scan.first EXCEPT !.value = scan.next]
    BY <1>2, <2>1 DEF Identity
  <2>3. /\ pick' \in Picks /\ pick'.id = id /\ ~pick'.alone /\ pick'.at = "family"
    BY <1>6, <2>2, PickingFits
  <2>4. FoundFits'
    BY <1>2, <1>6 DEF FoundFits
  <2> QED
    BY <1>1, <1>2, <1>6, <2>2, <2>3, <2>4, ScanGoesKeepsMenu
<1>7. CASE pick.at = "done" /\ pick.ok /\ scan' = Found(pick.label) /\ pick' = Resting
  <2>1. /\ pick \in Picks /\ pick.id = [scan.first EXCEPT !.value = scan.next] /\ ~pick.alone
    BY <1>1, <1>7 DEF MenuInv, MenuTyped, CallsFit, Resting
  <2>2. <<pick.id, pick.label>> \in shown
    BY <1>7, <2>1 DEF MenuInv, LabelsFit, PickHolds
  <2>3. pick.label \in MenuLabels
    BY <2>2 DEF MenuInv, MenuTyped
  <2>4. pick.id \in Identity /\ pick.id.value \in Values
    BY <2>1 DEF Picks, Identity
  <2>5. pick.id.value = scan.next
    BY <1>2, <2>1 DEF Identity
  <2> QED
    BY <1>1, <1>2, <1>7, <2>1, <2>2, <2>3, <2>4, <2>5, FoundKeepsMenu
<1>8. CASE /\ pick.at = "done" /\ scan' = [scan EXCEPT !.at = "restore", !.code = "other"]
           /\ pick' = Picking(scan.first, FALSE)
  BY <1>3, <1>8 DEF MenuCodes
<1> QED
  BY <1>4, <1>5, <1>6, <1>7, <1>8 DEF ScanValue

LEMMA ScanRestoresKeepsMenu ==
  ASSUME MenuInv, Noted, ScanRestores
  PROVE  MenuInv'
<1>1. UNCHANGED <<picker, task>> /\ scan.at = "restore" /\ pick.at = "done" /\ pick' = Resting
  BY DEF ScanRestores
<1>2. /\ scan \in OpenScan /\ FoundFits /\ \A c \in scan.found : <<c.id, c.label>> \in shown
      /\ pick.id = scan.first /\ ~pick.alone /\ scan.code \in MenuCodes
  BY <1>1, ScanKinds DEF MenuInv, OpenScan, LabelsFit, ScanHolds, CallsFit
<1>3. PICK code \in MenuCodes : code = IF Picked(scan.label) THEN scan.code ELSE "E_MODEL_RESTORE"
  BY <1>2 DEF MenuCodes
<1>4. scan' = [scan EXCEPT !.at = "done", !.code = code]
  BY <1>3 DEF ScanRestores
<1>5. /\ scan' \in OpenScan /\ scan'.first = scan.first /\ scan'.label = scan.label /\ scan'.at = "done"
      /\ scan'.found = scan.found /\ scan'.next = scan.next /\ scan'.code = code
  BY <1>2, <1>4 DEF OpenScan
<1>6. FoundFits'
  BY <1>2, <1>5 DEF FoundFits
<1>7. task.kind = "discover" /\ task.at = "start" /\ ~picker.touched => AtHome \/ code = "E_MODEL_RESTORE"
  <2>1. Picked(scan.label) => PickHolds
    BY DEF Picked, PickHolds
  <2> QED
    BY <1>1, <1>2, <1>3, <2>1 DEF MenuInv, HomeFits, KeysFit, AtHome
<1> QED
  BY <1>1, <1>2, <1>5, <1>6, <1>7, StillKinds, ScanGoesKeepsMenu

\* The caller goes on: no key is on its way, and the history stays.
LEMMA TaskGoesKeepsMenu ==
  ASSUME MenuInv, Noted, UNCHANGED picker, pick.at # "effort",
         pick' \in {Resting} \cup Picks, pick'.at \in {"idle", "family"},
         scan' \in {Resting, Scanning}, task' \in Tasks,
         task'.todo \subseteq (IF task'.kind = "discover" THEN Families ELSE Cand),
         CallsFit', TaskHolds', HomeFits', TestsFit'
  PROVE  MenuInv'
<1>0. shown' = shown
  BY StillShown
<1>1. MenuTyped'
  BY <1>0 DEF MenuInv, MenuTyped, Unread
<1>2. LabelsFit'
  <2>1. <<Here, LabelHere>>' \in shown'
    BY ShownTyped DEF MenuInv, MenuTyped
  <2>2. ScanHolds' /\ ~PickHolds'
    BY StillKinds DEF ScanHolds, PickHolds
  <2> QED
    BY <2>1, <2>2 DEF LabelsFit
<1>3. KeysFit'
  BY DEF MenuInv, KeysFit, PickHolds
<1>4. FoundFits'
  BY StillKinds DEF FoundFits
<1> QED
  BY <1>1, <1>2, <1>3, <1>4, PartsMakeTrueNext DEF MenuInv

LEMMA DiscoversKeepsMenu ==
  ASSUME MenuInv, Noted, Discovers
  PROVE  MenuInv'
<1>1. /\ UNCHANGED <<picker, pick>> /\ task.at = "start" /\ task.kind = "discover" /\ task \in Tasks
      /\ scan.at \in {"idle", "done"} /\ shown' = shown
  BY StillShown DEF Discovers, MenuInv, MenuTyped, Scanned
<1>2. pick.at = "idle" /\ pick = Resting
  BY <1>1 DEF MenuInv, MenuTyped, CallsFit, Picks
<1>3. CASE scan.at = "idle" /\ scan' = Scanning /\ UNCHANGED <<task, pick>>
  <2>1. CallsFit'
    BY <1>1, <1>2, <1>3, StillKinds DEF MenuInv, CallsFit
  <2>2. TaskHolds' /\ TestsFit'
    BY <1>1, <1>3 DEF MenuInv, LabelsFit, TaskHolds, TestsFit, Succeeded
  <2>3. HomeFits'
    BY <1>1, <1>3, StillKinds DEF MenuInv, HomeFits, AtHome
  <2> QED
    BY <1>1, <1>2, <1>3, <2>1, <2>2, <2>3, TaskGoesKeepsMenu DEF MenuInv, MenuTyped
<1>4. CASE /\ Scanned /\ scan' = Resting
           /\ task' = [task EXCEPT !.at = "families", !.listed = scan.found, !.todo = scan.others,
                                   !.route = [id |-> scan.first, label |-> scan.label]]
  <2>1. /\ scan \in OpenScan /\ scan.found \in SUBSET Cand /\ scan.others \in SUBSET Families
        /\ scan.first \in Identity /\ scan.label \in MenuLabels
        /\ \A c \in scan.found : <<c.id, c.label>> \in shown
    BY <1>4, ScanKinds DEF MenuInv, OpenScan, LabelsFit, ScanHolds
  <2>2. PICK route \in RouteRec : route = [id |-> scan.first, label |-> scan.label]
    BY <2>1 DEF RouteRec
  <2>3. PICK found \in SUBSET Cand, others \in SUBSET Families : found = scan.found /\ others = scan.others
    BY <2>1
  <2>4. task' = [task EXCEPT !.at = "families", !.listed = found, !.todo = others, !.route = route]
    BY <1>4, <2>2, <2>3
  <2>5. others \in SUBSET (Families \cup Cand)
    BY <2>3
  <2>6. /\ task' \in Tasks /\ task'.at = "families" /\ task'.listed = found /\ task'.todo = others
        /\ task'.kind = "discover" /\ task'.start = task.start /\ task'.route = route
    BY <1>1, <2>4, <2>5 DEF Tasks
  <2>7. CallsFit'
    BY <1>1, <1>2, <1>4, <2>6, StillKinds DEF CallsFit
  <2>8. TaskHolds' /\ TestsFit'
    BY <1>1, <2>1, <2>3, <2>6 DEF TaskHolds, TestsFit
  <2>9. HomeFits'
    <3>1. route.id = scan.first
      BY <2>2
    <3>2. ~picker.touched => scan.first.family = task.start.family /\ scan.first.value = task.start.value
      BY <1>1, <2>1 DEF MenuInv, HomeFits
    <3> QED
      BY <1>1, <2>6, <3>1, <3>2 DEF HomeFits
  <2> QED
    BY <1>1, <1>2, <1>4, <2>6, <2>7, <2>8, <2>9, TaskGoesKeepsMenu
<1>5. CASE scan.at = "done" /\ scan.code # "none" /\ Finish(scan.code) /\ scan' = Resting
  <2>1. PICK code \in MenuCodes : code = scan.code
    BY <1>5, ScanKinds DEF MenuInv, OpenScan, MenuCodes
  <2>2. task' = [task EXCEPT !.at = "done", !.code = code]
    BY <1>5, <2>1 DEF Finish
  <2>3. /\ task' \in Tasks /\ task'.at = "done" /\ task'.listed = task.listed /\ task'.todo = task.todo
        /\ task'.kind = "discover" /\ task'.start = task.start /\ task'.code = code
    BY <1>1, <2>2 DEF Tasks
  <2>4. CallsFit'
    BY <1>1, <1>2, <1>5, <2>3, StillKinds DEF CallsFit
  <2>5. TaskHolds' /\ TestsFit'
    BY <1>1, <2>3 DEF MenuInv, LabelsFit, TaskHolds, TestsFit
  <2>6. HomeFits'
    BY <1>1, <1>5, <2>1, <2>3 DEF MenuInv, HomeFits, AtHome
  <2> QED
    BY <1>1, <1>2, <1>5, <2>3, <2>4, <2>5, <2>6, TaskGoesKeepsMenu DEF MenuInv, MenuTyped
<1> QED
  BY <1>3, <1>4, <1>5 DEF Discovers

LEMMA VisitReturns ==
  ASSUME MenuInv, Noted, UNCHANGED picker, task.at = "families", pick.at \in {"idle", "done"},
         NEW code \in MenuCodes, Return(code)
  PROVE  MenuInv'
<1>1. task \in Tasks /\ task.kind = "discover" /\ shown' = shown
  BY StillShown DEF MenuInv, MenuTyped, CallsFit
<1>2. /\ task' \in Tasks /\ task'.at = "restore" /\ task'.listed = task.listed /\ task'.todo = task.todo
      /\ task'.kind = "discover" /\ task'.start = task.start /\ task'.route = task.route
  BY <1>1 DEF Tasks, Return
<1>3. /\ pick' \in Picks /\ pick'.id = task.route.id /\ ~pick'.alone /\ pick'.at = "family" /\ scan' = Resting
  <2>1. task.route.id \in Identity
    BY <1>1 DEF Tasks, RouteRec
  <2> QED
    BY <2>1, PickingFits DEF Return
<1>4. CallsFit'
  BY <1>1, <1>2, <1>3, StillKinds DEF CallsFit
<1>5. TaskHolds' /\ TestsFit'
  BY <1>1, <1>2 DEF MenuInv, LabelsFit, TaskHolds, TestsFit
<1>6. HomeFits'
  BY <1>1, <1>2 DEF MenuInv, HomeFits
<1> QED
  BY <1>1, <1>2, <1>3, <1>4, <1>5, <1>6, TaskGoesKeepsMenu DEF MenuInv, MenuTyped

LEMMA UnselectedFits ==
  ASSUME NEW found \in SUBSET Cand
  PROVE  /\ Unselected(found) \in SUBSET Cand
         /\ \A c \in Unselected(found) : \E d \in found : c.id = d.id /\ c.label = d.label
<1>1. ASSUME NEW d \in found
      PROVE  /\ [d EXCEPT !.selected = FALSE] \in Cand
             /\ [d EXCEPT !.selected = FALSE].id = d.id /\ [d EXCEPT !.selected = FALSE].label = d.label
  BY DEF Cand
<1> QED
  BY <1>1 DEF Unselected

LEMMA VisitFamilyKeepsMenu ==
  ASSUME MenuInv, Noted, VisitFamily
  PROVE  MenuInv'
<1>1. /\ UNCHANGED picker /\ task.at = "families" /\ task.kind = "discover" /\ task \in Tasks
      /\ task.todo \subseteq Families /\ shown' = shown
  BY StillShown DEF VisitFamily, MenuInv, MenuTyped, CallsFit
<1>2. CASE /\ pick.at = "idle" /\ scan.at = "idle"
           /\ \E f \in task.todo :
                /\ pick' = Picking([task.route.id EXCEPT !.family = f], TRUE)
                /\ task' = [task EXCEPT !.todo = @ \ {f}, !.family = f]
           /\ UNCHANGED scan
  <2>1. PICK f \in task.todo :
          /\ pick' = Picking([task.route.id EXCEPT !.family = f], TRUE)
          /\ task' = [task EXCEPT !.todo = @ \ {f}, !.family = f]
    BY <1>2
  <2>2. PICK id \in Identity : id = [task.route.id EXCEPT !.family = f]
    BY <1>1 DEF Tasks, RouteRec, Identity
  <2>3. /\ pick' \in Picks /\ pick'.at = "family"
    BY <2>1, <2>2, PickingFits
  <2>4. PICK todo \in SUBSET (Families \cup Cand) : todo = task.todo \ {f}
    BY <1>1
  <2>5. /\ task' \in Tasks /\ task'.at = "families" /\ task'.listed = task.listed /\ task'.todo = todo
        /\ task'.kind = "discover" /\ task'.start = task.start /\ task'.route = task.route
    <3>1. task' = [task EXCEPT !.todo = todo, !.family = f]
      BY <2>1, <2>4
    <3> QED
      BY <1>1, <3>1 DEF Tasks
  <2>6. scan = Resting
    BY <1>2, ScanKinds DEF MenuInv
  <2>7. CallsFit'
    BY <1>1, <1>2, <2>3, <2>5 DEF CallsFit
  <2>8. TaskHolds' /\ TestsFit'
    BY <1>1, <2>5 DEF MenuInv, LabelsFit, TaskHolds, TestsFit
  <2>9. HomeFits'
    BY <1>1, <2>5 DEF MenuInv, HomeFits
  <2> QED
    BY <1>1, <1>2, <2>3, <2>4, <2>5, <2>6, <2>7, <2>8, <2>9, TaskGoesKeepsMenu
<1>3. CASE /\ scan.at = "idle" /\ pick.at = "done" /\ pick' = Resting /\ scan' = Scanning /\ UNCHANGED task
  <2>1. CallsFit' /\ TaskHolds' /\ TestsFit' /\ HomeFits'
    BY <1>1, <1>3, StillKinds DEF MenuInv, CallsFit, LabelsFit, TaskHolds, TestsFit, HomeFits
  <2> QED
    BY <1>1, <1>3, <2>1, StillKinds, TaskGoesKeepsMenu
<1>4. CASE /\ Scanned /\ task' = [task EXCEPT !.listed = @ \cup Unselected(scan.found)]
           /\ scan' = Resting /\ UNCHANGED pick
  <2>1. /\ scan \in OpenScan /\ scan.found \in SUBSET Cand /\ \A c \in scan.found : <<c.id, c.label>> \in shown
        /\ pick.at = "idle" /\ pick = Resting
    BY <1>4, ScanKinds DEF MenuInv, MenuTyped, OpenScan, LabelsFit, ScanHolds, CallsFit, Scanned, Picks
  <2>2. PICK more \in SUBSET Cand : more = Unselected(scan.found) /\ \A c \in more : <<c.id, c.label>> \in shown
    BY <2>1, UnselectedFits
  <2>3. PICK listed \in SUBSET Cand : listed = task.listed \cup more
    BY <1>1, <2>2 DEF Tasks
  <2>4. /\ task' \in Tasks /\ task'.at = "families" /\ task'.listed = listed /\ task'.todo = task.todo
        /\ task'.kind = "discover" /\ task'.start = task.start /\ task'.route = task.route
    <3>1. task' = [task EXCEPT !.listed = listed]
      BY <1>4, <2>2, <2>3
    <3> QED
      BY <1>1, <3>1 DEF Tasks
  <2>5. CallsFit'
    BY <1>1, <1>4, <2>1, <2>4, StillKinds DEF CallsFit
  <2>6. TaskHolds' /\ TestsFit'
    BY <1>1, <2>2, <2>3, <2>4 DEF MenuInv, LabelsFit, TaskHolds, TestsFit
  <2>7. HomeFits'
    BY <1>1, <2>4 DEF MenuInv, HomeFits
  <2> QED
    BY <1>1, <1>4, <2>1, <2>4, <2>5, <2>6, <2>7, StillKinds, TaskGoesKeepsMenu
<1>5. CASE \/ /\ scan.at = "idle" /\ pick.at = "idle" /\ task.todo = {} /\ Return("none")
           \/ /\ scan.at = "idle" /\ pick.at = "done" /\ ~pick.ok /\ Return("other")
           \/ /\ Scanned /\ scan.first.family # task.family /\ Return("other")
           \/ /\ scan.at = "done" /\ scan.code # "none" /\ Return(scan.code)
  <2>1. pick.at \in {"idle", "done"}
    BY <1>5 DEF MenuInv, CallsFit, Scanned
  <2>2. \E code \in MenuCodes : Return(code)
    <3>1. CASE scan.at = "done" /\ scan.code # "none" /\ Return(scan.code)
      <4>1. scan.code \in MenuCodes
        BY <3>1, ScanKinds DEF MenuInv, OpenScan, MenuCodes
      <4> QED
        BY <3>1, <4>1
    <3> QED
      BY <1>5, <3>1 DEF MenuCodes
  <2> QED
    BY <1>1, <2>1, <2>2, VisitReturns
<1> QED
  BY <1>2, <1>3, <1>4, <1>5 DEF VisitFamily

LEMMA FinishFits ==
  ASSUME task \in Tasks, NEW code \in MenuCodes, Finish(code)
  PROVE  /\ task' \in Tasks /\ task'.at = "done" /\ task'.code = code /\ task'.listed = task.listed
         /\ task'.todo = task.todo /\ task'.kind = task.kind /\ task'.start = task.start
         /\ task'.route = task.route /\ task'.next = task.next /\ task'.tests = task.tests
  BY DEF Finish, Tasks

LEMMA ListRestoredKeepsMenu ==
  ASSUME MenuInv, Noted, ListRestored
  PROVE  MenuInv'
<1>1. /\ UNCHANGED <<picker, scan>> /\ task.at = "restore" /\ task.kind = "discover" /\ task \in Tasks
      /\ pick.at = "done" /\ pick.id = task.route.id /\ ~pick.alone /\ scan = Resting /\ shown' = shown
  BY StillShown, ScanKinds DEF ListRestored, MenuInv, MenuTyped, CallsFit
<1>2. ~picker.touched /\ Picked(task.route.label) => AtHome
  <2>1. Picked(task.route.label) => PickHolds
    BY DEF Picked, PickHolds
  <2> QED
    BY <1>1, <2>1 DEF MenuInv, HomeFits, KeysFit, AtHome
<1>3. CASE /\ Picked(task.route.label) /\ task' = [task EXCEPT !.at = "confirm"]
           /\ pick' = Picking(task.route.id, FALSE)
  <2>1. /\ task' \in Tasks /\ task'.at = "confirm" /\ task'.listed = task.listed /\ task'.todo = task.todo
        /\ task'.kind = "discover" /\ task'.start = task.start /\ task'.route = task.route
    BY <1>1, <1>3 DEF Tasks
  <2>2. /\ pick' \in Picks /\ pick'.id = task.route.id /\ ~pick'.alone /\ pick'.at = "family"
    <3>1. task.route.id \in Identity
      BY <1>1 DEF Tasks, RouteRec
    <3> QED
      BY <1>3, <3>1, PickingFits
  <2>3. CallsFit'
    BY <1>1, <2>1, <2>2, StillKinds DEF CallsFit
  <2>4. TaskHolds' /\ TestsFit'
    BY <1>1, <2>1 DEF MenuInv, LabelsFit, TaskHolds, TestsFit
  <2>5. HomeFits'
    BY <1>1, <1>2, <1>3, <2>1 DEF MenuInv, HomeFits, AtHome
  <2> QED
    BY <1>1, <2>1, <2>2, <2>3, <2>4, <2>5, TaskGoesKeepsMenu DEF MenuInv, MenuTyped
<1>4. CASE /\ Finish(IF Picked(task.route.label) THEN task.code ELSE "E_MODEL_RESTORE") /\ pick' = Resting
  <2>1. PICK code \in MenuCodes : code = IF Picked(task.route.label) THEN task.code ELSE "E_MODEL_RESTORE"
    BY <1>1 DEF Tasks, MenuCodes
  <2>2. /\ task' \in Tasks /\ task'.at = "done" /\ task'.code = code /\ task'.listed = task.listed
        /\ task'.todo = task.todo /\ task'.kind = "discover" /\ task'.start = task.start
    BY <1>1, <1>4, <2>1, FinishFits
  <2>3. CallsFit'
    BY <1>1, <1>4, <2>2, StillKinds DEF CallsFit
  <2>4. TaskHolds' /\ TestsFit'
    BY <1>1, <2>2 DEF MenuInv, LabelsFit, TaskHolds, TestsFit
  <2>5. HomeFits'
    BY <1>1, <1>2, <2>1, <2>2 DEF MenuInv, HomeFits, AtHome
  <2> QED
    BY <1>1, <1>4, <2>2, <2>3, <2>4, <2>5, StillKinds, TaskGoesKeepsMenu DEF MenuInv, MenuTyped
<1> QED
  BY <1>3, <1>4 DEF ListRestored

LEMMA ConfirmedKeepsMenu ==
  ASSUME MenuInv, Noted, Confirmed
  PROVE  MenuInv'
<1>1. /\ UNCHANGED <<picker, scan>> /\ task.at = "confirm" /\ task.kind # "extend" /\ task \in Tasks
      /\ pick.at = "done" /\ pick' = Resting /\ scan = Resting /\ shown' = shown
  <2>1. UNCHANGED <<picker, scan>> /\ task.at = "confirm" /\ pick.at = "done" /\ pick' = Resting
    BY DEF Confirmed
  <2> QED
    BY <2>1, StillShown, ScanKinds DEF MenuInv, MenuTyped, CallsFit
<1>2. PICK code \in MenuCodes : Finish(code)
  BY DEF Confirmed, MenuCodes
<1>3. /\ task' \in Tasks /\ task'.at = "done" /\ task'.code = code /\ task'.listed = task.listed
      /\ task'.todo = task.todo /\ task'.kind = task.kind /\ task'.start = task.start
  BY <1>1, <1>2, FinishFits
<1>4. CallsFit'
  BY <1>1, <1>3, StillKinds DEF CallsFit
<1>5. TaskHolds' /\ TestsFit'
  BY <1>1, <1>3 DEF MenuInv, LabelsFit, TaskHolds, TestsFit, Succeeded
<1>6. HomeFits'
  BY <1>1, <1>3 DEF MenuInv, HomeFits, AtHome
<1> QED
  BY <1>1, <1>3, <1>4, <1>5, <1>6, StillKinds, TaskGoesKeepsMenu DEF MenuInv, MenuTyped

LEMMA ExtendsKeepsMenu ==
  ASSUME MenuInv, Noted, Extends
  PROVE  MenuInv'
<1>1. /\ UNCHANGED picker /\ task.at = "select" /\ task.kind = "extend" /\ task \in Tasks
      /\ scan = Resting /\ shown' = shown /\ task.route.id \in Identity
  <2>1. UNCHANGED picker /\ task.at = "select" /\ scan.at = "idle"
    BY DEF Extends
  <2> QED
    BY <2>1, StillShown, ScanKinds DEF MenuInv, MenuTyped, CallsFit, Tasks, RouteRec
<1>2. CASE /\ pick.at = "idle" /\ pick' = Picking(task.route.id, FALSE) /\ UNCHANGED <<task, scan>>
  <2>1. pick' \in Picks /\ pick'.at = "family"
    BY <1>1, <1>2, PickingFits
  <2>2. CallsFit' /\ TaskHolds' /\ TestsFit' /\ HomeFits'
    BY <1>1, <1>2, <2>1, StillKinds
       DEF MenuInv, CallsFit, LabelsFit, TaskHolds, TestsFit, HomeFits, Passed, Succeeded
  <2> QED
    BY <1>1, <1>2, <2>1, <2>2, TaskGoesKeepsMenu DEF MenuInv, MenuTyped
<1>3. CASE pick.at = "done" /\ pick' = Resting /\ scan' = Scanning /\ UNCHANGED task
  <2>1. CallsFit' /\ TaskHolds' /\ TestsFit' /\ HomeFits'
    BY <1>1, <1>3, StillKinds
       DEF MenuInv, CallsFit, LabelsFit, TaskHolds, TestsFit, HomeFits, Passed, Succeeded
  <2> QED
    BY <1>1, <1>3, <2>1, StillKinds, TaskGoesKeepsMenu DEF MenuInv, MenuTyped
<1>4. CASE pick.at = "done" /\ Finish("other") /\ pick' = Resting /\ UNCHANGED scan
  <2>1. /\ task' \in Tasks /\ task'.at = "done" /\ task'.code = "other" /\ task'.listed = task.listed
        /\ task'.todo = task.todo /\ task'.kind = "extend"
    BY <1>1, <1>4, FinishFits DEF MenuCodes
  <2>2. CallsFit' /\ TaskHolds' /\ HomeFits'
    BY <1>1, <1>4, <2>1, StillKinds DEF MenuInv, CallsFit, LabelsFit, TaskHolds, HomeFits
  <2>3. TestsFit'
    BY <1>1, <2>1 DEF MenuInv, TestsFit, Succeeded
  <2> QED
    BY <1>1, <1>4, <2>1, <2>2, <2>3, StillKinds, TaskGoesKeepsMenu DEF MenuInv, MenuTyped
<1> QED
  BY <1>2, <1>3, <1>4 DEF Extends

\* As many candidates as there are names, and every name: no name twice.
LEMMA CompleteIsOneToOne ==
  ASSUME NEW found \in SUBSET Cand, IsFiniteSet(found), Cardinality(found) = Cardinality(Names),
         {c.label[2] : c \in found} = Names
  PROVE  \A c, d \in found : c.label[2] = d.label[2] => c = d
<1> DEFINE name == [c \in found |-> c.label[2]]
<1>1. name \in [found -> Names] /\ \A n \in Names : \E c \in found : name[c] = n
  OBVIOUS
<1>2. name \in Surjection(found, Names)
  BY <1>1 DEF Surjection
<1>3. name \in Injection(found, Names)
  BY <1>2, FS_SurjSameCardinalityImpliesInj, MenuAssumption
<1> QED
  BY <1>3 DEF Injection, IsInjective

LEMMA FamilyReadKeepsMenu ==
  ASSUME MenuInv, Noted, FamilyRead
  PROVE  MenuInv'
<1>1. /\ UNCHANGED <<picker, pick>> /\ task.at = "select" /\ task.kind = "extend" /\ task \in Tasks
      /\ scan.at = "done" /\ scan' = Resting /\ shown' = shown /\ pick = Resting
  <2>1. UNCHANGED <<picker, pick>> /\ task.at = "select" /\ scan.at = "done" /\ scan' = Resting
    BY DEF FamilyRead
  <2> QED
    BY <2>1, StillShown DEF MenuInv, MenuTyped, CallsFit, Picks
<1>2. task.listed = {} /\ task.step = 1
  BY <1>1 DEF MenuInv, TestsFit
<1>3. CASE Finish("other")
  <2>1. /\ task' \in Tasks /\ task'.at = "done" /\ task'.code = "other" /\ task'.listed = task.listed
        /\ task'.todo = task.todo /\ task'.kind = "extend"
    BY <1>1, <1>3, FinishFits DEF MenuCodes
  <2>2. CallsFit' /\ TaskHolds' /\ HomeFits'
    BY <1>1, <2>1, StillKinds DEF MenuInv, CallsFit, LabelsFit, TaskHolds, HomeFits
  <2>3. TestsFit'
    BY <1>2, <2>1 DEF TestsFit, Succeeded
  <2> QED
    BY <1>1, <2>1, <2>2, <2>3, StillKinds, TaskGoesKeepsMenu DEF MenuInv, MenuTyped
<1>4. CASE /\ Scanned /\ Complete(scan.found)
           /\ task' = [task EXCEPT !.at = "test", !.todo = {c \in scan.found : c.id # task.route.id}]
  <2>1. /\ scan \in OpenScan /\ IsFiniteSet(scan.found)
        /\ \A c, d \in scan.found : c.id = d.id => c = d
        /\ \A c \in scan.found : <<c.id, c.label>> \in shown
    BY <1>4, ScanKinds DEF MenuInv, FoundFits, LabelsFit, ScanHolds
  <2>2. PICK found \in SUBSET Cand : found = scan.found
    BY <2>1 DEF OpenScan
  <2>3. PICK todo \in SUBSET Cand : todo = {c \in found : c.id # task.route.id}
    OBVIOUS
  <2>4. todo \in SUBSET (Families \cup Cand)
    BY <2>3
  <2>5. /\ task' \in Tasks /\ task'.at = "test" /\ task'.listed = {} /\ task'.todo = todo
        /\ task'.kind = "extend" /\ task'.step = 1 /\ task'.route = task.route
    <3>1. task' = [task EXCEPT !.at = "test", !.todo = todo]
      BY <1>4, <2>2, <2>3
    <3> QED
      BY <1>1, <1>2, <2>4, <3>1 DEF Tasks
  <2>6. CallsFit' /\ HomeFits'
    BY <1>1, <2>5, StillKinds DEF CallsFit, HomeFits
  <2>7. TaskHolds'
    BY <1>1, <2>1, <2>2, <2>3, <2>5 DEF TaskHolds
  <2>8. {c.label[2] : c \in todo} = Names \ {task.route.label[2]}
    <3>1. /\ Cardinality(found) = Cardinality(Names) /\ {c.label[2] : c \in found} = Names
          /\ \E c \in found : c.id = task.route.id /\ c.label = task.route.label
      BY <1>4, <2>2 DEF Complete
    <3>2. PICK home \in found : home.id = task.route.id /\ home.label = task.route.label
      BY <3>1
    <3>3. \A c, d \in found : c.label[2] = d.label[2] => c = d
      BY <2>1, <2>2, <3>1, CompleteIsOneToOne
    <3>4. ASSUME NEW c \in todo
          PROVE  c.label[2] \in Names \ {task.route.label[2]}
      BY <2>3, <3>1, <3>2, <3>3
    <3>5. ASSUME NEW n \in Names, n # task.route.label[2]
          PROVE  \E c \in todo : c.label[2] = n
      <4>1. PICK c \in found : c.label[2] = n
        BY <3>1
      <4>2. c.id # task.route.id
        BY <2>1, <2>2, <3>2, <3>5, <4>1
      <4> QED
        BY <2>3, <4>1, <4>2
    <3> QED
      BY <3>4, <3>5
  <2>9. TestsFit'
    <3>1. {} \cup todo = todo
      OBVIOUS
    <3> QED
      BY <2>5, <2>8, <3>1 DEF TestsFit, Succeeded
  <2> QED
    BY <1>1, <2>3, <2>5, <2>6, <2>7, <2>9, StillKinds, TaskGoesKeepsMenu
<1> QED
  BY <1>3, <1>4 DEF FamilyRead

\* There is a first candidate to test.
LEMMA FirstFits ==
  ASSUME NEW todo \in SUBSET Cand, todo # {}
  PROVE  FirstOf(todo) \in todo
<1> DEFINE places == {d.id.value : d \in todo}
<1>1. places \subseteq Nat /\ places # {}
  BY ValuesFacts DEF Cand, Identity
<1> DEFINE less == {ss \in Nat \X Nat : ss[1] < ss[2]}
<1>2. OpToRel(<, Nat) = less
  BY DEF OpToRel
<1>3. IsWellFoundedOn(less, Nat)
  BY <1>2, NatLessThanWellFounded
<1> HIDE DEF less
<1>4. PICK n \in places : \A m \in places : ~(<<m, n>> \in less)
  BY <1>1, <1>3, WFMin
<1>5. ASSUME NEW m \in places
      PROVE  n <= m
  <2>1. m \in Nat /\ n \in Nat /\ <<m, n>> \notin less
    BY <1>1, <1>4, <1>5
  <2> QED
    BY <2>1 DEF less
<1>6. PICK d \in todo : d.id.value = n
  OBVIOUS
<1>7. IsFirst(d, todo)
  BY <1>5, <1>6 DEF IsFirst
<1> QED
  BY <1>6, <1>7 DEF FirstOf

\* A test that passed: the candidate was selected on the page.
LEMMA TestPassesKeepsMenu ==
  ASSUME MenuInv, Noted, UNCHANGED <<pick, scan>>, task.at = "test", NEW c \in task.todo,
         c = FirstOf(task.todo), NEW tests, NEW step,
         tests = task.tests \cup {[id |-> c.id, label |-> c.label, kind |-> TestKinds[task.step],
                                   state |-> "Completed"]},
         step = 3 - task.step,
         picker' = [picker EXCEPT !.family = c.id.family, !.value = c.id.value],
         task' = [task EXCEPT !.tests = tests, !.step = step,
                    !.todo = IF task.step = 2 THEN @ \ {c} ELSE @,
                    !.listed = IF task.step = 2 THEN @ \cup {c} ELSE @]
  PROVE  MenuInv'
<1>1. /\ task \in Tasks /\ task.kind = "extend" /\ task.todo \subseteq Cand /\ scan = Resting /\ pick = Resting
      /\ picker \in Picker /\ c \in Cand /\ task.listed \in SUBSET Cand /\ task.step \in {1, 2}
      /\ task.tests \in SUBSET TestRec
  <2>1. scan.at = "idle" /\ pick.at = "idle" /\ task.kind = "extend"
    BY DEF MenuInv, CallsFit
  <2> QED
    BY <2>1, ScanKinds DEF MenuInv, MenuTyped, Picks, Tasks
<1>2. picker' \in Picker /\ picker'.touched = picker.touched /\ picker'.pending = picker.pending
  BY <1>1 DEF Picker, Cand, Identity
<1>3. PICK kind \in {"text", "tools"} : /\ kind = TestKinds[task.step]
                                        /\ kind = IF task.step = 1 THEN "text" ELSE "tools"
  BY <1>1 DEF TestKinds
<1>4. PICK record \in TestRec : record = [id |-> c.id, label |-> c.label, kind |-> kind, state |-> "Completed"]
  BY <1>1 DEF Cand, TestRec
<1>5. tests \in SUBSET TestRec /\ tests = task.tests \cup {record}
  BY <1>1, <1>3, <1>4
<1>6. PICK todo \in SUBSET Cand : todo = IF task.step = 2 THEN task.todo \ {c} ELSE task.todo
  BY <1>1
<1>7. PICK listed \in SUBSET Cand : listed = IF task.step = 2 THEN task.listed \cup {c} ELSE task.listed
  BY <1>1
<1>8. /\ task' \in Tasks /\ task'.at = "test" /\ task'.kind = "extend" /\ task'.todo = todo
      /\ task'.listed = listed /\ task'.tests = tests /\ task'.step = step /\ task'.route = task.route
  <2>1. step \in {1, 2} /\ todo \in SUBSET (Families \cup Cand)
    BY <1>1
  <2>2. task' = [task EXCEPT !.tests = tests, !.step = step, !.todo = todo, !.listed = listed]
    BY <1>6, <1>7
  <2> QED
    BY <1>1, <1>5, <2>1, <2>2 DEF Tasks
<1>9. MenuTyped'
  BY <1>1, <1>2, <1>8, ShownTyped DEF MenuInv, MenuTyped
<1>10. CallsFit'
  BY <1>1, <1>8, StillKinds DEF CallsFit
<1>11. LabelsFit'
  <2>1. \A d \in task.todo \cup task.listed : <<d.id, d.label>> \in shown
    BY <1>1 DEF MenuInv, LabelsFit, TaskHolds
  <2>2. todo \subseteq task.todo /\ listed \subseteq task.todo \cup task.listed
    BY <1>6, <1>7
  <2>3. TaskHolds'
    BY <1>2, <1>8, <2>1, <2>2, ShownTyped DEF TaskHolds
  <2> QED
    BY <1>1, <1>2, <2>3, ShownTyped, StillKinds DEF LabelsFit, ScanHolds, PickHolds
<1>12. KeysFit' /\ HomeFits' /\ FoundFits'
  BY <1>1, <1>2, <1>8, StillKinds DEF MenuInv, KeysFit, HomeFits, FoundFits, PickHolds
<1>13. TestsFit'
  <2>1. \A d \in Cand, k \in {"text", "tools"} : Passed(d, k) => Passed(d, k)'
    BY <1>5, <1>8 DEF Passed
  <2>2. Passed(c, kind)'
    BY <1>4, <1>5, <1>8 DEF Passed
  <2>3. listed \cup todo = task.listed \cup task.todo
    BY <1>6, <1>7
  <2>4. /\ {d.label[2] : d \in task.listed \cup task.todo} = Names \ {task.route.label[2]}
        /\ \A d \in task.listed : Passed(d, "text") /\ Passed(d, "tools")
        /\ task.step = 2 => Passed(c, "text")
    BY <1>1 DEF MenuInv, TestsFit
  <2>5. {d.label[2] : d \in listed \cup todo} = Names \ {task.route.label[2]}
    BY <2>3, <2>4
  <2>6. \A d \in listed : Passed(d, "text")' /\ Passed(d, "tools")'
    BY <1>1, <1>3, <1>7, <2>1, <2>2, <2>4
  <2>7. step = 2 => todo # {} /\ Passed(FirstOf(todo), "text")'
    <3>1. CASE task.step = 1
      BY <1>3, <1>6, <2>2, <3>1
    <3>2. CASE task.step = 2
      BY <3>2
    <3> QED
      BY <1>1, <3>1, <3>2
  <2> QED
    BY <1>8, <2>5, <2>6, <2>7 DEF TestsFit, Succeeded
<1> QED
  BY <1>9, <1>10, <1>11, <1>12, <1>13, PartsMakeTrueNext DEF MenuInv

LEMMA TestKeepsMenu ==
  ASSUME MenuInv, Noted, Test
  PROVE  MenuInv'
<1>1. /\ UNCHANGED <<pick, scan>> /\ task.at = "test" /\ task.todo # {}
  BY DEF Test
<1>2. /\ task.kind = "extend" /\ task \in Tasks /\ task.todo \in SUBSET Cand /\ pick = Resting /\ scan = Resting
  <2>1. scan.at = "idle" /\ pick.at = "idle" /\ task.kind = "extend"
    BY <1>1 DEF MenuInv, CallsFit
  <2> QED
    BY <2>1, ScanKinds DEF MenuInv, MenuTyped, Picks
<1>3. PICK c \in task.todo : c = FirstOf(task.todo)
  BY <1>1, <1>2, FirstFits
<1>4. c = CHOOSE d \in task.todo : \A e \in task.todo : d.id.value <= e.id.value
  BY <1>3 DEF FirstOf, IsFirst
<1> DEFINE record(s) == [id |-> c.id, label |-> c.label, kind |-> TestKinds[task.step], state |-> s]
<1>5. \/ /\ picker' = [picker EXCEPT !.family = c.id.family, !.value = c.id.value]
         /\ task' = [task EXCEPT !.tests = @ \cup {record("Completed")}, !.step = 3 - @,
                       !.todo = IF task.step = 2 THEN @ \ {c} ELSE @,
                       !.listed = IF task.step = 2 THEN @ \cup {c} ELSE @]
      \/ /\ \E state \in {"Failed", "SubmissionUncertain"} :
              task' = [task EXCEPT !.tests = @ \cup {record(state)}, !.at = "done", !.code = "other"]
         /\ UNCHANGED picker
  BY <1>4 DEF Test
<1>6. CASE /\ picker' = [picker EXCEPT !.family = c.id.family, !.value = c.id.value]
           /\ task' = [task EXCEPT !.tests = @ \cup {record("Completed")}, !.step = 3 - @,
                         !.todo = IF task.step = 2 THEN @ \ {c} ELSE @,
                         !.listed = IF task.step = 2 THEN @ \cup {c} ELSE @]
  <2>1. PICK tests : tests = task.tests \cup {record("Completed")}
    OBVIOUS
  <2>2. PICK step : step = 3 - task.step
    OBVIOUS
  <2>3. task' = [task EXCEPT !.tests = tests, !.step = step,
                   !.todo = IF task.step = 2 THEN @ \ {c} ELSE @,
                   !.listed = IF task.step = 2 THEN @ \cup {c} ELSE @]
    BY <1>6, <2>1, <2>2
  <2> HIDE DEF record
  <2>4. tests = task.tests \cup {[id |-> c.id, label |-> c.label, kind |-> TestKinds[task.step],
                                  state |-> "Completed"]}
    BY <2>1 DEF record
  <2> QED
    <3>1. picker' = [picker EXCEPT !.family = c.id.family, !.value = c.id.value]
      BY <1>6
    <3> QED
      BY <1>1, <1>3, <2>2, <2>3, <2>4, <3>1, TestPassesKeepsMenu
<1>7. ASSUME NEW state \in {"Failed", "SubmissionUncertain"}, UNCHANGED picker,
             task' = [task EXCEPT !.tests = @ \cup {record(state)}, !.at = "done", !.code = "other"]
      PROVE  MenuInv'
  <2>1. c \in Cand /\ task.step \in {1, 2} /\ task.tests \in SUBSET TestRec
    BY <1>2 DEF Tasks
  <2>2. TestKinds[task.step] \in {"text", "tools"}
    BY <2>1 DEF TestKinds
  <2>3. PICK this \in TestRec : this = record(state)
    BY <2>1, <2>2 DEF TestRec, Cand
  <2>4. PICK tests \in SUBSET TestRec : tests = task.tests \cup {record(state)}
    BY <2>1, <2>3
  <2>5. task' = [task EXCEPT !.tests = tests, !.at = "done", !.code = "other"]
    BY <1>7, <2>4
  <2>6. /\ task' \in Tasks /\ task'.at = "done" /\ task'.code = "other" /\ task'.kind = "extend"
        /\ task'.listed = task.listed /\ task'.todo = task.todo /\ task'.tests = tests
    BY <1>2, <2>5 DEF Tasks, MenuCodes
  <2>7. CallsFit' /\ HomeFits'
    BY <1>1, <1>2, <2>6, StillKinds DEF CallsFit, HomeFits
  <2>8. TaskHolds'
    BY <1>2, <1>7, <2>6, StillShown DEF MenuInv, LabelsFit, TaskHolds
  <2>9. TestsFit'
    <3>1. \A d \in task.listed : Passed(d, "text")' /\ Passed(d, "tools")'
      BY <1>2, <2>4, <2>6 DEF MenuInv, TestsFit, Passed
    <3> QED
      BY <2>6, <3>1 DEF TestsFit, Succeeded
  <2> QED
    BY <1>1, <1>2, <1>7, <2>6, <2>7, <2>8, <2>9, StillKinds, TaskGoesKeepsMenu
<1> QED
  BY <1>5, <1>6, <1>7

LEMMA AdoptKeepsMenu ==
  ASSUME MenuInv, Noted, Adopt
  PROVE  MenuInv'
<1>1. /\ UNCHANGED <<picker, pick, scan>> /\ task.at = "test" /\ task.todo = {} /\ task.kind = "extend"
      /\ task \in Tasks /\ pick = Resting /\ scan = Resting /\ shown' = shown
  <2>1. /\ UNCHANGED <<picker, pick, scan>> /\ task.at = "test" /\ task.todo = {}
    BY DEF Adopt
  <2>2. scan.at = "idle" /\ pick.at = "idle" /\ task.kind = "extend"
    BY <2>1 DEF MenuInv, CallsFit
  <2> QED
    BY <2>1, <2>2, ScanKinds, StillShown DEF MenuInv, MenuTyped, Picks
<1>2. PICK code \in MenuCodes : Finish(code)
  BY DEF Adopt, MenuCodes
<1>3. /\ task' \in Tasks /\ task'.at = "done" /\ task'.code = code /\ task'.kind = "extend"
      /\ task'.listed = task.listed /\ task'.todo = task.todo /\ task'.tests = task.tests
      /\ task'.route = task.route
  BY <1>1, <1>2, FinishFits
<1>4. CallsFit' /\ HomeFits'
  BY <1>1, <1>3, StillKinds DEF CallsFit, HomeFits
<1>5. TaskHolds'
  BY <1>1, <1>3 DEF MenuInv, LabelsFit, TaskHolds
<1>6. TestsFit'
  <2>1. task.listed \cup task.todo = task.listed
    BY <1>1
  <2>2. /\ {d.label[2] : d \in task.listed} = Names \ {task.route.label[2]}
        /\ \A d \in task.listed : Passed(d, "text") /\ Passed(d, "tools")
    BY <1>1, <2>1 DEF MenuInv, TestsFit
  <2> QED
    BY <1>3, <2>2 DEF TestsFit, Passed
<1> QED
  BY <1>1, <1>3, <1>4, <1>5, <1>6, StillKinds, TaskGoesKeepsMenu DEF MenuInv, MenuTyped

LEMMA ReopensKeepsMenu ==
  ASSUME MenuInv, Noted, Reopens
  PROVE  MenuInv'
<1>1. /\ UNCHANGED <<picker, scan>> /\ task.at = "routes" /\ task.kind = "reopen" /\ task \in Tasks
      /\ task.todo \in SUBSET Cand /\ task.listed \in SUBSET Cand /\ task.todo \subseteq task.listed
      /\ scan = Resting /\ shown' = shown
      /\ \A c \in task.listed \ task.todo : <<c.id, c.label>> \in shown
  <2>1. /\ UNCHANGED <<picker, scan>> /\ task.at = "routes"
    BY DEF Reopens
  <2>2. task.kind = "reopen" /\ scan.at = "idle"
    BY <2>1 DEF MenuInv, CallsFit
  <2> QED
    BY <2>1, <2>2, ScanKinds, StillShown DEF MenuInv, MenuTyped, Tasks, LabelsFit, TaskHolds
<1>2. ASSUME NEW c \in task.todo, pick' = Picking(c.id, FALSE), task' = [task EXCEPT !.next = c],
             pick.at = "idle"
      PROVE  MenuInv'
  <2>1. c \in Cand /\ c.id \in Identity
    BY <1>1 DEF Cand
  <2>2. pick' \in Picks /\ pick'.id = c.id /\ ~pick'.alone /\ pick'.at = "family"
    BY <1>2, <2>1, PickingFits
  <2>3. /\ task' \in Tasks /\ task'.at = "routes" /\ task'.kind = "reopen" /\ task'.listed = task.listed
        /\ task'.todo = task.todo /\ task'.next = c
    BY <1>1, <1>2, <2>1 DEF Tasks
  <2>4. CallsFit' /\ HomeFits' /\ TestsFit'
    BY <1>1, <2>2, <2>3, StillKinds DEF CallsFit, HomeFits, TestsFit
  <2>5. TaskHolds'
    BY <1>1, <2>3 DEF TaskHolds, Succeeded
  <2> QED
    BY <1>1, <1>2, <2>2, <2>3, <2>4, <2>5, TaskGoesKeepsMenu
<1>3. CASE /\ pick.at = "idle" /\ task.todo = {} /\ pick' = Picking(task.route.id, FALSE)
           /\ task' = [task EXCEPT !.next = task.route, !.at = "confirm"]
  <2>1. task.route \in RouteRec /\ task.route.id \in Identity
    BY <1>1 DEF Tasks, RouteRec
  <2>2. pick' \in Picks /\ pick'.id = task.route.id /\ ~pick'.alone /\ pick'.at = "family"
    BY <1>3, <2>1, PickingFits
  <2>3. /\ task' \in Tasks /\ task'.at = "confirm" /\ task'.kind = "reopen" /\ task'.listed = task.listed
        /\ task'.todo = task.todo /\ task'.route = task.route
    BY <1>1, <1>3, <2>1 DEF Tasks
  <2>4. CallsFit' /\ HomeFits' /\ TestsFit'
    BY <1>1, <2>2, <2>3, StillKinds DEF CallsFit, HomeFits, TestsFit
  <2>5. TaskHolds'
    BY <1>1, <1>3, <2>3 DEF TaskHolds, Succeeded
  <2> QED
    BY <1>1, <1>3, <2>2, <2>3, <2>4, <2>5, TaskGoesKeepsMenu
<1>4. CASE /\ pick.at = "done" /\ Picked(task.next.label)
           /\ pick' = Resting /\ task' = [task EXCEPT !.todo = @ \ {task.next}]
  <2>1. /\ pick.id = task.next.id /\ ~pick.alone /\ pick.label = task.next.label /\ PickHolds
        /\ task.next \in task.listed
    BY <1>1, <1>4 DEF MenuInv, CallsFit, LabelsFit, TaskHolds, Picked, PickHolds
  <2>2. <<task.next.id, task.next.label>> \in shown
    BY <2>1 DEF MenuInv, LabelsFit
  <2>3. PICK todo \in SUBSET Cand : todo = task.todo \ {task.next}
    BY <1>1
  <2>4. /\ task' \in Tasks /\ task'.at = "routes" /\ task'.kind = "reopen" /\ task'.listed = task.listed
        /\ task'.todo = todo /\ task'.next = task.next
    <3>1. task' = [task EXCEPT !.todo = todo] /\ todo \in SUBSET (Families \cup Cand)
      BY <1>4, <2>3
    <3> QED
      BY <1>1, <3>1 DEF Tasks
  <2>5. CallsFit' /\ HomeFits' /\ TestsFit'
    BY <1>1, <1>4, <2>4, StillKinds DEF CallsFit, HomeFits, TestsFit
  <2>6. TaskHolds'
    <3>1. \A c \in task.listed \ todo : <<c.id, c.label>> \in shown
      BY <1>1, <2>2, <2>3
    <3> QED
      BY <1>1, <1>4, <2>1, <2>3, <2>4, <3>1, StillKinds DEF TaskHolds, Succeeded
  <2> QED
    BY <1>1, <1>4, <2>4, <2>5, <2>6, StillKinds, TaskGoesKeepsMenu
<1>5. CASE pick.at = "done" /\ pick' = Resting /\ Finish("other")
  <2>1. /\ task' \in Tasks /\ task'.at = "done" /\ task'.code = "other" /\ task'.kind = "reopen"
        /\ task'.listed = task.listed /\ task'.todo = task.todo
    BY <1>1, <1>5, FinishFits DEF MenuCodes
  <2>2. CallsFit' /\ HomeFits' /\ TestsFit'
    BY <1>1, <1>5, <2>1, StillKinds DEF CallsFit, HomeFits, TestsFit
  <2>3. TaskHolds'
    BY <1>1, <2>1 DEF TaskHolds, Succeeded
  <2> QED
    BY <1>1, <1>5, <2>1, <2>2, <2>3, StillKinds, TaskGoesKeepsMenu
<1> QED
  BY <1>2, <1>3, <1>4, <1>5 DEF Reopens

LEMMA MenuInductive == MenuInv /\ [MenuNext]_menuVars => MenuInv'
<1> SUFFICES ASSUME MenuInv, [MenuNext]_menuVars
             PROVE  MenuInv'
  OBVIOUS
<1>1. ASSUME Noted, UNCHANGED <<picker, pick, scan, task>>
      PROVE  MenuInv'
  <2>1. picker' \in Picker /\ (~picker'.touched => ~picker.touched)
    BY <1>1 DEF MenuInv, MenuTyped
  <2> QED
    BY <1>1, <2>1, PageMovesKeepMenu
<1>2. CASE UNCHANGED menuVars
  <2>1. UNCHANGED <<picker, pick, scan, task, shown>>
    BY <1>2 DEF menuVars
  <2>2. MenuTyped' /\ CallsFit'
    BY <2>1 DEF MenuInv, MenuTyped, CallsFit
  <2>3. LabelsFit'
    BY <2>1 DEF MenuInv, LabelsFit, Here, LabelHere, PickHolds, ScanHolds, TaskHolds, Succeeded
  <2>4. KeysFit' /\ HomeFits'
    BY <2>1 DEF MenuInv, KeysFit, HomeFits, PickHolds, AtHome
  <2>5. FoundFits' /\ TestsFit'
    BY <2>1 DEF MenuInv, FoundFits, TestsFit, Passed, Succeeded
  <2>6. MenuIsTrue'
    BY <2>1 DEF MenuInv, MenuIsTrue, LabelsWereShown, SelectionIsKept, VariantsAreTested, Succeeded
  <2> QED
    BY <2>2, <2>3, <2>4, <2>5, <2>6 DEF MenuInv
<1>3. CASE MenuNext
  <2>1. Noted
    BY <1>3 DEF MenuNext, Noted
  <2> QED
    BY <1>1, <1>3, <2>1, KeyLandsKeepsMenu, OthersMoveKeepMenu, PickFamilyKeepsMenu, PickEffortKeepsMenu,
       PickClosesKeepsMenu, PickFailsKeepsMenu, ScanOpensKeepsMenu, ScanValueKeepsMenu,
       ScanRestoresKeepsMenu, DiscoversKeepsMenu, VisitFamilyKeepsMenu, ListRestoredKeepsMenu,
       ConfirmedKeepsMenu, ExtendsKeepsMenu, FamilyReadKeepsMenu, TestKeepsMenu, AdoptKeepsMenu,
       ReopensKeepsMenu DEF MenuNext
<1> QED
  BY <1>2, <1>3

\* What a discovery lists, an extension publishes and a reopened browser was accepted with
\* carries the label that the page showed for it; a discovery leaves the selection as it
\* was or says so; an extension has tested all it publishes, and adds every effort.
THEOREM MenusAreTrue == MenuSpec => []MenuIsTrue
<1>1. MenuInv => MenuIsTrue
  BY DEF MenuInv
<1> QED
  BY <1>1, MenuInitially, MenuInductive, PTL DEF MenuSpec
-----------------------------------------------------------------------------
(* The setup and the scheduler.                                            *)

\* What the worker holds: the scope of a successful test is the account it ran under.
WorkerFits(w) ==
  /\ w \in WorkerStates
  /\ w.phase = "tool_qualified" /\ w.scope # NoAccount => w.tested = w.scope
  /\ w.browser = "live" => w.login # "open"

\* Who holds the lock, and whether a session is anybody's.
LockFits ==
  /\ driver \in {"open", "stopping", "stopped"} <=> lock = "driver"
  /\ hostUp <=> lock = "host"
  /\ generation = NoSession => driver \in {"none", "closed"}

ConsumersFit ==
  /\ consumers \in {{}, {"probe"}, {"host"}, {"reset"}}
  /\ "host" \in consumers => generation # NoSession /\ generation.inst = owner.active
  /\ job = "reset" => consumers = {"reset"}
  /\ job \in {"probe", "bind"} => generation # NoSession

SetupInv ==
  /\ SetupTypeOK
  /\ WorkerFits(worker)
  /\ SessionIsWhatWasTested
  /\ ProfileHasOneOwner
  /\ LockFits
  /\ ConsumersFit
-----------------------------------------------------------------------------
(* Whatever a command does, the worker still fits. *)

LEMMA FreshFits ==
  ASSUME NEW w, WorkerFits(w), NEW found \in {"disconnected", "authenticating", "unavailable"}
  PROVE  /\ WorkerFits(Fresh(w, found))
         /\ Fresh(w, found).login = w.login /\ Fresh(w, found).browser = w.browser
BY DEF WorkerFits, WorkerStates, Fresh, Forget, Known

LEMMA DropFits ==
  ASSUME NEW w, WorkerFits(w)
  PROVE  /\ WorkerFits(Drop(w))
         /\ Drop(w).login = w.login /\ Drop(w).browser = "none"
BY DEF WorkerFits, WorkerStates, Drop

LEMMA ForgetFits ==
  ASSUME NEW w, WorkerFits(w)
  PROVE  /\ WorkerFits(Forget(w))
         /\ Forget(w).login = w.login /\ Forget(w).browser = w.browser
BY DEF WorkerFits, WorkerStates, Forget, Known

LEMMA SeenFits ==
  ASSUME NEW w, WorkerFits(w), NEW v \in Seen(w)
  PROVE  WorkerFits(v) /\ v.login = w.login
<1> DEFINE seen == [w EXCEPT !.tool = FALSE, !.background = TRUE]
<1>1. /\ seen \in WorkerStates /\ seen.login = w.login /\ seen.browser = w.browser
  BY DEF WorkerFits, WorkerStates
<1>2. \/ v = w
      \/ v = [Forget(seen) EXCEPT !.phase = "unavailable"]
      \/ v = [Forget(seen) EXCEPT !.phase = "authenticating", !.temporary = FALSE]
      \/ v = [seen EXCEPT !.phase = "awaiting"]
  <2>1. CASE w.browser = "none" \/ w.page = "none"
    BY <2>1 DEF Seen
  <2>2. CASE ~(w.browser = "none" \/ w.page = "none")
    <3>1. v \in {[Forget(seen) EXCEPT !.phase = "unavailable"]}
                 \cup (IF w.browser # "live" \/ w.page # "open" THEN {}
                       ELSE {[Forget(seen) EXCEPT !.phase = "authenticating", !.temporary = FALSE]}
                            \cup {[seen EXCEPT !.phase = "awaiting"] : a \in {account} \cap Accounts})
      BY <2>2 DEF Seen, seen
    <3> HIDE DEF seen
    <3> QED
      BY <3>1, Zenon
  <2> QED
    BY <2>1, <2>2
<1> HIDE DEF seen
<1>3. CASE v = [Forget(seen) EXCEPT !.phase = "unavailable"]
  BY <1>1, <1>3 DEF WorkerFits, WorkerStates, Forget, Known
<1>4. CASE v = [Forget(seen) EXCEPT !.phase = "authenticating", !.temporary = FALSE]
  BY <1>1, <1>4 DEF WorkerFits, WorkerStates, Forget, Known
<1>5. CASE v = [seen EXCEPT !.phase = "awaiting"]
  BY <1>1, <1>5 DEF WorkerFits, WorkerStates
<1> QED
  BY <1>2, <1>3, <1>4, <1>5

LEMMA RestoredFits ==
  ASSUME NEW w, WorkerFits(w), w.login # "open", NEW v \in Restored(w)
  PROVE  WorkerFits(v) /\ v.login = w.login
<1> DEFINE started == [Drop(Fresh(w, "authenticating")) EXCEPT
                         !.browser = "live", !.page = "open", !.background = TRUE]
<1>1. v = w \/ v = Drop(Fresh(w, "unavailable")) \/ v \in Seen(started)
  BY DEF Restored
<1>2. WorkerFits(Drop(Fresh(w, "unavailable"))) /\ Drop(Fresh(w, "unavailable")).login = w.login
  BY FreshFits, DropFits
<1>3. WorkerFits(started) /\ started.login = w.login
  <2>1. WorkerFits(Drop(Fresh(w, "authenticating")))
        /\ Drop(Fresh(w, "authenticating")).login = w.login
    BY FreshFits, DropFits
  <2> QED
    BY ZenonT(60), <2>1 DEF WorkerFits, WorkerStates
<1> HIDE DEF started
<1>4. v \in Seen(started) => WorkerFits(v) /\ v.login = w.login
  BY <1>3, SeenFits
<1> QED
  BY <1>1, <1>2, <1>4

LEMMA ContinuedFits ==
  ASSUME NEW w, WorkerFits(w), w.login # "open", NEW closed, NEW background,
         NEW v \in Continued(w, closed, background)
  PROVE  WorkerFits(v) /\ v.login = w.login
<1>1. v = w \/ v \in Restored(w) \/ v \in Seen(w)
  BY DEF Continued
<1> QED
  BY <1>1, RestoredFits, SeenFits

LEMMA ConnectFits ==
  ASSUME NEW w, WorkerFits(w), w.login # "open", NEW v \in ConnectOutcomes(w)
  PROVE  WorkerFits(v)
<1>1. PICK u \in Reconnected(w) : v \in Opened(u) \/ v \in Continued(u, FALSE, FALSE)
  BY DEF ConnectOutcomes
<1>2. WorkerFits(u) /\ u.login # "open"
  <2>1. u = w \/ u = Fresh(Drop(w), "disconnected")
    BY DEF Reconnected
  <2> QED
    BY <2>1, DropFits, FreshFits
<1>3. CASE v \in Opened(u)
  <2>1. \/ v = u \/ v = Fresh(u, "disconnected") \/ v = Fresh(u, "unavailable")
        \/ v = Fresh(Drop(u), "disconnected")
        \/ v = [Fresh(Drop(u), "authenticating") EXCEPT !.login = "open"]
    BY <1>3 DEF Opened
  <2>2. /\ WorkerFits(Fresh(u, "disconnected")) /\ WorkerFits(Fresh(u, "unavailable"))
        /\ WorkerFits(Fresh(Drop(u), "disconnected"))
    BY <1>2, DropFits, FreshFits
  <2>3. WorkerFits([Fresh(Drop(u), "authenticating") EXCEPT !.login = "open"])
    <3>1. WorkerFits(Fresh(Drop(u), "authenticating"))
          /\ Fresh(Drop(u), "authenticating").browser = "none"
      BY <1>2, DropFits, FreshFits
    <3> QED
      BY <3>1 DEF WorkerFits, WorkerStates
  <2> QED
    BY <1>2, <2>1, <2>2, <2>3
<1> QED
  BY <1>1, <1>2, <1>3, ContinuedFits

\* A test that is accepted ran under the account that discovery observed.
LEMMA TestedFits ==
  ASSUME SetupTypeOK, NEW w, WorkerFits(w), NEW kind \in {"text", "tools"}, NEW v \in Tested(w, kind)
  PROVE  WorkerFits(v)
<1> DEFINE Accepted(tool, next) ==
             [w EXCEPT !.retained = FALSE, !.tool = tool, !.tested = account, !.phase = next]
<1>1. \/ v = w
      \/ w.phase = "awaiting" /\ v = [w EXCEPT !.retained = TRUE]
      \/ account = w.scope /\ v = Accepted(TRUE, "tool_qualified")
      \/ account = w.scope /\ v = Accepted(FALSE, "text_qualified")
  <2>1. CASE w.phase # "awaiting" \/ ~w.routes \/ w.scope = NoAccount
    BY <2>1, Zenon DEF Tested
  <2>2. CASE ~(w.phase # "awaiting" \/ ~w.routes \/ w.scope = NoAccount)
    <3>1. v \in {w, [w EXCEPT !.retained = TRUE]}
                 \cup {[w EXCEPT !.retained = FALSE, !.tool = (kind = "tools"), !.tested = account,
                         !.phase = IF kind = "tools" THEN "tool_qualified" ELSE "text_qualified"] :
                       a \in {account} \cap {w.scope}}
      BY <2>2, Zenon DEF Tested
    <3>2. CASE kind = "tools"
      <4>1. (kind = "tools") = TRUE
            /\ (IF kind = "tools" THEN "tool_qualified" ELSE "text_qualified") = "tool_qualified"
        BY <3>2
      <4> QED
        BY <2>2, <3>1, <4>1, Zenon
    <3>3. CASE kind # "tools"
      <4>1. (kind = "tools") = FALSE
            /\ (IF kind = "tools" THEN "tool_qualified" ELSE "text_qualified") = "text_qualified"
        BY <3>3
      <4> QED
        BY <2>2, <3>1, <4>1, Zenon
    <3> QED
      BY <3>2, <3>3
  <2> QED
    BY <2>1, <2>2
<1>2. w \in WorkerStates /\ (w.browser = "live" => w.login # "open")
  BY DEF WorkerFits
<1>3. CASE v = [w EXCEPT !.retained = TRUE] /\ w.phase = "awaiting"
  BY <1>2, <1>3 DEF WorkerFits, WorkerStates
<1>4. CASE account = w.scope /\ v = Accepted(TRUE, "tool_qualified")
  BY <1>2, <1>4 DEF WorkerFits, WorkerStates
<1>5. CASE account = w.scope /\ v = Accepted(FALSE, "text_qualified")
  BY <1>2, <1>5 DEF WorkerFits, WorkerStates
<1> QED
  BY <1>1, <1>3, <1>4, <1>5

LEMMA DiscoveredFits ==
  ASSUME SetupTypeOK, NEW w, WorkerFits(w), NEW v \in Discovered(w)
  PROVE  WorkerFits(v)
<1> DEFINE Probed(a, t) ==
             [w EXCEPT !.routes = TRUE, !.scope = a, !.temporary = t, !.phase = "candidates"]
<1>1. \/ v = w
      \/ w.phase = "awaiting" /\ v = [Forget(w) EXCEPT !.temporary = FALSE]
      \/ \E a \in {account, NoAccount}, t \in BOOLEAN : v = Probed(a, t)
  <2>1. CASE w.phase # "awaiting"
    BY <2>1, SMT DEF Discovered, Forget
  <2>2. CASE ~(w.phase # "awaiting")
    <3>1. \/ v = [Forget(w) EXCEPT !.temporary = FALSE]
          \/ \E a \in {account, NoAccount} : v \in Listed(w, a)
      BY <2>2, SMT DEF Discovered, Forget
    <3>2. \A a : v \in Listed(w, a) => \E t \in BOOLEAN : v = Probed(a, t)
      BY DEF Listed
    <3> QED
      BY <2>2, <3>1, <3>2, Zenon
  <2> QED
    BY <2>1, <2>2
<1>2. w \in WorkerStates /\ (w.browser = "live" => w.login # "open")
  BY DEF WorkerFits
<1>3. CASE w.phase = "awaiting" /\ v = [Forget(w) EXCEPT !.temporary = FALSE]
  BY <1>2, <1>3 DEF WorkerFits, WorkerStates, Forget, Known
<1>4. CASE \E a \in {account, NoAccount}, t \in BOOLEAN : v = Probed(a, t)
  <2>1. PICK a \in Known, t \in BOOLEAN : v = Probed(a, t)
    BY <1>4 DEF SetupTypeOK, Known
  <2> QED
    BY <1>2, <2>1 DEF WorkerFits, WorkerStates
<1> QED
  BY <1>1, <1>3, <1>4

LEMMA AnswersFit ==
  ASSUME SetupTypeOK, NEW command, NEW w, WorkerFits(w), w.login # "open",
         NEW closed \in BOOLEAN, NEW v \in Answers(command, w, closed)
  PROVE  WorkerFits(v)
<1> DEFINE seen == Continued(w, closed, command = "background")
<1>1. \A u \in seen : WorkerFits(u)
  BY ContinuedFits
<1>2. \/ v \in ConnectOutcomes(w) \/ v \in seen
      \/ \E u \in seen : v \in Discovered(u)
      \/ command \in {"text", "tools"} /\ \E u \in seen : v \in Tested(u, command)
  BY DEF Answers
<1> HIDE DEF seen
<1> QED
  BY <1>1, <1>2, ConnectFits, DiscoveredFits, TestedFits
-----------------------------------------------------------------------------
(* The steps. *)

LEMMA SetupInitially ==
  ASSUME SetupInit
  PROVE  SetupInv
<1> USE SetupAssumption
<1>1. NewWorker \in WorkerStates /\ worker = NewWorker
  BY DEF SetupInit, NewWorker, WorkerStates, Known
<1>2. WorkerFits(worker) /\ worker.browser = "none" /\ worker.login = "none"
  BY <1>1 DEF WorkerFits, NewWorker
<1>3. owner \in [prepared: Insts, taken: BOOLEAN, next: Insts, active: Insts, applied: BOOLEAN]
  BY DEF SetupInit, Insts
<1>4. SetupTypeOK
  BY <1>1, <1>3 DEF SetupInit, SetupTypeOK
<1> QED
  BY <1>2, <1>4
     DEF SetupInit, SetupInv, SessionIsWhatWasTested, ProfileHasOneOwner, LockFits, ConsumersFit

\* A command of the worker.  It has the lock, so nobody else's browser runs.
LEMMA AttendKeepsInv ==
  ASSUME SetupInv, NEW command, Attend(command)
  PROVE  SetupInv'
<1> USE DEF SetupInv
<1>1. /\ generation' = NoSession /\ (generation # NoSession => driver = "closed")
      /\ consumers' = (IF generation = NoSession THEN consumers ELSE {})
      /\ UNCHANGED <<account, driver, job, hostUp>> /\ job = "idle"
  BY DEF Attend, Attending
<1>2. WorkerFits(AtHand) /\ AtHand.login = worker.login /\ AtHand.browser = worker.browser
  BY FreshFits DEF AtHand
<1>3. owner' \in [prepared: Insts, taken: BOOLEAN, next: Insts, active: Insts, applied: BOOLEAN]
  <2>1. owner \in [prepared: Insts, taken: BOOLEAN, next: Insts, active: Insts, applied: BOOLEAN]
    BY DEF SetupTypeOK
  <2>2. 0 \in Insts
    BY SetupAssumption DEF Insts
  <2>3. owner' = owner \/ owner' = [owner EXCEPT !.prepared = 0, !.taken = FALSE]
    BY DEF Attend, Released
  <2> QED
    BY <2>1, <2>2, <2>3
<1>4. \/ lock \in {"control", "free"} /\ lock' = "control"
      \/ lock \notin {"control", "free"} /\ lock' = lock /\ worker' = AtHand
  BY DEF Attend
<1>5. WorkerFits(worker')
  <2>1. CASE worker' = AtHand
    BY <1>2, <2>1
  <2>2. CASE worker' # AtHand
    <3>1. \/ worker' \in Answers(command, [AtHand EXCEPT !.login = "none"], TRUE)
          \/ AtHand.login # "open" /\ worker' \in Answers(command, AtHand, FALSE)
      <4>1. worker' \in CASE AtHand.login = "open" -> {AtHand}
                          [] AtHand.login = "gone" ->
                               Answers(command, [AtHand EXCEPT !.login = "none"], TRUE)
                          [] OTHER -> Answers(command, AtHand, FALSE)
        BY <2>2 DEF Attend
      <4> QED
        BY <2>2, <4>1
    <3>2. WorkerFits([AtHand EXCEPT !.login = "none"])
          /\ [AtHand EXCEPT !.login = "none"].login # "open"
      BY <1>2 DEF WorkerFits, WorkerStates
    <3> QED
      BY <1>2, <3>1, <3>2, AnswersFit
  <2> QED
    BY <2>1, <2>2
<1>6. "host" \notin consumers'
  BY <1>1 DEF ConsumersFit
<1>7. consumers' \in {{}, {"probe"}, {"host"}, {"reset"}} /\ consumers' \subseteq {"probe", "host", "reset"}
  BY <1>1 DEF ConsumersFit
<1>8. driver \in {"none", "closed"} /\ driver' = driver /\ job' = "idle"
  BY <1>1 DEF LockFits
<1>9. SetupTypeOK'
  BY <1>1, <1>3, <1>4, <1>5, <1>7 DEF SetupTypeOK, WorkerFits
<1>10. LockFits'
  BY <1>1, <1>4, <1>8 DEF LockFits
<1>11. ProfileHasOneOwner'
  BY <1>1, <1>2, <1>4, <1>5, <1>8 DEF ProfileHasOneOwner, LockFits, WorkerFits
<1>12. ConsumersFit' /\ SessionIsWhatWasTested'
  BY <1>1, <1>6, <1>7, <1>8 DEF ConsumersFit, SessionIsWhatWasTested
<1> QED
  BY <1>5, <1>9, <1>10, <1>11, <1>12

\* Steps that leave worker, session and lock alone.
LEMMA QuietStepsKeepInv ==
  ASSUME SetupInv,
         \/ ResetBegin \/ ResetRefused \/ Prepare("native") \/ Prepare("activate") \/ Replay
         \/ Probe \/ ProbeEnds \/ ProbeCleanup \/ Bind \/ Apply \/ ApplyAgain \/ HostDrops
  PROVE  SetupInv'
<1> USE DEF SetupInv
<1>1. UNCHANGED <<account, lock, worker, generation, driver, hostUp>>
  BY DEF ResetBegin, ResetRefused, Prepare, Replay, Probe, ProbeEnds, ProbeCleanup, Bind, Apply,
         ApplyAgain, HostDrops
<1>2. /\ owner \in [prepared: Insts, taken: BOOLEAN, next: Insts, active: Insts, applied: BOOLEAN]
      /\ 0 \in Insts
  BY SetupAssumption DEF SetupTypeOK, Insts
<1>3. owner' \in [prepared: Insts, taken: BOOLEAN, next: Insts, active: Insts, applied: BOOLEAN]
  <2>1. CASE \E kind \in {"native", "activate"} : Prepare(kind)
    <3>1. PICK i \in Reserved : owner' = [owner EXCEPT !.prepared = i, !.next = IF i > @ THEN i ELSE @]
      BY <2>1 DEF Prepare
    <3>2. i \in Insts
      BY <1>2, SetupAssumption DEF Reserved, Insts
    <3>3. (IF i > owner.next THEN i ELSE owner.next) \in Insts
      BY <1>2, <3>2
    <3> QED
      BY <1>2, <3>1, <3>2, <3>3
  <2>2. CASE Bind
    <3>1. \/ UNCHANGED owner \/ owner' = [owner EXCEPT !.prepared = 0, !.taken = FALSE]
          \/ owner' = [owner EXCEPT !.prepared = 0, !.taken = FALSE, !.active = owner.prepared]
      BY <2>2 DEF Bind
    <3> QED
      BY <1>2, <3>1
  <2>3. CASE Replay \/ Apply
    <3>1. \/ UNCHANGED owner \/ owner' = [owner EXCEPT !.taken = TRUE]
          \/ owner' = [owner EXCEPT !.applied = TRUE]
      BY <2>3 DEF Replay, Apply
    <3> QED
      BY <1>2, <3>1
  <2>4. CASE UNCHANGED owner
    BY <1>2, <2>4
  <2> QED
    BY <2>1, <2>2, <2>3, <2>4
       DEF ResetBegin, ResetRefused, Probe, ProbeEnds, ProbeCleanup, ApplyAgain, HostDrops
<1>4. job' \in {"idle", "reset", "native", "activate", "probe", "probing", "bind", "apply"}
  BY DEF SetupTypeOK, ResetBegin, ResetRefused, Prepare, Replay, Probe, ProbeEnds, ProbeCleanup,
         Bind, Apply, ApplyAgain, HostDrops
<1>5. ConsumersFit'
  <2>1. CASE ResetBegin \/ ResetRefused
    BY <1>1, <2>1 DEF ConsumersFit, ResetBegin, ResetRefused
  <2>2. CASE Prepare("native") \/ Prepare("activate")
    <3>1. UNCHANGED consumers /\ owner'.active = owner.active /\ job' \in {"native", "activate"}
      BY <1>2, <2>2 DEF Prepare
    <3> QED
      BY <1>1, <3>1 DEF ConsumersFit
  <2>3. CASE Replay \/ Apply \/ ApplyAgain
    <3>1. /\ UNCHANGED consumers /\ owner'.active = owner.active /\ job' # "reset"
          /\ job' \in {"probe", "bind"} => generation # NoSession
      BY <1>2, <2>3 DEF Replay, Apply, ApplyAgain
    <3> QED
      BY <1>1, <3>1 DEF ConsumersFit
  <2>4. CASE Probe \/ ProbeEnds \/ ProbeCleanup \/ HostDrops
    <3>1. /\ UNCHANGED owner /\ job' \in {job, "idle", "probing"}
          /\ consumers' \in {consumers, {"probe"}, consumers \ {"probe"}, consumers \ {"host"}}
          /\ "host" \in consumers' => "host" \in consumers
          /\ job' = "reset" => consumers' = consumers
      BY <2>4 DEF Probe, ProbeEnds, ProbeCleanup, HostDrops, ConsumersFit
    <3> QED
      BY <1>1, <3>1 DEF ConsumersFit
  <2>5. CASE Bind
    <3>1. \/ /\ UNCHANGED consumers /\ owner'.active = owner.active
          \/ /\ consumers' = {"host"} /\ generation.inst = owner.prepared
             /\ owner'.active = owner.prepared
      BY <1>2, <2>5 DEF Bind
    <3>2. job = "bind" /\ job' \in {"idle", "apply"}
      BY <2>5 DEF Bind
    <3> QED
      BY <1>1, <3>1, <3>2 DEF ConsumersFit
  <2> QED
    BY <2>1, <2>2, <2>3, <2>4, <2>5
<1>6. SetupTypeOK'
  BY <1>1, <1>3, <1>4, <1>5 DEF SetupTypeOK, ConsumersFit
<1>7. WorkerFits(worker') /\ SessionIsWhatWasTested' /\ ProfileHasOneOwner' /\ LockFits'
  BY <1>1 DEF SessionIsWhatWasTested, ProfileHasOneOwner, LockFits
<1> QED
  BY <1>5, <1>6, <1>7

LEMMA ResetEndKeepsInv ==
  ASSUME SetupInv, ResetEnd
  PROVE  SetupInv'
<1> USE DEF SetupInv
<1>1. /\ generation' = NoSession /\ consumers' = consumers \ {"reset"} /\ job' = "idle"
      /\ worker' = (IF generation = NoSession THEN worker ELSE Fresh(worker, "disconnected"))
      /\ \/ lock \in {"control", "free"} /\ lock' = "control"
         \/ lock \notin {"control", "free"} /\ lock' = lock
      /\ UNCHANGED <<account, driver, hostUp>>
      /\ \/ job = "reset" /\ driver = "closed"
         \/ job = "idle" /\ generation = NoSession
  BY DEF ResetEnd
<1>2. WorkerFits(worker') /\ worker'.login = worker.login /\ worker'.browser = worker.browser
  BY <1>1, FreshFits
<1>3. owner' \in [prepared: Insts, taken: BOOLEAN, next: Insts, active: Insts, applied: BOOLEAN]
  <2>1. /\ owner \in [prepared: Insts, taken: BOOLEAN, next: Insts, active: Insts, applied: BOOLEAN]
        /\ 0 \in Insts
    BY SetupAssumption DEF SetupTypeOK, Insts
  <2>2. owner' = owner \/ owner' = [owner EXCEPT !.prepared = 0, !.taken = FALSE]
    BY DEF ResetEnd
  <2> QED
    BY <2>1, <2>2
<1>4. "host" \notin consumers' /\ consumers' \in {{}, {"probe"}, {"host"}, {"reset"}}
  BY <1>1 DEF ConsumersFit
<1>5. driver \in {"none", "closed"} /\ driver' = driver
  BY <1>1 DEF LockFits
<1>6. SetupTypeOK'
  BY <1>1, <1>2, <1>3, <1>4 DEF SetupTypeOK, WorkerFits
<1>7. LockFits'
  BY <1>1, <1>5 DEF LockFits
<1>8. ProfileHasOneOwner'
  BY <1>1, <1>2, <1>5 DEF ProfileHasOneOwner, LockFits, WorkerFits
<1>9. ConsumersFit' /\ SessionIsWhatWasTested'
  BY <1>1, <1>4 DEF ConsumersFit, SessionIsWhatWasTested
<1> QED
  BY <1>2, <1>6, <1>7, <1>8, <1>9

\* The session is handed over: what it is signed in to is what the test ran under.
LEMMA HandoffKeepsInv ==
  ASSUME SetupInv, TakeGeneration \/ HandoffFails
  PROVE  SetupInv'
<1> USE DEF SetupInv
<1>1. /\ job \in {"native", "activate"} /\ generation = NoSession
      /\ UNCHANGED <<account, consumers, hostUp>>
      /\ owner \in [prepared: Insts, taken: BOOLEAN, next: Insts, active: Insts, applied: BOOLEAN]
      /\ driver \in {"none", "closed"} /\ ~("host" \in consumers)
  BY DEF TakeGeneration, HandoffFails, SetupTypeOK, LockFits, ConsumersFit
<1>2. WorkerFits(Forget(Drop(worker)))
      /\ Forget(Drop(worker)).login = worker.login /\ Forget(Drop(worker)).browser = "none"
  <2>1. /\ WorkerFits(Drop(worker))
        /\ Drop(worker).login = worker.login /\ Drop(worker).browser = "none"
    BY DropFits
  <2> QED
    BY <2>1, ForgetFits
<1>3. Prepared(worker) => /\ lock = "control" /\ worker.login # "open"
                          /\ worker.tested = account /\ ~hostUp
  BY DEF Prepared, WorkerFits, LockFits
<1>4. CASE TakeGeneration
  <2>1. /\ Prepared(worker)
        /\ generation' = [inst |-> owner.prepared, account |-> account, tested |-> worker.tested]
        /\ worker' = [Forget(Drop(worker)) EXCEPT !.phase = "generation_ready", !.background = TRUE]
        /\ lock' = "driver" /\ driver' = "open" /\ job' \in {"probe", "bind"}
        /\ owner' = [owner EXCEPT !.taken = TRUE]
    BY <1>1, <1>4 DEF TakeGeneration, Handed
  <2>2. WorkerFits(worker') /\ worker'.login # "open" /\ worker'.browser = "none"
    BY <1>2, <1>3, <2>1 DEF WorkerFits, WorkerStates
  <2>3. generation' \in Session /\ generation' # NoSession /\ generation'.account = generation'.tested
    <3>1. account \in Accounts
      BY <2>1 DEF Prepared, SetupTypeOK, Known
    <3>2. owner.prepared \in Insts /\ worker.tested = account
      BY <1>1, <1>3, <2>1
    <3> QED
      BY <2>1, <3>1, <3>2, SessionAssumption DEF Session, Known
  <2>4. SetupTypeOK'
    BY <1>1, <2>1, <2>2, <2>3 DEF SetupTypeOK, WorkerFits
  <2>5. LockFits' /\ ProfileHasOneOwner'
    BY <1>1, <1>3, <2>1, <2>2, <2>3 DEF LockFits, ProfileHasOneOwner
  <2>6. ConsumersFit' /\ SessionIsWhatWasTested'
    BY <1>1, <2>1, <2>3 DEF ConsumersFit, SessionIsWhatWasTested
  <2> QED
    BY <2>2, <2>4, <2>5, <2>6
<1>5. CASE HandoffFails
  <2>1. /\ UNCHANGED <<generation, driver, owner>> /\ job' = "idle"
        /\ \/ UNCHANGED <<worker, lock>>
           \/ Prepared(worker) /\ worker' = [worker EXCEPT !.page = "lost"] /\ UNCHANGED lock
           \/ /\ Prepared(worker) /\ lock' = "free"
              /\ worker' = Fresh(Forget(Drop(worker)), "unavailable")
    BY <1>5 DEF HandoffFails, Handed
  <2>2. /\ WorkerFits(worker') /\ worker'.login = worker.login
        /\ worker'.browser \in {worker.browser, "none"}
        /\ lock' = "free" => worker'.browser = "none" \/ lock = "free"
    BY <1>2, <2>1, FreshFits DEF WorkerFits, WorkerStates
  <2>3. lock' \in {lock, "free"} /\ (lock' # lock => lock = "control" /\ worker'.login # "open")
    BY <1>3, <2>1, <2>2
  <2>4. SetupTypeOK'
    BY <1>1, <2>1, <2>2, <2>3 DEF SetupTypeOK, WorkerFits
  <2>5. LockFits'
    BY <1>1, <1>3, <2>1, <2>3 DEF LockFits
  <2>6. ProfileHasOneOwner'
    BY <1>1, <2>1, <2>2, <2>3 DEF LockFits, ProfileHasOneOwner, WorkerFits
  <2>7. ConsumersFit' /\ SessionIsWhatWasTested'
    BY <1>1, <2>1 DEF ConsumersFit, SessionIsWhatWasTested
  <2> QED
    BY <2>2, <2>4, <2>5, <2>6, <2>7
<1> QED
  BY <1>4, <1>5

\* The driver's thread and the host: the lock changes hands only when no browser runs.
LEMMA DriverKeepsInv ==
  ASSUME SetupInv, Retire \/ HostStops \/ DriverExits \/ HostRecovers \/ HostReleases
  PROVE  SetupInv'
<1> USE DEF SetupInv
<1>1. UNCHANGED <<account, worker, generation, consumers, owner, job>>
  BY DEF Retire, HostStops, DriverExits, HostRecovers, HostReleases
<1>2. /\ driver' \in {"none", "open", "stopping", "stopped", "unlocked", "closed"}
      /\ lock' \in {"control", "driver", "host", "free"} /\ hostUp' \in BOOLEAN
  BY DEF SetupTypeOK, Retire, HostStops, DriverExits, HostRecovers, HostReleases
<1>3. SetupTypeOK'
  BY <1>1, <1>2 DEF SetupTypeOK
<1>4. LockFits'
  BY <1>1 DEF LockFits, Retire, HostStops, DriverExits, HostRecovers, HostReleases
<1>5. lock = "control" => lock' = "control"
  BY DEF LockFits, Retire, HostStops, DriverExits, HostRecovers, HostReleases
<1>6. ProfileHasOneOwner'
  BY <1>1, <1>4, <1>5 DEF ProfileHasOneOwner, LockFits
<1>7. WorkerFits(worker') /\ ConsumersFit' /\ SessionIsWhatWasTested'
  BY <1>1 DEF ConsumersFit, SessionIsWhatWasTested
<1> QED
  BY <1>3, <1>4, <1>6, <1>7

\* The user signs in as somebody else, or closes what the worker opened.
LEMMA UserKeepsInv ==
  ASSUME SetupInv, SwitchAccount \/ UserCloses
  PROVE  SetupInv'
<1> USE DEF SetupInv
<1>1. UNCHANGED <<lock, generation, driver, consumers, owner, job, hostUp>> /\ account' \in Known
  BY DEF SwitchAccount, UserCloses, SetupTypeOK
<1>2. WorkerFits(worker') /\ (worker'.browser = "live" => worker.browser = "live")
      /\ (worker'.login = "open" => worker.login = "open")
  BY ZenonT(60) DEF SwitchAccount, UserCloses, WorkerFits, WorkerStates
<1>3. SetupTypeOK' /\ ProfileHasOneOwner'
  BY <1>1, <1>2 DEF SetupTypeOK, ProfileHasOneOwner, WorkerFits
<1>4. LockFits' /\ ConsumersFit' /\ SessionIsWhatWasTested'
  BY <1>1 DEF LockFits, ConsumersFit, SessionIsWhatWasTested
<1> QED
  BY <1>2, <1>3, <1>4
-----------------------------------------------------------------------------
LEMMA SetupStep ==
  ASSUME SetupInv, [SetupNext]_setupVars
  PROVE  SetupInv'
<1>1. CASE SetupNext
  BY <1>1, AttendKeepsInv, QuietStepsKeepInv, ResetEndKeepsInv, HandoffKeepsInv, DriverKeepsInv,
     UserKeepsInv DEF SetupNext
<1>2. CASE UNCHANGED setupVars
  BY <1>2 DEF setupVars, SetupInv, SetupTypeOK, SessionIsWhatWasTested, ProfileHasOneOwner,
              LockFits, ConsumersFit
<1> QED
  BY <1>1, <1>2

THEOREM SetupCorrect == SetupSpec => []SetupInv
<1>1. SetupInit => SetupInv
  BY SetupInitially
<1>2. SetupInv /\ [SetupNext]_setupVars => SetupInv'
  BY SetupStep
<1> QED
  BY <1>1, <1>2, PTL DEF SetupSpec

\* Type correctness, for any accounts and any number of installations.
THEOREM SetupTypeCorrect == SetupSpec => []SetupTypeOK
<1>1. SetupInv => SetupTypeOK
  BY DEF SetupInv
<1> QED
  BY <1>1, SetupCorrect, PTL

\* The worker's browser, the sign-in window, the driver and the host's recovery never
\* use the profile together.
THEOREM ProfileIsExclusive == SetupSpec => []ProfileHasOneOwner
<1>1. SetupInv => ProfileHasOneOwner
  BY DEF SetupInv
<1> QED
  BY <1>1, SetupCorrect, PTL

\* What is handed over is signed in to the account that was tested.
THEOREM HandsOverWhatWasTested == SetupSpec => []SessionIsWhatWasTested
<1>1. SetupInv => SessionIsWhatWasTested
  BY DEF SetupInv
<1> QED
  BY <1>1, SetupCorrect, PTL

\* The session has one consumer, and the host the session of its own installation.
THEOREM ConsumersExclude == SetupSpec => []OneConsumer
<1>1. SetupInv => OneConsumer
  <2> SUFFICES ASSUME SetupInv PROVE OneConsumer
    OBVIOUS
  <2>1. consumers = {} \/ \E c : consumers = {c}
    BY DEF SetupInv, ConsumersFit
  <2>2. Cardinality(consumers) \in {0, 1}
    BY <2>1, FS_EmptySet, FS_Singleton
  <2> QED
    BY <2>2 DEF SetupInv, ConsumersFit, OneConsumer
<1> QED
  BY <1>1, SetupCorrect, PTL

\* Browser and lock have one owner, and the session one consumer, in every state.
THEOREM SessionIsExclusive == SetupSpec => []SessionHasOneUser
<1>1. ProfileHasOneOwner /\ OneConsumer => SessionHasOneUser
  BY DEF SessionHasOneUser
<1> QED
  BY <1>1, ProfileIsExclusive, ConsumersExclude, PTL

\* A test and its cleanup keep the browser: nobody retires it under them.
THEOREM TestsAreNotCut == SetupSpec => ResetCutsNoTest
<1>1. SetupInv /\ [SetupNext]_setupVars
        => [driver = "open" /\ driver' # "open" => "probe" \notin consumers]_setupVars
  <2> SUFFICES ASSUME SetupInv, SetupNext, driver = "open", driver' # "open"
               PROVE  "probe" \notin consumers
    BY DEF setupVars
  <2>1. Retire \/ HostStops
    BY DEF SetupNext, Attend, ResetBegin, ResetRefused, ResetEnd, Prepare, Replay, TakeGeneration,
           HandoffFails, Probe, ProbeEnds, ProbeCleanup, Bind, Apply, ApplyAgain, DriverExits,
           HostDrops, HostRecovers, HostReleases, SwitchAccount, UserCloses
  <2> QED
    BY <2>1 DEF Retire, HostStops, SetupInv, ConsumersFit
<1> QED
  BY <1>1, SetupCorrect, PTL DEF SetupSpec, ResetCutsNoTest
-----------------------------------------------------------------------------
(* The scheduler (Scheduler).                                              *)

\* The inductive invariant: the set of busy sessions is exact only because no
\* two calls share one, and the other way round.
SchedulerInv == SchedulerTypeOK /\ NoLeakedSession /\ SessionExclusive

\* A queue with one place taken out is still a queue of workers.
LEMMA RemoveAtType ==
  ASSUME NEW S, NEW s \in Seq(S), NEW k \in DOMAIN s
  PROVE  RemoveAt(s, k) \in Seq(S)
<1>1. k \in 1..Len(s)
  OBVIOUS
<1>2. SubSeq(s, 1, k - 1) \in Seq(S)
  BY <1>1
<1>3. SubSeq(s, k + 1, Len(s)) \in Seq(S)
  BY <1>1
<1> QED
  BY <1>2, <1>3 DEF RemoveAt

LEMMA SchedulerInitially == SchedulerInit => SchedulerInv
  BY DEF SchedulerInit, SchedulerInv, SchedulerTypeOK, NoLeakedSession, SessionExclusive,
         InSession, Phases

\* A step that leaves every worker's session membership and the set alone.
LEMMA SameSessions ==
  ASSUME SchedulerInv, SchedulerTypeOK', InSession' = InSession, UNCHANGED sessions
  PROVE  SchedulerInv'
  BY DEF SchedulerInv, NoLeakedSession, SessionExclusive

LEMMA SchedulerStep ==
  ASSUME SchedulerInv, [SchedulerNext]_schedulerVars
  PROVE  SchedulerInv'
<1> USE DEF SchedulerInv, SchedulerTypeOK, Phases, Goto, InSession
<1>1. CASE UNCHANGED schedulerVars
  BY <1>1 DEF schedulerVars, NoLeakedSession, SessionExclusive
<1>2. ASSUME NEW w \in Workers, Cancel(w) PROVE SchedulerInv'
  BY <1>2, SameSessions DEF Cancel
<1>3. ASSUME NEW w \in Workers, TakePermit(w) PROVE SchedulerInv'
  <2>1. InSession' = InSession
    BY <1>3 DEF TakePermit
  <2> QED
    BY <1>3, <2>1, SameSessions DEF TakePermit
<1>4. ASSUME NEW w \in Workers, RefuseSession(w) PROVE SchedulerInv'
  <2>1. InSession' = InSession
    BY <1>4 DEF RefuseSession
  <2> QED
    BY <1>4, <2>1, SameSessions DEF RefuseSession
<1>5. ASSUME NEW w \in Workers, EnterSession(w) PROVE SchedulerInv'
  <2>1. InSession' = InSession \cup {w}
    BY <1>5 DEF EnterSession
  <2>2. waiters' \in Seq(Workers)
    BY <1>5 DEF EnterSession
  <2>3. SchedulerTypeOK'
    BY <1>5, <2>2 DEF EnterSession
  <2>4. NoLeakedSession'
    BY <1>5, <2>1 DEF EnterSession, NoLeakedSession
  <2>5. SessionExclusive'
    BY <1>5, <2>1 DEF EnterSession, NoLeakedSession, SessionExclusive
  <2> QED
    BY <2>3, <2>4, <2>5
<1>6. ASSUME NEW w \in Workers, Acquire(w) PROVE SchedulerInv'
  <2>1. InSession' = InSession
    BY <1>6 DEF Acquire
  <2>2. waiters' \in Seq(Workers)
    BY <1>6 DEF Acquire
  <2> QED
    BY <1>6, <2>1, <2>2, SameSessions DEF Acquire
<1>7. ASSUME NEW w \in Workers, GiveUp(w) PROVE SchedulerInv'
  <2>1. InSession' = InSession
    BY <1>7 DEF GiveUp
  <2>2. waiters' \in Seq(Workers)
    BY <1>7, RemoveAtType DEF GiveUp
  <2> QED
    BY <1>7, <2>1, <2>2, SameSessions DEF GiveUp
<1>8. ASSUME NEW w \in Workers, FinishTurn(w) PROVE SchedulerInv'
  <2>1. InSession' = InSession
    BY <1>8 DEF FinishTurn
  <2> QED
    BY <1>8, <2>1, SameSessions DEF FinishTurn
<1>9. ASSUME NEW w \in Workers, DropPermit(w) PROVE SchedulerInv'
  <2>1. InSession' = InSession
    BY <1>9 DEF DropPermit
  <2> QED
    BY <1>9, <2>1, SameSessions DEF DropPermit
<1>10. ASSUME NEW w \in Workers, LeaveSession(w) PROVE SchedulerInv'
  <2>1. w \in InSession /\ InSession' = InSession \ {w}
    BY <1>10 DEF LeaveSession
  <2>2. SchedulerTypeOK'
    BY <1>10 DEF LeaveSession
  <2>3. NoLeakedSession'
    BY <1>10, <2>1 DEF LeaveSession, NoLeakedSession, SessionExclusive
  <2>4. SessionExclusive'
    BY <2>1 DEF SessionExclusive
  <2> QED
    BY <2>2, <2>3, <2>4
<1>11. ASSUME NEW w \in Workers, WithdrawPermit(w) PROVE SchedulerInv'
  <2>1. InSession' = InSession
    BY <1>11 DEF WithdrawPermit
  <2> QED
    BY <1>11, <2>1, SameSessions DEF WithdrawPermit
<1> QED
  BY <1>1, <1>2, <1>3, <1>4, <1>5, <1>6, <1>7, <1>8, <1>9, <1>10, <1>11
     DEF SchedulerNext, Proceed, NoticeCancel

\* The scheduler's state is always well-typed.
THEOREM SchedulerTypeCorrect == SchedulerSpec => []SchedulerTypeOK
<1>1. SchedulerInv => SchedulerTypeOK
  BY DEF SchedulerInv
<1> QED
  BY <1>1, SchedulerInitially, SchedulerStep, PTL DEF SchedulerSpec

\* Each busy session is that of exactly one call.
THEOREM SessionsHaveOneCall == SchedulerSpec => []OneCallPerSession
<1>1. SchedulerInv => OneCallPerSession
  BY DEF SchedulerInv, OneCallPerSession
<1> QED
  BY <1>1, SchedulerInitially, SchedulerStep, PTL DEF SchedulerSpec

\* The scheduler grants the generation lease as TurnLease promises.
THEOREM SchedulerImplementsLease == SchedulerSpec => ImplementsLease
<1>1. SchedulerInit => Lease!Init
  BY DEF SchedulerInit, Lease!Init, Generating
<1>2. SchedulerTypeOK /\ [SchedulerNext]_schedulerVars => [Lease!Next]_Generating
  <2> SUFFICES ASSUME SchedulerTypeOK, [SchedulerNext]_schedulerVars
               PROVE  Lease!Next \/ Generating' = Generating
    OBVIOUS
  <2> USE DEF SchedulerTypeOK, Goto
  <2>1. CASE UNCHANGED schedulerVars
    BY <2>1 DEF schedulerVars, Generating
  <2>2. ASSUME NEW w \in Workers, Acquire(w) PROVE Lease!Grant(w)
    <3>1. w \notin Generating /\ Generating' = Generating \cup {w}
      BY <2>2 DEF Acquire, Generating
    <3>2. Cardinality(Generating) < Active
      BY <2>2 DEF Acquire
    <3> QED
      BY <3>1, <3>2 DEF Lease!Grant, Lease!Cardinality, Cardinality
  <2>3. ASSUME NEW w \in Workers, FinishTurn(w) PROVE Lease!Return(w)
    BY <2>3 DEF FinishTurn, Lease!Return, Generating
  <2>4. ASSUME NEW w \in Workers,
               \/ Cancel(w) \/ TakePermit(w) \/ RefuseSession(w) \/ EnterSession(w)
               \/ GiveUp(w) \/ DropPermit(w) \/ LeaveSession(w) \/ WithdrawPermit(w)
        PROVE  Generating' = Generating
    BY <2>4 DEF Cancel, TakePermit, RefuseSession, EnterSession, GiveUp, DropPermit,
                LeaveSession, WithdrawPermit, Generating
  <2> QED
    BY <2>1, <2>2, <2>3, <2>4 DEF SchedulerNext, Proceed, NoticeCancel, Lease!Next
<1> QED
  BY <1>1, <1>2, SchedulerTypeCorrect, PTL DEF SchedulerSpec, ImplementsLease, Lease!Spec
=============================================================================
