--------------------------- MODULE BrowserTargets ---------------------------
(***************************************************************************)
(* Replacing the browser that one profile has: launch_mode of              *)
(* crates/platform/src/browser_process.rs, close_for_replacement and       *)
(* open_hidden_page of crates/browser-adapter/src/pipe.rs, for the owner    *)
(* thread of crates/runtime/src/control.rs, which shows the user's own     *)
(* sign-in window and then a browser in the background.                    *)
(*                                                                         *)
(* Meanwhile tabs open, something is typed into the page, the pipe breaks, *)
(* the browser or the whole program ends.  A tab that opens between the    *)
(* last inventory and Browser.close is lost; nothing older is.             *)
(***************************************************************************)
EXTENDS Naturals

CONSTANTS Tabs,        \* tabs that the program did not open
          MaxMishaps   \* failures, broken pipes and ends

ASSUME TargetsAssumption == MaxMishaps \in Nat

VARIABLES chrome,    \* the process of the profile and its targets
          holder,    \* the owner thread: what it holds, and where it is
          mishaps,
          past       \* history: what was there before the page was closed; what went wrong

targetsVars == <<chrome, holder, mishaps, past>>

Replacing == {"inventory", "probe", "close_page", "recheck", "quit", "wait"}
Launching == {"create", "contain", "resume", "target", "park", "attach", "navigate"}

TargetsTypeOK ==
  /\ chrome.run \in {"none", "suspended", "running", "ending"}
  /\ chrome.mode \in {"login", "background"} /\ chrome.tabs \subseteq Tabs
  /\ {chrome.contained, chrome.pipe} \subseteq BOOLEAN
  /\ chrome.page \in {"absent", "idle", "busy", "unknown"}
  /\ holder.at \in {"free"} \cup Replacing \cup Launching
  /\ holder.goal \in {"login", "background"} /\ holder.holds \in {"none", "login", "background"}
  /\ {holder.page, holder.allowed} \subseteq BOOLEAN
  /\ past.tabs \subseteq Tabs /\ past.lost \subseteq Tabs \cup {"draft"} /\ past.two \in BOOLEAN
  /\ mishaps \in 0..MaxMishaps

NoBrowser == [run |-> "none", mode |-> "background", contained |-> FALSE, pipe |-> TRUE,
              page |-> "absent", tabs |-> {}]

TargetsInit ==
  /\ chrome = NoBrowser /\ mishaps = 0
  /\ holder = [at |-> "free", goal |-> "login", holds |-> "none", page |-> FALSE, allowed |-> FALSE]
  /\ past = [tabs |-> {}, draft |-> FALSE, lost |-> {}, two |-> FALSE]
-----------------------------------------------------------------------------
Misfortune == mishaps < MaxMishaps /\ mishaps' = mishaps + 1
Fine == UNCHANGED mishaps

Step(at) == holder' = [holder EXCEPT !.at = at]
Exited == chrome.run \in {"none", "suspended"}

\* A call fails for good when the pipe is broken or the browser has ended.
Reachable == chrome.run = "running" /\ chrome.pipe

\* Closing the last handle of the job ends everything in it.
JobCloses == IF chrome.contained \/ chrome.run # "suspended" THEN NoBrowser ELSE chrome

\* close_for_replacement: nothing to do for a browser that has ended.
StartReplacing(goal, allowed) ==
  holder' = [holder EXCEPT !.goal = goal, !.allowed = allowed,
              !.at = IF holder.holds = "none" \/ Exited THEN "create" ELSE "inventory"]

\* ConnectBrowser: for a new sign-in the background page is given up with its browser.
Connect ==
  /\ holder.at = "free" /\ holder.holds # "login"
  /\ StartReplacing("login", holder.page)
  /\ past' = [past EXCEPT !.tabs = {}, !.draft = chrome.page = "busy"]
  /\ UNCHANGED chrome /\ Fine

\* BackgroundSession and status: after the sign-in window was closed, and when the browser
\* has ended or the page is positively absent.
Restore ==
  /\ holder.at = "free"
  /\ \/ holder.holds = "none"
     \/ Exited
     \/ holder.holds = "background" /\ holder.page /\ Reachable /\ chrome.page = "absent"
  /\ StartReplacing("background", FALSE)
  /\ past' = [past EXCEPT !.tabs = {}, !.draft = chrome.page = "busy"]
  /\ UNCHANGED chrome /\ Fine

\* check_replacement_targets: every page counts but the allowed one.
Inventory(allowed) ==
  /\ Reachable /\ chrome.tabs = {} /\ (allowed \/ chrome.page = "absent")

TakeInventory ==
  /\ holder.at = "inventory"
  /\ Step(IF ~Inventory(holder.allowed) THEN "free"
          ELSE IF holder.allowed THEN "probe" ELSE "recheck")
  /\ UNCHANGED <<chrome, past>> /\ Fine

\* Closing the page without looking at it.
SkipProbe == holder.at = "probe" /\ Step("close_page") /\ UNCHANGED <<chrome, past>> /\ Fine

\* replacement_idle.js, on the page if it is still there.
ProbePage ==
  /\ holder.at = "probe"
  /\ Step(IF ~Reachable \/ chrome.page \in {"busy", "unknown"} THEN "free"
          ELSE IF chrome.page = "absent" THEN "recheck" ELSE "close_page")
  /\ UNCHANGED <<chrome, past>> /\ Fine

\* What opened until now must survive.
ClosePage ==
  /\ holder.at = "close_page"
  /\ \/ /\ Reachable /\ chrome' = [chrome EXCEPT !.page = "absent"] /\ Step("recheck")
        /\ past' = [past EXCEPT !.tabs = chrome.tabs,
                                !.lost = IF past.draft THEN @ \cup {"draft"} ELSE @]
        /\ Fine
     \/ /\ (Misfortune \/ (~Reachable /\ Fine)) /\ Step("free") /\ UNCHANGED <<chrome, past>>

QuitUnchecked == holder.at = "recheck" /\ Step("quit") /\ UNCHANGED <<chrome, past>> /\ Fine

Recheck ==
  /\ holder.at = "recheck"
  /\ Step(IF Inventory(FALSE) THEN "quit" ELSE "free")
  /\ UNCHANGED <<chrome, past>> /\ Fine

\* Browser.close; its answer does not count.
QuitBrowser ==
  /\ holder.at = "quit"
  /\ chrome' = IF Reachable THEN [chrome EXCEPT !.run = "ending", !.tabs = {}, !.page = "absent"]
               ELSE chrome
  /\ past' = IF Reachable THEN [past EXCEPT !.lost = @ \cup (chrome.tabs \cap past.tabs)]
             ELSE past
  /\ Step("wait") /\ Fine

\* wait_for_exit: only the end of the process releases the profile.
WaitForExit ==
  /\ holder.at = "wait"
  /\ IF Exited THEN Step("create") /\ Fine
     ELSE Step("free") /\ Misfortune
  /\ UNCHANGED <<chrome, past>>
-----------------------------------------------------------------------------
(* launch_mode; the old handle and its page are given up first. *)

NothingHeld == [holder EXCEPT !.holds = "none", !.page = FALSE, !.at = "free"]

\* The process runs before it is in the job.
CreateUncontained ==
  /\ holder.at = "create"
  /\ chrome' = [NoBrowser EXCEPT !.run = "running", !.mode = holder.goal]
  /\ holder' = [NothingHeld EXCEPT !.at = "contain"] /\ Fine /\ UNCHANGED past

CreateSuspended ==
  /\ holder.at = "create"
  /\ past' = [past EXCEPT !.two = @ \/ chrome.run \in {"running", "ending"}]
  /\ \/ /\ chrome' = [NoBrowser EXCEPT !.run = "suspended", !.mode = holder.goal]
        /\ holder' = [NothingHeld EXCEPT !.at = "contain"] /\ Fine
     \/ Misfortune /\ holder' = NothingHeld /\ UNCHANGED chrome

ContainInJob ==
  /\ holder.at = "contain"
  /\ \/ chrome' = [chrome EXCEPT !.contained = TRUE] /\ Step("resume") /\ Fine
     \/ chrome' = NoBrowser /\ Misfortune /\ holder' = NothingHeld
  /\ UNCHANGED past

ResumeProcess ==
  /\ holder.at = "resume"
  /\ \/ /\ chrome' = [chrome EXCEPT !.run = "running"] /\ Fine
        /\ holder' = [holder EXCEPT !.holds = holder.goal,
                       !.at = IF holder.goal = "login" THEN "free" ELSE "target"]
     \/ chrome' = JobCloses /\ Misfortune /\ holder' = NothingHeld
  /\ UNCHANGED past

(* open_hidden_page.  An error drops the new browser. *)

HiddenPageFails ==
  /\ holder.at \in {"target", "park", "attach", "navigate"}
  /\ Misfortune \/ (~Reachable /\ Fine)
  /\ chrome' = JobCloses /\ holder' = NothingHeld
  /\ UNCHANGED past

CreateTarget ==
  /\ holder.at = "target" /\ Reachable
  /\ chrome' = [chrome EXCEPT !.page = "idle"]
  /\ Step("park") /\ Fine /\ UNCHANGED past

\* The windows of the process are moved off the screen; this needs no pipe.
ParkWindows ==
  /\ holder.at = "park" /\ chrome.run = "running"
  /\ Step("attach") /\ Fine /\ UNCHANGED <<chrome, past>>

AttachTarget ==
  /\ holder.at = "attach" /\ Reachable
  /\ Step("navigate") /\ Fine /\ UNCHANGED <<chrome, past>>

NavigatePage ==
  /\ holder.at = "navigate" /\ Reachable
  /\ holder' = [holder EXCEPT !.at = "free", !.page = TRUE]
  /\ Fine /\ UNCHANGED <<chrome, past>>
-----------------------------------------------------------------------------
(* The browser, its user and the program's end. *)

\* The user works in the sign-in window; links and the service open tabs anywhere.
TabsChange ==
  /\ chrome.run = "running"
  /\ \E t \in Tabs :
       \/ chrome' = [chrome EXCEPT !.tabs = @ \cup {t}] /\ UNCHANGED past
       \/ /\ chrome' = [chrome EXCEPT !.tabs = @ \ {t}]
          /\ past' = [past EXCEPT !.tabs = @ \ {t}]
  /\ UNCHANGED holder /\ Fine

PageChanges ==
  /\ chrome.run = "running" /\ chrome.page # "absent"
  /\ \E page \in {"absent", "idle", "busy", "unknown"} \ {chrome.page} :
       /\ chrome' = [chrome EXCEPT !.page = page]
       /\ past' = [past EXCEPT !.draft = @ /\ page = "busy"]
  /\ UNCHANGED holder /\ Fine

PipeBreaks ==
  /\ chrome.run = "running" /\ chrome.pipe /\ chrome.mode = "background"
  /\ Misfortune /\ chrome' = [chrome EXCEPT !.pipe = FALSE]
  /\ UNCHANGED <<holder, past>>

\* The user closes the sign-in window, the browser ends by itself, or as it was told.
BrowserExits ==
  /\ \/ chrome.run = "ending" /\ Fine
     \/ chrome.run = "running" /\ chrome.mode = "login" /\ Fine
     \/ chrome.run = "running" /\ chrome.mode = "background" /\ Misfortune
  /\ chrome' = NoBrowser
  /\ UNCHANGED <<holder, past>>

\* The program ends and starts again; the system closes its job.
ProgramEnds ==
  /\ Misfortune /\ chrome' = JobCloses /\ holder' = NothingHeld
  /\ UNCHANGED past

TargetsNext ==
  \/ Connect \/ Restore \/ TakeInventory \/ ProbePage \/ ClosePage \/ Recheck \/ QuitBrowser
  \/ WaitForExit \/ CreateSuspended \/ ContainInJob \/ ResumeProcess \/ HiddenPageFails
  \/ CreateTarget \/ ParkWindows \/ AttachTarget \/ NavigatePage
  \/ TabsChange \/ PageChanges \/ PipeBreaks \/ BrowserExits \/ ProgramEnds

TargetsSpec == TargetsInit /\ [][TargetsNext]_targetsVars
-----------------------------------------------------------------------------
\* A replacement never closes a tab that was open when the program closed its own page,
\* nor a page with a draft.
WorkSurvives == past.lost = {}

\* A browser that runs is in the job of an owner that holds it or is starting it, whatever
\* step failed; so it ends with the program.
NothingRunsAlone ==
  chrome.run \in {"running", "ending"} =>
    /\ chrome.contained
    /\ holder.holds = chrome.mode

\* The profile never has two browsers.
BrowserIsReplaced == WorkSurvives /\ NothingRunsAlone /\ ~past.two
=============================================================================
