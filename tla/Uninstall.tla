----------------------------- MODULE Uninstall -----------------------------
(***************************************************************************)
(* Leaving the machine clean: prepare_uninstall and clear_local_session of *)
(* crates/runtime/src/installed_control.rs, session_data.rs of             *)
(* crates/platform, and what the hosts of the installations do meanwhile.  *)
(*                                                                         *)
(* One call of the tool lists the installations, looks at every host, then *)
(* asks each to disconnect and lists again; or, to delete the browser's    *)
(* session, it lists them and takes the lock of the profile.  The hosts    *)
(* serve turns, end and restart, the user edits his configuration, another *)
(* window disconnects or installs, and requests are lost.                  *)
(*                                                                         *)
(* Within an installation the record of the journal is "none" (nothing an  *)
(* activation left), "applied" (from the first step of an activation on),  *)
(* "restored" or "broken"; ConfigJournal has the details.                  *)
(***************************************************************************)
EXTENDS FiniteSets, Naturals

CONSTANTS Homes,           \* the directories of installations
          MaxDisturbances  \* failures, edits and restarts beside the call

VARIABLES home,      \* per directory: the journal's record, and a key of ours in the file
          host,      \* per directory: its process
          tool,      \* the call
          profile,   \* who holds the instance lock; whether the session is there
          disturbed,
          past       \* history: what changed since the last look or removal, the homes that
                     \* were asked to disconnect, whether work was cut

uninstallVars == <<home, host, tool, profile, disturbed, past>>

Free == "free"
Tool == "tool"

ASSUME UninstallAssumption ==
  IsFiniteSet(Homes) /\ {Free, Tool} \cap Homes = {} /\ MaxDisturbances \in Nat

Down == [up |-> FALSE, run |-> 0, state |-> "idle", turn |-> FALSE, job |-> "none",
         receipt |-> "none"]

HostStates == [up: BOOLEAN, run: 0..MaxDisturbances + 1, turn: BOOLEAN,
               state: {"idle", "draining", "removed", "failed"},
               job: {"none", "whenIdle", "always"},
               receipt: {"none", "running", "completed", "active", "failed"}]

Calls == [goal: {"check", "uninstall", "clear"},
          at: {"listing", "checking", "removing", "waiting", "confirming", "listingAgain",
               "locking", "validating", "clearing", "succeeded", "failed"},
          left: SUBSET Homes, found: SUBSET Homes, asked: SUBSET Homes, invalid: BOOLEAN,
          ready: [Homes -> 0..MaxDisturbances + 1]]

UninstallTypeOK ==
  /\ home \in [Homes -> [record: {"none", "applied", "restored", "broken"}, route: BOOLEAN]]
  /\ host \in [Homes -> HostStates]
  /\ tool \in Calls
  /\ profile \in [lock: Homes \cup {Free, Tool}, session: {"kept", "partly", "gone"}]
  /\ disturbed \in 0..MaxDisturbances
  /\ past \in [late: SUBSET Homes, touched: SUBSET Homes, cut: BOOLEAN]

UninstallInit ==
  /\ \E records \in [Homes -> {"none", "applied", "restored"}] :
       /\ home = [h \in Homes |-> [record |-> records[h], route |-> records[h] = "applied"]]
       /\ host = [h \in Homes |->
            IF records[h] = "applied" THEN [Down EXCEPT !.up = TRUE, !.run = 1] ELSE Down]
  /\ \E goal \in {"check", "uninstall", "clear"} :
       tool = [goal |-> goal, at |-> "listing", left |-> Homes, found |-> {}, invalid |-> FALSE,
               ready |-> [h \in Homes |-> 0], asked |-> {}]
  /\ profile = [lock |-> Free, session |-> "kept"]
  /\ disturbed = 0
  /\ past = [late |-> {}, touched |-> {}, cut |-> FALSE]
-----------------------------------------------------------------------------
(* The tool. *)

Disturbance == disturbed < MaxDisturbances /\ disturbed' = disturbed + 1

Driven(h) == profile.lock = h

Ends(how) == tool' = [tool EXCEPT !.at = how]

\* An installation is passed over only if nothing was started there, or if undoing its
\* keys once more would change nothing.
AttachmentTarget(h) == home[h].record = "applied" \/ (home[h].record = "restored" /\ home[h].route)

\* The directories of this version and of older ones are one list.
StartListing(at) == [tool EXCEPT !.at = at, !.left = Homes, !.found = {}]

\* They are read one after the other; a journal that cannot be read is noted.
Inventory ==
  /\ tool.at \in {"listing", "listingAgain"}
  /\ \E h \in tool.left :
       /\ tool' = [tool EXCEPT !.left = @ \ {h}, !.invalid = @ \/ home[h].record = "broken",
                    !.found = IF AttachmentTarget(h) THEN @ \cup {h} ELSE @]
       /\ past' = [past EXCEPT !.late = @ \ {h}]
  /\ UNCHANGED <<home, host, profile, disturbed>>

Listed(at) == tool.at = at /\ tool.left = {}

\* A session is deleted only if no installation is connected.
RequireDisconnected ==
  /\ Listed("listing") /\ tool.goal = "clear"
  /\ Ends(IF tool.invalid \/ tool.found # {} THEN "failed" ELSE "locking")
  /\ UNCHANGED <<home, host, profile, disturbed, past>>

StartPreflight ==
  /\ Listed("listing") /\ tool.goal # "clear"
  /\ IF tool.invalid THEN Ends("failed")
     ELSE tool' = [tool EXCEPT !.at = "checking", !.left = tool.found]
  /\ UNCHANGED <<home, host, profile, disturbed, past>>

\* A removal is reported only if another listing finds none.
ConfirmNoneLeft ==
  /\ Listed("listingAgain")
  /\ Ends(IF tool.invalid \/ tool.found # {} THEN "failed" ELSE "succeeded")
  /\ UNCHANGED <<home, host, profile, disturbed, past>>

\* A read asks for the health and then for the efforts; both come from one instance.
Readable(h) == host[h].up

UninstallIdle(h) == ~host[h].turn /\ host[h].state # "draining"

Preflight ==
  /\ tool.at = "checking"
  /\ \E h \in tool.left :
       IF Readable(h) /\ UninstallIdle(h)
       THEN tool' = [tool EXCEPT !.left = @ \ {h}, !.ready[h] = host[h].run]
       ELSE Ends("failed")
  /\ UNCHANGED <<home, host, profile, disturbed, past>>

\* Every host has been seen idle.
StartRemoving ==
  /\ tool.at = "checking" /\ tool.left = {}
  /\ IF tool.goal = "check" THEN Ends("succeeded")
     ELSE tool' = [tool EXCEPT !.at = "removing", !.left = tool.found]
  /\ UNCHANGED <<home, host, profile, disturbed, past>>

\* Mutant: what the desktop sends when the user accepts that work is lost.
ForcedAction == "always"

UninstallAction == "whenIdle"

\* mutate: the request is for the instance that was looked at.  No answer means that the
\* receipt is asked for, never that the request is made again.
RequestRemoval ==
  /\ tool.at = "removing"
  /\ \E h \in tool.left :
       LET waits == tool' = [tool EXCEPT !.at = "waiting", !.left = @ \ {h}, !.asked = {h}] IN
       \/ /\ host[h].up /\ host[h].run = tool.ready[h] /\ host[h].job = "none"
          /\ host' = [host EXCEPT ![h].job = UninstallAction, ![h].receipt = "running"]
          /\ past' = [past EXCEPT !.touched = @ \cup {h}]
          /\ waits /\ UNCHANGED disturbed
       \/ /\ host[h].up /\ (host[h].run # tool.ready[h] \/ host[h].job # "none")
          /\ Ends("failed") /\ UNCHANGED <<host, disturbed, past>>
       \/ /\ IF host[h].up THEN Disturbance ELSE UNCHANGED disturbed
          /\ waits /\ UNCHANGED <<host, past>>
  /\ UNCHANGED <<home, profile>>

\* Another instance, a receipt it does not know, a refusal and a failure end the call, and
\* so does a host that neither answers nor concludes for 45 seconds.
PollRemoval ==
  /\ tool.at = "waiting"
  /\ \E h \in tool.asked :
       LET answers == host[h].up /\ host[h].run = tool.ready[h] IN
       \/ answers /\ host[h].receipt = "completed" /\ Ends("confirming")
       \/ (answers => host[h].receipt # "completed") /\ Ends("failed")
  /\ UNCHANGED <<home, host, profile, disturbed, past>>

ConfirmRemoval ==
  /\ tool.at = "confirming"
  /\ \E h \in tool.asked :
       Ends(IF Readable(h) /\ host[h].state = "removed" THEN "removing" ELSE "failed")
  /\ past' = [past EXCEPT !.late = {}]
  /\ UNCHANGED <<home, host, profile, disturbed>>

ListAgain ==
  /\ tool.at = "removing" /\ tool.left = {}
  /\ tool' = StartListing("listingAgain")
  /\ UNCHANGED <<home, host, profile, disturbed, past>>

\* A driver of any installation holds this lock for as long as it runs.
LockSession ==
  /\ tool.at = "locking"
  /\ IF profile.lock = Free
     THEN profile' = [profile EXCEPT !.lock = Tool] /\ Ends("validating")
     ELSE UNCHANGED profile /\ Ends("failed")
  /\ UNCHANGED <<home, host, disturbed, past>>

Unlocked(session) == profile' = [lock |-> Free, session |-> session]

\* The whole tree is looked through before its first file goes.
ValidateTree ==
  /\ tool.at = "validating"
  /\ \/ Ends("clearing") /\ UNCHANGED <<profile, disturbed>>
     \/ Unlocked(profile.session) /\ Disturbance /\ Ends("failed")
  /\ UNCHANGED <<home, host, past>>

ClearSession ==
  /\ tool.at = "clearing"
  /\ \/ Unlocked("gone") /\ Ends("succeeded") /\ UNCHANGED disturbed
     \/ Unlocked("partly") /\ Disturbance /\ Ends("failed")
  /\ past' = [past EXCEPT !.cut = @ \/ \E h \in Homes : Driven(h)]
  /\ UNCHANGED <<home, host>>

\* Any read may fail and any wait run out; a removal that was asked for goes on.
ToolFails ==
  /\ tool.at \notin {"succeeded", "failed", "validating", "clearing"}
  /\ Disturbance /\ Ends("failed")
  /\ UNCHANGED <<home, host, profile, past>>
-----------------------------------------------------------------------------
(* The hosts, and whoever else uses them. *)

DriverStarts(h) ==
  /\ host[h].up /\ host[h].state = "idle" /\ host[h].job = "none" /\ profile.lock = Free
  /\ profile' = [lock |-> h, session |-> "kept"]
  /\ UNCHANGED <<home, host, tool, disturbed, past>>

WebTurn(h) ==
  /\ Driven(h) /\ host[h].up /\ (host[h].turn \/ host[h].state = "idle")
  /\ host' = [host EXCEPT ![h].turn = ~@]
  /\ UNCHANGED <<home, tool, profile, disturbed, past>>

\* disconnect of the lifecycle: work refuses an idle-only one; the admission of turns
\* ends with the same look.
BeginDisconnect(h) ==
  /\ host[h].job # "none" /\ host[h].state # "draining"
  /\ LET ours == host[h].receipt = "running" IN
     IF host[h].turn /\ host[h].job = "whenIdle"
     THEN /\ host' = [host EXCEPT ![h].job = "none", ![h].receipt = IF ours THEN "active" ELSE @]
          /\ UNCHANGED past
     ELSE /\ host' = [host EXCEPT ![h].state = "draining", ![h].turn = FALSE]
          /\ past' = [past EXCEPT !.cut = @ \/ (ours /\ host[h].turn)]
  /\ UNCHANGED <<home, tool, profile, disturbed>>

Concluded(h, state, outcome) ==
  LET receipt == IF host[h].receipt = "running" THEN outcome ELSE host[h].receipt IN
  host' = [host EXCEPT ![h] = [@ EXCEPT !.state = state, !.job = "none", !.receipt = receipt]]

\* The browser is released before the keys are removed.  A removal that was complete once
\* is not repeated on a file the user has changed since.
EndDisconnect(h) ==
  /\ host[h].state = "draining"
  /\ \/ /\ home[h].record = "applied" \/ ~home[h].route
        /\ home' = [home EXCEPT ![h] = [record |-> "restored", route |-> FALSE]]
        /\ profile' = [profile EXCEPT !.lock = IF Driven(h) THEN Free ELSE @]
        /\ Concluded(h, "removed", "completed") /\ UNCHANGED disturbed
     \/ /\ IF home[h].record = "restored" /\ home[h].route THEN UNCHANGED disturbed ELSE Disturbance
        /\ \/ profile' = [profile EXCEPT !.lock = IF Driven(h) THEN Free ELSE @]
           \/ UNCHANGED profile
        /\ Concluded(h, "failed", "failed") /\ UNCHANGED home
  /\ UNCHANGED <<tool, past>>

\* Another window disconnects this installation.
OtherDisconnects(h) ==
  /\ host[h].up /\ host[h].job = "none" /\ host[h].state # "draining" /\ Disturbance
  /\ \E job \in {"whenIdle", "always"} : host' = [host EXCEPT ![h].job = job]
  /\ UNCHANGED <<home, tool, profile, past>>

HostEnds(h) ==
  /\ host[h].up /\ Disturbance
  /\ host' = [host EXCEPT ![h] = [Down EXCEPT !.run = host[h].run]]
  /\ profile' = [profile EXCEPT !.lock = IF Driven(h) THEN Free ELSE @]
  /\ UNCHANGED <<home, tool, past>>

\* A host comes up for a record it can reopen, with a new instance and no receipts.
HostStarts(h) ==
  /\ ~host[h].up /\ home[h].record \in {"applied", "restored"}
  /\ host[h].run <= disturbed
  /\ host' = [host EXCEPT ![h] = [Down EXCEPT !.up = TRUE, !.run = host[h].run + 1,
               !.state = IF home[h].record = "applied" THEN "idle"
                         ELSE IF home[h].route THEN "failed" ELSE "removed"]]
  /\ UNCHANGED <<home, tool, profile, disturbed, past>>

\* A new installation, or keys that the user puts back or takes out, or damage.
HomeChanges(h) ==
  /\ Disturbance
  /\ \/ /\ home[h].record = "none"
        /\ home' = [home EXCEPT ![h] = [record |-> "applied", route |-> TRUE]]
     \/ home[h].record # "none" /\ home' = [home EXCEPT ![h].route = ~@]
     \/ home[h].record # "none" /\ home' = [home EXCEPT ![h].record = "broken"]
  /\ past' = [past EXCEPT !.late = @ \cup {h}]
  /\ UNCHANGED <<host, tool, profile>>

UninstallNext ==
  \/ Inventory \/ RequireDisconnected \/ StartPreflight \/ Preflight \/ StartRemoving
  \/ RequestRemoval \/ PollRemoval \/ ConfirmRemoval \/ ListAgain \/ ConfirmNoneLeft
  \/ LockSession \/ ValidateTree \/ ClearSession \/ ToolFails
  \/ \E h \in Homes :
       \/ DriverStarts(h) \/ WebTurn(h) \/ BeginDisconnect(h) \/ EndDisconnect(h)
       \/ OtherDisconnects(h) \/ HostEnds(h) \/ HostStarts(h) \/ HomeChanges(h)
  \/ tool.at \in {"succeeded", "failed"} /\ UNCHANGED uninstallVars

UninstallSpec == UninstallInit /\ [][UninstallNext]_uninstallVars
-----------------------------------------------------------------------------
\* A call that succeeds has not overlooked anything: no key of ours and no journal that
\* could put one back, unless it came after the last removal and the last look at it.
NothingIsLeftBehind ==
  tool.at = "succeeded" /\ tool.goal # "check" =>
    \A h \in Homes \ past.late : ~home[h].route /\ home[h].record \in {"none", "restored"}

\* No work is lost to it: it stops no turn, and deletes no session under a driver.
NoWorkIsCut == ~past.cut

\* All or nothing as far as it can: nothing is disconnected before every installation it
\* found was seen idle, and then only the instance that was seen.
AllSeenIdleFirst ==
  past.touched # {} =>
    /\ tool.goal = "uninstall" /\ tool.at # "checking"
    /\ tool.at \in {"removing", "waiting", "confirming"} =>
         \A h \in tool.found : tool.ready[h] # 0
    /\ \A h \in Homes : host[h].receipt = "running" => host[h].run = tool.ready[h]

UninstallIsClean == NothingIsLeftBehind /\ NoWorkIsCut /\ AllSeenIdleFirst
=============================================================================
