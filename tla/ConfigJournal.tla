--------------------------- MODULE ConfigJournal ---------------------------
(***************************************************************************)
(* Switching the user's configuration file to the local listener and back, *)
(* crates/runtime/src/config_journal.rs over platform/src/atomic_file.rs   *)
(* and codex-adapter/src/config.rs.  Two files take part, the user's       *)
(* configuration and a private journal, and no write covers both; between  *)
(* any two of the program's steps the user may save the configuration and  *)
(* the process may end.                                                    *)
(*                                                                         *)
(* A configuration is a record of what the code tells apart:               *)
(*   route  the `openai_base_url` key: "none", "ours" or "other"           *)
(*   model  the selected model: "none", "native" (a model the client       *)
(*          offers), "retired" (one it no longer offers), "ours" (one that *)
(*          this installation publishes)                                   *)
(*   tools  our MCP server entry: "none", "ours" or "edited" by the user   *)
(*   other  the rest: "none", some "text", a "profile" that makes a route  *)
(*          ineffective, "broken" (not TOML), "absent" (there is no file)  *)
(* A file also has an identity, new whenever it is replaced.               *)
(***************************************************************************)
EXTENDS Naturals

CONSTANTS Originals,   \* the configurations the user may begin with
          MaxEdits,    \* how often the user saves it
          MaxFaults,   \* how many file operations fail
          MaxCrashes,  \* how often the process ends
          MaxWeb       \* how often the web receipt is written

Contents == [route: {"none", "ours", "other"},
             model: {"none", "native", "retired", "ours"},
             tools: {"none", "ours", "edited"},
             other: {"none", "text", "profile", "broken", "absent"}]

VARIABLES config,   \* the user's file: its contents and identity
          journal,  \* the record in integration.json
          task,     \* the startup task registered with the system
          mem,      \* the ConfigJournal the process holds, with its lock
          op,       \* the file transaction under way
          ctl,      \* the controller's state after draining
          last,     \* history: the contents as the user last left them
          routeBy,  \* history: who last put our route into the file
          raced,    \* history: a save fell between a commit's check and its replacement
          budget    \* bounds: edits, faults and crashes so far

filesVars == <<config, last, routeBy, raced>>
journalVars == <<filesVars, journal, task, mem, op, ctl, budget>>

Text(c) == [c EXCEPT !.other = IF @ = "absent" THEN "none" ELSE @]
Blank == [route |-> "none", model |-> "none", tools |-> "none", other |-> "none"]
Absent == [Blank EXCEPT !.other = "absent"]
Exists(c) == c.other # "absent"

\* Nothing of ours is there yet, and a file that does not exist says nothing.
ASSUME JournalAssumption ==
  /\ Originals \subseteq {c \in Contents : /\ c.route # "ours" /\ c.tools = "none"
                                           /\ ~Exists(c) => c = Absent}
  /\ MaxEdits \in Nat /\ MaxFaults \in Nat /\ MaxCrashes \in Nat /\ MaxWeb \in Nat
-----------------------------------------------------------------------------
(* Planning, pure: codex-adapter/src/config.rs. *)

Parses(c) == c.other # "broken"
Conflicts(c) == c.route # "none" \/ c.other = "profile"

CanPlan(c) == Parses(c) /\ ~Conflicts(c)
Candidate(c) == [Text(c) EXCEPT !.route = "ours", !.tools = "ours"]

\* A saved route may be resumed after unrelated edits only.
CanResume(c) == Parses(c) /\ c.route = "ours" /\ ~Conflicts([c EXCEPT !.route = "none"])

CanUndo(c) == Parses(c) /\ c.route # "other"

\* Removes what is still ours.  The previous model comes back only if the client
\* still offers it; a changed tools entry belongs to the user.
RemoveOwned(orig, c) ==
  [Text(c) EXCEPT
     !.route = "none",
     !.model = IF @ # "ours" THEN @ ELSE IF orig.model = "native" THEN "native" ELSE "none",
     !.tools = IF @ = "ours" THEN "none" ELSE @]

\* Mutant: the saved original is put back as a whole.
RestoredOriginal(orig, c) == orig

\* A file that did not exist before is removed with its last key.
RestoredText(orig, c) ==
  LET rest == RemoveOwned(orig, c)
  IN IF \/ ~Exists(c)
        \/ ~Exists(orig) /\ rest = Blank /\ Text(c) # rest
     THEN Absent
     ELSE rest

\* The route is someone else's and no owned tools are left.
ReplacedAfterRemoval(c) == c.route = "other" /\ c.tools # "ours"
-----------------------------------------------------------------------------
Phases == {"Prepared", "ConfigApplied", "Disconnecting", "ConfigRestored"}
Undos == [before: Contents, after: Contents]
NoUndo == [before |-> Absent, after |-> [Absent EXCEPT !.route = "ours"]]

Records ==
  [phase: Phases \cup {"none"}, original: Contents, undo: Undos, catalog: BOOLEAN,
   scheduler: {"none", "planned", "registered"}, web: 0..MaxWeb]
NoJournal == [phase |-> "none", original |-> Absent, undo |-> NoUndo, catalog |-> FALSE,
              scheduler |-> "none", web |-> 0]

Files == [text: Contents, id: Nat]
NoFile == [text |-> Absent, id |-> 0]

\* `fresh`: the journal file is still the one this process last wrote or read.
\* `prepared` is the snapshot of the preflight; only the process that made it may
\* apply (`preflight`).  `held` is the web receipt the recovery controller holds.
Mems == [live: BOOLEAN, record: Records, fresh: BOOLEAN,
         preflight: BOOLEAN, prepared: Files, held: 0..MaxWeb]
NoMem == [live |-> FALSE, record |-> NoJournal, fresh |-> FALSE,
          preflight |-> FALSE, prepared |-> NoFile, held |-> 0]

\* A file transaction: what it found, what it is to leave, where it is.
Ops == [kind: {"idle", "apply", "undo", "supervise"},
        at: {"off", "register", "receipt", "plan", "check", "replace", "remove", "same",
             "read", "store"},
        snap: Files, text: Contents, id: Nat]
IdleOp == [kind |-> "idle", at |-> "off", snap |-> NoFile, text |-> Absent, id |-> 0]

JournalTypeOK ==
  /\ config \in Files
  /\ journal \in Records
  /\ task \in {"none", "ours", "changed"}
  /\ mem \in Mems
  /\ op \in Ops
  /\ ctl \in {"Idle", "Restoring", "PendingRestart", "RestoreFailed"}
  /\ last \in Contents
  /\ routeBy \in {"never", "us", "user"}
  /\ raced \in BOOLEAN
  /\ budget \in [edits: 0..MaxEdits, faults: 0..MaxFaults, crashes: 0..MaxCrashes]

\* A process that the journal's check lets write knows what is on disk.
FreshMeansSame == mem.live /\ mem.fresh => mem.record = journal

JournalInit ==
  /\ \E c \in Originals : config = [text |-> c, id |-> 0] /\ last = c
  /\ journal = NoJournal
  /\ task = "none"
  /\ mem = NoMem
  /\ op = IdleOp
  /\ ctl = "Idle"
  /\ routeBy = "never"
  /\ raced = FALSE
  /\ budget = [edits |-> 0, faults |-> 0, crashes |-> 0]
-----------------------------------------------------------------------------
(* Writing the journal: capture, stage, replace, capture again. *)

Fault == budget.faults < MaxFaults /\ budget' = [budget EXCEPT !.faults = @ + 1]

Stored(next) ==
  /\ mem.fresh
  /\ journal' = next
  /\ mem' = [mem EXCEPT !.record = next]
  /\ UNCHANGED budget

\* A journal changed under the process is not overwritten.  A write that reports
\* an error may have replaced the file: the process then knows an older one.
StoreFails(next) ==
  \/ ~mem.fresh /\ UNCHANGED <<journal, mem, budget>>
  \/ /\ mem.fresh /\ Fault
     /\ \/ UNCHANGED <<journal, mem>>
        \/ journal' = next /\ mem' = [mem EXCEPT !.fresh = FALSE]

Ready == mem.live /\ op = IdleOp
-----------------------------------------------------------------------------
(* Preparing an installation: activation.rs, lifecycle.rs register_supervisor. *)

NewRecord(c) == [NoJournal EXCEPT !.phase = "Prepared", !.original = c]

Reserve ==
  /\ ~mem.live /\ journal = NoJournal
  /\ CanPlan(config.text)
  /\ journal' = NewRecord(config.text)
  /\ \/ /\ mem' = [live |-> TRUE, record |-> journal', fresh |-> TRUE,
                   preflight |-> TRUE, prepared |-> config, held |-> 0]
        /\ UNCHANGED budget
     \/ Fault /\ UNCHANGED mem
  /\ UNCHANGED <<filesVars, task, op, ctl>>

\* PreparedInstallation::finish: an error drops the installation with its lock.
Finish(next) ==
  /\ Ready /\ mem.record.phase = "Prepared" /\ mem.preflight
  /\ \/ Stored(next)
     \/ /\ Fault /\ journal' \in {journal, next} /\ mem' = NoMem
  /\ UNCHANGED <<filesVars, task, op, ctl>>

RecordCatalog ==
  ~mem.record.catalog /\ Finish([mem.record EXCEPT !.catalog = TRUE])

RecordWeb ==
  /\ mem.record.catalog /\ mem.record.web = 0 /\ MaxWeb > 0
  /\ Finish([mem.record EXCEPT !.web = 1])

\* The plan is durable before anything is registered with the system.
PrepareScheduler ==
  /\ Ready /\ ctl = "Idle"
  /\ mem.record.phase = "Prepared" /\ mem.preflight
  /\ mem.record.catalog /\ mem.record.web > 0 /\ mem.record.scheduler = "none"
  /\ LET next == [mem.record EXCEPT !.scheduler = "planned"]
     IN \/ Stored(next) /\ op' = [IdleOp EXCEPT !.kind = "supervise", !.at = "register"]
        \/ StoreFails(next) /\ UNCHANGED op
  /\ UNCHANGED <<filesVars, task, ctl>>

\* Registration creates, never replaces; an error may leave the task behind.
RegisterTask ==
  /\ op.at = "register"
  /\ \/ /\ task = "none" /\ task' = "ours"
        /\ op' = [op EXCEPT !.at = "receipt"] /\ UNCHANGED budget
     \/ /\ task # "none" /\ op' = IdleOp /\ UNCHANGED <<task, budget>>
     \/ /\ Fault /\ op' = IdleOp
        /\ task' \in IF task = "none" THEN {"none", "ours"} ELSE {task}
  /\ UNCHANGED <<filesVars, journal, mem, ctl>>

RecordScheduler ==
  /\ op.at = "receipt"
  /\ LET next == [mem.record EXCEPT !.scheduler = "registered"]
     IN \/ task = "ours" /\ (Stored(next) \/ StoreFails(next))
        \/ task # "ours" /\ UNCHANGED <<journal, mem, budget>>
  /\ op' = IdleOp
  /\ UNCHANGED <<filesVars, task, ctl>>
-----------------------------------------------------------------------------
(* Replacing the user's file: Snapshot::stage, commit and remove. *)

\* The transaction under way gives up; a disconnect then reports RestoreFailed.
GiveUp ==
  /\ op' = IdleOp
  /\ ctl' = IF op.kind = "undo" THEN "RestoreFailed" ELSE ctl

\* Stage and compare with the snapshot.
CommitCheck ==
  /\ op.at = "check"
  /\ \/ /\ config = op.snap
        /\ op' = [op EXCEPT !.at = "replace"]
        /\ UNCHANGED <<ctl, budget>>
     \/ config # op.snap /\ GiveUp /\ UNCHANGED budget
     \/ Fault /\ GiveUp
  /\ UNCHANGED <<filesVars, journal, task, mem>>

\* Not compare-and-swap: a file that was renamed over the checked one in between
\* is replaced too.  A file that came or went makes the call fail.
CommitReplace ==
  /\ op.at = "replace"
  /\ \/ /\ Exists(config.text) = Exists(op.snap.text)
        /\ config' = [text |-> op.text, id |-> config.id + 1]
        /\ routeBy' = IF op.kind = "apply" THEN "us" ELSE routeBy
        /\ op' = [op EXCEPT !.at = "read", !.id = config.id + 1]
        /\ UNCHANGED <<last, raced, ctl, budget>>
     \/ /\ Exists(config.text) # Exists(op.snap.text)
        /\ GiveUp /\ UNCHANGED <<filesVars, budget>>
     \/ Fault /\ GiveUp /\ UNCHANGED filesVars
  /\ UNCHANGED <<journal, task, mem>>

\* Checked and deleted through one handle.
RemoveFile ==
  /\ op.at = "remove"
  /\ \/ /\ config = op.snap
        /\ config' = [text |-> Absent, id |-> config.id + 1]
        /\ op' = [op EXCEPT !.at = "read"]
        /\ UNCHANGED <<last, routeBy, raced, ctl, budget>>
     \/ config # op.snap /\ GiveUp /\ UNCHANGED <<filesVars, budget>>
     \/ Fault /\ GiveUp /\ UNCHANGED filesVars
  /\ UNCHANGED <<journal, task, mem>>

\* Nothing to write.
SameFile ==
  /\ op.at = "same"
  /\ IF config = op.snap THEN op' = [op EXCEPT !.at = "read"] /\ UNCHANGED ctl ELSE GiveUp
  /\ UNCHANGED <<filesVars, journal, task, mem, budget>>

\* What is there now must be what was meant (and the file that was put there).
ReadBack ==
  /\ op.at = "read"
  /\ IF config.text = op.text /\ op.id \in {0, config.id}
     THEN op' = [op EXCEPT !.at = "store"] /\ UNCHANGED ctl
     ELSE GiveUp
  /\ UNCHANGED <<filesVars, journal, task, mem, budget>>
-----------------------------------------------------------------------------
(* Apply: lifecycle.rs apply_prepared, config_journal.rs apply_qualified and apply. *)

\* Mutant: does not wait for the startup task that can undo the change.
ApplyUnsupervised ==
  /\ Ready /\ ctl = "Idle" /\ mem.fresh
  /\ mem.record.phase = "Prepared" /\ mem.record.catalog
  /\ mem.preflight /\ config = mem.prepared
  /\ mem' = [mem EXCEPT !.preflight = FALSE]
  /\ op' = [kind |-> "apply", at |-> "check", snap |-> mem.prepared,
            text |-> Candidate(mem.record.original), id |-> 0]
  /\ UNCHANGED <<filesVars, journal, task, ctl, budget>>

\* The snapshot of the preflight is used up whatever happens next.
ApplyStart ==
  /\ Ready /\ ctl = "Idle" /\ mem.fresh
  /\ mem.record.phase = "Prepared" /\ mem.record.catalog
  /\ mem.record.scheduler = "registered" /\ task = "ours"
  /\ mem.preflight /\ config = mem.prepared
  /\ mem' = [mem EXCEPT !.preflight = FALSE]
  /\ op' = [kind |-> "apply", at |-> "check", snap |-> mem.prepared,
            text |-> Candidate(mem.record.original), id |-> 0]
  /\ UNCHANGED <<filesVars, journal, task, ctl, budget>>

\* An error of the replacement puts the phase back; one of the capture after it
\* does not.
ApplyStore ==
  /\ op.kind = "apply" /\ op.at = "store"
  /\ LET next == [mem.record EXCEPT !.phase = "ConfigApplied"]
     IN \/ Stored(next)
        \/ StoreFails(next)
        \/ /\ mem.fresh /\ Fault /\ journal' = next
           /\ mem' = [mem EXCEPT !.record = next, !.fresh = FALSE]
  /\ op' = IdleOp
  /\ UNCHANGED <<filesVars, task, ctl>>

\* Compare-and-store of a web receipt that a qualification extended.
ExtendWeb ==
  /\ Ready /\ ctl = "Idle" /\ mem.fresh
  /\ mem.record.phase = "ConfigApplied" /\ CanResume(config.text)
  /\ mem.record.web \in 1..(MaxWeb - 1) /\ mem.held = mem.record.web
  /\ LET next == [mem.record EXCEPT !.web = @ + 1]
     IN \/ /\ journal' = next /\ UNCHANGED budget
           /\ mem' = [mem EXCEPT !.record = next, !.held = next.web]
        \/ StoreFails(next)
  /\ UNCHANGED <<filesVars, task, op, ctl>>
-----------------------------------------------------------------------------
(* Disconnect: lifecycle.rs run after draining, config_journal.rs disconnect. *)

UndoStep(at) == [kind |-> "undo", at |-> at, snap |-> config, text |-> Absent, id |-> 0]

\* Mutant: a removal that was begun and interrupted is not taken up again.
DisconnectOnce ==
  /\ Ready
  /\ LET undo == mem.record.undo
     IN \/ /\ undo # NoUndo /\ config.text = undo.after
           /\ op' = [UndoStep("store") EXCEPT !.text = undo.after]
           /\ ctl' = "Restoring"
        \/ /\ undo = NoUndo \/ config.text # undo.after
           /\ IF mem.record.phase \in {"Prepared", "ConfigApplied"} /\ mem.fresh
                 /\ CanUndo(config.text)
              THEN op' = UndoStep("plan") /\ ctl' = "Restoring"
              ELSE UNCHANGED op /\ ctl' = "RestoreFailed"
  /\ UNCHANGED <<filesVars, journal, task, mem, budget>>

\* The recorded result is on disk already; or the removal was completed once and
\* the file is different now; or a fresh plan is made against the current file.
DisconnectStart ==
  /\ Ready
  /\ LET undo == mem.record.undo
     IN \/ /\ undo # NoUndo /\ config.text = undo.after
           /\ op' = [UndoStep("store") EXCEPT !.text = undo.after]
           /\ ctl' = "Restoring"
        \/ /\ undo = NoUndo \/ config.text # undo.after
           /\ IF mem.record.phase # "ConfigRestored" /\ mem.fresh /\ CanUndo(config.text)
              THEN op' = UndoStep("plan") /\ ctl' = "Restoring"
              ELSE UNCHANGED op /\ ctl' = "RestoreFailed"
  /\ UNCHANGED <<filesVars, journal, task, mem, budget>>

\* prepare_disconnect: the plan is durable before the file is touched.
DisconnectPlan ==
  /\ op.at = "plan"
  /\ LET before == op.snap.text
         after == RestoredText(mem.record.original, before)
         next == [mem.record EXCEPT !.phase = "Disconnecting",
                                    !.undo = [before |-> before, after |-> after]]
         way == IF Exists(after) /\ after # before THEN "check"
                ELSE IF ~Exists(after) /\ Exists(before) THEN "remove" ELSE "same"
     IN \/ /\ mem.fresh /\ journal' = next
           /\ mem' = [mem EXCEPT !.record = next, !.preflight = FALSE]
           /\ op' = [op EXCEPT !.at = way, !.text = after]
           /\ UNCHANGED <<ctl, budget>>
        \/ /\ Fault
           /\ \E replaced \in BOOLEAN :
                /\ journal' = IF replaced THEN next ELSE journal
                /\ mem' = [mem EXCEPT !.fresh = @ /\ ~replaced, !.preflight = FALSE]
           /\ GiveUp
  /\ UNCHANGED <<filesVars, task>>

DisconnectStore ==
  /\ op.kind = "undo" /\ op.at = "store"
  /\ LET next == [mem.record EXCEPT !.phase = "ConfigRestored"]
     IN \/ Stored(next) /\ op' = IdleOp /\ ctl' = "PendingRestart"
        \/ StoreFails(next) /\ GiveUp
  /\ UNCHANGED <<filesVars, task>>
-----------------------------------------------------------------------------
(* The process and the user. *)

\* ConfigJournal::reopen refuses a record that it could not have written.
ValidRecord(r) ==
  /\ r.phase # "none"
  /\ CanPlan(r.original)
  /\ IF r.phase \in {"Prepared", "ConfigApplied"}
     THEN r.undo = NoUndo
     ELSE /\ r.undo # NoUndo /\ CanUndo(r.undo.before)
          /\ r.undo.after = RestoredText(r.original, r.undo.before)

\* Mutant: a new process may apply what an earlier one prepared.
ReopenPrepared ==
  /\ ~mem.live /\ task # "none"
  /\ ValidRecord(journal) /\ journal.catalog
  /\ mem' = [live |-> TRUE, record |-> journal, fresh |-> TRUE,
             preflight |-> TRUE, prepared |-> config, held |-> journal.web]
  /\ ctl' = "Idle"
  /\ UNCHANGED <<filesVars, journal, task, op, budget>>

\* Host::recover, started by the startup task.  An earlier process has to be gone
\* (its lock).  Nothing prepared is ever taken up again.
Reopen ==
  /\ ~mem.live /\ task # "none"
  /\ ValidRecord(journal) /\ journal.catalog
  /\ mem' = [live |-> TRUE, record |-> journal, fresh |-> TRUE,
             preflight |-> FALSE, prepared |-> NoFile, held |-> journal.web]
  /\ ctl' = IF journal.phase # "ConfigRestored" THEN "Idle"
            ELSE IF config.text = journal.undo.after THEN "PendingRestart" ELSE "RestoreFailed"
  /\ UNCHANGED <<filesVars, journal, task, op, budget>>

Crash ==
  /\ mem.live /\ budget.crashes < MaxCrashes
  /\ mem' = NoMem /\ op' = IdleOp /\ ctl' = "Idle"
  /\ budget' = [budget EXCEPT !.crashes = @ + 1]
  /\ UNCHANGED <<filesVars, journal, task>>

\* One edit of the user, of an editor or of the client's model picker.  Our keys can
\* be put back from an old buffer once they have been in the file.
Edits(c) ==
  LET known == IF routeBy = "never" THEN {} ELSE {"ours"}
  IN IF ~Exists(c) THEN {[Blank EXCEPT !.other = "text"], [Blank EXCEPT !.route = "other"]}
     ELSE ({Absent}
           \cup {[c EXCEPT !.route = r] : r \in {"none", "other"} \cup known}
           \cup {[c EXCEPT !.model = m] : m \in {"none", "native", "ours"}}
           \cup {[c EXCEPT !.tools = t] : t \in {"none"} \cup known}
           \cup {[c EXCEPT !.tools = "edited"] : t \in {c.tools} \cap {"ours"}}
           \cup {[c EXCEPT !.other = o] : o \in {"none", "text", "profile", "broken"}})
          \ {c}

\* A save in place keeps the identity; it is denied while a commit holds the file.
UserEdit ==
  /\ budget.edits < MaxEdits
  /\ \E c \in Edits(config.text), renamed \in BOOLEAN :
       /\ (op.at = "replace" /\ Exists(config.text)) => renamed
       /\ config' = [text |-> c, id |-> IF renamed THEN config.id + 1 ELSE config.id]
       /\ last' = c
       /\ routeBy' = IF c.route = "ours" /\ config.text.route # "ours" THEN "user" ELSE routeBy
  /\ budget' = [budget EXCEPT !.edits = @ + 1]
  /\ raced' = (raced \/ op.at = "replace")
  /\ UNCHANGED <<journal, task, mem, op, ctl>>

UserChangesTask ==
  /\ task = "ours" /\ task' \in {"none", "changed"}
  /\ budget.edits < MaxEdits
  /\ budget' = [budget EXCEPT !.edits = @ + 1]
  /\ UNCHANGED <<filesVars, journal, mem, op, ctl>>
-----------------------------------------------------------------------------
\* Once begun, an operation runs to its end or to the end of the process.
Continue ==
  \/ RegisterTask \/ RecordScheduler
  \/ CommitCheck \/ CommitReplace \/ RemoveFile \/ SameFile \/ ReadBack
  \/ ApplyStore \/ DisconnectPlan \/ DisconnectStore

JournalNext ==
  \/ Reserve \/ RecordCatalog \/ RecordWeb \/ PrepareScheduler
  \/ ApplyStart \/ ExtendWeb \/ DisconnectStart
  \/ Continue
  \/ Reopen \/ Crash \/ UserEdit \/ UserChangesTask

JournalSpec == JournalInit /\ [][JournalNext]_journalVars

\* The runtime finishes what it has begun, the startup task starts a process when
\* there is none, and a user who disconnects asks again after a failure.
JournalFairness ==
  /\ WF_journalVars(Continue)
  /\ WF_journalVars(Reopen)
  /\ WF_journalVars(DisconnectStart)
-----------------------------------------------------------------------------
(* Discovery by the control window and the uninstaller: attachment_target. *)

ControlFinds ==
  /\ journal # NoJournal
  /\ ~(journal.phase = "Prepared" /\ journal.web = 0 /\ journal.scheduler = "none")

\* Mutant: a closed record is passed over without a look at the file.
UninstallTrustsRecord == ControlFinds /\ journal.phase # "ConfigRestored"

\* TRUE also when the uninstaller reports an error for this installation.
UninstallFinds ==
  /\ ControlFinds
  /\ ~ /\ journal.phase = "ConfigRestored" /\ journal.catalog /\ Parses(config.text)
       /\ \/ ReplacedAfterRemoval(config.text)
          \/ /\ CanUndo(config.text)
             /\ RestoredText(journal.original, config.text) = config.text
-----------------------------------------------------------------------------
(* Properties. *)

\* The route that we put into the file.
Owned == config.text.route = "ours" /\ routeBy = "us"

\* Whenever the process ends, what it exposed can be taken back: the route is in the
\* file only while a record that reopens says how to remove it and has not been
\* closed, its catalog is recorded and a startup task was registered; no task exists
\* without its plan.
ExposureIsRecorded ==
  /\ Owned => /\ ValidRecord(journal) /\ journal.phase # "ConfigRestored"
              /\ journal.catalog /\ journal.scheduler = "registered"
  /\ task # "none" => journal.scheduler # "none"

\* c is the user's text l but for keys of ours that were added or removed, and for
\* the model, which a removal puts back when ours was selected.
OursAside(v) == IF v = "ours" THEN "none" ELSE v
Kept(l, c) ==
  /\ OursAside(c.route) = OursAside(l.route)
  /\ OursAside(c.tools) = OursAside(l.tools)
  /\ \/ c.model = l.model
     \/ l.model = "ours" /\ c.model \in {journal.original.model, "none"}
  /\ c.other = l.other \/ {c.other, l.other} = {"none", "absent"}

\* Nothing of the user's is lost or brought back, however old the journal's plan is,
\* unless the user's save fell into the interval between a commit's check and its
\* replacement, which the code cannot close ("not filesystem CAS").
UserTextSurvives == raced \/ Kept(last, config.text)

\* The uninstaller never passes over an installation with a key of ours in the file.
UninstallMissesNothing ==
  routeBy # "never" /\ (config.text.route = "ours" \/ config.text.tools = "ours")
    => UninstallFinds

\* The two together: what was exposed is neither forgotten by a crash nor overlooked.
NoKeyIsForgotten == ExposureIsRecorded /\ UninstallMissesNothing

\* Preparing, applying and removing implement the undo log.
Undo == INSTANCE UndoLog WITH
  logged <- journal # NoJournal,
  exposed <- Owned,
  spent <- routeBy # "never",
  closing <- journal.phase \in {"Disconnecting", "ConfigRestored"},
  closed <- journal.phase = "ConfigRestored"
KeepsUndoLog == Undo!Spec

\* A user who goes on asking gets rid of the route, unless the file cannot be
\* parsed, the process has lost track of its journal, or nothing starts a process.
Obstacle ==
  \/ ~Parses(config.text)
  \/ mem.live /\ ~mem.fresh
  \/ ~mem.live /\ task = "none"
RouteGoesAway == <>[](Owned => Obstacle)
=============================================================================
