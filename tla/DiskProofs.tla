------------------------------ MODULE DiskProofs ------------------------------
(***************************************************************************)
(* What the records on disk guarantee whatever crash, failure or foreign    *)
(* writer comes between two steps: the configuration journal, the           *)
(* uninstaller, the update of the installed programs and the journal of a   *)
(* qualification run, for every value of their constants.                   *)
(***************************************************************************)
EXTENDS ConfigJournal, QualityRun, RuntimeUpdate, Uninstall, FiniteSetTheorems, TLAPS

-----------------------------------------------------------------------------
\* The configuration journal.
\* What a record says fits together, and it comes from a file that had nothing of ours.
Sound(r) == ValidRecord(r) /\ r.original.tools = "none"

\* A process has a sound record of the installation on disk, the journal's own while it is
\* fresh; without a process nothing is under way.
ProcessFits ==
  /\ ~mem.live => mem = NoMem /\ op = IdleOp
  /\ mem.live => /\ Sound(mem.record) /\ journal # NoJournal
                 /\ mem.record.original = journal.original
                 /\ mem.fresh => mem.record = journal

\* Before anything is prepared the file is as the user left it; our keys get into it only
\* after the startup task was recorded, and an absent file has none.
FileFits ==
  /\ journal = NoJournal => /\ routeBy = "never" /\ task = "none"
                           /\ config.text = last /\ config.text.tools = "none"
  /\ journal # NoJournal => Sound(journal)
  /\ routeBy = "never" => config.text.route # "ours" /\ config.text.tools # "ours"
  /\ routeBy # "never" => journal.catalog /\ journal.scheduler = "registered"
  /\ ~Exists(config.text) => config.text = Absent

\* The preflight's snapshot is of the original, and has not been used.
PreflightFits ==
  mem.preflight =>
    /\ routeBy = "never"
    /\ mem.record.phase = "Prepared" /\ mem.prepared.text = mem.record.original
    /\ ~mem.fresh => mem.record.catalog /\ mem.record.web > 0

\* What a registration, an application or a removal under way has made sure of.
SuperviseFits ==
  op.kind = "supervise" =>
    /\ op.at \in {"register", "receipt"}
    /\ mem.fresh /\ mem.preflight
    /\ mem.record.catalog /\ mem.record.web > 0 /\ mem.record.scheduler = "planned"
ApplyFits ==
  op.kind = "apply" =>
    /\ op.at \in {"check", "replace", "read", "store"}
    /\ mem.fresh /\ ~mem.preflight
    /\ mem.record.phase = "Prepared" /\ mem.record.catalog /\ mem.record.scheduler = "registered"
    /\ op.snap.text = mem.record.original /\ op.text = Candidate(mem.record.original)
    /\ op.at \in {"check", "replace"} => routeBy = "never"
UndoFits ==
  op.kind = "undo" =>
    /\ op.at \in {"plan", "check", "replace", "remove", "same", "read", "store"}
    /\ op.at = "plan" => /\ mem.fresh /\ mem.record.phase # "ConfigRestored"
                         /\ CanUndo(op.snap.text)
                         /\ ~Exists(op.snap.text) => op.snap.text = Absent
    /\ op.at # "plan" => /\ mem.record.phase \in {"Disconnecting", "ConfigRestored"}
                         /\ op.text.route = "none"
    /\ op.at \in {"check", "replace", "remove", "same", "read"} =>
         /\ mem.fresh /\ mem.record.phase = "Disconnecting"
         /\ CanUndo(op.snap.text)
         /\ ~Exists(op.snap.text) => op.snap.text = Absent
         /\ op.text = RestoredText(mem.record.original, op.snap.text)
    /\ op.at = "remove" => op.text = Absent
    /\ op.at \in {"check", "replace"} => Exists(op.text)
    /\ op.at = "store" => ~Owned
IdleFits == op.kind = "idle" <=> op.at = "off"

\* A commit that nobody interfered with replaces what it checked.
ReplacesTheChecked == op.at = "replace" /\ ~raced => config = op.snap

JournalInv ==
  /\ JournalTypeOK
  /\ ProcessFits /\ FileFits /\ PreflightFits
  /\ SuperviseFits /\ ApplyFits /\ UndoFits /\ IdleFits
  /\ ReplacesTheChecked
  /\ ExposureIsRecorded /\ UserTextSurvives

-----------------------------------------------------------------------------
(* Planning. *)

LEMMA CandidateIsOurs ==
  ASSUME NEW c \in Contents
  PROVE  /\ Candidate(c) \in Contents /\ Exists(Candidate(c))
         /\ Candidate(c).route = "ours" /\ Candidate(c).tools = "ours"
         /\ Candidate(c).model = c.model
         /\ c.other # "absent" => Candidate(c).other = c.other
         /\ c.other = "absent" => Candidate(c).other = "none"
BY DEF Candidate, Text, Contents, Exists

LEMMA RemovedIsNotOurs ==
  ASSUME NEW o \in Contents, NEW c \in Contents
  PROVE  /\ RemoveOwned(o, c) \in Contents /\ Exists(RemoveOwned(o, c))
         /\ RemoveOwned(o, c).route = "none"
         /\ RemoveOwned(o, c).tools = (IF c.tools = "ours" THEN "none" ELSE c.tools)
         /\ c.model # "ours" => RemoveOwned(o, c).model = c.model
         /\ c.model = "ours" => RemoveOwned(o, c).model \in {o.model, "none"} \ {"ours"}
         /\ c.other # "absent" => RemoveOwned(o, c).other = c.other
         /\ c.other = "absent" => RemoveOwned(o, c).other = "none"
<1> DEFINE t == Text(c)
           back == IF o.model = "native" THEN "native" ELSE "none"
<1>1. /\ t \in Contents /\ t.other # "absent"
      /\ t.tools = c.tools /\ t.model = c.model
      /\ c.other # "absent" => t.other = c.other
      /\ c.other = "absent" => t.other = "none"
  BY DEF Text, Contents
<1>2. RemoveOwned(o, c) = [t EXCEPT !.route = "none", !.model = IF @ # "ours" THEN @ ELSE back,
                                    !.tools = IF @ = "ours" THEN "none" ELSE @]
  BY DEF RemoveOwned
<1>3. back \in {o.model, "none"} \ {"ours"} /\ back \in {"native", "none"}
  OBVIOUS
<1> HIDE DEF t, back
<1>4. /\ RemoveOwned(o, c) \in Contents /\ RemoveOwned(o, c).route = "none"
      /\ RemoveOwned(o, c).tools = (IF t.tools = "ours" THEN "none" ELSE t.tools)
      /\ RemoveOwned(o, c).model = (IF t.model # "ours" THEN t.model ELSE back)
      /\ RemoveOwned(o, c).other = t.other
  BY ZenonT(60), <1>1, <1>2, <1>3 DEF Contents
<1> QED
  BY <1>1, <1>3, <1>4 DEF Exists

LEMMA AbsentIsEmpty == /\ Absent \in Contents /\ Blank \in Contents /\ ~Exists(Absent)
                       /\ Absent.route = "none" /\ Absent.model = "none"
                       /\ Absent.tools = "none" /\ Absent.other = "absent"
                       /\ Blank.route = "none" /\ Blank.model = "none"
                       /\ Blank.tools = "none" /\ Blank.other = "none"
BY DEF Absent, Blank, Contents, Exists

LEMMA RestoredIsNotOurs ==
  ASSUME NEW o \in Contents, NEW c \in Contents
  PROVE  /\ RestoredText(o, c) \in Contents
         /\ RestoredText(o, c).route = "none" /\ RestoredText(o, c).tools # "ours"
         /\ ~Exists(RestoredText(o, c)) => RestoredText(o, c) = Absent
<1> DEFINE rest == RemoveOwned(o, c)
<1>1. RestoredText(o, c) = Absent \/ RestoredText(o, c) = rest
  BY DEF RestoredText
<1>2. rest \in Contents /\ Exists(rest) /\ rest.route = "none" /\ rest.tools # "ours"
  BY RemovedIsNotOurs
<1> QED
  BY <1>1, <1>2, AbsentIsEmpty

\* A removal keeps what is the user's.
LEMMA RestoringKeeps ==
  ASSUME NEW l \in Contents, NEW c \in Contents, journal.original \in Contents,
         Kept(l, c), CanUndo(c), ~Exists(c) => c = Absent
  PROVE  Kept(l, RestoredText(journal.original, c))
<1> DEFINE o == journal.original
           rest == RemoveOwned(o, c)
<1>1. c.route \in {"none", "ours"}
  BY DEF CanUndo, Contents
<1>2. Kept(l, rest)
  BY <1>1, RemovedIsNotOurs DEF Kept, OursAside, Contents
<1>3. CASE ~Exists(c)
  BY <1>3 DEF RestoredText
<1>4. CASE Exists(c) /\ ~Exists(o) /\ rest = Blank
  <2>1. Kept(l, Blank)
    BY <1>2, <1>4
  <2>2. c.other # "absent" /\ rest.other = c.other
    BY <1>4, RemovedIsNotOurs DEF Exists
  <2>3. Kept(l, Absent)
    BY <2>1, AbsentIsEmpty DEF Kept
  <2> QED
    BY <2>1, <2>3, <1>2 DEF RestoredText
<1> QED
  BY <1>2, <1>3, <1>4 DEF RestoredText

\* The candidate of a file that had nothing of ours keeps what is the user's.
LEMMA CandidateKeeps ==
  ASSUME NEW l \in Contents, NEW c \in Contents, Kept(l, c), CanPlan(c), c.tools = "none"
  PROVE  Kept(l, Candidate(c))
BY CandidateIsOurs DEF Kept, OursAside, CanPlan, Conflicts, Contents

\* What is written over a sound record is sound.
LEMMA RecordsStaySound ==
  ASSUME NEW r \in Records, Sound(r)
  PROVE  /\ r # NoJournal /\ r.original \in Contents
         /\ r.phase \in {"Prepared", "ConfigApplied"} <=> r.undo = NoUndo
         /\ r.phase \in Phases
         /\ Sound([r EXCEPT !.catalog = TRUE]) /\ Sound([r EXCEPT !.web = 1])
         /\ Sound([r EXCEPT !.web = @ + 1])
         /\ Sound([r EXCEPT !.scheduler = "planned"])
         /\ Sound([r EXCEPT !.scheduler = "registered"])
         /\ r.phase = "Prepared" => Sound([r EXCEPT !.phase = "ConfigApplied"])
         /\ r.phase \in {"Disconnecting", "ConfigRestored"} =>
              /\ Sound([r EXCEPT !.phase = "ConfigRestored"])
              /\ r.undo.after.route = "none"
BY RestoredIsNotOurs DEF Records, Sound, ValidRecord, NoJournal, Phases, Undos

LEMMA ClosingIsSound ==
  ASSUME NEW r \in Records, Sound(r), NEW c \in Contents, CanUndo(c)
  PROVE  LET next == [r EXCEPT !.phase = "Disconnecting",
                               !.undo = [before |-> c, after |-> RestoredText(r.original, c)]]
         IN Sound(next) /\ next \in Records
<1>1. RestoredText(r.original, c) \in Contents /\ RestoredText(r.original, c).route = "none"
  BY RestoredIsNotOurs DEF Records
<1>2. [before |-> c, after |-> RestoredText(r.original, c)] # NoUndo
  BY <1>1, AbsentIsEmpty DEF NoUndo, Contents
<1> QED
  BY <1>1, <1>2 DEF Records, Sound, ValidRecord, Undos, Phases

LEMMA NoJournalIsRecord == NoJournal \in Records
<1>1. NoUndo \in Undos
  BY DEF NoUndo, Undos, Contents, Absent, Blank
<1> QED
  BY <1>1, AbsentIsEmpty, JournalAssumption DEF NoJournal, Records, Phases

LEMMA NewRecordIsSound ==
  ASSUME NEW c \in Contents, CanPlan(c), c.tools = "none"
  PROVE  /\ NewRecord(c) \in Records /\ Sound(NewRecord(c))
         /\ NewRecord(c).phase = "Prepared" /\ NewRecord(c).original = c
         /\ ~NewRecord(c).catalog /\ NewRecord(c).scheduler = "none" /\ NewRecord(c).web = 0
<1>1. /\ NewRecord(c) \in Records /\ NewRecord(c).phase = "Prepared" /\ NewRecord(c).original = c
      /\ NewRecord(c).undo = NoUndo /\ NewRecord(c).scheduler = "none" /\ NewRecord(c).web = 0
      /\ NewRecord(c).catalog = FALSE
  BY NoJournalIsRecord DEF NewRecord, NoJournal, Records, Phases
<1> QED
  BY <1>1 DEF Sound, ValidRecord


-----------------------------------------------------------------------------
(* What the steps share. *)

LEMMA FaultIsCounted ==
  ASSUME JournalTypeOK, Fault
  PROVE  budget' \in [edits: 0..MaxEdits, faults: 0..MaxFaults, crashes: 0..MaxCrashes]
BY JournalAssumption DEF JournalTypeOK, Fault

LEMMA IdleIsAnOp == IdleOp \in Ops
BY AbsentIsEmpty DEF Ops, IdleOp, NoFile, Files

LEMMA OpsMove ==
  ASSUME NEW o \in Ops
  PROVE  /\ IdleOp \in Ops
         /\ \A at \in {"off", "register", "receipt", "plan", "check", "replace", "remove", "same",
                       "read", "store"} : [o EXCEPT !.at = at] \in Ops
         /\ \A at \in {"off", "register", "receipt", "plan", "check", "replace", "remove", "same",
                       "read", "store"} : \A i \in Nat : [o EXCEPT !.at = at, !.id = i] \in Ops
         /\ \A at \in {"off", "register", "receipt", "plan", "check", "replace", "remove", "same",
                       "read", "store"} : \A c \in Contents : [o EXCEPT !.at = at, !.text = c] \in Ops
BY AbsentIsEmpty DEF Ops, IdleOp, NoFile, Files

LEMMA MemsChange ==
  ASSUME NEW m \in Mems, NEW r \in Records
  PROVE  /\ [m EXCEPT !.record = r] \in Mems
         /\ [m EXCEPT !.fresh = FALSE] \in Mems
         /\ [m EXCEPT !.preflight = FALSE] \in Mems
         /\ [m EXCEPT !.record = r, !.fresh = FALSE] \in Mems
         /\ [m EXCEPT !.record = r, !.preflight = FALSE] \in Mems
         /\ \A w \in 0..MaxWeb : [m EXCEPT !.record = r, !.held = w] \in Mems
         /\ \A b \in BOOLEAN : [m EXCEPT !.fresh = b, !.preflight = FALSE] \in Mems
BY DEF Mems

LEMMA NothingIsHeld == NoMem \in Mems
<1>1. NoJournal \in Records
  BY NoJournalIsRecord
<1> QED
  BY <1>1, AbsentIsEmpty, JournalAssumption DEF NoMem, Mems, NoFile, Files

\* A record that says no less takes the journal's place, or does not.
LEMMA WritingKeeps ==
  ASSUME JournalInv, mem.live,
         NEW next \in Records, Sound(next), next.original = mem.record.original,
         mem.record.catalog => next.catalog,
         mem.record.scheduler # "none" => next.scheduler # "none",
         mem.record.scheduler = "registered" => next.scheduler = "registered",
         Owned => next.phase # "ConfigRestored",
         journal' = journal \/ (mem.fresh /\ journal' = next), UNCHANGED <<filesVars, task>>
  PROVE  /\ journal' \in Records /\ journal' # NoJournal /\ journal'.original = mem.record.original
         /\ FileFits' /\ ExposureIsRecorded' /\ UserTextSurvives'
<1>1. /\ mem.fresh => journal = mem.record
      /\ mem.record.original = journal.original
      /\ Sound(journal) /\ journal # NoJournal /\ journal \in Records
  BY DEF JournalInv, ProcessFits, FileFits, JournalTypeOK
<1>2. /\ journal' \in Records /\ Sound(journal') /\ journal' # NoJournal
      /\ journal'.original = journal.original
  BY <1>1, RecordsStaySound
<1>3. FileFits'
  BY <1>1, <1>2 DEF JournalInv, FileFits, filesVars
<1>4. ExposureIsRecorded'
  BY <1>1, <1>2 DEF JournalInv, ExposureIsRecorded, Owned, filesVars, Sound
<1>5. UserTextSurvives'
  BY <1>2 DEF JournalInv, UserTextSurvives, Kept, filesVars
<1> QED
  BY <1>1, <1>2, <1>3, <1>4, <1>5

\* A write of the journal succeeds, changes nothing, or leaves a process that is behind.
LEMMA StoringEnds ==
  ASSUME NEW next \in Records, mem \in Mems, Stored(next) \/ StoreFails(next)
  PROVE  /\ \/ journal' = journal /\ mem' = mem
            \/ mem.fresh /\ journal' = next /\ mem' = [mem EXCEPT !.record = next]
            \/ mem.fresh /\ journal' = next /\ mem' = [mem EXCEPT !.fresh = FALSE]
         /\ UNCHANGED budget \/ Fault
         /\ Stored(next) => /\ mem.fresh /\ journal' = next
                            /\ mem' = [mem EXCEPT !.record = next]
BY DEF Stored, StoreFails


LEMMA ReserveKeeps ==
  ASSUME JournalInv, Reserve
  PROVE  JournalInv'
<1> USE JournalAssumption DEF JournalInv, filesVars
<1> DEFINE new == NewRecord(config.text)
<1>a. /\ config \in Files /\ config.text \in Contents /\ CanPlan(config.text)
      /\ config.text.tools = "none" /\ op = IdleOp /\ mem = NoMem /\ routeBy = "never"
      /\ config.text = last /\ last \in Contents
  BY DEF JournalTypeOK, Files, FileFits, ProcessFits, Reserve
<1>b. /\ new \in Records /\ Sound(new) /\ new.phase = "Prepared" /\ new.original = config.text
      /\ ~new.catalog /\ new.scheduler = "none" /\ new.web = 0 /\ new # NoJournal
  BY <1>a, NewRecordIsSound, RecordsStaySound
<1> HIDE DEF new
<1>d. /\ journal' = new /\ UNCHANGED filesVars /\ UNCHANGED <<task, op, ctl>>
      /\ UNCHANGED budget \/ Fault
      /\ \/ mem' = [live |-> TRUE, record |-> new, fresh |-> TRUE, preflight |-> TRUE,
                    prepared |-> config, held |-> 0]
         \/ mem' = mem
  BY DEF new, Reserve
<1>e. mem' \in Mems
  <2>1. 0 \in 0..MaxWeb
    OBVIOUS
  <2>2. [live |-> TRUE, record |-> new, fresh |-> TRUE, preflight |-> TRUE, prepared |-> config,
         held |-> 0] \in Mems
    BY <1>a, <1>b, <2>1, Zenon DEF Mems
  <2> QED
    BY <1>a, <1>d, <2>2, NothingIsHeld
<1>f. mem' # NoMem => /\ mem'.live /\ mem'.record = new /\ mem'.fresh /\ mem'.prepared = config
  BY <1>a, <1>d
<1>1. JournalTypeOK'
  <2>1. budget' \in [edits: 0..MaxEdits, faults: 0..MaxFaults, crashes: 0..MaxCrashes]
    BY <1>d, FaultIsCounted DEF JournalTypeOK
  <2> QED
    BY <1>b, <1>d, <1>e, <2>1 DEF JournalTypeOK
<1>2. ProcessFits'
  BY <1>a, <1>b, <1>d, <1>f DEF ProcessFits, NoMem
<1>3. FileFits'
  BY <1>a, <1>b, <1>d DEF FileFits, filesVars
<1>4. PreflightFits'
  BY <1>a, <1>b, <1>d, <1>f DEF PreflightFits, NoMem, filesVars
<1>5. SuperviseFits'
  BY <1>a, <1>d DEF SuperviseFits, IdleOp
<1>6. ApplyFits'
  BY <1>a, <1>d DEF ApplyFits, IdleOp
<1>7. UndoFits'
  BY <1>a, <1>d DEF UndoFits, IdleOp
<1>8. IdleFits'
  BY <1>a, <1>d DEF IdleFits, IdleOp
<1>9. ReplacesTheChecked'
  BY <1>a, <1>d DEF ReplacesTheChecked, IdleOp
<1>10. ExposureIsRecorded'
  <2>1. task = "none" /\ ~Owned
    BY <1>a DEF FileFits, Owned, Reserve
  <2> QED
    BY <1>d, <2>1 DEF ExposureIsRecorded, Owned, filesVars
<1>11. UserTextSurvives'
  BY <1>a, <1>d DEF UserTextSurvives, Kept, Contents, filesVars
<1> QED
  BY <1>1, <1>2, <1>3, <1>4, <1>5, <1>6, <1>7, <1>8, <1>9, <1>10, <1>11

LEMMA RecordCatalogKeeps ==
  ASSUME JournalInv, RecordCatalog
  PROVE  JournalInv'
<1> USE JournalAssumption DEF JournalInv, filesVars
<1> DEFINE next == [mem.record EXCEPT !.catalog = TRUE]
<1>a. /\ mem \in Mems /\ mem.record \in Records /\ Sound(mem.record) /\ mem.fresh
      /\ journal = mem.record /\ mem.live
  BY DEF JournalTypeOK, Mems, ProcessFits, PreflightFits, RecordCatalog, Finish, Ready
<1>b. next \in Records
  BY <1>a, JournalAssumption DEF Records, RecordCatalog
<1>c. /\ Sound(next) /\ next.original = mem.record.original /\ next # NoJournal
      /\ next.phase = mem.record.phase /\ next.scheduler = mem.record.scheduler
      /\ mem.record.catalog => next.catalog
  BY <1>a, <1>b, RecordsStaySound DEF Records
<1> HIDE DEF next
<1>d. /\ journal' \in {journal, next} /\ UNCHANGED <<filesVars, task, op, ctl>>
      /\ mem' = NoMem \/ (mem' = [mem EXCEPT !.record = next] /\ journal' = next)
      /\ mem.record.phase = "Prepared" /\ mem.preflight /\ op = IdleOp
      /\ UNCHANGED budget \/ Fault
  <2>1. Finish(next)
    BY DEF next, RecordCatalog
  <2> QED
    BY <2>1 DEF Finish, Stored, Ready
<1>e. mem' = NoMem \/ /\ mem'.record = next /\ mem'.live = mem.live /\ mem'.fresh = mem.fresh
                      /\ mem'.preflight = mem.preflight /\ mem'.prepared = mem.prepared
  BY <1>a, <1>d DEF Mems
<1>f. mem'.preflight => mem' # NoMem
  BY DEF NoMem
<1>g. Owned => next.phase # "ConfigRestored"
  BY <1>c, <1>d
<1>h. /\ journal' \in Records /\ journal' # NoJournal /\ journal'.original = mem.record.original
      /\ FileFits' /\ ExposureIsRecorded' /\ UserTextSurvives'
  BY <1>a, <1>b, <1>c, <1>d, <1>g, WritingKeeps
<1>1. JournalTypeOK'
  <2>1. mem' \in Mems
    BY <1>a, <1>b, <1>d, MemsChange, NothingIsHeld
  <2>2. budget' \in [edits: 0..MaxEdits, faults: 0..MaxFaults, crashes: 0..MaxCrashes]
    BY <1>d, FaultIsCounted DEF JournalTypeOK
  <2> QED
    BY <1>d, <1>h, <2>1, <2>2 DEF JournalTypeOK
<1>2. ProcessFits'
  <2>1. CASE mem' = NoMem
    BY <1>d, <2>1 DEF ProcessFits, NoMem
  <2>2. CASE mem' # NoMem
    BY <1>a, <1>c, <1>d, <1>e, <2>2 DEF ProcessFits
  <2> QED
    BY <2>1, <2>2
<1>3. FileFits'
  BY <1>h
<1>4. PreflightFits'
  BY <1>a, <1>c, <1>d, <1>e, <1>f DEF PreflightFits
<1>5. SuperviseFits'
  BY <1>d DEF SuperviseFits, IdleOp
<1>6. ApplyFits'
  BY <1>d DEF ApplyFits, IdleOp
<1>7. UndoFits'
  BY <1>d DEF UndoFits, IdleOp
<1>8. IdleFits'
  BY <1>d DEF IdleFits, filesVars
<1>9. ReplacesTheChecked'
  BY <1>d DEF ReplacesTheChecked, filesVars
<1>10. ExposureIsRecorded'
  BY <1>h
<1>11. UserTextSurvives'
  BY <1>h
<1> QED
  BY <1>1, <1>2, <1>3, <1>4, <1>5, <1>6, <1>7, <1>8, <1>9, <1>10, <1>11

LEMMA RecordWebKeeps ==
  ASSUME JournalInv, RecordWeb
  PROVE  JournalInv'
<1> USE JournalAssumption DEF JournalInv, filesVars
<1> DEFINE next == [mem.record EXCEPT !.web = 1]
<1>a. /\ mem \in Mems /\ mem.record \in Records /\ Sound(mem.record) /\ mem.fresh
      /\ journal = mem.record /\ mem.live
  BY DEF JournalTypeOK, Mems, ProcessFits, PreflightFits, RecordWeb, Finish, Ready
<1>b. next \in Records
  BY <1>a, JournalAssumption DEF Records, RecordWeb
<1>c. /\ Sound(next) /\ next.original = mem.record.original /\ next # NoJournal
      /\ next.phase = mem.record.phase /\ next.scheduler = mem.record.scheduler
      /\ mem.record.catalog => next.catalog
  BY <1>a, <1>b, RecordsStaySound DEF Records
<1> HIDE DEF next
<1>d. /\ journal' \in {journal, next} /\ UNCHANGED <<filesVars, task, op, ctl>>
      /\ mem' = NoMem \/ (mem' = [mem EXCEPT !.record = next] /\ journal' = next)
      /\ mem.record.phase = "Prepared" /\ mem.preflight /\ op = IdleOp
      /\ UNCHANGED budget \/ Fault
  <2>1. Finish(next)
    BY DEF next, RecordWeb
  <2> QED
    BY <2>1 DEF Finish, Stored, Ready
<1>e. mem' = NoMem \/ /\ mem'.record = next /\ mem'.live = mem.live /\ mem'.fresh = mem.fresh
                      /\ mem'.preflight = mem.preflight /\ mem'.prepared = mem.prepared
  BY <1>a, <1>d DEF Mems
<1>f. mem'.preflight => mem' # NoMem
  BY DEF NoMem
<1>g. Owned => next.phase # "ConfigRestored"
  BY <1>c, <1>d
<1>h. /\ journal' \in Records /\ journal' # NoJournal /\ journal'.original = mem.record.original
      /\ FileFits' /\ ExposureIsRecorded' /\ UserTextSurvives'
  BY <1>a, <1>b, <1>c, <1>d, <1>g, WritingKeeps
<1>1. JournalTypeOK'
  <2>1. mem' \in Mems
    BY <1>a, <1>b, <1>d, MemsChange, NothingIsHeld
  <2>2. budget' \in [edits: 0..MaxEdits, faults: 0..MaxFaults, crashes: 0..MaxCrashes]
    BY <1>d, FaultIsCounted DEF JournalTypeOK
  <2> QED
    BY <1>d, <1>h, <2>1, <2>2 DEF JournalTypeOK
<1>2. ProcessFits'
  <2>1. CASE mem' = NoMem
    BY <1>d, <2>1 DEF ProcessFits, NoMem
  <2>2. CASE mem' # NoMem
    BY <1>a, <1>c, <1>d, <1>e, <2>2 DEF ProcessFits
  <2> QED
    BY <2>1, <2>2
<1>3. FileFits'
  BY <1>h
<1>4. PreflightFits'
  BY <1>a, <1>c, <1>d, <1>e, <1>f DEF PreflightFits
<1>5. SuperviseFits'
  BY <1>d DEF SuperviseFits, IdleOp
<1>6. ApplyFits'
  BY <1>d DEF ApplyFits, IdleOp
<1>7. UndoFits'
  BY <1>d DEF UndoFits, IdleOp
<1>8. IdleFits'
  BY <1>d DEF IdleFits, filesVars
<1>9. ReplacesTheChecked'
  BY <1>d DEF ReplacesTheChecked, filesVars
<1>10. ExposureIsRecorded'
  BY <1>h
<1>11. UserTextSurvives'
  BY <1>h
<1> QED
  BY <1>1, <1>2, <1>3, <1>4, <1>5, <1>6, <1>7, <1>8, <1>9, <1>10, <1>11

LEMMA PrepareSchedulerKeeps ==
  ASSUME JournalInv, PrepareScheduler
  PROVE  JournalInv'
<1> USE JournalAssumption DEF JournalInv, filesVars
<1> DEFINE next == [mem.record EXCEPT !.scheduler = "planned"]
<1>a. /\ mem \in Mems /\ mem.record \in Records /\ Sound(mem.record) /\ mem.live
      /\ mem.fresh => journal = mem.record
      /\ op = IdleOp /\ mem.preflight /\ mem.record.phase = "Prepared"
      /\ mem.record.catalog /\ mem.record.web > 0 /\ mem.record.scheduler = "none"
  BY DEF JournalTypeOK, Mems, Ops, ProcessFits, PreflightFits, SuperviseFits, ApplyFits, UndoFits,
     IdleFits, IdleOp, PrepareScheduler, Ready
<1>b. next \in Records
  BY <1>a, JournalAssumption DEF Records, Phases, PrepareScheduler
<1>c. /\ Sound(next) /\ next.original = mem.record.original /\ next # NoJournal
      /\ next.phase = "Prepared" /\ next.catalog /\ next.web > 0 /\ next.scheduler = "planned"
  BY <1>a, <1>b, RecordsStaySound DEF Records
<1> HIDE DEF next
<1>d. /\ UNCHANGED filesVars /\ UNCHANGED task
      /\ \/ journal' = journal /\ mem' = mem
         \/ mem.fresh /\ journal' = next /\ mem' = [mem EXCEPT !.record = next]
         \/ mem.fresh /\ journal' = next /\ mem' = [mem EXCEPT !.fresh = FALSE]
      /\ UNCHANGED budget \/ Fault
      /\ UNCHANGED ctl
      /\ op' = op \/ op' = [IdleOp EXCEPT !.kind = "supervise", !.at = "register"]
      /\ op' # op => journal' = next /\ mem'.fresh
  <2>1. (Stored(next) \/ StoreFails(next)) /\ mem \in Mems
    BY <1>a DEF PrepareScheduler, next
  <2>2. Stored(next) => mem'.fresh
    BY <1>a DEF Stored, Mems
  <2> QED
    BY <1>a, <1>b, <2>1, <2>2, StoringEnds DEF PrepareScheduler, next
<1>e. /\ mem' \in Mems /\ mem'.live = mem.live /\ mem'.prepared = mem.prepared
      /\ mem'.fresh => mem.fresh /\ mem'.record = journal'
      /\ journal' = next => mem'.record = (IF mem'.fresh THEN next ELSE mem.record)
      /\ journal' = journal => mem'.record = mem.record
      /\ mem'.preflight = mem.preflight
  <2>1. CASE journal' = journal /\ mem' = mem
    BY <1>a, <1>b, <2>1
  <2>2. CASE mem.fresh /\ journal' = next /\ mem' = [mem EXCEPT !.record = next]
    BY <1>a, <1>b, <2>2 DEF Mems
  <2>3. CASE mem.fresh /\ journal' = next /\ mem' = [mem EXCEPT !.fresh = FALSE]
    BY <1>a, <1>b, <2>3 DEF Mems
  <2> QED
    BY <1>d, <2>1, <2>2, <2>3
<1>g. Owned => next.phase # "ConfigRestored"
  BY <1>a, <1>c DEF UndoFits
<1>h. /\ journal' \in Records /\ journal' # NoJournal /\ journal'.original = mem.record.original
      /\ FileFits' /\ ExposureIsRecorded' /\ UserTextSurvives'
  BY <1>a, <1>b, <1>c, <1>d, <1>g, WritingKeeps
<1>1. JournalTypeOK'
  <2>1. op' \in Ops
    <3>1. [IdleOp EXCEPT !.kind = "supervise", !.at = "register"] \in Ops
      BY IdleIsAnOp DEF Ops
    <3> QED
      BY <1>d, <3>1 DEF JournalTypeOK
  <2>2. budget' \in [edits: 0..MaxEdits, faults: 0..MaxFaults, crashes: 0..MaxCrashes]
    BY <1>d, FaultIsCounted DEF JournalTypeOK
  <2> QED
    BY <1>d, <1>e, <1>h, <2>1, <2>2 DEF JournalTypeOK
<1>2. ProcessFits'
  BY <1>a, <1>c, <1>d, <1>e, <1>h DEF ProcessFits
<1>3. FileFits'
  BY <1>h
<1>4. PreflightFits'
  BY <1>a, <1>c, <1>d, <1>e DEF PreflightFits
<1>5. SuperviseFits'
  BY <1>a, <1>c, <1>d, <1>e DEF SuperviseFits, IdleOp
<1>6. ApplyFits'
  BY <1>a, <1>c, <1>d, <1>e DEF ApplyFits, IdleOp
<1>7. UndoFits'
  BY <1>a, <1>c, <1>d, <1>e DEF UndoFits, IdleOp
<1>8. IdleFits'
  BY <1>a, <1>d DEF IdleFits, IdleOp, filesVars
<1>9. ReplacesTheChecked'
  BY <1>a, <1>d DEF ReplacesTheChecked, IdleOp, filesVars
<1>10. ExposureIsRecorded'
  BY <1>h
<1>11. UserTextSurvives'
  BY <1>h
<1> QED
  BY <1>1, <1>2, <1>3, <1>4, <1>5, <1>6, <1>7, <1>8, <1>9, <1>10, <1>11

LEMMA RegisterTaskKeeps ==
  ASSUME JournalInv, RegisterTask
  PROVE  JournalInv'
<1> USE JournalAssumption DEF JournalInv, RegisterTask, Fault, filesVars
<1> op.at # "off" /\ mem.live
  BY DEF ProcessFits, IdleOp
<1>1. JournalTypeOK'
  BY OpsMove, FaultIsCounted DEF JournalTypeOK
<1>2. ProcessFits'
  BY DEF JournalTypeOK, ProcessFits, IdleOp
<1>3. FileFits'
  BY DEF JournalTypeOK, FileFits, ProcessFits
<1>4. PreflightFits'
  BY DEF JournalTypeOK, PreflightFits, ProcessFits, Mems
<1>5. SuperviseFits'
  BY DEF JournalTypeOK, SuperviseFits, ProcessFits, Mems, Ops, IdleOp
<1>6. ApplyFits'
  BY DEF JournalTypeOK, ApplyFits, ProcessFits, Mems, Ops, IdleOp
<1>7. UndoFits'
  BY DEF JournalTypeOK, UndoFits, ProcessFits, Mems, Ops, IdleOp, Owned
<1>8. IdleFits'
  BY DEF JournalTypeOK, IdleFits, IdleOp, Ops
<1>9. ReplacesTheChecked'
  BY DEF JournalTypeOK, ReplacesTheChecked, IdleOp, Ops
<1>10. ExposureIsRecorded'
  <2>1. op.kind = "supervise"
    BY DEF JournalTypeOK, Ops, ApplyFits, UndoFits, IdleFits
  <2>2. journal.scheduler # "none"
    BY <2>1 DEF SuperviseFits, ProcessFits
  <2> QED
    BY <2>2 DEF ExposureIsRecorded, Owned
<1>11. UserTextSurvives'
  BY DEF UserTextSurvives, Kept
<1> QED
  BY <1>1, <1>2, <1>3, <1>4, <1>5, <1>6, <1>7, <1>8, <1>9, <1>10, <1>11

LEMMA RecordSchedulerKeeps ==
  ASSUME JournalInv, RecordScheduler
  PROVE  JournalInv'
<1> USE JournalAssumption DEF JournalInv, filesVars
<1> DEFINE next == [mem.record EXCEPT !.scheduler = "registered"]
<1>a. /\ mem \in Mems /\ mem.record \in Records /\ Sound(mem.record) /\ mem.live
      /\ mem.fresh => journal = mem.record
      /\ op.kind = "supervise" /\ mem.fresh /\ mem.preflight /\ mem.record.phase = "Prepared"
      /\ mem.record.catalog /\ mem.record.web > 0
  BY DEF JournalTypeOK, Mems, Ops, ProcessFits, PreflightFits, SuperviseFits, ApplyFits, UndoFits,
     IdleFits, IdleOp, RecordScheduler
<1>b. next \in Records
  BY <1>a, JournalAssumption DEF Records, Phases, RecordScheduler
<1>c. /\ Sound(next) /\ next.original = mem.record.original /\ next # NoJournal
      /\ next.phase = "Prepared" /\ next.catalog /\ next.web > 0 /\ next.scheduler = "registered"
  BY <1>a, <1>b, RecordsStaySound DEF Records
<1> HIDE DEF next
<1>d. /\ UNCHANGED filesVars /\ UNCHANGED task
      /\ \/ journal' = journal /\ mem' = mem
         \/ mem.fresh /\ journal' = next /\ mem' = [mem EXCEPT !.record = next]
         \/ mem.fresh /\ journal' = next /\ mem' = [mem EXCEPT !.fresh = FALSE]
      /\ UNCHANGED budget \/ Fault
      /\ UNCHANGED ctl /\ op' = IdleOp
  <2>1. CASE Stored(next) \/ StoreFails(next)
    BY <1>a, <1>b, <2>1, StoringEnds DEF RecordScheduler
  <2> QED
    BY <2>1 DEF RecordScheduler, next
<1>e. /\ mem' \in Mems /\ mem'.live = mem.live /\ mem'.prepared = mem.prepared
      /\ mem'.fresh => mem.fresh /\ mem'.record = journal'
      /\ journal' = next => mem'.record = (IF mem'.fresh THEN next ELSE mem.record)
      /\ journal' = journal => mem'.record = mem.record
      /\ mem'.preflight = mem.preflight
  <2>1. CASE journal' = journal /\ mem' = mem
    BY <1>a, <1>b, <2>1
  <2>2. CASE mem.fresh /\ journal' = next /\ mem' = [mem EXCEPT !.record = next]
    BY <1>a, <1>b, <2>2 DEF Mems
  <2>3. CASE mem.fresh /\ journal' = next /\ mem' = [mem EXCEPT !.fresh = FALSE]
    BY <1>a, <1>b, <2>3 DEF Mems
  <2> QED
    BY <1>d, <2>1, <2>2, <2>3
<1>g. Owned => next.phase # "ConfigRestored"
  BY <1>a, <1>c DEF UndoFits
<1>h. /\ journal' \in Records /\ journal' # NoJournal /\ journal'.original = mem.record.original
      /\ FileFits' /\ ExposureIsRecorded' /\ UserTextSurvives'
  BY <1>a, <1>b, <1>c, <1>d, <1>g, WritingKeeps
<1>1. JournalTypeOK'
  <2>1. op' \in Ops
    BY <1>d, IdleIsAnOp DEF JournalTypeOK
  <2>2. budget' \in [edits: 0..MaxEdits, faults: 0..MaxFaults, crashes: 0..MaxCrashes]
    BY <1>d, FaultIsCounted DEF JournalTypeOK
  <2> QED
    BY <1>d, <1>e, <1>h, <2>1, <2>2 DEF JournalTypeOK
<1>2. ProcessFits'
  BY <1>a, <1>c, <1>d, <1>e, <1>h DEF ProcessFits
<1>3. FileFits'
  BY <1>h
<1>4. PreflightFits'
  BY <1>a, <1>c, <1>d, <1>e DEF PreflightFits
<1>5. SuperviseFits'
  BY <1>a, <1>c, <1>d, <1>e DEF SuperviseFits, IdleOp
<1>6. ApplyFits'
  BY <1>a, <1>c, <1>d, <1>e DEF ApplyFits, IdleOp
<1>7. UndoFits'
  BY <1>a, <1>c, <1>d, <1>e DEF UndoFits, IdleOp
<1>8. IdleFits'
  BY <1>a, <1>d DEF IdleFits, IdleOp, filesVars
<1>9. ReplacesTheChecked'
  BY <1>a, <1>d DEF ReplacesTheChecked, IdleOp, filesVars
<1>10. ExposureIsRecorded'
  BY <1>h
<1>11. UserTextSurvives'
  BY <1>h
<1> QED
  BY <1>1, <1>2, <1>3, <1>4, <1>5, <1>6, <1>7, <1>8, <1>9, <1>10, <1>11

LEMMA CommitCheckKeeps ==
  ASSUME JournalInv, CommitCheck
  PROVE  JournalInv'
<1> USE JournalAssumption DEF JournalInv, CommitCheck, GiveUp, Fault, filesVars
<1> op.at # "off" /\ mem.live
  BY DEF ProcessFits, IdleOp
<1>1. JournalTypeOK'
  BY OpsMove, FaultIsCounted DEF JournalTypeOK
<1>2. ProcessFits'
  BY DEF JournalTypeOK, ProcessFits, IdleOp
<1>3. FileFits'
  BY DEF JournalTypeOK, FileFits, ProcessFits
<1>4. PreflightFits'
  BY DEF JournalTypeOK, PreflightFits, ProcessFits, Mems
<1>5. SuperviseFits'
  BY DEF JournalTypeOK, SuperviseFits, ProcessFits, Mems, Ops, IdleOp
<1>6. ApplyFits'
  BY DEF JournalTypeOK, ApplyFits, ProcessFits, Mems, Ops, IdleOp
<1>7. UndoFits'
  BY DEF JournalTypeOK, UndoFits, ProcessFits, Mems, Ops, IdleOp, Owned
<1>8. IdleFits'
  BY DEF JournalTypeOK, IdleFits, IdleOp, Ops
<1>9. ReplacesTheChecked'
  BY DEF JournalTypeOK, ReplacesTheChecked, IdleOp, Ops
<1>10. ExposureIsRecorded'
  BY DEF JournalTypeOK, ExposureIsRecorded, Owned
<1>11. UserTextSurvives'
  BY DEF UserTextSurvives, Kept
<1> QED
  BY <1>1, <1>2, <1>3, <1>4, <1>5, <1>6, <1>7, <1>8, <1>9, <1>10, <1>11

LEMMA CommitReplaceKeeps ==
  ASSUME JournalInv, CommitReplace
  PROVE  JournalInv'
<1> USE JournalAssumption DEF JournalInv, CommitReplace, GiveUp, Fault, filesVars
<1> op.at # "off" /\ mem.live /\ op \in Ops /\ mem.record \in Records /\ config \in Files
  BY DEF ProcessFits, IdleOp, JournalTypeOK, Mems
<1> DEFINE orig == mem.record.original
<1>a. /\ op.kind \in {"apply", "undo"} /\ mem.fresh /\ journal = mem.record /\ Sound(journal)
      /\ journal # NoJournal /\ op.snap.text \in Contents /\ orig \in Contents
  BY DEF JournalTypeOK, Ops, SuperviseFits, ApplyFits, UndoFits, IdleFits, ProcessFits, Records, Files
<1>b. /\ op.text \in Contents /\ Exists(op.text)
      /\ op.kind = "undo" => op.text.route = "none" /\ op.text.tools # "ours"
  BY <1>a, CandidateIsOurs, RestoredIsNotOurs DEF Ops, ApplyFits, UndoFits
<1>c. config.id + 1 \in Nat
  BY DEF Files
<1>d. op' = IdleOp \/ op' = [op EXCEPT !.at = "read", !.id = config.id + 1]
  OBVIOUS
<1>e. op' \in Ops
  <2>1. op.id \in Nat /\ IdleOp \in Ops
    BY OpsMove DEF Ops
  <2>2. [op EXCEPT !.at = "read", !.id = config.id + 1] \in Ops
    BY <1>c DEF Ops
  <2> QED
    BY <1>d, <2>1, <2>2
<1>f. op' # IdleOp => /\ op'.at = "read" /\ op'.kind = op.kind /\ op'.snap = op.snap
                      /\ op'.text = op.text
  BY <1>d DEF Ops
<1>g. mem' = mem /\ journal' = journal
  OBVIOUS
<1>1. JournalTypeOK'
  BY <1>b, <1>c, <1>e, FaultIsCounted DEF JournalTypeOK, Files
<1>2. ProcessFits'
  BY DEF JournalTypeOK, ProcessFits, IdleOp
<1>3. FileFits'
  BY <1>a, <1>b DEF JournalTypeOK, FileFits, ProcessFits, ApplyFits
<1>4. PreflightFits'
  BY <1>a DEF JournalTypeOK, PreflightFits, ProcessFits, Mems, ApplyFits
<1>5. SuperviseFits'
  BY <1>a, <1>b, <1>e, <1>f DEF JournalTypeOK, SuperviseFits, ProcessFits, Mems, Ops, IdleOp
<1>6. ApplyFits'
  BY <1>a, <1>b, <1>e, <1>f DEF JournalTypeOK, ApplyFits, ProcessFits, Mems, Ops, IdleOp
<1>7. UndoFits'
  BY <1>a, <1>b, <1>e, <1>f DEF JournalTypeOK, UndoFits, ProcessFits, Mems, Ops, IdleOp, Owned
<1>8. IdleFits'
  BY <1>a, <1>b, <1>e, <1>f DEF JournalTypeOK, IdleFits, IdleOp, Ops
<1>9. ReplacesTheChecked'
  BY <1>a, <1>b, <1>e, <1>f DEF JournalTypeOK, ReplacesTheChecked, IdleOp, Ops
<1>10. ExposureIsRecorded'
  BY <1>a, <1>b DEF JournalTypeOK, ExposureIsRecorded, Owned, ApplyFits, Sound
<1>11. UserTextSurvives'
  <2>1. CASE UNCHANGED filesVars
    BY <2>1 DEF UserTextSurvives, Kept, filesVars
  <2>2. CASE config.text' = op.text /\ ~raced /\ config = op.snap /\ UNCHANGED <<last, raced>>
    <3>1. Kept(last, op.snap.text) /\ last \in Contents
      BY <2>2 DEF UserTextSurvives, JournalTypeOK
    <3>2. CASE op.kind = "apply"
      <4>1. /\ op.text = Candidate(op.snap.text) /\ op.snap.text \in Contents
            /\ CanPlan(op.snap.text) /\ op.snap.text.tools = "none"
        BY <1>a, <2>2, <3>2 DEF ApplyFits, Sound, ValidRecord
      <4>2. Kept(last, op.text)
        BY ONLY <3>1, <4>1, CandidateKeeps
      <4>3. config'.text = op.text /\ last' = last /\ journal'.original = journal.original
        BY <1>a, <2>2
      <4> QED
        BY ONLY <4>2, <4>3 DEF UserTextSurvives, Kept
    <3>3. CASE op.kind = "undo"
      <4>1. /\ op.text = RestoredText(journal.original, op.snap.text)
            /\ CanUndo(op.snap.text)
            /\ ~Exists(op.snap.text) => op.snap.text = Absent
            /\ op.snap.text \in Contents /\ journal.original \in Contents
        BY <1>a, <2>2, <3>3 DEF UndoFits
      <4>2. Kept(last, op.text)
        BY ONLY <3>1, <4>1, RestoringKeeps
      <4>3. config'.text = op.text /\ last' = last /\ journal'.original = journal.original
        BY <1>a, <2>2
      <4> QED
        BY ONLY <4>2, <4>3 DEF UserTextSurvives, Kept
    <3> QED
      BY <1>a, <3>2, <3>3
  <2>3. CASE raced /\ UNCHANGED raced
    BY <2>3 DEF UserTextSurvives
  <2> QED
    BY <2>1, <2>2, <2>3 DEF JournalTypeOK, ReplacesTheChecked
<1> QED
  BY <1>1, <1>2, <1>3, <1>4, <1>5, <1>6, <1>7, <1>8, <1>9, <1>10, <1>11

LEMMA RemoveFileKeeps ==
  ASSUME JournalInv, RemoveFile
  PROVE  JournalInv'
<1> USE JournalAssumption DEF JournalInv, RemoveFile, GiveUp, Fault, filesVars
<1> op.at # "off" /\ mem.live /\ op \in Ops /\ mem.record \in Records /\ config \in Files
  BY DEF ProcessFits, IdleOp, JournalTypeOK, Mems
<1> DEFINE orig == mem.record.original
<1>a. /\ op.kind = "undo" /\ mem.fresh /\ journal = mem.record /\ Sound(journal)
      /\ journal # NoJournal /\ op.snap.text \in Contents /\ orig \in Contents /\ op.text = Absent
  BY DEF JournalTypeOK, Ops, SuperviseFits, ApplyFits, UndoFits, IdleFits, ProcessFits, Records, Files
<1>c. config.id + 1 \in Nat
  BY DEF Files

<1>1. JournalTypeOK'
  <2>1. config' \in Files
    BY <1>c, AbsentIsEmpty DEF Files, JournalTypeOK
  <2>2. op' \in Ops
    BY OpsMove
  <2> QED
    BY <2>1, <2>2, FaultIsCounted DEF JournalTypeOK
<1>2. ProcessFits'
  BY DEF JournalTypeOK, ProcessFits, IdleOp
<1>3. FileFits'
  BY <1>a, AbsentIsEmpty DEF JournalTypeOK, FileFits, ProcessFits
<1>4. PreflightFits'
  BY DEF JournalTypeOK, PreflightFits, ProcessFits, Mems
<1>5. SuperviseFits'
  BY DEF JournalTypeOK, SuperviseFits, ProcessFits, Mems, Ops, IdleOp
<1>6. ApplyFits'
  BY DEF JournalTypeOK, ApplyFits, ProcessFits, Mems, Ops, IdleOp
<1>7. UndoFits'
  BY DEF JournalTypeOK, UndoFits, ProcessFits, Mems, Ops, IdleOp, Owned
<1>8. IdleFits'
  BY DEF JournalTypeOK, IdleFits, IdleOp, Ops
<1>9. ReplacesTheChecked'
  BY DEF JournalTypeOK, ReplacesTheChecked, IdleOp, Ops
<1>10. ExposureIsRecorded'
  BY <1>a, AbsentIsEmpty DEF JournalTypeOK, ExposureIsRecorded, Owned
<1>11. UserTextSurvives'
  <2>1. CASE UNCHANGED filesVars
    BY <2>1 DEF UserTextSurvives, Kept, filesVars
  <2>2. CASE config.text' = op.text /\ ~raced /\ config = op.snap /\ UNCHANGED <<last, raced>>
    <3>1. Kept(last, op.snap.text) /\ last \in Contents
      BY <2>2 DEF UserTextSurvives, JournalTypeOK
    <3>2. /\ op.text = RestoredText(journal.original, op.snap.text)
          /\ CanUndo(op.snap.text)
          /\ ~Exists(op.snap.text) => op.snap.text = Absent
          /\ op.snap.text \in Contents /\ journal.original \in Contents
      BY <1>a, <2>2 DEF UndoFits
    <3>3. Kept(last, op.text)
      BY ONLY <3>1, <3>2, RestoringKeeps
    <3>4. config'.text = op.text /\ last' = last /\ journal'.original = journal.original
      BY <1>a, <2>2
    <3> QED
      BY ONLY <3>3, <3>4 DEF UserTextSurvives, Kept
  <2>3. CASE raced /\ UNCHANGED raced
    BY <2>3 DEF UserTextSurvives
  <2> QED
    BY <1>a, <2>1, <2>2, <2>3 DEF JournalTypeOK
<1> QED
  BY <1>1, <1>2, <1>3, <1>4, <1>5, <1>6, <1>7, <1>8, <1>9, <1>10, <1>11

LEMMA SameFileKeeps ==
  ASSUME JournalInv, SameFile
  PROVE  JournalInv'
<1> USE JournalAssumption DEF JournalInv, SameFile, GiveUp, filesVars
<1> op.at # "off" /\ mem.live
  BY DEF ProcessFits, IdleOp
<1>1. JournalTypeOK'
  BY OpsMove, FaultIsCounted DEF JournalTypeOK
<1>2. ProcessFits'
  BY DEF JournalTypeOK, ProcessFits, IdleOp
<1>3. FileFits'
  BY DEF JournalTypeOK, FileFits, ProcessFits
<1>4. PreflightFits'
  BY DEF JournalTypeOK, PreflightFits, ProcessFits, Mems
<1>5. SuperviseFits'
  BY DEF JournalTypeOK, SuperviseFits, ProcessFits, Mems, Ops, IdleOp
<1>6. ApplyFits'
  BY DEF JournalTypeOK, ApplyFits, ProcessFits, Mems, Ops, IdleOp
<1>7. UndoFits'
  BY DEF JournalTypeOK, UndoFits, ProcessFits, Mems, Ops, IdleOp, Owned
<1>8. IdleFits'
  BY DEF JournalTypeOK, IdleFits, IdleOp, Ops
<1>9. ReplacesTheChecked'
  BY DEF JournalTypeOK, ReplacesTheChecked, IdleOp, Ops
<1>10. ExposureIsRecorded'
  BY DEF JournalTypeOK, ExposureIsRecorded, Owned
<1>11. UserTextSurvives'
  BY DEF UserTextSurvives, Kept
<1> QED
  BY <1>1, <1>2, <1>3, <1>4, <1>5, <1>6, <1>7, <1>8, <1>9, <1>10, <1>11

LEMMA ReadBackKeeps ==
  ASSUME JournalInv, ReadBack
  PROVE  JournalInv'
<1> USE JournalAssumption DEF JournalInv, ReadBack, GiveUp, filesVars
<1> op.at # "off" /\ mem.live
  BY DEF ProcessFits, IdleOp
<1>1. JournalTypeOK'
  BY OpsMove, FaultIsCounted DEF JournalTypeOK
<1>2. ProcessFits'
  BY DEF JournalTypeOK, ProcessFits, IdleOp
<1>3. FileFits'
  BY DEF JournalTypeOK, FileFits, ProcessFits
<1>4. PreflightFits'
  BY DEF JournalTypeOK, PreflightFits, ProcessFits, Mems
<1>5. SuperviseFits'
  BY DEF JournalTypeOK, SuperviseFits, ProcessFits, Mems, Ops, IdleOp
<1>6. ApplyFits'
  BY DEF JournalTypeOK, ApplyFits, ProcessFits, Mems, Ops, IdleOp
<1>7. UndoFits'
  BY DEF JournalTypeOK, UndoFits, ProcessFits, Mems, Ops, IdleOp, Owned
<1>8. IdleFits'
  BY DEF JournalTypeOK, IdleFits, IdleOp, Ops
<1>9. ReplacesTheChecked'
  BY DEF JournalTypeOK, ReplacesTheChecked, IdleOp, Ops
<1>10. ExposureIsRecorded'
  BY DEF JournalTypeOK, ExposureIsRecorded, Owned
<1>11. UserTextSurvives'
  BY DEF UserTextSurvives, Kept
<1> QED
  BY <1>1, <1>2, <1>3, <1>4, <1>5, <1>6, <1>7, <1>8, <1>9, <1>10, <1>11

LEMMA ApplyStartKeeps ==
  ASSUME JournalInv, ApplyStart
  PROVE  JournalInv'
<1> USE JournalAssumption DEF JournalInv, filesVars
<1> DEFINE start == [kind |-> "apply", at |-> "check", snap |-> mem.prepared,
                     text |-> Candidate(mem.record.original), id |-> 0]
<1>a. /\ mem \in Mems /\ mem.record \in Records /\ mem.record.original \in Contents
      /\ mem.live /\ mem.fresh /\ mem.preflight /\ journal = mem.record /\ mem.prepared \in Files
      /\ mem.record.phase = "Prepared" /\ mem.record.catalog /\ mem.record.scheduler = "registered"
  BY DEF JournalTypeOK, Mems, Records, ProcessFits, ApplyStart, Ready
<1>b. start \in Ops
  BY <1>a, CandidateIsOurs DEF Ops
<1>d. /\ op' = start /\ mem' = [mem EXCEPT !.preflight = FALSE]
      /\ UNCHANGED filesVars /\ UNCHANGED <<journal, task, ctl, budget>>
  BY DEF ApplyStart
<1>e. /\ mem' \in Mems /\ mem'.live /\ mem'.fresh /\ ~mem'.preflight /\ mem'.record = mem.record
  BY <1>a, <1>d DEF Mems
<1>f. /\ start.kind = "apply" /\ start.at = "check" /\ start.snap = mem.prepared
      /\ start.text = Candidate(mem.record.original)
  OBVIOUS
<1> HIDE DEF start
<1>1. JournalTypeOK'
  BY <1>b, <1>d, <1>e DEF JournalTypeOK
<1>2. ProcessFits'
  BY <1>a, <1>d, <1>e DEF ProcessFits
<1>3. FileFits'
  BY <1>d DEF FileFits, filesVars
<1>4. PreflightFits'
  BY <1>e DEF PreflightFits
<1>5. SuperviseFits'
  BY <1>d, <1>f DEF SuperviseFits
<1>6. ApplyFits'
  BY <1>a, <1>d, <1>e, <1>f DEF ApplyFits, PreflightFits, filesVars
<1>7. UndoFits'
  BY <1>d, <1>f DEF UndoFits
<1>8. IdleFits'
  BY <1>d, <1>f DEF IdleFits
<1>9. ReplacesTheChecked'
  BY <1>d, <1>f DEF ReplacesTheChecked
<1>10. ExposureIsRecorded'
  BY <1>d DEF ExposureIsRecorded, Owned, filesVars
<1>11. UserTextSurvives'
  BY <1>d DEF UserTextSurvives, Kept, filesVars
<1> QED
  BY <1>1, <1>2, <1>3, <1>4, <1>5, <1>6, <1>7, <1>8, <1>9, <1>10, <1>11

LEMMA ApplyStoreKeeps ==
  ASSUME JournalInv, ApplyStore
  PROVE  JournalInv'
<1> USE JournalAssumption DEF JournalInv, filesVars
<1> DEFINE next == [mem.record EXCEPT !.phase = "ConfigApplied"]
<1>a. /\ mem \in Mems /\ mem.record \in Records /\ Sound(mem.record) /\ mem.live
      /\ mem.fresh => journal = mem.record
      /\ op.kind = "apply" /\ mem.fresh /\ ~mem.preflight /\ mem.record.phase = "Prepared"
      /\ mem.record.catalog /\ mem.record.scheduler = "registered"
  BY DEF JournalTypeOK, Mems, Ops, ProcessFits, PreflightFits, SuperviseFits, ApplyFits, UndoFits,
     IdleFits, IdleOp, ApplyStore
<1>b. next \in Records
  BY <1>a, JournalAssumption DEF Records, Phases, ApplyStore
<1>c. /\ Sound(next) /\ next.original = mem.record.original /\ next # NoJournal
      /\ next.phase = "ConfigApplied" /\ next.catalog /\ next.scheduler = "registered"
  BY <1>a, <1>b, RecordsStaySound DEF Records
<1> HIDE DEF next
<1>d. /\ UNCHANGED filesVars /\ UNCHANGED task
      /\ \/ journal' = journal /\ mem' = mem
         \/ mem.fresh /\ journal' = next /\ mem' = [mem EXCEPT !.record = next]
         \/ mem.fresh /\ journal' = next /\ mem' = [mem EXCEPT !.fresh = FALSE]
         \/ mem.fresh /\ journal' = next /\ mem' = [mem EXCEPT !.record = next, !.fresh = FALSE]
      /\ UNCHANGED budget \/ Fault
      /\ UNCHANGED ctl /\ op' = IdleOp
  <2>1. CASE Stored(next) \/ StoreFails(next)
    BY <1>a, <1>b, <2>1, StoringEnds DEF ApplyStore
  <2> QED
    BY <2>1 DEF ApplyStore, next
<1>e. /\ mem' \in Mems /\ mem'.live = mem.live /\ mem'.prepared = mem.prepared
      /\ mem'.fresh => mem.fresh /\ mem'.record = journal'
      /\ mem'.record \in {mem.record, next}
      /\ journal' = journal => mem'.record = mem.record
      /\ mem'.preflight = mem.preflight
  <2>1. CASE journal' = journal /\ mem' = mem
    BY <1>a, <1>b, <2>1
  <2>2. CASE mem.fresh /\ journal' = next /\ mem' = [mem EXCEPT !.record = next]
    BY <1>a, <1>b, <2>2 DEF Mems
  <2>3. CASE mem.fresh /\ journal' = next /\ mem' = [mem EXCEPT !.fresh = FALSE]
    BY <1>a, <1>b, <2>3 DEF Mems
  <2>4. CASE mem.fresh /\ journal' = next /\ mem' = [mem EXCEPT !.record = next, !.fresh = FALSE]
    BY <1>a, <1>b, <2>4 DEF Mems
  <2> QED
    BY <1>d, <2>1, <2>2, <2>3, <2>4
<1>g. Owned => next.phase # "ConfigRestored"
  BY <1>a, <1>c DEF UndoFits
<1>h. /\ journal' \in Records /\ journal' # NoJournal /\ journal'.original = mem.record.original
      /\ FileFits' /\ ExposureIsRecorded' /\ UserTextSurvives'
  BY <1>a, <1>b, <1>c, <1>d, <1>g, WritingKeeps
<1>1. JournalTypeOK'
  <2>1. op' \in Ops
    BY <1>d, IdleIsAnOp DEF JournalTypeOK
  <2>2. budget' \in [edits: 0..MaxEdits, faults: 0..MaxFaults, crashes: 0..MaxCrashes]
    BY <1>d, FaultIsCounted DEF JournalTypeOK
  <2> QED
    BY <1>d, <1>e, <1>h, <2>1, <2>2 DEF JournalTypeOK
<1>2. ProcessFits'
  BY <1>a, <1>c, <1>d, <1>e, <1>h DEF ProcessFits
<1>3. FileFits'
  BY <1>h
<1>4. PreflightFits'
  BY <1>a, <1>c, <1>d, <1>e DEF PreflightFits
<1>5. SuperviseFits'
  BY <1>a, <1>c, <1>d, <1>e DEF SuperviseFits, IdleOp
<1>6. ApplyFits'
  BY <1>a, <1>c, <1>d, <1>e DEF ApplyFits, IdleOp
<1>7. UndoFits'
  BY <1>a, <1>c, <1>d, <1>e DEF UndoFits, IdleOp
<1>8. IdleFits'
  BY <1>a, <1>d DEF IdleFits, IdleOp, filesVars
<1>9. ReplacesTheChecked'
  BY <1>a, <1>d DEF ReplacesTheChecked, IdleOp, filesVars
<1>10. ExposureIsRecorded'
  BY <1>h
<1>11. UserTextSurvives'
  BY <1>h
<1> QED
  BY <1>1, <1>2, <1>3, <1>4, <1>5, <1>6, <1>7, <1>8, <1>9, <1>10, <1>11

LEMMA ExtendWebKeeps ==
  ASSUME JournalInv, ExtendWeb
  PROVE  JournalInv'
<1> USE JournalAssumption DEF JournalInv, filesVars
<1> DEFINE next == [mem.record EXCEPT !.web = @ + 1]
<1>a. /\ mem \in Mems /\ mem.record \in Records /\ Sound(mem.record) /\ mem.live
      /\ mem.fresh => journal = mem.record
      /\ op = IdleOp /\ mem.record.phase = "ConfigApplied" /\ ~mem.preflight
      /\ mem.record.web \in 1..(MaxWeb - 1)
  BY DEF JournalTypeOK, Mems, Ops, ProcessFits, PreflightFits, SuperviseFits, ApplyFits, UndoFits,
     IdleFits, IdleOp, ExtendWeb, Ready
<1>b. next \in Records
  BY <1>a, JournalAssumption DEF Records, Phases, ExtendWeb
<1>c. /\ Sound(next) /\ next.original = mem.record.original /\ next # NoJournal
      /\ next.phase = mem.record.phase /\ next.web = mem.record.web + 1
      /\ next.catalog = mem.record.catalog /\ next.scheduler = mem.record.scheduler
  BY <1>a, <1>b, RecordsStaySound DEF Records
<1> HIDE DEF next
<1>d. /\ UNCHANGED filesVars /\ UNCHANGED task
      /\ \/ journal' = journal /\ mem' = mem
         \/ mem.fresh /\ journal' = next /\ mem' = [mem EXCEPT !.record = next, !.held = next.web]
         \/ mem.fresh /\ journal' = next /\ mem' = [mem EXCEPT !.fresh = FALSE]
      /\ UNCHANGED budget \/ Fault
      /\ UNCHANGED ctl /\ op' = op
  <2>1. CASE StoreFails(next)
    BY <2>1 DEF ExtendWeb, StoreFails
  <2> QED
    BY <1>a, <2>1 DEF ExtendWeb, next
<1>e. /\ mem' \in Mems /\ mem'.live = mem.live /\ mem'.prepared = mem.prepared
      /\ mem'.fresh => mem.fresh /\ mem'.record = journal'
      /\ journal' = next => mem'.record = (IF mem'.fresh THEN next ELSE mem.record)
      /\ journal' = journal => mem'.record = mem.record
      /\ mem'.preflight = mem.preflight
  <2>1. CASE journal' = journal /\ mem' = mem
    BY <1>a, <1>b, <2>1
  <2>2. CASE mem.fresh /\ journal' = next
              /\ mem' = [mem EXCEPT !.record = next, !.held = next.web]
    BY <1>a, <1>b, <2>2 DEF Mems, Records
  <2>3. CASE mem.fresh /\ journal' = next /\ mem' = [mem EXCEPT !.fresh = FALSE]
    BY <1>a, <1>b, <2>3 DEF Mems
  <2> QED
    BY <1>d, <2>1, <2>2, <2>3
<1>g. Owned => next.phase # "ConfigRestored"
  BY <1>a, <1>c DEF UndoFits
<1>h. /\ journal' \in Records /\ journal' # NoJournal /\ journal'.original = mem.record.original
      /\ FileFits' /\ ExposureIsRecorded' /\ UserTextSurvives'
  BY <1>a, <1>b, <1>c, <1>d, <1>g, WritingKeeps
<1>1. JournalTypeOK'
  <2>1. op' \in Ops
    BY <1>d DEF JournalTypeOK
  <2>2. budget' \in [edits: 0..MaxEdits, faults: 0..MaxFaults, crashes: 0..MaxCrashes]
    BY <1>d, FaultIsCounted DEF JournalTypeOK
  <2> QED
    BY <1>d, <1>e, <1>h, <2>1, <2>2 DEF JournalTypeOK
<1>2. ProcessFits'
  BY <1>a, <1>c, <1>d, <1>e, <1>h DEF ProcessFits
<1>3. FileFits'
  BY <1>h
<1>4. PreflightFits'
  BY <1>a, <1>c, <1>d, <1>e DEF PreflightFits
<1>5. SuperviseFits'
  BY <1>a, <1>c, <1>d, <1>e DEF SuperviseFits, IdleOp
<1>6. ApplyFits'
  BY <1>a, <1>c, <1>d, <1>e DEF ApplyFits, IdleOp
<1>7. UndoFits'
  BY <1>a, <1>c, <1>d, <1>e DEF UndoFits, IdleOp
<1>8. IdleFits'
  BY <1>a, <1>d DEF IdleFits, IdleOp, filesVars
<1>9. ReplacesTheChecked'
  BY <1>a, <1>d DEF ReplacesTheChecked, IdleOp, filesVars
<1>10. ExposureIsRecorded'
  BY <1>h
<1>11. UserTextSurvives'
  BY <1>h
<1> QED
  BY <1>1, <1>2, <1>3, <1>4, <1>5, <1>6, <1>7, <1>8, <1>9, <1>10, <1>11

LEMMA DisconnectStartKeeps ==
  ASSUME JournalInv, DisconnectStart
  PROVE  JournalInv'
<1> USE JournalAssumption DEF JournalInv, filesVars
<1> DEFINE undo == mem.record.undo
<1>a. /\ mem \in Mems /\ mem.record \in Records /\ Sound(mem.record) /\ config \in Files
      /\ config.text \in Contents /\ undo.after \in Contents /\ mem.live /\ op = IdleOp
  BY DEF JournalTypeOK, Mems, Records, Undos, Files, ProcessFits, DisconnectStart, Ready
<1>d. /\ ctl' \in {"Restoring", "RestoreFailed"} /\ UNCHANGED filesVars
      /\ UNCHANGED <<journal, task, mem, budget>>
      /\ \/ op' = op
         \/ /\ undo # NoUndo /\ config.text = undo.after
            /\ op' = [UndoStep("store") EXCEPT !.text = undo.after]
         \/ /\ mem.record.phase # "ConfigRestored" /\ mem.fresh /\ CanUndo(config.text)
            /\ op' = UndoStep("plan")
  BY DEF DisconnectStart
<1>b. UndoStep("plan") \in Ops /\ UndoStep("store") \in Ops
  BY <1>a, AbsentIsEmpty DEF UndoStep, Ops
<1>c. undo # NoUndo =>
        mem.record.phase \in {"Disconnecting", "ConfigRestored"} /\ undo.after.route = "none"
  BY <1>a, RecordsStaySound DEF Phases
<1>e. op' \in Ops /\ (op' = op \/ /\ op'.kind = "undo" /\ op'.at \in {"plan", "store"})
  BY <1>a, <1>b, <1>d, IdleIsAnOp DEF Ops, UndoStep
<1>f. op'.at = "plan" => /\ mem.fresh /\ mem.record.phase # "ConfigRestored"
                         /\ CanUndo(config.text) /\ op'.snap = config
  BY <1>a, <1>b, <1>d DEF IdleOp, UndoStep, Ops
<1>g. op'.at = "store" => /\ undo # NoUndo /\ config.text = undo.after /\ op'.text = undo.after
  BY <1>a, <1>b, <1>d DEF IdleOp, UndoStep, Ops
<1>1. JournalTypeOK'
  BY <1>d, <1>e DEF JournalTypeOK
<1>2. ProcessFits'
  BY <1>a, <1>d DEF ProcessFits
<1>3. FileFits'
  BY <1>d DEF FileFits, filesVars
<1>4. PreflightFits'
  BY <1>d DEF PreflightFits, filesVars
<1>5. SuperviseFits'
  BY <1>a, <1>e DEF SuperviseFits, IdleOp
<1>6. ApplyFits'
  BY <1>a, <1>e DEF ApplyFits, IdleOp
<1>7. UndoFits'
  BY <1>a, <1>c, <1>d, <1>e, <1>f, <1>g DEF UndoFits, FileFits, IdleOp, Owned, filesVars
<1>8. IdleFits'
  BY <1>a, <1>e DEF IdleFits, IdleOp
<1>9. ReplacesTheChecked'
  BY <1>a, <1>e DEF ReplacesTheChecked, IdleOp
<1>10. ExposureIsRecorded'
  BY <1>d DEF ExposureIsRecorded, Owned, filesVars
<1>11. UserTextSurvives'
  BY <1>d DEF UserTextSurvives, Kept, filesVars
<1> QED
  BY <1>1, <1>2, <1>3, <1>4, <1>5, <1>6, <1>7, <1>8, <1>9, <1>10, <1>11

LEMMA DisconnectPlanKeeps ==
  ASSUME JournalInv, DisconnectPlan
  PROVE  JournalInv'
<1> USE JournalAssumption DEF JournalInv, filesVars
<1> DEFINE before == op.snap.text
           after == RestoredText(mem.record.original, before)
           way == IF Exists(after) /\ after # before THEN "check"
                  ELSE IF ~Exists(after) /\ Exists(before) THEN "remove" ELSE "same"
           next == [mem.record EXCEPT !.phase = "Disconnecting",
                                      !.undo = [before |-> before, after |-> after]]
<1>a. /\ mem \in Mems /\ mem.record \in Records /\ Sound(mem.record) /\ mem.live
      /\ mem.fresh => journal = mem.record
      /\ op.kind = "undo" /\ mem.fresh /\ mem.record.phase # "ConfigRestored" /\ op \in Ops
      /\ CanUndo(op.snap.text) /\ (~Exists(op.snap.text) => op.snap.text = Absent)
      /\ op.snap.text \in Contents /\ mem.record.original \in Contents /\ config \in Files
  <2>1. op \in Ops /\ mem \in Mems /\ config \in Files /\ op.at = "plan"
    BY DEF JournalTypeOK, DisconnectPlan
  <2>2. op.kind = "undo"
    BY <2>1 DEF Ops, SuperviseFits, ApplyFits, IdleFits
  <2>3. mem.live
    BY <2>1 DEF ProcessFits, IdleOp
  <2> QED
    BY <2>1, <2>2, <2>3 DEF ProcessFits, UndoFits, Mems, Ops, Files, Records
<1>b. next \in Records /\ Sound(next)
  BY <1>a, ClosingIsSound
<1>c. /\ next.original = mem.record.original /\ next # NoJournal /\ next.phase = "Disconnecting"
      /\ next.catalog = mem.record.catalog /\ next.scheduler = mem.record.scheduler
  BY <1>a, <1>b, RecordsStaySound DEF Records
<1>w. /\ after \in Contents /\ after.route = "none" /\ after.tools # "ours"
      /\ ~Exists(after) => after = Absent
      /\ way \in {"check", "remove", "same"} /\ (way = "check" => Exists(after))
      /\ way = "remove" => after = Absent
  BY <1>a, RestoredIsNotOurs
<1>d. /\ UNCHANGED filesVars /\ UNCHANGED task /\ (UNCHANGED budget \/ Fault)
      /\ \/ /\ journal' = next /\ mem' = [mem EXCEPT !.record = next, !.preflight = FALSE]
            /\ op' = [op EXCEPT !.at = way, !.text = after] /\ UNCHANGED ctl
         \/ /\ op' = IdleOp /\ ctl' \in {ctl, "RestoreFailed"} /\ journal' \in {journal, next}
            /\ \E b \in BOOLEAN : /\ mem' = [mem EXCEPT !.fresh = b, !.preflight = FALSE]
                                  /\ journal' # journal => ~b
  BY <1>a DEF DisconnectPlan, next, GiveUp
<1> HIDE DEF next, after, way
<1>e. /\ mem' \in Mems /\ mem'.live = mem.live /\ mem'.prepared = mem.prepared
      /\ mem'.fresh => mem.fresh /\ mem'.record = journal'
      /\ mem'.record \in {mem.record, next} /\ ~mem'.preflight
  <2>1. CASE mem' = [mem EXCEPT !.record = next, !.preflight = FALSE] /\ journal' = next
    BY <1>a, <1>b, <2>1 DEF Mems
  <2>2. CASE /\ journal' \in {journal, next}
             /\ \E b \in BOOLEAN : /\ mem' = [mem EXCEPT !.fresh = b, !.preflight = FALSE]
                                   /\ journal' # journal => ~b
    <3>1. PICK b \in BOOLEAN : /\ mem' = [mem EXCEPT !.fresh = b, !.preflight = FALSE]
                              /\ journal' # journal => ~b
      BY <2>2
    <3> QED
      BY <1>a, <1>b, <2>2, <3>1 DEF Mems
  <2> QED
    BY <1>d, <2>1, <2>2
<1>f. op' # IdleOp =>
        /\ op'.kind = "undo" /\ op'.at = way /\ op'.snap = op.snap /\ op'.text = after
        /\ op' \in Ops /\ mem'.record = next /\ mem'.fresh
  <2>1. CASE op' = [op EXCEPT !.at = way, !.text = after] /\ mem' = [mem EXCEPT !.record = next, !.preflight = FALSE]
    BY <1>a, <1>b, <1>w, <2>1 DEF Ops, Mems
  <2> QED
    BY <1>d, <2>1
<1>g. Owned => next.phase # "ConfigRestored"
  BY <1>c
<1>h. /\ journal' \in Records /\ journal' # NoJournal /\ journal'.original = mem.record.original
      /\ FileFits' /\ ExposureIsRecorded' /\ UserTextSurvives'
  BY <1>a, <1>b, <1>c, <1>d, <1>g, WritingKeeps
<1>1. JournalTypeOK'
  <2>1. op' \in Ops
    BY <1>f, IdleIsAnOp
  <2>2. budget' \in [edits: 0..MaxEdits, faults: 0..MaxFaults, crashes: 0..MaxCrashes]
    BY <1>d, FaultIsCounted DEF JournalTypeOK
  <2>3. ctl' \in {"Idle", "Restoring", "PendingRestart", "RestoreFailed"}
    BY <1>d DEF JournalTypeOK
  <2> QED
    BY <1>d, <1>e, <1>h, <2>1, <2>2, <2>3 DEF JournalTypeOK
<1>2. ProcessFits'
  BY <1>a, <1>b, <1>c, <1>d, <1>e, <1>h DEF ProcessFits
<1>3. FileFits'
  BY <1>h
<1>4. PreflightFits'
  BY <1>e DEF PreflightFits
<1>5. SuperviseFits'
  BY <1>f DEF SuperviseFits, IdleOp
<1>6. ApplyFits'
  BY <1>f DEF ApplyFits, IdleOp
<1>7. UndoFits'
  BY <1>a, <1>c, <1>e, <1>f, <1>w DEF UndoFits, IdleOp, after, before, filesVars
<1>8. IdleFits'
  BY <1>f, <1>w DEF IdleFits, IdleOp
<1>9. ReplacesTheChecked'
  BY <1>f, <1>w DEF ReplacesTheChecked, IdleOp
<1>10. ExposureIsRecorded'
  BY <1>h
<1>11. UserTextSurvives'
  BY <1>h
<1> QED
  BY <1>1, <1>2, <1>3, <1>4, <1>5, <1>6, <1>7, <1>8, <1>9, <1>10, <1>11

LEMMA DisconnectStoreKeeps ==
  ASSUME JournalInv, DisconnectStore
  PROVE  JournalInv'
<1> USE JournalAssumption DEF JournalInv, filesVars
<1> DEFINE next == [mem.record EXCEPT !.phase = "ConfigRestored"]
<1>a. /\ mem \in Mems /\ mem.record \in Records /\ Sound(mem.record) /\ mem.live
      /\ mem.fresh => journal = mem.record
      /\ op.kind = "undo" /\ op.at = "store" /\ ~mem.preflight /\ ~Owned
      /\ mem.record.phase \in {"Disconnecting", "ConfigRestored"}
  BY DEF JournalTypeOK, Mems, Ops, ProcessFits, PreflightFits, SuperviseFits, ApplyFits, UndoFits,
     IdleFits, IdleOp, DisconnectStore
<1>b. next \in Records
  BY <1>a, JournalAssumption DEF Records, Phases, DisconnectStore
<1>c. /\ Sound(next) /\ next.original = mem.record.original /\ next # NoJournal
      /\ next.phase = "ConfigRestored"
      /\ next.catalog = mem.record.catalog /\ next.scheduler = mem.record.scheduler
  BY <1>a, <1>b, RecordsStaySound DEF Records
<1> HIDE DEF next
<1>d. /\ UNCHANGED filesVars /\ UNCHANGED task
      /\ \/ journal' = journal /\ mem' = mem
         \/ mem.fresh /\ journal' = next /\ mem' = [mem EXCEPT !.record = next]
         \/ mem.fresh /\ journal' = next /\ mem' = [mem EXCEPT !.fresh = FALSE]
      /\ UNCHANGED budget \/ Fault
      /\ op' = IdleOp /\ ctl' \in {"PendingRestart", "RestoreFailed"}
  <2>1. (Stored(next) \/ StoreFails(next)) /\ mem \in Mems
    BY <1>a DEF DisconnectStore, next
  <2> QED
    BY <1>a, <1>b, <2>1, StoringEnds DEF DisconnectStore, GiveUp
<1>e. /\ mem' \in Mems /\ mem'.live = mem.live /\ mem'.prepared = mem.prepared
      /\ mem'.fresh => mem.fresh /\ mem'.record = journal'
      /\ journal' = next => mem'.record = (IF mem'.fresh THEN next ELSE mem.record)
      /\ journal' = journal => mem'.record = mem.record
      /\ mem'.preflight = mem.preflight
  <2>1. CASE journal' = journal /\ mem' = mem
    BY <1>a, <1>b, <2>1
  <2>2. CASE mem.fresh /\ journal' = next /\ mem' = [mem EXCEPT !.record = next]
    BY <1>a, <1>b, <2>2 DEF Mems
  <2>3. CASE mem.fresh /\ journal' = next /\ mem' = [mem EXCEPT !.fresh = FALSE]
    BY <1>a, <1>b, <2>3 DEF Mems
  <2> QED
    BY <1>d, <2>1, <2>2, <2>3
<1>g. Owned => next.phase # "ConfigRestored"
  BY <1>a, <1>c DEF UndoFits
<1>h. /\ journal' \in Records /\ journal' # NoJournal /\ journal'.original = mem.record.original
      /\ FileFits' /\ ExposureIsRecorded' /\ UserTextSurvives'
  BY <1>a, <1>b, <1>c, <1>d, <1>g, WritingKeeps
<1>1. JournalTypeOK'
  <2>1. op' \in Ops
    BY <1>d, IdleIsAnOp DEF JournalTypeOK
  <2>2. budget' \in [edits: 0..MaxEdits, faults: 0..MaxFaults, crashes: 0..MaxCrashes]
    BY <1>d, FaultIsCounted DEF JournalTypeOK
  <2> QED
    BY <1>d, <1>e, <1>h, <2>1, <2>2 DEF JournalTypeOK
<1>2. ProcessFits'
  BY <1>a, <1>c, <1>d, <1>e, <1>h DEF ProcessFits
<1>3. FileFits'
  BY <1>h
<1>4. PreflightFits'
  BY <1>a, <1>c, <1>d, <1>e DEF PreflightFits
<1>5. SuperviseFits'
  BY <1>a, <1>c, <1>d, <1>e DEF SuperviseFits, IdleOp
<1>6. ApplyFits'
  BY <1>a, <1>c, <1>d, <1>e DEF ApplyFits, IdleOp
<1>7. UndoFits'
  BY <1>a, <1>c, <1>d, <1>e DEF UndoFits, IdleOp
<1>8. IdleFits'
  BY <1>a, <1>d DEF IdleFits, IdleOp, filesVars
<1>9. ReplacesTheChecked'
  BY <1>a, <1>d DEF ReplacesTheChecked, IdleOp, filesVars
<1>10. ExposureIsRecorded'
  BY <1>h
<1>11. UserTextSurvives'
  BY <1>h
<1> QED
  BY <1>1, <1>2, <1>3, <1>4, <1>5, <1>6, <1>7, <1>8, <1>9, <1>10, <1>11

LEMMA ReopenKeeps ==
  ASSUME JournalInv, Reopen
  PROVE  JournalInv'
<1> USE JournalAssumption DEF JournalInv, filesVars
<1>a. /\ mem = NoMem /\ op = IdleOp /\ journal \in Records /\ Sound(journal) /\ journal # NoJournal
      /\ ValidRecord(journal) /\ config \in Files
  BY DEF JournalTypeOK, ProcessFits, FileFits, Reopen, ValidRecord, NoJournal
<1>d. /\ mem' = [live |-> TRUE, record |-> journal, fresh |-> TRUE, preflight |-> FALSE,
                 prepared |-> NoFile, held |-> journal.web]
      /\ ctl' \in {"Idle", "PendingRestart", "RestoreFailed"}
      /\ UNCHANGED filesVars /\ UNCHANGED <<journal, task, op, budget>>
  BY DEF Reopen
<1>e. /\ mem'.live /\ mem'.record = journal /\ mem'.fresh /\ ~mem'.preflight
  BY <1>d
<1>f. mem' \in Mems
  <2>1. NoFile \in Files /\ journal.web \in 0..MaxWeb
    BY <1>a, AbsentIsEmpty DEF NoFile, Files, Records
  <2> QED
    BY <1>a, <1>d, <2>1, Zenon DEF Mems
<1>1. JournalTypeOK'
  BY <1>d, <1>f DEF JournalTypeOK
<1>2. ProcessFits'
  BY <1>a, <1>d, <1>e DEF ProcessFits
<1>3. FileFits'
  BY <1>d DEF FileFits, filesVars
<1>4. PreflightFits'
  BY <1>e DEF PreflightFits
<1>5. SuperviseFits'
  BY <1>a, <1>d DEF SuperviseFits, IdleOp, filesVars
<1>6. ApplyFits'
  BY <1>a, <1>d DEF ApplyFits, IdleOp, filesVars
<1>7. UndoFits'
  BY <1>a, <1>d DEF UndoFits, IdleOp, filesVars
<1>8. IdleFits'
  BY <1>a, <1>d DEF IdleFits, IdleOp, filesVars
<1>9. ReplacesTheChecked'
  BY <1>a, <1>d DEF ReplacesTheChecked, IdleOp, filesVars
<1>10. ExposureIsRecorded'
  BY <1>d DEF ExposureIsRecorded, Owned, filesVars
<1>11. UserTextSurvives'
  BY <1>d DEF UserTextSurvives, Kept, filesVars
<1> QED
  BY <1>1, <1>2, <1>3, <1>4, <1>5, <1>6, <1>7, <1>8, <1>9, <1>10, <1>11

LEMMA CrashKeeps ==
  ASSUME JournalInv, Crash
  PROVE  JournalInv'
<1> USE JournalAssumption DEF JournalInv, Crash, filesVars
<1>1. JournalTypeOK'
  <2>1. budget' \in [edits: 0..MaxEdits, faults: 0..MaxFaults, crashes: 0..MaxCrashes]
    BY DEF JournalTypeOK
  <2> QED
    BY <2>1, IdleIsAnOp, NothingIsHeld DEF JournalTypeOK
<1>2. ProcessFits'
  BY DEF ProcessFits, NoMem
<1>3. FileFits'
  BY DEF JournalTypeOK, FileFits, ProcessFits
<1>4. PreflightFits'
  BY DEF PreflightFits, NoMem
<1>5. SuperviseFits'
  BY DEF SuperviseFits, IdleOp
<1>6. ApplyFits'
  BY DEF ApplyFits, IdleOp
<1>7. UndoFits'
  BY DEF UndoFits, IdleOp
<1>8. IdleFits'
  BY DEF IdleFits, IdleOp
<1>9. ReplacesTheChecked'
  BY DEF ReplacesTheChecked, IdleOp
<1>10. ExposureIsRecorded'
  BY DEF JournalTypeOK, ExposureIsRecorded, Owned
<1>11. UserTextSurvives'
  BY DEF UserTextSurvives, Kept
<1> QED
  BY <1>1, <1>2, <1>3, <1>4, <1>5, <1>6, <1>7, <1>8, <1>9, <1>10, <1>11

LEMMA UserEditKeeps ==
  ASSUME JournalInv, UserEdit
  PROVE  JournalInv'
<1> USE JournalAssumption DEF JournalInv, filesVars
<1>a. PICK c \in Edits(config.text), renamed \in BOOLEAN :
        /\ config' = [text |-> c, id |-> IF renamed THEN config.id + 1 ELSE config.id]
        /\ last' = c
        /\ routeBy' = IF c.route = "ours" /\ config.text.route # "ours" THEN "user" ELSE routeBy
  BY DEF UserEdit
<1>b. /\ budget' = [budget EXCEPT !.edits = @ + 1] /\ budget.edits < MaxEdits
      /\ journal' = journal /\ task' = task /\ mem' = mem /\ op' = op /\ ctl' = ctl
  BY DEF UserEdit
<1>r. raced' = (raced \/ op.at = "replace")
  BY DEF UserEdit
<1>c. config \in Files /\ config.text \in Contents /\ config.id \in Nat
  BY DEF JournalTypeOK, Files
<1>d. /\ c \in Contents /\ (~Exists(c) => c = Absent)
      /\ routeBy = "never" => (c.route # "ours" \/ config.text.route = "ours")
                              /\ (c.tools # "ours" \/ config.text.tools = "ours")
      /\ routeBy = "never" /\ config.text.tools = "none" => c.tools = "none"
  <2>1. CASE ~Exists(config.text)
    BY <1>a, <2>1, AbsentIsEmpty DEF Edits, Contents, Blank, Exists
  <2>2. CASE Exists(config.text)
    BY <1>a, <1>c, <2>2, AbsentIsEmpty DEF Edits, Contents, Exists
  <2> QED
    BY <2>1, <2>2
<1>f. raced' \in BOOLEAN
  <2>1. raced \in BOOLEAN
    BY DEF JournalTypeOK
  <2> QED
    BY <1>r, <2>1
<1>e. /\ config'.text = c /\ config' \in Files /\ routeBy' \in {"never", "us", "user"}
      /\ (routeBy = "never" <=> routeBy' = "never")
      /\ (c.route = "ours" /\ routeBy' = "us") => Owned
  BY <1>a, <1>c, <1>d DEF Files, Owned, JournalTypeOK, FileFits
<1>1. JournalTypeOK'
  <2>1. budget' \in [edits: 0..MaxEdits, faults: 0..MaxFaults, crashes: 0..MaxCrashes]
    BY <1>b DEF JournalTypeOK
  <2> QED
    BY <1>a, <1>b, <1>d, <1>e, <1>f, <2>1 DEF JournalTypeOK
<1>2. ProcessFits'
  BY <1>b DEF ProcessFits
<1>3. FileFits'
  BY <1>a, <1>b, <1>d, <1>e DEF FileFits
<1>4. PreflightFits'
  BY <1>b, <1>e DEF PreflightFits
<1>5. SuperviseFits'
  BY <1>b DEF SuperviseFits
<1>6. ApplyFits'
  BY <1>b, <1>e DEF ApplyFits
<1>7. UndoFits'
  BY <1>a, <1>b, <1>e DEF UndoFits, Owned
<1>8. IdleFits'
  BY <1>b DEF IdleFits
<1>9. ReplacesTheChecked'
  <2>1. op.at = "replace" => raced'
    BY <1>r
  <2> QED
    BY <1>b, <2>1 DEF ReplacesTheChecked
<1>10. ExposureIsRecorded'
  BY <1>a, <1>b, <1>e DEF ExposureIsRecorded, Owned
<1>11. UserTextSurvives'
  <2>1. Kept(last, config.text)'
    BY <1>a, <1>b, <1>e DEF Kept
  <2> QED
    BY <2>1 DEF UserTextSurvives
<1> QED
  BY <1>1, <1>2, <1>3, <1>4, <1>5, <1>6, <1>7, <1>8, <1>9, <1>10, <1>11

LEMMA UserChangesTaskKeeps ==
  ASSUME JournalInv, UserChangesTask
  PROVE  JournalInv'
<1> USE JournalAssumption DEF JournalInv, UserChangesTask, filesVars
<1>1. JournalTypeOK'
  <2>1. budget' \in [edits: 0..MaxEdits, faults: 0..MaxFaults, crashes: 0..MaxCrashes]
    BY DEF JournalTypeOK
  <2> QED
    BY <2>1 DEF JournalTypeOK
<1>2. ProcessFits'
  BY DEF JournalTypeOK, ProcessFits, IdleOp
<1>3. FileFits'
  BY DEF JournalTypeOK, FileFits, ProcessFits
<1>4. PreflightFits'
  BY DEF JournalTypeOK, PreflightFits, ProcessFits, Mems
<1>5. SuperviseFits'
  BY DEF JournalTypeOK, SuperviseFits, ProcessFits, Mems, Ops, IdleOp
<1>6. ApplyFits'
  BY DEF JournalTypeOK, ApplyFits, ProcessFits, Mems, Ops, IdleOp
<1>7. UndoFits'
  BY DEF JournalTypeOK, UndoFits, ProcessFits, Mems, Ops, IdleOp, Owned
<1>8. IdleFits'
  BY DEF JournalTypeOK, IdleFits, IdleOp, Ops
<1>9. ReplacesTheChecked'
  BY DEF JournalTypeOK, ReplacesTheChecked, IdleOp, Ops
<1>10. ExposureIsRecorded'
  BY DEF JournalTypeOK, ExposureIsRecorded, Owned
<1>11. UserTextSurvives'
  BY DEF UserTextSurvives, Kept
<1> QED
  BY <1>1, <1>2, <1>3, <1>4, <1>5, <1>6, <1>7, <1>8, <1>9, <1>10, <1>11

LEMMA JournalInitially ==
  ASSUME JournalInit
  PROVE  JournalInv
<1> USE JournalAssumption DEF JournalInit
<1>1. PICK c \in Originals : config = [text |-> c, id |-> 0] /\ last = c
  OBVIOUS
<1>2. c \in Contents /\ c.route # "ours" /\ c.tools = "none" /\ (~Exists(c) => c = Absent)
  OBVIOUS
<1>3. config \in Files /\ config.text = c /\ last \in Contents
  BY <1>1, <1>2 DEF Files
<1>4. budget \in [edits: 0..MaxEdits, faults: 0..MaxFaults, crashes: 0..MaxCrashes]
  OBVIOUS
<1>5. JournalTypeOK
  BY <1>3, <1>4, IdleIsAnOp, NothingIsHeld, NoJournalIsRecord DEF JournalTypeOK
<1>6. ProcessFits /\ PreflightFits
  BY DEF ProcessFits, PreflightFits, NoMem
<1>7. FileFits
  BY <1>1, <1>2, <1>3 DEF FileFits
<1>8. SuperviseFits /\ ApplyFits /\ UndoFits /\ IdleFits /\ ReplacesTheChecked
  BY DEF SuperviseFits, ApplyFits, UndoFits, IdleFits, ReplacesTheChecked, IdleOp
<1>9. ExposureIsRecorded /\ UserTextSurvives
  BY <1>1, <1>3 DEF ExposureIsRecorded, Owned, UserTextSurvives, Kept
<1> QED
  BY <1>5, <1>6, <1>7, <1>8, <1>9 DEF JournalInv

LEMMA JournalStep ==
  ASSUME JournalInv, [JournalNext]_journalVars
  PROVE  JournalInv'
<1>1. CASE UNCHANGED journalVars
  BY <1>1 DEF JournalInv, JournalTypeOK, ProcessFits, FileFits, PreflightFits, SuperviseFits, ApplyFits,
     UndoFits, IdleFits, ReplacesTheChecked, ExposureIsRecorded, UserTextSurvives, Kept, Owned,
     journalVars, filesVars
<1>2. CASE Reserve \/ RecordCatalog \/ RecordWeb \/ PrepareScheduler \/ ApplyStart \/ ExtendWeb
  BY <1>2, ReserveKeeps, RecordCatalogKeeps, RecordWebKeeps, PrepareSchedulerKeeps, ApplyStartKeeps,
     ExtendWebKeeps
<1>3. CASE Continue
  BY <1>3, RegisterTaskKeeps, RecordSchedulerKeeps, CommitCheckKeeps, CommitReplaceKeeps,
     RemoveFileKeeps, SameFileKeeps, ReadBackKeeps, ApplyStoreKeeps, DisconnectPlanKeeps,
     DisconnectStoreKeeps DEF Continue
<1>4. CASE DisconnectStart \/ Reopen \/ Crash \/ UserEdit \/ UserChangesTask
  BY <1>4, DisconnectStartKeeps, ReopenKeeps, CrashKeeps, UserEditKeeps, UserChangesTaskKeeps
<1> QED
  BY <1>1, <1>2, <1>3, <1>4 DEF JournalNext

LEMMA JournalAlways == JournalSpec => []JournalInv
<1>1. JournalInit => JournalInv
  BY JournalInitially
<1>2. JournalInv /\ [JournalNext]_journalVars => JournalInv'
  BY JournalStep
<1> QED
  BY <1>1, <1>2, PTL DEF JournalSpec

\* JournalTypeOK (ConfigJournal): the journal of journal.rs, the process that works with it,
\* the user's file and the startup task stay in range through every crash and every failure.
THEOREM JournalTypeCorrect == JournalSpec => []JournalTypeOK
<1>1. JournalInv => JournalTypeOK
  BY DEF JournalInv
<1> QED
  BY <1>1, JournalAlways, PTL

\* UserTextSurvives (ConfigJournal), for any set of original files and any number of crashes
\* and failures: applying and restoring (journal.rs, editor.rs) leave what the user wrote as
\* it was, unless a foreign program wrote between a check and the replacement.
THEOREM UserTextIsKept == JournalSpec => []UserTextSurvives
<1>1. JournalInv => UserTextSurvives
  BY DEF JournalInv
<1> QED
  BY <1>1, JournalAlways, PTL

LEMMA UninstallIsTold ==
  ASSUME JournalInv
  PROVE  UninstallMissesNothing
<1> SUFFICES ASSUME routeBy # "never",
                    config.text.route = "ours" \/ config.text.tools = "ours"
             PROVE  UninstallFinds
  BY DEF UninstallMissesNothing
<1>1. journal # NoJournal /\ journal.scheduler = "registered" /\ journal \in Records
  BY DEF JournalInv, FileFits, JournalTypeOK
<1>2. ControlFinds
  BY <1>1 DEF ControlFinds
<1>3. ~ReplacedAfterRemoval(config.text)
  BY DEF ReplacedAfterRemoval
<1>4. config.text \in Contents /\ journal.original \in Contents
  BY <1>1 DEF JournalInv, JournalTypeOK, Files, Records
<1>5. RestoredText(journal.original, config.text) # config.text
  BY <1>4, RestoredIsNotOurs
<1> QED
  BY <1>2, <1>3, <1>5 DEF UninstallFinds

\* NoKeyIsForgotten (ConfigJournal), for the same: before a key of ours is in the user's file
\* the journal on disk says so, and while one is there the uninstaller finds the installation.
THEOREM KeysAreNotForgotten == JournalSpec => []NoKeyIsForgotten
<1>1. JournalInv => NoKeyIsForgotten
  BY UninstallIsTold DEF JournalInv, NoKeyIsForgotten
<1> QED
  BY <1>1, JournalAlways, PTL

-----------------------------------------------------------------------------
(* The undo log. *)

LEMMA UndoLogBegins ==
  ASSUME JournalInit
  PROVE  Undo!Init
<1>1. journal = NoJournal /\ routeBy = "never" /\ journal.phase = "none"
  BY DEF JournalInit, NoJournal
<1>2. /\ (journal # NoJournal) = FALSE /\ Owned = FALSE /\ (routeBy # "never") = FALSE
      /\ (journal.phase \in {"Disconnecting", "ConfigRestored"}) = FALSE
      /\ (journal.phase = "ConfigRestored") = FALSE
  BY <1>1 DEF Owned
<1> QED
  BY <1>2 DEF Undo!Init

\* What the undo log sees of a step that leaves the file alone and does not say that
\* something was removed.
LEMMA QuietForTheUndoLog ==
  ASSUME UNCHANGED filesVars, journal # NoJournal, journal' # NoJournal,
         \/ journal'.phase = journal.phase
         \/ /\ journal.phase \notin {"Disconnecting", "ConfigRestored"}
            /\ journal'.phase \notin {"Disconnecting", "ConfigRestored"}
  PROVE  UNCHANGED Undo!vars
BY DEF Undo!vars, Owned, filesVars

\* What the undo log sees of a step that leaves the journal alone and does not put the
\* route into the file.
LEMMA WithdrawnOrNot ==
  ASSUME UNCHANGED journal, Owned' => Owned, routeBy' # "never" <=> routeBy # "never"
  PROVE  Undo!Withdraw \/ UNCHANGED Undo!vars
<1>1. (routeBy # "never")' = (routeBy # "never")
  OBVIOUS
<1>2. CASE Owned /\ ~Owned'
  <2>1. Owned' = FALSE
    BY <1>2
  <2> QED
    BY <1>1, <1>2, <2>1 DEF Undo!Withdraw
<1>3. CASE Owned <=> Owned'
  <2>1. Owned' = Owned
    BY <1>3 DEF Owned
  <2> QED
    BY <1>1, <2>1 DEF Undo!vars
<1> QED
  BY <1>2, <1>3

LEMMA UndoLogStep ==
  ASSUME JournalInv, JournalInv', [JournalNext]_journalVars
  PROVE  [Undo!Next]_Undo!vars
<1> USE DEF JournalInv
<1>1. /\ journal \in Records /\ mem \in Mems /\ mem.record \in Records
      /\ op \in Ops
      /\ mem.live /\ mem.fresh => journal = mem.record
  BY DEF JournalTypeOK, Mems, ProcessFits
<1>2. CASE UNCHANGED filesVars /\ UNCHANGED journal
  BY <1>2 DEF Undo!vars, Owned, filesVars
<1>3. CASE Reserve
  <2>1. NewRecord(config.text).phase = "Prepared" /\ NewRecord(config.text) # NoJournal
    BY DEF NewRecord, NoJournal
  <2>2. Undo!Log
    BY <1>3, <2>1 DEF Reserve, Undo!Log, Owned, NoJournal, filesVars
  <2> QED
    BY <2>2 DEF Undo!Next
<1>4. CASE RecordCatalog \/ RecordWeb \/ PrepareScheduler \/ RecordScheduler \/ ExtendWeb
  <2>1. mem.live /\ UNCHANGED filesVars
    BY <1>4 DEF RecordCatalog, RecordWeb, PrepareScheduler, RecordScheduler, ExtendWeb,
       Finish, Ready, ProcessFits, IdleOp
  <2>2. ASSUME RecordCatalog \/ RecordWeb
        PROVE  journal'.phase = journal.phase
    <3>1. mem.fresh
      BY <2>2 DEF RecordCatalog, RecordWeb, Finish, PreflightFits
    <3>2. journal' = journal \/ journal' = [journal EXCEPT !.catalog = TRUE]
                             \/ journal' = [journal EXCEPT !.web = 1]
      BY <1>1, <2>1, <2>2, <3>1 DEF RecordCatalog, RecordWeb, Finish, Stored
    <3> QED
      BY <1>1, <3>2 DEF Records
  <2>3. ASSUME PrepareScheduler \/ RecordScheduler \/ ExtendWeb
        PROVE  journal'.phase = journal.phase
    <3>1. \/ journal' = journal \/ journal' = [journal EXCEPT !.scheduler = "planned"]
          \/ journal' = [journal EXCEPT !.scheduler = "registered"]
          \/ journal' = [journal EXCEPT !.web = @ + 1]
      BY <1>1, <2>1, <2>3 DEF PrepareScheduler, RecordScheduler, ExtendWeb, Stored, StoreFails
    <3> QED
      BY <1>1, <3>1 DEF Records
  <2>4. journal'.phase = journal.phase
    BY <1>4, <2>2, <2>3
  <2>5. journal # NoJournal /\ journal' # NoJournal
    <3>1. journal # NoJournal /\ Sound(journal)
      BY <2>1 DEF ProcessFits, FileFits
    <3>2. journal.phase # "none"
      BY <1>1, <3>1, RecordsStaySound DEF Phases
    <3> QED
      BY <2>4, <3>1, <3>2 DEF NoJournal
  <2> QED
    BY <2>1, <2>4, <2>5, QuietForTheUndoLog
<1>5. CASE ApplyStore
  <2>1. mem.live /\ op.kind = "apply" /\ mem.fresh /\ mem.record.phase = "Prepared"
    BY <1>5 DEF ApplyStore, ProcessFits, ApplyFits, IdleOp
  <2>2. journal' = journal \/ journal' = [journal EXCEPT !.phase = "ConfigApplied"]
    BY <1>1, <1>5, <2>1 DEF ApplyStore, Stored, StoreFails
  <2>3. journal.phase = "Prepared" /\ journal'.phase \in {"Prepared", "ConfigApplied"}
    BY <1>1, <2>1, <2>2 DEF Records
  <2>4. journal # NoJournal /\ journal' # NoJournal
    BY <2>3 DEF NoJournal
  <2> QED
    BY <1>5, <2>3, <2>4, QuietForTheUndoLog DEF ApplyStore
<1>6. CASE CommitReplace /\ ~UNCHANGED filesVars
  <2>1. /\ op.at = "replace" /\ mem.live /\ op.kind \in {"apply", "undo"} /\ UNCHANGED journal
        /\ journal # NoJournal /\ config' = [text |-> op.text, id |-> config.id + 1]
        /\ routeBy' = IF op.kind = "apply" THEN "us" ELSE routeBy
    BY <1>1, <1>6 DEF CommitReplace, ProcessFits, IdleOp, Ops, SuperviseFits, IdleFits
  <2>2. CASE op.kind = "apply"
    <3>1. routeBy = "never" /\ journal.phase = "Prepared" /\ op.text.route = "ours"
      BY <1>1, <2>1, <2>2, CandidateIsOurs DEF ApplyFits, Records
    <3>2. Undo!Expose
      BY <2>1, <2>2, <3>1 DEF Undo!Expose, Owned
    <3> QED
      BY <3>2 DEF Undo!Next
  <2>3. CASE op.kind = "undo"
    <3>1. op.text.route = "none"
      BY <2>1, <2>3 DEF UndoFits
    <3>2. ~Owned' /\ routeBy' = routeBy
      BY <2>1, <2>3, <3>1 DEF Owned
    <3>3. Undo!Withdraw \/ UNCHANGED Undo!vars
      BY <2>1, <3>2, WithdrawnOrNot
    <3> QED
      BY <3>3 DEF Undo!Next
  <2> QED
    BY <2>1, <2>2, <2>3
<1>7. CASE RemoveFile /\ ~UNCHANGED filesVars
  <2>1. UNCHANGED <<journal, routeBy>> /\ config'.text = Absent
    BY <1>7 DEF RemoveFile
  <2>2. ~Owned'
    BY <2>1, AbsentIsEmpty DEF Owned
  <2>3. Undo!Withdraw \/ UNCHANGED Undo!vars
    BY <2>1, <2>2, WithdrawnOrNot
  <2> QED
    BY <2>3 DEF Undo!Next
<1>8. CASE DisconnectPlan
  <2>1. op.at = "plan" /\ mem.live /\ op.kind = "undo" /\ UNCHANGED filesVars
    <3>1. op.at = "plan" /\ UNCHANGED filesVars
      BY <1>8 DEF DisconnectPlan
    <3>2. op.kind = "undo"
      BY <1>1, <3>1 DEF Ops, SuperviseFits, ApplyFits, IdleFits
    <3> QED
      BY <3>1, <3>2 DEF ProcessFits, IdleOp
  <2>2. mem.fresh /\ journal.phase # "ConfigRestored" /\ journal # NoJournal
    BY <1>1, <2>1 DEF UndoFits, ProcessFits
  <2>3. \/ journal' = journal
        \/ journal' = [journal EXCEPT !.phase = "Disconnecting",
                         !.undo = [before |-> op.snap.text,
                                   after |-> RestoredText(mem.record.original, op.snap.text)]]
    BY <1>1, <1>8, <2>1, <2>2 DEF DisconnectPlan
  <2>4. CASE journal' # journal
    <3>1. journal'.phase = "Disconnecting"
      BY <1>1, <2>3, <2>4 DEF Records
    <3>2. journal' # NoJournal
      BY <3>1 DEF NoJournal
    <3>3. Undo!Close \/ UNCHANGED Undo!vars
      BY <2>1, <2>2, <3>1, <3>2 DEF Undo!Close, Undo!vars, Owned, filesVars
    <3> QED
      BY <3>3 DEF Undo!Next
  <2> QED
    BY <1>2, <2>1, <2>4
<1>9. CASE DisconnectStore
  <2>1. /\ op.at = "store" /\ mem.live /\ op.kind = "undo" /\ UNCHANGED filesVars /\ ~Owned
        /\ mem.record.phase \in {"Disconnecting", "ConfigRestored"} /\ journal # NoJournal
    BY <1>1, <1>9 DEF DisconnectStore, ProcessFits, UndoFits, IdleOp
  <2>2. \/ journal' = journal
        \/ journal = mem.record /\ journal' = [journal EXCEPT !.phase = "ConfigRestored"]
    BY <1>1, <1>9, <2>1 DEF DisconnectStore, Stored, StoreFails
  <2>3. CASE journal' # journal
    <3>1. /\ journal'.phase = "ConfigRestored" /\ journal' # NoJournal
          /\ journal.phase \in {"Disconnecting", "ConfigRestored"}
      BY <1>1, <2>1, <2>2, <2>3 DEF Records, NoJournal
    <3>2. Undo!Confirm \/ UNCHANGED Undo!vars
      BY <2>1, <3>1 DEF Undo!Confirm, Undo!vars, Owned, filesVars
    <3> QED
      BY <3>2 DEF Undo!Next
  <2> QED
    BY <1>2, <2>1, <2>3
<1>10. CASE UserEdit
  <2>1. PICK c \in Edits(config.text) :
          /\ config'.text = c /\ UNCHANGED journal
          /\ routeBy' = IF c.route = "ours" /\ config.text.route # "ours" THEN "user" ELSE routeBy
    BY <1>10 DEF UserEdit
  <2>2. Owned' => Owned
    BY <2>1 DEF Owned
  <2>3. routeBy = "never" => c.route # "ours" \/ config.text.route = "ours"
    <3>1. config.text \in Contents
      BY DEF JournalTypeOK, Files
    <3>2. CASE ~Exists(config.text)
      BY <2>1, <3>2, AbsentIsEmpty DEF Edits, Contents, Blank, Exists
    <3>3. CASE Exists(config.text)
      BY <2>1, <3>1, <3>3, AbsentIsEmpty DEF Edits, Contents, Exists
    <3> QED
      BY <3>2, <3>3
  <2>4. routeBy # "never" <=> routeBy' # "never"
    BY <2>1, <2>3
  <2>5. Undo!Withdraw \/ UNCHANGED Undo!vars
    BY <2>1, <2>2, <2>4, WithdrawnOrNot
  <2> QED
    BY <2>5 DEF Undo!Next
<1> QED
  BY <1>2, <1>3, <1>4, <1>5, <1>6, <1>7, <1>8, <1>9, <1>10
     DEF JournalNext, Continue, journalVars, CommitReplace, RemoveFile, RegisterTask, CommitCheck, SameFile, ReadBack, ApplyStart,
         DisconnectStart, Reopen, Crash, UserChangesTask

\* KeepsUndoLog (ConfigJournal): the journal implements the abstract undo log, step by step;
\* prepare, apply and disconnect of journal.rs are its logging, exposing and closing.
THEOREM ImplementsUndoLog == JournalSpec => KeepsUndoLog
<1>1. JournalInit => Undo!Init
  BY UndoLogBegins
<1>2. JournalInv /\ JournalInv' /\ [JournalNext]_journalVars => [Undo!Next]_Undo!vars
  BY UndoLogStep
<1> QED
  BY <1>1, <1>2, JournalAlways, PTL DEF JournalSpec, KeepsUndoLog, Undo!Spec

-----------------------------------------------------------------------------
\* The uninstaller.
\* No key of ours is left in the user's file, and no journal that could put one back.
Clean(h) == ~home[h].route /\ home[h].record \in {"none", "restored"}

\* Nothing is in the file before a journal says so.
HomesFit == \A h \in Homes : home[h].record = "none" => ~home[h].route

\* An instance has a number; a removal that the tool asked for waits for the work of the
\* instance that was seen idle.
HostsFit ==
  \A h \in Homes :
    /\ host[h].up => host[h].run # 0
    /\ host[h].receipt = "running" =>
         h \in past.touched /\ host[h].job = "whenIdle" /\ host[h].run = tool.ready[h]

\* What the listing under way, or the one that the call relies on, has found to be clean.
Looking == {"listing", "listingAgain"}
Clearing == {"locking", "validating", "clearing"}
ListingFits ==
  /\ tool.at \in Clearing => tool.goal = "clear"
  /\ \/ tool.at \in Clearing
     \/ tool.at = "succeeded" /\ tool.goal # "check"
     => tool.left = {} /\ tool.found = {} /\ ~tool.invalid
  /\ \/ tool.at \in Looking \cup Clearing
     \/ tool.at = "succeeded" /\ tool.goal # "check"
     => tool.invalid \/ \A h \in Homes \ (tool.left \cup tool.found \cup past.late) : Clean(h)

\* The order of an uninstallation: list, look at every host, ask one after the other.
CallFits ==
  /\ tool.at = "checking" =>
       /\ tool.goal # "clear" /\ past.touched = {}
       /\ \A h \in tool.found \ tool.left : tool.ready[h] # 0
  /\ tool.at \in {"removing", "waiting", "confirming", "listingAgain"} => tool.goal = "uninstall"
  /\ tool.at \in {"removing", "waiting", "confirming"} =>
       \A h \in tool.found : tool.ready[h] # 0
  /\ tool.at \in {"listing"} \cup Clearing => past.touched = {}
  /\ past.touched # {} => tool.goal = "uninstall"

\* A session is deleted under the lock of its profile.
LockFits == tool.at \in {"validating", "clearing"} => profile.lock = Tool

UninstallInv ==
  /\ UninstallTypeOK
  /\ HomesFit /\ HostsFit /\ ListingFits /\ CallFits /\ LockFits
  /\ NoWorkIsCut

-----------------------------------------------------------------------------
LEMMA CallsMove ==
  ASSUME NEW t \in Calls
  PROVE  /\ \A at \in {"listing", "checking", "removing", "waiting", "confirming", "listingAgain",
                       "locking", "validating", "clearing", "succeeded", "failed"} :
              [t EXCEPT !.at = at] \in Calls
         /\ \A l \in SUBSET Homes : [t EXCEPT !.at = "checking", !.left = l] \in Calls
         /\ \A l \in SUBSET Homes : [t EXCEPT !.at = "removing", !.left = l] \in Calls
BY DEF Calls

LEMMA CallsAsk ==
  ASSUME NEW t \in Calls, NEW h \in Homes
  PROVE  LET next == [t EXCEPT !.at = "waiting", !.left = @ \ {h}, !.asked = {h}]
         IN  /\ next \in Calls /\ next.at = "waiting" /\ next.goal = t.goal
             /\ next.ready = t.ready /\ next.found = t.found
BY DEF Calls

LEMMA HostsMove ==
  ASSUME NEW s \in HostStates
  PROVE  /\ LET next == [s EXCEPT !.job = "whenIdle", !.receipt = "running"]
            IN  next \in HostStates /\ next.run = s.run /\ next.up = s.up /\ next.job = "whenIdle"
BY DEF HostStates


LEMMA InventoryKeeps ==
  ASSUME UninstallInv, Inventory
  PROVE  UninstallInv'
<1> USE UninstallAssumption DEF UninstallInv
<1>a. PICK h \in tool.left :
        /\ tool' = [tool EXCEPT !.left = @ \ {h}, !.invalid = @ \/ home[h].record = "broken",
                    !.found = IF AttachmentTarget(h) THEN @ \cup {h} ELSE @]
        /\ past' = [past EXCEPT !.late = @ \ {h}]
  BY DEF Inventory
<1>b. /\ UNCHANGED <<home, host, profile, disturbed>> /\ tool.at \in Looking
      /\ tool \in Calls /\ tool.left \subseteq Homes /\ tool.found \subseteq Homes /\ h \in Homes
  BY <1>a DEF Inventory, UninstallTypeOK, Calls, Looking
<1> DEFINE invalid == tool.invalid \/ home[h].record = "broken"
           found == IF AttachmentTarget(h) THEN tool.found \cup {h} ELSE tool.found
<1>c. /\ invalid \in BOOLEAN /\ found \in SUBSET Homes
      /\ ~tool.invalid /\ home[h].record # "broken" => ~invalid
      /\ tool.found \subseteq found /\ (AttachmentTarget(h) => h \in found)
      /\ tool.invalid => invalid
  BY <1>b DEF Calls
<1>d. tool' = [tool EXCEPT !.left = tool.left \ {h}, !.invalid = invalid, !.found = found]
  BY <1>a
<1> HIDE DEF invalid, found
<1>e. /\ tool' \in Calls /\ tool'.at = tool.at /\ tool'.goal = tool.goal /\ tool'.ready = tool.ready
      /\ tool'.left = tool.left \ {h} /\ tool'.invalid = invalid /\ tool'.found = found
  BY <1>b, <1>c, <1>d DEF Calls
<1>f. /\ past'.late = past.late \ {h} /\ past'.touched = past.touched /\ past'.cut = past.cut
      /\ past' \in [late: SUBSET Homes, touched: SUBSET Homes, cut: BOOLEAN]
  BY <1>a DEF UninstallTypeOK
<1>1. UninstallTypeOK'
  BY <1>b, <1>e, <1>f DEF UninstallTypeOK
<1>2. HomesFit'
  BY <1>b, <1>e, <1>f DEF HomesFit
<1>3. HostsFit'
  BY <1>b, <1>e, <1>f DEF HostsFit
<1>4. ListingFits'
  <2>1. ~tool.invalid /\ home[h].record # "broken" /\ ~AttachmentTarget(h) => Clean(h)
    BY <1>b DEF AttachmentTarget, Clean, HomesFit, UninstallTypeOK
  <2>2. ~tool'.invalid => ~tool.invalid /\ home[h].record # "broken"
    BY <1>b, <1>c, <1>e DEF Calls, UninstallTypeOK, invalid
  <2>3. ~tool'.invalid =>
          \A g \in Homes \ (tool'.left \cup tool'.found \cup past'.late) : Clean(g)
    BY <1>b, <1>c, <1>e, <1>f, <2>1, <2>2 DEF ListingFits
  <2> QED
    BY <1>b, <1>e, <2>3 DEF ListingFits, Looking, Clearing, Clean
<1>5. CallFits'
  BY <1>b, <1>e, <1>f DEF CallFits, Clearing, Looking
<1>6. LockFits'
  BY <1>b, <1>e, <1>f DEF LockFits, Looking
<1>7. NoWorkIsCut'
  BY <1>b, <1>e, <1>f DEF NoWorkIsCut
<1> QED
  BY <1>1, <1>2, <1>3, <1>4, <1>5, <1>6, <1>7

LEMMA RequireDisconnectedKeeps ==
  ASSUME UninstallInv, RequireDisconnected
  PROVE  UninstallInv'
<1> USE UninstallAssumption DEF UninstallInv, RequireDisconnected, Listed, Ends
<1>1. UninstallTypeOK'
  <2>1. tool' \in Calls
    BY CallsMove DEF UninstallTypeOK
  <2>2. host' \in [Homes -> HostStates]
    BY DEF UninstallTypeOK
  <2>3. home' \in [Homes -> [record: {"none", "applied", "restored", "broken"}, route: BOOLEAN]]
    BY DEF UninstallTypeOK
  <2>4. /\ profile' \in [lock: Homes \cup {Free, Tool}, session: {"kept", "partly", "gone"}]
        /\ disturbed' \in 0..MaxDisturbances
    BY DEF UninstallTypeOK
  <2>5. past' \in [late: SUBSET Homes, touched: SUBSET Homes, cut: BOOLEAN]
    BY DEF UninstallTypeOK
  <2> QED
    BY <2>1, <2>2, <2>3, <2>4, <2>5 DEF UninstallTypeOK
<1>2. HomesFit'
  BY DEF UninstallTypeOK, Calls, HostStates, HomesFit
<1>3. HostsFit'
  BY DEF UninstallTypeOK, Calls, HostStates, HostsFit
<1>4. ListingFits'
  BY DEF UninstallTypeOK, Calls, HostStates, ListingFits, Looking, Clearing, Clean
<1>5. CallFits'
  BY DEF UninstallTypeOK, Calls, HostStates, CallFits, Clearing
<1>6. LockFits'
  BY DEF UninstallTypeOK, Calls, HostStates, LockFits
<1>7. NoWorkIsCut'
  BY DEF UninstallTypeOK, Calls, HostStates, NoWorkIsCut
<1> QED
  BY <1>1, <1>2, <1>3, <1>4, <1>5, <1>6, <1>7

LEMMA StartPreflightKeeps ==
  ASSUME UninstallInv, StartPreflight
  PROVE  UninstallInv'
<1> USE UninstallAssumption DEF UninstallInv
<1>a. /\ UNCHANGED <<home, host, profile, disturbed, past>> /\ tool \in Calls
      /\ tool.at = "listing" /\ tool.left = {} /\ tool.goal # "clear"
      /\ \/ tool' = [tool EXCEPT !.at = "failed"]
         \/ tool' = [tool EXCEPT !.at = "checking", !.left = tool.found]
  BY DEF StartPreflight, Listed, Ends, UninstallTypeOK
<1>b. /\ tool' \in Calls /\ tool'.goal = tool.goal /\ tool'.ready = tool.ready
      /\ tool'.found = tool.found
      /\ tool'.at = "failed" \/ (tool'.at = "checking" /\ tool'.left = tool.found)
  BY <1>a DEF Calls
<1>1. UninstallTypeOK'
  BY <1>a, <1>b DEF UninstallTypeOK
<1>2. HomesFit'
  BY <1>a, <1>b DEF HomesFit
<1>3. HostsFit'
  BY <1>a, <1>b DEF HostsFit
<1>4. ListingFits'
  BY <1>a, <1>b DEF ListingFits, Clearing, Looking
<1>5. CallFits'
  BY <1>a, <1>b DEF CallFits, Clearing, Calls
<1>6. LockFits'
  BY <1>a, <1>b DEF LockFits
<1>7. NoWorkIsCut'
  BY <1>a, <1>b DEF NoWorkIsCut
<1> QED
  BY <1>1, <1>2, <1>3, <1>4, <1>5, <1>6, <1>7

LEMMA ConfirmNoneLeftKeeps ==
  ASSUME UninstallInv, ConfirmNoneLeft
  PROVE  UninstallInv'
<1> USE UninstallAssumption DEF UninstallInv, ConfirmNoneLeft, Listed, Ends
<1>1. UninstallTypeOK'
  <2>1. tool' \in Calls
    BY CallsMove DEF UninstallTypeOK
  <2>2. host' \in [Homes -> HostStates]
    BY DEF UninstallTypeOK
  <2>3. home' \in [Homes -> [record: {"none", "applied", "restored", "broken"}, route: BOOLEAN]]
    BY DEF UninstallTypeOK
  <2>4. /\ profile' \in [lock: Homes \cup {Free, Tool}, session: {"kept", "partly", "gone"}]
        /\ disturbed' \in 0..MaxDisturbances
    BY DEF UninstallTypeOK
  <2>5. past' \in [late: SUBSET Homes, touched: SUBSET Homes, cut: BOOLEAN]
    BY DEF UninstallTypeOK
  <2> QED
    BY <2>1, <2>2, <2>3, <2>4, <2>5 DEF UninstallTypeOK
<1>2. HomesFit'
  BY DEF UninstallTypeOK, Calls, HostStates, HomesFit
<1>3. HostsFit'
  BY DEF UninstallTypeOK, Calls, HostStates, HostsFit
<1>4. ListingFits'
  BY DEF UninstallTypeOK, Calls, HostStates, ListingFits, Looking, Clearing, Clean
<1>5. CallFits'
  BY DEF UninstallTypeOK, Calls, HostStates, CallFits, Clearing
<1>6. LockFits'
  BY DEF UninstallTypeOK, Calls, HostStates, LockFits
<1>7. NoWorkIsCut'
  BY DEF UninstallTypeOK, Calls, HostStates, NoWorkIsCut
<1> QED
  BY <1>1, <1>2, <1>3, <1>4, <1>5, <1>6, <1>7

LEMMA PreflightKeeps ==
  ASSUME UninstallInv, Preflight
  PROVE  UninstallInv'
<1> USE UninstallAssumption DEF UninstallInv
<1>a. PICK h \in tool.left :
        \/ /\ host[h].up
           /\ tool' = [tool EXCEPT !.left = tool.left \ {h}, !.ready = [tool.ready EXCEPT ![h] = host[h].run]]
        \/ tool' = [tool EXCEPT !.at = "failed"]
  <2>1. PICK h \in tool.left :
          IF Readable(h) /\ UninstallIdle(h)
          THEN tool' = [tool EXCEPT !.left = tool.left \ {h}, !.ready = [tool.ready EXCEPT ![h] = host[h].run]]
          ELSE tool' = [tool EXCEPT !.at = "failed"]
    BY DEF Preflight, Ends
  <2> QED
    BY <2>1 DEF Readable
<1>b. /\ UNCHANGED <<home, host, profile, disturbed, past>> /\ tool \in Calls /\ tool.at = "checking"
      /\ h \in Homes /\ tool.left \subseteq Homes /\ tool.found \subseteq Homes
      /\ tool.ready \in [Homes -> 0..MaxDisturbances + 1]
      /\ host[h].run \in 0..MaxDisturbances + 1
  BY <1>a DEF Preflight, UninstallTypeOK, Calls, HostStates
<1>c. CASE tool' = [tool EXCEPT !.at = "failed"]
  <2>1. tool' \in Calls /\ tool'.at = "failed" /\ tool'.goal = tool.goal /\ tool'.ready = tool.ready
    BY <1>b, <1>c DEF Calls
  <2> QED
    BY <1>b, <2>1 DEF UninstallTypeOK, HomesFit, HostsFit, ListingFits, CallFits, LockFits,
       NoWorkIsCut, Looking, Clearing, Clean
<1>d. CASE /\ host[h].up
           /\ tool' = [tool EXCEPT !.left = tool.left \ {h}, !.ready = [tool.ready EXCEPT ![h] = host[h].run]]
  <2>1. /\ tool' \in Calls /\ tool'.at = tool.at /\ tool'.goal = tool.goal
        /\ tool'.ready = [tool.ready EXCEPT ![h] = host[h].run]
        /\ tool'.left = tool.left \ {h} /\ tool'.found = tool.found
    BY <1>b, <1>d DEF Calls
  <2>2. past.touched = {} /\ host[h].run # 0
    BY <1>b, <1>d DEF CallFits, HostsFit
  <2>3. CallFits'
    BY <1>b, <2>1, <2>2 DEF CallFits, Clearing
  <2>4. HostsFit'
    BY <1>b, <2>1, <2>2 DEF HostsFit
  <2> QED
    BY <1>b, <2>1, <2>3, <2>4 DEF UninstallTypeOK, HomesFit, ListingFits, LockFits,
       NoWorkIsCut, Looking, Clearing, Clean
<1> QED
  BY <1>a, <1>c, <1>d

LEMMA StartRemovingKeeps ==
  ASSUME UninstallInv, StartRemoving
  PROVE  UninstallInv'
<1> USE UninstallAssumption DEF UninstallInv
<1>a. /\ UNCHANGED <<home, host, profile, disturbed, past>> /\ tool \in Calls
      /\ tool.at = "checking" /\ tool.left = {}
      /\ \/ tool' = [tool EXCEPT !.at = "succeeded"] /\ tool.goal = "check"
         \/ tool' = [tool EXCEPT !.at = "removing", !.left = tool.found] /\ tool.goal # "check"
  BY DEF StartRemoving, Ends, UninstallTypeOK
<1>b. /\ tool' \in Calls /\ tool'.goal = tool.goal /\ tool'.ready = tool.ready
      /\ tool'.found = tool.found
      /\ \/ tool'.at = "succeeded" /\ tool.goal = "check"
         \/ tool'.at = "removing" /\ tool'.left = tool.found /\ tool.goal # "check"
  BY <1>a DEF Calls
<1>1. UninstallTypeOK'
  BY <1>a, <1>b DEF UninstallTypeOK
<1>2. HomesFit'
  BY <1>a, <1>b DEF HomesFit
<1>3. HostsFit'
  BY <1>a, <1>b DEF HostsFit
<1>4. ListingFits'
  BY <1>a, <1>b DEF ListingFits, Clearing, Looking
<1>5. CallFits'
  BY <1>a, <1>b DEF CallFits, Clearing, Calls
<1>6. LockFits'
  BY <1>a, <1>b DEF LockFits
<1>7. NoWorkIsCut'
  BY <1>a, <1>b DEF NoWorkIsCut
<1> QED
  BY <1>1, <1>2, <1>3, <1>4, <1>5, <1>6, <1>7

LEMMA RequestRemovalKeeps ==
  ASSUME UninstallInv, RequestRemoval
  PROVE  UninstallInv'
<1> USE UninstallAssumption DEF UninstallInv
<1>a. PICK h \in tool.left :
        \/ /\ host[h].up /\ host[h].run = tool.ready[h] /\ host[h].job = "none"
           /\ host' = [host EXCEPT ![h].job = "whenIdle", ![h].receipt = "running"]
           /\ past' = [past EXCEPT !.touched = @ \cup {h}]
           /\ tool' = [tool EXCEPT !.at = "waiting", !.left = @ \ {h}, !.asked = {h}]
           /\ UNCHANGED disturbed
        \/ Ends("failed") /\ UNCHANGED <<host, disturbed, past>>
        \/ /\ tool' = [tool EXCEPT !.at = "waiting", !.left = @ \ {h}, !.asked = {h}]
           /\ UNCHANGED <<host, past>> /\ (Disturbance \/ UNCHANGED disturbed)
  BY DEF RequestRemoval, UninstallAction
<1>b. /\ UNCHANGED <<home, profile>> /\ tool \in Calls /\ tool.at = "removing" /\ tool.goal = "uninstall"
      /\ h \in Homes /\ tool.left \subseteq Homes /\ host \in [Homes -> HostStates]
      /\ host[h] \in HostStates
  BY <1>a DEF RequestRemoval, UninstallTypeOK, Calls, CallFits
<1>c. /\ tool' \in Calls /\ tool'.at \in {"failed", "waiting"} /\ tool'.goal = tool.goal
      /\ tool'.ready = tool.ready /\ tool'.found = tool.found
  <2>1. CASE Ends("failed")
    BY <1>b, <2>1 DEF Calls, Ends
  <2>2. CASE tool' = [tool EXCEPT !.at = "waiting", !.left = @ \ {h}, !.asked = {h}]
    BY <1>b, <2>2, CallsAsk
  <2> QED
    BY <1>a, <2>1, <2>2
<1>d. /\ past'.cut = past.cut /\ past' \in [late: SUBSET Homes, touched: SUBSET Homes, cut: BOOLEAN]
      /\ past.touched \subseteq past'.touched
      /\ past'.late = past.late
      /\ host' # host => h \in past'.touched
  BY <1>a, <1>b DEF UninstallTypeOK
<1>e. /\ host' \in [Homes -> HostStates]
      /\ \A g \in Homes \ {h} : host'[g] = host[g]
      /\ host' # host => /\ host'[h].run = tool.ready[h] /\ host'[h].job = "whenIdle"
                         /\ host[h].up /\ host'[h].run = host[h].run
      /\ host'[h].up = host[h].up
  <2>1. CASE host' = host
    BY <1>b, <2>1
  <2>2. CASE /\ host' = [host EXCEPT ![h].job = "whenIdle", ![h].receipt = "running"]
             /\ host[h].up /\ host[h].run = tool.ready[h]
    <3> DEFINE new == [host[h] EXCEPT !.job = "whenIdle", !.receipt = "running"]
    <3>1. host' = [host EXCEPT ![h] = new]
      BY <1>b, <2>2 DEF HostStates
    <3>2. new \in HostStates /\ new.run = host[h].run /\ new.up = host[h].up /\ new.job = "whenIdle"
      BY <1>b, HostsMove
    <3> HIDE DEF new
    <3> QED
      BY <1>b, <2>2, <3>1, <3>2
  <2> QED
    BY <1>a, <2>1, <2>2
<1>1. UninstallTypeOK'
  <2>1. disturbed' \in 0..MaxDisturbances
    BY <1>a DEF UninstallTypeOK, Disturbance
  <2> QED
    BY <1>b, <1>c, <1>d, <1>e, <2>1 DEF UninstallTypeOK
<1>2. HomesFit'
  BY <1>b, <1>c, <1>d, <1>e DEF HomesFit
<1>3. HostsFit'
  BY <1>b, <1>c, <1>d, <1>e DEF HostsFit
<1>4. ListingFits'
  BY <1>b, <1>c, <1>d, <1>e DEF ListingFits, Clearing, Looking
<1>5. CallFits'
  BY <1>b, <1>c, <1>d, <1>e DEF CallFits, Clearing, Calls
<1>6. LockFits'
  BY <1>b, <1>c, <1>d, <1>e DEF LockFits
<1>7. NoWorkIsCut'
  BY <1>b, <1>c, <1>d, <1>e DEF NoWorkIsCut
<1> QED
  BY <1>1, <1>2, <1>3, <1>4, <1>5, <1>6, <1>7

LEMMA PollRemovalKeeps ==
  ASSUME UninstallInv, PollRemoval
  PROVE  UninstallInv'
<1>a. tool.at = "waiting" /\ UNCHANGED <<home, host, profile, disturbed, past>>
  BY DEF PollRemoval
<1>b. PICK at \in {"confirming", "failed"} : tool' = [tool EXCEPT !.at = at]
  BY DEF PollRemoval, Ends
<1>c. /\ tool' \in Calls /\ tool'.at = at
      /\ tool'.goal = tool.goal /\ tool'.found = tool.found /\ tool'.ready = tool.ready
  BY <1>b DEF UninstallInv, UninstallTypeOK, Calls
<1> USE DEF UninstallInv
<1>1. UninstallTypeOK'
  BY <1>a, <1>c DEF UninstallTypeOK
<1>2. HomesFit'
  BY <1>a DEF HomesFit
<1>3. HostsFit'
  BY <1>a, <1>c DEF HostsFit
<1>4. ListingFits'
  BY <1>c DEF ListingFits, Looking, Clearing
<1>5. CallFits'
  BY <1>a, <1>c DEF CallFits, Clearing
<1>6. LockFits'
  BY <1>c DEF LockFits
<1>7. NoWorkIsCut'
  BY <1>a DEF NoWorkIsCut
<1> QED
  BY <1>1, <1>2, <1>3, <1>4, <1>5, <1>6, <1>7

LEMMA ConfirmRemovalKeeps ==
  ASSUME UninstallInv, ConfirmRemoval
  PROVE  UninstallInv'
<1> USE UninstallAssumption DEF UninstallInv, ConfirmRemoval, Ends, Readable
<1>1. UninstallTypeOK'
  <2>1. tool' \in Calls
    BY CallsMove DEF UninstallTypeOK
  <2>2. host' \in [Homes -> HostStates]
    BY DEF UninstallTypeOK
  <2>3. home' \in [Homes -> [record: {"none", "applied", "restored", "broken"}, route: BOOLEAN]]
    BY DEF UninstallTypeOK
  <2>4. /\ profile' \in [lock: Homes \cup {Free, Tool}, session: {"kept", "partly", "gone"}]
        /\ disturbed' \in 0..MaxDisturbances
    BY DEF UninstallTypeOK
  <2>5. past' \in [late: SUBSET Homes, touched: SUBSET Homes, cut: BOOLEAN]
    BY DEF UninstallTypeOK
  <2> QED
    BY <2>1, <2>2, <2>3, <2>4, <2>5 DEF UninstallTypeOK
<1>2. HomesFit'
  BY DEF UninstallTypeOK, Calls, HostStates, HomesFit
<1>3. HostsFit'
  BY DEF UninstallTypeOK, Calls, HostStates, HostsFit
<1>4. ListingFits'
  BY DEF UninstallTypeOK, Calls, HostStates, ListingFits, Looking, Clearing, Clean
<1>5. CallFits'
  BY DEF UninstallTypeOK, Calls, HostStates, CallFits, Clearing
<1>6. LockFits'
  BY DEF UninstallTypeOK, Calls, HostStates, LockFits
<1>7. NoWorkIsCut'
  BY DEF UninstallTypeOK, Calls, HostStates, NoWorkIsCut
<1> QED
  BY <1>1, <1>2, <1>3, <1>4, <1>5, <1>6, <1>7

LEMMA ListAgainKeeps ==
  ASSUME UninstallInv, ListAgain
  PROVE  UninstallInv'
<1> USE UninstallAssumption DEF UninstallInv, ListAgain, StartListing
<1>1. UninstallTypeOK'
  <2>1. tool' \in Calls
    BY DEF UninstallTypeOK, Calls
  <2>2. host' \in [Homes -> HostStates]
    BY DEF UninstallTypeOK
  <2>3. home' \in [Homes -> [record: {"none", "applied", "restored", "broken"}, route: BOOLEAN]]
    BY DEF UninstallTypeOK
  <2>4. /\ profile' \in [lock: Homes \cup {Free, Tool}, session: {"kept", "partly", "gone"}]
        /\ disturbed' \in 0..MaxDisturbances
    BY DEF UninstallTypeOK
  <2>5. past' \in [late: SUBSET Homes, touched: SUBSET Homes, cut: BOOLEAN]
    BY DEF UninstallTypeOK
  <2> QED
    BY <2>1, <2>2, <2>3, <2>4, <2>5 DEF UninstallTypeOK
<1>2. HomesFit'
  BY DEF UninstallTypeOK, Calls, HostStates, HomesFit
<1>3. HostsFit'
  BY DEF UninstallTypeOK, Calls, HostStates, HostsFit
<1>4. ListingFits'
  BY DEF UninstallTypeOK, Calls, HostStates, ListingFits, Looking, Clearing, Clean
<1>5. CallFits'
  BY DEF UninstallTypeOK, Calls, HostStates, CallFits, Clearing
<1>6. LockFits'
  BY DEF UninstallTypeOK, Calls, HostStates, LockFits
<1>7. NoWorkIsCut'
  BY DEF UninstallTypeOK, Calls, HostStates, NoWorkIsCut
<1> QED
  BY <1>1, <1>2, <1>3, <1>4, <1>5, <1>6, <1>7

LEMMA LockSessionKeeps ==
  ASSUME UninstallInv, LockSession
  PROVE  UninstallInv'
<1> USE UninstallAssumption DEF UninstallInv, LockSession, Ends
<1>1. UninstallTypeOK'
  <2>1. tool' \in Calls
    BY CallsMove DEF UninstallTypeOK
  <2>2. host' \in [Homes -> HostStates]
    BY DEF UninstallTypeOK
  <2>3. home' \in [Homes -> [record: {"none", "applied", "restored", "broken"}, route: BOOLEAN]]
    BY DEF UninstallTypeOK
  <2>4. /\ profile' \in [lock: Homes \cup {Free, Tool}, session: {"kept", "partly", "gone"}]
        /\ disturbed' \in 0..MaxDisturbances
    BY DEF UninstallTypeOK
  <2>5. past' \in [late: SUBSET Homes, touched: SUBSET Homes, cut: BOOLEAN]
    BY DEF UninstallTypeOK
  <2> QED
    BY <2>1, <2>2, <2>3, <2>4, <2>5 DEF UninstallTypeOK
<1>2. HomesFit'
  BY DEF UninstallTypeOK, Calls, HostStates, HomesFit
<1>3. HostsFit'
  <2>1. UNCHANGED <<host, past>> /\ tool'.ready = tool.ready
    BY DEF UninstallTypeOK, Calls
  <2> QED
    BY <2>1 DEF HostsFit
<1>4. ListingFits'
  BY DEF UninstallTypeOK, Calls, HostStates, ListingFits, Looking, Clearing, Clean
<1>5. CallFits'
  BY DEF UninstallTypeOK, Calls, HostStates, CallFits, Clearing
<1>6. LockFits'
  BY DEF UninstallTypeOK, Calls, HostStates, LockFits
<1>7. NoWorkIsCut'
  BY DEF UninstallTypeOK, Calls, HostStates, NoWorkIsCut
<1> QED
  BY <1>1, <1>2, <1>3, <1>4, <1>5, <1>6, <1>7

LEMMA ValidateTreeKeeps ==
  ASSUME UninstallInv, ValidateTree
  PROVE  UninstallInv'
<1> USE UninstallAssumption DEF UninstallInv, ValidateTree, Ends, Unlocked, Disturbance
<1>1. UninstallTypeOK'
  <2>1. tool' \in Calls
    BY CallsMove DEF UninstallTypeOK
  <2>2. host' \in [Homes -> HostStates]
    BY DEF UninstallTypeOK
  <2>3. home' \in [Homes -> [record: {"none", "applied", "restored", "broken"}, route: BOOLEAN]]
    BY DEF UninstallTypeOK
  <2>4. /\ profile' \in [lock: Homes \cup {Free, Tool}, session: {"kept", "partly", "gone"}]
        /\ disturbed' \in 0..MaxDisturbances
    BY DEF UninstallTypeOK
  <2>5. past' \in [late: SUBSET Homes, touched: SUBSET Homes, cut: BOOLEAN]
    BY DEF UninstallTypeOK
  <2> QED
    BY <2>1, <2>2, <2>3, <2>4, <2>5 DEF UninstallTypeOK
<1>2. HomesFit'
  BY DEF UninstallTypeOK, Calls, HostStates, HomesFit
<1>3. HostsFit'
  BY DEF UninstallTypeOK, Calls, HostStates, HostsFit
<1>4. ListingFits'
  BY DEF UninstallTypeOK, Calls, HostStates, ListingFits, Looking, Clearing, Clean
<1>5. CallFits'
  BY DEF UninstallTypeOK, Calls, HostStates, CallFits, Clearing
<1>6. LockFits'
  BY DEF UninstallTypeOK, Calls, HostStates, LockFits
<1>7. NoWorkIsCut'
  BY DEF UninstallTypeOK, Calls, HostStates, NoWorkIsCut
<1> QED
  BY <1>1, <1>2, <1>3, <1>4, <1>5, <1>6, <1>7

LEMMA ClearSessionKeeps ==
  ASSUME UninstallInv, ClearSession
  PROVE  UninstallInv'
<1> USE UninstallAssumption DEF UninstallInv, ClearSession, Ends, Unlocked, Disturbance, Driven
<1>1. UninstallTypeOK'
  <2>1. tool' \in Calls
    BY CallsMove DEF UninstallTypeOK
  <2>2. host' \in [Homes -> HostStates]
    BY DEF UninstallTypeOK
  <2>3. home' \in [Homes -> [record: {"none", "applied", "restored", "broken"}, route: BOOLEAN]]
    BY DEF UninstallTypeOK
  <2>4. /\ profile' \in [lock: Homes \cup {Free, Tool}, session: {"kept", "partly", "gone"}]
        /\ disturbed' \in 0..MaxDisturbances
    BY DEF UninstallTypeOK
  <2>5. past' \in [late: SUBSET Homes, touched: SUBSET Homes, cut: BOOLEAN]
    BY DEF UninstallTypeOK
  <2> QED
    BY <2>1, <2>2, <2>3, <2>4, <2>5 DEF UninstallTypeOK
<1>2. HomesFit'
  BY DEF UninstallTypeOK, Calls, HostStates, HomesFit
<1>3. HostsFit'
  BY DEF UninstallTypeOK, Calls, HostStates, HostsFit
<1>4. ListingFits'
  BY SMTT(30) DEF UninstallTypeOK, Calls, HostStates, ListingFits, Looking, Clearing, Clean
<1>5. CallFits'
  BY DEF UninstallTypeOK, Calls, HostStates, CallFits, Clearing
<1>6. LockFits'
  BY DEF UninstallTypeOK, Calls, HostStates, LockFits
<1>7. NoWorkIsCut'
  <2>1. \A h \in Homes : ~Driven(h)
    BY DEF LockFits, Driven
  <2>2. past' = [past EXCEPT !.cut = past.cut \/ \E h \in Homes : Driven(h)]
    BY DEF ClearSession
  <2>3. past'.cut = past.cut
    BY <2>1, <2>2 DEF UninstallTypeOK
  <2> QED
    BY <2>3 DEF NoWorkIsCut
<1> QED
  BY <1>1, <1>2, <1>3, <1>4, <1>5, <1>6, <1>7

LEMMA ToolFailsKeeps ==
  ASSUME UninstallInv, ToolFails
  PROVE  UninstallInv'
<1> USE UninstallAssumption DEF UninstallInv, ToolFails, Ends, Disturbance
<1>1. UninstallTypeOK'
  <2>1. tool' \in Calls
    BY CallsMove DEF UninstallTypeOK
  <2>2. host' \in [Homes -> HostStates]
    BY DEF UninstallTypeOK
  <2>3. home' \in [Homes -> [record: {"none", "applied", "restored", "broken"}, route: BOOLEAN]]
    BY DEF UninstallTypeOK
  <2>4. /\ profile' \in [lock: Homes \cup {Free, Tool}, session: {"kept", "partly", "gone"}]
        /\ disturbed' \in 0..MaxDisturbances
    BY DEF UninstallTypeOK
  <2>5. past' \in [late: SUBSET Homes, touched: SUBSET Homes, cut: BOOLEAN]
    BY DEF UninstallTypeOK
  <2> QED
    BY <2>1, <2>2, <2>3, <2>4, <2>5 DEF UninstallTypeOK
<1>2. HomesFit'
  BY DEF UninstallTypeOK, Calls, HostStates, HomesFit
<1>3. HostsFit'
  BY DEF UninstallTypeOK, Calls, HostStates, HostsFit
<1>4. ListingFits'
  BY DEF UninstallTypeOK, Calls, HostStates, ListingFits, Looking, Clearing, Clean
<1>5. CallFits'
  BY DEF UninstallTypeOK, Calls, HostStates, CallFits, Clearing
<1>6. LockFits'
  BY DEF UninstallTypeOK, Calls, HostStates, LockFits
<1>7. NoWorkIsCut'
  BY DEF UninstallTypeOK, Calls, HostStates, NoWorkIsCut
<1> QED
  BY <1>1, <1>2, <1>3, <1>4, <1>5, <1>6, <1>7

LEMMA DriverStartsKeeps ==
  ASSUME UninstallInv, NEW h \in Homes, DriverStarts(h)
  PROVE  UninstallInv'
<1> USE UninstallAssumption DEF UninstallInv, DriverStarts
<1>1. UninstallTypeOK'
  <2>1. tool' \in Calls
    BY CallsMove DEF UninstallTypeOK
  <2>2. host' \in [Homes -> HostStates]
    BY DEF UninstallTypeOK
  <2>3. home' \in [Homes -> [record: {"none", "applied", "restored", "broken"}, route: BOOLEAN]]
    BY DEF UninstallTypeOK
  <2>4. /\ profile' \in [lock: Homes \cup {Free, Tool}, session: {"kept", "partly", "gone"}]
        /\ disturbed' \in 0..MaxDisturbances
    BY DEF UninstallTypeOK
  <2>5. past' \in [late: SUBSET Homes, touched: SUBSET Homes, cut: BOOLEAN]
    BY DEF UninstallTypeOK
  <2> QED
    BY <2>1, <2>2, <2>3, <2>4, <2>5 DEF UninstallTypeOK
<1>2. HomesFit'
  BY DEF UninstallTypeOK, Calls, HostStates, HomesFit
<1>3. HostsFit'
  BY DEF UninstallTypeOK, Calls, HostStates, HostsFit
<1>4. ListingFits'
  BY DEF UninstallTypeOK, Calls, HostStates, ListingFits, Looking, Clearing, Clean
<1>5. CallFits'
  BY DEF UninstallTypeOK, Calls, HostStates, CallFits, Clearing
<1>6. LockFits'
  <2>1. profile.lock # Tool
    BY DEF Free, Tool
  <2> QED
    BY <2>1 DEF LockFits
<1>7. NoWorkIsCut'
  BY DEF UninstallTypeOK, Calls, HostStates, NoWorkIsCut
<1> QED
  BY <1>1, <1>2, <1>3, <1>4, <1>5, <1>6, <1>7

LEMMA WebTurnKeeps ==
  ASSUME UninstallInv, NEW h \in Homes, WebTurn(h)
  PROVE  UninstallInv'
<1> USE UninstallAssumption DEF UninstallInv, WebTurn, Driven
<1>a. /\ host' = [host EXCEPT ![h] = [host[h] EXCEPT !.turn = ~host[h].turn]]
      /\ host[h] \in HostStates
  BY DEF UninstallTypeOK
<1>1. UninstallTypeOK'
  <2>1. tool' \in Calls
    BY CallsMove DEF UninstallTypeOK
  <2>2. host' \in [Homes -> HostStates]
    <3>1. [host[h] EXCEPT !.turn = ~host[h].turn] \in HostStates
      <4>1. (~host[h].turn) \in BOOLEAN
        OBVIOUS
      <4> QED
        BY <1>a, <4>1 DEF HostStates
    <3> QED
      BY <1>a, <3>1 DEF UninstallTypeOK
  <2>3. home' \in [Homes -> [record: {"none", "applied", "restored", "broken"}, route: BOOLEAN]]
    BY DEF UninstallTypeOK
  <2>4. /\ profile' \in [lock: Homes \cup {Free, Tool}, session: {"kept", "partly", "gone"}]
        /\ disturbed' \in 0..MaxDisturbances
    BY DEF UninstallTypeOK
  <2>5. past' \in [late: SUBSET Homes, touched: SUBSET Homes, cut: BOOLEAN]
    BY DEF UninstallTypeOK
  <2> QED
    BY <2>1, <2>2, <2>3, <2>4, <2>5 DEF UninstallTypeOK
<1>2. HomesFit'
  BY DEF UninstallTypeOK, Calls, HostStates, HomesFit
<1>3. HostsFit'
  BY DEF UninstallTypeOK, Calls, HostStates, HostsFit
<1>4. ListingFits'
  BY DEF UninstallTypeOK, Calls, HostStates, ListingFits, Looking, Clearing, Clean
<1>5. CallFits'
  BY DEF UninstallTypeOK, Calls, HostStates, CallFits, Clearing
<1>6. LockFits'
  BY DEF UninstallTypeOK, Calls, HostStates, LockFits
<1>7. NoWorkIsCut'
  BY DEF UninstallTypeOK, Calls, HostStates, NoWorkIsCut
<1> QED
  BY <1>1, <1>2, <1>3, <1>4, <1>5, <1>6, <1>7

LEMMA BeginDisconnectKeeps ==
  ASSUME UninstallInv, NEW h \in Homes, BeginDisconnect(h)
  PROVE  UninstallInv'
<1> USE UninstallAssumption DEF UninstallInv, BeginDisconnect
<1>1. UninstallTypeOK'
  <2>1. tool' \in Calls
    BY CallsMove DEF UninstallTypeOK
  <2>2. host' \in [Homes -> HostStates]
    BY SMTT(30) DEF UninstallTypeOK, HostStates
  <2>3. home' \in [Homes -> [record: {"none", "applied", "restored", "broken"}, route: BOOLEAN]]
    BY DEF UninstallTypeOK
  <2>4. /\ profile' \in [lock: Homes \cup {Free, Tool}, session: {"kept", "partly", "gone"}]
        /\ disturbed' \in 0..MaxDisturbances
    BY DEF UninstallTypeOK
  <2>5. past' \in [late: SUBSET Homes, touched: SUBSET Homes, cut: BOOLEAN]
    BY DEF UninstallTypeOK
  <2> QED
    BY <2>1, <2>2, <2>3, <2>4, <2>5 DEF UninstallTypeOK
<1>2. HomesFit'
  BY DEF UninstallTypeOK, Calls, HostStates, HomesFit
<1>3. HostsFit'
  BY SMTT(30) DEF UninstallTypeOK, Calls, HostStates, HostsFit
<1>4. ListingFits'
  BY DEF UninstallTypeOK, Calls, HostStates, ListingFits, Looking, Clearing, Clean
<1>5. CallFits'
  BY DEF UninstallTypeOK, Calls, HostStates, CallFits, Clearing
<1>6. LockFits'
  BY DEF UninstallTypeOK, Calls, HostStates, LockFits
<1>7. NoWorkIsCut'
  BY DEF UninstallTypeOK, Calls, HostStates, NoWorkIsCut
<1> QED
  BY <1>1, <1>2, <1>3, <1>4, <1>5, <1>6, <1>7

LEMMA EndDisconnectKeeps ==
  ASSUME UninstallInv, NEW h \in Homes, EndDisconnect(h)
  PROVE  UninstallInv'
<1> USE UninstallAssumption DEF UninstallInv
<1>a. /\ home[h] \in [record: {"none", "applied", "restored", "broken"}, route: BOOLEAN]
      /\ host[h] \in HostStates
  BY DEF UninstallTypeOK
<1>b. /\ \/ home' = [home EXCEPT ![h] = [record |-> "restored", route |-> FALSE]]
         \/ home' = home
      /\ UNCHANGED <<tool, past>>
  BY DEF EndDisconnect
<1>c. PICK state \in {"removed", "failed"}, outcome \in {"completed", "failed"} :
        Concluded(h, state, outcome)
  BY DEF EndDisconnect
<1>d. PICK receipt \in {"none", "completed", "active", "failed"} :
        host' = [host EXCEPT ![h] = [host[h] EXCEPT !.state = state, !.job = "none", !.receipt = receipt]]
  <2> DEFINE receipt == IF host[h].receipt = "running" THEN outcome ELSE host[h].receipt
  <2>1. receipt \in {"none", "completed", "active", "failed"}
    BY <1>a DEF HostStates
  <2>2. host' = [host EXCEPT ![h] = [host[h] EXCEPT !.state = state, !.job = "none", !.receipt = receipt]]
    BY <1>c DEF Concluded
  <2> HIDE DEF receipt
  <2> QED
    BY <2>1, <2>2
<1> DEFINE new == [host[h] EXCEPT !.state = state, !.job = "none", !.receipt = receipt]
<1>e. /\ new \in HostStates /\ new.receipt = receipt /\ new.up = host[h].up /\ new.run = host[h].run
  BY <1>a DEF HostStates
<1>f. host' = [host EXCEPT ![h] = new]
  BY <1>d
<1> HIDE DEF new
<1>g. profile' = [profile EXCEPT !.lock = IF Driven(h) THEN Free ELSE @] \/ UNCHANGED profile
  BY DEF EndDisconnect
<1>h. UNCHANGED disturbed \/ Disturbance
  BY DEF EndDisconnect
<1>1. UninstallTypeOK'
  <2>2. host' \in [Homes -> HostStates]
    BY <1>e, <1>f DEF UninstallTypeOK
  <2>3. home' \in [Homes -> [record: {"none", "applied", "restored", "broken"}, route: BOOLEAN]]
    <3>1. [record |-> "restored", route |-> FALSE]
            \in [record: {"none", "applied", "restored", "broken"}, route: BOOLEAN]
      BY Zenon
    <3> QED
      BY <1>b, <3>1 DEF UninstallTypeOK
  <2>4. /\ profile' \in [lock: Homes \cup {Free, Tool}, session: {"kept", "partly", "gone"}]
        /\ disturbed' \in 0..MaxDisturbances
    BY <1>g, <1>h DEF UninstallTypeOK, Disturbance
  <2> QED
    BY <1>b, <2>2, <2>3, <2>4 DEF UninstallTypeOK
<1>2. HomesFit'
  BY <1>a, <1>b DEF HomesFit, UninstallTypeOK
<1>3. HostsFit'
  BY <1>b, <1>e, <1>f DEF HostsFit, UninstallTypeOK
<1>4. ListingFits'
  BY <1>a, <1>b DEF ListingFits, Clean, Looking, Clearing, UninstallTypeOK
<1>5. CallFits'
  BY <1>b DEF CallFits, Clearing
<1>6. LockFits'
  BY <1>b, <1>g DEF LockFits, UninstallTypeOK, Driven
<1>7. NoWorkIsCut'
  BY <1>b DEF NoWorkIsCut
<1> QED
  BY <1>1, <1>2, <1>3, <1>4, <1>5, <1>6, <1>7

LEMMA OtherDisconnectsKeeps ==
  ASSUME UninstallInv, NEW h \in Homes, OtherDisconnects(h)
  PROVE  UninstallInv'
<1> USE UninstallAssumption DEF UninstallInv, OtherDisconnects, Disturbance
<1>1. UninstallTypeOK'
  <2>1. tool' \in Calls
    BY CallsMove DEF UninstallTypeOK
  <2>2. host' \in [Homes -> HostStates]
    BY DEF UninstallTypeOK, HostStates
  <2>3. home' \in [Homes -> [record: {"none", "applied", "restored", "broken"}, route: BOOLEAN]]
    BY DEF UninstallTypeOK
  <2>4. /\ profile' \in [lock: Homes \cup {Free, Tool}, session: {"kept", "partly", "gone"}]
        /\ disturbed' \in 0..MaxDisturbances
    BY DEF UninstallTypeOK
  <2>5. past' \in [late: SUBSET Homes, touched: SUBSET Homes, cut: BOOLEAN]
    BY DEF UninstallTypeOK
  <2> QED
    BY <2>1, <2>2, <2>3, <2>4, <2>5 DEF UninstallTypeOK
<1>2. HomesFit'
  BY DEF UninstallTypeOK, Calls, HostStates, HomesFit
<1>3. HostsFit'
  BY DEF UninstallTypeOK, Calls, HostStates, HostsFit
<1>4. ListingFits'
  BY DEF UninstallTypeOK, Calls, HostStates, ListingFits, Looking, Clearing, Clean
<1>5. CallFits'
  BY DEF UninstallTypeOK, Calls, HostStates, CallFits, Clearing
<1>6. LockFits'
  BY DEF UninstallTypeOK, Calls, HostStates, LockFits
<1>7. NoWorkIsCut'
  BY DEF UninstallTypeOK, Calls, HostStates, NoWorkIsCut
<1> QED
  BY <1>1, <1>2, <1>3, <1>4, <1>5, <1>6, <1>7

LEMMA HostEndsKeeps ==
  ASSUME UninstallInv, NEW h \in Homes, HostEnds(h)
  PROVE  UninstallInv'
<1> USE UninstallAssumption DEF UninstallInv, HostEnds, Down, Driven, Disturbance
<1>1. UninstallTypeOK'
  <2>1. tool' \in Calls
    BY CallsMove DEF UninstallTypeOK
  <2>2. host' \in [Homes -> HostStates]
    BY DEF UninstallTypeOK, HostStates
  <2>3. home' \in [Homes -> [record: {"none", "applied", "restored", "broken"}, route: BOOLEAN]]
    BY DEF UninstallTypeOK
  <2>4. /\ profile' \in [lock: Homes \cup {Free, Tool}, session: {"kept", "partly", "gone"}]
        /\ disturbed' \in 0..MaxDisturbances
    BY DEF UninstallTypeOK
  <2>5. past' \in [late: SUBSET Homes, touched: SUBSET Homes, cut: BOOLEAN]
    BY DEF UninstallTypeOK
  <2> QED
    BY <2>1, <2>2, <2>3, <2>4, <2>5 DEF UninstallTypeOK
<1>2. HomesFit'
  BY DEF UninstallTypeOK, Calls, HostStates, HomesFit
<1>3. HostsFit'
  BY DEF UninstallTypeOK, Calls, HostStates, HostsFit
<1>4. ListingFits'
  BY DEF UninstallTypeOK, Calls, HostStates, ListingFits, Looking, Clearing, Clean
<1>5. CallFits'
  BY DEF UninstallTypeOK, Calls, HostStates, CallFits, Clearing
<1>6. LockFits'
  BY DEF UninstallTypeOK, Calls, HostStates, LockFits
<1>7. NoWorkIsCut'
  BY DEF UninstallTypeOK, Calls, HostStates, NoWorkIsCut
<1> QED
  BY <1>1, <1>2, <1>3, <1>4, <1>5, <1>6, <1>7

LEMMA HostStartsKeeps ==
  ASSUME UninstallInv, NEW h \in Homes, HostStarts(h)
  PROVE  UninstallInv'
<1> USE UninstallAssumption DEF UninstallInv
<1>a. PICK state \in {"idle", "failed", "removed"} :
        host' = [host EXCEPT ![h] = [Down EXCEPT !.up = TRUE, !.run = host[h].run + 1, !.state = state]]
  BY DEF HostStarts
<1> DEFINE new == [Down EXCEPT !.up = TRUE, !.run = host[h].run + 1, !.state = state]
<1>b. host[h].run + 1 \in 0..MaxDisturbances + 1
  BY DEF UninstallTypeOK, HostStates, HostStarts
<1>c. Down \in HostStates /\ Down.receipt = "none"
  BY UninstallAssumption DEF Down, HostStates
<1>d. new \in HostStates /\ new.receipt = "none" /\ new.run = host[h].run + 1 /\ new.run # 0
  <2>1. host[h].run \in Nat
    BY DEF UninstallTypeOK, HostStates
  <2>2. new \in HostStates /\ new.receipt = Down.receipt /\ new.run = host[h].run + 1
    <3>1. PICK s \in HostStates, r \in 0..MaxDisturbances + 1 : s = Down /\ r = host[h].run + 1
      BY <1>b, <1>c, Zenon
    <3>2. new = [s EXCEPT !.up = TRUE, !.run = r, !.state = state]
      BY <3>1
    <3>3. /\ [s EXCEPT !.up = TRUE, !.run = r, !.state = state] \in HostStates
          /\ [s EXCEPT !.up = TRUE, !.run = r, !.state = state].run = r
          /\ [s EXCEPT !.up = TRUE, !.run = r, !.state = state].receipt = s.receipt
      BY DEF HostStates
    <3> QED
      BY <3>1, <3>2, <3>3
  <2> HIDE DEF new
  <2> QED
    BY <1>c, <2>1, <2>2
<1>e. host' = [host EXCEPT ![h] = new] /\ UNCHANGED <<home, tool, profile, disturbed, past>>
  BY <1>a DEF HostStarts
<1> HIDE DEF new
<1>1. UninstallTypeOK'
  BY <1>d, <1>e DEF UninstallTypeOK
<1>2. HomesFit'
  BY <1>d, <1>e DEF HomesFit
<1>3. HostsFit'
  BY <1>d, <1>e DEF HostsFit, UninstallTypeOK
<1>4. ListingFits'
  BY <1>d, <1>e DEF ListingFits, Clearing, Looking, Clean
<1>5. CallFits'
  BY <1>d, <1>e DEF CallFits, Clearing
<1>6. LockFits'
  BY <1>d, <1>e DEF LockFits
<1>7. NoWorkIsCut'
  BY <1>d, <1>e DEF NoWorkIsCut
<1> QED
  BY <1>1, <1>2, <1>3, <1>4, <1>5, <1>6, <1>7

LEMMA HomeChangesKeeps ==
  ASSUME UninstallInv, NEW h \in Homes, HomeChanges(h)
  PROVE  UninstallInv'
<1> USE UninstallAssumption DEF UninstallInv, HomeChanges, Disturbance
<1>a. home[h] \in [record: {"none", "applied", "restored", "broken"}, route: BOOLEAN]
  BY DEF UninstallTypeOK
<1>b. PICK new \in [record: {"none", "applied", "restored", "broken"}, route: BOOLEAN] :
        home' = [home EXCEPT ![h] = new]
  <2>1. (~home[h].route) \in BOOLEAN
    OBVIOUS
  <2>2. /\ [record |-> "applied", route |-> TRUE] \in [record: {"none", "applied", "restored", "broken"}, route: BOOLEAN]
        /\ [home[h] EXCEPT !.route = ~home[h].route] \in [record: {"none", "applied", "restored", "broken"}, route: BOOLEAN]
        /\ [home[h] EXCEPT !.record = "broken"] \in [record: {"none", "applied", "restored", "broken"}, route: BOOLEAN]
    BY <1>a, <2>1
  <2> QED
    BY <2>2 
<1>1. UninstallTypeOK'
  <2>1. tool' \in Calls
    BY CallsMove DEF UninstallTypeOK
  <2>2. host' \in [Homes -> HostStates]
    BY DEF UninstallTypeOK
  <2>3. home' \in [Homes -> [record: {"none", "applied", "restored", "broken"}, route: BOOLEAN]]
    BY <1>b DEF UninstallTypeOK
  <2>4. /\ profile' \in [lock: Homes \cup {Free, Tool}, session: {"kept", "partly", "gone"}]
        /\ disturbed' \in 0..MaxDisturbances
    BY DEF UninstallTypeOK
  <2>5. past' \in [late: SUBSET Homes, touched: SUBSET Homes, cut: BOOLEAN]
    BY DEF UninstallTypeOK
  <2> QED
    BY <2>1, <2>2, <2>3, <2>4, <2>5 DEF UninstallTypeOK
<1>2. HomesFit'
  BY SMTT(30) DEF UninstallTypeOK, Calls, HostStates, HomesFit
<1>3. HostsFit'
  BY DEF UninstallTypeOK, Calls, HostStates, HostsFit
<1>4. ListingFits'
  BY DEF UninstallTypeOK, Calls, HostStates, ListingFits, Looking, Clearing, Clean
<1>5. CallFits'
  BY DEF UninstallTypeOK, Calls, HostStates, CallFits, Clearing
<1>6. LockFits'
  BY DEF UninstallTypeOK, Calls, HostStates, LockFits
<1>7. NoWorkIsCut'
  BY DEF UninstallTypeOK, Calls, HostStates, NoWorkIsCut
<1> QED
  BY <1>1, <1>2, <1>3, <1>4, <1>5, <1>6, <1>7

LEMMA FirstInstance ==
  ASSUME UninstallAssumption
  PROVE  LET new == [Down EXCEPT !.up = TRUE, !.run = 1]
         IN  new \in HostStates /\ new.receipt = "none" /\ new.run # 0
<1>1. PICK s \in HostStates, r \in 0..MaxDisturbances + 1 : s = Down /\ r = 1
  <2>1. Down \in HostStates
    BY DEF UninstallAssumption, Down, HostStates
  <2>2. 1 \in 0..MaxDisturbances + 1
    BY DEF UninstallAssumption
  <2> QED
    BY <2>1, <2>2, Zenon
<1>2. /\ [s EXCEPT !.up = TRUE, !.run = r] \in HostStates
      /\ [s EXCEPT !.up = TRUE, !.run = r].run = r
      /\ [s EXCEPT !.up = TRUE, !.run = r].receipt = s.receipt
  BY DEF HostStates
<1> QED
  BY <1>1, <1>2 DEF Down

LEMMA UninstallInitially ==
  ASSUME UninstallInit
  PROVE  UninstallInv
<1> USE UninstallAssumption DEF UninstallInit
<1>1. PICK records \in [Homes -> {"none", "applied", "restored"}] :
        /\ home = [h \in Homes |-> [record |-> records[h], route |-> records[h] = "applied"]]
        /\ host = [h \in Homes |->
             IF records[h] = "applied" THEN [Down EXCEPT !.up = TRUE, !.run = 1] ELSE Down]
  OBVIOUS
<1>2. Down \in HostStates /\ ~Down.up /\ Down.receipt = "none"
  BY DEF Down, HostStates
<1>3. LET new == [Down EXCEPT !.up = TRUE, !.run = 1]
      IN new \in HostStates /\ new.receipt = "none" /\ new.run # 0
  BY FirstInstance
<1>4. /\ host \in [Homes -> HostStates]
      /\ \A h \in Homes : host[h].receipt = "none" /\ (host[h].up => host[h].run # 0)
  BY <1>1, <1>2, <1>3
<1>5. /\ home \in [Homes -> [record: {"none", "applied", "restored", "broken"}, route: BOOLEAN]]
      /\ \A h \in Homes : home[h].record = "none" => ~home[h].route
  BY <1>1
<1>6. tool \in Calls /\ tool.at = "listing" /\ tool.left = Homes
  BY DEF Calls
<1>7. UninstallTypeOK /\ past.touched = {} /\ past.cut = FALSE
  BY <1>4, <1>5, <1>6 DEF UninstallTypeOK
<1> QED
  BY <1>4, <1>5, <1>6, <1>7 DEF UninstallInv, HomesFit, HostsFit, ListingFits, CallFits, LockFits,
     NoWorkIsCut, Looking, Clearing

LEMMA UninstallStep ==
  ASSUME UninstallInv, [UninstallNext]_uninstallVars
  PROVE  UninstallInv'
<1>1. CASE UNCHANGED uninstallVars
  BY <1>1 DEF UninstallInv, UninstallTypeOK, HomesFit, HostsFit, ListingFits, CallFits, LockFits,
     NoWorkIsCut, Clean, uninstallVars
<1>2. CASE Inventory \/ RequireDisconnected \/ StartPreflight \/ Preflight \/ StartRemoving
  BY <1>2, InventoryKeeps, RequireDisconnectedKeeps, StartPreflightKeeps, PreflightKeeps,
     StartRemovingKeeps
<1>3. CASE RequestRemoval \/ PollRemoval \/ ConfirmRemoval \/ ListAgain \/ ConfirmNoneLeft
  BY <1>3, RequestRemovalKeeps, PollRemovalKeeps, ConfirmRemovalKeeps, ListAgainKeeps,
     ConfirmNoneLeftKeeps
<1>4. CASE LockSession \/ ValidateTree \/ ClearSession \/ ToolFails
  BY <1>4, LockSessionKeeps, ValidateTreeKeeps, ClearSessionKeeps, ToolFailsKeeps
<1>5. ASSUME NEW h \in Homes,
             \/ DriverStarts(h) \/ WebTurn(h) \/ BeginDisconnect(h) \/ EndDisconnect(h)
             \/ OtherDisconnects(h) \/ HostEnds(h) \/ HostStarts(h) \/ HomeChanges(h)
      PROVE  UninstallInv'
  BY <1>5, DriverStartsKeeps, WebTurnKeeps, BeginDisconnectKeeps, EndDisconnectKeeps,
     OtherDisconnectsKeeps, HostEndsKeeps, HostStartsKeeps, HomeChangesKeeps
<1> QED
  BY <1>1, <1>2, <1>3, <1>4, <1>5 DEF UninstallNext

LEMMA UninstallAlways == UninstallSpec => []UninstallInv
<1>1. UninstallInit => UninstallInv
  BY UninstallInitially
<1>2. UninstallInv /\ [UninstallNext]_uninstallVars => UninstallInv'
  BY UninstallStep
<1> QED
  BY <1>1, <1>2, PTL DEF UninstallSpec

\* UninstallTypeOK (Uninstall): homes, host keys, the shared profile and the tool stay in
\* range, whatever is disturbed while the tool works.
THEOREM UninstallTypeCorrect == UninstallSpec => []UninstallTypeOK
<1>1. UninstallInv => UninstallTypeOK
  BY DEF UninstallInv
<1> QED
  BY <1>1, UninstallAlways, PTL

\* UninstallIsClean (Uninstall), for any set of homes and any number of disturbances: an
\* uninstall or a deletion (installed_control.rs) that reports success leaves no key of ours
\* and no journal that could put one back; it stops no turn, deletes no session under a
\* driver and removes nothing before every installation was seen idle.
THEOREM UninstallLeavesNothing == UninstallSpec => []UninstallIsClean
<1>1. ASSUME UninstallInv PROVE UninstallIsClean
  <2>1. NothingIsLeftBehind
    BY <1>1 DEF UninstallInv, ListingFits, NothingIsLeftBehind, Clean
  <2>2. NoWorkIsCut
    BY <1>1 DEF UninstallInv
  <2>3. AllSeenIdleFirst
    BY <1>1 DEF UninstallInv, CallFits, HostsFit, AllSeenIdleFirst
  <2> QED
    BY <2>1, <2>2, <2>3 DEF UninstallIsClean
<1>2. UninstallInv => UninstallIsClean
  BY <1>1
<1> QED
  BY <1>2, UninstallAlways, PTL

-----------------------------------------------------------------------------
\* The update of the programs.
\* A program is in hand, or others are still to be replaced.
InHand == {"staged", "compared", "torn", "restoring", "swapped"}
Active == InHand \cup {"replacing"}

Untouched == {i \in Installations : disk[i].journal = "owned" /\ ~history[i].touched}

\* What an installer has looked at stays in order, or changed after the look.
Checked(u, i) ==
  /\ Authorized(i) \/ u \in history[i].late
  /\ i \in Untouched => i \in installer[u].targets

ChecksFit ==
  \A u \in Installers :
    /\ installer[u].at \in {"new", "validating"} => installer[u].replaced = {}
    /\ installer[u].at = "new" => installer[u].targets = {}
    /\ \A i \in Installations :
         \/ installer[u].at \in Active \cup {"done"}
         \/ installer[u].replaced # {}
         \/ installer[u].at = "validating" /\ i \notin installer[u].left
         => Checked(u, i)

\* Until it is done with a target the installer has its lock.
UpdateLocksFit ==
  \A u \in Installers :
    /\ installer[u].at = "validating" => \A i \in installer[u].targets : lock[i] = u
    /\ installer[u].at \in Active => \A i \in installer[u].left : lock[i] = u
    /\ installer[u].at \in InHand => installer[u].now \in installer[u].left

\* The place that is about to get the old program back was empty at the last look.
Vacant(i) == disk[i].program = NoProgram \/ (disk[i].program = Foreign /\ history[i].raced)

RestoresFit == \A u \in Installers : installer[u].at = "restoring" => Vacant(installer[u].now)

\* An installer with an installation before it that nobody else has touched.
Works(u) == installer[u].at \in Active /\ installer[u].left \cap Untouched # {}

OneWorks == \A u, v \in Installers : Works(u) /\ Works(v) => u = v

Behind(u, i) ==
  i \in installer[u].left /\ ~(installer[u].at = "swapped" /\ installer[u].now = i)

\* The programs are one, or one installer is on its way from one to its own.
ProgramsFit ==
  (\A u \in Installers : installer[u].at \notin {"failed", "torn", "restoring"}) =>
    /\ (\A u \in Installers : ~Works(u)) =>
         \A i, j \in Untouched : disk[i].program = disk[j].program
    /\ \A u \in Installers : Works(u) =>
         /\ \A i \in Untouched : Behind(u, i) \/ disk[i].program = u
         /\ \A i, j \in Untouched :
              Behind(u, i) /\ Behind(u, j) => disk[i].program = disk[j].program

UpdateInv ==
  /\ UpdateTypeOK
  /\ ProgramsAreKept /\ ChecksFit /\ UpdateLocksFit /\ RestoresFit /\ OneWorks /\ ProgramsFit
-----------------------------------------------------------------------------
LEMMA InstallerMoves ==
  ASSUME UpdateInv, NEW u \in Installers, NEW s \in InstallerStates, Continues(u, s)
  PROVE  /\ installer' \in [Installers -> InstallerStates] /\ installer'[u] = s
         /\ \A v \in Installers \ {u} : installer'[v] = installer[v]
BY DEF UpdateInv, UpdateTypeOK, Continues

\* An installer that ends drops its locks and has nothing left to do.
LEMMA StopsKeep ==
  ASSUME UpdateInv, UpdateAssumption, NEW u \in Installers, NEW at \in {"failed", "done"},
         Stops(u, at), installer[u].at # "new",
         at = "done" => installer[u].at = "replacing" /\ installer[u].left = {} /\ UNCHANGED disk,
         UNCHANGED history, mishaps' \in 0..MaxMishaps, ProgramsAreKept',
         disk' \in [Installations -> Disks],
         \A i \in Installations : disk'[i].journal = disk[i].journal /\ disk'[i].task = disk[i].task,
         \A i \in Installations : lock[i] # u => disk'[i].program = disk[i].program
  PROVE  UpdateInv'
<1> USE DEF UpdateInv
<1> DEFINE next == [installer[u] EXCEPT !.at = at, !.left = {}, !.seen = {}]
<1>a. /\ next \in InstallerStates /\ next.at = at /\ next.left = {}
      /\ next.targets = installer[u].targets /\ next.replaced = installer[u].replaced
  BY ZenonT(60) DEF UpdateTypeOK, InstallerStates
<1>b. Continues(u, next)
  BY DEF Stops, Continues
<1> HIDE DEF next
<1>c. /\ installer' \in [Installers -> InstallerStates] /\ installer'[u] = next
      /\ \A v \in Installers \ {u} : installer'[v] = installer[v]
  BY <1>a, <1>b, InstallerMoves
<1>d. /\ lock' \in [Installations -> Installers \cup {NoProgram}]
      /\ \A i \in Installations : lock[i] # u => lock'[i] = lock[i]
  BY DEF Stops, Released, UpdateTypeOK
<1>e. Untouched' = Untouched
  BY DEF Untouched
<1>f. \A v \in Installers : Works(v)' <=> v # u /\ Works(v)
  BY <1>a, <1>c, <1>e DEF Works, Active, InHand
<1>1. UpdateTypeOK'
  BY <1>c, <1>d DEF UpdateTypeOK
<1>2. ChecksFit'
  <2>1. \A v \in Installers, i \in Installations : Checked(v, i) => Checked(v, i)'
    BY <1>a, <1>c DEF Checked, Authorized, Untouched
  <2> QED
    BY <1>a, <1>c, <2>1 DEF ChecksFit, Active, InHand
<1>3. UpdateLocksFit'
  <2>1. u # NoProgram
    BY DEF UpdateAssumption
  <2>2. \A v \in Installers \ {u}, i \in Installations : lock[i] = v => lock'[i] = v
    BY <1>d
  <2>3. \A v \in Installers : installer[v].targets \subseteq Installations /\ installer[v].left \subseteq Installations
    BY DEF UpdateTypeOK, InstallerStates
  <2> QED
    BY <1>a, <1>c, <2>2, <2>3 DEF UpdateLocksFit, Active, InHand
<1>4. OneWorks'
  BY <1>f DEF OneWorks
<1>5. ProgramsFit'
  <2>1. CASE at = "failed"
    BY <1>a, <1>c, <2>1 DEF ProgramsFit
  <2>2. CASE at = "done"
    <3>1. ~Works(u) /\ UNCHANGED disk /\ installer[u].at = "replacing"
      BY <2>2 DEF Works
    <3>2. \A v \in Installers \ {u}, i \in Installations : Behind(v, i)' <=> Behind(v, i)
      BY <1>c DEF Behind
    <3>3. Untouched \subseteq Installations
      BY DEF Untouched
    <3>4. (\A v \in Installers : installer'[v].at \notin {"failed", "torn", "restoring"})
          => \A v \in Installers : installer[v].at \notin {"failed", "torn", "restoring"}
      BY <1>c, <3>1
    <3> QED
      BY <1>e, <1>f, <3>1, <3>2, <3>3, <3>4 DEF ProgramsFit
  <2> QED
    BY <2>1, <2>2
<1>9. RestoresFit'
  <2>1. \A j \in Installations : lock[j] # u => (Vacant(j) => Vacant(j)')
    BY DEF Vacant
  <2>2. \A v \in Installers \ {u} : installer[v].at = "restoring" =>
          installer[v].now \in Installations /\ lock[installer[v].now] = v
    BY DEF UpdateLocksFit, Active, InHand, UpdateTypeOK, InstallerStates
  <2>3. installer'[u].at # "restoring"
    BY <1>a, <1>c
  <2> QED
    BY <1>c, <2>1, <2>2, <2>3 DEF RestoresFit
<1> QED
  BY <1>1, <1>2, <1>3, <1>4, <1>5, <1>9

\* An installer that only looks at the target in hand changes nothing.
LEMMA StagingKeeps ==
  ASSUME UpdateInv, NEW u \in Installers, NEW s \in InstallerStates, Continues(u, s),
         UNCHANGED <<disk, lock, mishaps, history>>,
         installer[u].at \in {"replacing", "staged", "torn"},
         s.at \in {"staged", "compared", "restoring"},
         installer[u].at = "torn" => s.at = "restoring",
         s.at = "restoring" => disk[s.now].program = NoProgram,
         s.left = installer[u].left, s.targets = installer[u].targets,
         s.replaced = installer[u].replaced, s.now \in s.left
  PROVE  UpdateInv'
<1> USE DEF UpdateInv
<1>c. /\ installer' \in [Installers -> InstallerStates] /\ installer'[u] = s
      /\ \A v \in Installers \ {u} : installer'[v] = installer[v]
  BY InstallerMoves
<1>e. Untouched' = Untouched /\ Untouched \subseteq Installations
  BY DEF Untouched
<1>f. \A v \in Installers : Works(v)' <=> Works(v)
  BY <1>c, <1>e DEF Works, Active, InHand
<1>1. UpdateTypeOK'
  BY <1>c DEF UpdateTypeOK
<1>2. ProgramsAreKept'
  BY DEF ProgramsAreKept, ProgramsHeld, Overwritten
<1>3. ChecksFit'
  <2>1. \A v \in Installers, i \in Installations : Checked(v, i) => Checked(v, i)'
    BY <1>c DEF Checked, Authorized, Untouched
  <2> QED
    BY <1>c, <2>1 DEF ChecksFit, Active, InHand
<1>4. UpdateLocksFit'
  BY <1>c DEF UpdateLocksFit, Active, InHand
<1>5. OneWorks'
  BY <1>f DEF OneWorks
<1>6. ProgramsFit'
  <2>1. \A v \in Installers, i \in Installations : Behind(v, i)' <=> Behind(v, i)
    BY <1>c DEF Behind
  <2>2. (\A v \in Installers : installer'[v].at \notin {"failed", "torn", "restoring"})
        => \A v \in Installers : installer[v].at \notin {"failed", "torn", "restoring"}
    BY <1>c
  <2> QED
    BY <1>e, <1>f, <2>1, <2>2 DEF ProgramsFit
<1>9. RestoresFit'
  BY <1>c DEF RestoresFit, Vacant
<1> QED
  BY <1>1, <1>2, <1>3, <1>4, <1>5, <1>6, <1>9

\* A target that has the program is done with.
LEMMA FinishedKeeps ==
  ASSUME UpdateInv, UpdateAssumption, NEW u \in Installers, NEW i \in installer[u].left,
         NEW replaced \in BOOLEAN, Finished(u, i, replaced), UNCHANGED <<disk, mishaps, history>>,
         installer[u].at \in {"replacing", "swapped"},
         installer[u].at = "swapped" => installer[u].now = i, disk[i].program = u
  PROVE  UpdateInv'
<1> USE DEF UpdateInv
<1> DEFINE done == IF replaced THEN installer[u].replaced \cup {i} ELSE installer[u].replaced
           next == [installer[u] EXCEPT !.at = "replacing", !.left = @ \ {i}, !.seen = {},
                                        !.replaced = done]
<1>0. i \in Installations /\ installer[u] \in InstallerStates
  BY DEF UpdateTypeOK, InstallerStates
<1>d. done \in SUBSET Installations
  BY <1>0 DEF InstallerStates
<1>b. Continues(u, next)
  BY DEF Finished, Continues
<1> HIDE DEF done
<1>a. /\ next \in InstallerStates /\ next.at = "replacing" /\ next.left = installer[u].left \ {i}
      /\ next.targets = installer[u].targets
  BY <1>0, <1>d DEF InstallerStates
<1> HIDE DEF next
<1>c. /\ installer' \in [Installers -> InstallerStates] /\ installer'[u] = next
      /\ \A v \in Installers \ {u} : installer'[v] = installer[v]
  BY <1>a, <1>b, InstallerMoves
<1>e. Untouched' = Untouched /\ Untouched \subseteq Installations
  BY DEF Untouched
<1>f. /\ lock' \in [Installations -> Installers \cup {NoProgram}]
      /\ \A j \in Installations \ {i} : lock'[j] = lock[j]
      /\ lock[i] = u
  BY <1>0 DEF Finished, UpdateTypeOK, UpdateLocksFit, Active, InHand
<1>g. /\ \A v \in Installers \ {u} : Works(v)' <=> Works(v)
      /\ Works(u)' <=> (installer[u].left \ {i}) \cap Untouched # {}
      /\ Works(u) <=> installer[u].left \cap Untouched # {}
  BY <1>a, <1>c, <1>e DEF Works, Active, InHand
<1>1. UpdateTypeOK'
  BY <1>c, <1>f DEF UpdateTypeOK
<1>2. ProgramsAreKept'
  BY DEF ProgramsAreKept, ProgramsHeld, Overwritten
<1>3. ChecksFit'
  <2>1. \A v \in Installers, j \in Installations : Checked(v, j) => Checked(v, j)'
    BY <1>a, <1>c DEF Checked, Authorized, Untouched
  <2> QED
    BY <1>a, <1>c, <2>1 DEF ChecksFit, Active, InHand
<1>4. UpdateLocksFit'
  <2>1. \A v \in Installers : installer[v].targets \subseteq Installations /\ installer[v].left \subseteq Installations
    BY DEF UpdateTypeOK, InstallerStates
  <2>2. \A v \in Installers \ {u}, j \in Installations : lock[j] = v => lock'[j] = v
    BY <1>f
  <2>3. \A j \in installer[u].left \ {i} : lock'[j] = u
    BY <1>f, <2>1 DEF UpdateLocksFit, Active, InHand
  <2> QED
    BY <1>a, <1>c, <2>1, <2>2, <2>3 DEF UpdateLocksFit, Active, InHand
<1>5. OneWorks'
  BY <1>g DEF OneWorks
<1>6. ProgramsFit'
  <2> SUFFICES ASSUME \A v \in Installers : installer'[v].at \notin {"failed", "torn", "restoring"}
               PROVE  /\ (\A v \in Installers : ~Works(v)') =>
                           \A j, k \in Untouched : disk[j].program = disk[k].program
                      /\ \A v \in Installers : Works(v)' =>
                           /\ \A j \in Untouched : Behind(v, j)' \/ disk[j].program = v
                           /\ \A j, k \in Untouched :
                                Behind(v, j)' /\ Behind(v, k)' => disk[j].program = disk[k].program
    BY <1>e DEF ProgramsFit
  <2>1. \A v \in Installers : installer[v].at \notin {"failed", "torn", "restoring"}
    BY <1>c
  <2>2. \A v \in Installers \ {u}, j \in Installations : Behind(v, j)' <=> Behind(v, j)
    BY <1>c DEF Behind
  <2>3. \A j \in Installations : Behind(u, j)' <=> Behind(u, j) /\ j # i
    BY <1>a, <1>c DEF Behind
  <2>4. ASSUME \A v \in Installers : ~Works(v)', NEW j \in Untouched, NEW k \in Untouched
        PROVE  disk[j].program = disk[k].program
    <3>1. CASE Works(u)
      <4>1. Behind(u, j) => j = i
        BY <1>g, <2>4 DEF Behind
      <4>2. Behind(u, k) => k = i
        BY <1>g, <2>4 DEF Behind
      <4> QED
        BY <2>1, <3>1, <4>1, <4>2 DEF ProgramsFit
    <3>2. CASE ~Works(u)
      BY <1>g, <2>1, <2>4, <3>2 DEF ProgramsFit
    <3> QED
      BY <3>1, <3>2
  <2>5. ASSUME NEW v \in Installers, Works(v)'
        PROVE  /\ \A j \in Untouched : Behind(v, j)' \/ disk[j].program = v
               /\ \A j, k \in Untouched :
                    Behind(v, j)' /\ Behind(v, k)' => disk[j].program = disk[k].program
    <3>1. Works(v)
      BY <1>g, <2>5
    <3>2. \A j \in Installations : Behind(v, j) => Behind(v, j)' \/ disk[j].program = v
      BY <2>2, <2>3
    <3>3. \A j \in Installations : Behind(v, j)' => Behind(v, j)
      BY <2>2, <2>3
    <3> QED
      BY <1>e, <2>1, <3>1, <3>2, <3>3 DEF ProgramsFit
  <2> QED
    BY <2>4, <2>5
<1>9. RestoresFit'
  BY <1>a, <1>c DEF RestoresFit, Vacant
<1> QED
  BY <1>1, <1>2, <1>3, <1>4, <1>5, <1>6, <1>9

LEMMA BeginKeeps ==
  ASSUME UpdateInv, NEW u \in Installers, Begin(u)
  PROVE  UpdateInv'
<1> USE DEF UpdateInv
<1> DEFINE next == [installer[u] EXCEPT !.at = "validating", !.left = Installations]
<1>a. /\ next \in InstallerStates /\ next.at = "validating" /\ next.left = Installations
      /\ next.targets = {} /\ next.replaced = {}
  BY ZenonT(60) DEF Begin, UpdateTypeOK, InstallerStates, ChecksFit
<1>b. Continues(u, next) /\ UNCHANGED <<disk, lock, mishaps, history>>
  BY DEF Begin
<1> HIDE DEF next
<1>c. /\ installer' \in [Installers -> InstallerStates] /\ installer'[u] = next
      /\ \A v \in Installers \ {u} : installer'[v] = installer[v]
  BY <1>a, <1>b, InstallerMoves
<1>e. Untouched' = Untouched /\ Untouched \subseteq Installations
  BY <1>b DEF Untouched
<1>f. \A v \in Installers : Works(v)' <=> Works(v)
  BY <1>a, <1>c, <1>e DEF Works, Active, InHand, Begin
<1>1. UpdateTypeOK'
  BY <1>b, <1>c DEF UpdateTypeOK
<1>2. ProgramsAreKept'
  BY <1>b DEF ProgramsAreKept, ProgramsHeld, Overwritten
<1>3. ChecksFit'
  <2>1. \A v \in Installers \ {u}, i \in Installations : Checked(v, i) => Checked(v, i)'
    BY <1>b, <1>c DEF Checked, Authorized, Untouched
  <2> QED
    BY <1>a, <1>c, <2>1 DEF ChecksFit, Active, InHand
<1>4. UpdateLocksFit'
  BY <1>a, <1>b, <1>c DEF UpdateLocksFit, Active, InHand
<1>5. OneWorks'
  BY <1>f DEF OneWorks
<1>6. ProgramsFit'
  <2>1. \A v \in Installers, i \in Installations : Works(v) => (Behind(v, i)' <=> Behind(v, i))
    BY <1>c DEF Behind, Works, Begin, Active, InHand
  <2>2. (\A v \in Installers : installer'[v].at \notin {"failed", "torn", "restoring"})
        => \A v \in Installers : installer[v].at \notin {"failed", "torn", "restoring"}
    BY <1>c DEF Begin
  <2> QED
    BY <1>b, <1>e, <1>f, <2>1, <2>2 DEF ProgramsFit
<1>9. RestoresFit'
  BY <1>a, <1>b, <1>c DEF RestoresFit, Vacant
<1> QED
  BY <1>1, <1>2, <1>3, <1>4, <1>5, <1>6, <1>9

LEMMA ValidateKeeps ==
  ASSUME UpdateInv, UpdateAssumption, NEW u \in Installers, Validate(u)
  PROVE  UpdateInv'
<1> USE DEF UpdateInv
<1>1. PICK i \in installer[u].left :
        IF lock[i] # NoProgram \/ ~Authorized(i)
        THEN Stops(u, "failed")
        ELSE /\ Continues(u, [installer[u] EXCEPT !.left = @ \ {i},
                               !.targets = IF disk[i].journal = "owned" THEN @ \cup {i} ELSE @])
             /\ lock' = IF disk[i].journal = "owned" THEN [lock EXCEPT ![i] = u] ELSE lock
  BY DEF Validate
<1>2. UNCHANGED <<disk, mishaps, history>> /\ installer[u].at = "validating"
  BY DEF Validate
<1>3. CASE Stops(u, "failed")
  BY <1>2, <1>3, StopsKeep DEF UpdateTypeOK, ProgramsAreKept, ProgramsHeld, Overwritten
<1>4. CASE ~(lock[i] # NoProgram \/ ~Authorized(i))
  <2> DEFINE owned == disk[i].journal = "owned"
             targets == IF owned THEN installer[u].targets \cup {i} ELSE installer[u].targets
             next == [installer[u] EXCEPT !.left = @ \ {i}, !.targets = targets]
  <2>0. i \in Installations /\ installer[u] \in InstallerStates
    BY DEF UpdateTypeOK, InstallerStates
  <2>d. targets \in SUBSET Installations
    BY <2>0 DEF InstallerStates
  <2>b. Continues(u, next) /\ lock' = IF owned THEN [lock EXCEPT ![i] = u] ELSE lock
    BY <1>1, <1>4
  <2>h. targets = IF owned THEN installer[u].targets \cup {i} ELSE installer[u].targets
    OBVIOUS
  <2> HIDE DEF targets
  <2>a. /\ next \in InstallerStates /\ next.at = "validating" /\ next.targets = targets
        /\ next.left = installer[u].left \ {i} /\ next.replaced = {}
    BY <1>2, <2>0, <2>d DEF InstallerStates, ChecksFit
  <2> HIDE DEF next
  <2>c. /\ installer' \in [Installers -> InstallerStates] /\ installer'[u] = next
        /\ \A v \in Installers \ {u} : installer'[v] = installer[v]
    BY <2>a, <2>b, InstallerMoves
  <2>e. Untouched' = Untouched /\ Untouched \subseteq Installations
    BY <1>2 DEF Untouched
  <2>f. \A v \in Installers : Works(v)' <=> Works(v)
    BY <1>2, <2>a, <2>c, <2>e DEF Works, Active, InHand
  <2>g. /\ lock' \in [Installations -> Installers \cup {NoProgram}]
        /\ \A j \in Installations : lock[j] # NoProgram => lock'[j] = lock[j]
        /\ owned => lock'[i] = u
    BY <1>4, <2>0, <2>b DEF UpdateTypeOK
  <2>1. UpdateTypeOK'
    BY <1>2, <2>c, <2>g DEF UpdateTypeOK
  <2>2. ProgramsAreKept'
    BY <1>2 DEF ProgramsAreKept, ProgramsHeld, Overwritten
  <2>3. ChecksFit'
    <3>1. \A v \in Installers, j \in Installations : Checked(v, j) => Checked(v, j)'
      BY <1>2, <2>a, <2>c, <2>h DEF Checked, Authorized, Untouched
    <3>2. Checked(u, i)'
      BY <1>2, <1>4, <2>0, <2>a, <2>c, <2>h DEF Checked, Authorized, Untouched, UpdateTypeOK, Disks
    <3> QED
      BY <1>2, <2>a, <2>c, <3>1, <3>2 DEF ChecksFit, Active, InHand
  <2>4. UpdateLocksFit'
    <3>1. \A v \in Installers : /\ installer[v].targets \subseteq Installations
                                /\ installer[v].left \subseteq Installations
      BY DEF UpdateTypeOK, InstallerStates
    <3>2. \A v \in Installers, j \in Installations : lock[j] = v => lock'[j] = v
      BY <2>g DEF UpdateAssumption
    <3> QED
      BY <1>2, <2>a, <2>c, <2>g, <2>h, <3>1, <3>2 DEF UpdateLocksFit, Active, InHand
  <2>5. OneWorks'
    BY <2>f DEF OneWorks
  <2>6. ProgramsFit'
    <3>1. \A v \in Installers, j \in Installations : Works(v) => (Behind(v, j)' <=> Behind(v, j))
      BY <1>2, <2>c DEF Behind, Works, Active, InHand
    <3>2. (\A v \in Installers : installer'[v].at \notin {"failed", "torn", "restoring"})
          => \A v \in Installers : installer[v].at \notin {"failed", "torn", "restoring"}
      BY <1>2, <2>c
    <3> QED
      BY <1>2, <2>e, <2>f, <3>1, <3>2 DEF ProgramsFit
  <2>7. RestoresFit'
    BY <1>2, <2>a, <2>c DEF RestoresFit, Vacant
  <2> QED
    BY <2>1, <2>2, <2>3, <2>4, <2>5, <2>6, <2>7
<1> QED
  BY <1>1, <1>3, <1>4

\* It has the locks of all, so nobody else has one of them before him.
LEMMA StartReplacingKeeps ==
  ASSUME UpdateInv, UpdateAssumption, NEW u \in Installers, StartReplacing(u)
  PROVE  UpdateInv'
<1> USE DEF UpdateInv
<1> DEFINE next == [installer[u] EXCEPT !.at = "replacing", !.left = installer[u].targets]
<1>0. installer[u].at = "validating" /\ installer[u].left = {}
  BY DEF StartReplacing
<1>a. /\ next \in InstallerStates /\ next.at = "replacing" /\ next.left = installer[u].targets
      /\ next.targets = installer[u].targets /\ next.replaced = installer[u].replaced
  <2>1. installer[u] \in InstallerStates /\ installer[u].targets \in SUBSET Installations
    BY DEF UpdateTypeOK, InstallerStates
  <2> QED
    BY <2>1 DEF InstallerStates
<1>b. Continues(u, next) /\ UNCHANGED <<disk, lock, mishaps, history>>
  BY DEF StartReplacing
<1> HIDE DEF next
<1>c. /\ installer' \in [Installers -> InstallerStates] /\ installer'[u] = next
      /\ \A v \in Installers \ {u} : installer'[v] = installer[v]
  BY <1>a, <1>b, InstallerMoves
<1>e. Untouched' = Untouched /\ Untouched \subseteq Installations
  BY <1>b DEF Untouched
<1>f. /\ \A v \in Installers \ {u} : Works(v)' <=> Works(v)
      /\ ~Works(u)
  BY <1>0, <1>c, <1>e DEF Works, Active, InHand
<1>g. \A i \in Untouched : i \in installer[u].targets /\ lock[i] = u
  BY <1>0, <1>e DEF Untouched, ChecksFit, Checked, UpdateLocksFit
<1>h. \A v \in Installers : ~Works(v)
  <2>1. ASSUME NEW v \in Installers, Works(v) PROVE FALSE
    <3>1. PICK i \in installer[v].left : i \in Untouched
      BY <2>1 DEF Works
    <3>2. lock[i] = v /\ lock[i] = u
      BY <1>g, <2>1, <3>1 DEF Works, UpdateLocksFit
    <3> QED
      BY <1>f, <2>1, <3>2
  <2> QED
    BY <2>1
<1>1. UpdateTypeOK'
  BY <1>b, <1>c DEF UpdateTypeOK
<1>2. ProgramsAreKept'
  BY <1>b DEF ProgramsAreKept, ProgramsHeld, Overwritten
<1>3. ChecksFit'
  <2>1. \A v \in Installers, i \in Installations : Checked(v, i) => Checked(v, i)'
    BY <1>a, <1>b, <1>c DEF Checked, Authorized, Untouched
  <2> QED
    BY <1>0, <1>a, <1>c, <2>1 DEF ChecksFit, Active, InHand
<1>4. UpdateLocksFit'
  BY <1>0, <1>a, <1>b, <1>c DEF UpdateLocksFit, Active, InHand
<1>5. OneWorks'
  BY <1>f, <1>h DEF OneWorks
<1>6. ProgramsFit'
  <2>1. \A i \in Untouched : Behind(u, i)'
    BY <1>a, <1>c, <1>g DEF Behind
  <2>2. (\A v \in Installers : installer'[v].at \notin {"failed", "torn", "restoring"})
        => \A v \in Installers : installer[v].at \notin {"failed", "torn", "restoring"}
    BY <1>0, <1>c
  <2> QED
    BY <1>b, <1>e, <1>f, <1>h, <2>1, <2>2 DEF ProgramsFit
<1>9. RestoresFit'
  BY <1>a, <1>b, <1>c DEF RestoresFit, Vacant
<1> QED
  BY <1>1, <1>2, <1>3, <1>4, <1>5, <1>6, <1>9

LEMMA StageProgramKeeps ==
  ASSUME UpdateInv, UpdateAssumption, NEW u \in Installers, StageProgram(u)
  PROVE  UpdateInv'
<1> USE DEF UpdateInv
<1>1. PICK i \in installer[u].left :
        \/ disk[i].program = NoProgram /\ Stops(u, "failed")
        \/ disk[i].program = u /\ Finished(u, i, FALSE)
        \/ /\ disk[i].program \notin {NoProgram, u}
           /\ Continues(u, [installer[u] EXCEPT !.at = "staged", !.now = i, !.seen = {disk[i].program}])
           /\ UNCHANGED lock
  BY DEF StageProgram
<1>2. UNCHANGED <<disk, mishaps, history>> /\ installer[u].at = "replacing" /\ i \in Installations
      /\ ProgramsAreKept' /\ mishaps \in 0..MaxMishaps
  BY DEF StageProgram, UpdateTypeOK, InstallerStates, ProgramsAreKept, ProgramsHeld, Overwritten
<1>3. CASE Stops(u, "failed")
  BY <1>2, <1>3, StopsKeep DEF UpdateTypeOK
<1>4. CASE disk[i].program = u /\ Finished(u, i, FALSE)
  BY <1>2, <1>4, FinishedKeeps
<1>5. CASE /\ disk[i].program \notin {NoProgram, u}
           /\ Continues(u, [installer[u] EXCEPT !.at = "staged", !.now = i, !.seen = {disk[i].program}])
           /\ UNCHANGED lock
  <2> DEFINE next == [installer[u] EXCEPT !.at = "staged", !.now = i, !.seen = {disk[i].program}]
  <2>0. disk[i].program \in Programs
    BY <1>2, <1>5 DEF UpdateTypeOK, Disks
  <2>1. /\ next \in InstallerStates /\ next.at = "staged" /\ next.left = installer[u].left
        /\ next.targets = installer[u].targets /\ next.replaced = installer[u].replaced
        /\ next.now \in next.left
    BY ZenonT(60), <1>2, <2>0 DEF UpdateTypeOK, InstallerStates
  <2>2. Continues(u, next)
    BY <1>5
  <2> HIDE DEF next
  <2> QED
    BY <1>2, <1>5, <2>1, <2>2, StagingKeeps
<1> QED
  BY <1>1, <1>3, <1>4, <1>5

LEMMA CompareIdentityKeeps ==
  ASSUME UpdateInv, UpdateAssumption, NEW u \in Installers, CompareIdentity(u)
  PROVE  UpdateInv'
<1> USE DEF UpdateInv
<1>1. UNCHANGED <<disk, mishaps, history>> /\ installer[u].at = "staged"
      /\ ProgramsAreKept' /\ mishaps \in 0..MaxMishaps
  BY DEF CompareIdentity, UpdateTypeOK, ProgramsAreKept, ProgramsHeld, Overwritten
<1>2. CASE Stops(u, "failed")
  BY <1>1, <1>2, StopsKeep DEF UpdateTypeOK
<1>3. CASE Continues(u, [installer[u] EXCEPT !.at = "compared"]) /\ UNCHANGED lock
  <2> DEFINE next == [installer[u] EXCEPT !.at = "compared"]
  <2>1. /\ next \in InstallerStates /\ next.at = "compared" /\ next.left = installer[u].left
        /\ next.targets = installer[u].targets /\ next.replaced = installer[u].replaced
        /\ next.now \in next.left
    <3>1. installer[u] \in InstallerStates /\ installer[u].now \in installer[u].left
      BY <1>1 DEF UpdateTypeOK, UpdateLocksFit, InHand
    <3> QED
      BY <3>1 DEF InstallerStates
  <2>2. Continues(u, next)
    BY <1>3
  <2> HIDE DEF next
  <2> QED
    BY <1>1, <1>3, <2>1, <2>2, StagingKeeps
<1> QED
  BY <1>2, <1>3 DEF CompareIdentity

\* The program of the target in hand is swapped; an installation that others have touched is
\* nobody's measure.
LEMMA SwappedKeeps ==
  ASSUME UpdateInv, UpdateAssumption, NEW u \in Installers, NEW s \in InstallerStates,
         NEW i \in Installations, Continues(u, s), UNCHANGED lock,
         mishaps' \in 0..MaxMishaps, ProgramsAreKept',
         installer[u].at = "compared", installer[u].now = i, s.now = i,
         s.left = installer[u].left, s.targets = installer[u].targets,
         s.replaced = installer[u].replaced,
         disk' \in [Installations -> Disks],
         history' \in [Installations ->
                         [programs: SUBSET Programs, touched: BOOLEAN,
                          late: SUBSET Installers, raced: BOOLEAN]],
         \A j \in Installations :
           /\ disk'[j].journal = disk[j].journal /\ disk'[j].task = disk[j].task
           /\ history'[j].touched = history[j].touched /\ history'[j].late = history[j].late
           /\ history'[j].raced = history[j].raced
           /\ j # i => disk'[j].program = disk[j].program,
         s.at = "torn" \/ (s.at = "swapped" /\ disk'[i].program = u)
  PROVE  UpdateInv'
<1> USE DEF UpdateInv
<1>c. /\ installer' \in [Installers -> InstallerStates] /\ installer'[u] = s
      /\ \A v \in Installers \ {u} : installer'[v] = installer[v]
  BY InstallerMoves
<1>e. Untouched' = Untouched /\ Untouched \subseteq Installations
  BY DEF Untouched
<1>f. \A v \in Installers : Works(v)' <=> Works(v)
  BY <1>c, <1>e DEF Works, Active, InHand
<1>g. i \in installer[u].left
  BY DEF UpdateLocksFit, InHand
<1>1. UpdateTypeOK'
  BY <1>c DEF UpdateTypeOK
<1>3. ChecksFit'
  <2>1. \A v \in Installers, j \in Installations : Checked(v, j) => Checked(v, j)'
    BY <1>c DEF Checked, Authorized, Untouched
  <2> QED
    BY <1>c, <2>1 DEF ChecksFit, Active, InHand
<1>4. UpdateLocksFit'
  BY <1>c DEF UpdateLocksFit, Active, InHand
<1>5. OneWorks'
  BY <1>f DEF OneWorks
<1>6. ProgramsFit'
  <2> SUFFICES ASSUME \A v \in Installers : installer'[v].at \notin {"failed", "torn", "restoring"}
               PROVE  /\ (\A v \in Installers : ~Works(v)) =>
                           \A j, k \in Untouched : disk'[j].program = disk'[k].program
                      /\ \A v \in Installers : Works(v) =>
                           /\ \A j \in Untouched : Behind(v, j)' \/ disk'[j].program = v
                           /\ \A j, k \in Untouched :
                                Behind(v, j)' /\ Behind(v, k)' => disk'[j].program = disk'[k].program
    BY <1>e, <1>f DEF ProgramsFit
  <2>1. /\ \A v \in Installers : installer[v].at \notin {"failed", "torn", "restoring"}
        /\ disk'[i].program = u /\ s.at = "swapped"
    BY <1>c
  <2>2. /\ \A v \in Installers \ {u}, j \in Installations : Behind(v, j)' <=> Behind(v, j)
        /\ \A j \in Installations : Behind(u, j)' <=> Behind(u, j) /\ j # i
    BY <1>c, <2>1 DEF Behind
  <2>3. i \in Untouched => Works(u)
    BY <1>g DEF Works, Active, InHand
  <2>4. ASSUME \A v \in Installers : ~Works(v), NEW j \in Untouched, NEW k \in Untouched
        PROVE  disk'[j].program = disk'[k].program
    <3>1. j # i /\ k # i
      BY <2>3, <2>4
    <3> QED
      BY <1>e, <2>1, <2>4, <3>1 DEF ProgramsFit
  <2>5. ASSUME NEW v \in Installers, Works(v)
        PROVE  /\ \A j \in Untouched : Behind(v, j)' \/ disk'[j].program = v
               /\ \A j, k \in Untouched :
                    Behind(v, j)' /\ Behind(v, k)' => disk'[j].program = disk'[k].program
    <3>1. i \in Untouched => v = u
      BY <2>3, <2>5 DEF OneWorks
    <3>2. \A j \in Untouched : Behind(v, j) \/ disk[j].program = v
      BY <2>1, <2>5 DEF ProgramsFit
    <3>3. \A j, k \in Untouched : Behind(v, j) /\ Behind(v, k) => disk[j].program = disk[k].program
      BY <2>1, <2>5 DEF ProgramsFit
    <3>4. \A j \in Untouched : Behind(v, j)' => Behind(v, j) /\ j # i
      BY <1>e, <2>2, <3>1
    <3>5. \A j \in Untouched : j # i => (Behind(v, j) => Behind(v, j)')
      BY <1>e, <2>2
    <3> QED
      BY <1>e, <2>1, <3>1, <3>2, <3>3, <3>4, <3>5
  <2> QED
    BY <2>4, <2>5
<1>9. RestoresFit'
  <2>1. \A j \in Installations : lock[j] # u => (Vacant(j) => Vacant(j)')
    BY <1>g DEF Vacant, UpdateLocksFit, Active, InHand
  <2>2. \A v \in Installers \ {u} : installer[v].at = "restoring" =>
          installer[v].now \in Installations /\ lock[installer[v].now] = v
    BY DEF UpdateLocksFit, Active, InHand, UpdateTypeOK, InstallerStates
  <2>3. installer'[u].at # "restoring"
    BY <1>c
  <2> QED
    BY <1>c, <2>1, <2>2, <2>3 DEF RestoresFit
<1> QED
  BY <1>1, <1>3, <1>4, <1>5, <1>6, <1>9

LEMMA ReplaceFileKeeps ==
  ASSUME UpdateInv, UpdateAssumption, NEW u \in Installers, ReplaceFile(u)
  PROVE  UpdateInv'
<1> USE DEF UpdateInv
<1> DEFINE i == installer[u].now
           kept == disk[i].backups \cup ({disk[i].program} \ {NoProgram})
<1>1. /\ installer[u].at = "compared" /\ i \in installer[u].left /\ i \in Installations
      /\ installer[u] \in InstallerStates /\ disk[i] \in Disks /\ mishaps \in 0..MaxMishaps
      /\ history[i] \in [programs: SUBSET Programs, touched: BOOLEAN,
                         late: SUBSET Installers, raced: BOOLEAN]
  BY DEF ReplaceFile, UpdateTypeOK, InstallerStates, UpdateLocksFit, InHand
<1>2. CASE /\ disk[i].program # NoProgram
           /\ disk' = [disk EXCEPT ![i].program = u, ![i].backups = kept]
           /\ Arrives(i, u)
           /\ Continues(u, [installer[u] EXCEPT !.at = "swapped", !.seen = @ \cup {disk[i].program}])
           /\ UNCHANGED <<lock, mishaps>>
  <2>1. /\ kept \in SUBSET Programs /\ disk[i].program \in Programs /\ disk[i].program \in kept
        /\ disk[i].backups \subseteq kept /\ u \in Programs /\ u # NoProgram
    BY <1>1, <1>2 DEF Disks, Programs, UpdateAssumption
  <2> DEFINE next == [installer[u] EXCEPT !.at = "swapped", !.seen = @ \cup {disk[i].program}]
             new == [disk[i] EXCEPT !.program = u, !.backups = kept]
             record == [history[i] EXCEPT !.programs = @ \cup {u}]
  <2>2. /\ next \in InstallerStates /\ next.at = "swapped" /\ next.left = installer[u].left
        /\ next.targets = installer[u].targets /\ next.replaced = installer[u].replaced
        /\ next.now = i
    BY <1>1, <2>1 DEF InstallerStates
  <2>3. Continues(u, next)
    BY <1>2
  <2> HIDE DEF kept
  <2>4. disk' = [disk EXCEPT ![i] = new]
    BY <1>1, <1>2 DEF UpdateTypeOK, Disks
  <2>5. /\ new \in Disks /\ new.program = u /\ new.backups = kept
        /\ new.journal = disk[i].journal /\ new.task = disk[i].task
    BY <1>1, <2>1 DEF Disks, Programs
  <2>6. history' = [history EXCEPT ![i] = record]
    <3>1. {u} \ {NoProgram} = {u}
      BY <2>1
    <3> QED
      BY <1>1, <1>2, <3>1 DEF Arrives, UpdateTypeOK
  <2>7. /\ record \in [programs: SUBSET Programs, touched: BOOLEAN,
                       late: SUBSET Installers, raced: BOOLEAN]
        /\ record.programs = history[i].programs \cup {u}
        /\ record.touched = history[i].touched /\ record.late = history[i].late
        /\ record.raced = history[i].raced
    BY <1>1, <2>1
  <2> HIDE DEF next, new, record
  <2>8. /\ disk' \in [Installations -> Disks] /\ disk'[i] = new
        /\ \A j \in Installations : j # i => disk'[j] = disk[j]
    BY <1>1, <2>4, <2>5 DEF UpdateTypeOK
  <2>9. /\ history' \in [Installations ->
                           [programs: SUBSET Programs, touched: BOOLEAN,
                            late: SUBSET Installers, raced: BOOLEAN]]
        /\ history'[i] = record
        /\ \A j \in Installations : j # i => history'[j] = history[j]
    BY <1>1, <2>6, <2>7 DEF UpdateTypeOK
  <2>10. ProgramsAreKept'
    <3>1. history[i].programs \subseteq disk[i].backups \cup {disk[i].program} \cup Overwritten(i)
      BY <1>1 DEF ProgramsAreKept, ProgramsHeld
    <3>2. record.programs \subseteq new.backups \cup {new.program} \cup Overwritten(i)
      BY <2>1, <2>5, <2>7, <3>1
    <3>3. \A j \in Installations : Overwritten(j)' = Overwritten(j)
      BY <2>7, <2>9 DEF Overwritten
    <3>4. \A j \in Installations : j = i => ProgramsHeld(j)' = new.backups \cup {new.program}
      BY <2>8 DEF ProgramsHeld
    <3>5. \A j \in Installations : j # i => history'[j].programs \subseteq ProgramsHeld(j)' \cup Overwritten(j)'
      BY <2>8, <2>9, <3>3 DEF ProgramsAreKept, ProgramsHeld
    <3> QED
      BY <1>1, <2>9, <3>2, <3>3, <3>4, <3>5 DEF ProgramsAreKept
  <2>11. \A j \in Installations :
           /\ disk'[j].journal = disk[j].journal /\ disk'[j].task = disk[j].task
           /\ history'[j].touched = history[j].touched /\ history'[j].late = history[j].late
           /\ history'[j].raced = history[j].raced
           /\ j # i => disk'[j].program = disk[j].program
    BY <2>5, <2>7, <2>8, <2>9
  <2>12. disk'[i].program = u
    BY <2>5, <2>8
  <2> HIDE DEF i
  <2> QED
    <3>1. i \in Installations /\ installer[u].at = "compared" /\ installer[u].now = i
      BY <1>1 DEF i
    <3>2. UNCHANGED lock /\ mishaps' \in 0..MaxMishaps
      BY <1>1, <1>2
    <3>3. next \in InstallerStates
      BY <2>2
    <3> HIDE DEF UpdateInv
    <3> QED
      BY ONLY UpdateInv, UpdateAssumption, u \in Installers,
              <2>2, <2>3, <2>8, <2>9, <2>10, <2>11, <2>12, <3>1, <3>2, <3>3, SwappedKeeps
<1>3. CASE (Mishap \/ UNCHANGED mishaps) /\ Stops(u, "failed") /\ UNCHANGED <<disk, history>>
  <2>1. ProgramsAreKept' /\ mishaps' \in 0..MaxMishaps
    BY <1>1, <1>3 DEF ProgramsAreKept, ProgramsHeld, Overwritten, Mishap, UpdateAssumption
  <2> QED
    BY <1>1, <1>3, <2>1, StopsKeep DEF UpdateTypeOK
<1>4. CASE /\ disk[i].program # NoProgram /\ Mishap
           /\ disk' = [disk EXCEPT ![i].program = NoProgram, ![i].backups = kept]
           /\ Continues(u, [installer[u] EXCEPT !.at = "torn", !.seen = @ \cup {disk[i].program}])
           /\ UNCHANGED <<lock, history>>
  <2>1. /\ kept \in SUBSET Programs /\ disk[i].program \in Programs /\ disk[i].program \in kept
        /\ disk[i].backups \subseteq kept
    BY <1>1, <1>4 DEF Disks
  <2> DEFINE next == [installer[u] EXCEPT !.at = "torn", !.seen = @ \cup {disk[i].program}]
             new == [disk[i] EXCEPT !.program = NoProgram, !.backups = kept]
  <2>2. /\ next \in InstallerStates /\ next.at = "torn" /\ next.left = installer[u].left
        /\ next.targets = installer[u].targets /\ next.replaced = installer[u].replaced
        /\ next.now = i
    BY <1>1, <2>1 DEF InstallerStates
  <2>3. Continues(u, next)
    BY <1>4
  <2> HIDE DEF kept
  <2>4. disk' = [disk EXCEPT ![i] = new]
    BY <1>1, <1>4 DEF UpdateTypeOK, Disks
  <2>5. /\ new \in Disks /\ new.backups = kept
        /\ new.journal = disk[i].journal /\ new.task = disk[i].task
    BY <1>1, <2>1 DEF Disks
  <2> HIDE DEF next, new
  <2>8. /\ disk' \in [Installations -> Disks] /\ disk'[i] = new
        /\ \A j \in Installations : j # i => disk'[j] = disk[j]
    BY <1>1, <2>4, <2>5 DEF UpdateTypeOK
  <2>10. ProgramsAreKept'
    <3>1. history[i].programs \subseteq disk[i].backups \cup {disk[i].program} \cup Overwritten(i)
      BY <1>1 DEF ProgramsAreKept, ProgramsHeld
    <3>2. history[i].programs \subseteq new.backups \cup {new.program} \cup Overwritten(i)
      BY <2>1, <2>5, <3>1
    <3>3. \A j \in Installations : j # i => history[j].programs \subseteq ProgramsHeld(j)' \cup Overwritten(j)
      BY <2>8 DEF ProgramsAreKept, ProgramsHeld
    <3>4. \A j \in Installations : j = i => ProgramsHeld(j)' = new.backups \cup {new.program}
      BY <2>8 DEF ProgramsHeld
    <3>5. \A j \in Installations : Overwritten(j)' = Overwritten(j) /\ history'[j] = history[j]
      BY <1>4 DEF Overwritten
    <3> QED
      BY <3>2, <3>3, <3>4, <3>5 DEF ProgramsAreKept
  <2>11. \A j \in Installations :
           /\ disk'[j].journal = disk[j].journal /\ disk'[j].task = disk[j].task
           /\ history'[j].touched = history[j].touched /\ history'[j].late = history[j].late
           /\ history'[j].raced = history[j].raced
           /\ j # i => disk'[j].program = disk[j].program
    BY <1>4, <2>5, <2>8
  <2>12. /\ mishaps' \in 0..MaxMishaps
         /\ history' \in [Installations ->
                            [programs: SUBSET Programs, touched: BOOLEAN,
                             late: SUBSET Installers, raced: BOOLEAN]]
    BY <1>1, <1>4 DEF Mishap, UpdateAssumption, UpdateTypeOK
  <2> HIDE DEF i
  <2> QED
    <3>1. i \in Installations /\ installer[u].at = "compared" /\ installer[u].now = i
      BY <1>1 DEF i
    <3>2. UNCHANGED lock
      BY <1>4
    <3>3. next \in InstallerStates
      BY <2>2
    <3> HIDE DEF UpdateInv
    <3> QED
      BY ONLY UpdateInv, UpdateAssumption, u \in Installers,
              <2>2, <2>3, <2>8, <2>10, <2>11, <2>12, <3>1, <3>2, <3>3, SwappedKeeps
<1> QED
  BY <1>2, <1>3, <1>4 DEF ReplaceFile

LEMMA CheckRestoreKeeps ==
  ASSUME UpdateInv, UpdateAssumption, NEW u \in Installers, CheckRestore(u)
  PROVE  UpdateInv'
<1> USE DEF UpdateInv
<1>1. UNCHANGED <<disk, mishaps, history>> /\ installer[u].at = "torn"
      /\ ProgramsAreKept' /\ mishaps \in 0..MaxMishaps
  BY DEF CheckRestore, UpdateTypeOK, ProgramsAreKept, ProgramsHeld, Overwritten
<1>2. CASE Stops(u, "failed")
  BY <1>1, <1>2, StopsKeep DEF UpdateTypeOK
<1>3. CASE /\ disk[installer[u].now].program = NoProgram
           /\ Continues(u, [installer[u] EXCEPT !.at = "restoring"]) /\ UNCHANGED lock
  <2> DEFINE next == [installer[u] EXCEPT !.at = "restoring"]
  <2>1. /\ next \in InstallerStates /\ next.at = "restoring" /\ next.left = installer[u].left
        /\ next.targets = installer[u].targets /\ next.replaced = installer[u].replaced
        /\ next.now \in next.left /\ next.now = installer[u].now
    <3>1. installer[u] \in InstallerStates /\ installer[u].now \in installer[u].left
      BY <1>1 DEF UpdateTypeOK, UpdateLocksFit, InHand
    <3> QED
      BY <3>1 DEF InstallerStates
  <2>2. Continues(u, next)
    BY <1>3
  <2> HIDE DEF next
  <2> QED
    BY <1>1, <1>3, <2>1, <2>2, StagingKeeps
<1> QED
  BY <1>2, <1>3 DEF CheckRestore

\* What the rename replaces is nothing, or a file that came after the look.
LEMMA RestoreProgramKeeps ==
  ASSUME UpdateInv, UpdateAssumption, NEW u \in Installers, RestoreProgram(u)
  PROVE  UpdateInv'
<1> USE DEF UpdateInv
<1>0. PICK i \in Installations : i = installer[u].now
  BY DEF RestoreProgram, UpdateTypeOK, InstallerStates, UpdateLocksFit, InHand
<1>1. /\ installer[u].at = "restoring" /\ Stops(u, "failed")
      /\ disk[i] \in Disks /\ installer[u].seen \subseteq Programs
      /\ UNCHANGED <<mishaps, history>> /\ mishaps \in 0..MaxMishaps
      /\ Vacant(i) /\ lock[i] = u
  BY <1>0 DEF RestoreProgram, UpdateTypeOK, InstallerStates, UpdateLocksFit, InHand, Active, RestoresFit
<1>2. PICK old \in installer[u].seen :
        disk' = [disk EXCEPT ![i].program = old, ![i].backups = @ \ {old}]
  BY <1>0 DEF RestoreProgram
<1> DEFINE new == [disk[i] EXCEPT !.program = old, !.backups = @ \ {old}]
<1>3. disk' = [disk EXCEPT ![i] = new]
  BY <1>1, <1>2 DEF UpdateTypeOK, Disks
<1>4. /\ new \in Disks /\ new.program = old /\ new.backups = disk[i].backups \ {old}
      /\ new.journal = disk[i].journal /\ new.task = disk[i].task
  BY <1>1 DEF Disks
<1> HIDE DEF new
<1>5. /\ disk' \in [Installations -> Disks] /\ disk'[i] = new
      /\ \A j \in Installations : j # i => disk'[j] = disk[j]
  BY <1>1, <1>3, <1>4 DEF UpdateTypeOK
<1>6. history[i].programs \subseteq Programs /\ NoProgram \notin Programs
  BY <1>1 DEF UpdateTypeOK, UpdateAssumption, Programs
<1>7. ProgramsAreKept'
  <2>1. history[i].programs \subseteq disk[i].backups \cup {disk[i].program} \cup Overwritten(i)
    BY <1>1 DEF ProgramsAreKept, ProgramsHeld
  <2>2. history[i].programs \subseteq disk[i].backups \cup Overwritten(i)
    BY <1>1, <1>6, <2>1 DEF Vacant, Overwritten
  <2>3. ProgramsHeld(i)' = (disk[i].backups \ {old}) \cup {old}
    BY <1>1, <1>4, <1>5 DEF ProgramsHeld
  <2>4. \A j \in Installations : Overwritten(j)' = Overwritten(j) /\ history'[j] = history[j]
    BY <1>1 DEF Overwritten
  <2>5. \A j \in Installations : j # i => history[j].programs \subseteq ProgramsHeld(j)' \cup Overwritten(j)
    BY <1>5 DEF ProgramsAreKept, ProgramsHeld
  <2> QED
    BY <2>2, <2>3, <2>4, <2>5 DEF ProgramsAreKept
<1>8. \A j \in Installations : disk'[j].journal = disk[j].journal /\ disk'[j].task = disk[j].task
  BY <1>4, <1>5
<1>9. \A j \in Installations : lock[j] # u => disk'[j].program = disk[j].program
  BY <1>1, <1>5
<1>10. "failed" \in {"failed", "done"} /\ installer[u].at # "new" /\ UNCHANGED history
       /\ mishaps' \in 0..MaxMishaps
  BY <1>1
<1> HIDE DEF UpdateInv
<1> QED
  BY ONLY UpdateInv, UpdateAssumption, u \in Installers, <1>1, <1>5, <1>7, <1>8, <1>9, <1>10, StopsKeep

LEMMA VerifyReplacedKeeps ==
  ASSUME UpdateInv, UpdateAssumption, NEW u \in Installers, VerifyReplaced(u)
  PROVE  UpdateInv'
<1> USE DEF UpdateInv
<1>1. /\ installer[u].at = "swapped" /\ UNCHANGED <<disk, mishaps, history>>
      /\ ProgramsAreKept' /\ mishaps \in 0..MaxMishaps /\ installer[u].now \in installer[u].left
  BY DEF VerifyReplaced, UpdateTypeOK, ProgramsAreKept, ProgramsHeld, Overwritten, UpdateLocksFit, InHand
<1>2. CASE Stops(u, "failed")
  BY <1>1, <1>2, StopsKeep DEF UpdateTypeOK
<1>3. CASE disk[installer[u].now].program = u /\ Finished(u, installer[u].now, TRUE)
  BY <1>1, <1>3, FinishedKeeps
<1> QED
  BY <1>2, <1>3 DEF VerifyReplaced

LEMMA ReportUpdateKeeps ==
  ASSUME UpdateInv, UpdateAssumption, NEW u \in Installers, ReportUpdate(u)
  PROVE  UpdateInv'
BY StopsKeep DEF UpdateInv, ReportUpdate, UpdateTypeOK, ProgramsAreKept, ProgramsHeld, Overwritten

LEMMA InstallerFailsKeeps ==
  ASSUME UpdateInv, UpdateAssumption, NEW u \in Installers, InstallerFails(u)
  PROVE  UpdateInv'
<1>1. mishaps' \in 0..MaxMishaps
  BY DEF UpdateInv, UpdateTypeOK, InstallerFails, Mishap, UpdateAssumption
<1> QED
  BY <1>1, StopsKeep DEF UpdateInv, InstallerFails, UpdateTypeOK, ProgramsAreKept, ProgramsHeld, Overwritten

\* What others do takes installations out of the measure.
LEMMA FewerUntouched ==
  ASSUME UpdateInv, UNCHANGED installer, Untouched' \subseteq Untouched,
         \A j \in Untouched' : disk'[j].program = disk[j].program
  PROVE  OneWorks' /\ ProgramsFit'
<1> USE DEF UpdateInv
<1>1. \A v \in Installers : Works(v)' => Works(v)
  BY DEF Works
<1>2. OneWorks'
  BY <1>1 DEF OneWorks
<1>3. ProgramsFit'
  <2> SUFFICES ASSUME \A v \in Installers : installer[v].at \notin {"failed", "torn", "restoring"}
               PROVE  /\ (\A v \in Installers : ~Works(v)') =>
                           \A j, k \in Untouched' : disk[j].program = disk[k].program
                      /\ \A v \in Installers : Works(v) =>
                           /\ \A j \in Untouched' : Behind(v, j) \/ disk[j].program = v
                           /\ \A j, k \in Untouched' :
                                Behind(v, j) /\ Behind(v, k) => disk[j].program = disk[k].program
    BY <1>1 DEF ProgramsFit, Behind
  <2>1. ASSUME \A v \in Installers : ~Works(v)', NEW j \in Untouched', NEW k \in Untouched'
        PROVE  disk[j].program = disk[k].program
    <3>1. CASE \A v \in Installers : ~Works(v)
      BY <2>1, <3>1 DEF ProgramsFit
    <3>2. CASE \E v \in Installers : Works(v)
      <4>1. PICK v \in Installers : Works(v)
        BY <3>2
      <4>2. j \notin installer[v].left /\ k \notin installer[v].left
        BY <2>1, <4>1 DEF Works
      <4> QED
        BY <2>1, <4>1, <4>2 DEF ProgramsFit, Behind
    <3> QED
      BY <3>1, <3>2
  <2>2. ASSUME NEW v \in Installers, Works(v)
        PROVE  /\ \A j \in Untouched : Behind(v, j) \/ disk[j].program = v
               /\ \A j, k \in Untouched :
                    Behind(v, j) /\ Behind(v, k) => disk[j].program = disk[k].program
    BY <2>2 DEF ProgramsFit
  <2> QED
    BY <2>1, <2>2
<1> QED
  BY <1>2, <1>3

LEMMA ForeignChangeKeeps ==
  ASSUME UpdateInv, UpdateAssumption, NEW i \in Installations, ForeignChange(i)
  PROVE  UpdateInv'
<1> USE DEF UpdateInv
<1>1. PICK program \in {Foreign, NoProgram} \ {disk[i].program} :
        /\ disk' = [disk EXCEPT ![i].program = program]
        /\ history' = [history EXCEPT
             ![i].programs = (IF disk[i].program \in disk[i].backups THEN @
                              ELSE @ \ {disk[i].program}) \cup ({program} \ {NoProgram}),
             ![i].touched = TRUE,
             ![i].raced = @ \/ /\ program = Foreign
                               /\ \E u \in Installers : /\ installer[u].at = "restoring"
                                                        /\ installer[u].now = i]
  BY DEF ForeignChange
<1>2. UNCHANGED <<lock, installer>> /\ mishaps' \in 0..MaxMishaps
  BY DEF ForeignChange, Mishap, UpdateTypeOK, UpdateAssumption
<1>3. /\ disk[i] \in Disks
      /\ history[i] \in [programs: SUBSET Programs, touched: BOOLEAN,
                         late: SUBSET Installers, raced: BOOLEAN]
      /\ program \in Programs \cup {NoProgram} /\ {program} \ {NoProgram} \subseteq Programs
  BY DEF UpdateTypeOK, Programs
<1> DEFINE programs == (IF disk[i].program \in disk[i].backups THEN history[i].programs
                        ELSE history[i].programs \ {disk[i].program}) \cup ({program} \ {NoProgram})
           new == [disk[i] EXCEPT !.program = program]
           restoring == \E u \in Installers : installer[u].at = "restoring" /\ installer[u].now = i
           nowRaced == history[i].raced \/ (program = Foreign /\ restoring)
           record == [history[i] EXCEPT !.programs = programs, !.touched = TRUE, !.raced = nowRaced]
<1>4. /\ programs \in SUBSET Programs
      /\ programs \subseteq disk[i].backups \cup {program} \cup Overwritten(i)
  BY <1>3 DEF ProgramsAreKept, ProgramsHeld
<1>5. /\ new \in Disks /\ new.program = program /\ new.backups = disk[i].backups
      /\ new.journal = disk[i].journal /\ new.task = disk[i].task
  BY <1>3 DEF Disks
<1>6. disk' = [disk EXCEPT ![i] = new]
  BY <1>1 DEF UpdateTypeOK, Disks
<1>7. history' = [history EXCEPT ![i] = record]
  BY <1>1 DEF UpdateTypeOK
<1>17. /\ nowRaced \in BOOLEAN /\ (history[i].raced => nowRaced)
       /\ (program = Foreign /\ restoring) => nowRaced
  BY <1>3
<1> HIDE DEF programs, new, nowRaced
<1>8. /\ record \in [programs: SUBSET Programs, touched: BOOLEAN,
                     late: SUBSET Installers, raced: BOOLEAN]
      /\ record.programs = programs /\ record.touched /\ record.late = history[i].late
      /\ record.raced = nowRaced
  BY <1>3, <1>4, <1>17
<1> HIDE DEF record
<1>9. /\ disk' \in [Installations -> Disks] /\ disk'[i] = new
      /\ \A j \in Installations : j # i => disk'[j] = disk[j]
  BY <1>5, <1>6 DEF UpdateTypeOK
<1>10. /\ history' \in [Installations ->
                          [programs: SUBSET Programs, touched: BOOLEAN,
                           late: SUBSET Installers, raced: BOOLEAN]]
       /\ history'[i] = record
       /\ \A j \in Installations : j # i => history'[j] = history[j]
  BY <1>7, <1>8 DEF UpdateTypeOK
<1>11. UpdateTypeOK'
  BY <1>2, <1>9, <1>10 DEF UpdateTypeOK
<1>12. ProgramsAreKept'
  <2>1. ProgramsHeld(i)' = disk[i].backups \cup {program}
    BY <1>5, <1>9 DEF ProgramsHeld
  <2>2. \A j \in Installations : Overwritten(j) \subseteq Overwritten(j)'
    BY <1>8, <1>10, <1>17 DEF Overwritten
  <2>3. history'[i].programs \subseteq ProgramsHeld(i)' \cup Overwritten(i)'
    BY <1>4, <1>8, <1>10, <2>1, <2>2
  <2>4. \A j \in Installations : j # i => history'[j].programs \subseteq ProgramsHeld(j)' \cup Overwritten(j)'
    BY <1>9, <1>10, <2>2 DEF ProgramsAreKept, ProgramsHeld
  <2> QED
    BY <2>3, <2>4 DEF ProgramsAreKept
<1>13. ChecksFit'
  <2>1. \A v \in Installers, j \in Installations : Checked(v, j) => Checked(v, j)'
    BY <1>2, <1>5, <1>8, <1>9, <1>10 DEF Checked, Authorized, Untouched
  <2> QED
    BY <1>2, <2>1 DEF ChecksFit
<1>14. UpdateLocksFit'
  BY <1>2 DEF UpdateLocksFit
<1>15. Untouched' \subseteq Untouched /\ i \notin Untouched' /\ Untouched \subseteq Installations
  BY <1>5, <1>8, <1>9, <1>10 DEF Untouched
<1>16. \A j \in Untouched' : disk'[j].program = disk[j].program
  BY <1>9, <1>15
<1>18. RestoresFit'
  <2>1. ASSUME NEW v \in Installers, installer[v].at = "restoring" PROVE Vacant(installer[v].now)'
    <3>1. Vacant(installer[v].now) /\ installer[v].now \in Installations
      BY <2>1 DEF RestoresFit, UpdateLocksFit, UpdateTypeOK, InstallerStates, Active, InHand
    <3>2. CASE installer[v].now = i
      <4>1. restoring
        BY <2>1, <3>2
      <4>2. Vacant(i)'
        BY <1>1, <1>5, <1>8, <1>9, <1>10, <1>17, <4>1 DEF Vacant
      <4> QED
        BY <1>2, <3>2, <4>2
    <3>3. CASE installer[v].now # i
      BY <1>2, <1>9, <1>10, <3>1, <3>3 DEF Vacant
    <3> QED
      BY <3>2, <3>3
  <2> QED
    BY <1>2, <2>1 DEF RestoresFit
<1> QED
  BY <1>2, <1>11, <1>12, <1>13, <1>14, <1>15, <1>16, <1>18, FewerUntouched

\* Whoever is done with looking at an installation is among those who passed it.
LEMMA LookedPassed ==
  ASSUME UpdateInv, NEW u \in Installers, NEW i \in Installations,
         \/ installer[u].at \in Active \cup {"done"}
         \/ installer[u].replaced # {}
         \/ installer[u].at = "validating" /\ i \notin installer[u].left
  PROVE  u \in Passed(i)
BY DEF UpdateInv, ChecksFit, Passed, Active, InHand

\* The journal or the task of an installation changes, and all who passed it are noted.
LEMMA SurroundingsChange ==
  ASSUME UpdateInv, UpdateAssumption, NEW i \in Installations, NEW new \in Disks,
         NEW touched \in BOOLEAN, UNCHANGED <<lock, installer>>, mishaps' \in 0..MaxMishaps,
         disk' = [disk EXCEPT ![i] = new],
         history' = [history EXCEPT ![i].touched = touched, ![i].late = Passed(i)],
         new.program = disk[i].program, new.backups = disk[i].backups,
         touched \/ (new.journal = disk[i].journal /\ touched = history[i].touched)
  PROVE  UpdateInv'
<1> USE DEF UpdateInv
<1> DEFINE record == [history[i] EXCEPT !.touched = touched, !.late = Passed(i)]
<1>0. /\ history[i] \in [programs: SUBSET Programs, touched: BOOLEAN,
                         late: SUBSET Installers, raced: BOOLEAN]
      /\ Passed(i) \in SUBSET Installers
  BY DEF UpdateTypeOK, Passed
<1>1. history' = [history EXCEPT ![i] = record]
  BY DEF UpdateTypeOK
<1>2. /\ record \in [programs: SUBSET Programs, touched: BOOLEAN,
                     late: SUBSET Installers, raced: BOOLEAN]
      /\ record.programs = history[i].programs /\ record.touched = touched
      /\ record.late = Passed(i) /\ record.raced = history[i].raced
  BY <1>0
<1> HIDE DEF record
<1>3. /\ disk' \in [Installations -> Disks] /\ disk'[i] = new
      /\ \A j \in Installations : j # i => disk'[j] = disk[j]
  BY DEF UpdateTypeOK
<1>4. /\ history' \in [Installations ->
                         [programs: SUBSET Programs, touched: BOOLEAN,
                          late: SUBSET Installers, raced: BOOLEAN]]
      /\ history'[i] = record
      /\ \A j \in Installations : j # i => history'[j] = history[j]
  BY <1>1, <1>2 DEF UpdateTypeOK
<1>5. UpdateTypeOK'
  BY <1>3, <1>4 DEF UpdateTypeOK
<1>6. \A j \in Installations :
        /\ ProgramsHeld(j)' = ProgramsHeld(j) /\ Overwritten(j)' = Overwritten(j) /\ (Vacant(j)' <=> Vacant(j))
        /\ history'[j].programs = history[j].programs
        /\ disk'[j].program = disk[j].program
  BY <1>2, <1>3, <1>4 DEF ProgramsHeld, Overwritten, Vacant
<1>7. ProgramsAreKept'
  BY <1>6 DEF ProgramsAreKept
<1>8. Untouched' \subseteq Untouched /\ Untouched \subseteq Installations
  BY <1>2, <1>3, <1>4 DEF Untouched
<1>9. ChecksFit'
  <2>1. \A v \in Installers, j \in Installations : j # i => (Checked(v, j) => Checked(v, j)')
    BY <1>3, <1>4, <1>8 DEF Checked, Authorized
  <2>2. \A v \in Installers : Checked(v, i) /\ v \in Passed(i) => Checked(v, i)'
    BY <1>2, <1>4, <1>8 DEF Checked
  <2> QED
    BY <2>1, <2>2, LookedPassed DEF ChecksFit
<1>10. UpdateLocksFit'
  BY DEF UpdateLocksFit
<1>11. RestoresFit'
  <2>1. \A v \in Installers : installer[v].at = "restoring" => installer[v].now \in Installations
    BY DEF UpdateLocksFit, UpdateTypeOK, InstallerStates, Active, InHand
  <2> QED
    BY <1>6, <2>1 DEF RestoresFit
<1>12. \A j \in Untouched' : disk'[j].program = disk[j].program
  BY <1>6, <1>8
<1> QED
  BY <1>5, <1>7, <1>8, <1>9, <1>10, <1>11, <1>12, FewerUntouched

LEMMA ActivatesKeeps ==
  ASSUME UpdateInv, UpdateAssumption, NEW i \in Installations, Activates(i)
  PROVE  UpdateInv'
<1>1. /\ disk[i] \in Disks /\ UNCHANGED <<lock, installer, mishaps>> /\ mishaps' \in 0..MaxMishaps
      /\ history' = [history EXCEPT ![i].touched = TRUE, ![i].late = Passed(i)]
  BY DEF UpdateInv, UpdateTypeOK, Activates
<1>2. CASE disk' = [disk EXCEPT ![i].journal = "pending"]
  <2> DEFINE new == [disk[i] EXCEPT !.journal = "pending"]
  <2>1. disk' = [disk EXCEPT ![i] = new]
    BY <1>1, <1>2 DEF UpdateInv, UpdateTypeOK, Disks
  <2>2. new \in Disks /\ new.program = disk[i].program /\ new.backups = disk[i].backups
    BY <1>1 DEF Disks
  <2> HIDE DEF new
  <2> QED
    BY <1>1, <2>1, <2>2, SurroundingsChange
<1>3. CASE disk' = [disk EXCEPT ![i].journal = "owned", ![i].task = TRUE]
  <2> DEFINE new == [disk[i] EXCEPT !.journal = "owned", !.task = TRUE]
  <2>1. disk' = [disk EXCEPT ![i] = new]
    BY <1>1, <1>3 DEF UpdateInv, UpdateTypeOK, Disks
  <2>2. new \in Disks /\ new.program = disk[i].program /\ new.backups = disk[i].backups
    BY <1>1 DEF Disks
  <2> HIDE DEF new
  <2> QED
    BY <1>1, <2>1, <2>2, SurroundingsChange
<1> QED
  BY <1>2, <1>3 DEF Activates

LEMMA TaskChangesKeeps ==
  ASSUME UpdateInv, UpdateAssumption, NEW i \in Installations, TaskChanges(i)
  PROVE  UpdateInv'
<1> DEFINE new == [disk[i] EXCEPT !.task = FALSE]
<1>1. /\ disk[i] \in Disks /\ UNCHANGED <<lock, installer>> /\ mishaps' \in 0..MaxMishaps
      /\ history[i].touched \in BOOLEAN
  BY DEF UpdateInv, UpdateTypeOK, TaskChanges, Mishap, UpdateAssumption
<1>2. disk' = [disk EXCEPT ![i] = new]
  BY <1>1 DEF UpdateInv, UpdateTypeOK, TaskChanges, Disks
<1>3. /\ new \in Disks /\ new.program = disk[i].program /\ new.backups = disk[i].backups
      /\ new.journal = disk[i].journal
  BY <1>1 DEF Disks
<1> HIDE DEF new
<1>4. history' = [history EXCEPT ![i].touched = history[i].touched, ![i].late = Passed(i)]
  BY DEF UpdateInv, UpdateTypeOK, TaskChanges
<1> QED
  BY <1>1, <1>2, <1>3, <1>4, SurroundingsChange

LEMMA UpdateInitially ==
  ASSUME UpdateInit, UpdateAssumption
  PROVE  UpdateInv
<1> USE DEF UpdateInit
<1>1. PICK journals \in [Installations -> {"owned", "none", "invalid"}] :
        disk = [i \in Installations |->
                  [program |-> OldProgram, backups |-> {}, journal |-> journals[i], task |-> TRUE]]
  OBVIOUS
<1>2. /\ disk \in [Installations -> Disks]
      /\ \A i \in Installations : disk[i].program = OldProgram
  BY <1>1 DEF Disks, Programs
<1>3. /\ installer \in [Installers -> InstallerStates]
      /\ \A u \in Installers : /\ installer[u].at = "new" /\ installer[u].targets = {}
                               /\ installer[u].replaced = {}
  BY DEF InstallerStates
<1>4. /\ history \in [Installations ->
                        [programs: SUBSET Programs, touched: BOOLEAN,
                         late: SUBSET Installers, raced: BOOLEAN]]
      /\ \A i \in Installations : history[i].programs = {OldProgram}
  BY DEF Programs
<1>5. UpdateTypeOK /\ ProgramsAreKept
  BY <1>2, <1>3, <1>4 DEF UpdateTypeOK, ProgramsAreKept, ProgramsHeld, Overwritten, UpdateAssumption
<1>6. ChecksFit /\ UpdateLocksFit /\ RestoresFit
  BY <1>3 DEF ChecksFit, UpdateLocksFit, RestoresFit, Active, InHand
<1>7. \A u \in Installers : ~Works(u)
  BY <1>3 DEF Works, Active, InHand
<1>8. OneWorks /\ ProgramsFit
  BY <1>2, <1>7 DEF OneWorks, ProgramsFit, Untouched
<1> QED
  BY <1>5, <1>6, <1>8 DEF UpdateInv

LEMMA UpdateStep ==
  ASSUME UpdateInv, UpdateAssumption, [UpdateNext]_updateVars
  PROVE  UpdateInv'
<1>1. CASE UNCHANGED updateVars
  BY <1>1 DEF UpdateInv, UpdateTypeOK, ProgramsAreKept, ProgramsHeld, Overwritten, ChecksFit,
     Checked, Authorized, UpdateLocksFit, RestoresFit, Vacant, OneWorks, ProgramsFit, Works, Behind,
     Untouched, updateVars
<1>2. ASSUME NEW u \in Installers,
             \/ Begin(u) \/ Validate(u) \/ StartReplacing(u) \/ StageProgram(u)
             \/ CompareIdentity(u) \/ ReplaceFile(u) \/ CheckRestore(u) \/ RestoreProgram(u)
             \/ VerifyReplaced(u) \/ ReportUpdate(u) \/ InstallerFails(u)
      PROVE  UpdateInv'
  BY <1>2, BeginKeeps, ValidateKeeps, StartReplacingKeeps, StageProgramKeeps, CompareIdentityKeeps,
     ReplaceFileKeeps, CheckRestoreKeeps, RestoreProgramKeeps, VerifyReplacedKeeps,
     ReportUpdateKeeps, InstallerFailsKeeps
<1>3. ASSUME NEW i \in Installations, ForeignChange(i) \/ Activates(i) \/ TaskChanges(i)
      PROVE  UpdateInv'
  BY <1>3, ForeignChangeKeeps, ActivatesKeeps, TaskChangesKeeps
<1> QED
  BY <1>1, <1>2, <1>3 DEF UpdateNext

LEMMA UpdateAlways == UpdateSpec => []UpdateInv
<1>1. UpdateInit => UpdateInv
  BY UpdateInitially, UpdateAssumption
<1>2. UpdateInv /\ [UpdateNext]_updateVars => UpdateInv'
  BY UpdateStep, UpdateAssumption
<1> QED
  BY <1>1, <1>2, PTL DEF UpdateSpec

\* UpdateTypeOK (RuntimeUpdate): the type invariant of the updates, which gives every
\* installer, lock and program its range.
THEOREM UpdateTypeCorrect == UpdateSpec => []UpdateTypeOK
<1>1. UpdateInv => UpdateTypeOK
  BY DEF UpdateInv
<1> QED
  BY <1>1, UpdateAlways, PTL

\* UpdateIsSafe (RuntimeUpdate), for any number of installations and installers: replace of
\* binary_update.rs destroys neither the program from before nor one that an installer put in
\* place, and a foreign one only when it comes between the last look of a restoring installer
\* and its rename; stage of runtime_update.rs replaces none before all were found in order; and
\* installers that drop each lock before the next target still leave one version behind when
\* all of them succeed.
THEOREM UpdatesAreSafe == UpdateSpec => []UpdateIsSafe
<1>1. ASSUME UpdateInv PROVE UpdateIsSafe
  <2>1. ProgramsAreKept
    BY <1>1 DEF UpdateInv
  <2>2. OneVersion
    <3> SUFFICES ASSUME \A u \in Installers : installer[u].at \in {"new", "done"}
                 PROVE  \A i, j \in Untouched : disk[i].program = disk[j].program
      BY DEF OneVersion, Untouched
    <3>1. \A u \in Installers : ~Works(u) /\ installer[u].at \notin {"failed", "torn", "restoring"}
      BY DEF Works, Active, InHand
    <3> QED
      BY <1>1, <3>1 DEF UpdateInv, ProgramsFit
  <2>3. AllValidFirst
    BY <1>1 DEF UpdateInv, ChecksFit, Checked, AllValidFirst
  <2> QED
    BY <2>1, <2>2, <2>3 DEF UpdateIsSafe
<1>2. UpdateInv => UpdateIsSafe
  BY <1>1
<1> QED
  BY <1>2, UpdateAlways, PTL

-----------------------------------------------------------------------------
\* The journal of a qualification run.
\* Whom the file shows with which result.
Made(c) == attempts.present /\ c \in DOMAIN attempts.attempts
Shown(c) == IF Made(c) THEN attempts.attempts[c].result ELSE Pending

\* What was sent, answered and first recorded is what the file says.
EvidenceFits ==
  \A c \in Cases :
    /\ sendings[c].first = Shown(c)
    /\ sendings[c].first.kind = "response" => sendings[c].first = sendings[c].answer
    /\ sendings[c].times <= 1
    /\ sendings[c].times = 0 => sendings[c].answer = Pending
    /\ sendings[c].times > 0 =>
         /\ Made(c) /\ attempts.attempts[c].submitted >= 0
         /\ sendings[c].place = attempts.place

\* The journal in memory: what it was opened with, or what was saved last, unless a write
\* that replaced the file was reported as an error; then nothing is saved any more.
MemoryFits ==
  command # Idle =>
    /\ command.at = "opened" =>
         /\ command.persisted = attempts
         /\ command.record = IF attempts.present THEN attempts ELSE EmptyRecord(command.record.place)
    /\ command.at \in Working \cup {"begin"} => attempts.present /\ command.persisted = command.record
    /\ command.at \in (Working \ {"judge"}) \cup {"begin"} => command.record = attempts
    /\ command.at = "begin" => Unsettled(command.record) = {}
    /\ command.at \in {"opened", "begin"} => ~command.scoped
    /\ \A c \in DOMAIN command.record.attempts :
         command.record.attempts[c].result # Pending =>
           sendings[c].first = command.record.attempts[c].result

\* The case under way, step by step.
CaseFits ==
  command.at \in Working =>
    LET c == command.case IN
    /\ c \in DOMAIN command.record.attempts /\ command.record.attempts[c].result = Pending
    /\ command.at \in {"page", "ready", "submit", "send"} => sendings[c].times = 0
    /\ command.at \in {"send", "wait", "answered"} => command.record.attempts[c].submitted >= 0
    /\ command.at = "wait" => sendings[c].times = 1 /\ sendings[c].answer = Pending
    /\ command.at \in {"answered", "judge"} /\ command.result.kind = "response" =>
         command.result = sendings[c].answer
    /\ command.scoped => world.page = command.record.place
    /\ command.record.attempts[c].started >= world.quiet

\* The pause is in the file, for the owner that comes next.
PauseFits == IF attempts.present THEN attempts.notBefore >= world.quiet ELSE world.quiet = 0

QualityInv ==
  /\ QualityTypeOK
  /\ EvidenceFits /\ MemoryFits /\ CaseFits /\ PauseFits /\ ReportIsTrue
-----------------------------------------------------------------------------
LEMMA ResultParts ==
  /\ Pending \in Results /\ Pending.kind = "pending" /\ ~Pending.protocol
  /\ \A reason \in {"failed", "rate_limited", "interrupted"} :
       /\ Failed(reason) \in Results /\ Failed(reason) # Pending
       /\ Failed(reason).kind # "response"
  /\ \A a \in Assessments : a \in Results /\ a # Pending
  /\ \A r \in Results : r.protocol => r.kind = "response"
<1> USE DEF Pending, Failed, Response, Results, Assessments
<1>1. Pending \in Results /\ Pending.kind = "pending" /\ ~Pending.protocol
  OBVIOUS
<1>2. \A reason \in {"failed", "rate_limited", "interrupted"} :
        /\ Failed(reason) \in Results /\ Failed(reason) # Pending
        /\ Failed(reason).kind # "response"
  OBVIOUS
<1>3. \A a \in Assessments : a \in Results /\ a # Pending
  OBVIOUS
<1>4. \A r \in Results : r.protocol => r.kind = "response"
  OBVIOUS
<1> QED
  BY <1>1, <1>2, <1>3, <1>4

LEMMA RecordParts ==
  ASSUME NEW r \in CaseRecords
  PROVE  /\ r.present /\ r.place \in Places /\ r.notBefore \in 0..(MaxClock + RateBackoff)
         /\ DOMAIN r.attempts \subseteq Cases /\ r.attempts \in [DOMAIN r.attempts -> Attempts]
BY DEF CaseRecords

LEMMA RecordKeepsPlace ==
  ASSUME NEW r \in CaseRecords, NEW made \in SUBSET Cases, NEW f \in [made -> Attempts],
         NEW n \in 0..(MaxClock + RateBackoff)
  PROVE  LET new == [r EXCEPT !.attempts = f, !.notBefore = n]
         IN  /\ new \in CaseRecords /\ new.place = r.place /\ new.attempts = f /\ new.notBefore = n
             /\ new.present
BY DEF CaseRecords

LEMMA EmptyRecordFits ==
  ASSUME NEW p \in Places, MaxClock \in Nat
  PROVE  /\ EmptyRecord(p) \in CaseRecords /\ EmptyRecord(p).place = p
         /\ DOMAIN EmptyRecord(p).attempts = {} /\ EmptyRecord(p).notBefore = 0
<1>1. << >> \in [{} -> Attempts] /\ DOMAIN << >> = {}
  OBVIOUS
<1>2. PICK f, n, b : f = << >> /\ n = 0 /\ b = TRUE
  OBVIOUS
<1>3. f \in UNION {[made -> Attempts] : made \in SUBSET Cases}
  BY <1>1, <1>2
<1>4. n \in 0..(MaxClock + RateBackoff)
  BY <1>2 DEF RateBackoff
<1>5. [present |-> b, place |-> p, notBefore |-> n, attempts |-> f] \in CaseRecords
  BY <1>2, <1>3, <1>4, Zenon DEF CaseRecords
<1>6. EmptyRecord(p) = [present |-> b, place |-> p, notBefore |-> n, attempts |-> f]
  BY <1>2, Zenon DEF EmptyRecord
<1> QED
  BY <1>1, <1>2, <1>5, <1>6

Taken(saved, record) == [saved EXCEPT !.record = record, !.persisted = record]

\* What a save does with the file, the command and the pause.
LEMMA SaveOutcome ==
  ASSUME QualityInv, QualityAssumption, NEW record, NEW pause \in {0, Spacing, RateBackoff},
         NEW saved, NEW failed, Save(record, pause, saved, failed)
  PROVE  /\ world' \in Worlds
         /\ world'.clock = world.clock /\ world'.page = world.page /\ world'.bound = world.bound
         /\ \/ /\ attempts = command.persisted /\ attempts' = record /\ Remember(record)
               /\ world'.quiet = IF pause = 0 THEN world.quiet
                                 ELSE Later(world.quiet, world.clock + pause)
               /\ \/ command' = Taken(saved, record)
                  \/ command' = failed
            \/ /\ UNCHANGED <<attempts, sendings>> /\ command' = failed
               /\ world'.quiet = world.quiet
<1>1. /\ world \in Worlds /\ world.clock \in 0..MaxClock /\ world.quiet \in 0..(MaxClock + RateBackoff)
      /\ MaxClock \in Nat /\ MaxFailures \in Nat /\ world.faults \in 0..MaxFailures
  BY DEF QualityInv, QualityTypeOK, Worlds, QualityAssumption
<1> DEFINE later == Later(world.quiet, world.clock + pause)
           next == IF pause = 0 THEN world ELSE [world EXCEPT !.quiet = later]
<1>2. later \in 0..(MaxClock + RateBackoff)
  BY <1>1 DEF Later, Spacing, RateBackoff
<1>3. /\ next \in Worlds /\ next.clock = world.clock /\ next.page = world.page
      /\ next.bound = world.bound /\ next.faults = world.faults
      /\ next.quiet = IF pause = 0 THEN world.quiet ELSE later
  <2> HIDE DEF later
  <2> QED
    BY <1>1, <1>2 DEF Worlds
<1>4. CASE /\ attempts = command.persisted /\ attempts' = record /\ Remember(record)
           /\ \/ command' = Taken(saved, record) /\ world' = next
              \/ /\ world.faults < MaxFailures /\ command' = failed
                 /\ world' = [next EXCEPT !.faults = @ + 1]
  <2>1. next.faults = world.faults
    BY <1>3
  <2> HIDE DEF next
  <2>2. world.faults < MaxFailures => [next EXCEPT !.faults = @ + 1] \in Worlds
    BY <1>1, <1>3 DEF Worlds
  <2> QED
    BY <1>3, <1>4, <2>2 DEF Worlds
<1>5. CASE /\ UNCHANGED <<attempts, sendings>> /\ command' = failed
           /\ UNCHANGED world \/ AFault
  <2>1. world.faults < MaxFailures => [world EXCEPT !.faults = @ + 1] \in Worlds
    BY <1>1 DEF Worlds
  <2> QED
    BY <1>1, <1>5, <2>1 DEF Worlds, AFault
<1> QED
  BY <1>4, <1>5 DEF Save, Quiet, Taken

\* The durable record grows: no case, no sending and no result of it is taken back.
Grows(record) ==
  attempts.present =>
    /\ record.place = attempts.place
    /\ \A c \in DOMAIN attempts.attempts :
         /\ c \in DOMAIN record.attempts
         /\ attempts.attempts[c].result # Pending =>
              record.attempts[c].result = attempts.attempts[c].result
         /\ attempts.attempts[c].submitted >= 0 => record.attempts[c].submitted >= 0

LEMMA SavedEvidence ==
  ASSUME QualityInv, QualityAssumption, NEW record \in CaseRecords, attempts' = record,
         Remember(record), UNCHANGED published, Grows(record),
         \A c \in DOMAIN record.attempts :
           record.attempts[c].result.kind = "response" /\ sendings[c].first = Pending =>
             record.attempts[c].result = sendings[c].answer
  PROVE  /\ sendings' \in [Cases -> Sendings] /\ EvidenceFits' /\ ReportIsTrue'
         /\ \A c \in Cases :
              /\ sendings'[c].times = sendings[c].times
              /\ sendings'[c].answer = sendings[c].answer
              /\ sendings[c].first # Pending => sendings'[c].first = sendings[c].first
              /\ c \in DOMAIN record.attempts => sendings'[c].first = record.attempts[c].result
<1> USE DEF QualityInv
<1>1. /\ DOMAIN record.attempts \subseteq Cases /\ record.attempts \in [DOMAIN record.attempts -> Attempts]
      /\ record.present
  BY RecordParts
<1>2. sendings \in [Cases -> Sendings]
  BY DEF QualityTypeOK
<1>3. ASSUME NEW c \in Cases
      PROVE  /\ sendings'[c] \in Sendings
             /\ sendings'[c].times = sendings[c].times /\ sendings'[c].place = sendings[c].place
             /\ sendings'[c].answer = sendings[c].answer
             /\ sendings'[c].first = IF c \in DOMAIN record.attempts /\ sendings[c].first = Pending
                                     THEN record.attempts[c].result ELSE sendings[c].first
  <2>1. sendings[c] \in Sendings
    BY <1>2
  <2>2. CASE c \in DOMAIN record.attempts /\ sendings[c].first = Pending
    <3>1. sendings'[c] = [sendings[c] EXCEPT !.first = record.attempts[c].result]
      BY <2>2 DEF Remember
    <3>2. record.attempts[c].result \in Results
      BY <1>1, <2>2 DEF Attempts
    <3> QED
      BY <2>1, <2>2, <3>1, <3>2 DEF Sendings
  <2>3. CASE ~(c \in DOMAIN record.attempts /\ sendings[c].first = Pending)
    <3>1. sendings'[c] = sendings[c]
      BY <2>3 DEF Remember
    <3> QED
      BY <2>1, <2>3, <3>1
  <2> QED
    BY <2>2, <2>3
<1>4. sendings' \in [Cases -> Sendings]
  <2>1. sendings' = [c \in Cases |-> sendings'[c]]
    BY DEF Remember
  <2> QED
    BY <1>3, <2>1
<1>5. ASSUME NEW c \in Cases, c \in DOMAIN record.attempts
      PROVE  sendings'[c].first = record.attempts[c].result
  <2>1. sendings[c].first # Pending => record.attempts[c].result = sendings[c].first
    BY DEF EvidenceFits, Shown, Made, Grows
  <2> QED
    BY <1>3, <1>5, <2>1
<1>6. EvidenceFits'
  <2> SUFFICES ASSUME NEW c \in Cases
               PROVE  /\ sendings'[c].first = Shown(c)'
                      /\ sendings'[c].first.kind = "response" => sendings'[c].first = sendings'[c].answer
                      /\ sendings'[c].times <= 1
                      /\ sendings'[c].times = 0 => sendings'[c].answer = Pending
                      /\ sendings'[c].times > 0 =>
                           /\ Made(c)' /\ attempts'.attempts[c].submitted >= 0
                           /\ sendings'[c].place = attempts'.place
    BY DEF EvidenceFits
  <2>1. sendings'[c].first = Shown(c)'
    <3>1. CASE c \in DOMAIN record.attempts
      BY <1>1, <1>5, <3>1 DEF Shown, Made
    <3>2. CASE c \notin DOMAIN record.attempts
      <4>1. ~Made(c) /\ ~Made(c)'
        BY <3>2 DEF Made, Grows
      <4> QED
        BY <1>3, <3>2, <4>1 DEF Shown, EvidenceFits
    <3> QED
      BY <3>1, <3>2
  <2>2. sendings'[c].first.kind = "response" => sendings'[c].first = sendings'[c].answer
    BY <1>3 DEF EvidenceFits
  <2>3. sendings'[c].times = 0 => sendings'[c].answer = Pending
    BY <1>3 DEF EvidenceFits
  <2>4. sendings'[c].times > 0 =>
          /\ Made(c)' /\ attempts'.attempts[c].submitted >= 0
          /\ sendings'[c].place = attempts'.place
    BY <1>1, <1>3 DEF EvidenceFits, Made, Grows
  <2>5. sendings'[c].times <= 1
    BY <1>3 DEF EvidenceFits
  <2> QED
    BY <2>1, <2>2, <2>3, <2>4, <2>5
<1>7. ReportIsTrue'
  <2>1. {c \in Cases : sendings'[c].answer.protocol} = {c \in Cases : sendings[c].answer.protocol}
    BY <1>3
  <2> QED
    BY <2>1 DEF ReportIsTrue
<1> QED
  BY <1>3, <1>4, <1>5, <1>6, <1>7

LEMMA CommandParts ==
  ASSUME QualityInv, command # Idle
  PROVE  /\ command \in Commands /\ command.record \in CaseRecords /\ command.result \in Results
         /\ command.at \in Working \cup {"opened", "begin", "report"} /\ command.at # "idle"
         /\ command.case \in 0..Corpus /\ command.scoped \in BOOLEAN
<1>1. command \in Commands
  BY DEF QualityInv, QualityTypeOK
<1> QED
  BY <1>1 DEF Commands, Working

LEMMA SavedCommand ==
  ASSUME NEW s \in Commands, NEW r \in CaseRecords
  PROVE  /\ Taken(s, r) \in Commands /\ Taken(s, r).record = r /\ Taken(s, r).persisted = r
         /\ Taken(s, r).at = s.at /\ Taken(s, r).case = s.case /\ Taken(s, r).result = s.result
         /\ Taken(s, r).scoped = s.scoped
BY DEF Commands, Taken

LEMMA WorkingIsNotIdle == Idle.at = "idle" /\ "idle" \notin Working \cup {"opened", "begin", "report"}
BY DEF Idle, Working

\* The browser owner ends, at once or after a report.
LEMMA IdleKeeps ==
  ASSUME QualityInv, command' = Idle, UNCHANGED <<attempts, sendings>>, ReportIsTrue', published' \in Reports \cup {<< >>},
         world' \in Worlds, world'.quiet = world.quiet
  PROVE  QualityInv'
<1>1. QualityTypeOK'
  BY DEF QualityInv, QualityTypeOK
<1>2. EvidenceFits'
  BY DEF QualityInv, EvidenceFits, Made, Shown
<1>3. MemoryFits' /\ CaseFits'
  BY WorkingIsNotIdle DEF MemoryFits, CaseFits
<1>4. PauseFits'
  BY DEF QualityInv, PauseFits
<1> QED
  BY <1>1, <1>2, <1>3, <1>4 DEF QualityInv

LEMMA OpenJournalKeeps ==
  ASSUME QualityInv, QualityAssumption, OpenJournal
  PROVE  QualityInv'
<1> USE DEF QualityInv
<1> DEFINE found == IF attempts.present THEN attempts ELSE EmptyRecord(world.bound)
           next == [at |-> "opened", record |-> found, persisted |-> attempts, case |-> 0,
                    result |-> Pending, scoped |-> FALSE]
<1>1. /\ command.at = "idle" /\ UNCHANGED <<attempts, published, world, sendings>>
      /\ command' = command \/ command' = next
  BY DEF OpenJournal
<1>2. command = Idle
  BY <1>1, CommandParts
<1>3. world \in Worlds /\ world.bound \in Places /\ MaxClock \in Nat /\ Corpus \in Nat
  BY DEF QualityTypeOK, Worlds, QualityAssumption
<1>4. EmptyRecord(world.bound) \in CaseRecords /\ EmptyRecord(world.bound).place = world.bound
      /\ DOMAIN EmptyRecord(world.bound).attempts = {}
  BY <1>3, EmptyRecordFits
<1>5. /\ attempts \in CaseRecords \cup {NoRecord} /\ (attempts.present => attempts \in CaseRecords)
      /\ found \in CaseRecords
      /\ found = IF attempts.present THEN attempts ELSE EmptyRecord(found.place)
  BY <1>4 DEF QualityTypeOK, NoRecord
<1>6. \A c \in DOMAIN found.attempts :
        found.attempts[c].result # Pending => sendings[c].first = found.attempts[c].result
  <2>1. CASE attempts.present
    <3>1. DOMAIN attempts.attempts \subseteq Cases
      BY <1>5, <2>1, RecordParts
    <3> QED
      BY <2>1, <3>1 DEF EvidenceFits, Shown, Made
  <2>2. CASE ~attempts.present
    BY <1>4, <2>2
  <2> QED
    BY <2>1, <2>2
<1> HIDE DEF found
<1>7. /\ next \in Commands /\ next.at = "opened" /\ next.record = found
      /\ next.persisted = attempts /\ ~next.scoped
  BY <1>3, <1>5, ResultParts DEF Commands
<1> HIDE DEF next
<1>8. QualityTypeOK'
  BY <1>1, <1>7 DEF QualityTypeOK
<1>9. EvidenceFits' /\ PauseFits' /\ ReportIsTrue'
  BY <1>1 DEF EvidenceFits, Made, Shown, PauseFits, ReportIsTrue
<1>10. CaseFits'
  BY <1>1, <1>2, <1>7, WorkingIsNotIdle DEF CaseFits, Working
<1>11. MemoryFits'
  <2>1. CASE command' = next
    BY <1>1, <1>5, <1>6, <1>7, <2>1 DEF MemoryFits, Working
  <2>2. CASE command' = command
    BY <1>2, <2>2 DEF MemoryFits
  <2> QED
    BY <1>1, <2>1, <2>2
<1> QED
  BY <1>8, <1>9, <1>10, <1>11

\* The steps of a case on its page, which leave the record alone.
LEMMA PageStep ==
  ASSUME QualityInv, QualityAssumption, command.at \in Working \ {"judge"},
         NEW next \in Commands, command' = next,
         next.record = command.record, next.persisted = command.persisted,
         next.case = command.case, next.at \in Working,
         UNCHANGED <<attempts, published, world, sendings>>,
         next.at \in {"page", "ready", "submit", "send"} =>
           command.at \in {"page", "ready", "submit", "send"},
         next.at \in {"send", "wait", "answered"} => command.at = next.at,
         next.at \in {"answered", "judge"} /\ next.result.kind = "response" =>
           command.at = "answered" /\ next.result = command.result,
         next.scoped => command.scoped \/ world.page = command.record.place
  PROVE  QualityInv'
<1> USE DEF QualityInv
<1>1. command # Idle
  BY WorkingIsNotIdle
<1>2. QualityTypeOK'
  BY DEF QualityTypeOK
<1>3. EvidenceFits' /\ PauseFits' /\ ReportIsTrue'
  BY DEF EvidenceFits, Made, Shown, PauseFits, ReportIsTrue
<1>4. MemoryFits'
  BY <1>1 DEF MemoryFits, Working
<1>5. CaseFits'
  BY DEF CaseFits, Working
<1> QED
  BY <1>2, <1>3, <1>4, <1>5

LEMMA CheckScopeKeeps ==
  ASSUME QualityInv, QualityAssumption, CheckScope
  PROVE  QualityInv'
<1>1. /\ command.at = "page" /\ UNCHANGED <<attempts, published, world, sendings>>
      /\ command.at \in Working \ {"judge"}
  BY DEF CheckScope, Working
<1>2. command \in Commands
  BY <1>1, CommandParts, WorkingIsNotIdle
<1>3. CASE world.page = command.record.place
  <2> DEFINE next == [command EXCEPT !.at = "ready", !.scoped = TRUE]
  <2>1. /\ next \in Commands /\ next.record = command.record
        /\ next.persisted = command.persisted /\ next.case = command.case
        /\ next.at = "ready" /\ next.result = command.result
    BY <1>2 DEF Commands, Working
  <2>2. command' = next
    BY <1>3 DEF CheckScope
  <2> HIDE DEF next
  <2> QED
    BY <1>1, <1>3, <2>1, <2>2, PageStep DEF Working
<1>4. CASE world.page # command.record.place
  <2> DEFINE next == [command EXCEPT !.at = "judge", !.result = Failed("failed")]
  <2>1. Failed("failed") \in Results /\ Failed("failed").kind # "response"
    BY ResultParts
  <2>2. /\ next \in Commands /\ next.record = command.record
        /\ next.persisted = command.persisted /\ next.case = command.case
        /\ next.at = "judge" /\ next.result = Failed("failed") /\ next.scoped = command.scoped
    BY <1>2, <2>1 DEF Commands, Working
  <2>3. command' = next
    BY <1>4 DEF CheckScope
  <2> HIDE DEF next
  <2> QED
    BY <1>1, <2>1, <2>2, <2>3, PageStep DEF Working
<1> QED
  BY <1>3, <1>4

LEMMA PreparePromptKeeps ==
  ASSUME QualityInv, QualityAssumption, PreparePrompt
  PROVE  QualityInv'
<1> DEFINE next == [command EXCEPT !.at = "submit"]
<1>1. /\ command.at = "ready" /\ UNCHANGED <<attempts, published, world, sendings>>
      /\ command.at \in Working \ {"judge"} /\ command' = next
  BY DEF PreparePrompt, Working
<1>2. command \in Commands
  BY <1>1, CommandParts, WorkingIsNotIdle
<1>3. /\ next \in Commands /\ next.record = command.record
      /\ next.persisted = command.persisted /\ next.case = command.case
      /\ next.at = "submit" /\ next.scoped = command.scoped
  BY <1>2 DEF Commands, Working
<1> HIDE DEF next
<1> QED
  BY <1>1, <1>3, PageStep DEF Working

LEMMA TakeAnswerKeeps ==
  ASSUME QualityInv, QualityAssumption, TakeAnswer
  PROVE  QualityInv'
<1>1. /\ command.at = "answered" /\ UNCHANGED <<attempts, published, world, sendings>>
      /\ command.at \in Working \ {"judge"}
  BY DEF TakeAnswer, Working
<1>2. command \in Commands
  BY <1>1, CommandParts, WorkingIsNotIdle
<1>3. CASE world.page = command.record.place
  <2> DEFINE next == [command EXCEPT !.at = "judge"]
  <2>1. /\ next \in Commands /\ next.record = command.record
        /\ next.persisted = command.persisted /\ next.case = command.case
        /\ next.at = "judge" /\ next.result = command.result /\ next.scoped = command.scoped
    BY <1>2 DEF Commands, Working
  <2>2. command' = next
    BY <1>3 DEF TakeAnswer
  <2> HIDE DEF next
  <2> QED
    BY <1>1, <2>1, <2>2, PageStep DEF Working
<1>4. CASE world.page # command.record.place
  <2> DEFINE next == [command EXCEPT !.at = "judge", !.result = Failed("failed")]
  <2>1. Failed("failed") \in Results /\ Failed("failed").kind # "response"
    BY ResultParts
  <2>2. /\ next \in Commands /\ next.record = command.record
        /\ next.persisted = command.persisted /\ next.case = command.case
        /\ next.at = "judge" /\ next.result = Failed("failed") /\ next.scoped = command.scoped
    BY <1>2, <2>1 DEF Commands, Working
  <2>3. command' = next
    BY <1>4 DEF TakeAnswer
  <2> HIDE DEF next
  <2> QED
    BY <1>1, <2>1, <2>2, <2>3, PageStep DEF Working
<1> QED
  BY <1>3, <1>4

LEMMA CaseFailsKeeps ==
  ASSUME QualityInv, QualityAssumption, CaseFails
  PROVE  QualityInv'
<1>1. /\ UNCHANGED <<attempts, published, world, sendings>>
      /\ command.at \in Working \ {"judge"}
  BY DEF CaseFails, Working
<1>2. command \in Commands
  BY <1>1, CommandParts, WorkingIsNotIdle
<1>3. PICK reason \in {"failed", "rate_limited"} :
        command' = [command EXCEPT !.at = "judge", !.result = Failed(reason)]
  BY DEF CaseFails
<1> DEFINE next == [command EXCEPT !.at = "judge", !.result = Failed(reason)]
<1>4. Failed(reason) \in Results /\ Failed(reason).kind # "response"
  BY ResultParts
<1>5. /\ next \in Commands /\ next.record = command.record
      /\ next.persisted = command.persisted /\ next.case = command.case
      /\ next.at = "judge" /\ next.result = Failed(reason) /\ next.scoped = command.scoped
  BY <1>2, <1>4 DEF Commands, Working
<1>6. command' = next
  BY <1>3
<1> HIDE DEF next
<1> QED
  BY <1>1, <1>4, <1>5, <1>6, PageStep DEF Working

\* A case is sent, or answered: its row in the history changes with the command.
LEMMA RowChanges ==
  ASSUME QualityInv, QualityAssumption, command.at \in {"send", "wait"}, command.scoped,
         NEW next \in Commands, command' = next,
         next.record = command.record, next.persisted = command.persisted,
         next.case = command.case, next.scoped = command.scoped,
         NEW row \in Sendings, sendings' = [sendings EXCEPT ![command.case] = row],
         row.first = sendings[command.case].first,
         UNCHANGED <<attempts, published, world>>,
         \/ /\ command.at = "send" /\ next.at = "wait"
            /\ row.times = 1 /\ row.place = world.page /\ row.answer = sendings[command.case].answer
         \/ /\ command.at = "wait" /\ next.at = "answered" /\ row.answer = next.result
            /\ row.times = sendings[command.case].times /\ row.place = sendings[command.case].place
            /\ row.times = 1
  PROVE  QualityInv'
<1> USE DEF QualityInv
<1> DEFINE c == command.case
<1>1. /\ command # Idle /\ command.at \in Working \ {"judge"} /\ command.at # "begin"
      /\ command.at # "opened" /\ next.at \in Working \ {"judge"}
  BY WorkingIsNotIdle DEF Working
<1>2. /\ c \in DOMAIN command.record.attempts /\ command.record.attempts[c].result = Pending
      /\ command.record.attempts[c].submitted >= 0 /\ world.page = command.record.place
      /\ command.record.attempts[c].started >= world.quiet
      /\ sendings[c].answer = Pending
  BY <1>1, RecordParts, CommandParts DEF CaseFits, EvidenceFits, Working
<1>3. command.record = attempts /\ attempts.present /\ command.persisted = command.record
  BY <1>1 DEF MemoryFits
<1>4. c \in Cases /\ attempts \in CaseRecords
  BY <1>1, <1>2, <1>3, CommandParts, RecordParts
<1>5. /\ sendings' \in [Cases -> Sendings] /\ sendings'[c] = row
      /\ \A d \in Cases : d # c => sendings'[d] = sendings[d]
  BY <1>4 DEF QualityTypeOK
<1>6. QualityTypeOK'
  BY <1>5 DEF QualityTypeOK
<1>7. Shown(c) = Pending /\ Made(c)
  BY <1>2, <1>3 DEF Shown, Made
<1>8. EvidenceFits'
  <2>1. \A d \in Cases : Shown(d)' = Shown(d) /\ Made(d)' = Made(d)
    BY DEF Shown, Made
  <2>2. row.first = Pending /\ Pending.kind # "response" /\ row.times = 1
    BY <1>4, <1>7, ResultParts DEF EvidenceFits
  <2>3. row.place = attempts.place
    BY <1>2, <1>3, <1>4 DEF EvidenceFits, CaseFits
  <2> HIDE DEF c
  <2> SUFFICES ASSUME NEW d \in Cases
               PROVE  /\ sendings'[d].first = Shown(d)'
                      /\ sendings'[d].first.kind = "response" => sendings'[d].first = sendings'[d].answer
                      /\ sendings'[d].times <= 1
                      /\ sendings'[d].times = 0 => sendings'[d].answer = Pending
                      /\ sendings'[d].times > 0 =>
                           /\ Made(d)' /\ attempts'.attempts[d].submitted >= 0
                           /\ sendings'[d].place = attempts'.place
    BY DEF EvidenceFits
  <2>4. CASE d # c
    BY <1>5, <2>1, <2>4 DEF EvidenceFits
  <2>5. CASE d = c
    BY <1>2, <1>3, <1>4, <1>5, <1>7, <2>1, <2>2, <2>3, <2>5
  <2> QED
    BY <2>4, <2>5
<1>9. ReportIsTrue'
  <2> DEFINE before == {d \in Cases : sendings[d].answer.protocol}
             after == {d \in Cases : sendings'[d].answer.protocol}
  <2>1. before \subseteq after
    BY <1>2, <1>5, ResultParts
  <2>2. IsFiniteSet(after) /\ IsFiniteSet(before)
    <3>1. IsFiniteSet(Cases)
      BY FS_Interval DEF Cases, QualityAssumption
    <3> QED
      BY <3>1, FS_Subset
  <2>3. Cardinality(before) <= Cardinality(after) /\ Cardinality(before) \in Nat
        /\ Cardinality(after) \in Nat
    BY <2>1, <2>2, FS_Subset, FS_CardinalityType
  <2> HIDE DEF before, after
  <2>4. ASSUME published # << >>
        PROVE  published.valid <= Cardinality(before)
               /\ (published.meets => Cardinality(before) * 100 >= Corpus * 99)
    BY <2>4 DEF ReportIsTrue, before
  <2>5. ASSUME published # << >>
        PROVE  published.valid <= Cardinality(after)
    <3>1. published.valid \in Nat
      BY <2>5 DEF QualityTypeOK, Reports
    <3> QED
      BY <2>3, <2>4, <2>5, <3>1
  <2>6. ASSUME published # << >>, published.meets
        PROVE  Cardinality(after) * 100 >= Corpus * 99
    <3>1. Cardinality(before) * 100 <= Cardinality(after) * 100 /\ Corpus \in Nat
      BY <2>3 DEF QualityAssumption
    <3> QED
      BY <2>3, <2>4, <2>6, <3>1
  <2> QED
    BY <2>5, <2>6 DEF ReportIsTrue, after
<1>10. PauseFits'
  BY DEF PauseFits
<1>11. \A d \in Cases : sendings'[d].first = sendings[d].first
  BY <1>4, <1>5
<1>12. MemoryFits'
  <2>1. \A d \in DOMAIN attempts.attempts : d \in Cases
    BY <1>4, RecordParts
  <2> QED
    BY <1>1, <1>3, <1>11, <2>1 DEF MemoryFits, Working
<1>13. CaseFits'
  <2>1. /\ c \in DOMAIN command'.record.attempts /\ command'.record.attempts[c].result = Pending
        /\ command'.record.attempts[c].submitted >= 0
        /\ command'.case = c
        /\ command'.record.attempts[c].started >= world'.quiet
        /\ world'.page = command'.record.place
    BY <1>2
  <2>2. command'.at = "wait" => sendings'[c].times = 1 /\ sendings'[c].answer = Pending
    BY <1>2, <1>5
  <2>3. command'.at = "answered" => command'.result = sendings'[c].answer
    BY <1>5
  <2> HIDE DEF c
  <2> QED
    BY <2>1, <2>2, <2>3 DEF CaseFits
<1> QED
  BY <1>6, <1>8, <1>9, <1>10, <1>12, <1>13

LEMMA SendPromptKeeps ==
  ASSUME QualityInv, QualityAssumption, SendPrompt
  PROVE  QualityInv'
<1> DEFINE c == command.case
           next == [command EXCEPT !.at = "wait"]
           row == [sendings[c] EXCEPT !.times = @ + 1, !.place = world.page]
<1>1. /\ command.at = "send" /\ command.scoped /\ command' = next
      /\ UNCHANGED <<attempts, published, world>>
      /\ command.at \in Working
  BY DEF SendPrompt, Working
<1>2. command \in Commands /\ command # Idle /\ command.record \in CaseRecords
  BY <1>1, CommandParts, WorkingIsNotIdle
<1>3. /\ next \in Commands /\ next.record = command.record
      /\ next.persisted = command.persisted /\ next.case = command.case
      /\ next.at = "wait" /\ next.scoped = command.scoped
  BY <1>2 DEF Commands, Working
<1>4. c \in Cases /\ sendings[c].times = 0 /\ sendings \in [Cases -> Sendings] /\ world.page \in Places
  BY <1>1, <1>2, RecordParts DEF QualityInv, CaseFits, QualityTypeOK, Worlds
<1>5. sendings[c] \in Sendings
  BY <1>4
<1>6. /\ row \in Sendings /\ row.times = 1 /\ row.place = world.page
      /\ row.first = sendings[c].first /\ row.answer = sendings[c].answer
  <2>1. row = [sendings[c] EXCEPT !.times = 1, !.place = world.page]
    BY <1>4
  <2>2. PICK s \in Sendings, n \in Nat, p \in Places :
          s = sendings[c] /\ n = 1 /\ p = world.page
    BY <1>4, <1>5
  <2>3. row = [s EXCEPT !.times = n, !.place = p]
    BY <2>1, <2>2
  <2>4. /\ [s EXCEPT !.times = n, !.place = p] \in Sendings
        /\ [s EXCEPT !.times = n, !.place = p].times = n
        /\ [s EXCEPT !.times = n, !.place = p].place = p
        /\ [s EXCEPT !.times = n, !.place = p].first = s.first
        /\ [s EXCEPT !.times = n, !.place = p].answer = s.answer
    BY DEF Sendings
  <2> HIDE DEF row
  <2> QED
    BY <2>2, <2>3, <2>4
<1>7. sendings' = [sendings EXCEPT ![c] = row]
  BY <1>4 DEF SendPrompt, Sendings
<1> HIDE DEF next, row
<1> QED
  BY <1>1, <1>3, <1>6, <1>7, RowChanges

LEMMA CompleteAnswerKeeps ==
  ASSUME QualityInv, QualityAssumption, CompleteAnswer
  PROVE  QualityInv'
<1>0. PICK answer \in Assessments :
        /\ command' = [command EXCEPT !.at = "answered", !.result = answer]
        /\ sendings' = [sendings EXCEPT ![command.case].answer = answer]
  BY DEF CompleteAnswer
<1> DEFINE c == command.case
           next == [command EXCEPT !.at = "answered", !.result = answer]
           row == [sendings[c] EXCEPT !.answer = answer]
<1>1. /\ command.at = "wait" /\ command.scoped /\ command' = next
      /\ UNCHANGED <<attempts, published, world>>
      /\ command.at \in Working
  BY <1>0 DEF CompleteAnswer, Working
<1>2. command \in Commands /\ command # Idle /\ command.record \in CaseRecords /\ answer \in Results
  BY <1>1, CommandParts, WorkingIsNotIdle, ResultParts
<1>3. /\ next \in Commands /\ next.record = command.record
      /\ next.persisted = command.persisted /\ next.case = command.case
      /\ next.at = "answered" /\ next.scoped = command.scoped /\ next.result = answer
  BY <1>2 DEF Commands, Working
<1>4. c \in Cases /\ sendings \in [Cases -> Sendings] /\ sendings[c].times = 1
  BY <1>1, <1>2, RecordParts DEF QualityInv, CaseFits, QualityTypeOK
<1>5. sendings[c] \in Sendings
  BY <1>4
<1>6. /\ row \in Sendings /\ row.times = 1 /\ row.place = sendings[c].place
      /\ row.first = sendings[c].first /\ row.answer = answer
  BY <1>2, <1>4, <1>5 DEF Sendings
<1>7. sendings' = [sendings EXCEPT ![c] = row]
  BY <1>0, <1>4
<1> HIDE DEF next, row
<1> QED
  BY <1>1, <1>3, <1>4, <1>6, <1>7, RowChanges

LEMMA AFaultMoves ==
  ASSUME QualityInv, QualityAssumption, AFault
  PROVE  world' \in Worlds /\ world'.quiet = world.quiet /\ world'.clock = world.clock
         /\ world'.page = world.page
BY DEF QualityInv, QualityTypeOK, AFault, Worlds, QualityAssumption

LEMMA OwnerEndsKeeps ==
  ASSUME QualityInv, QualityAssumption, OwnerEnds
  PROVE  QualityInv'
BY AFaultMoves, IdleKeeps DEF OwnerEnds, QualityInv, QualityTypeOK, ReportIsTrue

\* What goes on around the owner.
LEMMA SurroundingsKeep ==
  ASSUME QualityInv, UNCHANGED <<attempts, published, sendings, command>>,
         world' \in Worlds, world'.quiet = world.quiet,
         command.at \in Working => world'.page = world.page
  PROVE  QualityInv'
<1> USE DEF QualityInv
<1>1. QualityTypeOK'
  BY DEF QualityTypeOK
<1>2. EvidenceFits' /\ PauseFits' /\ ReportIsTrue'
  BY DEF EvidenceFits, Made, Shown, PauseFits, ReportIsTrue
<1>3. MemoryFits'
  BY DEF MemoryFits
<1>4. CaseFits'
  BY DEF CaseFits
<1> QED
  BY <1>1, <1>2, <1>3, <1>4

LEMMA OwnerRebindsKeeps ==
  ASSUME QualityInv, QualityAssumption, OwnerRebinds
  PROVE  QualityInv'
<1>1. world' \in Worlds /\ world'.quiet = world.quiet /\ world'.page = world.page
  BY DEF QualityInv, QualityTypeOK, OwnerRebinds, Worlds
<1> QED
  BY <1>1, SurroundingsKeep DEF OwnerRebinds

LEMMA ClockMovesKeeps ==
  ASSUME QualityInv, QualityAssumption, ClockMoves
  PROVE  QualityInv'
<1>1. world' \in Worlds /\ world'.quiet = world.quiet /\ world'.page = world.page
  <2>1. /\ world \in Worlds /\ world.clock \in 0..MaxClock /\ world.faults \in 0..MaxFailures
        /\ MaxClock \in Nat /\ MaxFailures \in Nat
    BY DEF QualityInv, QualityTypeOK, Worlds, QualityAssumption
  <2>2. CASE world.clock < MaxClock /\ world' = [world EXCEPT !.clock = @ + 1]
    BY <2>1, <2>2 DEF Worlds
  <2>3. CASE /\ world.clock > 0 /\ world.faults < MaxFailures
             /\ world' = [world EXCEPT !.clock = @ - 1, !.faults = @ + 1]
    <3>1. world.clock - 1 \in 0..MaxClock /\ world.faults + 1 \in 0..MaxFailures
      BY <2>1, <2>3
    <3> QED
      BY <2>1, <2>3, <3>1 DEF Worlds
  <2> QED
    BY <2>2, <2>3 DEF ClockMoves
<1> QED
  BY <1>1, SurroundingsKeep DEF ClockMoves

LEMMA PlaceChangesKeeps ==
  ASSUME QualityInv, QualityAssumption, PlaceChanges
  PROVE  QualityInv'
<1> USE DEF QualityInv
<1>1. /\ world' \in Worlds /\ world'.quiet = world.quiet
      /\ UNCHANGED <<attempts, published, sendings>>
      /\ command' = IF command.at \in Working THEN [command EXCEPT !.scoped = FALSE] ELSE command
  <2>1. /\ world \in Worlds /\ world.faults \in 0..MaxFailures /\ MaxFailures \in Nat
        /\ world.faults < MaxFailures => world.faults + 1 \in 0..MaxFailures
    BY DEF QualityTypeOK, Worlds, QualityAssumption
  <2>2. PICK p \in Places : world' = [world EXCEPT !.page = p, !.faults = @ + 1]
    BY DEF PlaceChanges
  <2>3. world.faults < MaxFailures
    BY DEF PlaceChanges
  <2>4. world' \in Worlds /\ world'.quiet = world.quiet
    BY <2>1, <2>2, <2>3 DEF Worlds
  <2> QED
    BY <2>4 DEF PlaceChanges
<1>2. CASE command.at \notin Working
  BY <1>1, <1>2, SurroundingsKeep
<1>3. CASE command.at \in Working
  <2> DEFINE next == [command EXCEPT !.scoped = FALSE]
  <2>1. command \in Commands /\ command # Idle
    BY <1>3, CommandParts, WorkingIsNotIdle
  <2>2. /\ next \in Commands /\ next.record = command.record
        /\ next.persisted = command.persisted /\ next.case = command.case
        /\ next.at = command.at /\ ~next.scoped /\ next.result = command.result
    BY <2>1 DEF Commands
  <2>3. command' = next
    BY <1>1, <1>3
  <2> HIDE DEF next
  <2>4. QualityTypeOK'
    BY <1>1, <2>2, <2>3 DEF QualityTypeOK
  <2>5. EvidenceFits' /\ PauseFits' /\ ReportIsTrue'
    BY <1>1 DEF EvidenceFits, Made, Shown, PauseFits, ReportIsTrue
  <2>6. MemoryFits'
    BY <1>1, <2>1, <2>2, <2>3 DEF MemoryFits
  <2>7. CaseFits'
    BY <1>1, <1>3, <2>2, <2>3 DEF CaseFits
  <2> QED
    BY <2>4, <2>5, <2>6, <2>7
<1> QED
  BY <1>2, <1>3

\* Every save leaves evidence, pause and report in order; what remains is the command.
LEMMA SaveKeeps ==
  ASSUME QualityInv, QualityAssumption, NEW record \in CaseRecords,
         NEW pause \in {0, Spacing, RateBackoff}, NEW saved \in Commands,
         NEW failed \in Commands \cup {Idle}, Save(record, pause, saved, failed),
         UNCHANGED published,
         attempts = command.persisted =>
           /\ Grows(record)
           /\ \A c \in DOMAIN record.attempts :
                record.attempts[c].result.kind = "response" /\ sendings[c].first = Pending =>
                  record.attempts[c].result = sendings[c].answer
           /\ record.notBefore >= IF pause = 0 THEN world.quiet
                                  ELSE Later(world.quiet, world.clock + pause)
  PROVE  /\ QualityTypeOK' /\ EvidenceFits' /\ ReportIsTrue' /\ PauseFits'
         /\ world'.page = world.page
         /\ \A c \in Cases :
              /\ sendings'[c].times = sendings[c].times
              /\ sendings'[c].answer = sendings[c].answer
              /\ sendings[c].first # Pending => sendings'[c].first = sendings[c].first
         /\ \/ /\ attempts' = record /\ attempts = command.persisted
               /\ \A c \in DOMAIN record.attempts : sendings'[c].first = record.attempts[c].result
               /\ world'.quiet = IF pause = 0 THEN world.quiet
                                 ELSE Later(world.quiet, world.clock + pause)
               /\ \/ command' = Taken(saved, record)
                  \/ command' = failed
            \/ /\ UNCHANGED <<attempts, sendings>> /\ command' = failed
               /\ world'.quiet = world.quiet
<1> USE DEF QualityInv
<1>1. /\ world' \in Worlds
      /\ world'.clock = world.clock /\ world'.page = world.page /\ world'.bound = world.bound
      /\ \/ /\ attempts = command.persisted /\ attempts' = record /\ Remember(record)
            /\ world'.quiet = IF pause = 0 THEN world.quiet
                              ELSE Later(world.quiet, world.clock + pause)
            /\ \/ command' = Taken(saved, record)
               \/ command' = failed
         \/ /\ UNCHANGED <<attempts, sendings>> /\ command' = failed
            /\ world'.quiet = world.quiet
  BY SaveOutcome
<1>2. Taken(saved, record) \in Commands
  BY SavedCommand
<1>3. CASE /\ attempts = command.persisted /\ attempts' = record /\ Remember(record)
           /\ world'.quiet = IF pause = 0 THEN world.quiet
                             ELSE Later(world.quiet, world.clock + pause)
           /\ \/ command' = Taken(saved, record)
              \/ command' = failed
  <2>1. /\ sendings' \in [Cases -> Sendings] /\ EvidenceFits' /\ ReportIsTrue'
        /\ \A c \in Cases :
             /\ sendings'[c].times = sendings[c].times
             /\ sendings'[c].answer = sendings[c].answer
             /\ sendings[c].first # Pending => sendings'[c].first = sendings[c].first
             /\ c \in DOMAIN record.attempts => sendings'[c].first = record.attempts[c].result
    BY <1>3, SavedEvidence
  <2>2. /\ DOMAIN record.attempts \subseteq Cases /\ record.present
    BY RecordParts
  <2>3. QualityTypeOK'
    BY <1>1, <1>2, <1>3, <2>1 DEF QualityTypeOK
  <2>4. PauseFits'
    BY <1>3, <2>2 DEF PauseFits
  <2>5. \A c \in DOMAIN record.attempts : sendings'[c].first = record.attempts[c].result
    BY <2>1, <2>2
  <2> QED
    BY <1>1, <1>3, <2>1, <2>3, <2>4, <2>5
<1>4. CASE /\ UNCHANGED <<attempts, sendings>> /\ command' = failed
           /\ world'.quiet = world.quiet
  <2>1. QualityTypeOK'
    BY <1>1, <1>4 DEF QualityTypeOK
  <2>2. EvidenceFits' /\ ReportIsTrue'
    BY <1>4 DEF EvidenceFits, Shown, Made, ReportIsTrue
  <2>3. PauseFits'
    BY <1>4 DEF PauseFits
  <2> QED
    BY <1>1, <1>4, <2>1, <2>2, <2>3
<1> QED
  BY <1>1, <1>3, <1>4

LEMMA RecoverJournalKeeps ==
  ASSUME QualityInv, QualityAssumption, RecoverJournal
  PROVE  QualityInv'
<1> USE DEF QualityInv
<1> DEFINE next == [command EXCEPT !.at = "begin"]
           r == command.record
           made == [c \in DOMAIN r.attempts |->
                      IF c \in Unsettled(r) THEN [r.attempts[c] EXCEPT !.result = Failed("interrupted")]
                      ELSE r.attempts[c]]
           n == IF Unsettled(r) = {} THEN r.notBefore ELSE Later(r.notBefore, world.clock + RateBackoff)
           pause == IF Unsettled(r) = {} THEN 0 ELSE RateBackoff
           record == [r EXCEPT !.attempts = made, !.notBefore = n]
<1>1. command.at = "opened" /\ command # Idle /\ UNCHANGED published
  BY WorkingIsNotIdle DEF RecoverJournal
<1>2. command \in Commands /\ r \in CaseRecords
  BY <1>1, CommandParts
<1>3. /\ next \in Commands /\ next.at = "begin" /\ next.record = r
      /\ next.persisted = command.persisted /\ next.scoped = command.scoped
  BY <1>2 DEF Commands
<1>4. /\ command.persisted = attempts /\ ~command.scoped
      /\ r = IF attempts.present THEN attempts ELSE EmptyRecord(r.place)
      /\ \A c \in DOMAIN r.attempts :
           r.attempts[c].result # Pending => sendings[c].first = r.attempts[c].result
  BY <1>1 DEF MemoryFits
<1>5. CASE attempts.present /\ Unsettled(r) = {}
  <2>1. command' = next /\ UNCHANGED <<attempts, world, sendings>>
    BY <1>5 DEF RecoverJournal
  <2> HIDE DEF next
  <2>2. QualityTypeOK'
    BY <1>1, <1>3, <2>1 DEF QualityTypeOK
  <2>3. EvidenceFits' /\ PauseFits' /\ ReportIsTrue'
    BY <1>1, <2>1 DEF EvidenceFits, Made, Shown, PauseFits, ReportIsTrue
  <2>4. MemoryFits'
    BY <1>3, <1>4, <1>5, <2>1 DEF MemoryFits, Working
  <2>5. CaseFits'
    BY <1>3, <2>1 DEF CaseFits, Working
  <2> QED
    BY <2>2, <2>3, <2>4, <2>5
<1>6. CASE ~(attempts.present /\ Unsettled(r) = {})
  <2>1. Save(record, pause, next, Idle)
    BY <1>6 DEF RecoverJournal, Interrupted
  <2>2. /\ DOMAIN r.attempts \subseteq Cases /\ r.attempts \in [DOMAIN r.attempts -> Attempts]
        /\ r.notBefore \in 0..(MaxClock + RateBackoff)
    BY <1>2, RecordParts
  <2>3. Failed("interrupted") \in Results /\ Failed("interrupted") # Pending
        /\ Failed("interrupted").kind # "response"
    BY ResultParts
  <2>4. \A c \in DOMAIN r.attempts :
          /\ made[c] \in Attempts /\ made[c].result # Pending
          /\ made[c].submitted = r.attempts[c].submitted
          /\ IF r.attempts[c].result = Pending THEN made[c].result = Failed("interrupted")
             ELSE made[c].result = r.attempts[c].result
    BY <2>2, <2>3 DEF Unsettled, Attempts
  <2>5. made \in [DOMAIN r.attempts -> Attempts] /\ DOMAIN made = DOMAIN r.attempts
    BY <2>4
  <2>6. /\ world.clock \in 0..MaxClock /\ MaxClock \in Nat /\ world.quiet \in 0..(MaxClock + RateBackoff)
    BY DEF QualityTypeOK, Worlds, QualityAssumption
  <2>7. n \in 0..(MaxClock + RateBackoff)
    BY <2>2, <2>6 DEF Later, RateBackoff
  <2>8. r.notBefore >= world.quiet
    <3>1. CASE attempts.present
      BY <1>4, <3>1 DEF PauseFits
    <3>2. CASE ~attempts.present
      BY <1>4, <2>2, <2>6, <3>2 DEF PauseFits
    <3> QED
      BY <3>1, <3>2
  <2>9. n >= IF pause = 0 THEN world.quiet ELSE Later(world.quiet, world.clock + pause)
    BY <2>2, <2>6, <2>8 DEF Later, RateBackoff
  <2>10. pause \in {0, Spacing, RateBackoff}
    OBVIOUS
  <2>16. Unsettled(r) = {c \in DOMAIN r.attempts : r.attempts[c].result = Pending}
    BY DEF Unsettled
  <2> HIDE DEF made, n, pause, next
  <2>11. /\ record \in CaseRecords /\ record.place = r.place /\ record.attempts = made
         /\ record.notBefore = n /\ record.present
    <3>1. PICK s \in CaseRecords, f \in [DOMAIN r.attempts -> Attempts], m \in 0..(MaxClock + RateBackoff) :
            s = r /\ f = made /\ m = n
      BY <1>2, <2>5, <2>7
    <3>2. f \in UNION {[d -> Attempts] : d \in SUBSET Cases}
      BY <2>2
    <3>3. /\ [s EXCEPT !.attempts = f, !.notBefore = m] \in CaseRecords
          /\ [s EXCEPT !.attempts = f, !.notBefore = m].place = s.place
          /\ [s EXCEPT !.attempts = f, !.notBefore = m].attempts = f
          /\ [s EXCEPT !.attempts = f, !.notBefore = m].notBefore = m
          /\ [s EXCEPT !.attempts = f, !.notBefore = m].present
      BY <3>2 DEF CaseRecords
    <3>4. record = [s EXCEPT !.attempts = f, !.notBefore = m]
      BY <3>1
    <3> HIDE DEF record
    <3> QED
      BY <3>1, <3>3, <3>4
  <2> HIDE DEF record
  <2>12. Grows(record)
    BY <1>4, <2>4, <2>5, <2>11 DEF Grows
  <2>13. \A c \in DOMAIN record.attempts :
           record.attempts[c].result.kind = "response" /\ sendings[c].first = Pending =>
             record.attempts[c].result = sendings[c].answer
    BY <1>4, <2>3, <2>4, <2>5, <2>11
  <2>14. /\ QualityTypeOK' /\ EvidenceFits' /\ ReportIsTrue' /\ PauseFits'
         /\ \/ /\ attempts' = record
               /\ \A c \in DOMAIN record.attempts : sendings'[c].first = record.attempts[c].result
               /\ command' = Taken(next, record) \/ command' = Idle
            \/ command' = Idle
    <3>1. Idle \in Commands \cup {Idle}
      OBVIOUS
    <3> QED
      BY <3>1, <1>1, <1>3, <2>1, <2>9, <2>10, <2>11, <2>12, <2>13, SaveKeeps
  <2>15. CASE command' = Idle
    BY <2>14, <2>15, WorkingIsNotIdle DEF MemoryFits, CaseFits
  <2>17. CASE /\ attempts' = record
              /\ \A c \in DOMAIN record.attempts : sendings'[c].first = record.attempts[c].result
              /\ command' = Taken(next, record)
    <3>1. /\ command'.at = "begin" /\ command'.record = record /\ command'.persisted = record
          /\ ~command'.scoped
      BY <1>3, <1>4, <2>11, <2>17, SavedCommand
    <3>2. Unsettled(record) = {}
      BY <2>4, <2>5, <2>11 DEF Unsettled
    <3>3. MemoryFits'
      BY <2>11, <2>17, <3>1, <3>2 DEF MemoryFits, Working
    <3>4. CaseFits'
      BY <3>1 DEF CaseFits, Working
    <3> QED
      BY <2>14, <3>3, <3>4
  <2> QED
    BY <2>14, <2>15, <2>17
<1> QED
  BY <1>5, <1>6

LEMMA BeginNextKeeps ==
  ASSUME QualityInv, QualityAssumption, BeginNext
  PROVE  QualityInv'
<1> USE DEF QualityInv
<1> DEFINE ended == [command EXCEPT !.at = "report"]
           r == command.record
<1>1. command.at = "begin" /\ command # Idle /\ UNCHANGED published
  BY WorkingIsNotIdle DEF BeginNext
<1>2. command \in Commands /\ r \in CaseRecords
  BY <1>1, CommandParts
<1>3. /\ ended \in Commands /\ ended.at = "report" /\ ended.record = r
      /\ ended.persisted = command.persisted
  BY <1>2 DEF Commands
<1>4. /\ r = attempts /\ attempts.present /\ command.persisted = attempts /\ Unsettled(r) = {}
      /\ \A c \in DOMAIN r.attempts :
           r.attempts[c].result # Pending => sendings[c].first = r.attempts[c].result
  BY <1>1 DEF MemoryFits
<1>5. /\ DOMAIN r.attempts \subseteq Cases /\ r.attempts \in [DOMAIN r.attempts -> Attempts]
      /\ r.notBefore \in 0..(MaxClock + RateBackoff)
  BY <1>2, RecordParts
<1>6. CASE command' = ended /\ UNCHANGED <<attempts, world, sendings>>
  <2> HIDE DEF ended
  <2>1. QualityTypeOK'
    BY <1>1, <1>3, <1>6 DEF QualityTypeOK
  <2>2. EvidenceFits' /\ PauseFits' /\ ReportIsTrue'
    BY <1>1, <1>6 DEF EvidenceFits, Made, Shown, PauseFits, ReportIsTrue
  <2>3. MemoryFits'
    BY <1>3, <1>4, <1>6 DEF MemoryFits, Working
  <2>4. CaseFits'
    BY <1>3, <1>6 DEF CaseFits, Working
  <2> QED
    BY <2>1, <2>2, <2>3, <2>4
<1>7. ASSUME NEW next \in Cases \ DOMAIN r.attempts, world.clock >= r.notBefore,
             Save([r EXCEPT !.attempts = WithAttempt(r.attempts, next)], 0,
                  [command EXCEPT !.at = "page", !.case = next], ended)
      PROVE  QualityInv'
  <2> DEFINE made == WithAttempt(r.attempts, next)
             record == [r EXCEPT !.attempts = made]
             saved == [command EXCEPT !.at = "page", !.case = next]
  <2>1. Save(record, 0, saved, ended)
    BY <1>7
  <2>2. /\ world.clock \in 0..MaxClock /\ MaxClock \in Nat /\ Corpus \in Nat
        /\ world.quiet \in 0..(MaxClock + RateBackoff) /\ next \in 0..Corpus
    BY <1>7 DEF QualityTypeOK, Worlds, QualityAssumption, Cases
  <2>3. NewAttempt(world.clock) \in Attempts /\ NewAttempt(world.clock).result = Pending
        /\ NewAttempt(world.clock).started = world.clock
    BY <2>2, ResultParts DEF NewAttempt, Attempts
  <2>4. /\ DOMAIN made = DOMAIN r.attempts \cup {next} /\ DOMAIN made \in SUBSET Cases
        /\ made[next] = NewAttempt(world.clock)
        /\ \A c \in DOMAIN r.attempts : made[c] = r.attempts[c]
        /\ made \in [DOMAIN made -> Attempts]
    BY <1>5, <1>7, <2>3 DEF WithAttempt
  <2>5. /\ saved \in Commands /\ saved.at = "page" /\ saved.case = next
        /\ saved.scoped = command.scoped
    BY <1>2, <2>2 DEF Commands, Working
  <2>6. r.notBefore >= world.quiet
    BY <1>4 DEF PauseFits
  <2> HIDE DEF made, saved, ended
  <2>7. /\ record \in CaseRecords /\ record.place = r.place /\ record.attempts = made
        /\ record.notBefore = r.notBefore /\ record.present
    BY ZenonT(60), <1>2, <1>5, <2>4 DEF CaseRecords
  <2> HIDE DEF record
  <2>8. Grows(record)
    BY <1>4, <2>4, <2>7 DEF Grows
  <2>9. \A c \in DOMAIN record.attempts :
          record.attempts[c].result.kind = "response" /\ sendings[c].first = Pending =>
            record.attempts[c].result = sendings[c].answer
    <3>1. Pending.kind # "response"
      BY ResultParts
    <3> QED
      BY <1>4, <2>3, <2>4, <2>7, <3>1
  <2>10. record.notBefore >= IF 0 = 0 THEN world.quiet ELSE Later(world.quiet, world.clock + 0)
    BY <2>6, <2>7
  <2>11. /\ QualityTypeOK' /\ EvidenceFits' /\ ReportIsTrue' /\ PauseFits'
         /\ world'.page = world.page
         /\ \A c \in Cases :
              /\ sendings'[c].times = sendings[c].times
              /\ sendings'[c].answer = sendings[c].answer
              /\ sendings[c].first # Pending => sendings'[c].first = sendings[c].first
         /\ world'.quiet = world.quiet
         /\ \/ /\ attempts' = record
               /\ \A c \in DOMAIN record.attempts : sendings'[c].first = record.attempts[c].result
               /\ command' = Taken(saved, record)
            \/ command' = ended
    BY <1>1, <1>3, <2>1, <2>5, <2>7, <2>8, <2>9, <2>10, SaveKeeps
  <2>12. CASE command' = ended
    <3>1. MemoryFits'
      BY <1>3, <1>4, <1>5, <2>11, <2>12 DEF MemoryFits, Working
    <3>2. CaseFits'
      BY <1>3, <2>12 DEF CaseFits, Working
    <3> QED
      BY <2>11, <3>1, <3>2
  <2>13. CASE /\ attempts' = record
              /\ \A c \in DOMAIN record.attempts : sendings'[c].first = record.attempts[c].result
              /\ command' = Taken(saved, record)
    <3>1. /\ command'.at = "page" /\ command'.record = record /\ command'.persisted = record
          /\ command'.case = next /\ command'.scoped = command.scoped
      BY <2>5, <2>7, <2>13, SavedCommand
    <3>2. MemoryFits'
      BY <2>7, <2>13, <3>1 DEF MemoryFits, Working
    <3>3. /\ next \in DOMAIN record.attempts /\ record.attempts[next].result = Pending
          /\ record.attempts[next].started >= world'.quiet
      <4>1. record.attempts[next] = NewAttempt(world.clock) /\ next \in DOMAIN record.attempts
        BY <2>4, <2>7
      <4>2. world.clock >= world.quiet
        BY <1>5, <1>7, <2>2, <2>6
      <4> QED
        BY <2>3, <2>11, <4>1, <4>2
    <3>4. sendings'[next].times = 0
      <4>1. sendings[next] \in Sendings
        BY DEF QualityTypeOK
      <4>2. ~Made(next)
        BY <1>4, <1>7 DEF Made
      <4>3. sendings[next].times = 0
        BY <4>1, <4>2 DEF EvidenceFits, Sendings
      <4> QED
        BY <2>11, <4>3
    <3>5. ~command.scoped
      BY <1>1 DEF MemoryFits
    <3>6. CaseFits'
      BY <3>1, <3>3, <3>4, <3>5 DEF CaseFits, Working
    <3> QED
      BY <2>11, <3>2, <3>6
  <2> QED
    BY <2>11, <2>12, <2>13
<1>8. ASSUME ~(command' = ended /\ UNCHANGED <<attempts, world, sendings>>)
      PROVE  \E next \in Cases \ DOMAIN r.attempts :
               /\ world.clock >= r.notBefore
               /\ Save([r EXCEPT !.attempts = WithAttempt(r.attempts, next)], 0,
                       [command EXCEPT !.at = "page", !.case = next], ended)
  <2>1. world.clock \in Int /\ r.notBefore \in Int
    BY <1>5 DEF QualityTypeOK, Worlds
  <2>2. ~(world.clock < r.notBefore)
    BY <1>8 DEF BeginNext
  <2>3. \E next \in Cases \ DOMAIN r.attempts :
          Save([r EXCEPT !.attempts = WithAttempt(r.attempts, next)], 0,
               [command EXCEPT !.at = "page", !.case = next], ended)
    BY <1>8 DEF BeginNext
  <2>4. world.clock >= r.notBefore
    BY <2>1, <2>2
  <2> QED
    BY <2>3, <2>4, Zenon
<1> QED
  BY <1>6, <1>7, <1>8

LEMMA SubmittingKeeps ==
  ASSUME QualityInv, QualityAssumption, Submitting
  PROVE  QualityInv'
<1> USE DEF QualityInv
<1> DEFINE failed == [command EXCEPT !.at = "judge", !.result = Failed("failed")]
           saved == [command EXCEPT !.at = "send"]
           r == command.record
           c == command.case
<1>1. command.at = "submit" /\ command # Idle /\ UNCHANGED published
      /\ command.at \in Working \ {"judge"}
  BY WorkingIsNotIdle DEF Submitting, Working
<1>2. command \in Commands /\ r \in CaseRecords
  BY <1>1, CommandParts
<1>3. Failed("failed") \in Results /\ Failed("failed").kind # "response"
  BY ResultParts
<1>4. /\ failed \in Commands /\ failed.at = "judge" /\ failed.record = r
      /\ failed.persisted = command.persisted /\ failed.case = c
      /\ failed.scoped = command.scoped /\ failed.result = Failed("failed")
  BY <1>2, <1>3 DEF Commands, Working
<1>5. /\ saved \in Commands /\ saved.at = "send" /\ saved.record = r
      /\ saved.persisted = command.persisted /\ saved.case = c
      /\ saved.scoped = command.scoped
  BY <1>2 DEF Commands, Working
<1>6. /\ r = attempts /\ attempts.present /\ command.persisted = attempts
      /\ \A d \in DOMAIN r.attempts :
           r.attempts[d].result # Pending => sendings[d].first = r.attempts[d].result
  BY <1>1 DEF MemoryFits
<1>7. /\ DOMAIN r.attempts \subseteq Cases /\ r.attempts \in [DOMAIN r.attempts -> Attempts]
      /\ r.notBefore \in 0..(MaxClock + RateBackoff)
  BY <1>2, RecordParts
<1>8. /\ c \in DOMAIN r.attempts /\ c \in Cases /\ r.attempts[c].result = Pending
      /\ r.attempts[c] \in Attempts
      /\ sendings[c].times = 0
      /\ command.scoped => world.page = r.place
      /\ r.attempts[c].started >= world.quiet
  BY <1>1, <1>7 DEF CaseFits
<1> HIDE DEF failed, saved
<1>9. CASE command' = failed /\ UNCHANGED <<attempts, world, sendings>>
  BY <1>1, <1>3, <1>4, <1>9, PageStep DEF Working
<1>10. CASE Save([r EXCEPT !.attempts[c].submitted = world.clock], 0, saved, failed)
  <2> DEFINE attempt == [r.attempts[c] EXCEPT !.submitted = world.clock]
             made == [r.attempts EXCEPT ![c] = attempt]
             record == [r EXCEPT !.attempts = made]
  <2>1. Save(record, 0, saved, failed)
    BY <1>10
  <2>2. /\ world.clock \in 0..MaxClock /\ MaxClock \in Nat
        /\ world.quiet \in 0..(MaxClock + RateBackoff)
    BY DEF QualityTypeOK, Worlds, QualityAssumption
  <2>3. /\ attempt \in Attempts /\ attempt.submitted = world.clock
        /\ attempt.result = Pending /\ attempt.started = r.attempts[c].started
    <3>1. world.clock \in -1..MaxClock
      BY <2>2
    <3> QED
      BY <1>8, <3>1 DEF Attempts
  <2> HIDE DEF attempt
  <2>4. /\ DOMAIN made = DOMAIN r.attempts /\ made \in [DOMAIN r.attempts -> Attempts]
        /\ made[c] = attempt /\ \A d \in DOMAIN r.attempts : d # c => made[d] = r.attempts[d]
    BY <1>7, <1>8, <2>3
  <2> HIDE DEF made
  <2>5. /\ record \in CaseRecords /\ record.place = r.place /\ record.attempts = made
        /\ record.notBefore = r.notBefore /\ record.present
    BY ZenonT(60), <1>2, <1>7, <2>4 DEF CaseRecords
  <2> HIDE DEF record
  <2>6. Grows(record)
    BY <1>6, <1>8, <2>2, <2>3, <2>4, <2>5 DEF Grows
  <2>7. \A d \in DOMAIN record.attempts :
          record.attempts[d].result.kind = "response" /\ sendings[d].first = Pending =>
            record.attempts[d].result = sendings[d].answer
    <3>1. Pending.kind # "response"
      BY ResultParts
    <3> QED
      BY <1>6, <2>3, <2>4, <2>5, <3>1
  <2>8. record.notBefore >= IF 0 = 0 THEN world.quiet ELSE Later(world.quiet, world.clock + 0)
    BY <1>6, <2>5 DEF PauseFits
  <2> HIDE DEF r, c
  <2>9. /\ QualityTypeOK' /\ EvidenceFits' /\ ReportIsTrue' /\ PauseFits'
        /\ world'.page = world.page
        /\ \A d \in Cases :
             /\ sendings'[d].times = sendings[d].times
             /\ sendings'[d].answer = sendings[d].answer
             /\ sendings[d].first # Pending => sendings'[d].first = sendings[d].first
        /\ world'.quiet = world.quiet
        /\ \/ /\ attempts' = record
              /\ \A d \in DOMAIN record.attempts : sendings'[d].first = record.attempts[d].result
              /\ command' = Taken(saved, record) \/ command' = failed
           \/ command' = failed /\ UNCHANGED <<attempts, sendings>>
    BY <1>1, <1>4, <1>5, <2>1, <2>5, <2>6, <2>7, <2>8, SaveKeeps
  <2>10. attempts'.present
    BY <1>6, <2>5, <2>9
  <2>11. CASE command' = failed
    <3>1. MemoryFits'
      <4>1. \A d \in DOMAIN r.attempts :
              r.attempts[d].result # Pending => sendings'[d].first = r.attempts[d].result
        BY <1>6, <1>7, <2>9 DEF r
      <4> QED
        BY <1>4, <1>6, <2>10, <2>11, <4>1 DEF MemoryFits, Working, r
    <3>2. CaseFits'
      BY <1>3, <1>4, <1>8, <2>9, <2>11 DEF CaseFits, Working, r, c
    <3> QED
      BY <2>9, <3>1, <3>2
  <2>12. CASE /\ attempts' = record
              /\ \A d \in DOMAIN record.attempts : sendings'[d].first = record.attempts[d].result
              /\ command' = Taken(saved, record)
    <3>1. /\ command'.at = "send" /\ command'.record = record /\ command'.persisted = record
          /\ command'.case = c /\ command'.scoped = command.scoped
      BY <1>5, <2>5, <2>12, SavedCommand
    <3>2. MemoryFits'
      BY <2>5, <2>12, <3>1 DEF MemoryFits, Working
    <3>3. /\ c \in DOMAIN record.attempts /\ record.attempts[c].result = Pending
          /\ record.attempts[c].submitted >= 0 /\ record.attempts[c].started >= world'.quiet
      BY <1>8, <2>2, <2>3, <2>4, <2>5, <2>9 DEF r, c
    <3>4. sendings'[c].times = 0
      BY <1>8, <2>9 DEF r, c
    <3>5. command.scoped => world'.page = record.place
      BY <1>8, <2>5, <2>9 DEF r, c
    <3>6. CaseFits'
      BY <3>1, <3>3, <3>4, <3>5 DEF CaseFits, Working
    <3> QED
      BY <2>9, <3>2, <3>6
  <2> QED
    BY <2>9, <2>11, <2>12
<1> QED
  BY <1>9, <1>10 DEF Submitting, failed, saved

LEMMA FinishAttemptKeeps ==
  ASSUME QualityInv, QualityAssumption, FinishAttempt
  PROVE  QualityInv'
<1> USE DEF QualityInv
<1> DEFINE ended == [command EXCEPT !.at = "report"]
           r == command.record
           c == command.case
           pause == IF command.result.kind = "rate_limited" THEN RateBackoff ELSE Spacing
<1>1. command.at = "judge" /\ command # Idle /\ UNCHANGED published /\ command.at \in Working
  BY WorkingIsNotIdle DEF FinishAttempt, Working
<1>2. command \in Commands /\ r \in CaseRecords /\ command.result \in Results
  BY <1>1, CommandParts
<1>3. /\ ended \in Commands /\ ended.at = "report" /\ ended.record = r
      /\ ended.persisted = command.persisted
  BY <1>2 DEF Commands
<1>4. /\ attempts.present /\ command.persisted = r
      /\ \A d \in DOMAIN r.attempts :
           r.attempts[d].result # Pending => sendings[d].first = r.attempts[d].result
  BY <1>1 DEF MemoryFits
<1>5. /\ DOMAIN r.attempts \subseteq Cases /\ r.attempts \in [DOMAIN r.attempts -> Attempts]
      /\ r.notBefore \in 0..(MaxClock + RateBackoff)
  BY <1>2, RecordParts
<1>6. /\ c \in DOMAIN r.attempts /\ c \in Cases /\ r.attempts[c].result = Pending
      /\ r.attempts[c] \in Attempts
      /\ command.result.kind = "response" => command.result = sendings[c].answer
      /\ r.attempts[c].started >= world.quiet
  BY <1>1, <1>5 DEF CaseFits
<1> HIDE DEF ended
<1>7. CASE command' = ended /\ UNCHANGED <<attempts, world, sendings>>
  <2>1. QualityTypeOK'
    BY <1>1, <1>3, <1>7 DEF QualityTypeOK
  <2>2. EvidenceFits' /\ PauseFits' /\ ReportIsTrue'
    BY <1>1, <1>7 DEF EvidenceFits, Made, Shown, PauseFits, ReportIsTrue
  <2>3. MemoryFits'
    BY <1>3, <1>4, <1>7 DEF MemoryFits, Working
  <2>4. CaseFits'
    BY <1>3, <1>7 DEF CaseFits, Working
  <2> QED
    BY <2>1, <2>2, <2>3, <2>4
<1>8. CASE /\ ~(world.clock < r.attempts[c].started)
           /\ Save([r EXCEPT !.attempts[c].result = command.result,
                             !.notBefore = world.clock + pause], pause, ended, ended)
  <2> DEFINE attempt == [r.attempts[c] EXCEPT !.result = command.result]
             made == [r.attempts EXCEPT ![c] = attempt]
             record == [r EXCEPT !.attempts = made, !.notBefore = world.clock + pause]
  <2>1. Save(record, pause, ended, ended)
    BY <1>8
  <2>2. /\ world.clock \in 0..MaxClock /\ MaxClock \in Nat
        /\ world.quiet \in 0..(MaxClock + RateBackoff)
    BY DEF QualityTypeOK, Worlds, QualityAssumption
  <2>3. /\ attempt \in Attempts /\ attempt.submitted = r.attempts[c].submitted
        /\ attempt.result = command.result
    BY <1>2, <1>6 DEF Attempts
  <2> HIDE DEF attempt
  <2>4. /\ DOMAIN made = DOMAIN r.attempts /\ made \in [DOMAIN r.attempts -> Attempts]
        /\ made[c] = attempt /\ \A d \in DOMAIN r.attempts : d # c => made[d] = r.attempts[d]
    BY <1>5, <1>6, <2>3
  <2> HIDE DEF made
  <2>5. /\ pause \in {0, Spacing, RateBackoff} /\ pause # 0
        /\ world.clock + pause \in 0..(MaxClock + RateBackoff)
    BY <2>2 DEF Spacing, RateBackoff
  <2>6. world.clock + pause >= IF pause = 0 THEN world.quiet ELSE Later(world.quiet, world.clock + pause)
    <3>1. r.attempts[c].started \in Int
      BY <1>6 DEF Attempts
    <3>2. world.clock >= world.quiet
      BY <1>6, <1>8, <2>2, <3>1
    <3> QED
      BY <2>2, <2>5, <3>2 DEF Later, Spacing, RateBackoff
  <2> HIDE DEF pause
  <2>7. /\ record \in CaseRecords /\ record.place = r.place /\ record.attempts = made
        /\ record.notBefore = world.clock + pause /\ record.present
    <3> DEFINE n == world.clock + pause
    <3>1. n \in 0..(MaxClock + RateBackoff) /\ record = [r EXCEPT !.attempts = made, !.notBefore = n]
      BY <2>5
    <3> HIDE DEF n, record
    <3>2. PICK s \in CaseRecords, f \in [DOMAIN r.attempts -> Attempts], m \in 0..(MaxClock + RateBackoff) :
            s = r /\ f = made /\ m = n
      BY <1>2, <2>4, <3>1
    <3>3. f \in UNION {[d -> Attempts] : d \in SUBSET Cases}
      BY <1>5
    <3>4. /\ [s EXCEPT !.attempts = f, !.notBefore = m] \in CaseRecords
          /\ [s EXCEPT !.attempts = f, !.notBefore = m].place = s.place
          /\ [s EXCEPT !.attempts = f, !.notBefore = m].attempts = f
          /\ [s EXCEPT !.attempts = f, !.notBefore = m].notBefore = m
          /\ [s EXCEPT !.attempts = f, !.notBefore = m].present
      BY <3>3 DEF CaseRecords
    <3> QED
      BY <3>1, <3>2, <3>4 DEF n
  <2> HIDE DEF record
  <2>8. attempts = r => Grows(record)
    BY <1>6, <2>3, <2>4, <2>7 DEF Grows
  <2>9. \A d \in DOMAIN record.attempts :
          record.attempts[d].result.kind = "response" /\ sendings[d].first = Pending =>
            record.attempts[d].result = sendings[d].answer
    <3>1. Pending.kind # "response"
      BY ResultParts
    <3> QED
      BY <1>4, <1>6, <2>3, <2>4, <2>7, <3>1
  <2>10. record.notBefore >= IF pause = 0 THEN world.quiet ELSE Later(world.quiet, world.clock + pause)
    BY <2>6, <2>7
  <2> HIDE DEF r, c
  <2>11. /\ QualityTypeOK' /\ EvidenceFits' /\ ReportIsTrue' /\ PauseFits'
         /\ \A d \in Cases : sendings[d].first # Pending => sendings'[d].first = sendings[d].first
         /\ \/ /\ \A d \in DOMAIN record.attempts : sendings'[d].first = record.attempts[d].result
               /\ command' = Taken(ended, record)
            \/ command' = ended
    BY <1>1, <1>3, <1>4, <2>1, <2>5, <2>7, <2>8, <2>9, <2>10, SaveKeeps
  <2>12. CASE command' = ended
    <3>1. \A d \in DOMAIN r.attempts :
            r.attempts[d].result # Pending => sendings'[d].first = r.attempts[d].result
      BY <1>4, <1>5, <2>11 DEF r
    <3>2. MemoryFits'
      BY <1>3, <2>12, <3>1 DEF MemoryFits, Working, r
    <3>3. CaseFits'
      BY <1>3, <2>12 DEF CaseFits, Working
    <3> QED
      BY <2>11, <3>2, <3>3
  <2>13. CASE /\ \A d \in DOMAIN record.attempts : sendings'[d].first = record.attempts[d].result
              /\ command' = Taken(ended, record)
    <3>1. command'.at = "report" /\ command'.record = record
      BY <1>3, <2>7, <2>13, SavedCommand
    <3>2. MemoryFits'
      BY <2>13, <3>1 DEF MemoryFits, Working
    <3>3. CaseFits'
      BY <3>1 DEF CaseFits, Working
    <3> QED
      BY <2>11, <3>2, <3>3
  <2> QED
    BY <2>11, <2>12, <2>13
<1> QED
  BY <1>7, <1>8 DEF FinishAttempt, ended

\* The corpus is a finite set of that many cases.
LEMMA CasesAreFinite ==
  ASSUME QualityAssumption
  PROVE  /\ IsFiniteSet(Cases) /\ Cardinality(Cases) = Corpus /\ Corpus \in Nat
<1>1. Corpus \in Nat /\ Corpus \in Int /\ 1 \in Int
  BY DEF QualityAssumption
<1>2. PICK a \in Int, b \in Int : a = 1 /\ b = Corpus
  BY <1>1
<1>3. IsFiniteSet(a..b) /\ Cardinality(a..b) = IF a > b THEN 0 ELSE b - a + 1
  BY FS_Interval
<1>4. IsFiniteSet(1..Corpus) /\ Cardinality(1..Corpus) = IF 1 > Corpus THEN 0 ELSE Corpus - 1 + 1
  BY <1>2, <1>3
<1> QED
  BY <1>1, <1>4 DEF Cases

\* What a report is made of.
LEMMA ReportOf ==
  ASSUME NEW a \in Nat, NEW v \in Nat, NEW p \in Nat, NEW c \in BOOLEAN, NEW m \in BOOLEAN
  PROVE  [attempted |-> a, valid |-> v, passed |-> p, complete |-> c, meets |-> m] \in Reports
BY Zenon DEF Reports

\* The tally counts what was answered.
LEMMA TallyIsTrue ==
  ASSUME QualityInv, QualityAssumption, command # Idle
  PROVE  LET report == Tallied(command.record)
             valid == {c \in Cases : sendings[c].answer.protocol}
         IN  /\ report \in Reports
             /\ report.valid <= Cardinality(valid)
             /\ report.meets => Cardinality(valid) * 100 >= Corpus * 99
<1> USE DEF QualityInv
<1> DEFINE r == command.record
           settled == DOMAIN r.attempts \ Unsettled(r)
           counted == {c \in settled : r.attempts[c].result.protocol}
           passed == {c \in settled : r.attempts[c].result.task}
           valid == {c \in Cases : sendings[c].answer.protocol}
           report == Tallied(r)
<1>1. /\ r \in CaseRecords /\ DOMAIN r.attempts \subseteq Cases
      /\ r.attempts \in [DOMAIN r.attempts -> Attempts]
  BY CommandParts, RecordParts
<1>2. counted \subseteq valid
  <2>1. ASSUME NEW c \in counted PROVE c \in valid
    <3>1. /\ c \in Cases /\ r.attempts[c].result # Pending /\ r.attempts[c].result.protocol
          /\ r.attempts[c].result \in Results
      BY <1>1, <2>1 DEF Unsettled, Attempts
    <3>2. sendings[c].first = r.attempts[c].result
      BY <2>1, <3>1 DEF MemoryFits
    <3>3. r.attempts[c].result.kind = "response"
      BY <3>1, ResultParts
    <3> QED
      BY <3>1, <3>2, <3>3 DEF EvidenceFits
  <2> QED
    BY <2>1
<1>3. /\ IsFiniteSet(Cases) /\ Cardinality(Cases) = Corpus /\ Corpus \in Nat
  BY CasesAreFinite
<1>4. /\ counted \subseteq Cases /\ passed \subseteq Cases /\ valid \subseteq Cases
  BY <1>1
<1>5. /\ IsFiniteSet(DOMAIN r.attempts) /\ IsFiniteSet(counted) /\ IsFiniteSet(passed)
      /\ IsFiniteSet(valid)
  BY <1>1, <1>3, <1>4, FS_Subset
<1>6. /\ Cardinality(DOMAIN r.attempts) \in Nat /\ Cardinality(counted) \in Nat
      /\ Cardinality(passed) \in Nat /\ Cardinality(valid) \in Nat
  BY <1>5, FS_CardinalityType
<1>7. Cardinality(counted) <= Cardinality(valid)
  BY <1>2, <1>5, FS_Subset
<1>8. settled = Cases => DOMAIN r.attempts = Cases
  BY <1>1
<1>9. /\ report.attempted = Cardinality(DOMAIN r.attempts) /\ report.valid = Cardinality(counted)
      /\ report = [attempted |-> Cardinality(DOMAIN r.attempts), valid |-> Cardinality(counted),
                   passed |-> Cardinality(passed), complete |-> settled = Cases,
                   meets |-> settled = Cases /\
                             Cardinality(counted) * 100 >= Cardinality(DOMAIN r.attempts) * 99]
      /\ report.meets => /\ settled = Cases
                         /\ Cardinality(counted) * 100 >= Cardinality(DOMAIN r.attempts) * 99
  BY DEF Tallied
<1> HIDE DEF counted, passed, settled, valid
<1>10. report \in Reports
  <2> DEFINE a == Cardinality(DOMAIN r.attempts)
             v == Cardinality(counted)
             p == Cardinality(passed)
             c == settled = Cases
             m == settled = Cases /\ Cardinality(counted) * 100 >= Cardinality(DOMAIN r.attempts) * 99
  <2>1. c \in BOOLEAN /\ m \in BOOLEAN
    OBVIOUS
  <2>2. a \in Nat /\ v \in Nat /\ p \in Nat
    BY <1>6
  <2>3. report = [attempted |-> a, valid |-> v, passed |-> p, complete |-> c, meets |-> m]
    BY <1>9, Zenon
  <2> HIDE DEF a, v, p, c, m, report
  <2>4. [attempted |-> a, valid |-> v, passed |-> p, complete |-> c, meets |-> m] \in Reports
    BY <2>1, <2>2, ReportOf, Zenon
  <2> QED
    BY <2>3, <2>4, Zenon
<1> HIDE DEF report
<1>11. report.meets => Cardinality(valid) * 100 >= Corpus * 99
  <2> SUFFICES ASSUME report.meets PROVE Cardinality(valid) * 100 >= Corpus * 99
    OBVIOUS
  <2>1. Cardinality(counted) * 100 >= Corpus * 99
    BY <1>3, <1>8, <1>9
  <2>2. Cardinality(valid) * 100 >= Cardinality(counted) * 100
    BY <1>6, <1>7
  <2> QED
    BY <1>3, <1>6, <2>1, <2>2
<1> QED
  BY <1>7, <1>9, <1>10, <1>11 DEF report, valid

LEMMA PublishKeeps ==
  ASSUME QualityInv, QualityAssumption, Publish
  PROVE  QualityInv'
<1>1. command # Idle /\ command' = Idle /\ UNCHANGED <<attempts, sendings>>
  BY WorkingIsNotIdle DEF Publish
<1>2. CASE published' = Tallied(command.record) /\ UNCHANGED world
  <2> DEFINE report == Tallied(command.record)
  <2>1. /\ report \in Reports
        /\ report.valid <= Cardinality({c \in Cases : sendings[c].answer.protocol})
        /\ report.meets => Cardinality({c \in Cases : sendings[c].answer.protocol}) * 100 >= Corpus * 99
    BY <1>1, TallyIsTrue
  <2>2. published' = report
    BY <1>2
  <2> HIDE DEF report
  <2>3. ReportIsTrue'
    BY <1>1, <2>1, <2>2 DEF ReportIsTrue
  <2>4. world' \in Worlds /\ world'.quiet = world.quiet
    BY <1>2 DEF QualityInv, QualityTypeOK
  <2> QED
    BY <1>1, <2>1, <2>2, <2>3, <2>4, IdleKeeps
<1>3. CASE AFault /\ UNCHANGED published
  <2>1. ReportIsTrue' /\ published' \in Reports \cup {<< >>}
    BY <1>1, <1>3 DEF QualityInv, QualityTypeOK, ReportIsTrue
  <2> QED
    BY <1>1, <1>3, <2>1, AFaultMoves, IdleKeeps
<1> QED
  BY <1>2, <1>3 DEF Publish

LEMMA QualityInitially ==
  ASSUME QualityInit, QualityAssumption
  PROVE  QualityInv
<1> USE DEF QualityInit
<1>1. PICK p \in Places :
        /\ world = [clock |-> 0, page |-> p, bound |-> p, faults |-> 0, quiet |-> 0]
        /\ sendings = [c \in Cases |-> [times |-> 0, place |-> p, answer |-> Pending,
                                        first |-> Pending]]
  OBVIOUS
<1>2. /\ MaxClock \in Nat /\ MaxFailures \in Nat /\ ~attempts.present /\ command = Idle
      /\ attempts = NoRecord /\ published = << >>
  BY DEF QualityAssumption, NoRecord
<1>3. Pending \in Results /\ Pending.kind # "response"
  BY ResultParts
<1>4. world \in Worlds /\ world.quiet = 0
  BY <1>1, <1>2 DEF Worlds, RateBackoff
<1>5. /\ sendings \in [Cases -> Sendings]
      /\ \A c \in Cases : /\ sendings[c].times = 0 /\ sendings[c].answer = Pending
                          /\ sendings[c].first = Pending
  BY <1>1, <1>3 DEF Sendings
<1>6. QualityTypeOK
  BY <1>2, <1>4, <1>5 DEF QualityTypeOK
<1>7. EvidenceFits
  BY <1>2, <1>3, <1>5 DEF EvidenceFits, Shown, Made
<1>8. MemoryFits /\ CaseFits /\ PauseFits /\ ReportIsTrue
  BY <1>2, <1>4, WorkingIsNotIdle DEF MemoryFits, CaseFits, PauseFits, ReportIsTrue
<1> QED
  BY <1>6, <1>7, <1>8 DEF QualityInv

LEMMA QualityStep ==
  ASSUME QualityInv, QualityAssumption, [QualityNext]_qualityVars
  PROVE  QualityInv'
<1>1. CASE UNCHANGED qualityVars
  BY <1>1 DEF QualityInv, QualityTypeOK, EvidenceFits, Made, Shown, MemoryFits, CaseFits, PauseFits,
     ReportIsTrue, qualityVars
<1>2. CASE OpenJournal \/ RecoverJournal \/ BeginNext \/ Submitting \/ FinishAttempt \/ Publish
  BY <1>2, OpenJournalKeeps, RecoverJournalKeeps, BeginNextKeeps, SubmittingKeeps,
     FinishAttemptKeeps, PublishKeeps
<1>3. CASE \/ CheckScope \/ PreparePrompt \/ SendPrompt \/ CompleteAnswer \/ TakeAnswer
           \/ CaseFails
  BY <1>3, CheckScopeKeeps, PreparePromptKeeps, SendPromptKeeps, CompleteAnswerKeeps,
     TakeAnswerKeeps, CaseFailsKeeps
<1>4. CASE OwnerEnds \/ PlaceChanges \/ OwnerRebinds \/ ClockMoves
  BY <1>4, OwnerEndsKeeps, PlaceChangesKeeps, OwnerRebindsKeeps, ClockMovesKeeps
<1> QED
  BY <1>1, <1>2, <1>3, <1>4 DEF QualityNext

LEMMA QualityAlways == QualitySpec => []QualityInv
<1>1. QualityInit => QualityInv
  BY QualityInitially, QualityAssumption
<1>2. QualityInv /\ [QualityNext]_qualityVars => QualityInv'
  BY QualityStep, QualityAssumption
<1> QED
  BY <1>1, <1>2, PTL DEF QualitySpec

\* QualityTypeOK (QualityRun): the journal, the command and the world of a run stay in range,
\* whatever interrupts it.
THEOREM QualityTypeCorrect == QualitySpec => []QualityTypeOK
<1>1. QualityInv => QualityTypeOK
  BY DEF QualityInv
<1> QED
  BY <1>1, QualityAlways, PTL

\* FirstAttemptsCount (QualityRun), for a corpus of any size, any number of faults and any
\* clock: quality_journal.rs sends no case twice, keeps the first result of each, reports
\* only what was answered and keeps the pause after a result.
THEOREM EvidenceIsOfFirstAttempts == QualitySpec => []FirstAttemptsCount
<1>1. ASSUME QualityInv PROVE FirstAttemptsCount
  <2>1. SentOnce
    <3>1. \A c \in Cases : sendings[c].times \in Nat /\ sendings[c].times <= 1
      BY <1>1 DEF QualityInv, QualityTypeOK, Sendings, EvidenceFits
    <3> QED
      BY <1>1, <3>1 DEF QualityInv, EvidenceFits, Made, SentOnce
  <2>2. FirstResultStays
    BY <1>1 DEF QualityInv, EvidenceFits, Shown, Made, FirstResultStays
  <2>3. ReportIsTrue
    BY <1>1 DEF QualityInv
  <2>4. PauseIsKept
    BY <1>1 DEF QualityInv, CaseFits, PauseIsKept
  <2> QED
    BY <2>1, <2>2, <2>3, <2>4 DEF FirstAttemptsCount
<1>2. QualityInv => FirstAttemptsCount
  BY <1>1
<1> QED
  BY <1>2, QualityAlways, PTL
=============================================================================
