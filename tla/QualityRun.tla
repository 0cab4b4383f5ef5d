----------------------------- MODULE QualityRun -----------------------------
(***************************************************************************)
(* First attempts of a frozen corpus: crates/runtime/src/quality_journal.rs*)
(* (the journal), protocol_qualification.rs (one case per command of the   *)
(* browser owner) and crates/codex-adapter/src/quality_corpus (the cases,  *)
(* their assessment and the tally).                                        *)
(*                                                                         *)
(* Each case is sent at most once in a run, and what became of it counts,  *)
(* whatever interrupts the command: a write that fails before or after it  *)
(* replaced the file, the end of the process, a clock set back, another    *)
(* account on the page or another binding of the owner.                    *)
(***************************************************************************)
EXTENDS Integers, FiniteSets

CONSTANTS Corpus,      \* the number of cases, sent in their order
          Places,      \* installation, account, workspace, route, effort, version
          MaxClock, MaxFailures

ASSUME QualityAssumption == {Corpus, MaxClock, MaxFailures} \subseteq Nat /\ Places # {}

VARIABLES attempts,    \* attempts.json, the durable record
          published,   \* report.json: what it counts
          command,     \* the command in the browser owner
          world,       \* clock, the page's place, the owner's binding, faults so far
          sendings     \* history: per case, the sends, their place, the answer, the first result

qualityVars == <<attempts, published, command, world, sendings>>

Cases == 1..Corpus
Spacing == 1           \* 60 seconds
RateBackoff == 2       \* 900 seconds

\* A result: what a response was worth, or the kind of failure.
Response(protocol, passed) == [kind |-> "response", protocol |-> protocol, task |-> passed]
Failed(reason) == [kind |-> reason, protocol |-> FALSE, task |-> FALSE]
Pending == Failed("pending")
\* Case::assess: only an answer that the envelope's validation takes can pass the task.
Assessments == {Response(TRUE, TRUE), Response(TRUE, FALSE), Response(FALSE, FALSE)}
Results == Assessments \cup {Failed(r) : r \in {"pending", "failed", "rate_limited", "interrupted"}}

NoRecord == [present |-> FALSE]
EmptyRecord(place) == [present |-> TRUE, place |-> place, notBefore |-> 0, attempts |-> << >>]
NewAttempt(time) == [started |-> time, submitted |-> -1, result |-> Pending]
Unsettled(record) == {c \in DOMAIN record.attempts : record.attempts[c].result = Pending}
Later(a, b) == IF a > b THEN a ELSE b

Idle == [at |-> "idle"]
Working == {"page", "ready", "submit", "send", "wait", "answered", "judge"}

Attempts == [started: 0..MaxClock, submitted: -1..MaxClock, result: Results]
CaseRecords == [present: {TRUE}, place: Places, notBefore: 0..(MaxClock + RateBackoff),
            attempts: UNION {[made -> Attempts] : made \in SUBSET Cases}]
Commands == [at: Working \cup {"opened", "begin", "report"}, record: CaseRecords,
             persisted: CaseRecords \cup {NoRecord}, case: 0..Corpus, result: Results,
             scoped: BOOLEAN]
Worlds == [clock: 0..MaxClock, page: Places, bound: Places, faults: 0..MaxFailures,
           quiet: 0..(MaxClock + RateBackoff)]
Reports == [attempted: Nat, valid: Nat, passed: Nat, complete: BOOLEAN, meets: BOOLEAN]
Sendings == [times: Nat, place: Places, answer: Results, first: Results]

QualityTypeOK ==
  /\ attempts \in CaseRecords \cup {NoRecord}
  /\ published \in Reports \cup {<< >>}
  /\ command \in Commands \cup {Idle}
  /\ world \in Worlds
  /\ sendings \in [Cases -> Sendings]

QualityInit ==
  /\ attempts = NoRecord /\ published = << >> /\ command = Idle
  /\ \E p \in Places :
       /\ world = [clock |-> 0, page |-> p, bound |-> p, faults |-> 0, quiet |-> 0]
       /\ sendings = [c \in Cases |-> [times |-> 0, place |-> p, answer |-> Pending,
                                       first |-> Pending]]
-----------------------------------------------------------------------------
(* The journal. *)

\* validate: at most one attempt without a result; a response was submitted before.
Valid(record) ==
  /\ Cardinality(Unsettled(record)) <= 1
  /\ \A c \in DOMAIN record.attempts :
       LET a == record.attempts[c] IN
       /\ a.result.kind = "response" => a.submitted >= 0
       /\ a.result.task => a.result.protocol
       /\ a.submitted >= 0 => a.submitted >= a.started

\* Tally::report.  The threshold is 99 in 100 valid answers of the whole corpus.
Tallied(record) ==
  LET settled == DOMAIN record.attempts \ Unsettled(record)
      valid == {c \in settled : record.attempts[c].result.protocol}
  IN [attempted |-> Cardinality(DOMAIN record.attempts),
      valid |-> Cardinality(valid),
      passed |-> Cardinality({c \in settled : record.attempts[c].result.task}),
      complete |-> settled = Cases,
      meets |-> settled = Cases /\
                Cardinality(valid) * 100 >= Cardinality(DOMAIN record.attempts) * 99]

AFault == world.faults < MaxFailures /\ world' = [world EXCEPT !.faults = @ + 1]

\* History: the first result that the file shows for a case, and how long nothing may
\* be sent after it.
Remember(record) ==
  sendings' = [c \in Cases |->
    IF c \in DOMAIN record.attempts /\ sendings[c].first = Pending
    THEN [sendings[c] EXCEPT !.first = record.attempts[c].result] ELSE sendings[c]]

Quiet(pause) == [world EXCEPT !.quiet = Later(@, world.clock + pause)]

\* Journal::save: refused, failed without effect, or the file is replaced; the replacement
\* may still be reported as an error, and leaves the journal in memory behind the file.
Save(record, pause, saved, failed) ==
  \/ /\ Valid(record) /\ attempts = command.persisted
     /\ attempts' = record /\ Remember(record)
     /\ \/ command' = [saved EXCEPT !.record = record, !.persisted = record]
           /\ world' = IF pause = 0 THEN world ELSE Quiet(pause)
        \/ /\ world.faults < MaxFailures /\ command' = failed
           /\ world' = [(IF pause = 0 THEN world ELSE Quiet(pause)) EXCEPT !.faults = @ + 1]
  \/ /\ \/ (~Valid(record) \/ attempts # command.persisted) /\ UNCHANGED world
        \/ AFault
     /\ command' = failed /\ UNCHANGED <<attempts, sendings>>

\* Journal::open takes the exclusive lock and reads the record; one of another identity
\* is left as it is.
OpenJournal ==
  /\ command.at = "idle"
  /\ LET found == IF attempts.present THEN attempts ELSE EmptyRecord(world.bound) IN
     command' = IF found.place # world.bound THEN command
                ELSE [at |-> "opened", record |-> found, persisted |-> attempts, case |-> 0,
                      result |-> Pending, scoped |-> FALSE]
  /\ UNCHANGED <<attempts, published, world, sendings>>

\* A case that the record shows without a result could be sent once more.
ForgetsPending(record) ==
  [record EXCEPT !.attempts =
     [c \in DOMAIN record.attempts \ Unsettled(record) |-> record.attempts[c]]]

\* The rest of open: what an owner that ended left without a result is a failure of that
\* case, and the next one waits.
Interrupted(record) ==
  [record EXCEPT
     !.attempts = [c \in DOMAIN record.attempts |->
        IF c \in Unsettled(record) THEN [record.attempts[c] EXCEPT !.result = Failed("interrupted")]
        ELSE record.attempts[c]],
     !.notBefore = IF Unsettled(record) = {} THEN @ ELSE Later(@, world.clock + RateBackoff)]

RecoverJournal ==
  /\ command.at = "opened"
  /\ IF attempts.present /\ Unsettled(command.record) = {}
     THEN command' = [command EXCEPT !.at = "begin"] /\ UNCHANGED <<attempts, world, sendings>>
     ELSE Save(Interrupted(command.record),
               IF Unsettled(command.record) = {} THEN 0 ELSE RateBackoff,
               [command EXCEPT !.at = "begin"], Idle)
  /\ UNCHANGED published

WithAttempt(made, next) ==
  [c \in DOMAIN made \cup {next} |-> IF c = next THEN NewAttempt(world.clock) ELSE made[c]]

\* Journal::begin_next: the first case without an attempt, once its attempt is durable.
BeginNext ==
  /\ command.at = "begin"
  /\ LET record == command.record
         rest == Cases \ DOMAIN record.attempts
         ended == [command EXCEPT !.at = "report"]
     IN IF Unsettled(record) # {} \/ world.clock < record.notBefore \/ rest = {}
        THEN command' = ended /\ UNCHANGED <<attempts, world, sendings>>
        ELSE \E next \in rest :
               /\ \A c \in rest : next <= c
               /\ Save([record EXCEPT !.attempts = WithAttempt(@, next)], 0,
                       [command EXCEPT !.at = "page", !.case = next], ended)
  /\ UNCHANGED published

\* Journal::submitting, the callback right before Send.
Submitting ==
  /\ command.at = "submit"
  /\ LET c == command.case
         failed == [command EXCEPT !.at = "judge", !.result = Failed("failed")]
     IN IF world.clock < command.record.attempts[c].started
        THEN command' = failed /\ UNCHANGED <<attempts, world, sendings>>
        ELSE Save([command.record EXCEPT !.attempts[c].submitted = world.clock], 0,
                  [command EXCEPT !.at = "send"], failed)
  /\ UNCHANGED published

\* Journal::finish_detailed; without it the next owner records the interruption.
FinishAttempt ==
  /\ command.at = "judge"
  /\ LET c == command.case
         ended == [command EXCEPT !.at = "report"]
         a == command.record.attempts[c]
         pause == IF command.result.kind = "rate_limited" THEN RateBackoff ELSE Spacing
     IN IF \/ world.clock < a.started \/ world.clock < a.submitted
           \/ command.result.kind = "response" /\ a.submitted < 0
        THEN command' = ended /\ UNCHANGED <<attempts, world, sendings>>
        ELSE Save([command.record EXCEPT !.attempts[c].result = command.result,
                                         !.notBefore = world.clock + pause],
                  pause, ended, ended)
  /\ UNCHANGED published

\* report.json is made from the journal in memory; it may fail to be written.
Publish ==
  /\ command.at = "report"
  /\ command' = Idle
  /\ \/ published' = Tallied(command.record) /\ UNCHANGED world
     \/ AFault /\ UNCHANGED published
  /\ UNCHANGED <<attempts, sendings>>
-----------------------------------------------------------------------------
(* The case in the browser: qualify_cancellable. *)

\* check_scope, before anything is done on the new page.
CheckScope ==
  /\ command.at = "page"
  /\ command' = IF world.page = command.record.place
                THEN [command EXCEPT !.at = "ready", !.scoped = TRUE]
                ELSE [command EXCEPT !.at = "judge", !.result = Failed("failed")]
  /\ UNCHANGED <<attempts, published, world, sendings>>

\* The model is chosen and the prompt inserted, in a page that was not loaded anew.
PreparePrompt ==
  /\ command.at = "ready" /\ command.scoped
  /\ command' = [command EXCEPT !.at = "submit"]
  /\ UNCHANGED <<attempts, published, world, sendings>>

SendPrompt ==
  /\ command.at = "send" /\ command.scoped
  /\ command' = [command EXCEPT !.at = "wait"]
  /\ sendings' = [sendings EXCEPT ![command.case].times = @ + 1,
                                  ![command.case].place = world.page]
  /\ UNCHANGED <<attempts, published, world>>

\* The answer is complete; its worth is what Case::assess will find.
CompleteAnswer ==
  /\ command.at = "wait" /\ command.scoped
  /\ \E answer \in Assessments :
       /\ command' = [command EXCEPT !.at = "answered", !.result = answer]
       /\ sendings' = [sendings EXCEPT ![command.case].answer = answer]
  /\ UNCHANGED <<attempts, published, world>>

\* The scope is checked once more, and the page must be closed.
TakeAnswer ==
  /\ command.at = "answered"
  /\ command' = IF world.page = command.record.place
                THEN [command EXCEPT !.at = "judge"]
                ELSE [command EXCEPT !.at = "judge", !.result = Failed("failed")]
  /\ UNCHANGED <<attempts, published, world, sendings>>

\* Every step of the page may fail, time out or be cancelled; a rate limit is told apart.
CaseFails ==
  /\ command.at \in {"page", "ready", "send", "wait", "answered"}
  /\ \E reason \in {"failed", "rate_limited"} :
       command' = [command EXCEPT !.at = "judge", !.result = Failed(reason)]
  /\ UNCHANGED <<attempts, published, world, sendings>>
-----------------------------------------------------------------------------
(* The surroundings. *)

\* The owner's process ends; the lock goes with it.
OwnerEnds ==
  /\ command.at # "idle" /\ AFault /\ command' = Idle
  /\ UNCHANGED <<attempts, published, sendings>>

\* Another account is shown: the page is loaded anew, and the turn on it is lost.
PlaceChanges ==
  /\ world.faults < MaxFailures
  /\ \E p \in Places \ {world.page} :
       world' = [world EXCEPT !.page = p, !.faults = @ + 1]
  /\ command' = IF command.at \in Working THEN [command EXCEPT !.scoped = FALSE] ELSE command
  /\ UNCHANGED <<attempts, published, sendings>>

\* The owner is set up again for the place of the page.
OwnerRebinds ==
  /\ command.at = "idle" /\ world.bound # world.page
  /\ world' = [world EXCEPT !.bound = world.page]
  /\ UNCHANGED <<attempts, published, command, sendings>>

\* The system's clock; it may be set back.
ClockMoves ==
  /\ \/ world.clock < MaxClock /\ world' = [world EXCEPT !.clock = @ + 1]
     \/ /\ world.clock > 0 /\ world.faults < MaxFailures
        /\ world' = [world EXCEPT !.clock = @ - 1, !.faults = @ + 1]
  /\ UNCHANGED <<attempts, published, command, sendings>>

QualityNext ==
  \/ OpenJournal \/ RecoverJournal \/ BeginNext \/ Submitting \/ FinishAttempt \/ Publish
  \/ CheckScope \/ PreparePrompt \/ SendPrompt \/ CompleteAnswer \/ TakeAnswer \/ CaseFails
  \/ OwnerEnds \/ PlaceChanges \/ OwnerRebinds \/ ClockMoves

QualitySpec == QualityInit /\ [][QualityNext]_qualityVars
-----------------------------------------------------------------------------
(* What a run may claim. *)

\* No case is sent twice in a run, and none before the file says so; all of them are sent
\* from the place that the record names.
SentOnce ==
  \A c \in Cases : sendings[c].times > 0 =>
    /\ sendings[c].times = 1
    /\ attempts.present /\ sendings[c].place = attempts.place
    /\ c \in DOMAIN attempts.attempts /\ attempts.attempts[c].submitted >= 0

\* The first result of a case stays its result, and a response is what was answered.
FirstResultStays ==
  \A c \in Cases : sendings[c].first # Pending =>
    /\ c \in DOMAIN attempts.attempts /\ attempts.attempts[c].result = sendings[c].first
    /\ sendings[c].first.kind = "response" => sendings[c].first = sendings[c].answer

\* What the report counts as valid was answered; the threshold needs answers to the whole
\* corpus.
ReportIsTrue ==
  LET valid == {c \in Cases : sendings[c].answer.protocol} IN
  published # << >> =>
    /\ published.valid <= Cardinality(valid)
    /\ published.meets => Cardinality(valid) * 100 >= Corpus * 99

\* While a case is worked on, the pause after the last result is over.
PauseIsKept ==
  command.at \in Working => command.record.attempts[command.case].started >= world.quiet

\* The evidence of a run is that of first attempts, whatever interrupts it.
FirstAttemptsCount == SentOnce /\ FirstResultStays /\ ReportIsTrue /\ PauseIsKept
=============================================================================
