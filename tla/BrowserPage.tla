------------------------------ MODULE BrowserPage ------------------------------
(***************************************************************************)
(* One test turn on a page of the managed browser: the calls of            *)
(* crates/browser-adapter/src/pipe.rs over the browser's pipe, the scripts *)
(* they run in the page (dom/), the tracker that attributes the answer     *)
(* (turn.rs), and the ledger record that crates/runtime/src/control.rs     *)
(* keeps of the turn.                                                      *)
(*                                                                         *)
(* A call waits 15 seconds for the reply with its id.  The browser runs    *)
(* the calls in order, but when it likes: one that timed out may run       *)
(* later, and its reply is read by a later call.  Meanwhile the page and   *)
(* the account may change under the turn.  A script is one call here: the  *)
(* calls around it (origin, evaluate, release) only add ways to fail.      *)
(***************************************************************************)
EXTENDS Naturals, Sequences, TurnStates

CONSTANT MaxCalls  \* how many calls one turn makes

ASSUME PageAssumption == MaxCalls \in Nat

VARIABLES pc,       \* the step the adapter is at
          wire,     \* calls that the browser has not run yet
          inbox,    \* replies that nobody has taken yet
          waiting,  \* the call whose reply is awaited, 0 for none
          lastId,
          page,     \* what the page shows; `sent` counts clicks that sent the prompt
          tracker,  \* TurnTracker
          ledger,   \* the record of this turn
          intent,   \* submission_intent
          code,     \* the error of the turn, as far as it matters
          text      \* the answer that was taken

pageVars == <<pc, wire, inbox, waiting, lastId, page, tracker, ledger, intent, code, text>>

\* The steps that are one call each, and those that are none.
Reads == {"scope", "baseline", "verify", "ready", "observe", "rescope"}
Steps == Reads \cup {"select", "insert", "click", "stop", "close"}

Refusals == {"E_SEND_SURFACE", "E_SEND_DISABLED", "E_MODEL_SELECTION", "E_COMPOSER_MISMATCH"}

Page == [open: BOOLEAN, ours: BOOLEAN, model: BOOLEAN, surface: BOOLEAN,
         composer: {"empty", "prompt", "other"}, enabled: BOOLEAN,
         generating: BOOLEAN, control: BOOLEAN, alien: BOOLEAN, limited: BOOLEAN,
         answer: {"none", "partial", "final", "failed"}, sent: 0..2]

PageTypeOK ==
  /\ pc \in Steps \cup {"intend", "judge", "record", "done"}
  /\ waiting \in 0..MaxCalls /\ lastId \in 0..MaxCalls
  /\ page \in Page
  /\ tracker \in TurnState /\ ledger \in TurnState
  /\ intent \in BOOLEAN
  /\ code \in {"none", "refused", "other"}
  /\ text \in {"none", "partial", "final"}
  /\ \A i \in DOMAIN wire : wire[i].id \in 1..lastId /\ wire[i].step \in Steps
  /\ \A i \in DOMAIN inbox : inbox[i].id \in 1..lastId

\* A page of a temporary chat that is ready, with the selected route.
PageInit ==
  /\ pc = "scope"
  /\ wire = << >> /\ inbox = << >> /\ waiting = 0 /\ lastId = 0
  /\ page = [open |-> TRUE, ours |-> TRUE, model |-> TRUE, surface |-> TRUE,
             composer |-> "empty", enabled |-> FALSE,
             generating |-> FALSE, control |-> FALSE, alien |-> FALSE, limited |-> FALSE,
             answer |-> "none", sent |-> 0]
  /\ tracker = "Prepared" /\ ledger = "Prepared"
  /\ intent = FALSE /\ code = "none" /\ text = "none"
-----------------------------------------------------------------------------
(* The browser. *)

\* What a script reports: most return a fact or a fixed refusal.
SendReply ==
  IF page.limited THEN "limited"
  ELSE IF ~page.surface THEN "E_SEND_SURFACE"
  ELSE IF ~page.model THEN "E_MODEL_SELECTION"
  ELSE IF page.composer # "prompt" THEN "E_COMPOSER_MISMATCH"
  ELSE IF page.generating THEN "E_BROWSER_BUSY"
  ELSE IF ~page.enabled THEN "E_SEND_DISABLED"
  ELSE "true"

Says(step) ==
  CASE step \in {"scope", "rescope"} -> IF page.ours THEN "true" ELSE "E_SESSION_SCOPE"
    [] step \in {"verify", "select"} -> IF page.model THEN "true" ELSE "E_MODEL_SELECTION"
    [] step = "baseline" -> IF page.composer = "empty" /\ ~page.generating /\ page.model
                            THEN "true" ELSE "E_BROWSER_BUSY"
    [] step = "insert"   -> IF page.composer = "empty" /\ ~page.limited THEN "true" ELSE "false"
    [] step \in {"ready", "click"} -> SendReply
    [] step = "observe"  -> IF page.limited THEN "limited" ELSE "true"
    [] OTHER -> "true"

\* observe.js: a snapshot of the conversation.
Observation ==
  [ambiguous |-> page.alien, model |-> page.model, user |-> page.sent > 0,
   answer |-> page.answer, generating |-> page.generating, control |-> page.control]

Nothing == [ambiguous |-> FALSE, model |-> TRUE, user |-> FALSE, answer |-> "none",
            generating |-> FALSE, control |-> FALSE]

\* What it does to the page.
After(step) ==
  CASE step = "select" -> {[page EXCEPT !.model = m] : m \in BOOLEAN}
    [] step = "insert" /\ Says(step) = "true" -> {[page EXCEPT !.composer = "prompt"]}
    [] step = "click" /\ SendReply = "true" ->
         {[page EXCEPT !.sent = @ + 1], [page EXCEPT !.sent = @ + 1, !.composer = "empty",
                                                     !.enabled = FALSE, !.generating = TRUE]}
    [] step = "stop" -> {[page EXCEPT !.generating = FALSE]}
    [] step = "close" -> {[page EXCEPT !.open = FALSE]}
    [] OTHER -> {page}

\* A reply may also be a frame that cannot be parsed.
BrowserRuns ==
  /\ wire # << >>
  /\ wire' = Tail(wire)
  /\ LET call == Head(wire)
         Reply(says) == [id |-> call.id, says |-> says,
                         seen |-> IF call.step = "observe" THEN Observation ELSE Nothing]
     IN \/ /\ page.open /\ page' \in After(call.step)
           /\ \E says \in {"bad", IF call.step = "select"
                                  THEN IF page'.model THEN "true" ELSE "E_MODEL_SELECTION"
                                  ELSE Says(call.step)} : inbox' = Append(inbox, Reply(says))
        \/ ~page.open /\ UNCHANGED page /\ inbox' = Append(inbox, Reply("gone"))
  /\ UNCHANGED <<pc, waiting, lastId, tracker, ledger, intent, code, text>>

\* The page follows the conversation.  It shows the controls of a finished answer and
\* no stop button only when the answer is finished.
PageMoves ==
  /\ page.open
  /\ \/ ~page.enabled /\ page.composer = "prompt" /\ page' = [page EXCEPT !.enabled = TRUE]
     \/ /\ page.sent > 0 /\ page.answer = "none" /\ page.composer # "empty"
        /\ page' = [page EXCEPT !.composer = "empty", !.enabled = FALSE, !.generating = TRUE]
     \/ /\ page.sent > 0 /\ page.generating /\ page.answer \in {"none", "partial"}
        /\ \/ page' = [page EXCEPT !.answer = "partial", !.control = TRUE]
           \/ page' = [page EXCEPT !.answer = "final", !.control = TRUE, !.generating = FALSE]
           \/ page' = [page EXCEPT !.answer = "failed", !.generating = FALSE]
  /\ UNCHANGED <<pc, wire, inbox, waiting, lastId, tracker, ledger, intent, code, text>>

\* What nobody asked for: another account, another model, a foreign message, a draft, a
\* service limit, a surface that is not known, a page that is gone.  One of them in a turn.
PageDisturbed ==
  /\ page.open /\ page.ours /\ page.model /\ page.surface /\ ~page.alien /\ ~page.limited
  /\ page' \in {[page EXCEPT !.ours = FALSE], [page EXCEPT !.model = FALSE],
                [page EXCEPT !.alien = TRUE], [page EXCEPT !.composer = "other"],
                [page EXCEPT !.limited = TRUE], [page EXCEPT !.surface = FALSE],
                [page EXCEPT !.open = FALSE]}
  /\ UNCHANGED <<pc, wire, inbox, waiting, lastId, tracker, ledger, intent, code, text>>
-----------------------------------------------------------------------------
(* The adapter. *)

\* ManagedBrowser::call.
Issue ==
  /\ pc \in Steps /\ waiting = 0 /\ lastId < MaxCalls
  /\ lastId' = lastId + 1 /\ waiting' = lastId'
  /\ wire' = Append(wire, [id |-> lastId', step |-> pc])
  /\ UNCHANGED <<pc, inbox, page, tracker, ledger, intent, code, text>>

\* qualify_page_checked gives up; press_send's refusals keep their code.
Fails(says) ==
  /\ code' = IF says \in Refusals THEN "refused" ELSE "other"
  /\ pc' = IF pc = "close" THEN "judge" ELSE "stop"
  /\ UNCHANGED <<ledger, intent, text>>

\* Mutant: a copy button is enough.
AnsweredEarly(o) == o.answer \in {"partial", "final"} /\ o.control

\* What the tracker takes for a finished answer.
Answered(o) == o.answer \in {"partial", "final"} /\ o.control /\ ~o.generating

\* TurnTracker::observe.
Observe(o) ==
  \/ /\ o.ambiguous \/ ~o.model \/ (o.user /\ o.answer = "failed")
     /\ tracker' = IF tracker = "Submitting" THEN "SubmissionUncertain" ELSE "Failed"
     /\ Fails("other")
  \/ /\ ~o.ambiguous /\ o.model /\ ~o.user
     /\ UNCHANGED <<pc, tracker, ledger, intent, code, text>>
  \/ /\ ~o.ambiguous /\ o.model /\ o.user /\ o.answer # "failed"
     /\ IF Answered(o)
        THEN tracker' = "Completed" /\ pc' = "rescope" /\ text' = o.answer
        ELSE /\ tracker' = IF o.answer = "none" THEN "Submitted" ELSE "Generating"
             /\ UNCHANGED <<pc, text>>
     /\ UNCHANGED <<ledger, intent, code>>

Following ==
  [scope |-> "select", select |-> "baseline", baseline |-> "insert", insert |-> "verify",
   verify |-> "intend", ready |-> "click", click |-> "observe", rescope |-> "close",
   close |-> "record"]

Goes == /\ pc' = Following[pc]
        /\ tracker' = IF pc = "baseline" THEN "ObservedBaseline" ELSE tracker
        /\ UNCHANGED <<ledger, intent, code, text>>

\* What a step makes of the reply to its call.
Continue(says, seen) ==
  CASE pc = "stop" -> pc' = "judge" /\ UNCHANGED <<tracker, ledger, intent, code, text>>
    [] pc = "observe" /\ says = "true" -> Observe(seen)
    [] pc \notin {"observe", "stop"} /\ says = "true" -> Goes
    [] pc = "ready" /\ says = "E_SEND_DISABLED" ->   \* polled until its deadline
         \/ UNCHANGED <<pc, tracker, ledger, intent, code, text>>
         \/ Fails(says) /\ UNCHANGED tracker
    [] OTHER -> Fails(says) /\ UNCHANGED tracker

\* Replies with another id are dropped; one without an id fails whoever waits.
Take ==
  /\ waiting # 0 /\ inbox # << >>
  /\ inbox' = Tail(inbox)
  /\ LET reply == Head(inbox)
     IN IF reply.says # "bad" /\ reply.id # waiting
        THEN UNCHANGED <<pc, waiting, tracker, ledger, intent, code, text>>
        ELSE waiting' = 0 /\ Continue(reply.says, reply.seen)
  /\ UNCHANGED <<wire, lastId, page>>

\* Mutant: a Send that was not acknowledged is clicked again.
TimeOutRetried ==
  /\ waiting # 0
  /\ waiting' = 0
  /\ IF pc = "click" THEN UNCHANGED <<pc, tracker, ledger, intent, code, text>>
     ELSE Continue("timeout", Nothing)
  /\ UNCHANGED <<wire, inbox, lastId, page>>

\* 15 seconds without the reply, or a pipe that is closed.
TimeOut ==
  /\ waiting # 0
  /\ waiting' = 0
  /\ Continue("timeout", Nothing)
  /\ UNCHANGED <<wire, inbox, lastId, page>>

\* The deadline of the observation loop, or a call that could not be written.
GiveUp ==
  /\ waiting = 0 /\ pc \in Steps
  /\ Continue("timeout", Nothing)
  /\ UNCHANGED <<wire, inbox, waiting, lastId, page>>

\* before_send: the intent is durable before the tracker and Send.
Intend ==
  /\ pc = "intend"
  /\ \/ /\ ledger' = "Submitting" /\ intent' = TRUE
        /\ tracker' = "Submitting" /\ pc' = "ready"
        /\ UNCHANGED <<code, text>>
     \/ /\ ledger' \in {ledger, "ObservedBaseline", "Submitting"}  \* a write that failed
        /\ code' = "other" /\ pc' = "stop"
        /\ UNCHANGED <<intent, tracker, text>>
  /\ UNCHANGED <<wire, inbox, waiting, lastId, page>>

\* Mutant: whatever fails before the answer starts did not send.
FailureStateGuessed == IF tracker \in {"Submitted", "Generating", "Completed"}
                       THEN "SubmissionUncertain" ELSE "Failed"

\* qualification_failure_state.
FailureState == IF intent /\ code # "refused" THEN "SubmissionUncertain" ELSE "Failed"

Judge ==
  /\ pc = "judge" /\ pc' = "done"
  /\ ledger' \in {ledger, IF FailureState \in Successors(ledger) THEN FailureState ELSE ledger}
  /\ UNCHANGED <<wire, inbox, waiting, lastId, page, tracker, intent, code, text>>

\* The answer is judged when the page is closed; each write of the ledger may fail.
Record ==
  /\ pc = "record" /\ pc' = "done"
  /\ ledger' \in {ledger, "Submitted", "Generating", "Failed", "Completed"}
  /\ UNCHANGED <<wire, inbox, waiting, lastId, page, tracker, intent, code, text>>

Adapter == Issue \/ Take \/ TimeOut \/ GiveUp \/ Intend \/ Judge \/ Record

PageNext == Adapter \/ BrowserRuns \/ PageMoves \/ PageDisturbed

PageSpec == PageInit /\ [][PageNext]_pageVars
-----------------------------------------------------------------------------
(* Properties. *)

\* However calls time out and replies lag behind, Send is clicked at most once, with the
\* intent on record, and what is recorded of a test is known: a completed one was sent
\* once and got the whole answer to its own prompt; a failed one was not sent and will
\* not be, unless its complete answer was received and rejected.
RecordIsTrue ==
  /\ page.sent <= 1
  /\ page.sent = 1 => ledger \notin {"Prepared", "ObservedBaseline"}
  /\ ledger = "Completed" => page.sent = 1 /\ text = "final" /\ tracker = "Completed"
  /\ ledger = "Failed" =>
       \/ text = "final"
       \/ page.sent = 0 /\ \A i \in DOMAIN wire : wire[i].step # "click"
=============================================================================
