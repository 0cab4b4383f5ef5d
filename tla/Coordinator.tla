----------------------------- MODULE Coordinator -----------------------------
(***************************************************************************)
(* Turn execution, crates/runtime/src/turn.rs: workers (one per call of    *)
(* `execute`) that admit a request in the ledger, drive one browser page   *)
(* per attempt through the browser owner, follow the answer with a         *)
(* TurnTracker (crates/browser-adapter/src/turn.rs) and record the         *)
(* outcome.  Composes Ledger and ManagedDriver; the scheduler appears as   *)
(* the lease it implements (TurnLease, with one holder).                   *)
(*                                                                         *)
(* Between two awaits a worker runs alone; every await (a ledger           *)
(* transaction, a browser call, a sleep) is a point where the owner        *)
(* thread, another worker, a cancellation or the end of the process comes  *)
(* in between, so each of them starts an action of its own.                *)
(***************************************************************************)
EXTENDS Ledger, ManagedDriver

CONSTANTS Req,         \* the request identity of each worker's call
          Input,       \* the request body of each worker's call
          NoWorker,    \* nobody holds the generation lease
          Oversized,   \* requests whose delivery exceeds the replay cache
          ReplayLimit, \* deliveries the replay cache keeps (16 in the code)
          MaxRestarts  \* bound: how often the process ends and starts again

ASSUME CoordinatorAssumption ==
  /\ Req \in [Workers -> Requests]
  /\ Input \in [Workers -> Inputs]
  /\ SessionOf \in [Workers -> Sessions]
  /\ NoWorker \notin Workers
  /\ Oversized \subseteq Requests
  /\ ReplayLimit \in Nat \ {0}
  /\ MaxRestarts \in Nat

VARIABLES pc,        \* where each worker is
          plan,      \* ledger states it still has to write, in order
          after,     \* where it continues once they are written
          result,    \* the result code it is going to return
          tracker,   \* the state of its TurnTracker
          synced,    \* `state`: what it takes the ledger row to be
          retries,   \* explicit failures retried so far
          cancelled, \* its cancellation token has fired
          evidence,  \* history: what it has read from each page
          owner,     \* history: the worker each request was newly admitted for
          holder,    \* the worker holding the generation lease
          replay,    \* requests whose delivery the memory cache holds
          restarts   \* how often the process ended

turnVars == <<pc, plan, after, result, tracker, synced, retries, cancelled>>
sharedVars == <<owner, holder, replay, restarts>>
vars == <<turns, driverVars, turnVars, sharedVars, evidence>>

Pcs == {"idle", "acquire", "admit", "prepare", "preparing", "check", "gate",
        "write", "submit", "submitting", "observe", "observing", "verify",
        "verifying", "stop", "stopping", "release", "releasing", "readmit",
        "backoff", "finish", "done", "dead"}

Results == {"none", "delivered", "replayed", "E_REFUSED", "E_REQUEST_ID_CONFLICT",
            "E_REPLAY_UNAVAILABLE", "E_REQUEST_ALREADY_ADMITTED", "E_LEDGER",
            "E_TURN_TRANSITION", "E_TURN_STATE", "E_BROWSER_PREPARE",
            "E_MODEL_FIDELITY", "E_CANCELLED", "E_SUBMISSION_UNCERTAIN",
            "E_BROWSER", "E_OBSERVATION", "E_CHATGPT_THINKING_FAILED",
            "E_SESSION_SCOPE", "E_OUTPUT", "E_WEB_CLEANUP_UNCONFIRMED"}

Evidence == {"none", "acknowledged", "failed", "completed"}

TypeOK ==
  /\ LedgerTypeOK
  /\ DriverTypeOK
  /\ pc \in [Workers -> Pcs]
  /\ plan \in [Workers -> Seq(TurnState)]
  /\ after \in [Workers -> Pcs]
  /\ result \in [Workers -> Results]
  /\ tracker \in [Workers -> TurnState]
  /\ synced \in [Workers -> TurnState]
  /\ retries \in [Workers -> 0..MaxRetries]
  /\ cancelled \in [Workers -> BOOLEAN]
  /\ evidence \in [Handles -> Evidence]
  /\ owner \in [Requests -> Workers \cup {NoWorker}]
  /\ holder \in Workers \cup {NoWorker}
  /\ replay \in Seq(Requests)
  /\ restarts \in Nat

Init ==
  /\ LedgerInit
  /\ DriverInit
  /\ pc = [w \in Workers |-> "idle"]
  /\ plan = [w \in Workers |-> <<>>]
  /\ after = [w \in Workers |-> "idle"]
  /\ result = [w \in Workers |-> "none"]
  /\ tracker = [w \in Workers |-> "Prepared"]
  /\ synced = [w \in Workers |-> "Prepared"]
  /\ retries = [w \in Workers |-> 0]
  /\ cancelled = [w \in Workers |-> FALSE]
  /\ evidence = [h \in Handles |-> "none"]
  /\ owner = [r \in Requests |-> NoWorker]
  /\ holder = NoWorker
  /\ replay = <<>>
  /\ restarts = 0

\* The page of the worker's current attempt.
PageOf(w) == <<w, retries[w]>>
\* `resumed`: this attempt follows an explicitly failed one.
Resumed(w) == retries[w] > 0

Goto(w, p) ==
  /\ pc' = [pc EXCEPT ![w] = p]
  /\ UNCHANGED <<plan, after>>

\* The worker is going to write these states to its row, then go to p.
Write(w, states, p) ==
  /\ pc' = [pc EXCEPT ![w] = IF states = <<>> THEN p ELSE "write"]
  /\ plan' = [plan EXCEPT ![w] = states]
  /\ after' = [after EXCEPT ![w] = IF states = <<>> THEN @ ELSE p]

Returning(w, code) == result' = [result EXCEPT ![w] = code]

\* A step that leaves the page tracking of the worker alone.
KeepTracking == UNCHANGED <<tracker, synced, retries, cancelled, evidence>>
-----------------------------------------------------------------------------
(* Starting, cancelling and admitting a turn. *)

Execute(w) ==
  /\ pc[w] = "idle"
  /\ Goto(w, "acquire")
  /\ KeepTracking
  /\ UNCHANGED <<turns, driverVars, result, sharedVars>>

\* The HTTP future is dropped or the runtime cancels: the worker keeps running.
Cancel(w) ==
  /\ pc[w] \notin {"idle", "done", "dead"}
  /\ ~cancelled[w]
  /\ cancelled' = [cancelled EXCEPT ![w] = TRUE]
  /\ UNCHANGED <<turns, driverVars, pc, plan, after, result, tracker, synced,
                 retries, evidence, sharedVars>>

\* Scheduler::acquire returns the lease.
Acquire(w) ==
  /\ pc[w] = "acquire"
  /\ ~cancelled[w]
  /\ holder = NoWorker
  /\ holder' = w
  /\ Goto(w, "admit")
  /\ KeepTracking
  /\ UNCHANGED <<turns, driverVars, result, owner, replay, restarts>>

\* Any error of the scheduler (or of decoding): queue full, session busy,
\* queue timeout, cancelled.
Refused(w) ==
  /\ pc[w] = "acquire"
  /\ Goto(w, "done")
  /\ Returning(w, "E_REFUSED")
  /\ KeepTracking
  /\ UNCHANGED <<turns, driverVars, sharedVars>>

AdmitNew(w) ==
  /\ pc[w] = "admit"
  /\ Admit(Req[w], SessionOf[w], Input[w])
  /\ owner' = [owner EXCEPT ![Req[w]] = w]
  /\ Goto(w, "prepare")
  /\ KeepTracking
  /\ UNCHANGED <<driverVars, result, holder, replay, restarts>>

DuplicateResult(w) ==
  IF Conflicts(Req[w], SessionOf[w], Input[w]) THEN "E_REQUEST_ID_CONFLICT"
  ELSE IF turns[Req[w]].state # "Completed" THEN "E_REQUEST_ALREADY_ADMITTED"
  ELSE IF \E k \in DOMAIN replay : replay[k] = Req[w] THEN "replayed"
  ELSE "E_REPLAY_UNAVAILABLE"

\* Mutant: a request whose first submission ended uncertain is run again.
AdmitDuplicateRerunning(w) ==
  /\ pc[w] = "admit"
  /\ Admitted(Req[w])
  /\ IF DuplicateResult(w) = "E_REQUEST_ALREADY_ADMITTED"
     THEN turns' = [turns EXCEPT ![Req[w]].state = "Prepared"] /\ Goto(w, "prepare")
     ELSE UNCHANGED turns /\ Goto(w, "finish")
  /\ Returning(w, DuplicateResult(w))
  /\ KeepTracking
  /\ UNCHANGED <<driverVars, sharedVars>>

\* The row exists: a completed request is answered from the cache, anything
\* else is refused.  Nothing is submitted.
AdmitDuplicate(w) ==
  /\ pc[w] = "admit"
  /\ Admitted(Req[w])
  /\ Goto(w, "finish")
  /\ Returning(w, DuplicateResult(w))
  /\ KeepTracking
  /\ UNCHANGED <<turns, driverVars, sharedVars>>

AdmitFails(w) ==
  /\ pc[w] \in {"admit", "readmit"}
  /\ Goto(w, "finish")
  /\ Returning(w, "E_LEDGER")
  /\ KeepTracking
  /\ UNCHANGED <<turns, driverVars, sharedVars>>
-----------------------------------------------------------------------------
(* Ledger writes. *)

\* The writing is over, for good or ill.
Leave(w, p) ==
  /\ pc' = [pc EXCEPT ![w] = p]
  /\ plan' = [plan EXCEPT ![w] = <<>>]
  /\ after' = [after EXCEPT ![w] = "idle"]

\* One `ledger.transition`.
WriteTurn(w) ==
  /\ pc[w] = "write"
  /\ Transition(Req[w], Head(plan[w]))
  /\ IF Len(plan[w]) = 1 THEN Leave(w, after[w])
     ELSE plan' = [plan EXCEPT ![w] = Tail(@)] /\ UNCHANGED <<pc, after>>
  /\ KeepTracking
  /\ UNCHANGED <<driverVars, result, sharedVars>>

\* Where `?` returns to: past the release of the page if there is one.
ErrorExit(w) == IF after[w] = "finish" THEN "finish" ELSE "release"

\* Mutant: `let _ = ledger.transition(...)`.
WriteFailsIgnored(w) ==
  /\ pc[w] = "write"
  /\ Leave(w, after[w])
  /\ KeepTracking
  /\ UNCHANGED <<turns, driverVars, result, sharedVars>>

\* The database fails, or refuses the move as illegal.
WriteFails(w) ==
  /\ pc[w] = "write"
  /\ Returning(w, IF Head(plan[w]) \in Successors(turns[Req[w]].state)
                  THEN "E_LEDGER" ELSE "E_TURN_TRANSITION")
  /\ Leave(w, ErrorExit(w))
  /\ KeepTracking
  /\ UNCHANGED <<turns, driverVars, sharedVars>>
-----------------------------------------------------------------------------
(* Calls of the browser owner. *)

\* The call is queued and the worker waits for its reply.
Ask(w, from, op, to) ==
  /\ pc[w] = from
  /\ Request(op, PageOf(w))
  /\ Goto(w, to)
  /\ UNCHANGED <<turns, result, sharedVars>>

\* The awaited reply arrives.
Told(w, at, v) ==
  /\ pc[w] = at
  /\ reply[w] = v
  /\ Receive(w)

\* The channel was full, the reply is an error, or the wait is given up.  A
\* Prepared that arrives with the timeout is lost.
Untold(w, from, at) ==
  /\ pc[w] \in {from, at}
  /\ Hangup(w, IF reply[w] = "prepared" THEN {PageOf(w)} ELSE {})

AskPrepare(w) == Ask(w, "prepare", "Prepare", "preparing") /\ KeepTracking

PrepareAnswered(w) ==
  /\ Told(w, "preparing", "prepared")
  /\ Goto(w, "check")
  /\ KeepTracking
  /\ UNCHANGED <<turns, result, sharedVars>>

\* 90 seconds, or an error.
PrepareUnanswered(w) ==
  /\ Untold(w, "prepare", "preparing")
  /\ Write(w, <<"Failed">>, "finish")
  /\ Returning(w, "E_BROWSER_PREPARE")
  /\ KeepTracking
  /\ UNCHANGED <<turns, sharedVars>>

\* The route, the effort or the baseline is not what was asked for.
RejectPage(w) ==
  /\ pc[w] = "check"
  /\ Write(w, <<"Failed">>, "release")
  /\ Returning(w, "E_MODEL_FIDELITY")
  /\ KeepTracking
  /\ UNCHANGED <<turns, driverVars, sharedVars>>

AcceptPage(w) ==
  /\ pc[w] = "check"
  /\ tracker' = [tracker EXCEPT ![w] = "ObservedBaseline"]
  /\ Write(w, IF Resumed(w) THEN <<>> ELSE <<"ObservedBaseline">>, "gate")
  /\ UNCHANGED <<turns, driverVars, result, synced, retries, cancelled, evidence, sharedVars>>

\* Cancelled before submission.
GateCloses(w) ==
  /\ pc[w] = "gate"
  /\ cancelled[w]
  /\ Write(w, <<"Cancelled">>, "release")
  /\ Returning(w, "E_CANCELLED")
  /\ KeepTracking
  /\ UNCHANGED <<turns, driverVars, sharedVars>>

\* Mutant: the intent is not recorded before Send.
GateOpensSilently(w) ==
  /\ pc[w] = "gate"
  /\ ~cancelled[w]
  /\ Goto(w, "submit")
  /\ KeepTracking
  /\ UNCHANGED <<turns, driverVars, result, sharedVars>>

\* The intent is recorded durably before Send can be clicked.
GateOpens(w) ==
  /\ pc[w] = "gate"
  /\ ~cancelled[w]
  /\ Write(w, IF Resumed(w) THEN <<>> ELSE <<"Submitting">>, "submit")
  /\ KeepTracking
  /\ UNCHANGED <<turns, driverVars, result, sharedVars>>

\* begin_submission, then the one call that is never repeated or raced.
AskSubmit(w) ==
  /\ Ask(w, "submit", "Submit", "submitting")
  /\ tracker' = [tracker EXCEPT ![w] = "Submitting"]
  /\ UNCHANGED <<synced, retries, cancelled, evidence>>

\* Observation starts from the state the row has.
SubmitAnswered(w) ==
  /\ Told(w, "submitting", "ok")
  /\ Goto(w, "observe")
  /\ synced' = [synced EXCEPT ![w] = IF Resumed(w) THEN @ ELSE "Submitting"]
  /\ UNCHANGED <<turns, result, tracker, retries, cancelled, evidence, sharedVars>>

\* 60 seconds, or any error: the outcome of Send is unknown.
SubmitUnanswered(w) ==
  /\ Untold(w, "submit", "submitting")
  /\ Write(w, <<"SubmissionUncertain">>, "stop")
  /\ Returning(w, "E_SUBMISSION_UNCERTAIN")
  /\ tracker' = [tracker EXCEPT ![w] = "Submitting"]
  /\ UNCHANGED <<turns, synced, retries, cancelled, evidence, sharedVars>>
-----------------------------------------------------------------------------
(* Following the answer. *)

\* TurnTracker::cancel and ::fail: before the message was acknowledged the
\* fate of Send is not known.
AfterCancel(t) == IF t = "Submitting" THEN "SubmissionUncertain" ELSE "Cancelled"
AfterFail(t) == IF t = "Submitting" THEN "SubmissionUncertain" ELSE "Failed"

\* TurnTracker::observe on a tracker that has not ended: the state after
\* reading `seen`, or the terminal state of a tracker that rejects it.
Track(t, seen) ==
  LET acknowledged == IF t = "Submitting" THEN "Submitted" ELSE t
      answering == IF acknowledged = "Submitted" THEN "Generating" ELSE acknowledged
  IN CASE seen = "silent"       -> t
       [] seen = "ambiguous"    -> AfterFail(t)
       [] seen = "acknowledged" -> acknowledged
       [] seen \in {"failed", "unattributed"} -> AfterFail(acknowledged)
       [] seen = "generating"   -> answering
       [] seen = "fenced"       -> AfterFail(answering)
       [] seen = "completed"    -> "Completed"

Rejected(t) == t \in {"Failed", "SubmissionUncertain"}

\* What the reading proves about the page it came from.
Proves(old, t, seen) ==
  CASE seen \in {"failed", "completed"} -> seen
    [] seen \notin {"failed", "completed"} ->
         IF old = "none" /\ t \notin {"Submitting", "SubmissionUncertain"}
         THEN "acknowledged" ELSE old

\* The ledger states between what the row has and what the tracker has.
CatchUp(have, t) ==
  (IF have = "Submitting" /\ t # "Submitting" THEN <<"Submitted">> ELSE <<>>)
  \o (IF have \in {"Submitting", "Submitted"} /\ t \in {"Generating", "Completed"}
      THEN <<"Generating">> ELSE <<>>)

AskObserve(w) == ~cancelled[w] /\ Ask(w, "observe", "Observe", "observing") /\ KeepTracking

\* Mutant: the tracker refuses to be cancelled before the acknowledgement.
ObserveCancelledOnceAcknowledged(w) ==
  /\ pc[w] \in {"observe", "observing"}
  /\ cancelled[w] /\ tracker[w] # "Submitting"
  /\ Hangup(w, {})
  /\ tracker' = [tracker EXCEPT ![w] = AfterCancel(@)]
  /\ Write(w, <<AfterCancel(tracker[w])>>, "stop")
  /\ Returning(w, "E_CANCELLED")
  /\ UNCHANGED <<turns, synced, retries, cancelled, evidence, sharedVars>>

\* The select is biased: a cancelled turn never takes another observation.
ObserveCancelled(w) ==
  /\ pc[w] \in {"observe", "observing"}
  /\ cancelled[w]
  /\ Hangup(w, {})
  /\ tracker' = [tracker EXCEPT ![w] = AfterCancel(@)]
  /\ Write(w, <<AfterCancel(tracker[w])>>, "stop")
  /\ Returning(w, "E_CANCELLED")
  /\ UNCHANGED <<turns, synced, retries, cancelled, evidence, sharedVars>>

\* A read that timed out proves nothing; the same page is read again.
ObserveSlow(w) ==
  /\ ~cancelled[w]
  /\ Told(w, "observing", "slow")
  /\ Goto(w, "observe")
  /\ KeepTracking
  /\ UNCHANGED <<turns, result, sharedVars>>

ObserveFails(w) ==
  /\ ~cancelled[w]
  /\ pc[w] = "observe" \/ (pc[w] = "observing" /\ reply[w] = "err")
  /\ Hangup(w, {})
  /\ tracker' = [tracker EXCEPT ![w] = AfterFail(@)]
  /\ Write(w, <<AfterFail(tracker[w])>>, "stop")
  /\ Returning(w, "E_BROWSER")
  /\ UNCHANGED <<turns, synced, retries, cancelled, evidence, sharedVars>>

\* Mutant: every rejected reading is retried like an explicit failure.
ObserveRejectsRetrying(w) ==
  /\ ~cancelled[w]
  /\ \E seen \in Observations :
       LET t == Track(tracker[w], seen)
           first == IF synced[w] = "Submitting" /\ t = "Failed" THEN <<"Submitted">> ELSE <<>>
       IN /\ Told(w, "observing", seen)
          /\ Rejected(t)
          /\ tracker' = [tracker EXCEPT ![w] = t]
          /\ evidence' = [evidence EXCEPT ![PageOf(w)] = Proves(@, t, seen)]
          /\ IF retries[w] < MaxRetries THEN Write(w, first, "release")
             ELSE Write(w, Append(first, t), "stop")
          /\ Returning(w, "E_CHATGPT_THINKING_FAILED")
  /\ UNCHANGED <<turns, synced, retries, cancelled, sharedVars>>

\* A reading the tracker rejects.  An explicit failure that may be retried
\* leaves the row as it is, without a terminal state.
ObserveRejects(w) ==
  /\ ~cancelled[w]
  /\ \E seen \in Observations :
       LET t == Track(tracker[w], seen)
           first == IF synced[w] = "Submitting" /\ t = "Failed" THEN <<"Submitted">> ELSE <<>>
           retry == seen = "failed" /\ retries[w] < MaxRetries
       IN /\ Told(w, "observing", seen)
          /\ Rejected(t)
          /\ tracker' = [tracker EXCEPT ![w] = t]
          /\ evidence' = [evidence EXCEPT ![PageOf(w)] = Proves(@, t, seen)]
          /\ IF retry THEN Write(w, first, "release")
                      ELSE Write(w, Append(first, t), "stop")
          /\ Returning(w, IF seen = "failed" THEN "E_CHATGPT_THINKING_FAILED"
                                             ELSE "E_OBSERVATION")
  /\ UNCHANGED <<turns, synced, retries, cancelled, sharedVars>>

\* A reading the tracker accepts: the row catches up, then a finished answer
\* is verified and delivered, and a new public summary is verified and sent.
ObserveAccepts(w) ==
  /\ ~cancelled[w]
  /\ \E seen \in Observations, news \in BOOLEAN :
       LET t == Track(tracker[w], seen)
           writes == CatchUp(synced[w], t)
       IN /\ Told(w, "observing", seen)
          /\ ~Rejected(t)
          /\ tracker' = [tracker EXCEPT ![w] = t]
          /\ evidence' = [evidence EXCEPT ![PageOf(w)] = Proves(@, t, seen)]
          /\ synced' = [synced EXCEPT ![w] = IF writes = <<>> THEN @ ELSE writes[Len(writes)]]
          /\ news => t = "Generating"
          /\ Write(w, writes, IF t = "Completed" \/ news THEN "verify" ELSE "observe")
  /\ UNCHANGED <<turns, result, retries, cancelled, sharedVars>>

AskVerify(w) == Ask(w, "verify", "Verify", "verifying") /\ KeepTracking

\* The public summary was verified; sending it may still fail.
Publish(w) ==
  /\ tracker[w] = "Generating"
  /\ Told(w, "verifying", "ok")
  /\ \/ Goto(w, "observe") /\ UNCHANGED result
     \/ Write(w, <<"Failed">>, "stop") /\ Returning(w, "E_BROWSER")
  /\ KeepTracking
  /\ UNCHANGED <<turns, sharedVars>>

\* The answer was verified: it is validated, encoded, recorded and delivered.
Complete(w) ==
  /\ tracker[w] = "Completed"
  /\ Told(w, "verifying", "ok")
  /\ \/ Write(w, <<"Completed">>, "release") /\ Returning(w, "delivered")
     \/ Write(w, <<"Failed">>, "release") /\ Returning(w, "E_OUTPUT")
  /\ KeepTracking
  /\ UNCHANGED <<turns, sharedVars>>

\* The check failed, took 60 seconds, or lost the race with a cancellation.
VerifyUnanswered(w) ==
  /\ Untold(w, "verify", "verifying")
  /\ \E outcome \in IF cancelled[w] THEN {"Cancelled", "Failed"} ELSE {"Failed"} :
       /\ Write(w, <<outcome>>, IF tracker[w] = "Completed" THEN "release" ELSE "stop")
       /\ Returning(w, IF outcome = "Cancelled" THEN "E_CANCELLED" ELSE "E_SESSION_SCOPE")
  /\ KeepTracking
  /\ UNCHANGED <<turns, sharedVars>>
-----------------------------------------------------------------------------
(* Stopping, releasing, retrying, returning. *)

AskStop(w) == Ask(w, "stop", "Stop", "stopping") /\ KeepTracking

\* Two seconds for the answer, whatever it is.
StopEnds(w) ==
  /\ Untold(w, "stop", "stopping")
  /\ Goto(w, "release")
  /\ KeepTracking
  /\ UNCHANGED <<turns, result, sharedVars>>

AskRelease(w) == Ask(w, "release", "Release", "releasing") /\ KeepTracking

\* Mutant: one retry too many.
RetriesOnceMore(w) ==
  result[w] = "E_CHATGPT_THINKING_FAILED" /\ retries[w] <= MaxRetries

\* An explicit failure with retries left.
Retries(w) == result[w] = "E_CHATGPT_THINKING_FAILED" /\ retries[w] < MaxRetries

Released(w) ==
  /\ Told(w, "releasing", "ok")
  /\ Goto(w, IF Retries(w) THEN "readmit" ELSE "finish")
  /\ KeepTracking
  /\ UNCHANGED <<turns, result, sharedVars>>

\* Mutant: the row is forgotten when cleanup is not confirmed.
NotReleasedForgetting(w) ==
  /\ pc[w] \in {"release", "releasing"}
  /\ Hangup(w, IF pc[w] = "release" THEN {PageOf(w)} ELSE {})
  /\ Goto(w, "finish")
  /\ KeepTracking
  /\ UNCHANGED <<turns, result, sharedVars>>

\* The release was refused by the full channel (then the page is never closed),
\* failed, or took 60 seconds: there is no further attempt.
NotReleased(w) ==
  /\ pc[w] \in {"release", "releasing"}
  /\ Hangup(w, IF pc[w] = "release" THEN {PageOf(w)} ELSE {})
  /\ IF Retries(w)
     THEN Write(w, <<"Failed">>, "finish") /\ Returning(w, "E_WEB_CLEANUP_UNCONFIRMED")
     ELSE Goto(w, "finish") /\ UNCHANGED result
  /\ KeepTracking
  /\ UNCHANGED <<turns, sharedVars>>

\* The same request is looked up again; its row must still be open.
Readmit(w) ==
  /\ pc[w] = "readmit"
  /\ LET state == turns[Req[w]].state IN
     IF \/ Conflicts(Req[w], SessionOf[w], Input[w])
        \/ state \notin {"Submitted", "Generating"}
     THEN /\ Goto(w, "finish")
          /\ Returning(w, "E_TURN_STATE")
          /\ UNCHANGED <<synced, retries>>
     ELSE /\ synced' = [synced EXCEPT ![w] = state]
          /\ IF cancelled[w]
             THEN /\ Write(w, <<"Cancelled">>, "finish")
                  /\ Returning(w, "E_CANCELLED")
                  /\ UNCHANGED retries
             ELSE /\ retries' = [retries EXCEPT ![w] = @ + 1]
                  /\ Goto(w, "backoff")
                  /\ UNCHANGED result
  /\ UNCHANGED <<turns, driverVars, tracker, cancelled, evidence, sharedVars>>

\* The pause before the next attempt, raced with the cancellation.
BackoffEnds(w) ==
  /\ pc[w] = "backoff"
  /\ Goto(w, "prepare")
  /\ KeepTracking
  /\ UNCHANGED <<turns, driverVars, result, sharedVars>>

BackoffCancelled(w) ==
  /\ pc[w] = "backoff"
  /\ cancelled[w]
  /\ Write(w, <<"Cancelled">>, "finish")
  /\ Returning(w, "E_CANCELLED")
  /\ KeepTracking
  /\ UNCHANGED <<turns, driverVars, sharedVars>>

\* `cache`: the oldest delivery makes room for a new one.
Remember(r) ==
  LET all == Append(replay, r)
  IN IF r \in Oversized THEN replay
     ELSE IF Len(all) > ReplayLimit THEN Tail(all) ELSE all

\* The locals of workers that end.
Forget(ended) ==
  /\ tracker' = [w \in Workers |-> IF w \in ended THEN "Prepared" ELSE tracker[w]]
  /\ synced' = [w \in Workers |-> IF w \in ended THEN "Prepared" ELSE synced[w]]
  /\ retries' = [w \in Workers |-> IF w \in ended THEN 0 ELSE retries[w]]

\* The worker returns and its generation lease is dropped.
Finish(w) ==
  /\ pc[w] = "finish"
  /\ Goto(w, "done")
  /\ holder' = NoWorker
  /\ replay' = IF result[w] = "delivered" THEN Remember(Req[w]) ELSE replay
  /\ Forget({w})
  /\ UNCHANGED <<turns, driverVars, result, cancelled, evidence, owner, restarts>>

\* The process ends and starts again: the ledger is reopened as it is (nothing
\* calls `recover`), everything in memory is new.
Restart ==
  /\ restarts < MaxRestarts
  /\ restarts' = restarts + 1
  /\ DriverGone
  /\ pc' = [w \in Workers |-> IF pc[w] \in {"idle", "done"} THEN pc[w] ELSE "dead"]
  /\ plan' = [w \in Workers |-> <<>>]
  /\ after' = [w \in Workers |-> "idle"]
  /\ Forget(Workers)
  /\ holder' = NoWorker
  /\ replay' = <<>>
  /\ UNCHANGED <<turns, result, cancelled, evidence, owner>>
-----------------------------------------------------------------------------
\* What a worker does on its own once it has been started.
Step(w) ==
  \/ Acquire(w) \/ Refused(w) \/ AdmitNew(w) \/ AdmitDuplicate(w) \/ AdmitFails(w)
  \/ WriteTurn(w) \/ WriteFails(w)
  \/ AskPrepare(w) \/ PrepareAnswered(w) \/ PrepareUnanswered(w)
  \/ RejectPage(w) \/ AcceptPage(w) \/ GateCloses(w) \/ GateOpens(w)
  \/ AskSubmit(w) \/ SubmitAnswered(w) \/ SubmitUnanswered(w)
  \/ AskObserve(w) \/ ObserveCancelled(w) \/ ObserveSlow(w) \/ ObserveFails(w)
  \/ ObserveRejects(w) \/ ObserveAccepts(w)
  \/ AskVerify(w) \/ Publish(w) \/ Complete(w) \/ VerifyUnanswered(w)
  \/ AskStop(w) \/ StopEnds(w)
  \/ AskRelease(w) \/ Released(w) \/ NotReleased(w)
  \/ Readmit(w) \/ BackoffEnds(w) \/ BackoffCancelled(w) \/ Finish(w)

OwnerThread == DriverStep /\ UNCHANGED <<turns, turnVars, sharedVars, evidence>>

Next ==
  \/ \E w \in Workers : Execute(w) \/ Cancel(w) \/ Step(w)
  \/ OwnerThread
  \/ Restart

Spec == Init /\ [][Next]_vars
=============================================================================
