--------------------------- MODULE TurnProperties ---------------------------
(***************************************************************************)
(* What turn execution (Coordinator) must get right.                       *)
(***************************************************************************)
EXTENDS Coordinator

RequestOf(h) == Req[Owner(h)]

\* A worker that the current process still runs.
Running(w) == pc[w] \notin {"idle", "done", "dead"}
-----------------------------------------------------------------------------
\* Of all the calls that present one request, before and after a restart,
\* only one ever clicks Send ("a retry never causes a second browser
\* submission").
OneSenderPerRequest ==
  \A g, h \in Clicked : RequestOf(g) = RequestOf(h) => Owner(g) = Owner(h)

\* Whenever Send may have been clicked the ledger already says so: the row was
\* durably past "ObservedBaseline" first, wherever the process ended since.
IntentBeforeSend ==
  \A h \in Clicked :
    /\ Admitted(RequestOf(h))
    /\ turns[RequestOf(h)].state \notin {"Prepared", "ObservedBaseline"}

\* The records of one turn (ledger row, tracker, the coordinator's own idea of the row,
\* replay cache) agree: they never drift apart so far that the ledger refuses a move or a
\* retry finds its row in a state it cannot resume; "Completed" is recorded only for an
\* answer read complete, and nothing is delivered or kept for replay without that record.
RecordsAgree ==
  /\ \A w \in Workers : result[w] \notin {"E_TURN_TRANSITION", "E_TURN_STATE"}
  /\ \A r \in Requests : Admitted(r) /\ turns[r].state = "Completed" =>
       \E h \in Clicked : RequestOf(h) = r /\ evidence[h] = "completed"
  /\ \A w \in Workers : result[w] \in {"delivered", "replayed"} /\ pc[w] \in {"finish", "done"} =>
       turns[Req[w]].state = "Completed"
  /\ \A k \in DOMAIN replay : turns[replay[k]].state = "Completed"

\* Every page the owner thread keeps leased has someone who will release it: the
\* worker of that attempt, a Release on its way, or it is one of the pages known
\* to be leaked (release refused by a full channel, page that would not close,
\* Prepared lost to a timeout).
ReleasePending(h) ==
  \/ current # Idle /\ current.handle = h /\ current.op = "Release"
  \/ \E k \in DOMAIN queue : queue[k].handle = h /\ queue[k].op = "Release"

EveryLeaseAccounted ==
  \A h \in Leased :
    \/ h \in leaked
    \/ ReleasePending(h)
    \/ Running(Owner(h)) /\ h = PageOf(Owner(h))

\* While the process lives, an open row belongs to a turn still running, unless a
\* ledger write failed, and every leased page has someone to release it: otherwise no
\* one would ever settle the one or close the other.
NoTurnLeftOpen ==
  restarts = 0 =>
    /\ EveryLeaseAccounted
    /\ \A r \in Requests :
         Admitted(r) /\ ~Settled(r) => Running(owner[r]) \/ result[owner[r]] = "E_LEDGER"
-----------------------------------------------------------------------------
(* Refinement: the promise of SubmissionOnce. *)

SentFor(r) == {h \in Clicked : RequestOf(h) = r}
Failures(r) == {h \in SentFor(r) : evidence[h] = "failed"}

Outcome(r) == IF ~Admitted(r) THEN "none" ELSE IF Settled(r) THEN turns[r].state ELSE "open"
Acked(r) == \E h \in SentFor(r) : evidence[h] \in {"acknowledged", "completed"}

Outcomes == [r \in Requests |-> Outcome(r)]
Sends == [r \in Requests |-> Cardinality(SentFor(r))]
Refusals == [r \in Requests |-> Cardinality(Failures(r))]
Acks == [r \in Requests |-> Acked(r)]

Promise == INSTANCE SubmissionOnce WITH
  outcome <- Outcomes, sends <- Sends, refused <- Refusals, acked <- Acks

\* Turn execution implements the promise: at most one unanswered click per
\* request, outcomes recorded once and only when known.
KeepsPromise == Promise!Spec

\* The workers inside a turn use the lease as the scheduler provides it (with one
\* generation permit): a turn is entered only when no other is inside, and left
\* by its own worker or by the end of the process.
InTurn == {w \in Workers : Running(w) /\ pc[w] # "acquire"}
Lease == INSTANCE TurnLease WITH Active <- 1, holders <- InTurn
UsesLease == Lease!Spec
-----------------------------------------------------------------------------
(* Liveness. *)

\* The runtime polls every woken task, and every await of a worker other than
\* a page read is bounded by a timeout; a page read is bounded only by the
\* cancellation.  Nothing is assumed of the browser.
FairTurns == Spec /\ \A w \in Workers : WF_vars(Step(w))

\* A cancelled turn ends and gives its lease back, wherever it was and however
\* the browser behaves (or the process ends).
CancelledTurnEnds ==
  \A w \in Workers : cancelled[w] ~> (pc[w] \in {"done", "dead"} /\ holder # w)

\* A page does not outlive its turn: once the turn is over, its page is closed in the
\* end, unless it is one of the leaked pages, as long as the owner thread keeps running
\* (each of its browser operations is bounded by a transport timeout).
PagesClose ==
  WF_vars(OwnerThread) =>
    \A h \in Handles : (pc[Owner(h)] = "done" /\ page[h] = "leased")
                          ~> (page[h] # "leased" \/ h \in leaked)

\* Nothing of a turn hangs: neither a cancelled turn nor the page of one that is over.
NoTurnHangs == CancelledTurnEnds /\ PagesClose
-----------------------------------------------------------------------------
(* What a comment of the repository says and the code does not do. *)

\* "completed deliveries replay" (web_recovery.rs:254): a repeated call of a
\* completed request after a restart gets the delivery.
CompletedDeliveriesReplay ==
  \A w \in Workers : restarts > 0 => result[w] # "E_REPLAY_UNAVAILABLE"
=============================================================================
