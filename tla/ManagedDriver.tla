---------------------------- MODULE ManagedDriver ----------------------------
(***************************************************************************)
(* The browser owner, crates/runtime/src/managed_driver.rs: one thread that *)
(* takes commands from a bounded channel in order and is the only user of   *)
(* the browser.  A caller waits for its command's one-shot reply and may    *)
(* stop waiting (a timeout or a dropped future); the command stays queued   *)
(* with a closed reply.                                                     *)
(*                                                                          *)
(* This module has the thread's actions on its own state; the module that   *)
(* composes it (Coordinator) supplies the callers.  A worker has at most    *)
(* one open command.  The handle of the page a worker prepares for its      *)
(* attempt k is <<w, k>> (a fresh random number in the code).               *)
(***************************************************************************)
EXTENDS Naturals, Sequences, FiniteSets

CONSTANTS Workers,    \* callers
          SessionOf,  \* the session each caller asks a page for
          MaxRetries, \* explicit-failure retries of one turn (3 in the code)
          MaxLeases,  \* pages the driver keeps (8 in the code)
          Idle        \* the value of `current` while no command runs

Attempts == 0..MaxRetries
Handles == Workers \X Attempts
Owner(h) == h[1]

Ops == {"Prepare", "Submit", "Observe", "Verify", "Stop", "Release"}

\* "Clicked" is a Submit whose click has happened and whose reply has not.
Command == [op : Ops \cup {"Clicked"}, handle : Handles, open : BOOLEAN]

\* What one reading of the page tells the tracker.
Observations == {"silent",        \* no user message of ours yet
                 "ambiguous",     \* ambiguous, wrong model or foreign message
                 "acknowledged",  \* our user message, no answer yet
                 "failed",        \* our user message, answer explicitly failed
                 "unattributed",  \* the answer is not attributable
                 "generating",    \* our answer, still being written
                 "fenced",        \* our answer, finished inside a fence
                 "completed"}     \* our answer, finished
\* "slow" is E_BROWSER_TRANSPORT_TIMEOUT, "err" every other error.
Replies == {"none", "prepared", "ok", "err", "slow"} \cup Observations

ASSUME DriverAssumption ==
  /\ MaxRetries \in Nat
  /\ MaxLeases \in Nat
  /\ Idle \notin Command

VARIABLES queue,    \* commands not yet taken
          current,  \* the command being executed, or Idle
          page,     \* the page behind each handle
          send,     \* how far Send got on it: `attempted` latch and click
          reply,    \* the reply each worker can receive
          leaked    \* history: leased pages that nobody will release any more

driverVars == <<queue, current, page, send, reply, leaked>>

\* "lost": the process that owned the page is gone.
PageState == {"none", "leased", "orphaned", "closed", "lost"}
SendState == {"fresh", "latched", "clicked"}

DriverTypeOK ==
  /\ queue \in Seq(Command)
  /\ current \in Command \cup {Idle}
  /\ page \in [Handles -> PageState]
  /\ send \in [Handles -> SendState]
  /\ reply \in [Workers -> Replies]
  /\ leaked \subseteq Handles

DriverInit ==
  /\ queue = <<>>
  /\ current = Idle
  /\ page = [h \in Handles |-> "none"]
  /\ send = [h \in Handles |-> "fresh"]
  /\ reply = [w \in Workers |-> "none"]
  /\ leaked = {}

Leased == {h \in Handles : page[h] = "leased"}
Orphaned == {h \in Handles : page[h] = "orphaned"}
Clicked == {h \in Handles : send[h] = "clicked"}
-----------------------------------------------------------------------------
(* The callers' side of the channel. *)

\* `request`: try_send accepted.  (It may also be refused, E_BROWSER_BUSY,
\* because other clients filled the 32 slots.)
Request(op, h) ==
  /\ queue' = Append(queue, [op |-> op, handle |-> h, open |-> TRUE])
  /\ UNCHANGED <<current, page, send, reply, leaked>>

\* The worker takes its reply.
Receive(w) ==
  /\ reply' = [reply EXCEPT ![w] = "none"]
  /\ UNCHANGED <<queue, current, page, send, leaked>>

Hush(w, c) == IF c # Idle /\ Owner(c.handle) = w THEN [c EXCEPT !.open = FALSE] ELSE c

\* The worker drops its receiver.  A reply already in the channel is dropped
\* with it; if that was a Prepared, nobody knows the handle any more.
Hangup(w, lost) ==
  /\ queue' = [k \in DOMAIN queue |-> Hush(w, queue[k])]
  /\ current' = Hush(w, current)
  /\ reply' = [reply EXCEPT ![w] = "none"]
  /\ leaked' = leaked \cup lost
  /\ UNCHANGED <<page, send>>
-----------------------------------------------------------------------------
(* The owner thread. *)

\* The command is executed and its reply sent, unless the receiver is gone.
Answer(v) ==
  /\ current' = Idle
  /\ reply' = IF current.open THEN [reply EXCEPT ![Owner(current.handle)] = v] ELSE reply

Executing(op) == current # Idle /\ current.op = op

\* Mutant: the cleanup commands are skipped too.
TakeAwaitedOnly ==
  /\ current = Idle
  /\ queue # <<>>
  /\ queue' = Tail(queue)
  /\ current' = IF Head(queue).open THEN Head(queue) ELSE Idle
  /\ UNCHANGED <<page, send, reply, leaked>>

\* A command nobody waits for is skipped; only the cleanup commands run anyway.
Take ==
  /\ current = Idle
  /\ queue # <<>>
  /\ queue' = Tail(queue)
  /\ current' = IF Head(queue).open \/ Head(queue).op \in {"Stop", "Release"}
                THEN Head(queue) ELSE Idle
  /\ UNCHANGED <<page, send, reply, leaked>>

\* Each Prepare first retries the close of every orphaned page.
Reclaim(closed) == [h \in Handles |-> IF h \in closed THEN "closed" ELSE page[h]]

\* Too many pages, or the session already has one.
NoRoom(pages) ==
  \/ Cardinality({h \in Handles : pages[h] \in {"leased", "orphaned"}}) >= MaxLeases
  \/ \E h \in Handles : pages[h] = "leased"
                          /\ SessionOf[Owner(h)] = SessionOf[Owner(current.handle)]

\* Unknown route or effort, no room, or no temporary chat could be opened.
PrepareRefused ==
  /\ Executing("Prepare")
  /\ \E closed \in SUBSET Orphaned : page' = Reclaim(closed)
  /\ Answer("err")
  /\ UNCHANGED <<queue, send, leaked>>

\* The new page fails the scope, model or baseline check and is closed, or
\* kept as an orphan when it cannot be closed.
PrepareRejected ==
  /\ Executing("Prepare")
  /\ page[current.handle] = "none" \* a fresh handle
  /\ \E closed \in SUBSET Orphaned, end \in {"closed", "orphaned"} :
       /\ ~NoRoom(Reclaim(closed))
       /\ page' = [Reclaim(closed) EXCEPT ![current.handle] = end]
  /\ Answer("err")
  /\ UNCHANGED <<queue, send, leaked>>

\* Mutant: the lease stays although the Prepared could not be delivered.
PrepareSucceedsKeepingLease ==
  /\ Executing("Prepare")
  /\ page[current.handle] = "none"
  /\ \E closed \in SUBSET Orphaned :
       /\ ~NoRoom(Reclaim(closed))
       /\ page' = [Reclaim(closed) EXCEPT ![current.handle] = "leased"]
  /\ Answer("prepared")
  /\ UNCHANGED <<queue, send, leaked>>

\* The page is leased; if the reply cannot be delivered, the lease is removed
\* again and the page closed or orphaned.
PrepareSucceeds ==
  /\ Executing("Prepare")
  /\ page[current.handle] = "none" \* a fresh handle
  /\ \E closed \in SUBSET Orphaned,
        end \in IF current.open THEN {"leased"} ELSE {"closed", "orphaned"} :
       /\ ~NoRoom(Reclaim(closed))
       /\ page' = [Reclaim(closed) EXCEPT ![current.handle] = end]
  /\ Answer("prepared")
  /\ UNCHANGED <<queue, send, leaked>>

\* No such lease, E_SUBMISSION_ALREADY_ATTEMPTED, or the attempt is latched and
\* then the scope, the composer or the model fails before Send is clicked.
SubmitFails ==
  /\ Executing("Submit")
  /\ send' = [send EXCEPT ![current.handle] =
                 IF page[current.handle] = "leased" /\ @ = "fresh" THEN "latched" ELSE @]
  /\ Answer("err")
  /\ UNCHANGED <<queue, page, leaked>>

\* press_send: the click reaches the page.
PressSend ==
  /\ Executing("Submit")
  /\ page[current.handle] = "leased"
  /\ send[current.handle] = "fresh"
  /\ send' = [send EXCEPT ![current.handle] = "clicked"]
  /\ current' = [current EXCEPT !.op = "Clicked"]
  /\ UNCHANGED <<queue, page, reply, leaked>>

\* press_send returns: the click was confirmed, or its readback failed.
SubmitReturns ==
  /\ Executing("Clicked")
  /\ \E v \in {"ok", "err"} : Answer(v)
  /\ UNCHANGED <<queue, page, send, leaked>>

\* One reading of the page.  Only a page whose prompt was sent has a prompt
\* to compare with.
Observe ==
  /\ Executing("Observe")
  /\ \E v \in {"err", "slow"} \cup Observations :
       /\ v \in Observations \cup {"slow"} =>
            page[current.handle] = "leased" /\ send[current.handle] = "clicked"
       /\ Answer(v)
  /\ UNCHANGED <<queue, page, send, leaked>>

\* The account and workspace of the page are checked again.
VerifyCompletion ==
  /\ Executing("Verify")
  /\ \E v \in {"ok", "err"} :
       /\ v = "ok" => page[current.handle] = "leased" /\ send[current.handle] # "fresh"
       /\ Answer(v)
  /\ UNCHANGED <<queue, page, send, leaked>>

\* Stop presses the provider's stop control; the lease stays.
Stop ==
  /\ Executing("Stop")
  /\ \E v \in {"ok", "err"} :
       /\ v = "ok" => page[current.handle] = "leased"
       /\ Answer(v)
  /\ UNCHANGED <<queue, page, send, leaked>>

\* The page is closed and its lease removed; an unknown handle is already
\* released.
Release ==
  /\ Executing("Release")
  /\ page' = [page EXCEPT ![current.handle] = IF @ = "leased" THEN "closed" ELSE @]
  /\ Answer("ok")
  /\ UNCHANGED <<queue, send, leaked>>

\* The page could not be closed: the lease stays, and no one asks again.
ReleaseFails ==
  /\ Executing("Release")
  /\ page[current.handle] = "leased"
  /\ leaked' = leaked \cup {current.handle}
  /\ Answer("err")
  /\ UNCHANGED <<queue, page, send>>

DriverStep ==
  \/ Take
  \/ PrepareRefused \/ PrepareRejected \/ PrepareSucceeds
  \/ SubmitFails \/ PressSend \/ SubmitReturns
  \/ Observe \/ VerifyCompletion \/ Stop
  \/ Release \/ ReleaseFails

\* The process ends: its queue, its replies and its hold on every page go.
DriverGone ==
  /\ queue' = <<>>
  /\ current' = Idle
  /\ page' = [h \in Handles |-> IF page[h] \in {"leased", "orphaned"} THEN "lost" ELSE page[h]]
  /\ reply' = [w \in Workers |-> "none"]
  /\ leaked' = {}
  /\ UNCHANGED send
=============================================================================
