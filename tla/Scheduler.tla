------------------------------ MODULE Scheduler ------------------------------
(***************************************************************************)
(* Turn admission, crates/runtime/src/scheduler.rs.  A turn takes an       *)
(* admission permit (at most Active + Queued exist), inserts its session   *)
(* into the set of busy sessions, and waits in FIFO order for one of the   *)
(* Active generation permits.                                              *)
(*                                                                         *)
(* The three resources are freed one after another by Drop, in the order   *)
(* the code declares them, and other turns run between those drops:        *)
(*  - a finished turn frees its generation permit, then its admission      *)
(*    permit, then its session (field order of GenerationLease);           *)
(*  - a turn that gives up waiting frees its session, then its admission   *)
(*    permit (locals of `acquire`, in reverse).                            *)
(* The phase of a turn says what it holds.                                 *)
(***************************************************************************)
EXTENDS Naturals, Sequences, SequencesExt, FiniteSets

CONSTANTS Workers,     \* concurrent calls of `acquire`
          SessionOf,   \* the session of each worker
          Active,      \* generation permits (1 in the code)
          Queued       \* further admission permits (8 in the code)

ASSUME SchedulerAssumption == Active \in Nat \ {0} /\ Queued \in Nat

VARIABLES phase,      \* what each worker holds
          sessions,   \* the shared set of busy sessions
          waiters,    \* the queue of the generation semaphore
          wantsOut    \* workers whose cancellation token has fired

schedulerVars == <<phase, sessions, waiters, wantsOut>>

Phases == {"idle", "permitted", "waiting", "running", "returning",
           "closing", "abandoning", "withdrawn"}

\* Phases in which a worker holds each resource.
Generating == {w \in Workers : phase[w] = "running"}
Permitted == {w \in Workers : phase[w] \in
                {"permitted", "waiting", "running", "returning", "abandoning", "withdrawn"}}
InSession == {w \in Workers : phase[w] \in
                {"waiting", "running", "returning", "closing", "abandoning"}}

SchedulerTypeOK ==
  /\ phase \in [Workers -> Phases]
  /\ sessions \subseteq {SessionOf[w] : w \in Workers}
  /\ waiters \in Seq(Workers)
  /\ wantsOut \subseteq Workers

SchedulerInit ==
  /\ phase = [w \in Workers |-> "idle"]
  /\ sessions = {}
  /\ waiters = <<>>
  /\ wantsOut = {}

Goto(w, p) == phase' = [phase EXCEPT ![w] = p]

\* The caller's token fires: a disconnected client or a shutdown.
Cancel(w) ==
  /\ phase[w] # "idle"
  /\ wantsOut' = wantsOut \cup {w}
  /\ UNCHANGED <<phase, sessions, waiters>>

\* try_acquire_owned on the admission semaphore; without a free permit the
\* call returns E_QUEUE_FULL and nothing changes.
TakePermit(w) ==
  /\ phase[w] = "idle"
  /\ Cardinality(Permitted) < Active + Queued
  /\ Goto(w, "permitted")
  /\ UNCHANGED <<sessions, waiters, wantsOut>>

\* E_SESSION_BUSY: the permit is dropped again.
RefuseSession(w) ==
  /\ phase[w] = "permitted"
  /\ SessionOf[w] \in sessions
  /\ Goto(w, "idle")
  /\ wantsOut' = wantsOut \ {w}
  /\ UNCHANGED <<sessions, waiters>>

\* Mutant: the insertion result is ignored.
EnterSessionUnchecked(w) ==
  /\ phase[w] = "permitted"
  /\ sessions' = sessions \cup {SessionOf[w]}
  /\ Goto(w, "waiting")
  /\ waiters' = Append(waiters, w)
  /\ UNCHANGED wantsOut

\* The session is inserted and the call queues for a generation permit.
EnterSession(w) ==
  /\ phase[w] = "permitted"
  /\ SessionOf[w] \notin sessions
  /\ sessions' = sessions \cup {SessionOf[w]}
  /\ Goto(w, "waiting")
  /\ waiters' = Append(waiters, w)
  /\ UNCHANGED wantsOut

\* Mutant: any waiter may take the free permit.
AcquireUnordered(w) ==
  /\ phase[w] = "waiting"
  /\ w \notin wantsOut
  /\ Cardinality(Generating) < Active
  /\ \E k \in DOMAIN waiters : waiters[k] = w /\ waiters' = RemoveAt(waiters, k)
  /\ Goto(w, "running")
  /\ UNCHANGED <<sessions, wantsOut>>

\* Mutant: one permit too many.
AcquireOverbooked(w) ==
  /\ phase[w] = "waiting"
  /\ w \notin wantsOut
  /\ waiters # <<>> /\ w = Head(waiters)
  /\ Cardinality(Generating) <= Active
  /\ waiters' = Tail(waiters)
  /\ Goto(w, "running")
  /\ UNCHANGED <<sessions, wantsOut>>

\* The semaphore is fair: a free permit goes to the oldest waiter.  The
\* select is biased, so a call whose token has fired never takes it.
Acquire(w) ==
  /\ phase[w] = "waiting"
  /\ w \notin wantsOut
  /\ waiters # <<>> /\ w = Head(waiters)
  /\ Cardinality(Generating) < Active
  /\ waiters' = Tail(waiters)
  /\ Goto(w, "running")
  /\ UNCHANGED <<sessions, wantsOut>>

\* E_CANCELLED, E_QUEUE_TIMEOUT, or the acquire future itself is dropped.
GiveUp(w) ==
  /\ phase[w] = "waiting"
  /\ \E k \in DOMAIN waiters : waiters[k] = w /\ waiters' = RemoveAt(waiters, k)
  /\ Goto(w, "abandoning")
  /\ UNCHANGED <<sessions, wantsOut>>

\* The turn is over: GenerationLease is dropped, its first field first.
FinishTurn(w) ==
  /\ phase[w] = "running"
  /\ Goto(w, "returning")
  /\ UNCHANGED <<sessions, waiters, wantsOut>>

\* The admission permit of a finished turn.
DropPermit(w) ==
  /\ phase[w] = "returning"
  /\ Goto(w, "closing")
  /\ UNCHANGED <<sessions, waiters, wantsOut>>

\* Mutant: only a finished turn removes its session.
LeaveSessionOnlyWhenFinished(w) ==
  \/ /\ phase[w] = "closing"
     /\ sessions' = sessions \ {SessionOf[w]}
     /\ Goto(w, "idle")
     /\ wantsOut' = wantsOut \ {w}
     /\ UNCHANGED waiters
  \/ /\ phase[w] = "abandoning"
     /\ Goto(w, "withdrawn")
     /\ UNCHANGED <<sessions, waiters, wantsOut>>

\* SessionLease::drop, last for a finished turn, first for an abandoned one.
LeaveSession(w) ==
  /\ sessions' = sessions \ {SessionOf[w]}
  /\ UNCHANGED waiters
  /\ \/ phase[w] = "closing" /\ Goto(w, "idle") /\ wantsOut' = wantsOut \ {w}
     \/ phase[w] = "abandoning" /\ Goto(w, "withdrawn") /\ UNCHANGED wantsOut

\* The admission permit of an abandoned call.
WithdrawPermit(w) ==
  /\ phase[w] = "withdrawn"
  /\ Goto(w, "idle")
  /\ wantsOut' = wantsOut \ {w}
  /\ UNCHANGED <<sessions, waiters>>

\* A pending cancellation is always noticed by the select.
NoticeCancel(w) == w \in wantsOut /\ GiveUp(w)

\* What a worker does without the caller or the turn deciding anything.
Proceed(w) ==
  \/ RefuseSession(w) \/ EnterSession(w) \/ Acquire(w)
  \/ DropPermit(w) \/ LeaveSession(w) \/ WithdrawPermit(w) \/ NoticeCancel(w)

SchedulerNext ==
  \E w \in Workers : Proceed(w) \/ TakePermit(w) \/ GiveUp(w) \/ FinishTurn(w) \/ Cancel(w)

SchedulerSpec == SchedulerInit /\ [][SchedulerNext]_schedulerVars

\* Permits and locks are handed on and dropped without further conditions, and
\* the runtime polls every woken task.
FairSchedulerSpec == SchedulerSpec /\ \A w \in Workers : WF_schedulerVars(Proceed(w))
-----------------------------------------------------------------------------
\* Two calls of one session are never both past the session check, whichever
\* of their drops are still outstanding: the page of a session has one user.
SessionExclusive ==
  \A v, w \in InSession : SessionOf[v] = SessionOf[w] => v = w

\* No busy session outlives the call that entered it (it would refuse that
\* session for ever), and none is freed while its call still counts on it.
NoLeakedSession == sessions = {SessionOf[w] : w \in InSession}

\* Each busy session is that of exactly one call, and no other is busy.
OneCallPerSession == SessionExclusive /\ NoLeakedSession

\* The scheduler implements the lease the coordinator relies on.
Lease == INSTANCE TurnLease WITH holders <- Generating
ImplementsLease == Lease!Spec

\* If every running turn eventually ends, every queued call eventually leaves
\* the queue: no stream of later calls can starve it.
NoStarvation ==
  (\A v \in Workers : []<>(phase[v] # "running"))
    => \A w \in Workers : (phase[w] = "waiting" ~> phase[w] # "waiting")
=============================================================================
