---------------------------- MODULE ControlService ----------------------------
(***************************************************************************)
(* The private control protocol: crates/runtime/src/control_protocol.rs    *)
(* (Service and exchange), the pipe it is served on (control_pipe.rs), and *)
(* its two kinds of callers, the desktop (remote_control.rs) and the       *)
(* commands for an installed runtime (installed_control.rs).               *)
(*                                                                         *)
(* A caller draws a fresh operation id, so an operation is named here by   *)
(* its caller.  An exchange that times out may have been admitted or not;  *)
(* the caller then asks for the receipt of the same id.  Admitted work     *)
(* goes on whether or not anybody still listens.                           *)
(*                                                                         *)
(* Activation and the browser commands other than a reset are one kind,    *)
(* "connect"; the two recovery commands and the idle disconnect are        *)
(* "recover"; the three qualifications are "qualify".                      *)
(***************************************************************************)
EXTENDS Naturals, Sequences, FiniteSets

CONSTANTS Callers,
          RECEIPTS,   \* receipts that one instance keeps
          MaxStarts   \* how often the service is restarted

ASSUME ControlAssumption == RECEIPTS \in Nat /\ MaxStarts \in Nat

VARIABLES mode,       \* whose service it is: "login" or "lifecycle"
          instance,   \* the running instance
          earlier,    \* how many receipts of earlier callers it keeps
          receipts,   \* per operation: none, running, or its outcome
          work,       \* the worker of an operation: none, running, or what it returned
          cancelled,  \* operations whose cancellation token was cancelled
          queue,      \* connections, in the order the listener accepts them
          call,       \* what each caller does, and what it was told in the end
          qualified,  \* the browser's test still counts
          cached,     \* ... according to the cached status
          ran         \* history: how often an operation was started, how it ended

controlVars ==
  <<mode, instance, earlier, receipts, work, cancelled, queue, call, qualified, cached, ran>>

LoginKinds == {"connect", "reset", "native"}
LifecycleKinds == {"disconnect", "recover", "qualify"}
Kinds == LoginKinds \cup LifecycleKinds
Outcomes == {"completed", "active", "failed"}

Connection == [caller: Callers, type: {"start", "ask", "cancel"}, live: BOOLEAN]

Call == [pc: {"idle", "send", "waiting", "ask", "resend", "done"}, kind: Kinds,
         inst: 0..MaxStarts,
         told: Outcomes \cup {"nothing", "busy", "unconfirmed", "changed", "protocol", "timeout"}]

ControlTypeOK ==
  /\ mode \in {"login", "lifecycle"}
  /\ instance \in 0..MaxStarts
  /\ earlier \in 0..RECEIPTS
  /\ receipts \in [Callers -> Outcomes \cup {"none", "running"}]
  /\ work \in [Callers -> Outcomes \cup {"none", "running"}]
  /\ cancelled \subseteq Callers
  /\ queue \in Seq(Connection) /\ Len(queue) <= 2
  /\ call \in [Callers -> Call]
  /\ qualified \in BOOLEAN /\ cached \in BOOLEAN
  /\ ran \in [started: [Callers -> Nat], ended: [Callers -> SUBSET Outcomes], panic: BOOLEAN]

ControlInit ==
  /\ mode \in {"login", "lifecycle"}
  /\ instance = 0
  /\ earlier \in 0..RECEIPTS
  /\ receipts = [c \in Callers |-> "none"]
  /\ work = [c \in Callers |-> "none"]
  /\ cancelled = {}
  /\ queue = << >>
  /\ call \in [Callers -> {[pc |-> "idle", kind |-> k, inst |-> 0, told |-> "nothing"] :
                             k \in IF mode = "login" THEN LoginKinds ELSE LifecycleKinds}]
  /\ qualified = FALSE /\ cached = FALSE
  /\ ran = [started |-> [c \in Callers |-> 0], ended |-> [c \in Callers |-> {}], panic |-> FALSE]
-----------------------------------------------------------------------------
(* Callers. *)

\* The caller learns the instance it talks to, with the status or health it shows.
Attach(c) ==
  /\ call[c].pc = "idle"
  /\ call' = [call EXCEPT ![c].pc = "send", ![c].inst = instance]
  /\ UNCHANGED <<mode, instance, earlier, receipts, work, cancelled, queue, qualified, cached, ran>>

\* exchange: two instances of the pipe, one being served and one pending.
Exchange(c) ==
  /\ call[c].pc \in {"send", "resend", "ask"} /\ Len(queue) < 2
  /\ queue' = Append(queue, [caller |-> c, live |-> TRUE,
                             type |-> IF call[c].pc = "ask" THEN "ask" ELSE "start"])
  /\ call' = [call EXCEPT ![c].pc = "waiting"]
  /\ UNCHANGED <<mode, instance, earlier, receipts, work, cancelled, qualified, cached, ran>>

\* A timeout or a broken pipe is an unknown outcome.  The request may still be served.
ExchangeFails(c) ==
  /\ call[c].pc \in {"send", "resend", "ask", "waiting"}
  /\ call' = [call EXCEPT ![c].pc = "ask"]
  /\ queue' = [i \in DOMAIN queue |->
                 IF queue[i].caller = c THEN [queue[i] EXCEPT !.live = FALSE] ELSE queue[i]]
  /\ UNCHANGED <<mode, instance, earlier, receipts, work, cancelled, qualified, cached, ran>>

Deadline(c) ==
  /\ call[c].pc \in {"ask", "resend"}
  /\ call' = [call EXCEPT ![c].pc = "done", ![c].told = "timeout"]
  /\ UNCHANGED <<mode, instance, earlier, receipts, work, cancelled, queue, qualified, cached, ran>>

\* Another window asks to cancel the test that a status showed as running.
CancelNative(c) ==
  /\ mode = "login" /\ receipts[c] = "running" /\ call[c].kind = "native" /\ Len(queue) < 2
  /\ queue' = Append(queue, [caller |-> c, live |-> FALSE, type |-> "cancel"])
  /\ UNCHANGED <<mode, instance, earlier, receipts, work, cancelled, call, qualified, cached, ran>>

\* Only the desktop sends an unknown operation again.
Told(c, reply) ==
  CASE reply = "running" -> [call[c] EXCEPT !.pc = "ask"]
    [] reply = "unknown" /\ mode = "login" -> [call[c] EXCEPT !.pc = "resend"]
    [] reply = "unknown" /\ mode # "login" -> [call[c] EXCEPT !.pc = "done", !.told = "unconfirmed"]
    [] OTHER -> [call[c] EXCEPT !.pc = "done", !.told = reply]
-----------------------------------------------------------------------------
(* The service. *)

\* Only a disconnect may begin beside something that runs, and only beside a
\* qualification.
Busy(c) ==
  \E d \in Callers : receipts[d] = "running"
                     /\ ~(call[c].kind = "disconnect" /\ call[d].kind = "qualify")

\* Service::handle, in its order.
Reply(c, type) ==
  IF call[c].inst # instance THEN "changed"
  ELSE IF receipts[c] # "none" THEN receipts[c]
  ELSE IF type # "start" THEN "unknown"
  ELSE IF Busy(c) THEN "busy"
  ELSE IF earlier + Cardinality({d \in Callers : receipts[d] # "none"}) >= RECEIPTS THEN "protocol"
  ELSE "start"

\* Starting is inserting the receipt and spawning the worker, before the reply.
Handle(c, type, reply) ==
  /\ receipts' = IF reply = "start" THEN [receipts EXCEPT ![c] = "running"] ELSE receipts
  /\ work' = IF reply = "start" THEN [work EXCEPT ![c] = "running"] ELSE work
  /\ ran' = IF reply = "start" THEN [ran EXCEPT !.started[c] = @ + 1] ELSE ran
  /\ cancelled' = IF type = "cancel" /\ reply = "running" THEN cancelled \cup {c} ELSE cancelled

\* Mutant: a handler for every connection, in no order.
ServeAny ==
  \E i \in DOMAIN queue :
    LET m == queue[i]
        reply == Reply(m.caller, m.type)
    IN /\ queue' = [j \in 1..Len(queue) - 1 |-> IF j < i THEN queue[j] ELSE queue[j + 1]]
       /\ Handle(m.caller, m.type, reply)
       /\ \/ UNCHANGED call
          \/ m.live /\ call' = [call EXCEPT ![m.caller] =
                                  Told(m.caller, IF reply = "start" THEN "running" ELSE reply)]
       /\ UNCHANGED <<mode, instance, earlier, qualified, cached>>

\* One exchange after the other; the reply may not arrive.
Serve ==
  /\ queue # << >>
  /\ queue' = Tail(queue)
  /\ LET m == Head(queue)
         reply == Reply(m.caller, m.type)
     IN /\ Handle(m.caller, m.type, reply)
        /\ \/ UNCHANGED call
           \/ m.live /\ call' = [call EXCEPT ![m.caller] =
                                   Told(m.caller, IF reply = "start" THEN "running" ELSE reply)]
  /\ UNCHANGED <<mode, instance, earlier, qualified, cached>>

\* The exchange ends, or the listener fails, before the request is read.
ServeDropped ==
  /\ queue # << >>
  /\ queue' = Tail(queue)
  /\ UNCHANGED <<mode, instance, earlier, receipts, work, cancelled, call, qualified, cached, ran>>

\* Mutant: a failed operation leaves the status as it was.
CachedAsBefore(c, outcome, now) == IF outcome = "completed" THEN now ELSE cached

\* What becomes of the cached status: no failed operation leaves a qualification in it,
\* except a reset that was refused.
CachedAfter(c, outcome, now) == outcome = "completed" /\ now

\* The worker returns, with the status written.  A panic writes none.
Works(c) ==
  /\ work[c] = "running"
  /\ \E outcome \in Outcomes, now \in BOOLEAN :
       /\ outcome = "active" => mode = "lifecycle" /\ call[c].kind # "disconnect"
       /\ outcome = "failed" => (now => qualified)
       /\ work' = [work EXCEPT ![c] = outcome]
       /\ IF mode = "login"
          THEN qualified' = now /\ cached' = CachedAfter(c, outcome, now)
          ELSE UNCHANGED <<qualified, cached>>
       /\ ran' = [ran EXCEPT !.ended[c] = @ \cup {outcome}]
  /\ UNCHANGED <<mode, instance, earlier, receipts, cancelled, queue, call>>

\* A refused reset changes nothing; a panic changes we know not what.
WorkIsRefused(c) ==
  /\ work[c] = "running"
  /\ work' = [work EXCEPT ![c] = "failed"]
  /\ \/ mode = "login" /\ call[c].kind = "reset" /\ UNCHANGED qualified
        /\ ran' = [ran EXCEPT !.ended[c] = @ \cup {"failed"}]
     \/ qualified' \in {qualified, FALSE}
        /\ ran' = [ran EXCEPT !.ended[c] = @ \cup {"failed"}, !.panic = TRUE]
  /\ UNCHANGED <<mode, instance, earlier, receipts, cancelled, queue, call, cached>>

\* Mutant: the receipt says failed when the work takes too long.
ReceiptTimesOut(c) ==
  /\ receipts[c] = "running"
  /\ receipts' = [receipts EXCEPT ![c] = IF work[c] = "running" THEN "failed" ELSE work[c]]
  /\ UNCHANGED <<mode, instance, earlier, work, cancelled, queue, call, qualified, cached, ran>>

\* The worker's outcome becomes the receipt, and stays.
Receipt(c) ==
  /\ receipts[c] = "running" /\ work[c] \in Outcomes
  /\ receipts' = [receipts EXCEPT ![c] = work[c]]
  /\ UNCHANGED <<mode, instance, earlier, work, cancelled, queue, call, qualified, cached, ran>>

\* Mutant: a new process is taken for the old one.
RestartUnseen ==
  /\ instance < MaxStarts
  /\ UNCHANGED instance
  /\ earlier' = 0
  /\ receipts' = [c \in Callers |-> "none"] /\ work' = [c \in Callers |-> "none"]
  /\ queue' = << >> /\ cancelled' = {}
  /\ qualified' = FALSE /\ cached' = FALSE
  /\ UNCHANGED <<mode, call, ran>>

\* A new process has a new instance and knows nothing of the old one's operations.
Restart ==
  /\ instance < MaxStarts
  /\ instance' = instance + 1
  /\ earlier' = 0
  /\ receipts' = [c \in Callers |-> "none"] /\ work' = [c \in Callers |-> "none"]
  /\ queue' = << >> /\ cancelled' = {}
  /\ qualified' = FALSE /\ cached' = FALSE
  /\ UNCHANGED <<mode, call, ran>>

ControlNext ==
  \/ \E c \in Callers : \/ Attach(c) \/ Exchange(c) \/ ExchangeFails(c) \/ Deadline(c)
                        \/ CancelNative(c) \/ Works(c) \/ WorkIsRefused(c) \/ Receipt(c)
  \/ Serve \/ ServeDropped \/ Restart

ControlSpec == ControlInit /\ [][ControlNext]_controlVars
-----------------------------------------------------------------------------
(* Properties. *)

\* An outcome that a caller is told is the one its operation had.
ToldTheTruth ==
  \A c \in Callers : call[c].told \in Outcomes => ran.ended[c] = {call[c].told}

\* However often it is sent, and whatever is lost or restarted, an operation starts at
\* most once; never, before or after, if its caller was refused or told that nobody knows
\* it; and a caller who is told an outcome is told the one it had.
RunsOnceOrRefused ==
  /\ ToldTheTruth
  /\ \A c \in Callers :
       /\ ran.started[c] <= 1
       /\ call[c].told \in {"busy", "unconfirmed"} => ran.started[c] = 0

\* When nothing runs, the status does not show a test that no longer counts.
StatusShowsNoLostTest ==
  cached /\ ~ran.panic /\ (\A c \in Callers : work[c] # "running") => qualified
=============================================================================
