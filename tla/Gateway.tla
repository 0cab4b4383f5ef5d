------------------------------- MODULE Gateway -------------------------------
(***************************************************************************)
(* Admission of web work, crates/runtime/src/gateway.rs (WebAdmission).    *)
(* Whoever does web work holds a lease: a generation ("turn"), a catalog   *)
(* or warmup request ("light"), a recovery of the provider ("recovery") or *)
(* an exclusive maintenance operation ("maintenance").  Disconnecting      *)
(* closes admission, cancels the work and waits for the last lease.        *)
(*                                                                         *)
(* Every step that takes the state mutex is one action; between two of     *)
(* them any other holder or drain may take it.  `work` says how far a      *)
(* holder is:                                                              *)
(*   "working"    it does its web work                                     *)
(*   "unclean"    the work returned an error that the gateway has to       *)
(*                record, and has not recorded yet                         *)
(*   "recorded"   it has                                                   *)
(*   "lifted"     between the two halves of dropping a maintenance lease   *)
(*   "panicking"  the thread unwinds                                       *)
(***************************************************************************)
EXTENDS Naturals, FiniteSets

CONSTANTS Actors,   \* whoever may hold a lease
          Drains    \* callers of `disconnect_web`

ASSUME GatewayAssumption == IsFiniteSet(Actors)

VARIABLES accepting,     \* new work is admitted
          maintenance,   \* an exclusive operation is under way
          active,        \* leases not yet dropped
          activeTurns,   \* those of generations and maintenance
          cleanupFailed, \* some cleanup is not confirmed
          cutOff,        \* the cancellation token all work inherits
          lease,         \* the lease each actor holds
          work,          \* how far its work is
          drain,         \* where each drain is
          spoilt         \* history: some work ended without its cleanup

admissionVars == <<accepting, maintenance, active, activeTurns, cleanupFailed>>
holderVars == <<lease, work>>
gatewayVars == <<admissionVars, cutOff, holderVars, drain, spoilt>>

LeaseKinds == {"light", "turn", "recovery", "maintenance"}
WorkStages == {"working", "unclean", "recorded", "lifted", "panicking"}
DrainPhases == {"off", "closing", "closed", "idleclosing", "idleclosed", "looping",
                "armed", "signalled", "asleep", "drained", "failed", "timedout"}
Ended == {"off", "drained", "failed", "timedout"}

Holding == {a \in Actors : lease[a] # "none"}
\* The leases counted as turns (the flag of a WebLease).
Turning == {a \in Actors : lease[a] \in {"turn", "maintenance"}}

GatewayTypeOK ==
  /\ accepting \in BOOLEAN
  /\ maintenance \in BOOLEAN
  /\ active \in Nat
  /\ activeTurns \in Nat
  /\ cleanupFailed \in BOOLEAN
  /\ cutOff \in BOOLEAN
  /\ lease \in [Actors -> LeaseKinds \cup {"none"}]
  /\ work \in [Actors -> WorkStages]
  /\ drain \in [Drains -> DrainPhases]
  /\ spoilt \in BOOLEAN

\* `open` is FALSE for a listener that only forwards native traffic.
GatewayInit(open) ==
  /\ accepting = open
  /\ maintenance = FALSE
  /\ active = 0
  /\ activeTurns = 0
  /\ cleanupFailed = FALSE
  /\ cutOff = ~open
  /\ lease = [a \in Actors |-> "none"]
  /\ work = [a \in Actors |-> "working"]
  /\ drain = [d \in Drains |-> "off"]
  /\ spoilt = FALSE
-----------------------------------------------------------------------------
(* Leases. *)

\* A request that is turned away changes nothing.
Acquire(a, kind) ==
  /\ lease[a] = "none"
  /\ accepting /\ ~maintenance
  /\ lease' = [lease EXCEPT ![a] = kind]
  /\ active' = active + 1
  /\ activeTurns' = IF kind = "turn" THEN activeTurns + 1 ELSE activeTurns
  /\ UNCHANGED <<accepting, maintenance, cleanupFailed, cutOff, work, drain, spoilt>>

\* Mutant: maintenance waits for generations only.
BeginMaintenanceBesideLight(a) ==
  /\ lease[a] = "none"
  /\ accepting /\ ~cleanupFailed /\ ~maintenance /\ activeTurns = 0
  /\ lease' = [lease EXCEPT ![a] = "maintenance"]
  /\ maintenance' = TRUE
  /\ active' = active + 1
  /\ activeTurns' = activeTurns + 1
  /\ UNCHANGED <<accepting, cleanupFailed, cutOff, work, drain, spoilt>>

\* maintain_web; otherwise it returns E_WEB_ACTIVE.
BeginMaintenance(a) ==
  /\ lease[a] = "none"
  /\ accepting /\ ~cleanupFailed /\ ~maintenance /\ active = 0
  /\ lease' = [lease EXCEPT ![a] = "maintenance"]
  /\ maintenance' = TRUE
  /\ active' = active + 1
  /\ activeTurns' = activeTurns + 1
  /\ UNCHANGED <<accepting, cleanupFailed, cutOff, work, drain, spoilt>>

\* The work returns an error that must be recorded: any error of recover_web,
\* E_WEB_CLEANUP_UNCONFIRMED of maintain_web.
WorkFails(a) ==
  /\ lease[a] \in {"recovery", "maintenance"} /\ work[a] = "working"
  /\ work' = [work EXCEPT ![a] = "unclean"]
  /\ spoilt' = TRUE
  /\ UNCHANGED <<admissionVars, cutOff, lease, drain>>

\* After an unclean maintenance nothing is admitted; after an unclean recovery
\* only the drain learns of it.
RecordFailure(a) ==
  /\ work[a] = "unclean"
  /\ cleanupFailed' = TRUE
  /\ accepting' = (accepting /\ lease[a] = "recovery")
  /\ work' = [work EXCEPT ![a] = "recorded"]
  /\ UNCHANGED <<maintenance, active, activeTurns, cutOff, lease, drain, spoilt>>

Panic(a) ==
  /\ lease[a] # "none" /\ work[a] = "working"
  /\ work' = [work EXCEPT ![a] = "panicking"]
  /\ spoilt' = TRUE
  /\ UNCHANGED <<admissionVars, cutOff, lease, drain>>

\* MaintenanceLease::drop admits others before its WebLease is dropped.
LiftMaintenance(a) ==
  /\ lease[a] = "maintenance" /\ work[a] \in {"working", "recorded"}
  /\ work' = [work EXCEPT ![a] = "lifted"]
  /\ maintenance' = FALSE
  /\ UNCHANGED <<accepting, active, activeTurns, cleanupFailed, cutOff, lease, drain, spoilt>>

\* notify_waiters reaches the drains that have enabled their notification.
Notified == [d \in Drains |->
  CASE drain[d] = "armed"  -> "signalled"
    [] drain[d] = "asleep" -> "looping"
    [] drain[d] \notin {"armed", "asleep"} -> drain[d]]

\* Mutant: only the end of a generation or of maintenance wakes the drains.
DiscountWakingForTurns(a) ==
  /\ active' = active - 1
  /\ activeTurns' = IF a \in Turning THEN activeTurns - 1 ELSE activeTurns
  /\ lease' = [lease EXCEPT ![a] = "none"]
  /\ work' = [work EXCEPT ![a] = "working"]
  /\ drain' = IF active = 1 /\ a \in Turning THEN Notified ELSE drain

\* What every drop of a WebLease does.
Discount(a) ==
  /\ active' = active - 1
  /\ activeTurns' = IF a \in Turning THEN activeTurns - 1 ELSE activeTurns
  /\ lease' = [lease EXCEPT ![a] = "none"]
  /\ work' = [work EXCEPT ![a] = "working"]
  /\ drain' = IF active = 1 THEN Notified ELSE drain

Clean(a) == \/ lease[a] \in {"light", "turn", "recovery"} /\ work[a] = "working"
            \/ lease[a] = "recovery" /\ work[a] = "recorded"
            \/ lease[a] = "maintenance" /\ work[a] = "lifted"

\* WebLease::drop.
Drop(a) ==
  /\ Clean(a)
  /\ Discount(a)
  /\ UNCHANGED <<accepting, maintenance, cleanupFailed, cutOff, spoilt>>

\* Mutant: a panic is not told from a normal end.
DropPanickingQuietly(a) ==
  /\ work[a] = "panicking"
  /\ Discount(a)
  /\ UNCHANGED <<accepting, maintenance, cleanupFailed, cutOff, spoilt>>

\* The same while the thread is panicking; a maintenance stays in force.
DropPanicking(a) ==
  /\ work[a] = "panicking"
  /\ cleanupFailed' = TRUE
  /\ accepting' = FALSE
  /\ cutOff' = TRUE
  /\ Discount(a)
  /\ UNCHANGED <<maintenance, spoilt>>
-----------------------------------------------------------------------------
(* Disconnecting. *)

Advance(d, p) == drain' = [drain EXCEPT ![d] = p]

BeginDrain(d) ==
  /\ drain[d] \in Ended
  /\ Advance(d, "closing")
  /\ UNCHANGED <<admissionVars, cutOff, holderVars, spoilt>>

\* Mutant: idleness is looked at, admission left open.
CloseIfIdleLooking(d) ==
  /\ drain[d] \in Ended
  /\ activeTurns = 0
  /\ Advance(d, "idleclosing")
  /\ UNCHANGED <<admissionVars, cutOff, holderVars, spoilt>>

\* close_if_idle, before the same drain; otherwise it returns E_WEB_ACTIVE.
CloseIfIdle(d) ==
  /\ drain[d] \in Ended
  /\ activeTurns = 0
  /\ accepting' = FALSE
  /\ Advance(d, "idleclosing")
  /\ UNCHANGED <<maintenance, active, activeTurns, cleanupFailed, cutOff, holderVars, spoilt>>

CloseAdmission(d) ==
  /\ \/ drain[d] = "closing" /\ Advance(d, "closed")
     \/ drain[d] = "idleclosing" /\ Advance(d, "idleclosed")
  /\ accepting' = FALSE
  /\ UNCHANGED <<maintenance, active, activeTurns, cleanupFailed, cutOff, holderVars, spoilt>>

CutOff(d) ==
  /\ drain[d] \in {"closed", "idleclosed"}
  /\ cutOff' = TRUE
  /\ Advance(d, "looping")
  /\ UNCHANGED <<admissionVars, holderVars, spoilt>>

\* The notification is enabled before the counter is read.
Arm(d) ==
  /\ drain[d] = "looping"
  /\ Advance(d, "armed")
  /\ UNCHANGED <<admissionVars, cutOff, holderVars, spoilt>>

\* One round of the loop of `drain`.
CheckDrained(d) ==
  /\ drain[d] \in {"armed", "signalled"}
  /\ Advance(d, IF cleanupFailed THEN "failed"
                ELSE IF active = 0 THEN "drained"
                ELSE IF drain[d] = "armed" THEN "asleep" ELSE "looping")
  /\ UNCHANGED <<admissionVars, cutOff, holderVars, spoilt>>

\* The deadline passes while the drain sleeps.
TimeOut(d) ==
  /\ drain[d] = "asleep"
  /\ Advance(d, "timedout")
  /\ UNCHANGED <<admissionVars, cutOff, holderVars, spoilt>>

LeaseStep(a) ==
  \/ \E kind \in {"light", "turn", "recovery"} : Acquire(a, kind)
  \/ BeginMaintenance(a)
  \/ WorkFails(a) \/ RecordFailure(a) \/ Panic(a)
  \/ LiftMaintenance(a) \/ Drop(a) \/ DropPanicking(a)

\* The steps a drain takes by itself.
DrainStep(d) == CloseAdmission(d) \/ CutOff(d) \/ Arm(d) \/ CheckDrained(d)

GatewayNext ==
  \/ \E a \in Actors : LeaseStep(a)
  \/ \E d \in Drains : BeginDrain(d) \/ CloseIfIdle(d) \/ DrainStep(d) \/ TimeOut(d)

GatewaySpec == (\E open \in BOOLEAN : GatewayInit(open)) /\ [][GatewayNext]_gatewayVars
-----------------------------------------------------------------------------
\* The counters by which drains and maintenance decide are those of the leases
\* that exist, although a maintenance lease is dropped in two halves and a
\* panicking one along another path.
CountersMatchLeases ==
  /\ active = Cardinality(Holding)
  /\ activeTurns = Cardinality(Turning)

\* While a maintenance operation works, or after it died working, nobody else
\* does web work: no request is served by a provider that is being replaced.
MaintenanceIsAlone ==
  \A a, b \in Actors :
    lease[a] = "maintenance" /\ work[a] # "lifted" /\ lease[b] # "none" => a = b

\* A drain never sleeps through the end of the last lease: every disconnect would
\* then end by its deadline only, and in failure.
NoLostWakeup ==
  \A d \in Drains : drain[d] = "asleep" => active # 0

\* What a successful drain reports stays true whatever happens later: no web work
\* is under way and none can start.
DrainIsFinal ==
  \A d \in Drains : drain[d] = "drained" => Holding = {} /\ ~accepting

\* No drain reports success when some work that the gateway was told of, or that
\* panicked, ended without its cleanup: the failure is recorded before, or in the
\* same step as, the lease is discounted.
DrainedMeansClean ==
  \A d \in Drains : drain[d] = "drained" => ~spoilt

\* A successful drain can be relied on, now and later.
DrainHolds == DrainIsFinal /\ DrainedMeansClean

\* A disconnect "when idle" cancels no generation and no maintenance: none can be
\* admitted between its look at the counter and the cancellation.
IdleCloseCutsNoTurn ==
  \A d \in Drains : drain[d] \in {"idleclosing", "idleclosed"} => Turning = {}
=============================================================================
