---------------------------- MODULE DisconnectProofs ----------------------------
(***************************************************************************)
(* First what the admission gate guarantees for any number of holders and  *)
(* drains (Gateway).  Then disconnecting, recovering and signing in, for   *)
(* any number of requests: every step is a step of the gate, so that what  *)
(* the first part shows of the gate holds here, and the web side is at     *)
(* rest whenever the user's configuration is restored (Disconnect).        *)
(***************************************************************************)
EXTENDS Disconnect, FiniteSetTheorems, TLAPS

\* Which stage of the work goes with which lease.
StagesFit ==
  \A a \in Actors :
    /\ lease[a] = "none" => work[a] = "working"
    /\ work[a] \in {"unclean", "recorded"} => lease[a] \in {"recovery", "maintenance"}
    /\ work[a] = "lifted" => lease[a] = "maintenance"

\* The flag is set as long as somebody maintains (and longer after a panic).
MaintenanceInForce ==
  \A a \in Actors : lease[a] = "maintenance" /\ work[a] # "lifted" => maintenance

\* Nothing reopens what a drain has closed, and a drained gate is empty.
StaysClosed ==
  \A d \in Drains :
    /\ drain[d] \notin {"off", "closing"} => ~accepting
    /\ drain[d] = "drained" => active = 0

\* Work that ended without its cleanup is recorded, or still holds a lease.
Told ==
  spoilt => cleanupFailed \/ \E a \in Actors : work[a] \in {"unclean", "panicking"}

GatewayInv ==
  /\ GatewayTypeOK
  /\ CountersMatchLeases
  /\ StagesFit
  /\ MaintenanceInForce
  /\ MaintenanceIsAlone
  /\ StaysClosed
  /\ NoLostWakeup
  /\ Told
  /\ DrainedMeansClean
  /\ IdleCloseCutsNoTurn

\* The counters are zero exactly when the leases they count are none.
LEMMA Counting ==
  ASSUME GatewayTypeOK, CountersMatchLeases
  PROVE  /\ IsFiniteSet(Holding) /\ IsFiniteSet(Turning)
         /\ Turning \subseteq Holding
         /\ active = 0 <=> Holding = {}
         /\ activeTurns = 0 <=> Turning = {}
<1>1. Turning \subseteq Holding /\ Holding \subseteq Actors
  BY DEF Turning, Holding
<1>2. IsFiniteSet(Holding) /\ IsFiniteSet(Turning)
  BY <1>1, GatewayAssumption, FS_Subset
<1> QED
  BY <1>1, <1>2, FS_EmptySet DEF CountersMatchLeases

\* A new lease counts once, as a turn if it is one.
LEMMA CountingOneMore ==
  ASSUME GatewayInv, NEW a \in Actors, NEW kind \in LeaseKinds,
         lease[a] = "none", lease' = [lease EXCEPT ![a] = kind],
         active' = active + 1,
         activeTurns' = IF kind \in {"turn", "maintenance"}
                        THEN activeTurns + 1 ELSE activeTurns
  PROVE  CountersMatchLeases' /\ Turning \subseteq Turning'
<1> USE DEF GatewayInv, LeaseKinds
<1>1. lease \in [Actors -> LeaseKinds \cup {"none"}]
  BY DEF GatewayTypeOK
<1>2. Holding' = Holding \cup {a} /\ a \notin Holding /\ a \notin Turning
  BY <1>1 DEF Holding, Turning
<1>3. Turning' = IF kind \in {"turn", "maintenance"} THEN Turning \cup {a} ELSE Turning
  BY <1>1 DEF Turning
<1>4. Cardinality(Holding') = Cardinality(Holding) + 1
  BY <1>2, Counting, FS_AddElement
<1>5. Cardinality(Turning \cup {a}) = Cardinality(Turning) + 1
  BY <1>2, Counting, FS_AddElement
<1> QED
  BY <1>3, <1>4, <1>5 DEF CountersMatchLeases

\* A dropped lease is discounted once.
LEMMA CountingOneLess ==
  ASSUME GatewayInv, NEW a \in Actors, lease[a] # "none", Discount(a)
  PROVE  /\ CountersMatchLeases'
         /\ Turning' \subseteq Turning
         /\ active \in Nat \ {0} /\ active' \in Nat /\ activeTurns' \in Nat
<1> USE DEF GatewayInv, LeaseKinds
<1>1. lease \in [Actors -> LeaseKinds \cup {"none"}] /\ active \in Nat /\ activeTurns \in Nat
  BY DEF GatewayTypeOK
<1>2. Holding' = Holding \ {a} /\ a \in Holding
  BY <1>1 DEF Holding, Discount
<1>3. Turning' = Turning \ {a}
  BY <1>1 DEF Turning, Discount
<1>4. Cardinality(Holding') = Cardinality(Holding) - 1
  BY <1>2, Counting, FS_RemoveElement
<1>5. Cardinality(Turning') = IF a \in Turning THEN Cardinality(Turning) - 1 ELSE Cardinality(Turning)
  BY <1>3, Counting, FS_RemoveElement
<1>6. active # 0 /\ (a \in Turning => activeTurns # 0)
  BY <1>2, Counting
<1> QED
  BY <1>1, <1>3, <1>4, <1>5, <1>6 DEF CountersMatchLeases, Discount

LEMMA GatewayInitially ==
  ASSUME NEW open \in BOOLEAN, GatewayInit(open)
  PROVE  GatewayInv
<1>1. Holding = {} /\ Turning = {}
  BY DEF GatewayInit, Holding, Turning
<1> QED
  BY <1>1, FS_EmptySet
     DEF GatewayInit, GatewayInv, GatewayTypeOK, CountersMatchLeases, StagesFit,
         MaintenanceInForce, MaintenanceIsAlone, StaysClosed, NoLostWakeup, Told,
         DrainedMeansClean, IdleCloseCutsNoTurn, LeaseKinds, WorkStages, DrainPhases

\* The steps of a drain leave the leases alone.
LEMMA DrainsKeepInv ==
  ASSUME GatewayInv, NEW d \in Drains,
         BeginDrain(d) \/ CloseIfIdle(d) \/ DrainStep(d) \/ TimeOut(d)
  PROVE  GatewayInv'
<1> USE DEF GatewayInv
<1>1. UNCHANGED <<maintenance, active, activeTurns, cleanupFailed, lease, work, spoilt>>
  BY DEF BeginDrain, CloseIfIdle, DrainStep, TimeOut, CloseAdmission, CutOff, Arm,
         CheckDrained, admissionVars, holderVars
<1>2. Holding' = Holding /\ Turning' = Turning
  BY <1>1 DEF Holding, Turning
<1>3. (accepting' = FALSE \/ accepting' = accepting) /\ (cutOff' = TRUE \/ cutOff' = cutOff)
  BY DEF BeginDrain, CloseIfIdle, DrainStep, TimeOut, CloseAdmission, CutOff, Arm,
         CheckDrained, admissionVars
<1>4. PICK p \in DrainPhases : drain' = [drain EXCEPT ![d] = p]
  BY DEF BeginDrain, CloseIfIdle, DrainStep, TimeOut, CloseAdmission, CutOff, Arm,
         CheckDrained, Advance, DrainPhases
<1>5. GatewayTypeOK'
  BY <1>1, <1>3, <1>4 DEF GatewayTypeOK
<1>6. /\ CountersMatchLeases' /\ StagesFit' /\ MaintenanceInForce'
      /\ MaintenanceIsAlone' /\ Told'
  BY <1>1, <1>2 DEF CountersMatchLeases, StagesFit, MaintenanceInForce,
                    MaintenanceIsAlone, Told
<1>7. drain[d] \in DrainPhases /\ drain'[d] = p
      /\ \A e \in Drains \ {d} : drain'[e] = drain[e]
  BY <1>4 DEF GatewayTypeOK
<1>8. /\ p \notin {"off", "closing"} => ~accepting'
      /\ p = "drained" => active = 0 /\ ~cleanupFailed
      /\ p = "asleep" => active # 0
      /\ p \in {"idleclosing", "idleclosed"} => Turning = {}
  BY <1>7, Counting
     DEF BeginDrain, CloseIfIdle, DrainStep, TimeOut, CloseAdmission, CutOff, Arm,
         CheckDrained, Advance, StaysClosed, IdleCloseCutsNoTurn, Ended, admissionVars,
         GatewayTypeOK
<1>9. StaysClosed' /\ NoLostWakeup' /\ IdleCloseCutsNoTurn'
  BY <1>1, <1>2, <1>3, <1>7, <1>8 DEF StaysClosed, NoLostWakeup, IdleCloseCutsNoTurn
<1>10. active = 0 => ~(\E a \in Actors : work[a] \in {"unclean", "panicking"})
  BY Counting DEF Holding, StagesFit
<1>11. DrainedMeansClean'
  BY <1>1, <1>7, <1>8, <1>10 DEF DrainedMeansClean, Told
<1> QED
  BY <1>5, <1>6, <1>9, <1>11

\* A new lease is granted only while nothing is closed and nobody maintains.
LEMMA GrantsKeepInv ==
  ASSUME GatewayInv, NEW a \in Actors,
         BeginMaintenance(a) \/ \E kind \in {"light", "turn", "recovery"} : Acquire(a, kind)
  PROVE  GatewayInv'
<1> USE DEF GatewayInv
<1>1. PICK kind \in LeaseKinds :
        /\ lease' = [lease EXCEPT ![a] = kind]
        /\ activeTurns' = IF kind \in {"turn", "maintenance"}
                          THEN activeTurns + 1 ELSE activeTurns
        /\ kind = "maintenance" => active = 0 /\ maintenance'
        /\ kind # "maintenance" => maintenance' = maintenance
  BY DEF BeginMaintenance, Acquire, LeaseKinds
<1>2. /\ lease[a] = "none" /\ accepting /\ ~maintenance /\ active' = active + 1
      /\ maintenance' \in BOOLEAN
      /\ UNCHANGED <<accepting, cleanupFailed, cutOff, work, drain, spoilt>>
  BY DEF BeginMaintenance, Acquire, GatewayTypeOK
<1>3. CountersMatchLeases' /\ Turning \subseteq Turning'
  BY <1>1, <1>2, CountingOneMore
<1>4. GatewayTypeOK'
  BY <1>1, <1>2 DEF GatewayTypeOK
<1>5. work[a] = "working" /\ lease'[a] = kind /\ \A b \in Actors \ {a} : lease'[b] = lease[b]
  BY <1>1, <1>2 DEF GatewayTypeOK, StagesFit
<1>6. StagesFit' /\ MaintenanceInForce'
  BY <1>1, <1>2, <1>5 DEF StagesFit, MaintenanceInForce, LeaseKinds
<1>7. active = 0 => \A b \in Actors : lease[b] = "none"
  BY Counting DEF Holding
<1>8. MaintenanceIsAlone'
  BY <1>1, <1>2, <1>5, <1>7 DEF MaintenanceIsAlone, MaintenanceInForce
<1>9. \A d \in Drains : drain[d] \in {"off", "closing"}
  BY <1>2 DEF StaysClosed
<1>10. StaysClosed' /\ NoLostWakeup' /\ Told' /\ DrainedMeansClean' /\ IdleCloseCutsNoTurn'
  BY <1>2, <1>9 DEF StaysClosed, NoLostWakeup, Told, DrainedMeansClean, IdleCloseCutsNoTurn
<1> QED
  BY <1>3, <1>4, <1>6, <1>8, <1>10

\* Work fails, is recorded, panics or stops maintaining: the leases stay.
LEMMA WorkKeepsInv ==
  ASSUME GatewayInv, NEW a \in Actors,
         WorkFails(a) \/ RecordFailure(a) \/ Panic(a) \/ LiftMaintenance(a)
  PROVE  GatewayInv'
<1> USE DEF GatewayInv
<1>1. /\ UNCHANGED <<active, activeTurns, cutOff, lease, drain>>
      /\ lease[a] # "none"
      /\ cleanupFailed' = TRUE \/ cleanupFailed' = cleanupFailed
      /\ accepting' = FALSE \/ accepting' = accepting
      /\ maintenance' = FALSE \/ maintenance' = maintenance
      /\ spoilt' = TRUE \/ spoilt' = spoilt
  BY DEF WorkFails, RecordFailure, Panic, LiftMaintenance, admissionVars, StagesFit,
         GatewayTypeOK
<1>2. Holding' = Holding /\ Turning' = Turning
  BY <1>1 DEF Holding, Turning
<1>3. PICK s \in WorkStages : work' = [work EXCEPT ![a] = s]
  BY DEF WorkFails, RecordFailure, Panic, LiftMaintenance, WorkStages
<1>4. GatewayTypeOK'
  BY <1>1, <1>3 DEF GatewayTypeOK
<1>5. work'[a] = s /\ \A b \in Actors \ {a} : work'[b] = work[b]
  BY <1>3 DEF GatewayTypeOK
<1>6. CountersMatchLeases' /\ NoLostWakeup' /\ IdleCloseCutsNoTurn' /\ StaysClosed'
  BY <1>1, <1>2 DEF CountersMatchLeases, NoLostWakeup, IdleCloseCutsNoTurn, StaysClosed
<1>7. \A d \in Drains : drain[d] # "drained"
  BY <1>1, Counting DEF StaysClosed, Holding
<1>8. DrainedMeansClean'
  BY <1>1, <1>7 DEF DrainedMeansClean
<1>9. CASE WorkFails(a) \/ Panic(a)
  <2>1. s \in {"unclean", "panicking"} /\ maintenance' = maintenance /\ work[a] = "working"
        /\ (s = "unclean" => lease[a] \in {"recovery", "maintenance"})
    BY <1>3, <1>5, <1>9 DEF WorkFails, Panic, admissionVars, GatewayTypeOK
  <2> QED
    BY <1>1, <1>4, <1>5, <1>6, <1>8, <2>1
       DEF StagesFit, MaintenanceInForce, MaintenanceIsAlone, Told
<1>10. CASE RecordFailure(a)
  <2>1. s = "recorded" /\ maintenance' = maintenance /\ work[a] = "unclean" /\ cleanupFailed'
    BY <1>3, <1>5, <1>10 DEF RecordFailure, GatewayTypeOK
  <2> QED
    BY <1>1, <1>4, <1>5, <1>6, <1>8, <2>1
       DEF StagesFit, MaintenanceInForce, MaintenanceIsAlone, Told
<1>11. CASE LiftMaintenance(a)
  <2>1. /\ s = "lifted" /\ ~maintenance' /\ lease[a] = "maintenance"
        /\ work[a] \in {"working", "recorded"} /\ UNCHANGED <<cleanupFailed, spoilt>>
    BY <1>3, <1>5, <1>11 DEF LiftMaintenance, GatewayTypeOK
  <2>2. \A b \in Actors \ {a} : lease[b] = "none"
    BY <2>1 DEF MaintenanceIsAlone
  <2>3. MaintenanceInForce' /\ MaintenanceIsAlone' /\ StagesFit'
    BY <1>1, <1>5, <2>1, <2>2
       DEF MaintenanceInForce, MaintenanceIsAlone, StagesFit
  <2>4. Told'
    BY <1>1, <1>5, <2>1 DEF Told
  <2> QED
    BY <1>4, <1>6, <1>8, <2>3, <2>4
<1> QED
  BY <1>9, <1>10, <1>11

\* Dropping a lease, in the normal way or while panicking.
LEMMA DropsKeepInv ==
  ASSUME GatewayInv, NEW a \in Actors, Drop(a) \/ DropPanicking(a)
  PROVE  GatewayInv'
<1> USE DEF GatewayInv
<1>1. lease[a] # "none" /\ Discount(a)
  BY DEF Drop, DropPanicking, Clean, StagesFit
<1>2. /\ UNCHANGED <<maintenance, spoilt>>
      /\ cleanupFailed' = TRUE \/ cleanupFailed' = cleanupFailed
      /\ accepting' = FALSE \/ accepting' = accepting
      /\ cutOff' = TRUE \/ cutOff' = cutOff
      /\ work[a] \in {"unclean", "panicking"} => cleanupFailed' = TRUE
  BY DEF Drop, DropPanicking, Clean
<1>3. /\ CountersMatchLeases' /\ Turning' \subseteq Turning
      /\ active \in Nat \ {0} /\ active' \in Nat /\ activeTurns' \in Nat
      /\ active' = active - 1
  BY <1>1, CountingOneLess DEF Discount
<1>4. /\ lease' = [lease EXCEPT ![a] = "none"]
      /\ work' = [work EXCEPT ![a] = "working"]
      /\ lease'[a] = "none" /\ work'[a] = "working"
      /\ \A b \in Actors \ {a} : lease'[b] = lease[b] /\ work'[b] = work[b]
  BY <1>1 DEF Discount, GatewayTypeOK
<1>5. /\ drain' \in [Drains -> DrainPhases]
      /\ \A d \in Drains : \/ drain'[d] = drain[d] /\ (drain[d] = "asleep" => active # 1)
                           \/ drain[d] = "armed" /\ drain'[d] = "signalled"
                           \/ drain[d] = "asleep" /\ drain'[d] = "looping"
  BY <1>1 DEF Discount, Notified, GatewayTypeOK, DrainPhases
<1>6. GatewayTypeOK'
  BY <1>2, <1>3, <1>4, <1>5 DEF GatewayTypeOK, WorkStages
<1>7. StagesFit' /\ MaintenanceInForce' /\ MaintenanceIsAlone'
  BY <1>2, <1>4 DEF StagesFit, MaintenanceInForce, MaintenanceIsAlone
<1>8. StaysClosed' /\ NoLostWakeup' /\ IdleCloseCutsNoTurn'
  BY <1>2, <1>3, <1>5 DEF StaysClosed, NoLostWakeup, IdleCloseCutsNoTurn
<1>9. Told' /\ DrainedMeansClean'
  BY <1>2, <1>4, <1>5 DEF Told, DrainedMeansClean
<1> QED
  BY <1>3, <1>6, <1>7, <1>8, <1>9

LEMMA GatewayStep == GatewayInv /\ [GatewayNext]_gatewayVars => GatewayInv'
<1> SUFFICES ASSUME GatewayInv, [GatewayNext]_gatewayVars PROVE GatewayInv'
  OBVIOUS
<1>1. CASE UNCHANGED gatewayVars
  BY <1>1 DEF gatewayVars, admissionVars, holderVars, GatewayInv, GatewayTypeOK,
       CountersMatchLeases, Holding, Turning, StagesFit, MaintenanceInForce,
       MaintenanceIsAlone, StaysClosed, NoLostWakeup, Told, DrainedMeansClean,
       IdleCloseCutsNoTurn
<1>2. CASE \E a \in Actors : LeaseStep(a)
  BY <1>2, GrantsKeepInv, WorkKeepsInv, DropsKeepInv DEF LeaseStep
<1>3. CASE \E d \in Drains : BeginDrain(d) \/ CloseIfIdle(d) \/ DrainStep(d) \/ TimeOut(d)
  BY <1>3, DrainsKeepInv
<1> QED
  BY <1>1, <1>2, <1>3 DEF GatewayNext

LEMMA GatewayAlways == GatewaySpec => []GatewayInv
<1>1. (\E open \in BOOLEAN : GatewayInit(open)) => GatewayInv
  BY GatewayInitially
<1> QED
  BY <1>1, GatewayStep, PTL DEF GatewaySpec

\* The counters of the gate are always those of the leases that exist.
THEOREM CountersAreExact == GatewaySpec => []CountersMatchLeases
<1>1. GatewayInv => CountersMatchLeases
  BY DEF GatewayInv
<1> QED
  BY <1>1, GatewayAlways, PTL

\* No request is served beside a maintenance operation.
THEOREM MaintenanceExcludes == GatewaySpec => []MaintenanceIsAlone
<1>1. GatewayInv => MaintenanceIsAlone
  BY DEF GatewayInv
<1> QED
  BY <1>1, GatewayAlways, PTL

\* A drain never sleeps with nobody left to wake it.
THEOREM NoWakeupIsLost == GatewaySpec => []NoLostWakeup
<1>1. GatewayInv => NoLostWakeup
  BY DEF GatewayInv
<1> QED
  BY <1>1, GatewayAlways, PTL

\* What a successful drain reports stays true, and every cleanup is confirmed then.
THEOREM DrainsHold == GatewaySpec => []DrainHolds
<1>1. GatewayInv => DrainHolds
  BY Counting DEF GatewayInv, DrainHolds, DrainIsFinal, StaysClosed
<1> QED
  BY <1>1, GatewayAlways, PTL

\* A disconnect when idle cancels no generation.
THEOREM IdleClosesCutNothing == GatewaySpec => []IdleCloseCutsNoTurn
<1>1. GatewayInv => IdleCloseCutsNoTurn
  BY DEF GatewayInv
<1> QED
  BY <1>1, GatewayAlways, PTL

-----------------------------------------------------------------------------
(* The recoveries, the disconnect and the control operations on the gate.  *)

\* The steps that hold a lease; those of the one who has to give the pending slot its
\* result; those that hold a driver which nobody else knows yet.
LeasedSteps == Restoring \cup Maintenance \cup {"dirty", "done"}
Claiming == {"retrying"} \cup (Restoring \ {"retiring"})
WithDriver == {"attached", "ledger", "undoing", "publishing"}

\* Which lease goes with which step, and which step with which operation.
LeasesFit ==
  /\ \A a \in {Boot, Op} :
       /\ step[a] \in LeasedSteps <=> lease[a] # "none"
       /\ step[a] \in Restoring \cup Maintenance \cup {"dirty"} => work[a] = "working"
  /\ lease[Boot] \in {"none", "recovery"} /\ lease[Op] \in {"none", "recovery", "maintenance"}
  /\ step[Op] \in Maintenance => lease[Op] = "maintenance"
  /\ step[Boot] \in Restoring \cup {"off", "retrying", "dirty", "done"}
  /\ step[Op] = "off" <=> job = "none"
  /\ step[Op] = "retrying" => job = "retry"

\* The slot is pending exactly while one actor has to settle it, and only one at a time
\* restores.  A driver that is known belongs to a slot that was settled with it.
SlotFits ==
  /\ slot = "recovering" <=> \E a \in {Boot, Op} : step[a] \in Claiming
  /\ ~(step[Boot] \in Claiming \cup {"retiring"} /\ step[Op] \in Claiming \cup {"retiring"})
  /\ \A a \in {Boot, Op} : step[a] = "retiring" => slot = "cancelled" /\ owner
  /\ owner => slot \in {"ready", "failed", "cancelled"}
  /\ step[Op] = "loginStop" => owner
  /\ step[Op] = "loginLaunch" => ~owner
  /\ step[Op] \in {"qualifying", "adopting"} => slot = "ready"

\* A browser has an owner, and an owner that is at work its browser.
BrowserFits ==
  /\ browser = "attempt" <=> \E a \in {Boot, Op} : step[a] = "verifying"
  /\ \A a \in {Boot, Op} : step[a] \in WithDriver \cup {"retiring"} => browser = "driver"
  /\ browser = "driver" => owner \/ \E a \in {Boot, Op} : step[a] \in WithDriver

\* An exit that was not confirmed is remembered: by the driver that stays known and will
\* not stop again, or by the gateway, which is told before the recovery gives up its lease.
LostFits ==
  /\ lost \cap {"login", "disconnect"} # {} => owner /\ browser = "none"
  /\ "recovery" \in lost =>
       spoilt \/ \E a \in {Boot, Op} :
         /\ lease[a] = "recovery"
         /\ step[a] = "dirty" \/ (step[a] = "concluding" /\ code[a] = "cleanup")

\* How far the disconnect is, and what cannot be under way beside it.
DiscFits ==
  /\ disc \in {"releasing", "stopping", "restoring"} => drain[Disc] = "drained"
  /\ disc \in {"stopping", "restoring"} => browser # "window"
  /\ disc = "restoring" => state = "restoring"
  /\ disc # "off" => job \in {"none", "qualify"}
  /\ step[Boot] = "retrying" => job = "none" /\ disc = "off"
  /\ ~managed => /\ ~accepting /\ Holding = {} /\ browser = "none" /\ ~owner /\ lost = {}
                 /\ \A a \in {Boot, Op} : step[a] = "off"

DiscInv ==
  /\ TypeOK
  /\ GatewayInv
  /\ LeasesFit
  /\ SlotFits
  /\ BrowserFits
  /\ LostFits
  /\ DiscFits
  /\ RestoringIsQuiet
-----------------------------------------------------------------------------
(* Every step is one of the gate or leaves the gate alone. *)

LEMMA StepsOfTheGate ==
  ASSUME [Next]_vars
  PROVE  [GatewayNext]_gatewayVars
<1>1. {Boot, Op} \subseteq Actors /\ Requests \subseteq Actors /\ Disc \in Drains
  BY DisconnectAssumption
<1>2. CASE UNCHANGED vars
  BY <1>2 DEF vars
<1>3. ASSUME NEW a \in {Boot, Op}, Worker(a)
      PROVE  [GatewayNext]_gatewayVars
  BY <1>1, <1>3 DEF Worker, BeginRecovery, RestoreStep, Report, Leave, GatewayNext, LeaseStep,
     Launch, Verify, Attach, OpenLedger, Undo, Publish, Retire, Conclude
<1>4. CASE OpStep
  BY <1>1, <1>4 DEF OpStep, Check, BeginRetry, TurnedAway, BeginJob, Login, LoginStop, LoginLaunch,
     FinishLogin, Qualify, Qualified, Adopt, GatewayNext, LeaseStep
<1>5. ASSUME NEW r \in Requests, Request(r)
      PROVE  [GatewayNext]_gatewayVars
  BY <1>1, <1>5 DEF Request, GatewayNext, LeaseStep
<1>6. CASE (\E kind \in Jobs \ {"none"} : Ask(kind)) \/ CloseWindow
  BY <1>6 DEF Ask, CloseWindow
<1>7. CASE AskDisconnect \/ AskDisconnectWhenIdle \/ DiscStep \/ Deadline
  BY <1>1, <1>7 DEF AskDisconnect, AskDisconnectWhenIdle, DiscStep, Deadline, EnterDraining,
     Draining, DrainReturns, ReleaseLogin, ReleaseBrowser, RestoreConfig, GatewayNext
<1> QED
  BY <1>2, <1>3, <1>4, <1>5, <1>6, <1>7 DEF Next

-----------------------------------------------------------------------------
(* What the gate gives to whoever has passed it. *)

\* Whoever maintains is alone.
LEMMA MaintainerIsAlone ==
  ASSUME DiscInv, step[Op] \in Maintenance
  PROVE  step[Boot] = "off" /\ accepting \in BOOLEAN /\ step[Op] # "off"
<1> USE DisconnectAssumption DEF DiscInv, LeasesFit, Restoring, Maintenance, LeasedSteps
<1>1. lease[Op] = "maintenance" /\ work[Op] = "working"
  OBVIOUS
<1>2. lease[Boot] = "none"
  BY <1>1 DEF GatewayInv, MaintenanceIsAlone
<1>3. step[Boot] # "retrying"
  BY DEF DiscFits
<1> QED
  BY <1>2, <1>3 DEF TypeOK, GatewayTypeOK

\* After a drain that succeeded nobody is at work, and every exit that the gateway was told
\* of was confirmed.
LEMMA DrainedIsQuiet ==
  ASSUME DiscInv, disc \in {"releasing", "stopping", "restoring"}
  PROVE  /\ Holding = {} /\ ~accepting /\ ~spoilt
         /\ \A a \in {Boot, Op} : step[a] \notin LeasedSteps \cup {"retrying"}
<1> USE DisconnectAssumption DEF DiscInv
<1>1. drain[Disc] = "drained" /\ Disc \in Drains
  BY DEF DiscFits
<1>2. active = 0 /\ ~accepting /\ ~spoilt
  BY <1>1 DEF GatewayInv, StaysClosed, DrainedMeansClean
<1>3. Holding = {}
  BY <1>2, Counting DEF GatewayInv
<1>4. lease[Boot] = "none" /\ lease[Op] = "none"
  BY <1>3 DEF Holding
<1> QED
  BY <1>2, <1>3, <1>4 DEF LeasesFit, DiscFits
-----------------------------------------------------------------------------
(* One lemma for each action. *)

LEMMA LaunchKeeps ==
  ASSUME DiscInv, GatewayInv', NEW a \in {Boot, Op}, Launch(a)
  PROVE  DiscInv'
<1> USE DisconnectAssumption DEF DiscInv, Launch, At, Go, Keep, LeaseOnly, webVars, opVars,
     discVars, gatewayVars, admissionVars, holderVars
<1>1. TypeOK'
  BY DEF TypeOK, GatewayInv, GatewayTypeOK, Steps, Slots, Codes, Jobs, States, Restoring,
     Maintenance
<1>2. LeasesFit'
  BY DEF LeasesFit, TypeOK, GatewayTypeOK, Jobs, Steps, LeasedSteps, Claiming, WithDriver,
     Restoring, Maintenance
<1>3. SlotFits'
  BY DEF SlotFits, TypeOK, Slots, Codes, Steps, LeasesFit, LeasedSteps, Claiming, WithDriver,
     Restoring, Maintenance
<1>4. BrowserFits'
  BY DEF BrowserFits, SlotFits, TypeOK, Steps, LeasesFit, LeasedSteps, Claiming, WithDriver,
     Restoring, Maintenance
<1>5. LostFits'
  BY DEF LostFits, SlotFits, BrowserFits, TypeOK, GatewayTypeOK, Steps, LeasesFit, LeasedSteps,
     Claiming, WithDriver, Restoring, Maintenance
<1>6. DiscFits'
  BY DEF DiscFits, LeasesFit, TypeOK, GatewayTypeOK, Holding, Steps, LeasedSteps, Claiming,
     WithDriver, Restoring, Maintenance
<1>7. RestoringIsQuiet'
  BY DEF RestoringIsQuiet, LeasesFit, TypeOK, GatewayTypeOK, Holding, Steps, LeasedSteps,
     Claiming, WithDriver, Restoring, Maintenance
<1> QED
  BY <1>1, <1>2, <1>3, <1>4, <1>5, <1>6, <1>7

LEMMA VerifyKeeps ==
  ASSUME DiscInv, GatewayInv', NEW a \in {Boot, Op}, Verify(a)
  PROVE  DiscInv'
<1> USE DisconnectAssumption DEF DiscInv, Verify, At, Go, Keep, LeaseOnly, webVars, opVars,
     discVars, gatewayVars, admissionVars, holderVars
<1>1. TypeOK'
  BY DEF TypeOK, GatewayInv, GatewayTypeOK, Steps, Slots, Codes, Jobs, States, Restoring,
     Maintenance
<1>2. LeasesFit'
  BY DEF LeasesFit, TypeOK, GatewayTypeOK, Jobs, Steps, LeasedSteps, Claiming, WithDriver,
     Restoring, Maintenance
<1>3. SlotFits'
  BY DEF SlotFits, TypeOK, Slots, Codes, Steps, LeasesFit, LeasedSteps, Claiming, WithDriver,
     Restoring, Maintenance
<1>4. BrowserFits'
  BY DEF BrowserFits, SlotFits, TypeOK, Steps, LeasesFit, LeasedSteps, Claiming, WithDriver,
     Restoring, Maintenance
<1>5. LostFits'
  BY DEF LostFits, SlotFits, BrowserFits, TypeOK, GatewayTypeOK, Steps, LeasesFit, LeasedSteps,
     Claiming, WithDriver, Restoring, Maintenance
<1>6. DiscFits'
  BY DEF DiscFits, LeasesFit, TypeOK, GatewayTypeOK, Holding, Steps, LeasedSteps, Claiming,
     WithDriver, Restoring, Maintenance
<1>7. RestoringIsQuiet'
  BY DEF RestoringIsQuiet, LeasesFit, TypeOK, GatewayTypeOK, Holding, Steps, LeasedSteps,
     Claiming, WithDriver, Restoring, Maintenance
<1> QED
  BY <1>1, <1>2, <1>3, <1>4, <1>5, <1>6, <1>7

LEMMA AttachKeeps ==
  ASSUME DiscInv, GatewayInv', NEW a \in {Boot, Op}, Attach(a)
  PROVE  DiscInv'
<1> USE DisconnectAssumption DEF DiscInv, Attach, At, Go, Keep, LeaseOnly, webVars, opVars,
     discVars, gatewayVars, admissionVars, holderVars
<1>1. TypeOK'
  BY DEF TypeOK, GatewayInv, GatewayTypeOK, Steps, Slots, Codes, Jobs, States, Restoring,
     Maintenance
<1>2. LeasesFit'
  BY DEF LeasesFit, TypeOK, GatewayTypeOK, Jobs, Steps, LeasedSteps, Claiming, WithDriver,
     Restoring, Maintenance
<1>3. SlotFits'
  BY DEF SlotFits, TypeOK, Slots, Codes, Steps, LeasesFit, LeasedSteps, Claiming, WithDriver,
     Restoring, Maintenance
<1>4. BrowserFits'
  BY DEF BrowserFits, SlotFits, TypeOK, Steps, LeasesFit, LeasedSteps, Claiming, WithDriver,
     Restoring, Maintenance
<1>5. LostFits'
  BY DEF LostFits, SlotFits, BrowserFits, TypeOK, GatewayTypeOK, Steps, LeasesFit, LeasedSteps,
     Claiming, WithDriver, Restoring, Maintenance
<1>6. DiscFits'
  BY DEF DiscFits, LeasesFit, TypeOK, GatewayTypeOK, Holding, Steps, LeasedSteps, Claiming,
     WithDriver, Restoring, Maintenance
<1>7. RestoringIsQuiet'
  BY DEF RestoringIsQuiet, LeasesFit, TypeOK, GatewayTypeOK, Holding, Steps, LeasedSteps,
     Claiming, WithDriver, Restoring, Maintenance
<1> QED
  BY <1>1, <1>2, <1>3, <1>4, <1>5, <1>6, <1>7

LEMMA OpenLedgerKeeps ==
  ASSUME DiscInv, GatewayInv', NEW a \in {Boot, Op}, OpenLedger(a)
  PROVE  DiscInv'
<1> USE DisconnectAssumption DEF DiscInv, OpenLedger, At, Go, Keep, LeaseOnly, webVars, opVars,
     discVars, gatewayVars, admissionVars, holderVars
<1>1. TypeOK'
  BY DEF TypeOK, GatewayInv, GatewayTypeOK, Steps, Slots, Codes, Jobs, States, Restoring,
     Maintenance
<1>2. LeasesFit'
  BY DEF LeasesFit, TypeOK, GatewayTypeOK, Jobs, Steps, LeasedSteps, Claiming, WithDriver,
     Restoring, Maintenance
<1>3. SlotFits'
  BY DEF SlotFits, TypeOK, Slots, Codes, Steps, LeasesFit, LeasedSteps, Claiming, WithDriver,
     Restoring, Maintenance
<1>4. BrowserFits'
  BY DEF BrowserFits, SlotFits, TypeOK, Steps, LeasesFit, LeasedSteps, Claiming, WithDriver,
     Restoring, Maintenance
<1>5. LostFits'
  BY DEF LostFits, SlotFits, BrowserFits, TypeOK, GatewayTypeOK, Steps, LeasesFit, LeasedSteps,
     Claiming, WithDriver, Restoring, Maintenance
<1>6. DiscFits'
  BY DEF DiscFits, LeasesFit, TypeOK, GatewayTypeOK, Holding, Steps, LeasedSteps, Claiming,
     WithDriver, Restoring, Maintenance
<1>7. RestoringIsQuiet'
  BY DEF RestoringIsQuiet, LeasesFit, TypeOK, GatewayTypeOK, Holding, Steps, LeasedSteps,
     Claiming, WithDriver, Restoring, Maintenance
<1> QED
  BY <1>1, <1>2, <1>3, <1>4, <1>5, <1>6, <1>7

LEMMA UndoKeeps ==
  ASSUME DiscInv, GatewayInv', NEW a \in {Boot, Op}, Undo(a)
  PROVE  DiscInv'
<1> USE DisconnectAssumption DEF DiscInv, Undo, StopDriver, Errand, At, Go, Keep, LeaseOnly,
     webVars, opVars, discVars, gatewayVars, admissionVars, holderVars
<1>1. TypeOK'
  BY DEF TypeOK, GatewayInv, GatewayTypeOK, Steps, Slots, Codes, Jobs, States, Restoring,
     Maintenance
<1>2. LeasesFit'
  BY DEF LeasesFit, TypeOK, GatewayTypeOK, Jobs, Steps, LeasedSteps, Claiming, WithDriver,
     Restoring, Maintenance
<1>3. SlotFits'
  BY DEF SlotFits, TypeOK, Slots, Codes, Steps, LeasesFit, LeasedSteps, Claiming, WithDriver,
     Restoring, Maintenance
<1>4. BrowserFits'
  BY DEF BrowserFits, SlotFits, TypeOK, Steps, LeasesFit, LeasedSteps, Claiming, WithDriver,
     Restoring, Maintenance
<1>5. LostFits'
  BY DEF LostFits, SlotFits, BrowserFits, TypeOK, GatewayTypeOK, Steps, LeasesFit, LeasedSteps,
     Claiming, WithDriver, Restoring, Maintenance
<1>6. DiscFits'
  BY DEF DiscFits, LeasesFit, TypeOK, GatewayTypeOK, Holding, Steps, LeasedSteps, Claiming,
     WithDriver, Restoring, Maintenance
<1>7. RestoringIsQuiet'
  BY DEF RestoringIsQuiet, LeasesFit, TypeOK, GatewayTypeOK, Holding, Steps, LeasedSteps,
     Claiming, WithDriver, Restoring, Maintenance
<1> QED
  BY <1>1, <1>2, <1>3, <1>4, <1>5, <1>6, <1>7

LEMMA PublishKeeps ==
  ASSUME DiscInv, GatewayInv', NEW a \in {Boot, Op}, Publish(a)
  PROVE  DiscInv'
<1> USE DisconnectAssumption DEF DiscInv, Publish, Stored, At, Go, Keep, LeaseOnly, webVars,
     opVars, discVars, gatewayVars, admissionVars, holderVars
<1>1. TypeOK'
  BY DEF TypeOK, GatewayInv, GatewayTypeOK, Steps, Slots, Codes, Jobs, States, Restoring,
     Maintenance
<1>2. LeasesFit'
  BY DEF LeasesFit, TypeOK, GatewayTypeOK, Jobs, Steps, LeasedSteps, Claiming, WithDriver,
     Restoring, Maintenance
<1>3. SlotFits'
  <2>1. slot = "recovering" /\ step[a] = "publishing" /\ owner' = TRUE
    BY DEF SlotFits, Claiming, Restoring
  <2>2. PICK s \in {"done", "retiring"} :
          /\ \A b \in {Boot, Op} : step'[b] = IF b = a THEN s ELSE step[b]
          /\ slot' = IF s = "done" THEN "ready" ELSE "cancelled"
    BY <2>1 DEF TypeOK
  <2>3. \A b \in {Boot, Op} \ {a} : step[b] \notin Claiming \cup {"retiring"}
    BY <2>1 DEF SlotFits, Claiming, Restoring
  <2>4. slot' # "recovering" /\ \A b \in {Boot, Op} : step'[b] \notin Claiming
    BY <2>2, <2>3 DEF Claiming, Restoring
  <2>5. step'[Op] \notin {"loginStop", "loginLaunch", "qualifying", "adopting"}
    BY <2>1, <2>2, <2>3, MaintainerIsAlone DEF Maintenance
  <2> QED
    BY <2>1, <2>2, <2>3, <2>4, <2>5 DEF SlotFits
<1>4. BrowserFits'
  BY DEF BrowserFits, SlotFits, TypeOK, Steps, LeasesFit, LeasedSteps, Claiming, WithDriver,
     Restoring, Maintenance
<1>5. LostFits'
  BY DEF LostFits, SlotFits, BrowserFits, TypeOK, GatewayTypeOK, Steps, LeasesFit, LeasedSteps,
     Claiming, WithDriver, Restoring, Maintenance
<1>6. DiscFits'
  BY DEF DiscFits, LeasesFit, TypeOK, GatewayTypeOK, Holding, Steps, LeasedSteps, Claiming,
     WithDriver, Restoring, Maintenance
<1>7. RestoringIsQuiet'
  BY DEF RestoringIsQuiet, LeasesFit, TypeOK, GatewayTypeOK, Holding, Steps, LeasedSteps,
     Claiming, WithDriver, Restoring, Maintenance
<1> QED
  BY <1>1, <1>2, <1>3, <1>4, <1>5, <1>6, <1>7

LEMMA RetireKeeps ==
  ASSUME DiscInv, GatewayInv', NEW a \in {Boot, Op}, Retire(a)
  PROVE  DiscInv'
<1> USE DisconnectAssumption DEF DiscInv, Retire, StopDriver, Errand, Failing, At, Go, Keep,
     LeaseOnly, webVars, opVars, discVars, gatewayVars, admissionVars, holderVars
<1>1. TypeOK'
  BY DEF TypeOK, GatewayInv, GatewayTypeOK, Steps, Slots, Codes, Jobs, States, Restoring,
     Maintenance
<1>2. LeasesFit'
  BY DEF LeasesFit, TypeOK, GatewayTypeOK, Jobs, Steps, LeasedSteps, Claiming, WithDriver,
     Restoring, Maintenance
<1>3. SlotFits'
  BY DEF SlotFits, TypeOK, Slots, Codes, Steps, LeasesFit, LeasedSteps, Claiming, WithDriver,
     Restoring, Maintenance
<1>4. BrowserFits'
  BY DEF BrowserFits, SlotFits, TypeOK, Steps, LeasesFit, LeasedSteps, Claiming, WithDriver,
     Restoring, Maintenance
<1>5. LostFits'
  BY DEF LostFits, SlotFits, BrowserFits, TypeOK, GatewayTypeOK, Steps, LeasesFit, LeasedSteps,
     Claiming, WithDriver, Restoring, Maintenance
<1>6. DiscFits'
  BY DEF DiscFits, LeasesFit, TypeOK, GatewayTypeOK, Holding, Steps, LeasedSteps, Claiming,
     WithDriver, Restoring, Maintenance
<1>7. RestoringIsQuiet'
  BY DEF RestoringIsQuiet, LeasesFit, TypeOK, GatewayTypeOK, Holding, Steps, LeasedSteps,
     Claiming, WithDriver, Restoring, Maintenance
<1> QED
  BY <1>1, <1>2, <1>3, <1>4, <1>5, <1>6, <1>7

LEMMA ConcludeKeeps ==
  ASSUME DiscInv, GatewayInv', NEW a \in {Boot, Op}, Conclude(a)
  PROVE  DiscInv'
<1> USE DisconnectAssumption DEF DiscInv, Conclude, Stored, Failing, At, Go, Keep, LeaseOnly,
     webVars, opVars, discVars, gatewayVars, admissionVars, holderVars
<1>1. TypeOK'
  BY DEF TypeOK, GatewayInv, GatewayTypeOK, Steps, Slots, Codes, Jobs, States, Restoring,
     Maintenance
<1>2. LeasesFit'
  BY DEF LeasesFit, TypeOK, GatewayTypeOK, Jobs, Steps, LeasedSteps, Claiming, WithDriver,
     Restoring, Maintenance
<1>3. SlotFits'
  BY DEF SlotFits, TypeOK, Slots, Codes, Steps, LeasesFit, LeasedSteps, Claiming, WithDriver,
     Restoring, Maintenance
<1>4. BrowserFits'
  BY DEF BrowserFits, SlotFits, TypeOK, Steps, LeasesFit, LeasedSteps, Claiming, WithDriver,
     Restoring, Maintenance
<1>5. LostFits'
  BY DEF LostFits, SlotFits, BrowserFits, TypeOK, GatewayTypeOK, Steps, LeasesFit, LeasedSteps,
     Claiming, WithDriver, Restoring, Maintenance
<1>6. DiscFits'
  BY DEF DiscFits, LeasesFit, TypeOK, GatewayTypeOK, Holding, Steps, LeasedSteps, Claiming,
     WithDriver, Restoring, Maintenance
<1>7. RestoringIsQuiet'
  BY DEF RestoringIsQuiet, LeasesFit, TypeOK, GatewayTypeOK, Holding, Steps, LeasedSteps,
     Claiming, WithDriver, Restoring, Maintenance
<1> QED
  BY <1>1, <1>2, <1>3, <1>4, <1>5, <1>6, <1>7

LEMMA BeginRecoveryKeeps ==
  ASSUME DiscInv, GatewayInv', NEW a \in {Boot, Op}, BeginRecovery(a)
  PROVE  DiscInv'
<1> USE DisconnectAssumption DEF DiscInv, BeginRecovery, Acquire, At, Go, Keep, LeaseOnly,
     webVars, opVars, discVars, gatewayVars, admissionVars, holderVars
<1>1. TypeOK'
  BY DEF TypeOK, GatewayInv, GatewayTypeOK, Steps, Slots, Codes, Jobs, States, Restoring,
     Maintenance
<1>2. LeasesFit'
  BY DEF LeasesFit, TypeOK, GatewayTypeOK, Jobs, Steps, LeasedSteps, Claiming, WithDriver,
     Restoring, Maintenance, GatewayInv, StagesFit
<1>3. SlotFits'
  BY DEF SlotFits, TypeOK, Slots, Codes, Steps, LeasesFit, LeasedSteps, Claiming, WithDriver,
     Restoring, Maintenance
<1>4. BrowserFits'
  BY DEF BrowserFits, SlotFits, TypeOK, Steps, LeasesFit, LeasedSteps, Claiming, WithDriver,
     Restoring, Maintenance
<1>5. LostFits'
  BY DEF LostFits, SlotFits, BrowserFits, TypeOK, GatewayTypeOK, Steps, LeasesFit, LeasedSteps,
     Claiming, WithDriver, Restoring, Maintenance
<1>6. DiscFits'
  BY DEF DiscFits, LeasesFit, TypeOK, GatewayTypeOK, Holding, Steps, LeasedSteps, Claiming,
     WithDriver, Restoring, Maintenance
<1>7. RestoringIsQuiet'
  BY DEF RestoringIsQuiet, LeasesFit, TypeOK, GatewayTypeOK, Holding, Steps, LeasedSteps,
     Claiming, WithDriver, Restoring, Maintenance
<1> QED
  BY <1>1, <1>2, <1>3, <1>4, <1>5, <1>6, <1>7

LEMMA ReportKeeps ==
  ASSUME DiscInv, GatewayInv', NEW a \in {Boot, Op}, Report(a)
  PROVE  DiscInv'
<1> USE DisconnectAssumption DEF DiscInv, Report, WorkFails, At, Go, Keep, LeaseOnly, webVars,
     opVars, discVars, gatewayVars, admissionVars, holderVars
<1>1. TypeOK'
  BY DEF TypeOK, GatewayInv, GatewayTypeOK, Steps, Slots, Codes, Jobs, States, Restoring,
     Maintenance
<1>2. LeasesFit'
  BY DEF LeasesFit, TypeOK, GatewayTypeOK, Jobs, Steps, LeasedSteps, Claiming, WithDriver,
     Restoring, Maintenance
<1>3. SlotFits'
  BY DEF SlotFits, TypeOK, Slots, Codes, Steps, LeasesFit, LeasedSteps, Claiming, WithDriver,
     Restoring, Maintenance
<1>4. BrowserFits'
  BY DEF BrowserFits, SlotFits, TypeOK, Steps, LeasesFit, LeasedSteps, Claiming, WithDriver,
     Restoring, Maintenance
<1>5. LostFits'
  BY DEF LostFits, SlotFits, BrowserFits, TypeOK, GatewayTypeOK, Steps, LeasesFit, LeasedSteps,
     Claiming, WithDriver, Restoring, Maintenance
<1>6. DiscFits'
  BY DEF DiscFits, LeasesFit, TypeOK, GatewayTypeOK, Holding, Steps, LeasedSteps, Claiming,
     WithDriver, Restoring, Maintenance
<1>7. RestoringIsQuiet'
  BY DEF RestoringIsQuiet, LeasesFit, TypeOK, GatewayTypeOK, Holding, Steps, LeasedSteps,
     Claiming, WithDriver, Restoring, Maintenance
<1> QED
  BY <1>1, <1>2, <1>3, <1>4, <1>5, <1>6, <1>7

LEMMA LeaveKeeps ==
  ASSUME DiscInv, GatewayInv', NEW a \in {Boot, Op}, Leave(a)
  PROVE  DiscInv'
<1> USE DisconnectAssumption DEF DiscInv, Leave, RecordFailure, LiftMaintenance, Drop, Clean,
     Discount, Notified, At, Go, Keep, LeaseOnly, webVars, opVars, discVars, gatewayVars,
     admissionVars, holderVars
<1>1. TypeOK'
  BY DEF TypeOK, GatewayInv, GatewayTypeOK, Steps, Slots, Codes, Jobs, States, Restoring,
     Maintenance
<1>2. LeasesFit'
  BY DEF LeasesFit, TypeOK, GatewayTypeOK, Jobs, Steps, LeasedSteps, Claiming, WithDriver,
     Restoring, Maintenance
<1>3. SlotFits'
  BY DEF SlotFits, TypeOK, Slots, Codes, Steps, LeasesFit, LeasedSteps, Claiming, WithDriver,
     Restoring, Maintenance
<1>4. BrowserFits'
  BY DEF BrowserFits, SlotFits, TypeOK, Steps, LeasesFit, LeasedSteps, Claiming, WithDriver,
     Restoring, Maintenance
<1>5. LostFits'
  BY DEF LostFits, SlotFits, BrowserFits, TypeOK, GatewayTypeOK, Steps, LeasesFit, LeasedSteps,
     Claiming, WithDriver, Restoring, Maintenance
<1>6. DiscFits'
  BY DEF DiscFits, LeasesFit, TypeOK, GatewayTypeOK, Holding, Steps, LeasedSteps, Claiming,
     WithDriver, Restoring, Maintenance
<1>7. RestoringIsQuiet'
  BY DEF RestoringIsQuiet, LeasesFit, TypeOK, GatewayTypeOK, Holding, Steps, LeasedSteps,
     Claiming, WithDriver, Restoring, Maintenance
<1> QED
  BY <1>1, <1>2, <1>3, <1>4, <1>5, <1>6, <1>7

LEMMA CheckKeeps ==
  ASSUME DiscInv, GatewayInv', Check
  PROVE  DiscInv'
<1> USE DisconnectAssumption DEF DiscInv, Check, GiveUp, At, Go, Keep, LeaseOnly, webVars,
     opVars, discVars, gatewayVars, admissionVars, holderVars
<1>1. TypeOK'
  BY DEF TypeOK, GatewayInv, GatewayTypeOK, Steps, Slots, Codes, Jobs, States, Restoring,
     Maintenance
<1>2. LeasesFit'
  BY DEF LeasesFit, TypeOK, GatewayTypeOK, Jobs, Steps, LeasedSteps, Claiming, WithDriver,
     Restoring, Maintenance
<1>3. SlotFits'
  BY DEF SlotFits, TypeOK, Slots, Codes, Steps, LeasesFit, LeasedSteps, Claiming, WithDriver,
     Restoring, Maintenance
<1>4. BrowserFits'
  BY DEF BrowserFits, SlotFits, TypeOK, Steps, LeasesFit, LeasedSteps, Claiming, WithDriver,
     Restoring, Maintenance
<1>5. LostFits'
  BY DEF LostFits, SlotFits, BrowserFits, TypeOK, GatewayTypeOK, Steps, LeasesFit, LeasedSteps,
     Claiming, WithDriver, Restoring, Maintenance
<1>6. DiscFits'
  BY DEF DiscFits, LeasesFit, TypeOK, GatewayTypeOK, Holding, Steps, LeasedSteps, Claiming,
     WithDriver, Restoring, Maintenance
<1>7. RestoringIsQuiet'
  BY DEF RestoringIsQuiet, LeasesFit, TypeOK, GatewayTypeOK, Holding, Steps, LeasedSteps,
     Claiming, WithDriver, Restoring, Maintenance
<1> QED
  BY <1>1, <1>2, <1>3, <1>4, <1>5, <1>6, <1>7

LEMMA BeginRetryKeeps ==
  ASSUME DiscInv, GatewayInv', BeginRetry
  PROVE  DiscInv'
<1> USE DisconnectAssumption DEF DiscInv, BeginRetry, GiveUp, At, Go, Keep, LeaseOnly, webVars,
     opVars, discVars, gatewayVars, admissionVars, holderVars
<1>1. TypeOK'
  BY DEF TypeOK, GatewayInv, GatewayTypeOK, Steps, Slots, Codes, Jobs, States, Restoring,
     Maintenance
<1>2. LeasesFit'
  BY DEF LeasesFit, TypeOK, GatewayTypeOK, Jobs, Steps, LeasedSteps, Claiming, WithDriver,
     Restoring, Maintenance
<1>3. SlotFits'
  BY DEF SlotFits, TypeOK, Slots, Codes, Steps, LeasesFit, LeasedSteps, Claiming, WithDriver,
     Restoring, Maintenance
<1>4. BrowserFits'
  BY DEF BrowserFits, SlotFits, TypeOK, Steps, LeasesFit, LeasedSteps, Claiming, WithDriver,
     Restoring, Maintenance
<1>5. LostFits'
  BY DEF LostFits, SlotFits, BrowserFits, TypeOK, GatewayTypeOK, Steps, LeasesFit, LeasedSteps,
     Claiming, WithDriver, Restoring, Maintenance
<1>6. DiscFits'
  BY DEF DiscFits, LeasesFit, TypeOK, GatewayTypeOK, Holding, Steps, LeasedSteps, Claiming,
     WithDriver, Restoring, Maintenance
<1>7. RestoringIsQuiet'
  BY DEF RestoringIsQuiet, LeasesFit, TypeOK, GatewayTypeOK, Holding, Steps, LeasedSteps,
     Claiming, WithDriver, Restoring, Maintenance
<1> QED
  BY <1>1, <1>2, <1>3, <1>4, <1>5, <1>6, <1>7

LEMMA TurnedAwayKeeps ==
  ASSUME DiscInv, GatewayInv', TurnedAway
  PROVE  DiscInv'
<1> USE DisconnectAssumption DEF DiscInv, TurnedAway, GiveUp, At, Go, Keep, LeaseOnly, webVars,
     opVars, discVars, gatewayVars, admissionVars, holderVars
<1>1. TypeOK'
  BY DEF TypeOK, GatewayInv, GatewayTypeOK, Steps, Slots, Codes, Jobs, States, Restoring,
     Maintenance
<1>2. LeasesFit'
  BY DEF LeasesFit, TypeOK, GatewayTypeOK, Jobs, Steps, LeasedSteps, Claiming, WithDriver,
     Restoring, Maintenance
<1>3. SlotFits'
  BY DEF SlotFits, TypeOK, Slots, Codes, Steps, LeasesFit, LeasedSteps, Claiming, WithDriver,
     Restoring, Maintenance
<1>4. BrowserFits'
  BY DEF BrowserFits, SlotFits, TypeOK, Steps, LeasesFit, LeasedSteps, Claiming, WithDriver,
     Restoring, Maintenance
<1>5. LostFits'
  BY DEF LostFits, SlotFits, BrowserFits, TypeOK, GatewayTypeOK, Steps, LeasesFit, LeasedSteps,
     Claiming, WithDriver, Restoring, Maintenance
<1>6. DiscFits'
  BY DEF DiscFits, LeasesFit, TypeOK, GatewayTypeOK, Holding, Steps, LeasedSteps, Claiming,
     WithDriver, Restoring, Maintenance
<1>7. RestoringIsQuiet'
  BY DEF RestoringIsQuiet, LeasesFit, TypeOK, GatewayTypeOK, Holding, Steps, LeasedSteps,
     Claiming, WithDriver, Restoring, Maintenance
<1> QED
  BY <1>1, <1>2, <1>3, <1>4, <1>5, <1>6, <1>7

LEMMA BeginJobKeeps ==
  ASSUME DiscInv, GatewayInv', BeginJob
  PROVE  DiscInv'
<1> USE DisconnectAssumption DEF DiscInv, BeginJob, GiveUp, BeginMaintenance, At, Go, Keep,
     LeaseOnly, webVars, opVars, discVars, gatewayVars, admissionVars, holderVars
<1>1. TypeOK'
  BY DEF TypeOK, GatewayInv, GatewayTypeOK, Steps, Slots, Codes, Jobs, States, Restoring,
     Maintenance, LeasesFit
<1>2. LeasesFit'
  BY DEF LeasesFit, TypeOK, GatewayTypeOK, Jobs, Steps, LeasedSteps, Claiming, WithDriver,
     Restoring, Maintenance, GatewayInv, StagesFit
<1>3. SlotFits'
  BY DEF SlotFits, TypeOK, Slots, Codes, Steps, LeasesFit, LeasedSteps, Claiming, WithDriver,
     Restoring, Maintenance, Jobs
<1>4. BrowserFits'
  BY DEF BrowserFits, SlotFits, TypeOK, Steps, LeasesFit, LeasedSteps, Claiming, WithDriver,
     Restoring, Maintenance, Jobs
<1>5. LostFits'
  BY DEF LostFits, SlotFits, BrowserFits, TypeOK, GatewayTypeOK, Steps, LeasesFit, LeasedSteps,
     Claiming, WithDriver, Restoring, Maintenance
<1>6. DiscFits'
  BY DEF DiscFits, LeasesFit, TypeOK, GatewayTypeOK, Holding, Steps, LeasedSteps, Claiming,
     WithDriver, Restoring, Maintenance
<1>7. RestoringIsQuiet'
  BY DEF RestoringIsQuiet, LeasesFit, TypeOK, GatewayTypeOK, Holding, Steps, LeasedSteps,
     Claiming, WithDriver, Restoring, Maintenance
<1> QED
  BY <1>1, <1>2, <1>3, <1>4, <1>5, <1>6, <1>7

LEMMA LoginKeeps ==
  ASSUME DiscInv, GatewayInv', Login
  PROVE  DiscInv'
<1> USE DisconnectAssumption DEF DiscInv, Login, VerifyIdle, At, Go, Keep, LeaseOnly, webVars,
     opVars, discVars, gatewayVars, admissionVars, holderVars
<1>1. TypeOK'
  BY DEF TypeOK, GatewayInv, GatewayTypeOK, Steps, Slots, Codes, Jobs, States, Restoring,
     Maintenance
<1>2. LeasesFit'
  BY DEF LeasesFit, TypeOK, GatewayTypeOK, Jobs, Steps, LeasedSteps, Claiming, WithDriver,
     Restoring, Maintenance
<1>3. SlotFits'
  BY DEF SlotFits, TypeOK, Slots, Codes, Steps, LeasesFit, LeasedSteps, Claiming, WithDriver,
     Restoring, Maintenance
<1>4. BrowserFits'
  BY DEF BrowserFits, SlotFits, TypeOK, Steps, LeasesFit, LeasedSteps, Claiming, WithDriver,
     Restoring, Maintenance
<1>5. LostFits'
  BY DEF LostFits, SlotFits, BrowserFits, TypeOK, GatewayTypeOK, Steps, LeasesFit, LeasedSteps,
     Claiming, WithDriver, Restoring, Maintenance
<1>6. DiscFits'
  BY DEF DiscFits, LeasesFit, TypeOK, GatewayTypeOK, Holding, Steps, LeasedSteps, Claiming,
     WithDriver, Restoring, Maintenance
<1>7. RestoringIsQuiet'
  BY DEF RestoringIsQuiet, LeasesFit, TypeOK, GatewayTypeOK, Holding, Steps, LeasedSteps,
     Claiming, WithDriver, Restoring, Maintenance
<1> QED
  BY <1>1, <1>2, <1>3, <1>4, <1>5, <1>6, <1>7

LEMMA LoginStopKeeps ==
  ASSUME DiscInv, GatewayInv', LoginStop
  PROVE  DiscInv'
<1> USE DisconnectAssumption DEF DiscInv, LoginStop, StopDriver, At, Go, Keep, LeaseOnly,
     webVars, opVars, discVars, gatewayVars, admissionVars, holderVars
<1>a. step[Boot] = "off" /\ step[Op] # "off"
  BY MaintainerIsAlone DEF Maintenance
<1>1. TypeOK'
  <2>1. owner' \in BOOLEAN /\ windowOpen' \in BOOLEAN
    BY DEF TypeOK
  <2>2. lost' \subseteq {"recovery", "finish", "login", "disconnect"}
    BY DEF TypeOK
  <2>3. step' \in [{Boot, Op} -> Steps] /\ browser' \in {"none", "attempt", "driver", "window"}
    BY DEF TypeOK, Steps, Maintenance
  <2> QED
    BY <2>1, <2>2, <2>3 DEF TypeOK, GatewayInv
<1>2. LeasesFit'
  BY DEF LeasesFit, TypeOK, GatewayTypeOK, Jobs, Steps, LeasedSteps, Claiming, WithDriver,
     Restoring, Maintenance
<1>3. SlotFits'
  BY ZenonT(60), <1>a DEF SlotFits, TypeOK, Slots, Codes, Steps, LeasesFit, LeasedSteps, Claiming,
     WithDriver, Restoring, Maintenance
<1>4. BrowserFits'
  BY ZenonT(60), <1>a DEF BrowserFits, SlotFits, TypeOK, Steps, LeasesFit, LeasedSteps, Claiming,
     WithDriver, Restoring, Maintenance
<1>5. LostFits'
  BY <1>a DEF LostFits, SlotFits, BrowserFits, TypeOK, GatewayTypeOK, Steps, LeasesFit,
     LeasedSteps, Claiming, WithDriver, Restoring, Maintenance
<1>6. DiscFits'
  BY <1>a DEF DiscFits, LeasesFit, TypeOK, GatewayTypeOK, Holding, Steps, LeasedSteps, Claiming,
     WithDriver, Restoring, Maintenance
<1>7. RestoringIsQuiet'
  BY DEF RestoringIsQuiet, LeasesFit, TypeOK, GatewayTypeOK, Holding, Steps, LeasedSteps,
     Claiming, WithDriver, Restoring, Maintenance
<1> QED
  BY <1>1, <1>2, <1>3, <1>4, <1>5, <1>6, <1>7

LEMMA LoginLaunchKeeps ==
  ASSUME DiscInv, GatewayInv', LoginLaunch
  PROVE  DiscInv'
<1> USE DisconnectAssumption DEF DiscInv, LoginLaunch, At, Go, Keep, LeaseOnly, webVars, opVars,
     discVars, gatewayVars, admissionVars, holderVars
<1>a. step[Boot] = "off" /\ step[Op] # "off"
  BY MaintainerIsAlone DEF Maintenance
<1>1. TypeOK'
  <2>1. owner' \in BOOLEAN /\ windowOpen' \in BOOLEAN
    BY DEF TypeOK
  <2> QED
    BY <2>1 DEF TypeOK, GatewayInv, GatewayTypeOK, Steps, Slots, Codes, Jobs, States, Restoring,
       Maintenance
<1>2. LeasesFit'
  BY DEF LeasesFit, TypeOK, GatewayTypeOK, Jobs, Steps, LeasedSteps, Claiming, WithDriver,
     Restoring, Maintenance
<1>3. SlotFits'
  BY <1>a DEF SlotFits, TypeOK, Slots, Codes, Steps, LeasesFit, LeasedSteps, Claiming,
     WithDriver, Restoring, Maintenance
<1>4. BrowserFits'
  BY <1>a DEF BrowserFits, SlotFits, TypeOK, Steps, LeasesFit, LeasedSteps, Claiming,
     WithDriver, Restoring, Maintenance
<1>5. LostFits'
  BY <1>a DEF LostFits, SlotFits, BrowserFits, TypeOK, GatewayTypeOK, Steps, LeasesFit,
     LeasedSteps, Claiming, WithDriver, Restoring, Maintenance
<1>6. DiscFits'
  BY <1>a, DrainedIsQuiet DEF DiscFits, LeasesFit, TypeOK, GatewayTypeOK, Holding, Steps,
     LeasedSteps, Claiming, WithDriver, Restoring, Maintenance
<1>7. RestoringIsQuiet'
  BY DEF RestoringIsQuiet, LeasesFit, TypeOK, GatewayTypeOK, Holding, Steps, LeasedSteps,
     Claiming, WithDriver, Restoring, Maintenance
<1> QED
  BY <1>1, <1>2, <1>3, <1>4, <1>5, <1>6, <1>7

LEMMA FinishLoginKeeps ==
  ASSUME DiscInv, GatewayInv', FinishLogin
  PROVE  DiscInv'
<1> USE DisconnectAssumption DEF DiscInv, FinishLogin, At, Go, Keep, LeaseOnly, webVars, opVars,
     discVars, gatewayVars, admissionVars, holderVars
<1>a. step[Boot] = "off" /\ step[Op] # "off"
  BY MaintainerIsAlone DEF Maintenance
<1>1. TypeOK'
  BY DEF TypeOK, GatewayInv, GatewayTypeOK, Steps, Slots, Codes, Jobs, States, Restoring,
     Maintenance
<1>2. LeasesFit'
  BY DEF LeasesFit, TypeOK, GatewayTypeOK, Jobs, Steps, LeasedSteps, Claiming, WithDriver,
     Restoring, Maintenance
<1>3. SlotFits'
  BY <1>a DEF SlotFits, TypeOK, Slots, Codes, Steps, LeasesFit, LeasedSteps, Claiming,
     WithDriver, Restoring, Maintenance
<1>4. BrowserFits'
  BY <1>a DEF BrowserFits, SlotFits, TypeOK, Steps, LeasesFit, LeasedSteps, Claiming,
     WithDriver, Restoring, Maintenance
<1>5. LostFits'
  BY <1>a DEF LostFits, SlotFits, BrowserFits, TypeOK, GatewayTypeOK, Steps, LeasesFit,
     LeasedSteps, Claiming, WithDriver, Restoring, Maintenance
<1>6. DiscFits'
  BY <1>a DEF DiscFits, LeasesFit, TypeOK, GatewayTypeOK, Holding, Steps, LeasedSteps, Claiming,
     WithDriver, Restoring, Maintenance
<1>7. RestoringIsQuiet'
  BY DEF RestoringIsQuiet, LeasesFit, TypeOK, GatewayTypeOK, Holding, Steps, LeasedSteps,
     Claiming, WithDriver, Restoring, Maintenance
<1> QED
  BY <1>1, <1>2, <1>3, <1>4, <1>5, <1>6, <1>7

LEMMA QualifyKeeps ==
  ASSUME DiscInv, GatewayInv', Qualify
  PROVE  DiscInv'
<1> USE DisconnectAssumption DEF DiscInv, Qualify, VerifyIdle, At, Go, Keep, LeaseOnly, webVars,
     opVars, discVars, gatewayVars, admissionVars, holderVars
<1>1. TypeOK'
  BY DEF TypeOK, GatewayInv, GatewayTypeOK, Steps, Slots, Codes, Jobs, States, Restoring,
     Maintenance
<1>2. LeasesFit'
  BY DEF LeasesFit, TypeOK, GatewayTypeOK, Jobs, Steps, LeasedSteps, Claiming, WithDriver,
     Restoring, Maintenance
<1>3. SlotFits'
  BY DEF SlotFits, TypeOK, Slots, Codes, Steps, LeasesFit, LeasedSteps, Claiming, WithDriver,
     Restoring, Maintenance
<1>4. BrowserFits'
  BY DEF BrowserFits, SlotFits, TypeOK, Steps, LeasesFit, LeasedSteps, Claiming, WithDriver,
     Restoring, Maintenance
<1>5. LostFits'
  BY DEF LostFits, SlotFits, BrowserFits, TypeOK, GatewayTypeOK, Steps, LeasesFit, LeasedSteps,
     Claiming, WithDriver, Restoring, Maintenance
<1>6. DiscFits'
  BY DEF DiscFits, LeasesFit, TypeOK, GatewayTypeOK, Holding, Steps, LeasedSteps, Claiming,
     WithDriver, Restoring, Maintenance
<1>7. RestoringIsQuiet'
  BY DEF RestoringIsQuiet, LeasesFit, TypeOK, GatewayTypeOK, Holding, Steps, LeasedSteps,
     Claiming, WithDriver, Restoring, Maintenance
<1> QED
  BY <1>1, <1>2, <1>3, <1>4, <1>5, <1>6, <1>7

LEMMA QualifiedKeeps ==
  ASSUME DiscInv, GatewayInv', Qualified
  PROVE  DiscInv'
<1> USE DisconnectAssumption DEF DiscInv, Qualified, At, Go, Keep, LeaseOnly, webVars, opVars,
     discVars, gatewayVars, admissionVars, holderVars
<1>1. TypeOK'
  BY DEF TypeOK, GatewayInv, GatewayTypeOK, Steps, Slots, Codes, Jobs, States, Restoring,
     Maintenance
<1>2. LeasesFit'
  BY DEF LeasesFit, TypeOK, GatewayTypeOK, Jobs, Steps, LeasedSteps, Claiming, WithDriver,
     Restoring, Maintenance
<1>3. SlotFits'
  BY DEF SlotFits, TypeOK, Slots, Codes, Steps, LeasesFit, LeasedSteps, Claiming, WithDriver,
     Restoring, Maintenance
<1>4. BrowserFits'
  BY DEF BrowserFits, SlotFits, TypeOK, Steps, LeasesFit, LeasedSteps, Claiming, WithDriver,
     Restoring, Maintenance
<1>5. LostFits'
  BY DEF LostFits, SlotFits, BrowserFits, TypeOK, GatewayTypeOK, Steps, LeasesFit, LeasedSteps,
     Claiming, WithDriver, Restoring, Maintenance
<1>6. DiscFits'
  BY DEF DiscFits, LeasesFit, TypeOK, GatewayTypeOK, Holding, Steps, LeasedSteps, Claiming,
     WithDriver, Restoring, Maintenance
<1>7. RestoringIsQuiet'
  BY DEF RestoringIsQuiet, LeasesFit, TypeOK, GatewayTypeOK, Holding, Steps, LeasedSteps,
     Claiming, WithDriver, Restoring, Maintenance
<1> QED
  BY <1>1, <1>2, <1>3, <1>4, <1>5, <1>6, <1>7

LEMMA AdoptKeeps ==
  ASSUME DiscInv, GatewayInv', Adopt
  PROVE  DiscInv'
<1> USE DisconnectAssumption DEF DiscInv, Adopt, At, Go, Keep, LeaseOnly, webVars, opVars,
     discVars, gatewayVars, admissionVars, holderVars
<1>1. TypeOK'
  BY DEF TypeOK, GatewayInv, GatewayTypeOK, Steps, Slots, Codes, Jobs, States, Restoring,
     Maintenance
<1>2. LeasesFit'
  BY DEF LeasesFit, TypeOK, GatewayTypeOK, Jobs, Steps, LeasedSteps, Claiming, WithDriver,
     Restoring, Maintenance
<1>3. SlotFits'
  BY DEF SlotFits, TypeOK, Slots, Codes, Steps, LeasesFit, LeasedSteps, Claiming, WithDriver,
     Restoring, Maintenance
<1>4. BrowserFits'
  BY DEF BrowserFits, SlotFits, TypeOK, Steps, LeasesFit, LeasedSteps, Claiming, WithDriver,
     Restoring, Maintenance
<1>5. LostFits'
  BY DEF LostFits, SlotFits, BrowserFits, TypeOK, GatewayTypeOK, Steps, LeasesFit, LeasedSteps,
     Claiming, WithDriver, Restoring, Maintenance
<1>6. DiscFits'
  BY DEF DiscFits, LeasesFit, TypeOK, GatewayTypeOK, Holding, Steps, LeasedSteps, Claiming,
     WithDriver, Restoring, Maintenance
<1>7. RestoringIsQuiet'
  BY DEF RestoringIsQuiet, LeasesFit, TypeOK, GatewayTypeOK, Holding, Steps, LeasedSteps,
     Claiming, WithDriver, Restoring, Maintenance
<1> QED
  BY <1>1, <1>2, <1>3, <1>4, <1>5, <1>6, <1>7

LEMMA AskKeeps ==
  ASSUME DiscInv, GatewayInv', NEW kind \in Jobs \ {"none"}, Ask(kind)
  PROVE  DiscInv'
<1> USE DisconnectAssumption DEF DiscInv, Ask, Serving, At, Go, Keep, LeaseOnly, webVars,
     opVars, discVars, gatewayVars, admissionVars, holderVars
<1>1. TypeOK'
  BY DEF TypeOK, GatewayInv, GatewayTypeOK, Steps, Slots, Codes, Jobs, States, Restoring,
     Maintenance
<1>2. LeasesFit'
  BY DEF LeasesFit, TypeOK, GatewayTypeOK, Jobs, Steps, LeasedSteps, Claiming, WithDriver,
     Restoring, Maintenance
<1>3. SlotFits'
  BY DEF SlotFits, TypeOK, Slots, Codes, Steps, LeasesFit, LeasedSteps, Claiming, WithDriver,
     Restoring, Maintenance
<1>4. BrowserFits'
  BY DEF BrowserFits, SlotFits, TypeOK, Steps, LeasesFit, LeasedSteps, Claiming, WithDriver,
     Restoring, Maintenance
<1>5. LostFits'
  BY DEF LostFits, SlotFits, BrowserFits, TypeOK, GatewayTypeOK, Steps, LeasesFit, LeasedSteps,
     Claiming, WithDriver, Restoring, Maintenance
<1>6. DiscFits'
  BY DEF DiscFits, LeasesFit, TypeOK, GatewayTypeOK, Holding, Steps, LeasedSteps, Claiming,
     WithDriver, Restoring, Maintenance
<1>7. RestoringIsQuiet'
  BY DEF RestoringIsQuiet, LeasesFit, TypeOK, GatewayTypeOK, Holding, Steps, LeasedSteps,
     Claiming, WithDriver, Restoring, Maintenance
<1> QED
  BY <1>1, <1>2, <1>3, <1>4, <1>5, <1>6, <1>7

LEMMA RequestKeeps ==
  ASSUME DiscInv, GatewayInv', NEW r \in Requests, Request(r)
  PROVE  DiscInv'
<1> USE DisconnectAssumption DEF DiscInv, Request, Serving, Acquire, Panic, Drop, Clean,
     DropPanicking, Discount, Notified, At, Go, Keep, LeaseOnly, webVars, opVars, discVars,
     gatewayVars, admissionVars, holderVars
<1>1. TypeOK'
  BY DEF TypeOK, GatewayInv, GatewayTypeOK, Steps, Slots, Codes, Jobs, States, Restoring,
     Maintenance
<1>2. LeasesFit'
  BY DEF LeasesFit, TypeOK, GatewayTypeOK, Jobs, Steps, LeasedSteps, Claiming, WithDriver,
     Restoring, Maintenance
<1>3. SlotFits'
  BY DEF SlotFits, TypeOK, Slots, Codes, Steps, LeasesFit, LeasedSteps, Claiming, WithDriver,
     Restoring, Maintenance
<1>4. BrowserFits'
  BY DEF BrowserFits, SlotFits, TypeOK, Steps, LeasesFit, LeasedSteps, Claiming, WithDriver,
     Restoring, Maintenance
<1>5. LostFits'
  BY DEF LostFits, SlotFits, BrowserFits, TypeOK, GatewayTypeOK, Steps, LeasesFit, LeasedSteps,
     Claiming, WithDriver, Restoring, Maintenance
<1>6. DiscFits'
  BY DEF DiscFits, LeasesFit, TypeOK, GatewayTypeOK, Holding, Steps, LeasedSteps, Claiming,
     WithDriver, Restoring, Maintenance
<1>7. RestoringIsQuiet'
  BY DEF RestoringIsQuiet, LeasesFit, TypeOK, GatewayTypeOK, Holding, Steps, LeasedSteps,
     Claiming, WithDriver, Restoring, Maintenance
<1> QED
  BY <1>1, <1>2, <1>3, <1>4, <1>5, <1>6, <1>7

LEMMA CloseWindowKeeps ==
  ASSUME DiscInv, GatewayInv', CloseWindow
  PROVE  DiscInv'
<1> USE DisconnectAssumption DEF DiscInv, CloseWindow, At, Go, Keep, LeaseOnly, webVars, opVars,
     discVars, gatewayVars, admissionVars, holderVars
<1>1. TypeOK'
  <2>1. owner' \in BOOLEAN /\ windowOpen' \in BOOLEAN
    BY DEF TypeOK
  <2> QED
    BY <2>1 DEF TypeOK, GatewayInv, GatewayTypeOK, Steps, Slots, Codes, Jobs, States, Restoring,
       Maintenance
<1>2. LeasesFit'
  BY DEF LeasesFit, TypeOK, GatewayTypeOK, Jobs, Steps, LeasedSteps, Claiming, WithDriver,
     Restoring, Maintenance
<1>3. SlotFits'
  BY DEF SlotFits, TypeOK, Slots, Codes, Steps, LeasesFit, LeasedSteps, Claiming, WithDriver,
     Restoring, Maintenance
<1>4. BrowserFits'
  BY DEF BrowserFits, SlotFits, TypeOK, Steps, LeasesFit, LeasedSteps, Claiming, WithDriver,
     Restoring, Maintenance
<1>5. LostFits'
  BY DEF LostFits, SlotFits, BrowserFits, TypeOK, GatewayTypeOK, Steps, LeasesFit, LeasedSteps,
     Claiming, WithDriver, Restoring, Maintenance
<1>6. DiscFits'
  BY DEF DiscFits, LeasesFit, TypeOK, GatewayTypeOK, Holding, Steps, LeasedSteps, Claiming,
     WithDriver, Restoring, Maintenance
<1>7. RestoringIsQuiet'
  BY DEF RestoringIsQuiet, LeasesFit, TypeOK, GatewayTypeOK, Holding, Steps, LeasedSteps,
     Claiming, WithDriver, Restoring, Maintenance
<1> QED
  BY <1>1, <1>2, <1>3, <1>4, <1>5, <1>6, <1>7

LEMMA AskDisconnectKeeps ==
  ASSUME DiscInv, GatewayInv', AskDisconnect
  PROVE  DiscInv'
<1> USE DisconnectAssumption DEF DiscInv, AskDisconnect, Serving, BeginDrain, DiscGo, Advance,
     At, Go, Keep, LeaseOnly, webVars, opVars, discVars, gatewayVars, admissionVars, holderVars
<1>1. TypeOK'
  BY DEF TypeOK, GatewayInv, GatewayTypeOK, Steps, Slots, Codes, Jobs, States, Restoring,
     Maintenance
<1>2. LeasesFit'
  BY DEF LeasesFit, TypeOK, GatewayTypeOK, Jobs, Steps, LeasedSteps, Claiming, WithDriver,
     Restoring, Maintenance
<1>3. SlotFits'
  BY DEF SlotFits, TypeOK, Slots, Codes, Steps, LeasesFit, LeasedSteps, Claiming, WithDriver,
     Restoring, Maintenance
<1>4. BrowserFits'
  BY DEF BrowserFits, SlotFits, TypeOK, Steps, LeasesFit, LeasedSteps, Claiming, WithDriver,
     Restoring, Maintenance
<1>5. LostFits'
  BY DEF LostFits, SlotFits, BrowserFits, TypeOK, GatewayTypeOK, Steps, LeasesFit, LeasedSteps,
     Claiming, WithDriver, Restoring, Maintenance
<1>6. DiscFits'
  BY DEF DiscFits, LeasesFit, TypeOK, GatewayTypeOK, Holding, Steps, LeasedSteps, Claiming,
     WithDriver, Restoring, Maintenance
<1>7. RestoringIsQuiet'
  BY DEF RestoringIsQuiet, LeasesFit, TypeOK, GatewayTypeOK, Holding, Steps, LeasedSteps,
     Claiming, WithDriver, Restoring, Maintenance
<1> QED
  BY <1>1, <1>2, <1>3, <1>4, <1>5, <1>6, <1>7

LEMMA AskDisconnectWhenIdleKeeps ==
  ASSUME DiscInv, GatewayInv', AskDisconnectWhenIdle
  PROVE  DiscInv'
<1> USE DisconnectAssumption DEF DiscInv, AskDisconnectWhenIdle, Serving, CloseIfIdle, DiscGo,
     Advance, At, Go, Keep, LeaseOnly, webVars, opVars, discVars, gatewayVars, admissionVars,
     holderVars
<1>1. TypeOK'
  BY DEF TypeOK, GatewayInv, GatewayTypeOK, Steps, Slots, Codes, Jobs, States, Restoring,
     Maintenance
<1>2. LeasesFit'
  BY DEF LeasesFit, TypeOK, GatewayTypeOK, Jobs, Steps, LeasedSteps, Claiming, WithDriver,
     Restoring, Maintenance
<1>3. SlotFits'
  BY DEF SlotFits, TypeOK, Slots, Codes, Steps, LeasesFit, LeasedSteps, Claiming, WithDriver,
     Restoring, Maintenance
<1>4. BrowserFits'
  BY DEF BrowserFits, SlotFits, TypeOK, Steps, LeasesFit, LeasedSteps, Claiming, WithDriver,
     Restoring, Maintenance
<1>5. LostFits'
  BY DEF LostFits, SlotFits, BrowserFits, TypeOK, GatewayTypeOK, Steps, LeasesFit, LeasedSteps,
     Claiming, WithDriver, Restoring, Maintenance
<1>6. DiscFits'
  BY DEF DiscFits, LeasesFit, TypeOK, GatewayTypeOK, Holding, Steps, LeasedSteps, Claiming,
     WithDriver, Restoring, Maintenance
<1>7. RestoringIsQuiet'
  BY DEF RestoringIsQuiet, LeasesFit, TypeOK, GatewayTypeOK, Holding, Steps, LeasedSteps,
     Claiming, WithDriver, Restoring, Maintenance
<1> QED
  BY <1>1, <1>2, <1>3, <1>4, <1>5, <1>6, <1>7

LEMMA EnterDrainingKeeps ==
  ASSUME DiscInv, GatewayInv', EnterDraining
  PROVE  DiscInv'
<1> USE DisconnectAssumption DEF DiscInv, EnterDraining, DiscGo, At, Go, Keep, LeaseOnly,
     webVars, opVars, discVars, gatewayVars, admissionVars, holderVars
<1>1. TypeOK'
  BY DEF TypeOK, GatewayInv, GatewayTypeOK, Steps, Slots, Codes, Jobs, States, Restoring,
     Maintenance
<1>2. LeasesFit'
  BY DEF LeasesFit, TypeOK, GatewayTypeOK, Jobs, Steps, LeasedSteps, Claiming, WithDriver,
     Restoring, Maintenance
<1>3. SlotFits'
  BY DEF SlotFits, TypeOK, Slots, Codes, Steps, LeasesFit, LeasedSteps, Claiming, WithDriver,
     Restoring, Maintenance
<1>4. BrowserFits'
  BY DEF BrowserFits, SlotFits, TypeOK, Steps, LeasesFit, LeasedSteps, Claiming, WithDriver,
     Restoring, Maintenance
<1>5. LostFits'
  BY DEF LostFits, SlotFits, BrowserFits, TypeOK, GatewayTypeOK, Steps, LeasesFit, LeasedSteps,
     Claiming, WithDriver, Restoring, Maintenance
<1>6. DiscFits'
  BY DEF DiscFits, LeasesFit, TypeOK, GatewayTypeOK, Holding, Steps, LeasedSteps, Claiming,
     WithDriver, Restoring, Maintenance
<1>7. RestoringIsQuiet'
  BY DEF RestoringIsQuiet, LeasesFit, TypeOK, GatewayTypeOK, Holding, Steps, LeasedSteps,
     Claiming, WithDriver, Restoring, Maintenance
<1> QED
  BY <1>1, <1>2, <1>3, <1>4, <1>5, <1>6, <1>7

LEMMA DrainingKeeps ==
  ASSUME DiscInv, GatewayInv', Draining
  PROVE  DiscInv'
<1> USE DisconnectAssumption DEF DiscInv, Draining, DrainStep, CloseAdmission, CutOff, Arm,
     CheckDrained, Advance, At, Go, Keep, LeaseOnly, webVars, opVars, discVars, gatewayVars,
     admissionVars, holderVars
<1>1. TypeOK'
  BY DEF TypeOK, GatewayInv, GatewayTypeOK, Steps, Slots, Codes, Jobs, States, Restoring,
     Maintenance
<1>2. LeasesFit'
  BY DEF LeasesFit, TypeOK, GatewayTypeOK, Jobs, Steps, LeasedSteps, Claiming, WithDriver,
     Restoring, Maintenance
<1>3. SlotFits'
  BY DEF SlotFits, TypeOK, Slots, Codes, Steps, LeasesFit, LeasedSteps, Claiming, WithDriver,
     Restoring, Maintenance
<1>4. BrowserFits'
  BY DEF BrowserFits, SlotFits, TypeOK, Steps, LeasesFit, LeasedSteps, Claiming, WithDriver,
     Restoring, Maintenance
<1>5. LostFits'
  BY DEF LostFits, SlotFits, BrowserFits, TypeOK, GatewayTypeOK, Steps, LeasesFit, LeasedSteps,
     Claiming, WithDriver, Restoring, Maintenance
<1>6. DiscFits'
  BY DEF DiscFits, LeasesFit, TypeOK, GatewayTypeOK, Holding, Steps, LeasedSteps, Claiming,
     WithDriver, Restoring, Maintenance
<1>7. RestoringIsQuiet'
  BY DEF RestoringIsQuiet, LeasesFit, TypeOK, GatewayTypeOK, Holding, Steps, LeasedSteps,
     Claiming, WithDriver, Restoring, Maintenance
<1> QED
  BY <1>1, <1>2, <1>3, <1>4, <1>5, <1>6, <1>7

LEMMA DeadlineKeeps ==
  ASSUME DiscInv, GatewayInv', Deadline
  PROVE  DiscInv'
<1> USE DisconnectAssumption DEF DiscInv, Deadline, TimeOut, Advance, At, Go, Keep, LeaseOnly,
     webVars, opVars, discVars, gatewayVars, admissionVars, holderVars
<1>1. TypeOK'
  BY DEF TypeOK, GatewayInv, GatewayTypeOK, Steps, Slots, Codes, Jobs, States, Restoring,
     Maintenance
<1>2. LeasesFit'
  BY DEF LeasesFit, TypeOK, GatewayTypeOK, Jobs, Steps, LeasedSteps, Claiming, WithDriver,
     Restoring, Maintenance
<1>3. SlotFits'
  BY DEF SlotFits, TypeOK, Slots, Codes, Steps, LeasesFit, LeasedSteps, Claiming, WithDriver,
     Restoring, Maintenance
<1>4. BrowserFits'
  BY DEF BrowserFits, SlotFits, TypeOK, Steps, LeasesFit, LeasedSteps, Claiming, WithDriver,
     Restoring, Maintenance
<1>5. LostFits'
  BY DEF LostFits, SlotFits, BrowserFits, TypeOK, GatewayTypeOK, Steps, LeasesFit, LeasedSteps,
     Claiming, WithDriver, Restoring, Maintenance
<1>6. DiscFits'
  BY DEF DiscFits, LeasesFit, TypeOK, GatewayTypeOK, Holding, Steps, LeasedSteps, Claiming,
     WithDriver, Restoring, Maintenance
<1>7. RestoringIsQuiet'
  BY DEF RestoringIsQuiet, LeasesFit, TypeOK, GatewayTypeOK, Holding, Steps, LeasedSteps,
     Claiming, WithDriver, Restoring, Maintenance
<1> QED
  BY <1>1, <1>2, <1>3, <1>4, <1>5, <1>6, <1>7

LEMMA DrainReturnsKeeps ==
  ASSUME DiscInv, GatewayInv', DrainReturns
  PROVE  DiscInv'
<1> USE DisconnectAssumption DEF DiscInv, DrainReturns, DiscGo, DiscFails, At, Go, Keep,
     LeaseOnly, webVars, opVars, discVars, gatewayVars, admissionVars, holderVars
<1>1. TypeOK'
  BY DEF TypeOK, GatewayInv, GatewayTypeOK, Steps, Slots, Codes, Jobs, States, Restoring,
     Maintenance
<1>2. LeasesFit'
  BY DEF LeasesFit, TypeOK, GatewayTypeOK, Jobs, Steps, LeasedSteps, Claiming, WithDriver,
     Restoring, Maintenance
<1>3. SlotFits'
  BY DEF SlotFits, TypeOK, Slots, Codes, Steps, LeasesFit, LeasedSteps, Claiming, WithDriver,
     Restoring, Maintenance
<1>4. BrowserFits'
  BY DEF BrowserFits, SlotFits, TypeOK, Steps, LeasesFit, LeasedSteps, Claiming, WithDriver,
     Restoring, Maintenance
<1>5. LostFits'
  BY DEF LostFits, SlotFits, BrowserFits, TypeOK, GatewayTypeOK, Steps, LeasesFit, LeasedSteps,
     Claiming, WithDriver, Restoring, Maintenance
<1>6. DiscFits'
  BY DEF DiscFits, LeasesFit, TypeOK, GatewayTypeOK, Holding, Steps, LeasedSteps, Claiming,
     WithDriver, Restoring, Maintenance
<1>7. RestoringIsQuiet'
  BY DEF RestoringIsQuiet, LeasesFit, TypeOK, GatewayTypeOK, Holding, Steps, LeasedSteps,
     Claiming, WithDriver, Restoring, Maintenance, DiscFits
<1> QED
  BY <1>1, <1>2, <1>3, <1>4, <1>5, <1>6, <1>7

LEMMA ReleaseLoginKeeps ==
  ASSUME DiscInv, GatewayInv', ReleaseLogin
  PROVE  DiscInv'
<1> USE DisconnectAssumption DEF DiscInv, ReleaseLogin, DiscGo, DiscFails, At, Go, Keep,
     LeaseOnly, webVars, opVars, discVars, gatewayVars, admissionVars, holderVars
<1>a. /\ Holding = {} /\ ~accepting /\ ~spoilt
      /\ \A a \in {Boot, Op} : step[a] \notin LeasedSteps \cup {"retrying"}
  BY DrainedIsQuiet
<1>1. TypeOK'
  BY DEF TypeOK, GatewayInv, GatewayTypeOK, Steps, Slots, Codes, Jobs, States, Restoring,
     Maintenance
<1>2. LeasesFit'
  BY DEF LeasesFit, TypeOK, GatewayTypeOK, Jobs, Steps, LeasedSteps, Claiming, WithDriver,
     Restoring, Maintenance
<1>3. SlotFits'
  BY <1>a DEF SlotFits, TypeOK, Slots, Codes, Steps, LeasesFit, LeasedSteps, Claiming,
     WithDriver, Restoring, Maintenance
<1>4. BrowserFits'
  BY <1>a DEF BrowserFits, SlotFits, TypeOK, Steps, LeasesFit, LeasedSteps, Claiming,
     WithDriver, Restoring, Maintenance
<1>5. LostFits'
  BY <1>a DEF LostFits, SlotFits, BrowserFits, TypeOK, GatewayTypeOK, Steps, LeasesFit,
     LeasedSteps, Claiming, WithDriver, Restoring, Maintenance
<1>6. DiscFits'
  BY <1>a DEF DiscFits, LeasesFit, TypeOK, GatewayTypeOK, Holding, Steps, LeasedSteps, Claiming,
     WithDriver, Restoring, Maintenance
<1>7. RestoringIsQuiet'
  BY <1>a DEF RestoringIsQuiet, LeasesFit, TypeOK, GatewayTypeOK, Holding, Steps, LeasedSteps,
     Claiming, WithDriver, Restoring, Maintenance
<1> QED
  BY <1>1, <1>2, <1>3, <1>4, <1>5, <1>6, <1>7

LEMMA ReleaseBrowserKeeps ==
  ASSUME DiscInv, GatewayInv', ReleaseBrowser
  PROVE  DiscInv'
<1> USE DisconnectAssumption DEF DiscInv, ReleaseBrowser, StopDriver, Forgotten, DiscGo,
     DiscFails, At, Go, Keep, LeaseOnly, webVars, opVars, discVars, gatewayVars, admissionVars,
     holderVars
<1>a. /\ Holding = {} /\ ~accepting /\ ~spoilt
      /\ \A a \in {Boot, Op} : step[a] \notin LeasedSteps \cup {"retrying"}
  BY DrainedIsQuiet
<1>1. TypeOK'
  <2>1. owner' \in BOOLEAN /\ windowOpen' \in BOOLEAN
    BY DEF TypeOK
  <2> QED
    BY ZenonT(60), <2>1 DEF TypeOK, GatewayInv, GatewayTypeOK, Steps, Slots, Codes, Jobs, States, Restoring,
       Maintenance
<1>2. LeasesFit'
  BY DEF LeasesFit, TypeOK, GatewayTypeOK, Jobs, Steps, LeasedSteps, Claiming, WithDriver,
     Restoring, Maintenance
<1>3. SlotFits'
  BY <1>a DEF SlotFits, TypeOK, Slots, Codes, Steps, LeasesFit, LeasedSteps, Claiming,
     WithDriver, Restoring, Maintenance
<1>4. BrowserFits'
  BY <1>a DEF BrowserFits, SlotFits, TypeOK, Steps, LeasesFit, LeasedSteps, Claiming,
     WithDriver, Restoring, Maintenance
<1>5. LostFits'
  BY <1>a DEF LostFits, SlotFits, BrowserFits, TypeOK, GatewayTypeOK, Steps, LeasesFit,
     LeasedSteps, Claiming, WithDriver, Restoring, Maintenance
<1>6. DiscFits'
  BY <1>a DEF DiscFits, LeasesFit, TypeOK, GatewayTypeOK, Holding, Steps, LeasedSteps, Claiming,
     WithDriver, Restoring, Maintenance
<1>7. RestoringIsQuiet'
  <2>1. CASE disc' = "restoring"
    <3>1. browser' = "none"
      BY <1>a, <2>1 DEF BrowserFits, DiscFits, TypeOK, WithDriver, LeasedSteps, Restoring
    <3>2. lost' = lost /\ (owner => browser = "driver") /\ ~owner' /\ slot' = "disconnected"
      BY <2>1
    <3>3. lost \subseteq {"finish"}
      BY <1>a, <3>2 DEF LostFits, TypeOK, LeasedSteps, Restoring
    <3> QED
      BY <1>a, <3>1, <3>2, <3>3 DEF RestoringIsQuiet, Holding
  <2>2. CASE disc' # "restoring"
    BY <2>2 DEF RestoringIsQuiet
  <2> QED
    BY <2>1, <2>2
<1> QED
  BY <1>1, <1>2, <1>3, <1>4, <1>5, <1>6, <1>7

LEMMA RestoreConfigKeeps ==
  ASSUME DiscInv, GatewayInv', RestoreConfig
  PROVE  DiscInv'
<1> USE DisconnectAssumption DEF DiscInv, RestoreConfig, DiscGo, DiscFails, At, Go, Keep,
     LeaseOnly, webVars, opVars, discVars, gatewayVars, admissionVars, holderVars
<1>1. TypeOK'
  BY DEF TypeOK, GatewayInv, GatewayTypeOK, Steps, Slots, Codes, Jobs, States, Restoring,
     Maintenance
<1>2. LeasesFit'
  BY DEF LeasesFit, TypeOK, GatewayTypeOK, Jobs, Steps, LeasedSteps, Claiming, WithDriver,
     Restoring, Maintenance
<1>3. SlotFits'
  BY DEF SlotFits, TypeOK, Slots, Codes, Steps, LeasesFit, LeasedSteps, Claiming, WithDriver,
     Restoring, Maintenance
<1>4. BrowserFits'
  BY DEF BrowserFits, SlotFits, TypeOK, Steps, LeasesFit, LeasedSteps, Claiming, WithDriver,
     Restoring, Maintenance
<1>5. LostFits'
  BY DEF LostFits, SlotFits, BrowserFits, TypeOK, GatewayTypeOK, Steps, LeasesFit, LeasedSteps,
     Claiming, WithDriver, Restoring, Maintenance
<1>6. DiscFits'
  BY DEF DiscFits, LeasesFit, TypeOK, GatewayTypeOK, Holding, Steps, LeasedSteps, Claiming,
     WithDriver, Restoring, Maintenance
<1>7. RestoringIsQuiet'
  BY DEF RestoringIsQuiet, LeasesFit, TypeOK, GatewayTypeOK, Holding, Steps, LeasedSteps,
     Claiming, WithDriver, Restoring, Maintenance, DiscFits
<1> QED
  BY <1>1, <1>2, <1>3, <1>4, <1>5, <1>6, <1>7
-----------------------------------------------------------------------------
LEMMA DisconnectInitially ==
  ASSUME Init
  PROVE  DiscInv
<1> USE DisconnectAssumption
<1>1. PICK open \in BOOLEAN, s \in {"recovering", "ready", "failed"}, d \in BOOLEAN,
           b \in {"none", "driver"}, boot \in {"retrying", "off"} :
        /\ Started(open, s, d, b, boot)
        /\ open <=> s # "failed"
        /\ boot = "retrying" <=> s = "recovering"
        /\ d <=> s = "ready"
        /\ b = "driver" <=> s = "ready"
        /\ state \in {"idle", "pendingRestart", "restoreFailed"}
        /\ open => state = "idle"
  BY DEF Init
<1>2. GatewayInv /\ Holding = {} /\ (accepting <=> open) /\ lease[Boot] = "none" /\ lease[Op] = "none"
      /\ GatewayTypeOK
  BY <1>1, GatewayInitially DEF Started, GatewayInit, Holding, GatewayInv
<1>3. /\ step[Boot] = boot /\ step[Op] = "off" /\ lost = {} /\ disc = "off" /\ job = "none"
      /\ slot = s /\ (owner <=> d) /\ browser = b /\ (managed <=> open)
      /\ step \in [{Boot, Op} -> Steps] /\ code \in [{Boot, Op} -> Codes]
      /\ windowOpen = FALSE /\ reason = "none" /\ owner \in BOOLEAN /\ managed \in BOOLEAN
  BY <1>1 DEF Started, Steps, Codes, Restoring, Maintenance
<1>4. TypeOK
  BY <1>1, <1>2, <1>3 DEF TypeOK, States, Slots, Codes, Jobs
<1>5. LeasesFit
  BY <1>1, <1>2, <1>3 DEF LeasesFit, LeasedSteps, Restoring, Maintenance
<1>6. SlotFits
  BY <1>1, <1>3 DEF SlotFits, Claiming, Restoring
<1>7. BrowserFits /\ LostFits /\ DiscFits
  BY <1>1, <1>2, <1>3 DEF BrowserFits, LostFits, DiscFits, WithDriver
<1>8. RestoringIsQuiet
  BY <1>1, <1>2, <1>3 DEF RestoringIsQuiet
<1> QED
  BY <1>2, <1>4, <1>5, <1>6, <1>7, <1>8 DEF DiscInv

LEMMA DisconnectStep ==
  ASSUME DiscInv, [Next]_vars
  PROVE  DiscInv'
<1>1. GatewayInv'
  BY StepsOfTheGate, GatewayStep DEF DiscInv
<1>2. CASE UNCHANGED vars
  BY <1>1, <1>2 DEF vars, webVars, opVars, discVars, gatewayVars, admissionVars, holderVars,
     DiscInv, TypeOK, GatewayInv, LeasesFit, SlotFits, BrowserFits, LostFits, DiscFits,
     RestoringIsQuiet, Holding
<1>3. ASSUME NEW a \in {Boot, Op}, Worker(a)
      PROVE  DiscInv'
  BY <1>1, <1>3, LaunchKeeps, VerifyKeeps, AttachKeeps, OpenLedgerKeeps, UndoKeeps, PublishKeeps,
     RetireKeeps, ConcludeKeeps, BeginRecoveryKeeps, ReportKeeps, LeaveKeeps DEF Worker, RestoreStep
<1>4. CASE OpStep
  BY <1>1, <1>4, CheckKeeps, BeginRetryKeeps, TurnedAwayKeeps, BeginJobKeeps, LoginKeeps,
     LoginStopKeeps, LoginLaunchKeeps, FinishLoginKeeps, QualifyKeeps, QualifiedKeeps, AdoptKeeps
     DEF OpStep
<1>5. CASE \E kind \in Jobs \ {"none"} : Ask(kind)
  BY <1>1, <1>5, AskKeeps
<1>6. CASE \E r \in Requests : Request(r)
  BY <1>1, <1>6, RequestKeeps
<1>7. CASE CloseWindow
  BY <1>1, <1>7, CloseWindowKeeps
<1>8. CASE AskDisconnect \/ AskDisconnectWhenIdle \/ DiscStep \/ Deadline
  BY <1>1, <1>8, AskDisconnectKeeps, AskDisconnectWhenIdleKeeps, EnterDrainingKeeps, DrainingKeeps,
     DeadlineKeeps, DrainReturnsKeeps, ReleaseLoginKeeps, ReleaseBrowserKeeps, RestoreConfigKeeps
     DEF DiscStep
<1> QED
  BY <1>2, <1>3, <1>4, <1>5, <1>6, <1>7, <1>8 DEF Next

LEMMA DisconnectAlways == Spec => []DiscInv
BY DisconnectInitially, DisconnectStep, PTL DEF Spec

\* The disconnect, the recoveries and the operations use the gate as Gateway describes it,
\* so that whatever holds of the gate holds here.
THEOREM DisconnectImplementsGateway == Spec => GatewaySpec
<1>1. Init => \E open \in BOOLEAN : GatewayInit(open)
  BY DEF Init, Started
<1> QED
  BY <1>1, StepsOfTheGate, PTL DEF Spec, GatewaySpec

\* TypeOK (Disconnect): lifecycle.rs, web_recovery.rs and the gate stay in range, for any set of
\* requests and any bound on what the user asks for.
THEOREM DisconnectTypeCorrect == Spec => []TypeOK
<1>1. DiscInv => TypeOK
  BY DEF DiscInv
<1> QED
  BY <1>1, DisconnectAlways, PTL

\* RestoringIsQuiet (Disconnect): the disconnect of lifecycle.rs restores the user's
\* configuration, and it stays restored, only with the web side at rest.
THEOREM RestoresAtRest == Spec => []RestoringIsQuiet
<1>1. DiscInv => RestoringIsQuiet
  BY DEF DiscInv
<1> QED
  BY <1>1, DisconnectAlways, PTL

\* NothingIsAbandoned (Disconnect): however a recovery of web_recovery.rs ends, cancelled at
\* any point or failed, no slot stays pending and no browser without an owner.
THEOREM RecoveriesAreSettled == Spec => []NothingIsAbandoned
<1>1. DiscInv => NothingIsAbandoned
  <2>1. SlotFits => (slot = "recovering" =>
                       \E a \in {Boot, Op} : step[a] \in Restoring \cup {"retrying"})
    BY DEF SlotFits, Claiming
  <2> QED
    BY <2>1 DEF DiscInv, BrowserFits, WithDriver, NothingIsAbandoned
<1> QED
  BY <1>1, DisconnectAlways, PTL

\* LateResultIsNotPublished (Disconnect, a part of DisconnectEnds): a recovery that succeeds
\* after the gateway has cancelled its work does not make the web available again.
THEOREM LateResultsAreDropped == Spec => LateResultIsNotPublished
<1>1. DiscInv /\ [Next]_vars => [cutOff /\ slot' = "ready" => slot = "ready"]_vars
  <2> SUFFICES ASSUME DiscInv, Next, cutOff, slot' = "ready", slot # "ready"
               PROVE  FALSE
    BY DEF vars
  <2> USE DEF webVars, opVars, discVars, gatewayVars, Go, Keep, At, LeaseOnly
  <2>1. \A a \in {Boot, Op} : ~Worker(a)
    BY DEF Worker, RestoreStep, BeginRecovery, Report, Leave, Launch, Verify, Attach, OpenLedger,
       Undo, Publish, Retire, Conclude, Stored, DiscInv, TypeOK, Codes
  <2>2. ~OpStep
    BY DEF OpStep, Check, BeginRetry, TurnedAway, BeginJob, Login, LoginStop, LoginLaunch,
       FinishLogin, Qualify, Qualified, Adopt, DiscInv, SlotFits
  <2>3. /\ ~\E kind \in Jobs \ {"none"} : Ask(kind)
        /\ ~\E r \in Requests : Request(r)
        /\ ~CloseWindow /\ ~AskDisconnect /\ ~AskDisconnectWhenIdle /\ ~Deadline
    BY DEF Ask, Request, CloseWindow, AskDisconnect, AskDisconnectWhenIdle, Deadline
  <2>4. ~DiscStep
    BY DEF DiscStep, EnterDraining, Draining, DrainReturns, ReleaseLogin, ReleaseBrowser,
       RestoreConfig, Forgotten
  <2> QED
    BY <2>1, <2>2, <2>3, <2>4 DEF Next
<1> QED
  BY <1>1, DisconnectAlways, PTL DEF Spec, LateResultIsNotPublished
=============================================================================
