----------------------------- MODULE Disconnect ------------------------------
(***************************************************************************)
(* Disconnecting an installed gateway while its web session is recovered,  *)
(* signed in again or qualified: the DisconnectController of               *)
(* crates/runtime/src/lifecycle.rs, the provider slot and recovery of      *)
(* crates/runtime/src/web_recovery.rs, the recovery at start of host.rs    *)
(* and the admission of control operations of control_protocol.rs, over    *)
(* the leases of Gateway.                                                  *)
(*                                                                         *)
(* Boot is the recovery the host starts with, Op the one control operation *)
(* that may run besides a disconnect, Disc the disconnect.  What is done   *)
(* between two awaits is one action.  The browser's profile lock admits    *)
(* one process, so `browser` is one variable.                              *)
(***************************************************************************)
EXTENDS Gateway

CONSTANTS Requests, \* requests of clients
          Boot, Op, \* who else may hold a lease
          Disc      \* the disconnect

ASSUME DisconnectAssumption ==
  /\ Boot # Op /\ {Boot, Op} \cap Requests = {}
  /\ Actors = Requests \cup {Boot, Op}
  /\ Drains = {Disc}

VARIABLES state,      \* DisconnectState
          disc,       \* where the disconnect is
          slot,       \* PendingProvider.0: what requests find
          owner,      \* PendingProvider.1: a browser driver is known
          browser,    \* who has the browser and its profile
          windowOpen, \* the user has not closed the sign-in window
          job,        \* the control operation under way
          step,       \* where the recovery or operation of an actor is
          code,       \* the error it will store
          lost,       \* history: during what the exit of a browser was not confirmed
          reason,     \* history: why the last disconnect failed
          managed     \* a RecoveryController is attached

webVars == <<slot, owner, browser, windowOpen, lost>>
opVars == <<job, step, code>>
discVars == <<state, disc, reason>>
vars == <<gatewayVars, webVars, opVars, discVars, managed>>

States == {"idle", "draining", "restoring", "pendingRestart", "drainFailed", "restoreFailed"}
Codes == {"retryable", "login", "failed", "cancelled", "cleanup"}
Slots == {"recovering", "ready", "window", "disconnected"} \cup Codes
Restoring == {"launching", "verifying", "attached", "ledger", "undoing",
              "publishing", "retiring", "concluding"}
Maintenance == {"login", "loginStop", "loginLaunch", "finish", "qualify", "qualifying", "adopting"}
Steps == Restoring \cup Maintenance \cup {"off", "asked", "begin", "retrying", "dirty", "done"}
Jobs == {"none", "retry", "login", "finish", "qualify"}

TypeOK ==
  /\ GatewayTypeOK
  /\ state \in States
  /\ disc \in {"off", "entered", "draining", "releasing", "stopping", "restoring"}
  /\ slot \in Slots
  /\ owner \in BOOLEAN
  /\ browser \in {"none", "attempt", "driver", "window"}
  /\ windowOpen \in BOOLEAN
  /\ job \in Jobs
  /\ step \in [{Boot, Op} -> Steps]
  /\ code \in [{Boot, Op} -> Codes]
  /\ lost \subseteq {"recovery", "finish", "login", "disconnect"}
  /\ reason \in {"none", "drain", "window", "unconfirmed", "refused", "busy", "config"}
  /\ managed \in BOOLEAN

At(a, s) == step[a] = s
Go(a, s) == step' = [step EXCEPT ![a] = s]
Keep(a, c) == code' = [code EXCEPT ![a] = c]
LeaseOnly == UNCHANGED <<webVars, discVars, managed>>

Started(open, s, d, b, boot) ==
  /\ GatewayInit(open)
  /\ slot = s /\ owner = d /\ browser = b
  /\ windowOpen = FALSE /\ lost = {}
  /\ disc = "off" /\ reason = "none"
  /\ job = "none"
  /\ step = [a \in {Boot, Op} |-> IF a = Boot THEN boot ELSE "off"]
  /\ code = [a \in {Boot, Op} |-> "failed"]
  /\ managed = open

\* An installation whose web session is to be recovered, the same one right after
\* its activation, and one that only forwards native traffic.
Init ==
  \/ Started(TRUE, "recovering", FALSE, "none", "retrying") /\ state = "idle"
  \/ Started(TRUE, "ready", TRUE, "driver", "off") /\ state = "idle"
  \/ /\ Started(FALSE, "failed", FALSE, "none", "off")
     /\ state \in {"idle", "pendingRestart", "restoreFailed"}
-----------------------------------------------------------------------------
(* Restoring the web session (PendingProvider::restore). *)

\* The driver's owner thread confirms that the browser is gone, or reports that it
\* could not close it; either way it and its profile lock are released.
StopDriver(confirmed, during) ==
  /\ browser = "driver" /\ browser' = "none"
  /\ lost' = IF confirmed THEN lost ELSE lost \cup {during}

\* For whom an actor restores the session.
Errand(a) == IF lease[a] = "recovery" THEN "recovery" ELSE "finish"

\* Nothing is started once cancelled; a busy profile can be tried again.
Launch(a) ==
  /\ At(a, "launching")
  /\ \/ /\ ~cutOff /\ browser = "none"
        /\ browser' = "attempt"
        /\ Go(a, "verifying") /\ UNCHANGED code
     \/ /\ \E c \in {"retryable", "failed", "cancelled"} :
             (c = "cancelled" <=> cutOff) /\ Keep(a, c)
        /\ Go(a, "concluding") /\ UNCHANGED browser
  /\ UNCHANGED <<gatewayVars, slot, owner, windowOpen, lost, job, discVars, managed>>

\* The browser is checked; an attempt that fails closes it by dropping it.
Verify(a) ==
  /\ At(a, "verifying")
  /\ \/ browser' = "driver" /\ Go(a, "attached") /\ UNCHANGED code
     \/ /\ \E c \in {"retryable", "login", "failed", "cancelled"} :
             (c = "cancelled" => cutOff) /\ Keep(a, c)
        /\ browser' = "none" /\ Go(a, "concluding")
  /\ UNCHANGED <<gatewayVars, slot, owner, windowOpen, lost, job, discVars, managed>>

\* The last look at the token before the ledger is opened.
Attach(a) ==
  /\ At(a, "attached")
  /\ Go(a, IF cutOff THEN "undoing" ELSE "ledger")
  /\ Keep(a, IF cutOff THEN "cancelled" ELSE "failed")
  /\ UNCHANGED <<gatewayVars, webVars, job, discVars, managed>>

OpenLedger(a) ==
  /\ At(a, "ledger")
  /\ Go(a, "undoing") \/ Go(a, "publishing")
  /\ UNCHANGED <<gatewayVars, webVars, job, code, discVars, managed>>

\* Mutant: an attempt that cannot be completed leaves its browser running.
UndoQuietly(a) ==
  /\ At(a, "undoing")
  /\ Go(a, "concluding")
  /\ UNCHANGED <<gatewayVars, webVars, job, code, discVars, managed>>

Undo(a) ==
  /\ At(a, "undoing")
  /\ \E confirmed \in BOOLEAN :
       /\ StopDriver(confirmed, Errand(a))
       /\ IF confirmed THEN UNCHANGED code ELSE Keep(a, "cleanup")
  /\ Go(a, "concluding")
  /\ UNCHANGED <<gatewayVars, slot, owner, windowOpen, job, discVars, managed>>

\* PendingProvider::finish, unless a result is there already.
Stored(result) ==
  IF slot # "recovering" THEN slot ELSE IF cutOff THEN "cancelled" ELSE result

\* Mutant: the token is not looked at again.
PublishLate(a) ==
  /\ At(a, "publishing")
  /\ owner' = TRUE
  /\ slot' = (IF slot # "recovering" THEN slot ELSE "ready")
  /\ Go(a, "done")
  /\ UNCHANGED <<gatewayVars, browser, windowOpen, lost, job, code, discVars, managed>>

\* The driver is made known first; a result that comes too late is not published.
Publish(a) ==
  /\ At(a, "publishing")
  /\ owner' = TRUE
  /\ slot' = Stored("ready")
  /\ Go(a, IF slot = "recovering" /\ ~cutOff THEN "done" ELSE "retiring")
  /\ UNCHANGED <<gatewayVars, browser, windowOpen, lost, job, code, discVars, managed>>

\* How work ends: the lease of a recovery reports every error to the gateway, that
\* of maintenance only E_WEB_CLEANUP_UNCONFIRMED.
Failing(a) == IF lease[a] = "recovery" THEN "dirty" ELSE "done"

Retire(a) ==
  /\ At(a, "retiring")
  /\ \E confirmed \in BOOLEAN :
       /\ StopDriver(confirmed, Errand(a))
       /\ Go(a, IF confirmed THEN "done" ELSE Failing(a))
  /\ UNCHANGED <<gatewayVars, slot, owner, windowOpen, job, code, discVars, managed>>

\* Mutant: an unconfirmed cleanup ends like any other error.
ConcludeQuietly(a) ==
  /\ At(a, "concluding")
  /\ slot' = Stored(code[a])
  /\ Go(a, "done")
  /\ UNCHANGED <<gatewayVars, owner, browser, windowOpen, lost, job, code, discVars, managed>>

Conclude(a) ==
  /\ At(a, "concluding")
  /\ slot' = Stored(code[a])
  /\ Go(a, IF code[a] = "cleanup" THEN Failing(a) ELSE "done")
  /\ UNCHANGED <<gatewayVars, owner, browser, windowOpen, lost, job, code, discVars, managed>>

RestoreStep(a) ==
  \/ Launch(a) \/ Verify(a) \/ Attach(a) \/ OpenLedger(a) \/ Undo(a)
  \/ Publish(a) \/ Retire(a) \/ Conclude(a)
-----------------------------------------------------------------------------
(* Control operations. *)

\* The host polls its recovery before the first request of anyone is read.
Serving == ~At(Boot, "retrying")

\* Service: one operation at a time; a disconnect may interrupt a qualification.
Ask(kind) ==
  /\ Serving /\ managed
  /\ job = "none" /\ disc = "off"
  /\ job' = kind /\ Go(Op, "asked")
  /\ UNCHANGED <<gatewayVars, webVars, code, discVars, managed>>

GiveUp == job' = "none" /\ Go(Op, "off")

\* Under the serial lock, which a disconnect holds from its first step to its last.
Check ==
  /\ At(Op, "asked") /\ disc = "off"
  /\ IF /\ state = "idle"
        /\ job = "retry" => accepting /\ ~cleanupFailed /\ activeTurns = 0
     THEN Go(Op, "begin") /\ UNCHANGED job
     ELSE GiveUp
  /\ UNCHANGED <<gatewayVars, webVars, code, discVars, managed>>

\* RecoveryController::retry: the slot is claimed before the lease.
BeginRetry ==
  /\ At(Op, "begin") /\ job = "retry"
  /\ IF slot = "retryable" THEN slot' = "recovering" /\ Go(Op, "retrying") /\ UNCHANGED job
                           ELSE GiveUp /\ UNCHANGED slot
  /\ UNCHANGED <<gatewayVars, owner, browser, windowOpen, lost, code, discVars, managed>>

\* recover_web of a retry or of the host, which refuses nobody when it starts.
BeginRecovery(a) ==
  /\ At(a, "retrying")
  /\ Acquire(a, "recovery")
  /\ Go(a, "launching")
  /\ UNCHANGED <<job, code>> /\ LeaseOnly

\* Mutant: a retry that is turned away leaves the slot claimed.
TurnedAwayClaiming ==
  /\ At(Op, "retrying") /\ ~(accepting /\ ~maintenance)
  /\ GiveUp
  /\ UNCHANGED <<gatewayVars, webVars, code, discVars, managed>>

TurnedAway ==
  /\ At(Op, "retrying") /\ ~(accepting /\ ~maintenance)
  /\ slot' = IF slot = "recovering" THEN "disconnected" ELSE slot
  /\ GiveUp
  /\ UNCHANGED <<gatewayVars, owner, browser, windowOpen, lost, code, discVars, managed>>

\* maintain_web, or E_WEB_ACTIVE.
BeginJob ==
  /\ At(Op, "begin") /\ job # "retry"
  /\ \/ BeginMaintenance(Op) /\ Go(Op, job) /\ UNCHANGED job
     \/ /\ ~(accepting /\ ~cleanupFailed /\ ~maintenance /\ active = 0)
        /\ GiveUp /\ UNCHANGED gatewayVars
  /\ UNCHANGED code /\ LeaseOnly

\* Whatever keeps verify_idle from succeeding counts as an unconfirmed cleanup.
VerifyIdle(next) == (browser = "driver" /\ Go(Op, next)) \/ Go(Op, "dirty")

\* web_login(false): only for a session that needs the user, in the slot or as the
\* published provider has observed it.
Login ==
  /\ At(Op, "login")
  /\ \/ /\ ~cutOff /\ (slot \in {"login", "window"} \/ (slot = "ready" /\ browser = "driver"))
        /\ IF owner THEN VerifyIdle("loginStop") ELSE Go(Op, "loginLaunch")
     \/ (cutOff \/ slot \notin {"login", "window"}) /\ Go(Op, "done")
  /\ UNCHANGED <<gatewayVars, webVars, job, code, discVars, managed>>

LoginStop ==
  /\ At(Op, "loginStop")
  /\ \/ \E confirmed \in BOOLEAN :
          /\ StopDriver(confirmed, "login")
          /\ owner' = ~confirmed
          /\ Go(Op, IF confirmed THEN "loginLaunch" ELSE "done")
     \/ Go(Op, "done") /\ UNCHANGED <<owner, browser, lost>>
  /\ UNCHANGED <<gatewayVars, slot, windowOpen, job, code, discVars, managed>>

\* The window is the user's; a second call finds it open.
LoginLaunch ==
  /\ At(Op, "loginLaunch")
  /\ \/ browser = "window" /\ slot' = "window" /\ UNCHANGED <<browser, windowOpen>>
     \/ /\ ~cutOff /\ browser = "none"
        /\ browser' = "window" /\ windowOpen' = TRUE /\ slot' = "window"
     \/ browser # "window" /\ UNCHANGED <<slot, browser, windowOpen>>
  /\ Go(Op, "done")
  /\ UNCHANGED <<gatewayVars, owner, lost, job, code, discVars, managed>>

\* web_login(true): once the user has closed the window the session is restored.
FinishLogin ==
  /\ At(Op, "finish")
  /\ IF cutOff \/ slot # "window" \/ (browser = "window" /\ windowOpen)
     THEN Go(Op, "done") /\ UNCHANGED <<slot, browser>>
     ELSE /\ Go(Op, "launching")
          /\ slot' = "recovering"
          /\ browser' = IF browser = "window" THEN "none" ELSE browser
  /\ UNCHANGED <<gatewayVars, owner, windowOpen, lost, job, code, discVars, managed>>

\* Qualification works with the driver.  That of protocols verifies before and
\* after that nothing is left behind; that of reasoning extends the binding.
Qualify ==
  /\ At(Op, "qualify")
  /\ IF slot = "ready" /\ owner THEN VerifyIdle("qualifying") \/ Go(Op, "qualifying")
                               ELSE Go(Op, "done")
  /\ UNCHANGED <<gatewayVars, webVars, job, code, discVars, managed>>

Qualified ==
  /\ At(Op, "qualifying")
  /\ \/ browser = "driver" /\ ~cutOff /\ Go(Op, "adopting")
     \/ Go(Op, "dirty")
     \/ Go(Op, "done")
  /\ UNCHANGED <<gatewayVars, webVars, job, code, discVars, managed>>

\* The extended receipt is durable; the driver may still refuse it.
Adopt ==
  /\ At(Op, "adopting")
  /\ slot' \in {"ready", "failed"}
  /\ Go(Op, "done")
  /\ UNCHANGED <<gatewayVars, owner, browser, windowOpen, lost, job, code, discVars, managed>>

\* The lease of work that has ended is reported on and dropped.
Report(a) ==
  /\ At(a, "dirty") /\ WorkFails(a) /\ Go(a, "done")
  /\ UNCHANGED <<job, code>> /\ LeaseOnly

Leave(a) ==
  /\ At(a, "done")
  /\ \/ (RecordFailure(a) \/ LiftMaintenance(a)) /\ UNCHANGED <<job, step>>
     \/ /\ Drop(a)
        /\ Go(a, "off")
        /\ job' = IF a = Op THEN "none" ELSE job
  /\ UNCHANGED code /\ LeaseOnly

OpStep ==
  \/ Check \/ BeginRetry \/ TurnedAway \/ BeginJob
  \/ Login \/ LoginStop \/ LoginLaunch \/ FinishLogin
  \/ Qualify \/ Qualified \/ Adopt

Worker(a) == BeginRecovery(a) \/ RestoreStep(a) \/ Report(a) \/ Leave(a)

\* A client's request, and the user closing the sign-in window.
Request(r) ==
  /\ Serving
  /\ \/ \E kind \in {"light", "turn"} : Acquire(r, kind)
     \/ Panic(r) \/ Drop(r) \/ DropPanicking(r)
  /\ UNCHANGED <<webVars, opVars, discVars, managed>>

CloseWindow ==
  /\ windowOpen /\ windowOpen' = FALSE
  /\ UNCHANGED <<gatewayVars, slot, owner, browser, lost, opVars, discVars, managed>>
-----------------------------------------------------------------------------
(* The disconnect (DisconnectController::run). *)

DiscGo(p) == disc' = p
DiscFails(s, why) == disc' = "off" /\ state' = s /\ reason' = why

AskDisconnect ==
  /\ Serving /\ disc = "off" /\ job \in {"none", "qualify"}
  /\ BeginDrain(Disc)
  /\ DiscGo("draining") /\ state' = "draining"
  /\ UNCHANGED <<webVars, opVars, reason, managed>>

AskDisconnectWhenIdle ==
  /\ Serving /\ disc = "off" /\ job = "none"
  /\ CloseIfIdle(Disc)
  /\ DiscGo("entered")
  /\ UNCHANGED <<webVars, opVars, state, reason, managed>>

EnterDraining ==
  /\ disc = "entered"
  /\ DiscGo("draining") /\ state' = "draining"
  /\ UNCHANGED <<gatewayVars, webVars, opVars, reason, managed>>

Draining ==
  /\ disc = "draining" /\ DrainStep(Disc)
  /\ UNCHANGED <<webVars, opVars, discVars, managed>>

Deadline ==
  /\ disc = "draining" /\ TimeOut(Disc)
  /\ UNCHANGED <<webVars, opVars, discVars, managed>>

\* Mutant: a deadline that passes is taken for a drain.
DrainReturnsAnyway ==
  /\ disc = "draining"
  /\ drain[Disc] \in {"drained", "failed", "timedout"}
  /\ IF managed THEN DiscGo("releasing") /\ UNCHANGED state
     ELSE DiscGo("restoring") /\ state' = "restoring"
  /\ UNCHANGED <<gatewayVars, webVars, opVars, reason, managed>>

DrainReturns ==
  /\ disc = "draining"
  /\ \/ drain[Disc] \in {"failed", "timedout"} /\ DiscFails("drainFailed", "drain")
     \/ /\ drain[Disc] = "drained"
        /\ IF managed THEN DiscGo("releasing") /\ UNCHANGED state
           ELSE DiscGo("restoring") /\ state' = "restoring"
        /\ UNCHANGED reason
  /\ UNCHANGED <<gatewayVars, webVars, opVars, managed>>

\* release_login: a window that is open is never closed for the user.
ReleaseLogin ==
  /\ disc = "releasing"
  /\ IF browser = "window" /\ windowOpen
     THEN DiscFails("drainFailed", "window") /\ UNCHANGED browser
     ELSE /\ DiscGo("stopping") /\ UNCHANGED <<state, reason>>
          /\ browser' = IF browser = "window" THEN "none" ELSE browser
  /\ UNCHANGED <<gatewayVars, slot, owner, windowOpen, lost, opVars, managed>>

Forgotten == owner' = FALSE /\ slot' = "disconnected"

\* release_browser: the known driver is forgotten only when it confirms its end.
\* One whose thread has ended refuses to be stopped, and so does one that is busy.
ReleaseBrowser ==
  /\ disc = "stopping"
  /\ \/ /\ IF owner THEN StopDriver(TRUE, "disconnect") ELSE UNCHANGED <<browser, lost>>
        /\ Forgotten
        /\ DiscGo("restoring") /\ state' = "restoring" /\ UNCHANGED reason
     \/ /\ owner /\ UNCHANGED <<owner, slot>>
        /\ \/ /\ StopDriver(FALSE, "disconnect")
              /\ DiscFails("drainFailed", "unconfirmed")
           \/ /\ UNCHANGED <<browser, lost>>
              /\ DiscFails("drainFailed", IF browser = "driver" THEN "busy" ELSE "refused")
  /\ UNCHANGED <<gatewayVars, windowOpen, opVars, managed>>

\* ConfigJournal::disconnect succeeds or fails.
RestoreConfig ==
  /\ disc = "restoring"
  /\ \/ DiscGo("off") /\ state' = "pendingRestart" /\ UNCHANGED reason
     \/ DiscFails("restoreFailed", "config")
  /\ UNCHANGED <<gatewayVars, webVars, opVars, managed>>

\* The steps a disconnect takes by itself.
DiscStep ==
  \/ EnterDraining \/ Draining \/ DrainReturns \/ ReleaseLogin \/ ReleaseBrowser
  \/ RestoreConfig

Next ==
  \/ \E a \in {Boot, Op} : Worker(a)
  \/ OpStep
  \/ \E kind \in Jobs \ {"none"} : Ask(kind)
  \/ \E r \in Requests : Request(r)
  \/ CloseWindow
  \/ AskDisconnect \/ AskDisconnectWhenIdle \/ DiscStep \/ Deadline

Spec == Init /\ [][Next]_vars

\* Browser operations have deadlines of their own, and requests end once they are
\* told to; the deadline of the disconnect is not counted on, nor is the user.
RequestEnds(r) ==
  /\ cutOff /\ (Drop(r) \/ DropPanicking(r))
  /\ UNCHANGED <<webVars, opVars, discVars, managed>>
FairSpec ==
  /\ Spec
  /\ \A a \in {Boot, Op} : WF_vars(Worker(a))
  /\ WF_vars(OpStep)
  /\ \A r \in Requests : WF_vars(RequestEnds(r))
  /\ WF_vars(DiscStep)
-----------------------------------------------------------------------------
\* Configuration is restored, and stays restored, only with the web side at rest: no
\* lease is held or can be taken, the browser and its profile are free, nothing
\* remembers a driver, the slot answers that the web is disconnected, and the exit of
\* every browser was confirmed, whoever was stopping it and whenever: a failure of a
\* recovery is recorded by the gateway, that of a sign-in or of a disconnect keeps its
\* owner.  (That of the recovery which ends a sign-in is not: see FailedCleanupBlocks.)
RestoringIsQuiet ==
  state \in {"restoring", "pendingRestart", "restoreFailed"} =>
    /\ Holding = {} /\ ~accepting
    /\ browser = "none"
    /\ managed => ~owner /\ slot = "disconnected"
    /\ lost \subseteq {"finish"}

\* However a recovery is cancelled or refused, nothing of it is left behind.  Whoever
\* makes the slot "recovering" gives it a result, also when admission is closed between
\* the two: requests are not told for ever that the web recovers, and a later retry is
\* not refused for ever.  A browser that runs is known, or in the hands of a recovery
\* that will publish or stop it.
NothingIsAbandoned ==
  /\ slot = "recovering" => \E a \in {Boot, Op} : step[a] \in Restoring \cup {"retrying"}
  /\ browser = "driver" =>
       owner \/ \E a \in {Boot, Op} : step[a] \in {"attached", "ledger", "undoing", "publishing"}
  /\ browser = "attempt" => \E a \in {Boot, Op} : step[a] = "verifying"

\* A recovery that succeeds after the gateway has cancelled its work does not make
\* the web available again.
LateResultIsNotPublished == [][cutOff /\ slot' = "ready" => slot = "ready"]_vars

\* Every disconnect ends, whatever recovery, operation or request it interrupts,
\* without the help of its deadline, and nothing late undoes it.
DisconnectEnds == LateResultIsNotPublished /\ ((disc # "off") ~> (disc = "off"))

\* implementation/STATUS.md: "Failed browser cleanup prevents a successful
\* disconnect result."
FailedCleanupBlocks == state \in {"restoring", "pendingRestart"} => lost = {}

\* implementation/STATUS.md: "Disconnect cancels it and waits for its cleanup": a
\* disconnect does not fail for the cleanup of a browser whose every exit was
\* confirmed.
CleanupFailuresAreReal == reason = "refused" => lost # {}
=============================================================================
