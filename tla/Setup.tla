-------------------------------- MODULE Setup --------------------------------
(***************************************************************************)
(* Setting the bridge up: the browser worker of crates/runtime/src/        *)
(* control.rs, the hand-over of its browser to the generation driver       *)
(* (generation_handoff.rs), and the setup owner that prepares, tests and   *)
(* activates an installation (setup_owner.rs, activation.rs).              *)
(*                                                                         *)
(* One browser profile is passed around between the worker's own browser,  *)
(* the sign-in window, the driver and the installed host's recovery, each  *)
(* of which must hold the profile lock while its browser runs.  The worker *)
(* handles one command at a time and the control service starts one        *)
(* operation at a time; meanwhile the user closes windows, opens tabs or   *)
(* signs in as somebody else, browsers exit, and request cleanup lags      *)
(* behind.  Every observation and launch may fail at any time.             *)
(*                                                                         *)
(* One model route stands for all: the code compares the identity of the   *)
(* selected route at every step the way it compares the account.           *)
(***************************************************************************)
EXTENDS Naturals, FiniteSets

CONSTANTS Accounts,  \* accounts the user may sign in to
          NoAccount,
          NoSession,
          MaxInst    \* how many installations are reserved

ASSUME SetupAssumption ==
  /\ NoAccount \notin Accounts
  /\ MaxInst \in Nat

VARIABLES account,    \* who is signed in to the profile
          lock,       \* the instance lock: who holds it
          worker,     \* what the control worker holds and last observed
          generation, \* the receipt of the session that was handed over
          driver,     \* how far the driver's thread is
          consumers,  \* holders of the session's consumer lease
          owner,      \* the setup owner's prepared and active installations
          job,        \* the operation that the control service runs
          hostUp      \* the installed host has recovered a browser of its own

setupVars == <<account, lock, worker, generation, driver, consumers, owner, job, hostUp>>

Known == Accounts \cup {NoAccount}
Insts == 0..MaxInst

\* ControlStatus and the locals beside it.  `tested` is history: the account that the
\* last accepted tool test ran under.  `tabs`: pages beside the managed one,
\* `retained`: among them the page of a test that failed.
WorkerStates ==
  [browser: {"none", "live", "gone"}, page: {"none", "open", "lost"},
   login: {"none", "open", "gone"},
   phase: {"disconnected", "authenticating", "awaiting", "candidates", "text_qualified",
           "tool_qualified", "unavailable", "generation_ready"},
   background: BOOLEAN, tool: BOOLEAN, temporary: BOOLEAN,
   routes: BOOLEAN, scope: Known, tested: Known, tabs: BOOLEAN, retained: BOOLEAN]

Session == [inst: Insts, account: Accounts, tested: Known]

ASSUME SessionAssumption == NoSession \notin Session

SetupTypeOK ==
  /\ account \in Known
  /\ lock \in {"control", "driver", "host", "free"}
  /\ worker \in WorkerStates
  /\ generation \in Session \cup {NoSession}
  /\ driver \in {"none", "open", "stopping", "stopped", "unlocked", "closed"}
  /\ consumers \subseteq {"probe", "host", "reset"}
  /\ owner \in [prepared: Insts, taken: BOOLEAN, next: Insts, active: Insts, applied: BOOLEAN]
  /\ job \in {"idle", "reset", "native", "activate", "probe", "probing", "bind", "apply"}
  /\ hostUp \in BOOLEAN

NewWorker ==
  [browser |-> "none", page |-> "none", login |-> "none", phase |-> "disconnected",
   background |-> FALSE, tool |-> FALSE, temporary |-> FALSE, routes |-> FALSE,
   scope |-> NoAccount, tested |-> NoAccount, tabs |-> FALSE, retained |-> FALSE]

\* Control::start takes the lock before it starts the worker.
SetupInit ==
  /\ account \in Known
  /\ lock = "control"
  /\ worker = NewWorker
  /\ generation = NoSession
  /\ driver = "none"
  /\ consumers = {}
  /\ owner = [prepared |-> 0, taken |-> FALSE, next |-> 0, active |-> 0, applied |-> FALSE]
  /\ job = "idle"
  /\ hostUp = FALSE
-----------------------------------------------------------------------------
(* What a command may make of the worker: sets of outcomes, one for each way the *)
(* browser may answer. *)

Forget(w) == [w EXCEPT !.routes = FALSE, !.scope = NoAccount]

\* ControlStatus::default with a phase.
Fresh(w, phase) ==
  [Forget(w) EXCEPT !.phase = phase, !.background = FALSE, !.tool = FALSE,
                    !.temporary = FALSE]

Drop(w) == [w EXCEPT !.browser = "none", !.page = "none", !.tabs = FALSE, !.retained = FALSE]

\* close_for_replacement closes nothing but the managed page.
Replaceable(w) == w.browser # "live" \/ ~(w.tabs \/ w.retained)

\* login_observation.  Whatever it sees, an earlier test no longer counts.
Seen(w) ==
  IF w.browser = "none" \/ w.page = "none" THEN {w}
  ELSE LET seen == [w EXCEPT !.tool = FALSE, !.background = TRUE]
       IN {[Forget(seen) EXCEPT !.phase = "unavailable"]}
          \cup (IF w.browser # "live" \/ w.page # "open" THEN {}
                ELSE {[Forget(seen) EXCEPT !.phase = "authenticating", !.temporary = FALSE]}
                     \cup {[seen EXCEPT !.phase = "awaiting"] : a \in {account} \cap Accounts})

\* A new background browser on the saved session.
Restored(w) ==
  (IF w.browser = "none" THEN {} ELSE {w})
  \cup (IF ~Replaceable(w) THEN {}
        ELSE {Drop(Fresh(w, "unavailable"))}
             \cup Seen([Drop(Fresh(w, "authenticating")) EXCEPT
                          !.browser = "live", !.page = "open", !.background = TRUE]))

\* The rest of a command after signing in has been dealt with.
Continued(w, loginClosed, background) ==
  IF \/ loginClosed
     \/ background /\ w.browser = "none" /\ w.page = "none"
     \/ w.browser # "none" /\ w.page # "none" /\ (w.browser = "gone" \/ w.page = "lost")
  THEN Restored(w)
  ELSE IF background /\ (w.browser = "none") # (w.page = "none") THEN {w} ELSE Seen(w)

\* Opening the sign-in window: never beside a browser of ours.
Opened(w) ==
  {w, Fresh(w, IF w.browser = "none" THEN "disconnected" ELSE "unavailable")}
  \cup (IF ~Replaceable(w) THEN {}
        ELSE {Fresh(Drop(w), "disconnected"),
              [Fresh(Drop(w), "authenticating") EXCEPT !.login = "open"]})

\* A live browser with its page is observed again; any other is given up.
Reconnected(w) ==
  IF w.phase # "unavailable" \/ (w.browser = "live" /\ w.page # "none") THEN {w}
  ELSE IF Replaceable(w) THEN {Fresh(Drop(w), "disconnected")} ELSE {}

ConnectOutcomes(w) ==
  UNION {IF v.page = "none" \/ v.phase = "authenticating"
         THEN Opened(v) ELSE Continued(v, FALSE, FALSE) : v \in Reconnected(w)}

\* discover_models with the selection, the temporary chat and the account scope.
Listed(w, scope) ==
  {[w EXCEPT !.routes = TRUE, !.scope = scope, !.temporary = t, !.phase = "candidates"] :
     t \in BOOLEAN}

Discovered(w) ==
  IF w.phase # "awaiting" THEN {w}
  ELSE {[Forget(w) EXCEPT !.temporary = FALSE]} \cup Listed(w, account) \cup Listed(w, NoAccount)

\* Mutant: the account is not compared with the one that discovery observed.
TestedUnscoped(w, kind) ==
  IF w.phase # "awaiting" \/ ~w.routes \/ w.scope = NoAccount THEN {w}
  ELSE {w, [w EXCEPT !.retained = TRUE]}
       \cup {[w EXCEPT !.retained = FALSE, !.tool = (kind = "tools"), !.tested = account,
                       !.phase = IF kind = "tools" THEN "tool_qualified" ELSE "text_qualified"]}

\* One test turn on the selected route.  The account is compared on the test page,
\* before the prompt is sent and after the answer.
Tested(w, kind) ==
  IF w.phase # "awaiting" \/ ~w.routes \/ w.scope = NoAccount THEN {w}
  ELSE {w, [w EXCEPT !.retained = TRUE]}
       \cup {[w EXCEPT !.retained = FALSE, !.tool = (kind = "tools"), !.tested = account,
                       !.phase = IF kind = "tools" THEN "tool_qualified" ELSE "text_qualified"] :
               a \in {account} \cap {w.scope}}
-----------------------------------------------------------------------------
(* Commands of the worker. *)

\* What every command begins with: the receipt of a closed session is given up (what
\* leases there are of it are nobody's concern), and the lock is taken back.
Attending == job = "idle" /\ (generation # NoSession => driver = "closed")
AtHand == IF generation = NoSession THEN worker ELSE Fresh(worker, "disconnected")

\* SetupOwner::request: with a reply in hand, the setup owner forgets an installation
\* whose session is over.
Released ==
  IF owner.taken /\ driver = "closed"
  THEN [owner EXCEPT !.prepared = 0, !.taken = FALSE] ELSE owner

\* What the command asks for, once the sign-in window is out of the way.
Answers(command, w, loginClosed) ==
  LET seen == Continued(w, loginClosed, command = "background")
  IN CASE command = "connect" /\ ~loginClosed -> ConnectOutcomes(w)
       [] command = "qualify"                 -> UNION {Discovered(v) : v \in seen}
       [] command \in {"text", "tools"}       -> UNION {Tested(v, command) : v \in seen}
       [] OTHER                               -> seen

Attend(command) ==
  /\ Attending
  /\ generation' = NoSession
  /\ \/ /\ lock \in {"control", "free"}
        /\ lock' = "control"
        /\ owner' \in {owner, Released}   \* a command that fails has no reply
        /\ worker' \in CASE AtHand.login = "open" -> {AtHand}
                         [] AtHand.login = "gone" ->
                              Answers(command, [AtHand EXCEPT !.login = "none"], TRUE)
                         [] OTHER -> Answers(command, AtHand, FALSE)
     \/ /\ lock \notin {"control", "free"}   \* E_ALREADY_RUNNING
        /\ worker' = AtHand /\ UNCHANGED <<lock, owner>>
  /\ consumers' = IF generation = NoSession THEN consumers ELSE {}
  /\ UNCHANGED <<account, driver, job, hostUp>>

\* ResetTest retires the session first, under the consumer lease.
ResetBegin ==
  /\ job = "idle" /\ generation # NoSession /\ consumers = {}
  /\ job' = "reset"
  /\ consumers' = {"reset"}
  /\ UNCHANGED <<account, lock, worker, generation, driver, owner, hostUp>>

ResetRefused ==
  /\ job = "reset" /\ driver \in {"open", "closed"}
  /\ job' = "idle" /\ consumers' = {}
  /\ UNCHANGED <<account, lock, worker, generation, driver, owner, hostUp>>

ResetEnd ==
  /\ \/ job = "reset" /\ driver = "closed"
     \/ job = "idle" /\ generation = NoSession
  /\ generation' = NoSession
  /\ consumers' = consumers \ {"reset"}
  /\ job' = "idle"
  /\ worker' = IF generation = NoSession THEN worker ELSE Fresh(worker, "disconnected")
  /\ \/ /\ lock \in {"control", "free"} /\ lock' = "control"
        /\ owner' = [owner EXCEPT !.prepared = 0, !.taken = FALSE]
     \/ /\ lock \notin {"control", "free"} /\ UNCHANGED <<lock, owner>>
  /\ UNCHANGED <<account, driver, hostUp>>
-----------------------------------------------------------------------------
(* The setup owner: native_text and activate. *)

\* The last status, not a new observation.
LooksReady ==
  worker.background /\ worker.tool /\ worker.phase \in {"tool_qualified", "generation_ready"}

Reserved ==
  IF owner.prepared # 0 THEN {owner.prepared}
  ELSE {i \in {owner.next + 1} : i <= MaxInst}

Prepare(kind) ==
  /\ job = "idle" /\ LooksReady
  /\ kind = "activate" => owner.active = 0
  /\ \E i \in Reserved :
       owner' = [owner EXCEPT !.prepared = i, !.next = IF i > @ THEN i ELSE @]
  /\ job' = kind
  /\ UNCHANGED <<account, lock, worker, generation, driver, consumers, hostUp>>

\* TakeGeneration for a session that was handed over before.
Replay ==
  /\ job \in {"native", "activate"} /\ generation # NoSession
  /\ IF driver # "closed" /\ generation.inst = owner.prepared
     THEN /\ job' = IF job = "native" THEN "probe" ELSE "bind"
          /\ owner' = [owner EXCEPT !.taken = TRUE]
     ELSE job' = "idle" /\ UNCHANGED owner
  /\ UNCHANGED <<account, lock, worker, generation, driver, consumers, hostUp>>

\* PreparedHandoff::prepare: all that is fallible, while the worker is the owner.
Prepared(w) ==
  /\ lock = "control" /\ w.browser = "live" /\ w.page = "open"
  /\ w.phase = "tool_qualified" /\ w.tool /\ w.temporary /\ w.routes
  /\ ~(w.tabs \/ w.retained)
  /\ w.scope # NoAccount /\ account = w.scope

Handed(w) == Forget(Drop(w))

TakeGeneration ==
  /\ job \in {"native", "activate"} /\ generation = NoSession
  /\ Prepared(worker)
  /\ generation' = [inst |-> owner.prepared, account |-> account, tested |-> worker.tested]
  /\ worker' = [Handed(worker) EXCEPT !.phase = "generation_ready", !.background = TRUE]
  /\ lock' = "driver" /\ driver' = "open"
  /\ job' = IF job = "native" THEN "probe" ELSE "bind"
  /\ owner' = [owner EXCEPT !.taken = TRUE]
  /\ UNCHANGED <<account, consumers, hostUp>>

\* A refusal leaves everything with the worker; but the managed page may be closed
\* already.  If the thread cannot be started, browser and lock are dropped.
HandoffFails ==
  /\ job \in {"native", "activate"} /\ generation = NoSession
  /\ job' = "idle"
  /\ \/ UNCHANGED <<worker, lock>>
     \/ /\ Prepared(worker)
        /\ \/ worker' = [worker EXCEPT !.page = "lost"] /\ UNCHANGED lock
           \/ worker' = Fresh(Handed(worker), "unavailable") /\ lock' = "free"
  /\ UNCHANGED <<account, generation, driver, consumers, owner, hostUp>>

\* GenerationSession::claim; the lease then follows the probe's requests.
Probe ==
  /\ job = "probe"
  /\ IF consumers = {} /\ driver # "closed"
     THEN job' = "probing" /\ consumers' = {"probe"}
     ELSE job' = "idle" /\ UNCHANGED consumers
  /\ UNCHANGED <<account, lock, worker, generation, driver, owner, hostUp>>

ProbeEnds ==
  /\ job = "probing" /\ job' = "idle"
  /\ UNCHANGED <<account, lock, worker, generation, driver, consumers, owner, hostUp>>

ProbeCleanup ==
  /\ job # "probing" /\ "probe" \in consumers
  /\ consumers' = consumers \ {"probe"}
  /\ UNCHANGED <<account, lock, worker, generation, driver, owner, job, hostUp>>

\* Mutant: a diagnostic and an installed gateway may share the browser.
BindShared ==
  /\ job = "bind"
  /\ \/ job' = "idle" /\ UNCHANGED <<owner, consumers>>
     \/ job' = "idle" /\ owner' = [owner EXCEPT !.prepared = 0, !.taken = FALSE] /\ UNCHANGED consumers
     \/ /\ driver # "closed" /\ generation.inst = owner.prepared
        /\ owner' = [owner EXCEPT !.prepared = 0, !.taken = FALSE, !.active = owner.prepared]
        /\ consumers' = consumers \cup {"host"}
        /\ job' = "apply"
  /\ UNCHANGED <<account, lock, worker, generation, driver, hostUp>>

\* An error while the runtime is copied leaves the installation prepared; one of
\* bind_generation has used it up.
Bind ==
  /\ job = "bind"
  /\ \/ job' = "idle" /\ UNCHANGED <<owner, consumers>>
     \/ job' = "idle" /\ owner' = [owner EXCEPT !.prepared = 0, !.taken = FALSE] /\ UNCHANGED consumers
     \/ /\ driver # "closed" /\ generation.inst = owner.prepared /\ consumers = {}
        /\ owner' = [owner EXCEPT !.prepared = 0, !.taken = FALSE, !.active = owner.prepared]
        /\ consumers' = {"host"}
        /\ job' = "apply"
  /\ UNCHANGED <<account, lock, worker, generation, driver, hostUp>>

Apply ==
  /\ job = "apply" /\ job' = "idle"
  /\ owner' \in {owner, [owner EXCEPT !.applied = TRUE]}
  /\ UNCHANGED <<account, lock, worker, generation, driver, consumers, hostUp>>

\* Activation of an installation that is bound but not applied goes on there.
ApplyAgain ==
  /\ job = "idle" /\ owner.active # 0 /\ ~owner.applied
  /\ job' = "apply"
  /\ UNCHANGED <<account, lock, worker, generation, driver, consumers, owner, hostUp>>
-----------------------------------------------------------------------------
(* The driver's thread and the installed host. *)

\* RetireIdle: only an idle browser without other pages.
Retire ==
  /\ job = "reset" /\ driver = "open"
  /\ driver' = "stopping"
  /\ UNCHANGED <<account, lock, worker, generation, consumers, owner, job, hostUp>>

\* The installed host shuts its driver down: a disconnect or a recovery.
HostStops ==
  /\ driver = "open" /\ "host" \in consumers
  /\ driver' = "stopping"
  /\ UNCHANGED <<account, lock, worker, generation, consumers, owner, job, hostUp>>

\* Mutant: the lock is dropped before the browser has exited.
DriverExitsUnlocked ==
  /\ \/ driver = "stopping" /\ lock = "driver" /\ lock' = "free" /\ UNCHANGED driver
     \/ driver = "stopping" /\ lock # "driver" /\ driver' = "closed" /\ UNCHANGED lock
  /\ UNCHANGED <<account, worker, generation, consumers, owner, job, hostUp>>

\* First the browser, then the lock, then the channel that says so.
DriverExits ==
  /\ \/ driver = "stopping" /\ driver' = "stopped" /\ UNCHANGED lock
     \/ driver = "stopped" /\ driver' = "unlocked" /\ lock' = "free"
     \/ driver = "unlocked" /\ driver' = "closed" /\ UNCHANGED lock
  /\ UNCHANGED <<account, worker, generation, consumers, owner, job, hostUp>>

HostDrops ==
  /\ driver = "closed" /\ "host" \in consumers
  /\ consumers' = consumers \ {"host"}
  /\ UNCHANGED <<account, lock, worker, generation, driver, owner, job, hostUp>>

\* The host's recovery opens the profile again, if the lock is free.
HostRecovers ==
  /\ owner.active # 0 /\ ~hostUp /\ lock = "free"
  /\ lock' = "host" /\ hostUp' = TRUE
  /\ UNCHANGED <<account, worker, generation, driver, consumers, owner, job>>

HostReleases ==
  /\ hostUp /\ hostUp' = FALSE /\ lock' = "free"
  /\ UNCHANGED <<account, worker, generation, driver, consumers, owner, job>>
-----------------------------------------------------------------------------
(* The user and the browsers. *)

SwitchAccount ==
  /\ \/ worker.login = "open" \/ worker.browser = "live" \/ driver = "open" \/ hostUp
  /\ account' \in Known \ {account}
  /\ UNCHANGED <<lock, worker, generation, driver, consumers, owner, job, hostUp>>

UserCloses ==
  /\ \/ worker.login = "open" /\ worker' = [worker EXCEPT !.login = "gone"]
     \/ /\ worker.browser = "live" /\ worker.page = "open"
        /\ worker' = [worker EXCEPT !.page = "lost"]
     \/ /\ worker.browser = "live"
        /\ worker' = [worker EXCEPT !.browser = "gone", !.tabs = FALSE, !.retained = FALSE]
     \/ /\ worker.browser = "live" /\ worker' = [worker EXCEPT !.tabs = ~@]
  /\ UNCHANGED <<account, lock, generation, driver, consumers, owner, job, hostUp>>
-----------------------------------------------------------------------------
SetupNext ==
  \/ \E command \in {"connect", "background", "status", "qualify", "text", "tools"} :
       Attend(command)
  \/ ResetBegin \/ ResetRefused \/ ResetEnd
  \/ \E kind \in {"native", "activate"} : Prepare(kind)
  \/ Replay \/ TakeGeneration \/ HandoffFails
  \/ Probe \/ ProbeEnds \/ ProbeCleanup \/ Bind \/ Apply \/ ApplyAgain
  \/ Retire \/ HostStops \/ DriverExits \/ HostDrops \/ HostRecovers \/ HostReleases
  \/ SwitchAccount \/ UserCloses

SetupSpec == SetupInit /\ [][SetupNext]_setupVars
-----------------------------------------------------------------------------
(* Properties. *)

\* At most one browser runs on the profile, and its owner holds the lock.
ProfileHasOneOwner ==
  /\ worker.browser = "live" \/ worker.login = "open" => lock = "control"
  /\ worker.browser = "live" => worker.login # "open"
  /\ driver \in {"open", "stopping"} => lock = "driver"
  /\ hostUp => lock = "host"

\* A session that was handed over is signed in to the account that the accepted tool
\* test ran under, whatever the user did between the two.
SessionIsWhatWasTested ==
  generation # NoSession => generation.account = generation.tested

\* A test, an installed host and a reset never use the session at the same time, and
\* a host serves only the session that was made for its installation.
OneConsumer ==
  /\ Cardinality(consumers) <= 1
  /\ "host" \in consumers => generation # NoSession /\ generation.inst = owner.active

\* One session, one profile, one user of them at a time.
SessionHasOneUser == ProfileHasOneOwner /\ OneConsumer

\* A reset never takes the browser away from a test or its cleanup.
ResetCutsNoTest ==
  [][driver = "open" /\ driver' # "open" => "probe" \notin consumers]_setupVars
=============================================================================
