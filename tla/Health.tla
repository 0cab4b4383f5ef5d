-------------------------------- MODULE Health --------------------------------
(***************************************************************************)
(* What the user is told about the integration: health.rs and what it is   *)
(* computed from, which other parts change while it is read.               *)
(*                                                                         *)
(*   provider   web_recovery.rs PendingProvider and ObservedProvider       *)
(*   natives    native.rs, native_ws.rs: requests to the native service    *)
(*   latest     native_health.rs Tracker                                   *)
(*   requests   gateway.rs ClientActivity: what the clients asked for last *)
(*   catalogs   the same: the model lists that they were last sent         *)
(*   known      health.rs Tracker: the last check of the user's file and   *)
(*              of the installed clients, which may give any result        *)
(*                                                                         *)
(* A poll reads them one after the other.                                  *)
(***************************************************************************)
EXTENDS Integers, Sequences, FiniteSets, FiniteSetsExt

CONSTANTS Clients,     \* the client programs: CLI and App
          Failures,    \* what a failed provider may report
          Outcomes,    \* native outcomes other than success: "auth", "limited", "error"
          Checks,      \* results of a check of the user's file
          SLOTS,       \* native requests that may be open at once
          MaxNatives,  \* bound: native requests
          MaxLists,    \* bound: providers put in place, each with its catalog
          MaxChanges   \* bound: what happens beside the polls

ASSUME HealthAssumption ==
  /\ Clients # {} /\ IsFiniteSet(Clients)
  /\ Checks \subseteq {"installed", "not installed", "conflict", "unavailable"}
  /\ Failures \subseteq {"auth", "limited", "incompatible", "unavailable"}
  /\ Outcomes \subseteq {"auth", "limited", "error"} /\ Outcomes # {}
  /\ SLOTS \in Nat \ {0} /\ MaxNatives \in Nat \ {0} /\ MaxLists \in Nat \ {0} /\ MaxChanges \in Nat

VARIABLES provider, natives, latest, requests, catalogs, turns, maintaining,
          admitting, inDoubt, lifecycle, known, poll,
          changes,   \* how much has happened beside the polls
          held       \* history: what held at some time since the poll began

healthVars == <<provider, natives, latest, requests, catalogs, turns, maintaining, admitting,
                inDoubt, lifecycle, known, poll, changes, held>>
native == <<natives, latest>>
activity == <<requests, catalogs>>
connection == <<admitting, inDoubt, lifecycle>>
reading == <<known, poll>>
world == <<provider, native, activity, turns, maintaining, connection>>

NoWork == [stage |-> "none", cancelled |-> FALSE, success |-> FALSE, instance |-> 0]
NoPoll == [stage |-> "off", lifecycle |-> "idle", provider |-> "recovering",
           requests |-> [c \in Clients |-> "none"], lists |-> [c \in Clients |-> "none"],
           pending |-> {}]

\* `instance` counts the providers that were put in place; the list has one effort, or
\* "all" once they are qualified, which the receipt keeps.  The generation of a list is no
\* count: it is 1 whenever a session is restored and 2 after a qualification.  A list is
\* offered while the provider is in place and its browser is open.
ProviderHealth ==
  IF provider.slot = "pending" THEN "recovering"
  ELSE IF provider.slot = "ready" /\ ~provider.open THEN "unavailable" ELSE provider.seen
Catalog == IF provider.slot = "ready" /\ provider.open THEN provider.generation ELSE 0

AtWork == {c \in Clients : turns[c].stage # "none"}
\* Requests for the model list that are on their way, which hold a lease as well.
Listing == {n \in DOMAIN natives : natives[n].client \in Clients /\ ~natives[n].recorded}
Open == {n \in DOMAIN natives : natives[n].stage # "ended"}
ActiveTurns == Cardinality(AtWork) + (IF maintaining THEN 1 ELSE 0)
-----------------------------------------------------------------------------
HealthInit ==
  /\ provider = [slot |-> "pending", seen |-> "verified", open |-> TRUE, generation |-> 0,
                  instance |-> 0, efforts |-> "one"]
  /\ natives = <<>> /\ latest = [sequence |-> 0, outcome |-> "none"]
  /\ requests = [c \in Clients |-> "none"]
  /\ catalogs = [c \in Clients |-> [generation |-> 0, efforts |-> "one", valid |-> FALSE]]
  /\ turns = [c \in Clients |-> NoWork] /\ maintaining = FALSE
  /\ admitting = TRUE /\ inDoubt = FALSE /\ lifecycle = "idle"
  /\ known = [file |-> "unknown", present |-> {}] /\ poll = NoPoll
  /\ changes = 0 /\ held = {}

(* The provider. *)

RecoveryEnds ==
  /\ provider.slot = "pending"
  /\ \/ /\ admitting /\ provider.instance < MaxLists
        /\ provider' = [provider EXCEPT !.slot = "ready", !.seen = "verified", !.open = TRUE,
                          !.generation = 1, !.instance = @ + 1]
     \/ \E failure \in Failures : provider' = [provider EXCEPT !.slot = "failed", !.seen = failure]
  /\ UNCHANGED <<native, activity, turns, maintaining, connection, reading>>

Retry ==
  /\ provider.slot = "failed" /\ provider.seen # "auth" /\ admitting /\ ~maintaining
  /\ provider' = [provider EXCEPT !.slot = "pending"]
  /\ UNCHANGED <<native, activity, turns, maintaining, connection, reading>>

BrowserCloses ==
  /\ provider.slot = "ready" /\ provider.open
  /\ provider' = [provider EXCEPT !.open = FALSE]
  /\ UNCHANGED <<native, activity, turns, maintaining, connection, reading>>

\* A maintenance operation is alone; it may bring a new catalog, take the provider away
\* or leave the browser in doubt.
Maintain ==
  /\ admitting /\ ~inDoubt /\ ~maintaining /\ AtWork = {} /\ Listing = {}
  /\ provider.slot # "pending"
  /\ maintaining' = TRUE
  /\ UNCHANGED <<provider, native, activity, turns, connection, reading>>

\* The user has signed in: the provider is opened again while the operation lasts.
FinishLogin ==
  /\ maintaining /\ provider.slot = "failed" /\ provider.seen = "auth"
  /\ provider' = [provider EXCEPT !.slot = "pending"]
  /\ UNCHANGED <<native, activity, turns, maintaining, connection, reading>>

MaintenanceEnds ==
  /\ maintaining /\ provider.slot # "pending" /\ maintaining' = FALSE
  /\ \/ UNCHANGED <<provider, connection>>
     \/ /\ provider.slot = "ready" /\ provider.instance < MaxLists
        /\ provider' = [provider EXCEPT !.seen = "verified", !.generation = 2,
                          !.instance = @ + 1, !.efforts = "all"]
        /\ UNCHANGED connection
     \/ ProviderHealth = "auth" /\ provider' = [provider EXCEPT !.slot = "failed", !.seen = "auth"]
        /\ UNCHANGED connection
     \/ inDoubt' = TRUE /\ admitting' = FALSE /\ UNCHANGED <<provider, lifecycle>>
  /\ UNCHANGED <<native, activity, turns, reading>>
-----------------------------------------------------------------------------
(* Turns of the clients (dispatch_web). *)

StartTurn(c) ==
  /\ admitting /\ ~maintaining /\ turns[c].stage = "none"
  /\ turns' = [turns EXCEPT ![c] =
               [NoWork EXCEPT !.stage = "running",
                  !.instance = IF provider.slot = "ready" THEN provider.instance ELSE 0]]
  /\ UNCHANGED <<provider, native, activity, maintaining, connection, reading>>

CancelTurn(c) ==
  /\ turns[c].stage # "none"
  /\ turns' = [turns EXCEPT ![c].cancelled = TRUE]
  /\ UNCHANGED <<provider, native, activity, maintaining, connection, reading>>

\* observe_response: the answer says something about the page, about the browser, or
\* nothing.  It is remembered with the provider that gave it, which may be replaced.
Respond(c) ==
  /\ turns[c].stage = "running"
  /\ \E evidence \in IF turns[c].instance # 0 THEN Failures \cup {"verified", "none"} ELSE {"none"} :
       /\ provider' = IF evidence # "none" /\ provider.slot = "ready"
                           /\ turns[c].instance = provider.instance
                      THEN [provider EXCEPT !.seen = evidence] ELSE provider
       /\ \E success \in IF evidence = "verified" THEN BOOLEAN ELSE {FALSE} :
            turns' = [turns EXCEPT ![c].stage = IF evidence = "none" THEN "silent" ELSE "answered",
                                   ![c].success = success]
  /\ UNCHANGED <<native, activity, maintaining, connection, reading>>

\* What the client asked for last went well; then the lease is given up.
Record(c) ==
  /\ turns[c].stage \in {"answered", "silent"}
  /\ requests' = IF turns[c].stage = "answered" /\ ~turns[c].cancelled
                 THEN [requests EXCEPT ![c] = IF turns[c].success THEN "ok" ELSE "failed"] ELSE requests
  /\ turns' = [turns EXCEPT ![c] = NoWork]
  /\ UNCHANGED <<provider, native, catalogs, maintaining, connection, reading>>
-----------------------------------------------------------------------------
(* Native requests.  A request for the model list is one of a client, and the list of  *)
(* the moment goes with it. *)

Begin(client, generation, efforts) ==
  /\ Len(natives) < MaxNatives /\ Cardinality(Open) < SLOTS
  /\ natives' = Append(natives, [stage |-> "sent", outcome |-> "none", client |-> client,
                                 generation |-> generation, efforts |-> efforts,
                                 recorded |-> FALSE, served |-> FALSE])

BeginNative ==
  /\ Begin("none", 0, "one")
  /\ UNCHANGED <<provider, latest, activity, turns, maintaining, connection, reading>>

\* While the provider recovers the client is told to come back.
BeginList(c) ==
  /\ admitting /\ ~maintaining /\ ProviderHealth # "recovering" /\ Catalog # 0
  /\ Begin(c, Catalog, provider.efforts)
  /\ UNCHANGED <<provider, latest, activity, turns, maintaining, connection, reading>>

\* With no slot left the client gets an error instead of the list.
RefuseList(c) ==
  /\ admitting /\ ~maintaining /\ ProviderHealth # "recovering" /\ Catalog # 0
  /\ Cardinality(Open) = SLOTS
  /\ catalogs' = [catalogs EXCEPT ![c] = [generation |-> Catalog, efforts |-> provider.efforts,
                                               valid |-> FALSE]]
  /\ UNCHANGED <<provider, native, requests, turns, maintaining, connection, reading>>

\* Mutant: the outcome that comes last wins.
ObserveLast(n, outcome) == latest' = [sequence |-> n, outcome |-> outcome]

\* Tracker::observe: the outcome of the request that began last wins.
Observe(n, outcome) ==
  latest' = IF n >= latest.sequence THEN [sequence |-> n, outcome |-> outcome] ELSE latest

\* The head of the response: a failure is observed now, a success when the body is
\* complete.  For a websocket the connection is the success.
Headers(n) ==
  /\ natives[n].stage = "sent"
  /\ \/ \E outcome \in Outcomes :
          /\ Observe(n, outcome)
          /\ natives' = [natives EXCEPT ![n].stage = "ended", ![n].outcome = outcome]
     \/ /\ natives' = [natives EXCEPT ![n].stage = "streaming"] /\ latest' = latest
     \/ /\ natives[n].client = "none" /\ Observe(n, "success")
        /\ natives' = [natives EXCEPT ![n].stage = "connected", ![n].outcome = "success"]
  /\ UNCHANGED <<provider, activity, turns, maintaining, connection, reading>>

\* The end of the body, or of the connection; an error in it is one of the request.
Body(n) ==
  /\ natives[n].stage \in {"streaming", "connected"}
  /\ \/ /\ \E outcome \in {"success", "error"} :
             /\ Observe(n, outcome)
             /\ natives' = [natives EXCEPT ![n].stage = "ended", ![n].outcome = outcome]
     \/ /\ natives[n].stage = "connected" \/ natives[n].client = "none"
        /\ natives' = [natives EXCEPT ![n].stage = "ended"] /\ latest' = latest
  /\ UNCHANGED <<provider, activity, turns, maintaining, connection, reading>>

\* The merged list goes to the client, or an error does: an answer of the native service
\* that is not a list is not one.
RecordList(n) ==
  /\ n \in Listing /\ natives[n].stage = "ended"
  /\ \E valid \in IF natives[n].outcome = "success" THEN BOOLEAN ELSE {FALSE} :
       /\ catalogs' = [catalogs EXCEPT ![natives[n].client] =
                          [generation |-> natives[n].generation, efforts |-> natives[n].efforts,
                           valid |-> valid]]
       /\ natives' = [natives EXCEPT ![n].recorded = TRUE, ![n].served = valid]
  /\ UNCHANGED <<provider, latest, requests, turns, maintaining, connection, reading>>

\* The client does not wait for the list.
DropList(n) ==
  /\ n \in Listing
  /\ natives' = [natives EXCEPT ![n].recorded = TRUE, ![n].stage = "ended"]
  /\ UNCHANGED <<provider, latest, activity, turns, maintaining, connection, reading>>
-----------------------------------------------------------------------------
(* The connection is given up (lifecycle.rs run). *)

Disconnect ==
  /\ lifecycle \in {"idle", "drain failed"}
  /\ lifecycle' = "draining"
  /\ UNCHANGED <<provider, native, activity, turns, maintaining, admitting, inDoubt, reading>>

StopAdmission ==
  /\ lifecycle = "draining" /\ admitting
  /\ admitting' = FALSE
  /\ turns' = [c \in Clients |-> [turns[c] EXCEPT !.cancelled = @ \/ c \in AtWork]]
  /\ UNCHANGED <<provider, native, activity, maintaining, inDoubt, lifecycle, reading>>

Drained ==
  /\ lifecycle = "draining" /\ ~admitting
  /\ \/ /\ AtWork = {} /\ ~maintaining /\ Listing = {} /\ ~inDoubt /\ provider.slot # "pending"
        /\ provider' = [provider EXCEPT !.slot = "failed", !.seen = "unavailable"]
        /\ lifecycle' = "pending restart"
     \/ lifecycle' = "drain failed" /\ provider' = provider
  /\ UNCHANGED <<native, activity, turns, maintaining, admitting, inDoubt, reading>>
-----------------------------------------------------------------------------
(* checked_health. *)

\* A poll begins under the lock of the tracker, with a new check of the user's file and
\* of the installed clients, or, while another check is under way, with the last one.
StartPoll ==
  /\ poll.stage = "off"
  /\ \/ \E file \in Checks, present \in SUBSET Clients :
          known' = [file |-> file, present |-> present]
     \/ known' = known
  /\ poll' = [NoPoll EXCEPT !.stage = "provider", !.lifecycle = lifecycle]
  /\ UNCHANGED world

ReadProvider ==
  /\ poll.stage = "provider"
  /\ poll' = [poll EXCEPT !.stage = "clients", !.provider = ProviderHealth]
  /\ UNCHANGED <<world, known>>

\* The record of what the clients have, copied under its lock.
ReadClients ==
  /\ poll.stage = "clients"
  /\ poll' = [poll EXCEPT !.stage = "lists", !.requests = requests,
                !.lists = [c \in Clients |-> IF catalogs[c].generation = 0 THEN "none"
                                             ELSE IF catalogs[c].valid THEN "valid" ELSE "invalid"],
                !.pending = {[client |-> c, generation |-> catalogs[c].generation] :
                               c \in {d \in Clients : catalogs[d].generation # 0}}]
  /\ UNCHANGED <<world, known>>

\* Mutant: whatever list there is now, the client has it.
CompareAnyList ==
  /\ poll.stage = "lists" /\ poll.pending # {}
  /\ \E p \in poll.pending :
       poll' = [poll EXCEPT !.pending = @ \ {p},
                  !.lists[p.client] = IF @ = "valid" /\ Catalog = 0 THEN "changed" ELSE @]
  /\ UNCHANGED <<world, known>>

\* Each list is compared with the one that the provider has now.
CompareList ==
  /\ poll.stage = "lists" /\ poll.pending # {}
  /\ \E p \in poll.pending :
       poll' = [poll EXCEPT !.pending = @ \ {p},
                  !.lists[p.client] = IF @ = "valid" /\ Catalog # p.generation THEN "changed" ELSE @]
  /\ UNCHANGED <<world, known>>
-----------------------------------------------------------------------------
(* Tracker::snapshot. *)

\* The state of a client: what it did counts more than where it is installed, and an
\* answered request only while its list is not known to be another.
ClientState(c) ==
  IF poll.requests[c] # "none" /\ poll.lists[c] \in {"none", "valid"}
  THEN IF poll.requests[c] = "ok" THEN "healthy" ELSE "degraded"
  ELSE CASE poll.lists[c] = "valid"   -> "healthy"
         [] poll.lists[c] = "invalid" -> "degraded"
         [] poll.lists[c] = "changed" -> "restart"
         [] OTHER -> IF known.file # "unknown" /\ c \notin known.present THEN "not installed" ELSE "unknown"

ClientsIn(states) == \A c \in Clients : ClientState(c) \in states
SomeClient(state) == \E c \in Clients : ClientState(c) = state

\* What each source has to say of the whole; "none" when there is nothing to say.
RemovalSays ==
  CASE poll.lifecycle = "idle"            -> "none"
    [] poll.lifecycle = "draining"        -> "disconnecting"
    [] poll.lifecycle = "pending restart" -> "removal pending"
    [] OTHER                              -> "unavailable"
FileSays == IF known.file \in {"conflict", "unavailable"} THEN known.file ELSE "none"
ProviderSays ==
  CASE poll.provider = "recovering" -> "preflight"
    [] poll.provider = "verified"   -> IF ActiveTurns > 0 THEN "busy" ELSE "preflight"
    [] OTHER                        -> poll.provider
NativeSays == IF latest.outcome \in {"none", "success"} THEN "none" ELSE latest.outcome
ClientsSay ==
  IF poll.provider # "verified" \/ latest.outcome # "success" \/ known.file # "installed" THEN "none"
  ELSE IF ClientsIn({"healthy", "not installed"}) /\ SomeClient("healthy") THEN "ready"
  ELSE IF ClientsIn({"healthy", "restart", "not installed"}) /\ SomeClient("restart")
       THEN "restart required" ELSE "none"

\* What the poll tells, from the strongest statement to the weakest; turns, cleanup,
\* admission and the native service are read now.
Overall ==
  IF RemovalSays # "none" THEN RemovalSays
  ELSE IF inDoubt THEN "unavailable"
  ELSE IF ~admitting THEN "disconnected"
  ELSE IF FileSays # "none" THEN FileSays
  ELSE IF ProviderSays \notin {"preflight", "busy"} THEN ProviderSays
  ELSE IF NativeSays # "none" THEN NativeSays
  ELSE IF ProviderSays = "preflight" /\ ActiveTurns = 0 /\ ClientsSay # "none" THEN ClientsSay
  ELSE ProviderSays

EndPoll ==
  /\ poll.stage = "lists" /\ poll.pending = {}
  /\ poll' = NoPoll
  /\ UNCHANGED <<world, known>>
-----------------------------------------------------------------------------
Changes ==
  \/ RecoveryEnds \/ Retry \/ BrowserCloses \/ Maintain \/ FinishLogin \/ MaintenanceEnds
  \/ \E c \in Clients : StartTurn(c) \/ CancelTurn(c) \/ Respond(c) \/ Record(c)
  \/ BeginNative \/ \E c \in Clients : BeginList(c) \/ RefuseList(c)
  \/ \E n \in DOMAIN natives : Headers(n) \/ Body(n) \/ RecordList(n) \/ DropList(n)
  \/ Disconnect \/ StopAdmission \/ Drained

Polls == StartPoll \/ ReadProvider \/ ReadClients \/ CompareList \/ EndPoll
-----------------------------------------------------------------------------
\* What has to be the case for the integration to work, whatever was recorded of it.
Served(c) ==
  \E n \in DOMAIN natives :
    natives[n].client = c /\ natives[n].served /\ natives[n].generation = Catalog
Reported == {n \in DOMAIN natives : natives[n].outcome # "none"}

\* A client has a list of the generation that is offered, or has been answered and has no
\* other list.
Connected ==
  \E c \in Clients : Served(c) \/ (requests[c] = "ok" /\ catalogs[c].generation \in {0, Catalog})

Watch ==
  held' = IF poll'.stage = "off" THEN {}
          ELSE held \cup (IF ProviderHealth' = "verified" THEN {"provider"} ELSE {})
                    \cup (IF Connected' THEN {"client"} ELSE {})

HealthNext ==
  /\ \/ changes < MaxChanges /\ Changes /\ changes' = changes + 1
     \/ Polls /\ changes' = changes
  /\ Watch

HealthSpec == HealthInit /\ [][HealthNext]_healthVars
-----------------------------------------------------------------------------
(* Property. *)

\* "Ready" is said only when the integration works: while the poll lasts the page is
\* verified at some time and a client has a list of the generation that is offered or was
\* answered; when it ends web work is admitted, none runs or is in doubt, and of all native requests
\* with an outcome the newest went well.
ReadyIsEarned ==
  [][poll.stage # "off" /\ poll'.stage = "off" /\ Overall = "ready" =>
       /\ held = {"provider", "client"}
       /\ admitting /\ ~inDoubt /\ ~maintaining /\ AtWork = {}
       /\ Reported # {} /\ natives[Max(Reported)].outcome = "success"]_healthVars

\* implementation/STATUS.md:508: "Snapshot scope/generation changes invalidate earlier
\* catalog observations."  A list that would be found current is the one that is offered.
\* It is violated: generations repeat.  A client reads the list of a restored session, a
\* qualification extends it, and the sign-in that follows restores the longer list under
\* the number of the first.
EarlierListsAreInvalid ==
  \A c \in Clients :
    (catalogs[c].valid /\ Catalog # 0 /\ catalogs[c].generation = Catalog)
    => catalogs[c].efforts = provider.efforts

\* The world without polls, in any number of changes.
ListsSpec == HealthInit /\ [][Changes /\ UNCHANGED <<changes, held>>]_healthVars
=============================================================================
