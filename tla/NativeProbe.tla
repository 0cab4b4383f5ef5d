----------------------------- MODULE NativeProbe -----------------------------
(***************************************************************************)
(* The qualification of a native client: native_probe.rs drives a client   *)
(* process over its own protocol, live_probe.rs serves that client's       *)
(* requests from the real browser, and native_fixture.rs says which calls  *)
(* may reach the client and be approved.  What the report claims was done  *)
(* must have been done, whatever the model answers and however often an    *)
(* exchange is lost and made again.                                        *)
(*                                                                         *)
(*   phase, verdict   Client::verify: which turn is under way, its result  *)
(*   delivered        Fixture::deliveries, in the order they were made     *)
(*   given            what the client was allowed: Client's *_approved     *)
(*   seen             Client::observations, by what the checks read of     *)
(*                    them: the finished calls and the texts of the turn,  *)
(*                    its compactions, and whether another turn had a call *)
(*   calls            the client's requests, at most one of each turn      *)
(*   counts           ProbeProvider's counters                             *)
(*   output           probe-output.txt in the client's workspace           *)
(*   child, server    the client's process, and what serves its requests   *)
(*                                                                         *)
(* The client is external: it runs the calls that it received, commands    *)
(* with or without asking, and sends a request again when the answer was   *)
(* lost or cut off after its call.  A second turn of its own may ask too.  *)
(***************************************************************************)
EXTENDS Naturals, Sequences, FiniteSets, SequencesExt

CONSTANTS Exercises,   \* the exercises and the installed checkpoint probes
          MaxGrow,     \* MAX_HISTORY_TURNS
          MaxCompactions, \* bound: how often the client compacts the automatic probe's task
          MaxFaults    \* bound: lost, cut or failed steps and requests of a second turn

ASSUME ProbeAssumption ==
  /\ Exercises \subseteq {"text", "read_patch", "read_patch_test", "read_test_repair",
                          "denied_read", "checkpoint", "tool_checkpoint", "automatic"}
  /\ MaxGrow \in Nat \ {0} /\ MaxCompactions \in Nat /\ MaxFaults \in Nat

VARIABLES exercise, phase, verdict, delivered, given, seen, calls, counts, output, markers,
          evidence, child, server, report,
          asked,     \* how many requests there were: they give the ids
          history,   \* what the client's next request of the task carries
          faults,
          ran, recalled   \* history: the calls that ran, and what the recall was asked with

probeVars == <<exercise, phase, verdict, delivered, given, seen, calls, counts, output, markers,
               evidence, child, server, report, asked, history, faults, ran, recalled>>
client == <<calls, asked, history>>
fixture == <<delivered, given>>
judgement == <<phase, verdict, markers, evidence>>
outcome == <<child, server, report>>
past == <<ran, recalled>>

Commands == {"read", "test"}
Calls == Commands \cup {"patch"}
Repair == exercise = "read_test_repair"
Denial == exercise = "denied_read"
Checkpoint == exercise \in {"checkpoint", "tool_checkpoint", "automatic"}
Fixtured == exercise \notin {"text", "checkpoint", "automatic"}

\* The only answers that may reach the client, in their order.
Script ==
  CASE exercise = "read_patch" -> <<"read", "patch", "marker">>
    [] exercise = "read_patch_test" -> <<"read", "patch", "test", "passed">>
    [] exercise = "read_test_repair" -> <<"read", "test", "patch", "test", "passed">>
    [] exercise = "denied_read" -> <<"read", "denied">>
    [] exercise = "tool_checkpoint" ->
         <<"read", "ack", "compaction", "marker", "patch", "test", "passed">>
    [] exercise = "automatic" -> <<"seed", "other seed", "refused">>
    [] exercise = "checkpoint" -> <<"seed", "other seed">>
    [] OTHER -> <<"marker">>

NoCall == [stage |-> "idle", id |-> 0, op |-> "none", cut |-> FALSE, trigger |-> FALSE]
NoItems == [tools |-> << >>, texts |-> << >>, compactions |-> 0, late |-> FALSE, foreign |-> FALSE]
NoReport == [stage |-> "none", tools |-> 0]

ProbeInit ==
  /\ exercise \in Exercises
  /\ phase = "start" /\ verdict = "none" /\ delivered = << >> /\ seen = NoItems
  /\ given = [read |-> FALSE, denied |-> FALSE, patch |-> FALSE, tests |-> 0]
  /\ calls = [t \in {"own", "other"} |-> NoCall]
  /\ counts = [failures |-> 0, refusals |-> 0, compactions |-> 0, continuations |-> 0,
               plaintext |-> 0, first |-> 0]
  /\ output = "none"
  /\ markers = << >> /\ evidence = 0
  /\ child = "none" /\ server = "serving" /\ report = [NoReport EXCEPT !.stage = "starting"]
  /\ asked = 0 /\ history = "plain" /\ faults = 0 /\ ran = << >> /\ recalled = "none"

Listening == verdict = "none"
\* After a failure the client may go on until it is killed: nothing that it does then is
\* reported, and what changes a file would have to be approved.
Working == child \in {"running", "escaped"} /\ phase # "start" /\ verdict # "failed"
Serving == server = "serving" /\ verdict # "failed"
Fault == faults < MaxFaults /\ faults' = faults + 1

(***************************************************************************)
(* run_client and the first half of Client::verify: a fresh home and       *)
(* workspace, the process, and what it says of its configuration, account  *)
(* and model before the first turn.  Any of it may fail.                   *)
(***************************************************************************)
Launch ==
  /\ child = "none" /\ Listening
  /\ \/ /\ child' = "running" /\ output' = IF Repair THEN "broken" ELSE "none"
        /\ UNCHANGED <<faults, verdict>>
     \/ child' = "gone" /\ Fault /\ verdict' = "failed" /\ UNCHANGED output
  /\ UNCHANGED <<exercise, phase, markers, evidence, fixture, seen, client, counts, server, report,
                 past>>

Handshake ==
  /\ child = "running" /\ phase = "start" /\ Listening
  /\ \/ /\ phase' = IF exercise = "automatic" THEN "grow" ELSE "first"
        /\ UNCHANGED <<faults, verdict>>
     \/ Fault /\ verdict' = "failed" /\ UNCHANGED phase
  /\ UNCHANGED <<exercise, markers, evidence, fixture, seen, client, counts, output, outcome, past>>

(***************************************************************************)
(* A request and its answer.                                               *)
(***************************************************************************)
Counted(t, trigger) ==
  LET carries == t = "own" /\ history # "plain"
      plain == carries /\ (history = "leaky" \/ phase = "tools")
      N(b) == IF b THEN 1 ELSE 0
  IN [counts EXCEPT !.compactions = @ + N(trigger), !.continuations = @ + N(carries),
                    !.plaintext = @ + N(plain), !.first = @ + N(plain /\ counts.continuations = 0)]

Ask(t) ==
  /\ Working /\ calls[t].stage = "idle"
  /\ IF t = "own" THEN Listening /\ UNCHANGED faults ELSE Fault
  /\ \E trigger \in IF t = "other" THEN {FALSE}
                    ELSE IF phase = "compact" THEN {TRUE}
                    ELSE IF exercise = "automatic" /\ counts.compactions < MaxCompactions
                    THEN BOOLEAN ELSE {FALSE} :
       /\ calls' = [calls EXCEPT ![t] = [NoCall EXCEPT !.stage = "asking", !.id = asked + 1,
                                                       !.trigger = trigger]]
       /\ counts' = Counted(t, trigger)
  /\ asked' = asked + 1
  /\ UNCHANGED <<exercise, judgement, fixture, seen, output, outcome, history, past>>

\* The same request once more, after its answer was lost or cut off.
AskAgain(t) ==
  /\ Working /\ calls[t].stage = "again"
  /\ calls' = [calls EXCEPT ![t].stage = "asking", ![t].cut = FALSE]
  /\ counts' = Counted(t, calls[t].trigger)
  /\ UNCHANGED <<exercise, judgement, fixture, seen, output, outcome, asked, history, faults, past>>

Given(id) == {delivered[k].op : k \in {j \in DOMAIN delivered : delivered[j].id = id}}
Step == Len(delivered)
\* A request that was answered gets the same answer again and nothing else.
Accepts(id, op) ==
  \/ ~Fixtured
  \/ IF Given(id) # {} THEN op \in Given(id) ELSE Step < Len(Script) /\ Script[Step + 1] = op

Answers(call) ==
  IF Given(call.id) # {} THEN Given(call.id)
  ELSE IF call.trigger THEN {"compaction"}
  ELSE (ToSet(Script) \ {"compaction"}) \cup {"wrong"}

\* A turn that fails ends the probe if it is the probe's own.
TurnFails(t) ==
  /\ verdict' = IF t = "own" /\ Listening THEN "failed" ELSE verdict
  /\ calls' = [calls EXCEPT ![t].stage = "over"]

Refuse(t) ==
  /\ Serving /\ calls[t].stage = "asking"
  /\ \/ UNCHANGED faults /\ \E op \in Answers(calls[t]) : ~Accepts(calls[t].id, op)
     \/ Fault
  /\ TurnFails(t)
  /\ counts' = [counts EXCEPT !.failures = @ + 1]
  /\ UNCHANGED <<exercise, phase, markers, evidence, fixture, seen, output, outcome, asked,
                 history, past>>

Deliver(t, op) ==
  /\ Serving /\ calls[t].stage = "asking" /\ op \in Answers(calls[t]) \ {"refused"}
  /\ Accepts(calls[t].id, op)
  /\ delivered' = IF Given(calls[t].id) # {} THEN delivered
                  ELSE Append(delivered, [turn |-> t, id |-> calls[t].id, op |-> op])
  /\ \/ /\ \/ Fault /\ calls' = [calls EXCEPT ![t].stage = "again"]
           \/ Fault /\ calls' = [calls EXCEPT ![t].stage = "called", ![t].op = op, ![t].cut = TRUE]
           \/ UNCHANGED faults
              /\ calls' = [calls EXCEPT ![t].stage = "called", ![t].op = op]
  /\ recalled' = IF t = "own" /\ phase = "recall" /\ op # "compaction" THEN history ELSE recalled
  /\ UNCHANGED <<exercise, judgement, given, seen, counts, output, outcome, asked, history, ran>>

(***************************************************************************)
(* A call at the client: it asks for approval or runs a command unasked.   *)
(***************************************************************************)
Item(t, op, status) == [turn |-> t, op |-> op, status |-> status]
Own(op, status) == Item("own", op, status)
Observed(op, status) == Own(op, status) \in ToSet(seen.tools)

AllowsRead(op) == op = "read" /\ ~given.read /\ ~given.denied
AllowsTest(op) ==
  /\ op = "test" /\ ~Denial /\ given.tests < IF Repair THEN 2 ELSE 1
  /\ IF Repair /\ given.tests = 0 THEN Observed("read", "completed")
     ELSE Observed("patch", "completed")
\* Mutant: the patch may be approved more than once.
AllowsPatchAgain(op) == op = "patch" /\ ~Denial /\ (Repair => Observed("test", "failed"))
\* The patch's item was seen to start in the same turn.
AllowsPatch(op) ==
  op = "patch" /\ ~given.patch /\ ~Denial /\ (Repair => Observed("test", "failed"))

\* What running it does: its status, and the file after it.
Effect(op) ==
  CASE op = "read" -> {<<"completed", output>>}
    [] op = "test" -> {<<IF output = "marker" THEN "passed" ELSE "failed", output>>}
    [] OTHER -> IF output = (IF Repair THEN "broken" ELSE "none")
                THEN {<<"completed", "marker">>} ELSE {<<"failed", output>>}

After(call) == IF call.cut THEN "again" ELSE "idle"
\* What is seen of a call, and of a text.
CallSeen(t, op, status) ==
  IF t = "own" THEN [seen EXCEPT !.tools = Append(@, Own(op, status))]
  ELSE [seen EXCEPT !.foreign = TRUE]
TextSeen(t, op) == IF t = "own" THEN [seen EXCEPT !.texts = Append(@, op)] ELSE seen
Noted(items) == IF Listening THEN items ELSE seen

Run(t, op) ==
  \E e \in Effect(op) \cup IF faults < MaxFaults THEN {<<"broken", output>>} ELSE {} :
    /\ faults' = IF e[1] = "broken" THEN faults + 1 ELSE faults
    /\ output' = e[2]
    /\ seen' = Noted(CallSeen(t, op, e[1]))
    /\ ran' = Append(ran, Item(t, op, e[1]))
    /\ calls' = [calls EXCEPT ![t].stage = After(calls[t])]

RunUnasked(t) ==
  /\ Working /\ calls[t].stage = "called" /\ calls[t].op \in Commands
  /\ Run(t, calls[t].op)
  /\ UNCHANGED <<exercise, judgement, fixture, counts, outcome, asked, history, recalled>>

AskApproval(t) ==
  LET op == calls[t].op
      allowed == t = "own" /\ (AllowsRead(op) \/ AllowsTest(op) \/ AllowsPatch(op))
  IN /\ Listening /\ calls[t].stage = "called" /\ op \in Calls
     /\ IF ~allowed
        THEN /\ verdict' = "failed"
             /\ UNCHANGED <<given, seen, output, ran, calls, faults>>
        ELSE /\ UNCHANGED verdict
             /\ IF op = "read" /\ Denial
                THEN /\ given' = [given EXCEPT !.denied = TRUE]
                     /\ seen' = CallSeen(t, op, "declined")
                     /\ calls' = [calls EXCEPT ![t].stage = After(calls[t])]
                     /\ UNCHANGED <<output, ran, faults>>
                ELSE /\ given' = CASE op = "read" -> [given EXCEPT !.read = TRUE]
                                   [] op = "patch" -> [given EXCEPT !.patch = TRUE]
                                   [] OTHER -> [given EXCEPT !.tests = @ + 1]
                     /\ Run(t, op)
     /\ UNCHANGED <<exercise, phase, markers, evidence, delivered, counts, outcome, asked, history,
                    recalled>>

(***************************************************************************)
(* The end of a turn, and what Client::verify makes of it.                 *)
(***************************************************************************)
NothingIn(items) == items.tools = << >> /\ items.texts = << >> /\ items.compactions = 0
TextIs(items, text) == items.texts = <<text>>

\* The items that an exercise must have, all of them and no other.
Expected ==
  CASE exercise = "read_patch" -> <<Own("read", "completed"), Own("patch", "completed")>>
    [] exercise = "read_patch_test" ->
         <<Own("read", "completed"), Own("patch", "completed"), Own("test", "passed")>>
    [] Repair -> <<Own("read", "completed"), Own("test", "failed"), Own("patch", "completed"),
                   Own("test", "passed")>>
    [] OTHER -> << >>

\* The workspace holds what the patch should have written, or nothing yet.
MarkerWritten == output = "marker"
NothingWritten == output = "none"
\* Mutant: the calls are looked for, not counted.
VerifyToolsAmong(items) == ToSet(Expected) \subseteq ToSet(items.tools) /\ MarkerWritten
VerifyTools(items) == items.tools = Expected /\ MarkerWritten
VerifyDenial(items) ==
  /\ given.denied /\ ~given.read /\ ~given.patch
  /\ items.tools = <<Own("read", "declined")>> /\ NothingWritten
\* Items of another turn are refused here, and only here.
VerifyRead(items) ==
  /\ items.tools = <<Own("read", "completed")>> /\ ~items.foreign
VerifyPost(items) ==
  /\ items.tools = <<Own("patch", "completed"), Own("test", "passed")>> /\ ~items.foreign
  /\ MarkerWritten

\* The marker that an answer invents: the probe does not know it before.
SeedIn(items) == \E s \in {"seed", "other seed"} : TextIs(items, s)
FreshSeedIn(items) == SeedIn(items) /\ Last(items.texts) \notin ToSet(markers)

Goes(next, seeds, found) ==
  /\ phase' = next /\ markers' = seeds /\ evidence' = found /\ UNCHANGED verdict
  /\ calls' = [calls EXCEPT !["own"] = NoCall]
  /\ seen' = NoItems
Finds(result, found) ==
  /\ verdict' = result /\ evidence' = found /\ UNCHANGED <<phase, markers>>
  /\ calls' = [calls EXCEPT !["own"].stage = "over"]

FirstTurnEnds(items) ==
  CASE exercise = "checkpoint" ->
         IF SeedIn(items)
         THEN Goes("compact", <<Last(items.texts)>>, evidence)
         ELSE Finds("failed", evidence) /\ seen' = items
    [] exercise = "tool_checkpoint" ->
         IF TextIs(items, "ack") /\ VerifyRead(items) /\ NothingWritten
         THEN Goes("compact", <<"marker">>, 1) ELSE Finds("failed", evidence) /\ seen' = items
    [] OTHER ->
         /\ Finds(IF /\ TextIs(items, Last(Script))
                     /\ Fixtured => IF Denial THEN VerifyDenial(items) ELSE VerifyTools(items)
                  THEN "ok" ELSE "failed", evidence)
         /\ seen' = items

GrowingEnds(items) ==
  IF FreshSeedIn(items) /\ Len(markers) + 1 < MaxGrow
  THEN Goes("grow", Append(markers, Last(items.texts)), evidence)
  ELSE Finds("failed", evidence) /\ seen' = items

\* One compaction, before the answer.
CompactedOnce(items) == items.compactions = 1 /\ ~items.late

RecallEnds(items) ==
  IF ~TextIs(items, Last(markers)) \/ (exercise = "automatic" /\ ~CompactedOnce(items))
  THEN Finds("failed", evidence) /\ seen' = items
  ELSE IF exercise # "tool_checkpoint" THEN Finds("ok", 2) /\ seen' = items
  ELSE IF ~NothingWritten THEN Finds("failed", evidence) /\ seen' = items
  ELSE Goes("tools", markers, 2)

ToolTurnEnds(items) ==
  /\ IF TextIs(items, "passed") /\ VerifyPost(items) THEN Finds("ok", 3) ELSE Finds("failed", evidence)
  /\ seen' = items

OwnTurnEnds(items) ==
  CASE phase = "first" -> FirstTurnEnds(items)
    [] phase = "grow" -> GrowingEnds(items)
    [] phase = "recall" -> RecallEnds(items)
    [] OTHER -> ToolTurnEnds(items)

\* An answer's text ends its turn, unless the stream was cut off behind it.
Say(t) ==
  LET items == Noted(TextSeen(t, calls[t].op))
  IN /\ Working /\ calls[t].stage = "called" /\ calls[t].op \notin Calls \cup {"compaction"}
     /\ IF calls[t].cut THEN seen' = items /\ calls' = [calls EXCEPT ![t].stage = "again"]
                             /\ UNCHANGED judgement
        ELSE IF t = "own" /\ Listening THEN OwnTurnEnds(items)
        ELSE seen' = items /\ calls' = [calls EXCEPT ![t].stage = "over"] /\ UNCHANGED judgement
     /\ UNCHANGED <<exercise, fixture, counts, output, outcome, asked, history, faults, past>>

\* The refusal that the automatic probe grows its history for.
ContextRefusal ==
  /\ Serving /\ Listening /\ calls["own"].stage = "asking" /\ "refused" \in Answers(calls["own"])
  /\ counts' = [counts EXCEPT !.refusals = @ + 1]
  /\ IF phase = "grow" /\ markers # << >> THEN Goes("recall", markers, evidence)
     ELSE Finds("failed", evidence) /\ UNCHANGED seen
  /\ UNCHANGED <<exercise, fixture, output, outcome, asked, history, faults, past>>

\* The client has its checkpoint; what it carries from now on is up to the client.
Compacted ==
  LET compacting == phase = "compact" \/ (phase = "recall" /\ exercise = "automatic")
  IN /\ Working /\ calls["own"].stage = "called" /\ calls["own"].op = "compaction"
     /\ history' \in {"plain", "checkpoint", "leaky"}
     /\ IF ~Listening \/ ~compacting \/ (phase = "compact" /\ ~NothingIn(seen))
        THEN Finds(IF Listening THEN "failed" ELSE verdict, evidence) /\ UNCHANGED seen
        ELSE IF phase = "compact" /\ ~calls["own"].cut THEN Goes("recall", markers, evidence)
        ELSE /\ seen' = [seen EXCEPT !.compactions = @ + 1, !.late = @ \/ seen.texts # << >>]
             /\ UNCHANGED judgement
             /\ calls' = [calls EXCEPT !["own"].stage = After(calls["own"])]
     /\ UNCHANGED <<exercise, fixture, counts, output, outcome, asked, faults, past>>

(***************************************************************************)
(* The end: run_client, run_probe and the report.                          *)
(***************************************************************************)
GiveUp ==   \* cancelled, or out of time
  /\ Listening /\ child = "running" /\ Fault /\ verdict' = "failed"
  /\ UNCHANGED <<exercise, phase, markers, evidence, fixture, seen, client, counts, output,
                 outcome, past>>

Terminate ==
  /\ ~Listening /\ child = "running"
  /\ \/ child' = "gone" /\ UNCHANGED <<verdict, faults>>
     \/ child' = "escaped" /\ verdict' = "failed" /\ Fault
  /\ UNCHANGED <<exercise, phase, markers, evidence, fixture, seen, client, counts, output,
                 server, report, past>>

\* run_probe ends: the gateway lets go of the browser, the listener stops, and the last
\* look at the browser succeeds or fails.
StopServer ==
  /\ child \in {"gone", "escaped"} /\ server = "serving"
  /\ \/ server' = "stopped" /\ UNCHANGED faults
     \/ server' = "failed" /\ Fault
  /\ UNCHANGED <<exercise, judgement, fixture, seen, client, counts, output, child, report, past>>

\* Mutant: what the first request after the checkpoint carried is not looked at.
TransportUnread ==
  /\ counts.failures = 0
  /\ Checkpoint => counts.compactions = 1 /\ counts.continuations > 0
Transport ==
  /\ counts.failures = 0
  /\ Checkpoint =>
       /\ counts.compactions = 1 /\ counts.first = 0
       /\ counts.continuations = IF exercise = "tool_checkpoint" THEN 4 ELSE 1
       /\ exercise # "tool_checkpoint" => counts.plaintext = 0
       /\ exercise = "automatic" => counts.refusals = 1

ToolsReported(done) ==
  CASE exercise = "tool_checkpoint" ->
         IF evidence = 3 /\ verdict = "ok" THEN 3 ELSE IF evidence > 0 THEN 1 ELSE 0
    [] OTHER -> IF done THEN Len(Expected) ELSE 0

\* qualify_owned returns a report, qualify_installed_checkpoint replaces the one it began
\* with: there the browser must be idle as well.
OwnedSucceeds == server = "stopped" /\ verdict = "ok" /\ Transport
InstalledSucceeds(idle) == server = "stopped" /\ verdict = "ok" /\ Transport /\ idle

Conclude ==
  /\ server # "serving" /\ report.stage = "starting"
  /\ \E idle \in BOOLEAN :
       LET done == IF Checkpoint THEN InstalledSucceeds(idle) ELSE OwnedSucceeds
       IN report' = [stage |-> IF done THEN "completed" ELSE "failed", tools |-> ToolsReported(done)]
  /\ UNCHANGED <<exercise, judgement, fixture, seen, client, counts, output, child, server, faults,
                 past>>

ProbeNext ==
  \/ \E t \in {"own", "other"} :
       \/ Ask(t) \/ AskAgain(t) \/ Refuse(t) \/ RunUnasked(t) \/ AskApproval(t) \/ Say(t)
       \/ \E op \in Answers(calls[t]) : Deliver(t, op)
  \/ ContextRefusal \/ Compacted \/ GiveUp
  \/ Launch \/ Handshake \/ Terminate \/ StopServer \/ Conclude

ProbeSpec == ProbeInit /\ [][ProbeNext]_probeVars

\* What the report claims was done.  A completed exercise ran exactly its calls, in their
\* order and with the results they should have had, and nothing else ran in any turn; a
\* completed checkpoint probe was answered from the checkpoint alone; the calls that are
\* counted did run; and the one call that changes a file, the patch, never ran twice, or
\* in a repair before the test had failed.
ReportIsTrue ==
  /\ report.stage = "completed" =>
       /\ child = "gone"
       /\ exercise # "tool_checkpoint" => ran = Expected
       /\ exercise = "tool_checkpoint" =>
            ran = <<Own("read", "completed"), Own("patch", "completed"), Own("test", "passed")>>
       /\ Checkpoint => recalled = "checkpoint"
  /\ Len(ran) >= report.tools
  /\ \A i \in DOMAIN ran : ran[i].op = "patch" =>
       /\ \A j \in DOMAIN ran : ran[j].op = "patch" => j = i
       /\ Repair => \E j \in 1..(i - 1) : ran[j] = Own("test", "failed")
=============================================================================
