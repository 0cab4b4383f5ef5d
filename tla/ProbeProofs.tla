----------------------------- MODULE ProbeProofs -----------------------------
(***************************************************************************)
(* What the report of a qualification claims was done (NativeProbe), for   *)
(* any exercises and any number of lost, cut and failed steps.             *)
(***************************************************************************)
EXTENDS NativeProbe, SequenceTheorems, TLAPS

Turns == {"own", "other"}
Answered == {"marker", "passed", "denied", "ack", "seed", "other seed", "wrong"}
Replies == Calls \cup Answered \cup {"compaction"}
Ended == {"completed", "passed", "failed", "broken"}
ItemType == [turn : Turns, op : Calls, status : Ended \cup {"declined"}]
SeenType == [tools : Seq(ItemType), texts : Seq(Answered), compactions : Nat,
             late : BOOLEAN, foreign : BOOLEAN]
CallType == [stage : {"idle", "asking", "again", "called", "over"}, id : Nat,
             op : Replies \cup {"none"}, cut : BOOLEAN, trigger : BOOLEAN]
CountsType == [failures : Nat, refusals : Nat, compactions : Nat, continuations : Nat,
               plaintext : Nat, first : Nat]

ProbeTyped ==
  /\ exercise \in Exercises
  /\ phase \in {"start", "first", "grow", "compact", "recall", "tools"}
  /\ verdict \in {"none", "ok", "failed"}
  /\ delivered \in Seq([turn : Turns, id : Nat, op : Replies])
  /\ given \in [read : BOOLEAN, denied : BOOLEAN, patch : BOOLEAN, tests : Nat]
  /\ seen \in SeenType
  /\ calls \in [Turns -> CallType]
  /\ counts \in CountsType
  /\ output \in {"none", "broken", "marker"}
  /\ markers \in Seq(Answered)
  /\ evidence \in 0..3
  /\ child \in {"none", "running", "gone", "escaped"}
  /\ server \in {"serving", "stopped", "failed"}
  /\ report \in [stage : {"starting", "completed", "failed"}, tools : 0..4]
  /\ asked \in Nat
  /\ history \in {"plain", "checkpoint", "leaky"}
  /\ ran \in Seq(ItemType)
  /\ recalled \in {"none", "plain", "checkpoint", "leaky"}

\* The report is written when the server has stopped, which it does when the client has.
EndFits ==
  /\ child = "gone" => verdict # "none"
  /\ child = "escaped" => verdict = "failed"
  /\ server # "serving" => child \in {"gone", "escaped"}
  /\ report.stage # "starting" => server # "serving"
  /\ report.stage = "completed" => verdict = "ok"

\* Which exercises come to which phase.
PhaseFits ==
  /\ phase = "first" => exercise # "automatic"
  /\ phase = "grow" => exercise = "automatic"
  /\ phase = "compact" => exercise \in {"checkpoint", "tool_checkpoint"}
  /\ phase = "recall" => Checkpoint
  /\ phase = "tools" => exercise = "tool_checkpoint"
  /\ exercise = "tool_checkpoint" /\ phase \in {"compact", "recall", "tools"} => markers = <<"marker">>

\* Each request is answered once, and in the order of the script.
DeliveriesFit ==
  /\ \A j, k \in DOMAIN delivered : delivered[j].id = delivered[k].id => j = k
  /\ \A k \in DOMAIN delivered : delivered[k].id \in 1..asked
  /\ Fixtured => /\ Len(delivered) <= Len(Script)
                 /\ \A k \in DOMAIN delivered : delivered[k].op = Script[k]
  /\ ~Fixtured => \A k \in DOMAIN delivered : delivered[k].op \notin Calls

\* How much of the script was delivered before this phase began.
Start ==
  IF exercise # "tool_checkpoint" THEN 0
  ELSE IF phase = "compact" THEN 2 ELSE IF phase = "recall" THEN 3 ELSE IF phase = "tools" THEN 4 ELSE 0

\* A turn's request is the turn's own; in its own turn the client asks one thing after
\* the other.
CallsFit ==
  /\ Start <= Len(delivered)
  /\ calls["own"].id = calls["other"].id => calls["own"].id = 0
  /\ \A t \in Turns :
       /\ calls[t].id <= asked
       /\ calls[t].stage \in {"asking", "called", "again"} => calls[t].id # 0
       /\ \A k \in DOMAIN delivered : delivered[k].id = calls[t].id => delivered[k].turn = t
       /\ calls[t].stage = "called" =>
            \E k \in DOMAIN delivered : delivered[k].id = calls[t].id /\ delivered[k].op = calls[t].op
  /\ \A k \in DOMAIN delivered : delivered[k].id = calls["own"].id =>
       /\ k > Start
       /\ \A j \in DOMAIN delivered : delivered[j].turn = "own" => j <= k
       /\ calls["own"].trigger => delivered[k].op = "compaction"
  /\ phase = "compact" /\ calls["own"].stage \in {"asking", "called", "again"} => calls["own"].trigger

\* The calls seen in this phase were delivered in it to the probe's own turn, in order.
ToolsFit ==
  verdict # "failed" =>
    \E of \in [DOMAIN seen.tools -> DOMAIN delivered] :
      /\ \A i \in DOMAIN seen.tools :
           /\ of[i] > Start /\ delivered[of[i]].turn = "own"
           /\ delivered[of[i]].op = seen.tools[i].op
      /\ \A i, j \in DOMAIN seen.tools : i < j => of[i] <= of[j]

\* What was done before the phase.
Before ==
  IF exercise = "tool_checkpoint" /\ phase \in {"compact", "recall", "tools"}
  THEN <<Own("read", "completed")>> ELSE << >>
OwnOnly == \A i \in DOMAIN ran : ran[i].turn = "own"

\* What ran was delivered to the turn that ran it; what the own turn ran was seen.
RanFits ==
  /\ \A i \in DOMAIN ran :
       /\ ran[i].status # "declined"
       /\ \E k \in DOMAIN delivered : delivered[k].turn = ran[i].turn /\ delivered[k].op \in Calls
  /\ \A i \in DOMAIN seen.tools :
       seen.tools[i].status # "declined" => \E j \in DOMAIN ran : ran[j] = seen.tools[i]
  /\ verdict # "failed" /\ OwnOnly =>
       IF Denial THEN \A i \in DOMAIN ran : \E j \in DOMAIN seen.tools : ran[i] = seen.tools[j]
       ELSE ran = Before \o seen.tools
  /\ exercise = "tool_checkpoint" /\ phase \in {"compact", "recall", "tools"} =>
       delivered[1].turn = "own"

\* The patch runs once, and in a repair after the test has failed.
PatchFits ==
  \A i \in DOMAIN ran : ran[i].op = "patch" =>
    /\ given.patch
    /\ \A j \in DOMAIN ran : ran[j].op = "patch" => j = i
    /\ Repair => \E j \in 1..(i - 1) : ran[j] = Own("test", "failed")

\* What the requests carried: the first that carried anything tells what the history is.
Carried ==
  /\ history = "plain" => counts.continuations = 0
  /\ history = "leaky" /\ counts.continuations > 0 => counts.first > 0
Uncarried == history = "plain" /\ counts.continuations = 0

RecallFits ==
  verdict # "failed" /\ Checkpoint =>
    /\ phase \in {"start", "first", "grow"} => Uncarried
    /\ phase = "compact" => seen.compactions > 0 \/ Uncarried
    /\ phase = "recall" /\ exercise = "automatic" /\ seen.compactions = 0 => Uncarried
    /\ phase = "recall" /\ (exercise = "automatic" => seen.compactions = 1) =>
         /\ Carried
         /\ calls["own"].stage = "called" /\ calls["own"].op # "compaction" => recalled = history
    /\ phase = "tools" => Carried /\ recalled = history

Wanted ==
  IF exercise = "tool_checkpoint"
  THEN <<Own("read", "completed"), Own("patch", "completed"), Own("test", "passed")>> ELSE Expected

\* After a success nothing is left to do.
FinalFits ==
  verdict = "ok" =>
    /\ ran = Wanted /\ calls["own"].stage = "over"
    /\ Fixtured => Len(delivered) = Len(Script)
    /\ \A k \in DOMAIN delivered : delivered[k].op \in Calls => delivered[k].turn = "own"
    /\ Checkpoint => Carried /\ recalled = history

ReportFits ==
  /\ exercise = "tool_checkpoint" /\ (evidence > 0 \/ phase \in {"compact", "recall", "tools"}) =>
       Len(ran) >= 1
  /\ report.tools <= Len(ran)
  /\ report.stage = "completed" /\ Checkpoint => recalled = "checkpoint"

ProbeInv ==
  /\ ProbeTyped /\ EndFits /\ PhaseFits /\ DeliveriesFit /\ CallsFit /\ ToolsFit /\ RanFits
  /\ PatchFits /\ RecallFits /\ FinalFits /\ ReportFits

-----------------------------------------------------------------------------
(* Facts about the operators.                                              *)

\* The script of each exercise.
LEMMA ScriptOf ==
  /\ exercise = "read_patch" => Script = <<"read", "patch", "marker">>
  /\ exercise = "read_patch_test" => Script = <<"read", "patch", "test", "passed">>
  /\ exercise = "read_test_repair" => Script = <<"read", "test", "patch", "test", "passed">>
  /\ exercise = "denied_read" => Script = <<"read", "denied">>
  /\ exercise = "tool_checkpoint" =>
       Script = <<"read", "ack", "compaction", "marker", "patch", "test", "passed">>
  /\ exercise = "automatic" => Script = <<"seed", "other seed", "refused">>
  /\ exercise = "checkpoint" => Script = <<"seed", "other seed">>
  /\ exercise = "text" => Script = <<"marker">>
BY DEF Script

LEMMA ExerciseIs ==
  ASSUME ProbeTyped
  PROVE  exercise \in {"text", "read_patch", "read_patch_test", "read_test_repair",
                       "denied_read", "checkpoint", "tool_checkpoint", "automatic"}
BY ProbeAssumption DEF ProbeTyped

\* Short sequences.
LEMMA ShortSequences ==
  ASSUME NEW S, NEW a \in S, NEW b \in S, NEW c \in S, NEW d \in S, NEW e \in S
  PROVE  /\ <<a, b>> \in Seq(S)
         /\ <<a, b, c>> \in Seq(S)
         /\ <<a, b, c, d>> \in Seq(S)
         /\ <<a, b, c, d, e>> \in Seq(S)
OBVIOUS

LEMMA OneSequence ==
  ASSUME NEW S, NEW a \in S
  PROVE  <<a>> \in Seq(S)
OBVIOUS

LEMMA SevenSequence ==
  ASSUME NEW S, NEW a \in S, NEW b \in S, NEW c \in S, NEW d \in S, NEW e \in S,
         NEW f \in S, NEW g \in S
  PROVE  <<a, b, c, d, e, f, g>> \in Seq(S)
OBVIOUS

\* Every answer but the refusal is a reply; an exercise without fixtures has no calls.
LEMMA ScriptReplies ==
  ASSUME ProbeTyped
  PROVE  /\ Script \in Seq(Replies \cup {"refused"})
         /\ ~Fixtured => \A k \in 1..Len(Script) : Script[k] \notin Calls
<1>1. exercise \in {"text", "read_patch", "read_patch_test", "read_test_repair",
                    "denied_read", "checkpoint", "tool_checkpoint", "automatic"}
  BY ExerciseIs
<1>2. \A x \in {"read", "patch", "test", "marker", "passed", "denied", "ack", "compaction", "seed",
                "other seed", "refused"} : x \in Replies \cup {"refused"}
  BY DEF Replies, Answered, Calls, Commands
<1>3. /\ <<"marker">> \in Seq(Replies \cup {"refused"})
      /\ <<"read", "patch", "marker">> \in Seq(Replies \cup {"refused"})
      /\ <<"read", "patch", "test", "passed">> \in Seq(Replies \cup {"refused"})
      /\ <<"read", "test", "patch", "test", "passed">> \in Seq(Replies \cup {"refused"})
      /\ <<"read", "denied">> \in Seq(Replies \cup {"refused"})
      /\ <<"read", "ack", "compaction", "marker", "patch", "test", "passed">> \in Seq(Replies \cup {"refused"})
      /\ <<"seed", "other seed", "refused">> \in Seq(Replies \cup {"refused"})
      /\ <<"seed", "other seed">> \in Seq(Replies \cup {"refused"})
  <2>1. <<"marker">> \in Seq(Replies \cup {"refused"})
    BY <1>2, OneSequence
  <2>2. <<"read", "patch", "marker">> \in Seq(Replies \cup {"refused"})
    BY <1>2, ShortSequences
  <2>3. <<"read", "patch", "test", "passed">> \in Seq(Replies \cup {"refused"})
    BY <1>2, ShortSequences
  <2>4. <<"read", "test", "patch", "test", "passed">> \in Seq(Replies \cup {"refused"})
    BY <1>2, ShortSequences
  <2>5. <<"read", "denied">> \in Seq(Replies \cup {"refused"})
    BY <1>2, ShortSequences
  <2>6. <<"read", "ack", "compaction", "marker", "patch", "test", "passed">> \in Seq(Replies \cup {"refused"})
    BY <1>2, SevenSequence
  <2>7. <<"seed", "other seed", "refused">> \in Seq(Replies \cup {"refused"})
    BY <1>2, ShortSequences
  <2>8. <<"seed", "other seed">> \in Seq(Replies \cup {"refused"})
    BY <1>2, ShortSequences
  <2> QED  BY <2>1, <2>2, <2>3, <2>4, <2>5, <2>6, <2>7, <2>8
<1>4. Script \in Seq(Replies \cup {"refused"})
  BY <1>1, <1>3, ScriptOf
<1>5. ASSUME ~Fixtured, NEW k \in 1..Len(Script) PROVE Script[k] \notin Calls
  <2>1. exercise \in {"text", "checkpoint", "automatic"}
    BY <1>1, <1>5 DEF Fixtured
  <2>2. CASE exercise = "text"
    <3>1. Script = <<"marker">>
      BY <2>2, ScriptOf
    <3>2. Len(Script) = 1 /\ Script[1] = "marker"
      BY <3>1
    <3>3. k \in {1}
      BY <1>5, <3>2
    <3> QED  BY <3>2, <3>3 DEF Calls, Commands
  <2>3. CASE exercise = "checkpoint"
    <3>1. Script = <<"seed", "other seed">>
      BY <2>3, ScriptOf
    <3>2. Len(Script) = 2 /\ Script[1] = "seed" /\ Script[2] = "other seed"
      BY <3>1
    <3>3. k \in {1, 2}
      <4>1. Len(Script) = 2
        BY <3>2
      <4> QED  BY <1>5, <4>1
    <3> QED  BY <3>2, <3>3 DEF Calls, Commands
  <2>4. CASE exercise = "automatic"
    <3>1. Script = <<"seed", "other seed", "refused">>
      BY <2>4, ScriptOf
    <3>2. Len(Script) = 3 /\ Script[1] = "seed" /\ Script[2] = "other seed" /\ Script[3] = "refused"
      BY <3>1
    <3>3. k \in {1, 2, 3}
      <4>1. Len(Script) = 3
        BY <3>2
      <4> QED  BY <1>5, <4>1
    <3> QED  BY <3>2, <3>3 DEF Calls, Commands
  <2> QED  BY <2>1, <2>2, <2>3, <2>4
<1> QED  BY <1>4, <1>5

\* Where the script has a call, and where it ends.
LEMMA ScriptSteps ==
  ASSUME ProbeTyped, Fixtured, NEW k \in 1..Len(Script)
  PROVE  /\ Script[k] = "read" => k = 1
         /\ Script[k] = "patch" =>
              k = IF Repair THEN 3 ELSE IF exercise = "tool_checkpoint" THEN 5 ELSE 2
         /\ Script[k] = "test" => IF Repair THEN k \in {2, 4}
                                  ELSE k = IF exercise = "tool_checkpoint" THEN 6 ELSE 3
         /\ Script[k] \in {"passed", "denied"} => k = Len(Script)
         /\ Script[k] = "marker" => k = IF exercise = "tool_checkpoint" THEN 4 ELSE Len(Script)
         /\ Script[k] = "ack" => k = 2
         /\ Script[k] = "compaction" => k = 3 /\ exercise = "tool_checkpoint"
<1>1. exercise \in {"read_patch", "read_patch_test", "read_test_repair", "denied_read",
                    "tool_checkpoint"}
  BY ExerciseIs DEF Fixtured
<1>2. CASE exercise = "read_patch"
  <2>1. Script = <<"read", "patch", "marker">>
    BY <1>2, ScriptOf
  <2>2. Len(Script) = 3 /\ k \in {1, 2, 3}
    BY <2>1
  <2>3. /\ Script[1] = "read"
        /\ Script[2] = "patch"
        /\ Script[3] = "marker"
    BY <2>1
  <2> QED  BY <1>2, <2>2, <2>3 DEF Repair
<1>3. CASE exercise = "read_patch_test"
  <2>1. Script = <<"read", "patch", "test", "passed">>
    BY <1>3, ScriptOf
  <2>2. Len(Script) = 4 /\ k \in {1, 2, 3, 4}
    BY <2>1
  <2>3. /\ Script[1] = "read"
        /\ Script[2] = "patch"
        /\ Script[3] = "test"
        /\ Script[4] = "passed"
    BY <2>1
  <2> QED  BY <1>3, <2>2, <2>3 DEF Repair
<1>4. CASE exercise = "read_test_repair"
  <2>1. Script = <<"read", "test", "patch", "test", "passed">>
    BY <1>4, ScriptOf
  <2>2. Len(Script) = 5 /\ k \in {1, 2, 3, 4, 5}
    BY <2>1
  <2>3. /\ Script[1] = "read"
        /\ Script[2] = "test"
        /\ Script[3] = "patch"
        /\ Script[4] = "test"
        /\ Script[5] = "passed"
    BY <2>1
  <2> QED  BY <1>4, <2>2, <2>3 DEF Repair
<1>5. CASE exercise = "denied_read"
  <2>1. Script = <<"read", "denied">>
    BY <1>5, ScriptOf
  <2>2. Len(Script) = 2 /\ k \in {1, 2}
    BY <2>1
  <2>3. /\ Script[1] = "read"
        /\ Script[2] = "denied"
    BY <2>1
  <2> QED  BY <1>5, <2>2, <2>3 DEF Repair
<1>6. CASE exercise = "tool_checkpoint"
  <2>1. Script = <<"read", "ack", "compaction", "marker", "patch", "test", "passed">>
    BY <1>6, ScriptOf
  <2>2. Len(Script) = 7 /\ k \in {1, 2, 3, 4, 5, 6, 7}
    BY <2>1
  <2>3. /\ Script[1] = "read"
        /\ Script[2] = "ack"
        /\ Script[3] = "compaction"
        /\ Script[4] = "marker"
        /\ Script[5] = "patch"
        /\ Script[6] = "test"
        /\ Script[7] = "passed"
    BY <2>1
  <2> QED  BY <1>6, <2>2, <2>3 DEF Repair
<1> QED  BY <1>1, <1>2, <1>3, <1>4, <1>5, <1>6

\* What has become of a call that was set to a stage.
LEMMA StageSet ==
  ASSUME calls \in [Turns -> CallType], NEW t \in Turns,
         NEW s \in {"idle", "asking", "again", "called", "over"},
         calls' = [calls EXCEPT ![t].stage = s]
  PROVE  /\ calls' \in [Turns -> CallType]
         /\ calls'[t].stage = s
         /\ \A u \in Turns : /\ u # t => calls'[u] = calls[u]
                             /\ calls'[u].id = calls[u].id
                             /\ calls'[u].op = calls[u].op
                             /\ calls'[u].cut = calls[u].cut
                             /\ calls'[u].trigger = calls[u].trigger
BY DEF CallType, Turns

LEMMA CallSet ==
  ASSUME calls \in [Turns -> CallType], NEW t \in Turns, NEW c \in CallType,
         calls' = [calls EXCEPT ![t] = c]
  PROVE  /\ calls' \in [Turns -> CallType]
         /\ calls'[t] = c
         /\ \A u \in Turns : u # t => calls'[u] = calls[u]
BY DEF CallType, Turns

\* A request carries what the history has.
LEMMA CountedFits ==
  ASSUME counts \in CountsType, NEW t \in Turns, NEW trigger \in BOOLEAN,
         counts' = Counted(t, trigger), UNCHANGED history
  PROVE  /\ counts' \in CountsType
         /\ Carried => Carried'
         /\ Uncarried => Uncarried'
<1> DEFINE N(b) == IF b THEN 1 ELSE 0
           carries == t = "own" /\ history # "plain"
           plain == carries /\ (history = "leaky" \/ phase = "tools")
<1>1. /\ counts.failures \in Nat /\ counts.refusals \in Nat /\ counts.compactions \in Nat
      /\ counts.continuations \in Nat /\ counts.plaintext \in Nat /\ counts.first \in Nat
  BY DEF CountsType
<1>2. /\ counts' = [failures |-> counts.failures, refusals |-> counts.refusals,
                    compactions |-> counts.compactions + N(trigger),
                    continuations |-> counts.continuations + N(carries),
                    plaintext |-> counts.plaintext + N(plain),
                    first |-> counts.first + N(plain /\ counts.continuations = 0)]
  BY DEF Counted, CountsType
<1>3. \A b \in BOOLEAN : N(b) \in Nat
  OBVIOUS
<1>4. counts' \in CountsType
  BY <1>1, <1>2 DEF CountsType
<1>5. /\ counts'.continuations = counts.continuations + N(carries)
      /\ counts'.first = counts.first + N(plain /\ counts.continuations = 0)
  BY <1>2
<1>6. history' = history
  OBVIOUS
<1>7. Carried => Carried'
  BY <1>1, <1>5, <1>6 DEF Carried
<1>8. Uncarried => Uncarried'
  BY <1>1, <1>5, <1>6 DEF Uncarried
<1> QED  BY <1>4, <1>7, <1>8

-----------------------------------------------------------------------------
(* A step that leaves what a part of the invariant reads, or fails, keeps that part.  *)
Failing == verdict' \in {verdict, "failed"}

LEMMA PhaseFrame ==
  ASSUME PhaseFits, UNCHANGED <<exercise, phase, markers>>
  PROVE  PhaseFits'
BY DEF PhaseFits, Checkpoint

LEMMA DeliveriesFrame ==
  ASSUME DeliveriesFit, UNCHANGED <<exercise, delivered, asked>>
  PROVE  DeliveriesFit'
BY DEF DeliveriesFit, Fixtured, Script

LEMMA CallsFrame ==
  ASSUME CallsFit, UNCHANGED <<exercise, phase, delivered, asked, calls>>
  PROVE  CallsFit'
BY DEF CallsFit, Start

LEMMA ToolsFrame ==
  ASSUME ToolsFit, Failing, UNCHANGED <<exercise, phase, delivered, seen>>
  PROVE  ToolsFit'
BY DEF ToolsFit, Start, Failing

LEMMA RanFrame ==
  ASSUME RanFits, Failing, UNCHANGED <<exercise, phase, delivered, seen, ran>>
  PROVE  RanFits'
BY DEF RanFits, Before, OwnOnly, Denial, Failing, Own, Item

LEMMA PatchFrame ==
  ASSUME PatchFits, UNCHANGED <<exercise, given, ran>>
  PROVE  PatchFits'
BY DEF PatchFits, Repair, Own, Item

LEMMA RecallFrame ==
  ASSUME RecallFits, Failing,
         UNCHANGED <<exercise, phase, seen, history, counts, calls, recalled>>
  PROVE  RecallFits'
BY DEF RecallFits, Failing, Checkpoint, Carried, Uncarried

LEMMA FinalFrame ==
  ASSUME FinalFits, Failing,
         UNCHANGED <<exercise, ran, calls, delivered, history, counts, recalled>>
  PROVE  FinalFits'
BY DEF FinalFits, Failing, Checkpoint, Carried, Fixtured, Script, Wanted, Expected, Own, Item, Repair

LEMMA ReportFrame ==
  ASSUME ReportFits, UNCHANGED <<exercise, phase, evidence, ran, report, recalled>>
  PROVE  ReportFits'
BY DEF ReportFits, Checkpoint

-----------------------------------------------------------------------------
(* The steps of the processes.                                             *)
LEMMA LaunchKeeps ==
  ASSUME ProbeInv, Launch
  PROVE  ProbeInv'
<1> USE DEF ProbeInv
<1>1. /\ UNCHANGED <<exercise, phase, markers, evidence, delivered, given, seen, calls, asked,
                     history, counts, server, report, ran, recalled>>
      /\ child = "none" /\ verdict = "none"
      /\ child' \in {"running", "gone"} /\ (child' = "gone" => verdict' = "failed")
      /\ verdict' \in {"none", "failed"} /\ output' \in {"none", "broken", "marker"}
  BY DEF Launch, Listening, Fault, client, fixture, past, ProbeTyped
<1>2. Failing
  BY <1>1 DEF Failing
<1>3. ProbeTyped'
  BY <1>1 DEF ProbeTyped
<1>4. EndFits'
  BY <1>1 DEF EndFits
<1> QED  BY <1>1, <1>2, <1>3, <1>4, PhaseFrame, DeliveriesFrame, CallsFrame, ToolsFrame, RanFrame,
            PatchFrame, RecallFrame, FinalFrame, ReportFrame

LEMMA HandshakeKeeps ==
  ASSUME ProbeInv, Handshake
  PROVE  ProbeInv'
<1> USE DEF ProbeInv
<1>1. /\ UNCHANGED <<exercise, markers, evidence, delivered, given, seen, calls, asked,
                     history, counts, output, child, server, report, ran, recalled>>
      /\ child = "running" /\ verdict = "none" /\ phase = "start"
      /\ phase' \in {"start", "first", "grow"}
      /\ phase' = "first" => exercise # "automatic"
      /\ phase' = "grow" => exercise = "automatic"
      /\ verdict' \in {"none", "failed"}
  BY DEF Handshake, Listening, Fault, client, fixture, outcome, past, ProbeTyped
<1>2. Failing
  BY <1>1 DEF Failing
<1>3. ProbeTyped'
  BY <1>1 DEF ProbeTyped
<1>4. EndFits'
  BY <1>1 DEF EndFits
<1>5. PhaseFits'
  BY <1>1 DEF PhaseFits, Checkpoint
<1>6. Start' = Start /\ Before' = Before
  BY <1>1 DEF Start, Before, Own, Item
<1>7. CallsFit'
  BY <1>1, <1>6 DEF CallsFit
<1>8. ToolsFit'
  BY <1>1, <1>6 DEF ToolsFit
<1>9. RanFits'
  BY <1>1, <1>6 DEF RanFits, OwnOnly, Denial
<1>10. RecallFits'
  BY <1>1 DEF RecallFits, Checkpoint, Uncarried
<1>11. ReportFits'
  BY <1>1 DEF ReportFits, Checkpoint
<1> QED  BY <1>1, <1>2, <1>3, <1>4, <1>5, <1>7, <1>8, <1>9, <1>10, <1>11, DeliveriesFrame, PatchFrame,
            FinalFrame

LEMMA GiveUpKeeps ==
  ASSUME ProbeInv, GiveUp
  PROVE  ProbeInv'
<1> USE DEF ProbeInv
<1>1. /\ UNCHANGED <<exercise, phase, markers, evidence, delivered, given, seen, calls, asked,
                     history, counts, output, child, server, report, ran, recalled>>
      /\ child = "running" /\ verdict' = "failed"
  BY DEF GiveUp, Fault, client, fixture, outcome, past
<1>2. Failing
  BY <1>1 DEF Failing
<1>3. ProbeTyped'
  BY <1>1 DEF ProbeTyped
<1>4. EndFits'
  BY <1>1 DEF EndFits
<1> QED  BY <1>1, <1>2, <1>3, <1>4, PhaseFrame, DeliveriesFrame, CallsFrame, ToolsFrame, RanFrame,
            PatchFrame, RecallFrame, FinalFrame, ReportFrame

LEMMA TerminateKeeps ==
  ASSUME ProbeInv, Terminate
  PROVE  ProbeInv'
<1> USE DEF ProbeInv
<1>1. /\ UNCHANGED <<exercise, phase, markers, evidence, delivered, given, seen, calls, asked,
                     history, counts, output, server, report, ran, recalled>>
      /\ child = "running" /\ verdict # "none" /\ verdict' \in {verdict, "failed"}
      /\ child' \in {"gone", "escaped"} /\ (child' = "escaped" => verdict' = "failed")
  BY DEF Terminate, Listening, Fault, client, fixture, past
<1>2. Failing
  BY <1>1 DEF Failing
<1>3. ProbeTyped'
  BY <1>1 DEF ProbeTyped
<1>4. EndFits'
  BY <1>1 DEF EndFits
<1> QED  BY <1>1, <1>2, <1>3, <1>4, PhaseFrame, DeliveriesFrame, CallsFrame, ToolsFrame, RanFrame,
            PatchFrame, RecallFrame, FinalFrame, ReportFrame

LEMMA StopServerKeeps ==
  ASSUME ProbeInv, StopServer
  PROVE  ProbeInv'
<1> USE DEF ProbeInv
<1>1. /\ UNCHANGED <<exercise, phase, verdict, markers, evidence, delivered, given, seen, calls, asked,
                     history, counts, output, child, report, ran, recalled>>
      /\ child \in {"gone", "escaped"} /\ server' \in {"stopped", "failed"}
  BY DEF StopServer, Fault, client, fixture, judgement, past
<1>2. Failing
  BY <1>1 DEF Failing
<1>3. ProbeTyped'
  BY <1>1 DEF ProbeTyped
<1>4. EndFits'
  BY <1>1 DEF EndFits
<1> QED  BY <1>1, <1>2, <1>3, <1>4, PhaseFrame, DeliveriesFrame, CallsFrame, ToolsFrame, RanFrame,
            PatchFrame, RecallFrame, FinalFrame, ReportFrame

LEMMA ConcludeKeeps ==
  ASSUME ProbeInv, Conclude
  PROVE  ProbeInv'
<1> USE DEF ProbeInv
<1>1. /\ UNCHANGED <<exercise, phase, verdict, markers, evidence, delivered, given, seen, calls, asked,
                     history, counts, output, child, server, ran, recalled>>
      /\ server # "serving"
  BY DEF Conclude, client, fixture, judgement, past
<1>2. Failing
  BY <1>1 DEF Failing
<1>3. PICK done \in BOOLEAN :
        /\ done => verdict = "ok" /\ Transport
        /\ report' = [stage |-> IF done THEN "completed" ELSE "failed", tools |-> ToolsReported(done)]
  BY DEF Conclude, OwnedSucceeds, InstalledSucceeds
<1>4. report'.tools = ToolsReported(done) /\ report'.stage = IF done THEN "completed" ELSE "failed"
  BY <1>3
<1>5. Len(Expected) = IF exercise = "read_patch" THEN 2 ELSE IF exercise = "read_patch_test" THEN 3
                      ELSE IF Repair THEN 4 ELSE 0
  <2>1. CASE exercise = "read_patch"
    BY <2>1 DEF Expected, Repair
  <2>2. CASE exercise = "read_patch_test"
    BY <2>2 DEF Expected, Repair
  <2>3. CASE Repair
    BY <2>3 DEF Expected, Repair
  <2>4. CASE exercise # "read_patch" /\ exercise # "read_patch_test" /\ ~Repair
    BY <2>4 DEF Expected
  <2> QED  BY <2>1, <2>2, <2>3, <2>4
<1>6. ToolsReported(done) \in 0..4
  BY <1>5 DEF ToolsReported
<1>7. ProbeTyped'
  BY <1>1, <1>3, <1>6 DEF ProbeTyped
<1>8. EndFits'
  BY <1>1, <1>3, <1>4 DEF EndFits
<1>9. Len(ran) \in Nat
  BY DEF ProbeTyped
<1>10. ToolsReported(done) <= Len(ran)
  <2>1. CASE exercise = "tool_checkpoint"
    <3>1. verdict = "ok" => Len(ran) = 3
      <4>1. Len(<<Own("read", "completed"), Own("patch", "completed"), Own("test", "passed")>>) = 3
        OBVIOUS
      <4> QED  BY <2>1, <4>1 DEF FinalFits, Wanted
    <3>2. evidence > 0 => Len(ran) >= 1
      BY <2>1 DEF ReportFits
    <3>3. ToolsReported(done) = IF evidence = 3 /\ verdict = "ok" THEN 3 ELSE IF evidence > 0 THEN 1 ELSE 0
      BY <2>1 DEF ToolsReported
    <3>4. PICK n \in Nat : n = Len(ran)
      BY <1>9
    <3>5. ToolsReported(done) <= n
      BY ONLY n \in Nat, <3>1, <3>2, <3>3, <3>4
    <3> QED  BY <3>4, <3>5
  <2>2. CASE exercise # "tool_checkpoint"
    <3>1. done => ran = Expected
      BY <1>3, <2>2 DEF FinalFits, Wanted
    <3>2. ToolsReported(done) = IF done THEN Len(Expected) ELSE 0
      BY <2>2 DEF ToolsReported
    <3> QED  BY <1>9, <3>1, <3>2
  <2> QED  BY <2>1, <2>2
<1>11. done /\ Checkpoint => recalled = "checkpoint"
  <2> HAVE done /\ Checkpoint
  <2>1. Carried /\ recalled = history
    BY <1>3 DEF FinalFits
  <2>2. counts.first = 0 /\ counts.continuations > 0
    BY <1>3 DEF Transport
  <2>3. history \in {"plain", "checkpoint", "leaky"}
    BY DEF ProbeTyped
  <2> QED  BY <2>1, <2>2, <2>3 DEF Carried
<1>12. ReportFits'
  <2>1. UNCHANGED Checkpoint
    BY <1>1 DEF Checkpoint
  <2> QED  BY <1>1, <1>4, <1>10, <1>11, <2>1 DEF ReportFits
<1> QED  BY <1>1, <1>2, <1>7, <1>8, <1>12, PhaseFrame, DeliveriesFrame, CallsFrame, ToolsFrame,
            RanFrame, PatchFrame, RecallFrame, FinalFrame

-----------------------------------------------------------------------------
(* A request and its answer.                                               *)
Open == {"asking", "called", "again"}

\* A call that only changes its stage stays the call of its request.
LEMMA StageFrame ==
  ASSUME CallsFit, UNCHANGED <<exercise, phase, delivered, asked>>,
         \A u \in Turns : /\ calls'[u].id = calls[u].id /\ calls'[u].trigger = calls[u].trigger
                          /\ calls'[u].stage \in Open => calls[u].stage \in Open
                          /\ calls'[u].stage = "called" => calls'[u] = calls[u]
  PROVE  CallsFit'
<1>1. Start' = Start
  BY DEF Start
<1>2. "own" \in Turns /\ "other" \in Turns
  BY DEF Turns
<1> QED  BY <1>1, <1>2 DEF CallsFit, Open

\* What RecallFits and FinalFits read of the counters.
LEMMA CountedElse ==
  ASSUME counts \in CountsType, UNCHANGED history,
         \/ counts' = [counts EXCEPT !.failures = @ + 1]
         \/ counts' = [counts EXCEPT !.refusals = @ + 1]
  PROVE  counts' \in CountsType /\ Carried' = Carried /\ Uncarried' = Uncarried
<1>1. counts' \in CountsType
  BY DEF CountsType
<1>2. counts'.continuations = counts.continuations /\ counts'.first = counts.first
  BY DEF CountsType
<1> QED  BY <1>1, <1>2 DEF Carried, Uncarried

LEMMA AskKeeps ==
  ASSUME ProbeInv, NEW t \in Turns, Ask(t)
  PROVE  ProbeInv'
<1> USE DEF ProbeInv
<1>1. /\ UNCHANGED <<exercise, phase, verdict, markers, evidence, delivered, given, seen, output,
                     child, server, report, history, ran, recalled>>
      /\ asked' = asked + 1 /\ calls[t].stage = "idle"
  BY DEF Ask, judgement, fixture, outcome, past
<1>2. Failing
  BY <1>1 DEF Failing
<1>3. PICK trigger \in BOOLEAN :
        /\ calls' = [calls EXCEPT ![t] = [NoCall EXCEPT !.stage = "asking", !.id = asked + 1,
                                                        !.trigger = trigger]]
        /\ counts' = Counted(t, trigger)
        /\ t = "own" /\ phase = "compact" => trigger
  BY DEF Ask, Turns
<1>4. asked \in Nat /\ calls \in [Turns -> CallType] /\ counts \in CountsType
  BY DEF ProbeTyped
<1> DEFINE c == [NoCall EXCEPT !.stage = "asking", !.id = asked + 1, !.trigger = trigger]
<1>5. c.stage = "asking" /\ c.id = asked + 1 /\ c.trigger = trigger
  BY DEF NoCall
<1>6. c \in CallType
  <2>1. asked + 1 \in Nat
    BY <1>4
  <2> QED  BY <2>1 DEF NoCall, CallType
<1>7. calls' = [calls EXCEPT ![t] = c]
  BY <1>3
<1> HIDE DEF c
<1>8. calls' \in [Turns -> CallType] /\ calls'[t] = c /\ \A u \in Turns : u # t => calls'[u] = calls[u]
  BY <1>4, <1>6, <1>7, CallSet
<1>9. counts' \in CountsType /\ (Carried => Carried') /\ (Uncarried => Uncarried')
  BY <1>1, <1>3, <1>4, CountedFits
<1>10. ProbeTyped'
  BY <1>1, <1>4, <1>8, <1>9 DEF ProbeTyped
<1>11. EndFits'
  BY <1>1 DEF EndFits
<1>12. DeliveriesFit'
  <2>1. \A k \in DOMAIN delivered : delivered[k].id \in 1..(asked + 1)
    BY <1>4 DEF DeliveriesFit
  <2>2. Fixtured' = Fixtured /\ Script' = Script
    BY <1>1 DEF Fixtured, Script
  <2> QED  BY <1>1, <2>1, <2>2 DEF DeliveriesFit
<1>13. CallsFit'
  <2>1. Start' = Start
    BY <1>1 DEF Start
  <2>2. "own" \in Turns /\ "other" \in Turns /\ Turns = {"own", "other"}
    BY DEF Turns
  <2>3. \A u \in Turns : calls[u].id \in Nat /\ calls[u].id <= asked
    BY <1>4 DEF CallsFit, CallType
  <2>4. \A k \in DOMAIN delivered : delivered[k].id # asked + 1
    BY <1>4 DEF DeliveriesFit
  <2>5. calls'["own"].id = calls'["other"].id => calls'["own"].id = 0
    BY <1>4, <1>5, <1>8, <2>2, <2>3 DEF CallsFit
  <2>6. ASSUME NEW u \in Turns
        PROVE  /\ calls'[u].id <= asked'
               /\ calls'[u].stage \in {"asking", "called", "again"} => calls'[u].id # 0
               /\ \A k \in DOMAIN delivered : delivered[k].id = calls'[u].id => delivered[k].turn = u
               /\ calls'[u].stage = "called" =>
                    \E k \in DOMAIN delivered : delivered[k].id = calls'[u].id /\ delivered[k].op = calls'[u].op
    <3>1. CASE u = t
      BY <1>1, <1>4, <1>5, <1>8, <2>4, <3>1
    <3>2. CASE u # t
      <4>1. calls'[u] = calls[u]
        BY <1>8, <3>2
      <4>2. calls[u].id <= asked + 1
        BY <1>4, <2>3
      <4> QED  BY <1>1, <4>1, <4>2 DEF CallsFit
    <3> QED  BY <3>1, <3>2
  <2>7. ASSUME NEW k \in DOMAIN delivered, delivered[k].id = calls'["own"].id
        PROVE  /\ k > Start
               /\ \A j \in DOMAIN delivered : delivered[j].turn = "own" => j <= k
               /\ calls'["own"].trigger => delivered[k].op = "compaction"
    <3>1. calls'["own"] = calls["own"]
      BY <1>5, <1>8, <2>2, <2>4, <2>7
    <3> QED  BY <2>7, <3>1 DEF CallsFit
  <2>8. phase = "compact" /\ calls'["own"].stage \in {"asking", "called", "again"} => calls'["own"].trigger
    BY <1>3, <1>5, <1>8, <2>2 DEF CallsFit
  <2> QED  BY <1>1, <2>1, <2>5, <2>6, <2>7, <2>8 DEF CallsFit
<1>14. "own" \in Turns /\ (calls'["own"].stage # "asking" => calls'["own"] = calls["own"])
  BY <1>5, <1>8 DEF Turns
<1>15. RecallFits'
  <2>1. calls'["own"].stage = "called" => calls'["own"] = calls["own"]
    BY <1>14
  <2> QED  BY <1>1, <1>9, <2>1 DEF RecallFits, Checkpoint
<1>16. FinalFits'
  <2>1. verdict = "ok" => calls'["own"] = calls["own"]
    BY <1>1, <1>8, <1>14 DEF FinalFits
  <2>2. /\ Wanted' = Wanted /\ Fixtured' = Fixtured /\ Script' = Script /\ Checkpoint' = Checkpoint
    BY <1>1 DEF Wanted, Expected, Own, Item, Repair, Fixtured, Script, Checkpoint
  <2> QED  BY <1>1, <1>9, <2>1, <2>2 DEF FinalFits
<1> QED  BY <1>1, <1>2, <1>10, <1>11, <1>12, <1>13, <1>15, <1>16, PhaseFrame, ToolsFrame,
            RanFrame, PatchFrame, ReportFrame

LEMMA AskAgainKeeps ==
  ASSUME ProbeInv, NEW t \in Turns, AskAgain(t)
  PROVE  ProbeInv'
<1> USE DEF ProbeInv
<1>1. /\ UNCHANGED <<exercise, phase, verdict, markers, evidence, delivered, given, seen, output,
                     child, server, report, asked, history, ran, recalled>>
      /\ calls[t].stage = "again"
      /\ calls' = [calls EXCEPT ![t].stage = "asking", ![t].cut = FALSE]
      /\ counts' = Counted(t, calls[t].trigger)
  BY DEF AskAgain, judgement, fixture, outcome, past
<1>2. Failing
  BY <1>1 DEF Failing
<1>3. calls \in [Turns -> CallType] /\ counts \in CountsType /\ calls[t].trigger \in BOOLEAN
  BY DEF ProbeTyped, CallType
<1>4. /\ calls' \in [Turns -> CallType]
      /\ calls'[t].stage = "asking"
      /\ \A u \in Turns : /\ u # t => calls'[u] = calls[u]
                          /\ calls'[u].id = calls[u].id /\ calls'[u].trigger = calls[u].trigger
  BY <1>1, <1>3 DEF CallType
<1>5. counts' \in CountsType /\ (Carried => Carried') /\ (Uncarried => Uncarried')
  BY <1>1, <1>3, CountedFits
<1>6. ProbeTyped'
  BY <1>1, <1>4, <1>5 DEF ProbeTyped
<1>7. EndFits'
  BY <1>1 DEF EndFits
<1>8. CallsFit'
  BY <1>1, <1>4, StageFrame DEF Open
<1>9. "own" \in Turns /\ (calls'["own"].stage # "asking" => calls'["own"] = calls["own"])
  BY <1>4 DEF Turns
<1>10. RecallFits'
  BY <1>1, <1>5, <1>9 DEF RecallFits, Checkpoint
<1>11. FinalFits'
  <2>1. verdict = "ok" => calls'["own"] = calls["own"]
    BY <1>1, <1>4, <1>9 DEF FinalFits
  <2>2. /\ Wanted' = Wanted /\ Fixtured' = Fixtured /\ Script' = Script /\ Checkpoint' = Checkpoint
    BY <1>1 DEF Wanted, Expected, Own, Item, Repair, Fixtured, Script, Checkpoint
  <2> QED  BY <1>1, <1>5, <2>1, <2>2 DEF FinalFits
<1> QED  BY <1>1, <1>2, <1>6, <1>7, <1>8, <1>10, <1>11, PhaseFrame, DeliveriesFrame, ToolsFrame,
            RanFrame, PatchFrame, ReportFrame

LEMMA RefuseKeeps ==
  ASSUME ProbeInv, NEW t \in Turns, Refuse(t)
  PROVE  ProbeInv'
<1> USE DEF ProbeInv
<1>1. /\ UNCHANGED <<exercise, phase, markers, evidence, delivered, given, seen, output,
                     child, server, report, asked, history, ran, recalled>>
      /\ calls[t].stage = "asking"
      /\ calls' = [calls EXCEPT ![t].stage = "over"]
      /\ counts' = [counts EXCEPT !.failures = @ + 1]
      /\ verdict' = IF t = "own" /\ verdict = "none" THEN "failed" ELSE verdict
  BY DEF Refuse, TurnFails, Listening, fixture, outcome, past
<1>2. Failing
  BY <1>1 DEF Failing
<1>3. calls \in [Turns -> CallType] /\ counts \in CountsType
  BY DEF ProbeTyped
<1>4. /\ calls' \in [Turns -> CallType]
      /\ calls'[t].stage = "over"
      /\ \A u \in Turns : /\ u # t => calls'[u] = calls[u]
                          /\ calls'[u].id = calls[u].id /\ calls'[u].trigger = calls[u].trigger
  BY <1>1, <1>3, StageSet
<1>5. counts' \in CountsType /\ Carried' = Carried /\ Uncarried' = Uncarried
  BY <1>1, <1>3, CountedElse
<1>6. ProbeTyped'
  BY <1>1, <1>4, <1>5 DEF ProbeTyped
<1>7. EndFits'
  BY <1>1 DEF EndFits
<1>8. CallsFit'
  BY <1>1, <1>4, StageFrame DEF Open
<1>9. "own" \in Turns /\ (calls'["own"].stage # "over" => calls'["own"] = calls["own"])
  BY <1>4 DEF Turns
<1>10. RecallFits'
  BY <1>1, <1>2, <1>5, <1>9 DEF RecallFits, Checkpoint, Failing
<1>11. FinalFits'
  <2>1. verdict' = "ok" => verdict = "ok" /\ calls'["own"].stage = "over"
    BY <1>1, <1>4, <1>9 DEF FinalFits
  <2>2. /\ Wanted' = Wanted /\ Fixtured' = Fixtured /\ Script' = Script /\ Checkpoint' = Checkpoint
    BY <1>1 DEF Wanted, Expected, Own, Item, Repair, Fixtured, Script, Checkpoint
  <2> QED  BY <1>1, <1>5, <2>1, <2>2 DEF FinalFits
<1> QED  BY <1>1, <1>2, <1>6, <1>7, <1>8, <1>10, <1>11, PhaseFrame, DeliveriesFrame, ToolsFrame,
            RanFrame, PatchFrame, ReportFrame

Delivery == [turn : Turns, id : Nat, op : Replies]

\* The answers that can reach the client.
LEMMA AnswersAreReplies ==
  ASSUME ProbeTyped, NEW call \in CallType, NEW op \in Answers(call) \ {"refused"}
  PROVE  /\ op \in Replies
         /\ Given(call.id) # {} => op \in Given(call.id)
         /\ Given(call.id) = {} /\ call.trigger => op = "compaction"
         /\ ~Fixtured /\ Given(call.id) = {} => op \notin Calls
<1>1. ASSUME NEW x \in Given(call.id) PROVE x \in Replies
  <2>1. PICK k \in DOMAIN delivered : x = delivered[k].op
    BY DEF Given
  <2>2. delivered \in Seq(Delivery)
    BY DEF ProbeTyped, Delivery
  <2>3. delivered[k] \in Delivery
    BY <2>1, <2>2
  <2> QED  BY <2>1, <2>3 DEF Delivery
<1>2. CASE Given(call.id) # {}
  BY <1>1, <1>2 DEF Answers
<1>3. CASE Given(call.id) = {} /\ call.trigger
  BY <1>3 DEF Answers, Replies, Calls, Commands
<1>4. CASE Given(call.id) = {} /\ ~call.trigger
  <2>1. op \in ToSet(Script) \cup {"wrong"}
    BY <1>4 DEF Answers
  <2>2. Script \in Seq(Replies \cup {"refused"}) /\ (~Fixtured => \A k \in 1..Len(Script) : Script[k] \notin Calls)
    BY ScriptReplies
  <2>3. CASE op = "wrong"
    BY <1>4, <2>3 DEF Replies, Answered, Calls, Commands
  <2>4. CASE op \in ToSet(Script)
    <3>1. PICK k \in 1..Len(Script) : op = Script[k]
      BY <2>2, <2>4 DEF ToSet
    <3> QED  BY <1>4, <2>2, <3>1
  <2> QED  BY <2>1, <2>3, <2>4
<1> QED  BY <1>2, <1>3, <1>4

LEMMA DeliverKeeps ==
  ASSUME ProbeInv, NEW t \in Turns, NEW op \in Answers(calls[t]), Deliver(t, op)
  PROVE  ProbeInv'
<1> USE DEF ProbeInv
<1>1. /\ UNCHANGED <<exercise, phase, verdict, markers, evidence, given, seen, counts, output,
                     child, server, report, asked, history, ran>>
      /\ calls[t].stage = "asking" /\ op # "refused" /\ server = "serving"
      /\ Accepts(calls[t].id, op)
      /\ delivered' = IF Given(calls[t].id) # {} THEN delivered
                      ELSE Append(delivered, [turn |-> t, id |-> calls[t].id, op |-> op])
      /\ recalled' = IF t = "own" /\ phase = "recall" /\ op # "compaction" THEN history ELSE recalled
  BY DEF Deliver, Serving, judgement, outcome
<1>2. Failing
  BY <1>1 DEF Failing
<1>3. /\ calls \in [Turns -> CallType] /\ delivered \in Seq(Delivery) /\ calls[t] \in CallType
      /\ calls[t].id \in Nat
  BY DEF ProbeTyped, Delivery, CallType
<1>4. /\ op \in Replies
      /\ Given(calls[t].id) # {} => op \in Given(calls[t].id)
      /\ Given(calls[t].id) = {} /\ calls[t].trigger => op = "compaction"
      /\ ~Fixtured /\ Given(calls[t].id) = {} => op \notin Calls
  BY <1>1, <1>3, AnswersAreReplies
<1>5. /\ calls' \in [Turns -> CallType]
      /\ calls'[t].stage \in {"again", "called"} /\ (calls'[t].stage = "called" => calls'[t].op = op)
      /\ \A u \in Turns : /\ u # t => calls'[u] = calls[u]
                          /\ calls'[u].id = calls[u].id /\ calls'[u].trigger = calls[u].trigger
  <2>1. CASE calls' = [calls EXCEPT ![t].stage = "again"]
    BY <1>3, <2>1, StageSet
  <2>2. CASE calls' = [calls EXCEPT ![t].stage = "called", ![t].op = op, ![t].cut = TRUE]
    BY <1>3, <1>4, <2>2 DEF CallType
  <2>3. CASE calls' = [calls EXCEPT ![t].stage = "called", ![t].op = op]
    BY <1>3, <1>4, <2>3 DEF CallType
  <2> QED  BY <2>1, <2>2, <2>3 DEF Deliver
<1> DEFINE d == [turn |-> t, id |-> calls[t].id, op |-> op]
<1>6. d \in Delivery /\ d.turn = t /\ d.id = calls[t].id /\ d.op = op
  BY <1>3, <1>4 DEF Delivery
<1>7. delivered' = delivered \/ (delivered' = Append(delivered, d) /\ Given(calls[t].id) = {})
  BY <1>1
<1>8. Given(calls[t].id) # {} => \E k \in DOMAIN delivered : delivered[k].id = calls[t].id /\ delivered[k].op = op
  BY <1>4 DEF Given
<1>9. Given(calls[t].id) = {} => delivered' = Append(delivered, d)
  BY <1>1
<1> HIDE DEF d
<1>10. PICK n \in Nat : n = Len(delivered)
  BY <1>3
<1>11. delivered' \in Seq(Delivery)
  BY <1>3, <1>6, <1>7
<1>12. PICK m \in Nat : m = Len(delivered')
  BY <1>11
<1>13. DOMAIN delivered = 1..n /\ DOMAIN delivered' = 1..m
  BY <1>3, <1>10, <1>11, <1>12
<1>14. Given(calls[t].id) = {} => m = n + 1 /\ delivered'[m] = d
  BY <1>3, <1>6, <1>9, <1>10, <1>12
<1>15. m # n => Given(calls[t].id) = {}
  BY <1>7, <1>10, <1>12
<1>16. m \in {n, n + 1}
  BY <1>14, <1>15
<1>17. \A k \in 1..n : k \in 1..m
  BY <1>16
<1>18. \A k \in DOMAIN delivered : k \in DOMAIN delivered' /\ delivered'[k] = delivered[k]
  <2>1. \A k \in 1..n : delivered'[k] = delivered[k]
    BY <1>3, <1>6, <1>7, <1>10
  <2> QED  BY <1>13, <1>17, <2>1
<1>19. \E k \in DOMAIN delivered' : delivered'[k].id = calls[t].id /\ delivered'[k].op = op
  <2>1. CASE Given(calls[t].id) # {}
    BY <1>8, <1>18, <2>1
  <2>2. CASE Given(calls[t].id) = {}
    <3>1. m \in 1..m
      BY <1>14, <2>2
    <3> QED  BY <1>6, <1>13, <1>14, <2>2, <3>1
  <2> QED  BY <2>1, <2>2
<1>20. ASSUME NEW k \in DOMAIN delivered', k \notin DOMAIN delivered
       PROVE  k = n + 1 /\ k = m /\ delivered'[k] = d /\ Given(calls[t].id) = {}
  <2>1. k \in 1..m /\ k \notin 1..n
    BY <1>13, <1>20
  <2>2. m # n /\ k = m
    BY <1>16, <2>1
  <2> QED  BY <1>14, <1>15, <2>2
<1>21. Given(calls[t].id) = {} => \A k \in DOMAIN delivered : delivered[k].id # calls[t].id
  BY DEF Given
<1>22. ProbeTyped'
  <2>1. recalled' \in {"none", "plain", "checkpoint", "leaky"}
    BY <1>1 DEF ProbeTyped
  <2>2. delivered' \in Seq([turn : Turns, id : Nat, op : Replies])
    BY <1>11 DEF Delivery
  <2> QED  BY <1>1, <1>5, <2>1, <2>2 DEF ProbeTyped
<1>23. EndFits'
  BY <1>1 DEF EndFits
<1>24. calls[t].id \in 1..asked
  BY <1>1, <1>3 DEF CallsFit, ProbeTyped
<1>25. DeliveriesFit'
  <2>1. Fixtured' = Fixtured /\ Script' = Script
    BY <1>1 DEF Fixtured, Script
  <2>2. \A j, k \in DOMAIN delivered' : delivered'[j].id = delivered'[k].id => j = k
    BY <1>6, <1>20, <1>18, <1>21 DEF DeliveriesFit
  <2>3. \A k \in DOMAIN delivered' : delivered'[k].id \in 1..asked
    BY <1>6, <1>20, <1>18, <1>24 DEF DeliveriesFit
  <2>4. Fixtured /\ Given(calls[t].id) = {} => n < Len(Script) /\ Script[n + 1] = op
    BY <1>1, <1>10 DEF Accepts, Step
  <2>5. Len(Script) \in Nat
    BY ScriptReplies
  <2>6. Fixtured => Len(delivered') <= Len(Script)
    <3>1. Fixtured => n <= Len(Script)
      BY <1>10 DEF DeliveriesFit
    <3> QED  BY <1>12, <1>14, <1>15, <2>4, <2>5, <3>1
  <2>7. Fixtured => \A k \in DOMAIN delivered' : delivered'[k].op = Script[k]
    BY <1>6, <1>20, <1>18, <2>4 DEF DeliveriesFit
  <2>8. ~Fixtured => \A k \in DOMAIN delivered' : delivered'[k].op \notin Calls
    BY <1>4, <1>6, <1>20, <1>18 DEF DeliveriesFit
  <2> QED  BY <1>1, <2>1, <2>2, <2>3, <2>6, <2>7, <2>8 DEF DeliveriesFit
<1>26. Start' = Start /\ Start \in Nat
  BY <1>1 DEF Start
<1>27. "own" \in Turns /\ Turns = {"own", "other"}
  BY DEF Turns
<1>28. CallsFit'
  <2>1. Start <= Len(delivered')
    <3>1. Start <= n
      BY <1>10 DEF CallsFit
    <3> QED  BY <1>12, <1>16, <1>26, <3>1
  <2>2. calls'["own"].id = calls'["other"].id => calls'["own"].id = 0
    BY <1>5, <1>27 DEF CallsFit
  <2>3. ASSUME NEW u \in Turns
        PROVE  /\ calls'[u].id <= asked
               /\ calls'[u].stage \in {"asking", "called", "again"} => calls'[u].id # 0
               /\ \A k \in DOMAIN delivered' : delivered'[k].id = calls'[u].id => delivered'[k].turn = u
               /\ calls'[u].stage = "called" =>
                    \E k \in DOMAIN delivered' : delivered'[k].id = calls'[u].id /\ delivered'[k].op = calls'[u].op
    <3>1. calls'[u].id = calls[u].id /\ calls[u].id <= asked
      BY <1>5 DEF CallsFit
    <3>2. calls'[u].stage \in {"asking", "called", "again"} => calls'[u].id # 0
      BY <1>1, <1>5, <3>1 DEF CallsFit
    <3>3. ASSUME NEW k \in DOMAIN delivered', delivered'[k].id = calls'[u].id
          PROVE  delivered'[k].turn = u
      <4>1. CASE k \in DOMAIN delivered
        BY <1>18, <3>1, <3>3, <4>1 DEF CallsFit
      <4>2. CASE k \notin DOMAIN delivered
        <5>1. calls[u].id = calls[t].id /\ delivered'[k].turn = t
          BY <1>6, <1>20, <3>1, <3>3, <4>2
        <5>2. calls[t].id # 0
          BY <1>24
        <5> QED  BY <1>27, <5>1, <5>2 DEF CallsFit
      <4> QED  BY <4>1, <4>2
    <3>4. calls'[u].stage = "called" =>
            \E k \in DOMAIN delivered' : delivered'[k].id = calls'[u].id /\ delivered'[k].op = calls'[u].op
      <4>1. CASE u = t
        BY <1>5, <1>19, <4>1
      <4>2. CASE u # t
        BY <1>5, <1>18, <4>2 DEF CallsFit
      <4> QED  BY <4>1, <4>2
    <3> QED  BY <3>1, <3>2, <3>3, <3>4
  <2>4. ASSUME NEW k \in DOMAIN delivered', delivered'[k].id = calls'["own"].id
        PROVE  /\ k > Start
               /\ \A j \in DOMAIN delivered' : delivered'[j].turn = "own" => j <= k
               /\ calls'["own"].trigger => delivered'[k].op = "compaction"
    <3>1. calls'["own"].id = calls["own"].id /\ calls'["own"].trigger = calls["own"].trigger
      BY <1>5, <1>27
    <3>2. CASE k \in DOMAIN delivered
      <4>1. delivered[k].id = calls["own"].id
        BY <1>18, <2>4, <3>1, <3>2
      <4>2. /\ k > Start
            /\ \A j \in DOMAIN delivered : delivered[j].turn = "own" => j <= k
            /\ calls["own"].trigger => delivered[k].op = "compaction"
        BY <3>2, <4>1 DEF CallsFit
      <4>3. ASSUME NEW j \in DOMAIN delivered', delivered'[j].turn = "own" PROVE j <= k
        <5>1. j \in DOMAIN delivered
          BY <1>6, <1>20, <1>21, <3>2, <4>1, <4>3
        <5> QED  BY <1>18, <4>2, <4>3, <5>1
      <4> QED  BY <1>18, <3>1, <3>2, <4>2, <4>3
    <3>3. CASE k \notin DOMAIN delivered
      <4>1. k = n + 1 /\ k = m /\ delivered'[k] = d /\ Given(calls[t].id) = {}
        BY <1>20, <3>3
      <4>2. calls["own"].id = calls[t].id
        BY <1>6, <2>4, <3>1, <4>1
      <4>3. t = "own"
        BY <1>24, <1>27, <4>2 DEF CallsFit
      <4>4. k > Start
        <5>1. Start <= n
          BY <1>10 DEF CallsFit
        <5> QED  BY <1>26, <4>1, <5>1
      <4>5. \A j \in DOMAIN delivered' : j <= k
        BY <1>13, <4>1
      <4> QED  BY <1>4, <1>6, <3>1, <4>1, <4>3, <4>4, <4>5
    <3> QED  BY <3>2, <3>3
  <2>5. phase = "compact" /\ calls'["own"].stage \in {"asking", "called", "again"} => calls'["own"].trigger
    BY <1>1, <1>5, <1>27 DEF CallsFit
  <2> QED  BY <1>1, <1>26, <2>1, <2>2, <2>3, <2>4, <2>5 DEF CallsFit
<1>29. ToolsFit'
  <2> SUFFICES ASSUME verdict # "failed"
               PROVE  \E of \in [DOMAIN seen.tools -> DOMAIN delivered'] :
                        /\ \A i \in DOMAIN seen.tools :
                             /\ of[i] > Start /\ delivered'[of[i]].turn = "own"
                             /\ delivered'[of[i]].op = seen.tools[i].op
                        /\ \A i, j \in DOMAIN seen.tools : i < j => of[i] <= of[j]
    BY <1>1, <1>26 DEF ToolsFit
  <2>1. PICK of \in [DOMAIN seen.tools -> DOMAIN delivered] :
          /\ \A i \in DOMAIN seen.tools :
               /\ of[i] > Start /\ delivered[of[i]].turn = "own"
               /\ delivered[of[i]].op = seen.tools[i].op
          /\ \A i, j \in DOMAIN seen.tools : i < j => of[i] <= of[j]
    BY DEF ToolsFit
  <2>2. of \in [DOMAIN seen.tools -> DOMAIN delivered']
    BY <1>18, <2>1
  <2>3. \A i \in DOMAIN seen.tools : delivered'[of[i]] = delivered[of[i]]
    BY <1>18, <2>1
  <2> QED  BY <2>1, <2>2, <2>3
<1>30. RanFits'
  <2>1. Before' = Before /\ Denial' = Denial /\ OwnOnly' = OwnOnly
    BY <1>1 DEF Before, Denial, OwnOnly, Own, Item
  <2>2. \A i \in DOMAIN ran : /\ ran[i].status # "declined"
                              /\ \E k \in DOMAIN delivered' : delivered'[k].turn = ran[i].turn /\ delivered'[k].op \in Calls
    BY <1>18 DEF RanFits
  <2>3. exercise = "tool_checkpoint" /\ phase \in {"compact", "recall", "tools"} => delivered'[1].turn = "own"
    <3> HAVE exercise = "tool_checkpoint" /\ phase \in {"compact", "recall", "tools"}
    <3>1. Start >= 1 /\ Start <= n
      BY <1>10 DEF Start, CallsFit
    <3>2. 1 \in DOMAIN delivered
      BY <1>13, <1>26, <3>1
    <3> QED  BY <1>18, <3>2 DEF RanFits
  <2> QED  BY <1>1, <2>1, <2>2, <2>3 DEF RanFits
<1>31. RecallFits'
  <2>1. Carried' = Carried /\ Uncarried' = Uncarried /\ Checkpoint' = Checkpoint
    BY <1>1 DEF Carried, Uncarried, Checkpoint
  <2>2. CASE t = "own"
    <3>1. calls'["own"].stage = "called" => calls'["own"].op = op
      BY <1>5, <2>2
    <3>2. phase = "tools" => recalled' = recalled
      BY <1>1
    <3>3. phase = "recall" /\ calls'["own"].stage = "called" /\ calls'["own"].op # "compaction" => recalled' = history
      BY <1>1, <2>2, <3>1
    <3> QED  BY <1>1, <2>1, <3>2, <3>3 DEF RecallFits
  <2>3. CASE t # "own"
    <3>1. recalled' = recalled /\ calls'["own"] = calls["own"]
      BY <1>1, <1>5, <1>27, <2>3
    <3> QED  BY <1>1, <2>1, <3>1 DEF RecallFits
  <2> QED  BY <2>2, <2>3
<1>32. FinalFits'
  <2> SUFFICES ASSUME verdict = "ok" PROVE FinalFits'
    BY <1>1 DEF FinalFits
  <2>1. /\ ran = Wanted /\ calls["own"].stage = "over"
        /\ Fixtured => Len(delivered) = Len(Script)
        /\ \A k \in DOMAIN delivered : delivered[k].op \in Calls => delivered[k].turn = "own"
        /\ Checkpoint => Carried /\ recalled = history
    BY DEF FinalFits
  <2>2. t # "own" /\ calls'["own"] = calls["own"]
    BY <1>1, <1>5, <1>27, <2>1
  <2>3. /\ Wanted' = Wanted /\ Fixtured' = Fixtured /\ Script' = Script /\ Checkpoint' = Checkpoint
        /\ Carried' = Carried
    BY <1>1 DEF Wanted, Expected, Own, Item, Repair, Fixtured, Script, Checkpoint, Carried
  <2>4. Fixtured => Given(calls[t].id) # {}
    <3>1. Fixtured /\ Given(calls[t].id) = {} => n < Len(Script)
      BY <1>1, <1>10 DEF Accepts, Step
    <3> QED  BY <1>10, <2>1, <3>1
  <2>5. Fixtured => Len(delivered') = Len(Script)
    BY <1>1, <2>1, <2>4
  <2>6. \A k \in DOMAIN delivered' : delivered'[k].op \in Calls => delivered'[k].turn = "own"
    BY <1>4, <1>6, <1>20, <1>18, <2>1, <2>4
  <2> QED  BY <1>1, <2>1, <2>2, <2>3, <2>5, <2>6 DEF FinalFits
<1>33. ReportFits'
  <2>1. report.stage # "completed"
    BY <1>1 DEF EndFits, ProbeTyped
  <2> QED  BY <1>1, <2>1 DEF ReportFits
<1> QED  BY <1>1, <1>2, <1>22, <1>23, <1>25, <1>28, <1>29, <1>30, <1>31, <1>32, <1>33, PhaseFrame,
            PatchFrame

-----------------------------------------------------------------------------
(* A call at the client.                                                   *)

\* What is appended to a sequence, and what stays.
LEMMA AppendIs ==
  ASSUME NEW S, NEW s \in Seq(S), NEW x \in S
  PROVE  /\ Append(s, x) \in Seq(S)
         /\ Len(s) \in Nat /\ DOMAIN s = 1..Len(s)
         /\ Len(Append(s, x)) = Len(s) + 1
         /\ DOMAIN Append(s, x) = 1..(Len(s) + 1)
         /\ Append(s, x)[Len(s) + 1] = x
         /\ \A i \in 1..Len(s) : i \in 1..(Len(s) + 1) /\ Append(s, x)[i] = s[i]
         /\ \A i \in 1..(Len(s) + 1) : i \in 1..Len(s) \/ i = Len(s) + 1
<1>1. Append(s, x) \in Seq(S) /\ Len(s) \in Nat /\ DOMAIN s = 1..Len(s) /\ Len(Append(s, x)) = Len(s) + 1
  OBVIOUS
<1>2. DOMAIN Append(s, x) = 1..(Len(s) + 1) /\ Append(s, x)[Len(s) + 1] = x
  OBVIOUS
<1>3. \A i \in 1..Len(s) : Append(s, x)[i] = s[i]
  OBVIOUS
<1>4. PICK n \in Nat : n = Len(s)
  BY <1>1
<1>5. \A i \in 1..n : i \in 1..(n + 1)
  OBVIOUS
<1>6. \A i \in 1..(n + 1) : i \in 1..n \/ i = n + 1
  OBVIOUS
<1> QED  BY <1>1, <1>2, <1>3, <1>4, <1>5, <1>6

\* The own call that was just seen was delivered last.
LEMMA ToolsGrow ==
  ASSUME ProbeTyped, CallsFit, ToolsFit, calls["own"].stage = "called", NEW item \in ItemType,
         item.op = calls["own"].op, seen'.tools = Append(seen.tools, item),
         UNCHANGED <<exercise, phase, delivered, verdict>>
  PROVE  ToolsFit'
<1>1. Start' = Start
  BY DEF Start
<1>2. seen.tools \in Seq(ItemType)
  BY DEF ProbeTyped, SeenType
<1>3. PICK n \in Nat : n = Len(seen.tools)
  BY <1>2
<1>4. /\ DOMAIN seen.tools = 1..n /\ DOMAIN seen'.tools = 1..(n + 1)
      /\ seen'.tools[n + 1] = item
      /\ \A i \in 1..n : seen'.tools[i] = seen.tools[i]
      /\ \A i \in 1..(n + 1) : i \in 1..n \/ i = n + 1
  BY <1>2, <1>3, AppendIs
<1>5. PICK k \in DOMAIN delivered : delivered[k].id = calls["own"].id /\ delivered[k].op = item.op
  BY DEF CallsFit, Turns
<1>6. /\ delivered[k].turn = "own" /\ k > Start
      /\ \A j \in DOMAIN delivered : delivered[j].turn = "own" => j <= k
  BY <1>5 DEF CallsFit, Turns
<1> SUFFICES ASSUME verdict # "failed"
             PROVE  \E of \in [1..(n + 1) -> DOMAIN delivered] :
                      /\ \A i \in 1..(n + 1) :
                           /\ of[i] > Start /\ delivered[of[i]].turn = "own"
                           /\ delivered[of[i]].op = seen'.tools[i].op
                      /\ \A i, j \in 1..(n + 1) : i < j => of[i] <= of[j]
  BY <1>1, <1>4 DEF ToolsFit
<1>7. PICK of \in [1..n -> DOMAIN delivered] :
        /\ \A i \in 1..n :
             /\ of[i] > Start /\ delivered[of[i]].turn = "own"
             /\ delivered[of[i]].op = seen.tools[i].op
        /\ \A i, j \in 1..n : i < j => of[i] <= of[j]
  BY <1>4 DEF ToolsFit
<1> DEFINE to == [i \in 1..(n + 1) |-> IF i = n + 1 THEN k ELSE of[i]]
<1>8. to \in [1..(n + 1) -> DOMAIN delivered]
  BY <1>4, <1>7
<1>9. ASSUME NEW i \in 1..(n + 1)
      PROVE  to[i] > Start /\ delivered[to[i]].turn = "own" /\ delivered[to[i]].op = seen'.tools[i].op
  <2>1. CASE i = n + 1
    BY <1>4, <1>5, <1>6, <2>1
  <2>2. CASE i # n + 1
    <3>1. i \in 1..n /\ to[i] = of[i]
      BY <1>4, <1>9, <2>2
    <3> QED  BY <1>4, <1>7, <3>1
  <2> QED  BY <2>1, <2>2
<1>10. ASSUME NEW i \in 1..(n + 1), NEW j \in 1..(n + 1), i < j PROVE to[i] <= to[j]
  <2>1. i \in 1..n /\ to[i] = of[i]
    BY <1>10
  <2>2. CASE j = n + 1
    BY <1>6, <1>7, <2>1, <2>2
  <2>3. CASE j # n + 1
    <3>1. j \in 1..n /\ to[j] = of[j]
      BY <1>4, <1>10, <2>3
    <3> QED  BY <1>7, <1>10, <2>1, <3>1
  <2> QED  BY <2>2, <2>3
<1> HIDE DEF to
<1> QED  BY <1>8, <1>9, <1>10

LEMMA EffectIs ==
  ASSUME ProbeTyped, NEW op \in Calls, NEW e \in Effect(op) \cup {<<"broken", output>>}
  PROVE  e[1] \in Ended /\ e[2] \in {"none", "broken", "marker"}
<1>1. output \in {"none", "broken", "marker"}
  BY DEF ProbeTyped
<1>2. CASE e = <<"broken", output>>
  BY <1>1, <1>2 DEF Ended
<1>3. CASE e \in Effect(op)
  <2>1. CASE op = "read"
    BY <1>1, <1>3, <2>1 DEF Effect, Ended
  <2>2. CASE op = "test"
    BY <1>1, <1>3, <2>2 DEF Effect, Ended
  <2>3. CASE op = "patch"
    BY <1>1, <1>3, <2>3 DEF Effect, Ended
  <2> QED  BY <2>1, <2>2, <2>3 DEF Calls, Commands
<1> QED  BY <1>2, <1>3

\* What was delivered to the probe's own turns is never run by another one.
LEMMA CalledIsOwn ==
  ASSUME ProbeInv, NEW t \in Turns, calls[t].stage = "called", calls[t].op \in Calls
  PROVE  verdict # "ok"
<1> USE DEF ProbeInv
<1> SUFFICES ASSUME verdict = "ok" PROVE FALSE
  OBVIOUS
<1>1. PICK k \in DOMAIN delivered : delivered[k].id = calls[t].id /\ delivered[k].op = calls[t].op
  BY DEF CallsFit
<1>2. delivered[k].turn = t
  BY <1>1 DEF CallsFit
<1>3. t = "own"
  BY <1>1, <1>2 DEF FinalFits
<1> QED  BY <1>3 DEF FinalFits

LEMMA RunKeeps ==
  ASSUME ProbeInv, NEW t \in Turns, NEW op \in Calls, Run(t, op),
         calls[t].stage = "called", calls[t].op = op, verdict # "failed",
         given' \in [read : BOOLEAN, denied : BOOLEAN, patch : BOOLEAN, tests : Nat],
         given.patch => given'.patch,
         op = "patch" => /\ given'.patch /\ ~given.patch
                         /\ Repair => Observed("test", "failed"),
         UNCHANGED <<exercise, phase, verdict, markers, evidence, delivered, counts, child, server,
                     report, asked, history, recalled>>
  PROVE  ProbeInv'
<1> USE DEF ProbeInv
<1>1. verdict = "none"
  BY CalledIsOwn DEF ProbeTyped
<1>2. PICK e \in Effect(op) \cup {<<"broken", output>>} :
        /\ output' = e[2]
        /\ seen' = CallSeen(t, op, e[1])
        /\ ran' = Append(ran, Item(t, op, e[1]))
        /\ calls' = [calls EXCEPT ![t].stage = After(calls[t])]
  BY <1>1 DEF Run, Noted, Listening
<1>3. e[1] \in Ended /\ output' \in {"none", "broken", "marker"}
  BY <1>2, EffectIs
<1> DEFINE item == Item(t, op, e[1])
<1>4. /\ item \in ItemType /\ item.turn = t /\ item.op = op /\ item.status = e[1]
      /\ item.status # "declined"
  BY <1>3 DEF Item, ItemType, Ended
<1>5. ran' = Append(ran, item)
  BY <1>2
<1>6. /\ t = "own" => seen' = [seen EXCEPT !.tools = Append(@, item)]
      /\ t # "own" => seen' = [seen EXCEPT !.foreign = TRUE]
  BY <1>2 DEF CallSeen, Own, Item
<1> HIDE DEF item
<1>7. calls \in [Turns -> CallType] /\ seen \in SeenType /\ ran \in Seq(ItemType)
  BY DEF ProbeTyped
<1>8. After(calls[t]) \in {"again", "idle"}
  BY DEF After
<1>9. /\ calls' \in [Turns -> CallType]
      /\ calls'[t].stage \in {"again", "idle"}
      /\ \A u \in Turns : /\ u # t => calls'[u] = calls[u]
                          /\ calls'[u].id = calls[u].id /\ calls'[u].trigger = calls[u].trigger
  BY <1>2, <1>7, <1>8, StageSet
<1>10. /\ seen.tools \in Seq(ItemType) /\ Append(seen.tools, item) \in Seq(ItemType)
       /\ ran' \in Seq(ItemType)
  BY <1>4, <1>5, <1>7 DEF SeenType
<1>11. /\ seen' \in SeenType /\ seen'.compactions = seen.compactions
       /\ seen'.tools = IF t = "own" THEN Append(seen.tools, item) ELSE seen.tools
  BY <1>6, <1>7, <1>10 DEF SeenType
<1>12. ProbeTyped'
  BY <1>3, <1>9, <1>10, <1>11 DEF ProbeTyped
<1>13. EndFits'
  BY DEF EndFits
<1>14. CallsFit'
  BY <1>9, StageFrame DEF Open
<1>15. "own" \in Turns
  BY DEF Turns
<1>16. Start' = Start
  BY DEF Start
<1>17. ToolsFit'
  <2>1. CASE t = "own"
    BY <1>4, <1>11, <2>1, ToolsGrow
  <2>2. CASE t # "own"
    BY <1>11, <1>16, <2>2 DEF ToolsFit
  <2> QED  BY <2>1, <2>2
<1>18. PICK n \in Nat : n = Len(ran)
  BY <1>7
<1>19. /\ DOMAIN ran = 1..n /\ DOMAIN ran' = 1..(n + 1) /\ ran'[n + 1] = item /\ Len(ran') = n + 1
       /\ \A i \in 1..n : i \in 1..(n + 1) /\ ran'[i] = ran[i]
       /\ \A i \in 1..(n + 1) : i \in 1..n \/ i = n + 1
  BY <1>4, <1>5, <1>7, <1>18, AppendIs
<1>20. PICK m \in Nat : m = Len(seen.tools)
  BY <1>10
<1> DEFINE grown == Append(seen.tools, item)
<1>21. /\ DOMAIN seen.tools = 1..m /\ DOMAIN grown = 1..(m + 1) /\ grown[m + 1] = item
       /\ \A i \in 1..m : i \in 1..(m + 1) /\ grown[i] = seen.tools[i]
       /\ \A i \in 1..(m + 1) : i \in 1..m \/ i = m + 1
       /\ m + 1 \in 1..(m + 1) /\ n + 1 \in 1..(n + 1)
  BY <1>4, <1>10, <1>20, AppendIs
<1>22. t = "own" => seen'.tools = grown
  BY <1>11
<1>23. t # "own" => seen'.tools = seen.tools
  BY <1>11
<1> HIDE DEF grown
<1>24. PICK k \in DOMAIN delivered : delivered[k].turn = t /\ delivered[k].op \in Calls
  <2>1. PICK k \in DOMAIN delivered : delivered[k].id = calls[t].id /\ delivered[k].op = op
    BY DEF CallsFit
  <2> QED  BY <2>1 DEF CallsFit
<1>25. RanFits'
  <2>1. ASSUME NEW i \in DOMAIN ran'
        PROVE  /\ ran'[i].status # "declined"
               /\ \E j \in DOMAIN delivered : delivered[j].turn = ran'[i].turn /\ delivered[j].op \in Calls
    <3>1. CASE i \in 1..n
      BY <1>19, <3>1 DEF RanFits
    <3>2. CASE i = n + 1
      BY <1>4, <1>19, <1>24, <3>2
    <3> QED  BY <1>19, <2>1, <3>1, <3>2
  <2>2. ASSUME NEW i \in DOMAIN seen'.tools, seen'.tools[i].status # "declined"
        PROVE  \E j \in DOMAIN ran' : ran'[j] = seen'.tools[i]
    <3>1. CASE i \in DOMAIN seen.tools
      <4>1. seen'.tools[i] = seen.tools[i]
        BY <1>21, <1>22, <1>23, <3>1
      <4>2. PICK j \in DOMAIN ran : ran[j] = seen.tools[i]
        BY <2>2, <3>1, <4>1 DEF RanFits
      <4> QED  BY <1>19, <4>1, <4>2
    <3>2. CASE i \notin DOMAIN seen.tools
      <4>1. t = "own"
        BY <1>23, <2>2, <3>2
      <4>2. seen'.tools[i] = item
        BY <1>21, <1>22, <2>2, <3>2, <4>1
      <4> QED  BY <1>19, <1>21, <4>2
    <3> QED  BY <3>1, <3>2
  <2>3. ASSUME OwnOnly'
        PROVE  IF Denial THEN \A i \in DOMAIN ran' : \E j \in DOMAIN seen'.tools : ran'[i] = seen'.tools[j]
               ELSE ran' = Before \o seen'.tools
    <3>1. t = "own"
      BY <1>4, <1>19, <1>21, <2>3 DEF OwnOnly
    <3>2. OwnOnly
      BY <1>19, <2>3 DEF OwnOnly
    <3>3. CASE Denial
      <4>1. ASSUME NEW i \in DOMAIN ran' PROVE \E j \in DOMAIN seen'.tools : ran'[i] = seen'.tools[j]
        <5>1. CASE i \in 1..n
          <6>1. PICK j \in 1..m : ran[i] = seen.tools[j]
            BY <1>1, <1>19, <1>21, <3>2, <3>3, <5>1 DEF RanFits
          <6> QED  BY <1>19, <1>21, <1>22, <3>1, <5>1, <6>1
        <5>2. CASE i = n + 1
          BY <1>19, <1>21, <1>22, <3>1, <5>2
        <5> QED  BY <1>19, <4>1, <5>1, <5>2
      <4> QED  BY <3>3, <4>1
    <3>4. CASE ~Denial
      <4>1. ran = Before \o seen.tools
        BY <1>1, <3>2, <3>4 DEF RanFits
      <4>2. Before \in Seq(ItemType)
        <5>1. Own("read", "completed") \in ItemType
          BY DEF Own, Item, ItemType, Turns, Calls, Commands, Ended
        <5> QED  BY <5>1 DEF Before
      <4>3. Append(Before \o seen.tools, item) = Before \o Append(seen.tools, item)
        <5>1. Append(Before \o seen.tools, item) = (Before \o seen.tools) \o <<item>>
          BY <1>4, <1>10, <4>2, ConcatProperties, AppendIsConcat
        <5>2. Append(seen.tools, item) = seen.tools \o <<item>>
          BY <1>4, <1>10, AppendIsConcat
        <5>3. (Before \o seen.tools) \o <<item>> = Before \o (seen.tools \o <<item>>)
          <6>1. <<item>> \in Seq(ItemType)
            BY <1>4, OneSequence
          <6>2. \A a, b, c \in Seq(ItemType) : (a \o b) \o c = a \o (b \o c)
            BY ConcatAssociative
          <6> QED  BY <1>10, <4>2, <6>1, <6>2
        <5> QED  BY <5>1, <5>2, <5>3
      <4> QED  BY <1>5, <1>22, <3>1, <3>4, <4>1, <4>3 DEF grown
    <3> QED  BY <3>3, <3>4
  <2>4. Before' = Before /\ Denial' = Denial
    BY DEF Before, Denial, Own, Item
  <2> QED  BY <2>1, <2>2, <2>3, <2>4 DEF RanFits
<1>26. \A i \in DOMAIN ran : ran[i].op = "patch" => op # "patch"
  BY DEF PatchFits
<1>27. PatchFits'
  <2>1. Repair' = Repair
    BY DEF Repair
  <2>2. ASSUME NEW i \in DOMAIN ran', ran'[i].op = "patch"
        PROVE  /\ given'.patch
               /\ \A j \in DOMAIN ran' : ran'[j].op = "patch" => j = i
               /\ Repair => \E j \in 1..(i - 1) : ran'[j] = Own("test", "failed")
    <3>1. CASE i \in 1..n
      <4>1. ran[i].op = "patch" /\ op # "patch"
        BY <1>19, <1>26, <2>2, <3>1
      <4>2. given'.patch
        BY <1>19, <3>1, <4>1 DEF PatchFits
      <4>3. ASSUME NEW j \in DOMAIN ran', ran'[j].op = "patch" PROVE j = i
        <5>1. j \in 1..n
          BY <1>4, <1>19, <4>1, <4>3
        <5> QED  BY <1>19, <3>1, <4>1, <4>3, <5>1 DEF PatchFits
      <4>4. ASSUME Repair PROVE \E j \in 1..(i - 1) : ran'[j] = Own("test", "failed")
        <5>1. PICK j \in 1..(i - 1) : ran[j] = Own("test", "failed")
          BY <1>19, <3>1, <4>1, <4>4 DEF PatchFits
        <5>2. j \in 1..n
          BY <3>1, <5>1
        <5> QED  BY <1>19, <5>1, <5>2
      <4> QED  BY <4>2, <4>3, <4>4
    <3>2. CASE i = n + 1
      <4>1. op = "patch"
        BY <1>4, <1>19, <2>2, <3>2
      <4>2. ASSUME NEW j \in DOMAIN ran', ran'[j].op = "patch" PROVE j = i
        BY <1>19, <1>26, <3>2, <4>1, <4>2
      <4>3. ASSUME Repair PROVE \E j \in 1..(i - 1) : ran'[j] = Own("test", "failed")
        <5>1. Own("test", "failed") \in ToSet(seen.tools)
          BY <4>1, <4>3 DEF Observed
        <5>2. PICK h \in DOMAIN seen.tools : seen.tools[h] = Own("test", "failed")
          BY <5>1 DEF ToSet
        <5>3. seen.tools[h].status = "failed"
          BY <5>2 DEF Own, Item
        <5>4. PICK j \in 1..n : ran[j] = Own("test", "failed")
          BY <1>19, <5>2, <5>3 DEF RanFits
        <5>5. i - 1 = n
          BY <3>2
        <5> QED  BY <1>19, <5>4, <5>5
      <4> QED  BY <4>1, <4>2, <4>3
    <3> QED  BY <1>19, <2>2, <3>1, <3>2
  <2>3. Own("test", "failed")' = Own("test", "failed")
    BY DEF Own, Item
  <2> QED  BY <2>1, <2>2, <2>3 DEF PatchFits
<1>28. RecallFits'
  <2>1. Carried' = Carried /\ Uncarried' = Uncarried /\ Checkpoint' = Checkpoint
    BY DEF Carried, Uncarried, Checkpoint
  <2>2. calls'["own"].stage = "called" => calls'["own"] = calls["own"]
    BY <1>9, <1>15
  <2> QED  BY <1>11, <2>1, <2>2 DEF RecallFits
<1>29. FinalFits'
  BY <1>1 DEF FinalFits
<1>30. ReportFits'
  <2>1. Checkpoint' = Checkpoint
    BY DEF Checkpoint
  <2>2. report.tools \in Nat
    BY DEF ProbeTyped
  <2> QED  BY <1>18, <1>19, <2>1, <2>2 DEF ReportFits
<1> QED  BY <1>12, <1>13, <1>14, <1>17, <1>25, <1>27, <1>28, <1>29, <1>30, PhaseFrame, DeliveriesFrame

LEMMA RunUnaskedKeeps ==
  ASSUME ProbeInv, NEW t \in Turns, RunUnasked(t)
  PROVE  ProbeInv'
<1>1. /\ calls[t].stage = "called" /\ calls[t].op \in Calls /\ calls[t].op # "patch"
      /\ verdict # "failed"
      /\ Run(t, calls[t].op)
      /\ UNCHANGED <<exercise, phase, verdict, markers, evidence, delivered, given, counts, child, server,
                     report, asked, history, recalled>>
  BY DEF RunUnasked, Working, Calls, Commands, judgement, fixture, outcome
<1>2. given' \in [read : BOOLEAN, denied : BOOLEAN, patch : BOOLEAN, tests : Nat]
  BY <1>1 DEF ProbeInv, ProbeTyped
<1> QED  BY <1>1, <1>2, RunKeeps

LEMMA AskApprovalKeeps ==
  ASSUME ProbeInv, NEW t \in Turns, AskApproval(t)
  PROVE  ProbeInv'
<1> DEFINE op == calls[t].op
           allowed == t = "own" /\ (AllowsRead(op) \/ AllowsTest(op) \/ AllowsPatch(op))
<1>1. /\ UNCHANGED <<exercise, phase, markers, evidence, delivered, counts, child, server,
                     report, asked, history, recalled>>
      /\ verdict = "none" /\ calls[t].stage = "called" /\ op \in Calls
  BY DEF AskApproval, Listening, outcome
<1>2. CASE ~allowed
  <2> USE DEF ProbeInv
  <2>1. verdict' = "failed" /\ UNCHANGED <<given, seen, output, ran, calls>>
    BY <1>2 DEF AskApproval
  <2>2. Failing
    BY <2>1 DEF Failing
  <2>3. ProbeTyped'
    BY <1>1, <2>1 DEF ProbeTyped
  <2>4. EndFits'
    BY <1>1, <2>1 DEF EndFits
  <2> QED  BY <1>1, <2>1, <2>2, <2>3, <2>4, PhaseFrame, DeliveriesFrame, CallsFrame, ToolsFrame,
              RanFrame, PatchFrame, RecallFrame, FinalFrame, ReportFrame
<1>3. CASE allowed /\ op = "read" /\ Denial
  <2> USE DEF ProbeInv
  <2>1. /\ given' = [given EXCEPT !.denied = TRUE]
        /\ seen' = CallSeen(t, op, "declined")
        /\ calls' = [calls EXCEPT ![t].stage = After(calls[t])]
        /\ UNCHANGED <<output, ran, verdict>>
    BY <1>3 DEF AskApproval
  <2> DEFINE item == Own("read", "declined")
  <2>2. item \in ItemType /\ item.op = "read" /\ item.status = "declined"
    BY DEF Own, Item, ItemType, Turns, Calls, Commands
  <2>3. t = "own" /\ seen' = [seen EXCEPT !.tools = Append(@, item)]
    BY <1>3, <2>1 DEF CallSeen
  <2> HIDE DEF item
  <2>4. calls \in [Turns -> CallType] /\ seen \in SeenType /\ seen.tools \in Seq(ItemType)
    BY DEF ProbeTyped, SeenType
  <2>5. Append(seen.tools, item) \in Seq(ItemType)
    BY <2>2, <2>4
  <2>6. seen' \in SeenType /\ seen'.compactions = seen.compactions /\ seen'.tools = Append(seen.tools, item)
    BY <2>3, <2>4, <2>5 DEF SeenType
  <2>7. After(calls[t]) \in {"again", "idle"}
    BY DEF After
  <2>8. /\ calls' \in [Turns -> CallType]
        /\ calls'[t].stage \in {"again", "idle"}
        /\ \A u \in Turns : /\ u # t => calls'[u] = calls[u]
                            /\ calls'[u].id = calls[u].id /\ calls'[u].trigger = calls[u].trigger
    BY <2>1, <2>4, <2>7, StageSet
  <2>9. given' \in [read : BOOLEAN, denied : BOOLEAN, patch : BOOLEAN, tests : Nat] /\ given'.patch = given.patch
    BY <2>1 DEF ProbeTyped
  <2>10. ProbeTyped'
    BY <1>1, <2>1, <2>6, <2>8, <2>9 DEF ProbeTyped
  <2>11. EndFits'
    BY <1>1, <2>1 DEF EndFits
  <2>12. CallsFit'
    BY <1>1, <2>8, StageFrame DEF Open
  <2>13. ToolsFit'
    BY <1>1, <1>3, <2>1, <2>2, <2>3, <2>6, ToolsGrow
  <2>14. PICK m \in Nat : m = Len(seen.tools)
    BY <2>4
  <2>15. /\ DOMAIN seen.tools = 1..m /\ DOMAIN seen'.tools = 1..(m + 1) /\ seen'.tools[m + 1] = item
         /\ \A i \in 1..m : i \in 1..(m + 1) /\ seen'.tools[i] = seen.tools[i]
         /\ \A i \in 1..(m + 1) : i \in 1..m \/ i = m + 1
    BY <2>2, <2>4, <2>6, <2>14, AppendIs
  <2>16. RanFits'
    <3>1. Before' = Before /\ Denial' = Denial /\ OwnOnly' = OwnOnly
      BY <1>1, <2>1 DEF Before, Denial, OwnOnly, Own, Item
    <3>2. \A i \in DOMAIN seen'.tools : seen'.tools[i].status # "declined" =>
            \E j \in DOMAIN ran : ran[j] = seen'.tools[i]
      BY <2>2, <2>15 DEF RanFits
    <3>3. OwnOnly => \A i \in DOMAIN ran : \E j \in DOMAIN seen'.tools : ran[i] = seen'.tools[j]
      BY <1>1, <1>3, <2>15 DEF RanFits
    <3> QED  BY <1>1, <1>3, <2>1, <3>1, <3>2, <3>3 DEF RanFits
  <2>17. PatchFits'
    <3>1. Repair' = Repair /\ Own("test", "failed")' = Own("test", "failed")
      BY <1>1 DEF Repair, Own, Item
    <3> QED  BY <2>1, <2>9, <3>1 DEF PatchFits
  <2>18. RecallFits'
    <3>1. Carried' = Carried /\ Uncarried' = Uncarried /\ Checkpoint' = Checkpoint
      BY <1>1 DEF Carried, Uncarried, Checkpoint
    <3>2. calls'["own"].stage # "called"
      BY <2>3, <2>8
    <3> QED  BY <1>1, <2>1, <2>6, <3>1, <3>2 DEF RecallFits
  <2>19. FinalFits'
    BY <1>1, <2>1 DEF FinalFits
  <2> QED  BY <1>1, <2>1, <2>10, <2>11, <2>12, <2>13, <2>16, <2>17, <2>18, <2>19, PhaseFrame,
              DeliveriesFrame, ReportFrame
<1>4. CASE allowed /\ ~(op = "read" /\ Denial)
  <2>1. /\ given' = CASE op = "read" -> [given EXCEPT !.read = TRUE]
                      [] op = "patch" -> [given EXCEPT !.patch = TRUE]
                      [] OTHER -> [given EXCEPT !.tests = @ + 1]
        /\ Run(t, op) /\ UNCHANGED verdict
    BY <1>4 DEF AskApproval
  <2>2. given \in [read : BOOLEAN, denied : BOOLEAN, patch : BOOLEAN, tests : Nat]
    BY DEF ProbeInv, ProbeTyped
  <2>3. /\ given' \in [read : BOOLEAN, denied : BOOLEAN, patch : BOOLEAN, tests : Nat]
        /\ given.patch => given'.patch /\ (op = "patch" => given'.patch)
    <3>1. CASE op = "read"
      BY <2>1, <2>2, <3>1
    <3>2. CASE op = "patch"
      BY <2>1, <2>2, <3>2
    <3>3. CASE op # "read" /\ op # "patch"
      BY <2>1, <2>2, <3>3
    <3> QED  BY <3>1, <3>2, <3>3
  <2>4. op = "patch" => given'.patch
    BY <2>1, <2>2
  <2>5. op = "patch" => ~given.patch /\ (Repair => Observed("test", "failed"))
    BY <1>4 DEF AllowsRead, AllowsTest, AllowsPatch
  <2> QED  BY <1>1, <2>1, <2>3, <2>4, <2>5, RunKeeps
<1> QED  BY <1>2, <1>3, <1>4

-----------------------------------------------------------------------------
(* The end of a turn.                                                      *)

\* A step that ends the turn and the probe, or fails it.
LEMMA FindsKeeps ==
  ASSUME ProbeInv, verdict = "none", verdict' \in {"ok", "failed"}, evidence' \in 0..3,
         calls' = [calls EXCEPT !["own"].stage = "over"],
         seen' \in SeenType, seen'.tools = seen.tools, seen'.compactions = seen.compactions,
         counts' \in CountsType, history' \in {"plain", "checkpoint", "leaky"},
         verdict' = "ok" => FinalFits' /\ UNCHANGED <<counts, history>>,
         exercise = "tool_checkpoint" /\ evidence' > 0 => Len(ran) >= 1,
         UNCHANGED <<exercise, phase, markers, delivered, given, output, child, server, report,
                     asked, ran, recalled>>
  PROVE  ProbeInv'
<1> USE DEF ProbeInv
<1>1. calls \in [Turns -> CallType] /\ "own" \in Turns
  BY DEF ProbeTyped, Turns
<1>2. /\ calls' \in [Turns -> CallType]
      /\ calls'["own"].stage = "over"
      /\ \A u \in Turns : /\ u # "own" => calls'[u] = calls[u]
                          /\ calls'[u].id = calls[u].id /\ calls'[u].trigger = calls[u].trigger
  BY <1>1, StageSet
<1>3. ProbeTyped'
  BY <1>2 DEF ProbeTyped
<1>4. EndFits'
  BY DEF EndFits
<1>5. CallsFit'
  BY <1>2, StageFrame DEF Open
<1>6. Start' = Start
  BY DEF Start
<1>7. ToolsFit'
  BY <1>6 DEF ToolsFit
<1>8. RanFits'
  <2>1. Before' = Before /\ Denial' = Denial /\ OwnOnly' = OwnOnly
    BY DEF Before, Denial, OwnOnly, Own, Item
  <2> QED  BY <2>1 DEF RanFits
<1>9. RecallFits'
  <2>1. Checkpoint' = Checkpoint
    BY DEF Checkpoint
  <2>2. verdict' # "failed" => Carried' = Carried /\ Uncarried' = Uncarried
    BY DEF Carried, Uncarried
  <2> QED  BY <1>2, <2>1, <2>2 DEF RecallFits
<1>10. FinalFits'
  BY DEF FinalFits
<1>11. ReportFits'
  <2>1. Checkpoint' = Checkpoint
    BY DEF Checkpoint
  <2> QED  BY <2>1 DEF ReportFits
<1> QED  BY <1>3, <1>4, <1>5, <1>7, <1>8, <1>9, <1>10, <1>11, PhaseFrame, DeliveriesFrame, PatchFrame

\* A step that goes on to the next turn.
LEMMA GoesKeeps ==
  ASSUME ProbeInv, verdict = "none", NEW next \in {"grow", "compact", "recall", "tools"},
         NEW seeds \in Seq(Answered), NEW found \in 0..3, Goes(next, seeds, found),
         counts' \in CountsType, history' \in {"plain", "checkpoint", "leaky"},
         ~Denial, PhaseFits', RecallFits', Start' <= Len(delivered),
         OwnOnly => ran = Before',
         exercise = "tool_checkpoint" => delivered[1].turn = "own",
         exercise = "tool_checkpoint" => Len(ran) >= 1,
         UNCHANGED <<exercise, delivered, given, output, child, server, report, asked, ran, recalled>>
  PROVE  ProbeInv'
<1> USE DEF ProbeInv
<1>1. /\ phase' = next /\ markers' = seeds /\ evidence' = found /\ UNCHANGED verdict
      /\ calls' = [calls EXCEPT !["own"] = NoCall]
      /\ seen' = NoItems
  BY DEF Goes
<1>2. calls \in [Turns -> CallType] /\ "own" \in Turns /\ "other" \in Turns /\ Turns = {"own", "other"}
  BY DEF ProbeTyped, Turns
<1>3. NoCall \in CallType /\ NoCall.id = 0 /\ NoCall.stage = "idle"
  BY DEF NoCall, CallType
<1>4. calls' \in [Turns -> CallType] /\ calls'["own"] = NoCall /\ calls'["other"] = calls["other"]
  BY <1>1, <1>2, <1>3, CallSet
<1>5. seen' \in SeenType /\ seen'.tools = << >> /\ seen'.compactions = 0
  BY <1>1 DEF NoItems, SeenType
<1>6. ProbeTyped'
  BY <1>1, <1>4, <1>5 DEF ProbeTyped
<1>7. EndFits'
  BY <1>1 DEF EndFits
<1>8. \A k \in DOMAIN delivered : delivered[k].id # 0
  BY DEF DeliveriesFit, ProbeTyped
<1>9. CallsFit'
  <2>1. ASSUME NEW u \in Turns
        PROVE  /\ calls'[u].id <= asked
               /\ calls'[u].stage \in {"asking", "called", "again"} => calls'[u].id # 0
               /\ \A k \in DOMAIN delivered : delivered[k].id = calls'[u].id => delivered[k].turn = u
               /\ calls'[u].stage = "called" =>
                    \E k \in DOMAIN delivered : delivered[k].id = calls'[u].id /\ delivered[k].op = calls'[u].op
    <3>1. CASE u = "own"
      <4>1. 0 <= asked
        BY DEF ProbeTyped
      <4> QED  BY <1>3, <1>4, <1>8, <3>1, <4>1
    <3>2. CASE u = "other"
      BY <1>4, <3>2 DEF CallsFit
    <3> QED  BY <1>2, <3>1, <3>2
  <2>2. \A k \in DOMAIN delivered : delivered[k].id # calls'["own"].id
    BY <1>3, <1>4, <1>8
  <2> QED  BY <1>3, <1>4, <2>1, <2>2 DEF CallsFit
<1>10. ToolsFit'
  <2>1. DOMAIN seen'.tools = {}
    BY <1>5
  <2>2. [i \in {} |-> i] \in [{} -> DOMAIN delivered']
    OBVIOUS
  <2> QED  BY <2>1, <2>2 DEF ToolsFit
<1>11. RanFits'
  <2>1. Denial' = Denial /\ OwnOnly' = OwnOnly
    BY DEF Denial, OwnOnly
  <2>2. DOMAIN seen'.tools = {}
    BY <1>5
  <2>3. OwnOnly => ran = Before' \o seen'.tools
    <3>1. Before' \in Seq(ItemType)
      <4>1. Own("read", "completed")' \in ItemType
        BY DEF Own, Item, ItemType, Turns, Calls, Commands, Ended
      <4> QED  BY <4>1, OneSequence, EmptySeq DEF Before
    <3>2. Before' \o << >> = Before'
      BY <3>1, ConcatEmptySeq
    <3> QED  BY <1>5, <3>2
  <2> QED  BY <2>1, <2>2, <2>3 DEF RanFits
<1>12. FinalFits'
  BY <1>1 DEF FinalFits
<1>13. ReportFits'
  <2>1. Checkpoint' = Checkpoint
    BY DEF Checkpoint
  <2> QED  BY <1>1, <2>1 DEF ReportFits
<1> QED  BY <1>6, <1>7, <1>9, <1>10, <1>11, <1>12, <1>13, DeliveriesFrame, PatchFrame

\* Without fixtures nothing runs.
LEMMA NoneRan ==
  ASSUME ProbeInv, ~Fixtured
  PROVE  ran = << >> /\ \A k \in DOMAIN delivered : delivered[k].op \notin Calls
<1>1. \A k \in DOMAIN delivered : delivered[k].op \notin Calls
  BY DEF ProbeInv, DeliveriesFit
<1>2. DOMAIN ran = {}
  BY <1>1 DEF ProbeInv, RanFits
<1>3. ran \in Seq(ItemType)
  BY DEF ProbeInv, ProbeTyped
<1>4. Len(ran) = 0
  BY <1>2, <1>3
<1> QED  BY <1>1, <1>3, <1>4, EmptySeq

LEMMA OwnAlone ==
  ASSUME ProbeInv, \A k \in DOMAIN delivered : delivered[k].op \in Calls => delivered[k].turn = "own"
  PROVE  OwnOnly
BY DEF ProbeInv, RanFits, OwnOnly

\* Where in the script the probe's answer is, and the calls that its turn has had.
LEMMA AnswerIsPlaced ==
  ASSUME ProbeInv, Fixtured, NEW t \in Turns, calls[t].stage = "called"
  PROVE  \E k \in 1..Len(Script) :
           /\ k \in DOMAIN delivered /\ k <= Len(delivered) /\ delivered[k].id = calls[t].id
           /\ delivered[k].turn = t /\ Script[k] = calls[t].op /\ delivered[k].op = calls[t].op
           /\ t = "own" => \A j \in DOMAIN delivered : delivered[j].turn = "own" => j <= k
<1>1. PICK k \in DOMAIN delivered : delivered[k].id = calls[t].id /\ delivered[k].op = calls[t].op
  BY DEF ProbeInv, CallsFit
<1>2. delivered[k].turn = t /\ Script[k] = calls[t].op
  BY <1>1 DEF ProbeInv, CallsFit, DeliveriesFit
<1>3. /\ Len(delivered) \in Nat /\ DOMAIN delivered = 1..Len(delivered)
      /\ Len(delivered) <= Len(Script) /\ Len(Script) \in Nat
  BY ScriptReplies DEF ProbeInv, ProbeTyped, DeliveriesFit
<1>4. k \in 1..Len(Script) /\ k <= Len(delivered)
  BY <1>3
<1>5. t = "own" => \A j \in DOMAIN delivered : delivered[j].turn = "own" => j <= k
  BY <1>1 DEF ProbeInv, CallsFit
<1> QED  BY <1>1, <1>2, <1>4, <1>5

LEMMA ToolsArePlaced ==
  ASSUME ProbeInv, Fixtured, verdict = "none"
  PROVE  \E of \in [DOMAIN seen.tools -> 1..Len(Script)] :
           /\ \A i \in DOMAIN seen.tools :
                /\ of[i] \in DOMAIN delivered /\ of[i] > Start /\ delivered[of[i]].turn = "own"
                /\ Script[of[i]] = seen.tools[i].op
           /\ \A i, j \in DOMAIN seen.tools : i < j => of[i] <= of[j]
<1>1. PICK of \in [DOMAIN seen.tools -> DOMAIN delivered] :
        /\ \A i \in DOMAIN seen.tools :
             /\ of[i] > Start /\ delivered[of[i]].turn = "own"
             /\ delivered[of[i]].op = seen.tools[i].op
        /\ \A i, j \in DOMAIN seen.tools : i < j => of[i] <= of[j]
  BY DEF ProbeInv, ToolsFit
<1>2. PICK n \in Nat : n = Len(delivered)
  BY DEF ProbeInv, ProbeTyped
<1>3. PICK m \in Nat : m = Len(Script)
  BY ScriptReplies DEF ProbeInv
<1>4. DOMAIN delivered = 1..n
  BY <1>2 DEF ProbeInv, ProbeTyped
<1>5. n <= m
  BY <1>2, <1>3 DEF ProbeInv, DeliveriesFit
<1>6. \A k \in 1..n : k \in 1..m
  BY <1>5
<1>7. of \in [DOMAIN seen.tools -> 1..m]
  BY <1>1, <1>4, <1>6
<1>8. \A k \in DOMAIN delivered : delivered[k].op = Script[k]
  BY DEF ProbeInv, DeliveriesFit
<1> QED  BY <1>1, <1>3, <1>7, <1>8

\* The steps of the script that are calls.
LEMMA CallSteps ==
  ASSUME ProbeTyped, Fixtured, NEW k \in 1..Len(Script), Script[k] \in Calls
  PROVE  /\ exercise = "read_patch" => k \in {1, 2}
         /\ exercise = "read_patch_test" => k \in {1, 2, 3}
         /\ exercise = "read_test_repair" => k \in {1, 2, 3, 4}
         /\ exercise = "denied_read" => k = 1
         /\ exercise = "tool_checkpoint" => k \in {1, 5, 6}
<1>1. CASE exercise = "read_patch"
  <2>1. Script = <<"read", "patch", "marker">>
    BY <1>1, ScriptOf
  <2>2. Len(Script) = 3
    BY <2>1
  <2>3. k \in {1, 2, 3}
    BY <2>2
  <2>4. Script[3] = "marker"
    BY <2>1
  <2> QED  BY <1>1, <2>3, <2>4 DEF Calls, Commands
<1>2. CASE exercise = "read_patch_test"
  <2>1. Script = <<"read", "patch", "test", "passed">>
    BY <1>2, ScriptOf
  <2>2. Len(Script) = 4
    BY <2>1
  <2>3. k \in {1, 2, 3, 4}
    BY <2>2
  <2>4. Script[4] = "passed"
    BY <2>1
  <2> QED  BY <1>2, <2>3, <2>4 DEF Calls, Commands
<1>3. CASE exercise = "read_test_repair"
  <2>1. Script = <<"read", "test", "patch", "test", "passed">>
    BY <1>3, ScriptOf
  <2>2. Len(Script) = 5
    BY <2>1
  <2>3. k \in {1, 2, 3, 4, 5}
    BY <2>2
  <2>4. Script[5] = "passed"
    BY <2>1
  <2> QED  BY <1>3, <2>3, <2>4 DEF Calls, Commands
<1>4. CASE exercise = "denied_read"
  <2>1. Script = <<"read", "denied">>
    BY <1>4, ScriptOf
  <2>2. Len(Script) = 2
    BY <2>1
  <2>3. k \in {1, 2}
    BY <2>2
  <2>4. Script[2] = "denied"
    BY <2>1
  <2> QED  BY <1>4, <2>3, <2>4 DEF Calls, Commands
<1>5. CASE exercise = "tool_checkpoint"
  <2>1. Script = <<"read", "ack", "compaction", "marker", "patch", "test", "passed">>
    BY <1>5, ScriptOf
  <2>2. Len(Script) = 7
    BY <2>1
  <2>3. k \in {1, 2, 3, 4, 5, 6, 7}
    BY <2>2
  <2>4. Script[2] = "ack" /\ Script[3] = "compaction" /\ Script[4] = "marker" /\ Script[7] = "passed"
    BY <2>1
  <2> QED  BY <1>5, <2>3, <2>4 DEF Calls, Commands
<1> QED  BY <1>1, <1>2, <1>3, <1>4, <1>5

\* When the turn's calls are the ones that the exercise wants, they are the script's, and
\* each of them was delivered to the probe's own turn.
LEMMA ToolsAreTheScripts ==
  ASSUME ProbeInv, Fixtured, verdict = "none",
         \/ exercise \in {"read_patch", "read_patch_test", "read_test_repair"} /\ seen.tools = Expected
         \/ exercise = "denied_read" /\ seen.tools = <<Own("read", "declined")>>
         \/ exercise = "tool_checkpoint" /\ phase = "tools"
            /\ seen.tools = <<Own("patch", "completed"), Own("test", "passed")>>
  PROVE  \A k \in DOMAIN delivered : delivered[k].op \in Calls => delivered[k].turn = "own"
<1>1. PICK of \in [DOMAIN seen.tools -> 1..Len(Script)] :
           /\ \A i \in DOMAIN seen.tools :
                /\ of[i] \in DOMAIN delivered /\ of[i] > Start /\ delivered[of[i]].turn = "own"
                /\ Script[of[i]] = seen.tools[i].op
           /\ \A i, j \in DOMAIN seen.tools : i < j => of[i] <= of[j]
  BY ToolsArePlaced
<1>2. ASSUME NEW k \in DOMAIN delivered, delivered[k].op \in Calls
      PROVE  k \in 1..Len(Script) /\ Script[k] \in Calls
  <2>1. PICK n \in Nat : n = Len(delivered) /\ DOMAIN delivered = 1..n
    BY DEF ProbeInv, ProbeTyped
  <2>2. PICK m \in Nat : m = Len(Script)
    BY ScriptReplies DEF ProbeInv
  <2>3. n <= m /\ Script[k] = delivered[k].op
    BY <2>1, <2>2 DEF ProbeInv, DeliveriesFit
  <2> QED  BY <1>2, <2>1, <2>2, <2>3
<1>3. ProbeTyped
  BY DEF ProbeInv
<1>4. CASE exercise = "read_patch"
  <2>1. seen.tools = <<Own("read", "completed"), Own("patch", "completed")>>
    BY <1>4 DEF Expected, Repair
  <2>2. DOMAIN seen.tools = {1, 2} /\ seen.tools[1].op = "read" /\ seen.tools[2].op = "patch"
    BY <2>1 DEF Own, Item
  <2>3. Script[of[1]] = "read" /\ Script[of[2]] = "patch" /\ of[1] \in 1..Len(Script) /\ of[2] \in 1..Len(Script)
    BY <1>1, <2>2
  <2>4. of[1] = 1 /\ of[2] = 2
    BY <1>3, <1>4, <2>3, ScriptSteps DEF Repair
  <2> QED  BY <1>1, <1>2, <1>3, <1>4, <2>2, <2>4, CallSteps
<1>5. CASE exercise = "read_patch_test"
  <2>1. seen.tools = <<Own("read", "completed"), Own("patch", "completed"), Own("test", "passed")>>
    BY <1>5 DEF Expected, Repair
  <2>2. /\ DOMAIN seen.tools = {1, 2, 3} /\ seen.tools[1].op = "read" /\ seen.tools[2].op = "patch"
        /\ seen.tools[3].op = "test"
    BY <2>1 DEF Own, Item
  <2>3. /\ Script[of[1]] = "read" /\ Script[of[2]] = "patch" /\ Script[of[3]] = "test"
        /\ of[1] \in 1..Len(Script) /\ of[2] \in 1..Len(Script) /\ of[3] \in 1..Len(Script)
    BY <1>1, <2>2
  <2>4. of[1] = 1 /\ of[2] = 2 /\ of[3] = 3
    BY <1>3, <1>5, <2>3, ScriptSteps DEF Repair
  <2> QED  BY <1>1, <1>2, <1>3, <1>5, <2>2, <2>4, CallSteps
<1>6. CASE exercise = "read_test_repair"
  <2>1. seen.tools = <<Own("read", "completed"), Own("test", "failed"), Own("patch", "completed"),
                       Own("test", "passed")>>
    BY <1>6 DEF Expected, Repair
  <2>2. /\ DOMAIN seen.tools = {1, 2, 3, 4} /\ seen.tools[1].op = "read" /\ seen.tools[2].op = "test"
        /\ seen.tools[3].op = "patch" /\ seen.tools[4].op = "test"
    BY <2>1 DEF Own, Item
  <2>3. /\ Script[of[1]] = "read" /\ Script[of[2]] = "test" /\ Script[of[3]] = "patch" /\ Script[of[4]] = "test"
        /\ of[1] \in 1..Len(Script) /\ of[2] \in 1..Len(Script)
        /\ of[3] \in 1..Len(Script) /\ of[4] \in 1..Len(Script)
    BY <1>1, <2>2
  <2>4. of[1] = 1 /\ of[2] \in {2, 4} /\ of[3] = 3 /\ of[4] \in {2, 4}
    BY <1>3, <1>6, <2>3, ScriptSteps DEF Repair
  <2>5. of[2] <= of[3] /\ of[3] <= of[4]
    BY <1>1, <2>2
  <2>6. of[2] = 2 /\ of[4] = 4
    BY <2>4, <2>5
  <2> QED  BY <1>1, <1>2, <1>3, <1>6, <2>2, <2>4, <2>6, CallSteps
<1>7. CASE exercise = "denied_read"
  <2>1. seen.tools = <<Own("read", "declined")>>
    BY <1>7
  <2>2. DOMAIN seen.tools = {1} /\ seen.tools[1].op = "read"
    BY <2>1 DEF Own, Item
  <2>3. Script[of[1]] = "read" /\ of[1] \in 1..Len(Script)
    BY <1>1, <2>2
  <2>4. of[1] = 1
    BY <1>3, <2>3, ScriptSteps
  <2> QED  BY <1>1, <1>2, <1>3, <1>7, <2>2, <2>4, CallSteps
<1>8. CASE exercise = "tool_checkpoint"
  <2>1. phase = "tools" /\ seen.tools = <<Own("patch", "completed"), Own("test", "passed")>>
    BY <1>8
  <2>2. DOMAIN seen.tools = {1, 2} /\ seen.tools[1].op = "patch" /\ seen.tools[2].op = "test"
    BY <2>1 DEF Own, Item
  <2>3. Script[of[1]] = "patch" /\ Script[of[2]] = "test" /\ of[1] \in 1..Len(Script) /\ of[2] \in 1..Len(Script)
    BY <1>1, <2>2
  <2>4. of[1] = 5 /\ of[2] = 6
    BY <1>3, <1>8, <2>3, ScriptSteps DEF Repair
  <2>5. delivered[1].turn = "own"
    BY <1>8, <2>1 DEF ProbeInv, RanFits
  <2> QED  BY <1>1, <1>2, <1>3, <1>8, <2>2, <2>4, <2>5, CallSteps
<1> QED  BY <1>4, <1>5, <1>6, <1>7, <1>8

LEMMA LastText ==
  ASSUME NEW S, NEW s \in Seq(S), NEW x \in S, NEW y
  PROVE  Append(s, x) = <<y>> => x = y
<1>1. PICK n \in Nat : n = Len(s)
  OBVIOUS
<1>2. Len(Append(s, x)) = n + 1 /\ Append(s, x)[n + 1] = x
  BY <1>1, AppendIs
<1>3. Len(<<y>>) = 1 /\ <<y>>[1] = y
  OBVIOUS
<1>4. ASSUME Append(s, x) = <<y>> PROVE x = y
  <2>1. n + 1 = 1
    BY <1>2, <1>3, <1>4
  <2>2. n = 0
    BY <2>1
  <2> QED  BY <1>2, <1>3, <1>4, <2>2
<1> QED  BY <1>4

\* What is seen when the probe's own turn has said something.
LEMMA ItemsAre ==
  ASSUME ProbeInv, NEW t \in Turns, calls[t].stage = "called",
         calls[t].op \notin Calls \cup {"compaction"}, NEW items, items = Noted(TextSeen(t, calls[t].op))
  PROVE  /\ calls[t].op \in Answered
         /\ items \in SeenType /\ items.tools = seen.tools /\ items.compactions = seen.compactions
         /\ t = "own" /\ verdict = "none" => items.texts = Append(seen.texts, calls[t].op)
<1>1. PICK k \in DOMAIN delivered : delivered[k].id = calls[t].id /\ delivered[k].op = calls[t].op
  BY DEF ProbeInv, CallsFit
<1>2. delivered \in Seq(Delivery)
  BY DEF ProbeInv, ProbeTyped, Delivery
<1>3. delivered[k] \in Delivery
  BY <1>1, <1>2
<1>4. calls[t].op \in Answered
  BY <1>1, <1>3 DEF Delivery, Replies
<1>5. seen \in SeenType
  BY DEF ProbeInv, ProbeTyped
<1>6. Append(seen.texts, calls[t].op) \in Seq(Answered)
  BY <1>4, <1>5 DEF SeenType
<1>7. CASE t = "own" /\ verdict = "none"
  <2>1. items = [seen EXCEPT !.texts = Append(@, calls[t].op)]
    BY <1>7 DEF Noted, TextSeen, Listening
  <2> QED  BY <1>4, <1>5, <1>6, <2>1 DEF SeenType
<1>8. CASE ~(t = "own" /\ verdict = "none")
  <2>1. items = seen
    BY <1>8 DEF Noted, TextSeen, Listening
  <2> QED  BY <1>4, <1>5, <1>8, <2>1
<1> QED  BY <1>7, <1>8

\* A text that ends no turn of the probe's own, or is cut off.
LEMMA SayOnKeeps ==
  ASSUME ProbeInv, NEW t \in Turns, calls[t].stage = "called", NEW s \in {"again", "over"},
         calls' = [calls EXCEPT ![t].stage = s],
         seen' \in SeenType, seen'.tools = seen.tools, seen'.compactions = seen.compactions,
         UNCHANGED <<exercise, phase, verdict, markers, evidence, delivered, given, counts, output,
                     child, server, report, asked, history, ran, recalled>>
  PROVE  ProbeInv'
<1> USE DEF ProbeInv
<1>1. calls \in [Turns -> CallType] /\ "own" \in Turns
  BY DEF ProbeTyped, Turns
<1>2. /\ calls' \in [Turns -> CallType]
      /\ calls'[t].stage = s
      /\ \A u \in Turns : /\ u # t => calls'[u] = calls[u]
                          /\ calls'[u].id = calls[u].id /\ calls'[u].trigger = calls[u].trigger
  BY <1>1, StageSet
<1>3. ProbeTyped'
  BY <1>2 DEF ProbeTyped
<1>4. EndFits'
  BY DEF EndFits
<1>5. CallsFit'
  BY <1>2, StageFrame DEF Open
<1>6. ToolsFit'
  <2>1. Start' = Start
    BY DEF Start
  <2> QED  BY <2>1 DEF ToolsFit
<1>7. RanFits'
  <2>1. Before' = Before /\ Denial' = Denial /\ OwnOnly' = OwnOnly
    BY DEF Before, Denial, OwnOnly, Own, Item
  <2> QED  BY <2>1 DEF RanFits
<1>8. calls'["own"].stage # "called" \/ calls'["own"] = calls["own"]
  BY <1>1, <1>2
<1>9. RecallFits'
  <2>1. Carried' = Carried /\ Uncarried' = Uncarried /\ Checkpoint' = Checkpoint
    BY DEF Carried, Uncarried, Checkpoint
  <2> QED  BY <1>8, <2>1 DEF RecallFits
<1>10. FinalFits'
  <2>1. verdict = "ok" => calls'["own"] = calls["own"]
    BY <1>1, <1>2 DEF FinalFits
  <2>2. /\ Wanted' = Wanted /\ Fixtured' = Fixtured /\ Script' = Script /\ Checkpoint' = Checkpoint
        /\ Carried' = Carried
    BY DEF Wanted, Expected, Own, Item, Repair, Fixtured, Script, Checkpoint, Carried
  <2> QED  BY <2>1, <2>2 DEF FinalFits
<1> QED  BY <1>3, <1>4, <1>5, <1>6, <1>7, <1>9, <1>10, PhaseFrame, DeliveriesFrame, PatchFrame, ReportFrame

\* The first turn succeeds: the exercise has done what it should, and nothing else has.
LEMMA ExerciseIsDone ==
  ASSUME ProbeInv, verdict = "none", phase = "first",
         exercise \notin {"checkpoint", "tool_checkpoint"}, calls["own"].stage = "called",
         calls["own"].op = Last(Script),
         Fixtured => IF Denial THEN seen.tools = <<Own("read", "declined")>> ELSE seen.tools = Expected
  PROVE  /\ ran = Wanted
         /\ Fixtured => Len(delivered) = Len(Script)
         /\ \A k \in DOMAIN delivered : delivered[k].op \in Calls => delivered[k].turn = "own"
         /\ ~Checkpoint
<1>1. exercise \in {"text", "read_patch", "read_patch_test", "read_test_repair", "denied_read"}
  BY ExerciseIs DEF ProbeInv, PhaseFits
<1>2. ~Checkpoint
  BY <1>1 DEF Checkpoint
<1>3. CASE exercise = "text"
  <2>1. ~Fixtured /\ Wanted = << >>
    BY <1>3 DEF Fixtured, Wanted, Expected, Repair
  <2> QED  BY <1>2, <2>1, NoneRan
<1>4. CASE exercise # "text"
  <2>1. Fixtured
    BY <1>1, <1>4 DEF Fixtured
  <2>2. \A k \in DOMAIN delivered : delivered[k].op \in Calls => delivered[k].turn = "own"
    BY <1>1, <1>4, <2>1, ToolsAreTheScripts DEF Denial
  <2>3. OwnOnly
    BY <2>2, OwnAlone
  <2>4. ran = Wanted
    <3>1. CASE Denial
      <4>1. \A i \in DOMAIN ran : \E j \in DOMAIN seen.tools : ran[i] = seen.tools[j]
        BY <2>3, <3>1 DEF ProbeInv, RanFits
      <4>2. \A j \in DOMAIN seen.tools : seen.tools[j].status = "declined"
        <5>1. \A j \in DOMAIN <<Own("read", "declined")>> : <<Own("read", "declined")>>[j].status = "declined"
          BY DEF Own, Item
        <5> QED  BY <2>1, <3>1, <5>1
      <4>3. ASSUME NEW i \in DOMAIN ran
            PROVE  FALSE
        <5>1. ran[i].status = "declined"
          BY <4>1, <4>2
        <5>2. ran[i].status # "declined"
          BY DEF ProbeInv, RanFits
        <5> QED  BY <5>1, <5>2
      <4>4. ran \in Seq(ItemType)
        BY DEF ProbeInv, ProbeTyped
      <4>5. Len(ran) = 0
        <5>1. PICK n \in Nat : n = Len(ran) /\ DOMAIN ran = 1..n
          BY <4>4
        <5>2. n # 0 => 1 \in DOMAIN ran
          BY <5>1
        <5> QED  BY <4>3, <5>1, <5>2
      <4>6. ran = << >>
        BY <4>4, <4>5, EmptySeq
      <4> QED  BY <3>1, <4>6 DEF Wanted, Expected, Denial, Repair
    <3>2. CASE ~Denial
      <4>1. ran = Before \o seen.tools /\ seen.tools = Expected
        BY <2>1, <2>3, <3>2 DEF ProbeInv, RanFits
      <4>2. Before = << >> /\ Wanted = Expected
        BY <1>1 DEF Before, Wanted
      <4>3. seen.tools \in Seq(ItemType)
        BY DEF ProbeInv, ProbeTyped, SeenType
      <4>4. << >> \o seen.tools = seen.tools
        BY <4>3, ConcatEmptySeq
      <4> QED  BY <4>1, <4>2, <4>4
    <3> QED  BY <3>1, <3>2
  <2>5. PICK k \in 1..Len(Script) :
          /\ k \in DOMAIN delivered /\ k <= Len(delivered) /\ Script[k] = Last(Script)
    BY <2>1, AnswerIsPlaced DEF Turns
  <2>6. Last(Script) \in {"marker", "passed", "denied"}
    <3>1. CASE exercise = "read_patch"
      <4>1. Script = <<"read", "patch", "marker">>
        BY <3>1, ScriptOf
      <4> QED  BY <4>1 DEF Last
    <3>2. CASE exercise = "read_patch_test"
      <4>1. Script = <<"read", "patch", "test", "passed">>
        BY <3>2, ScriptOf
      <4> QED  BY <4>1 DEF Last
    <3>3. CASE exercise = "read_test_repair"
      <4>1. Script = <<"read", "test", "patch", "test", "passed">>
        BY <3>3, ScriptOf
      <4> QED  BY <4>1 DEF Last
    <3>4. CASE exercise = "denied_read"
      <4>1. Script = <<"read", "denied">>
        BY <3>4, ScriptOf
      <4> QED  BY <4>1 DEF Last
    <3> QED  BY <1>1, <1>4, <3>1, <3>2, <3>3, <3>4
  <2>7. ProbeTyped
    BY DEF ProbeInv
  <2>8. k = Len(Script)
    BY <1>1, <2>1, <2>5, <2>6, <2>7, ScriptSteps
  <2>9. Len(delivered) <= Len(Script) /\ Len(delivered) \in Nat /\ Len(Script) \in Nat
    BY <2>1, <2>7, ScriptReplies DEF ProbeInv, DeliveriesFit, ProbeTyped
  <2>10. Len(delivered) = Len(Script)
    BY <2>5, <2>8, <2>9
  <2> QED  BY <1>2, <2>2, <2>4, <2>10
<1> QED  BY <1>3, <1>4

LEMMA OneAndTwo ==
  ASSUME NEW a, NEW b, NEW c
  PROVE  <<a>> \o <<b, c>> = <<a, b, c>>
<1> DEFINE S == {a, b, c}
           s == <<a>> \o <<b, c>>
           u == <<a, b, c>>
<1>1. <<a>> \in Seq(S) /\ <<b, c>> \in Seq(S) /\ u \in Seq(S)
  OBVIOUS
<1>2. /\ Len(<<a>>) = 1 /\ Len(<<b, c>>) = 2 /\ Len(u) = 3
      /\ <<a>>[1] = a /\ <<b, c>>[1] = b /\ <<b, c>>[2] = c
      /\ u[1] = a /\ u[2] = b /\ u[3] = c
  OBVIOUS
<1>3. /\ s \in Seq(S)
      /\ Len(s) = Len(<<a>>) + Len(<<b, c>>)
      /\ \A i \in 1..Len(<<a>>) + Len(<<b, c>>) :
           s[i] = IF i <= Len(<<a>>) THEN <<a>>[i] ELSE <<b, c>>[i - Len(<<a>>)]
  BY <1>1, ConcatProperties
<1>4. Len(s) = 3 /\ s[1] = a /\ s[2] = b /\ s[3] = c
  BY <1>2, <1>3
<1> HIDE DEF s, u, S
<1>5. \A i \in 1..Len(s) : s[i] = u[i]
  BY <1>2, <1>4
<1>6. s = u
  BY <1>1, <1>2, <1>3, <1>4, <1>5, SeqEqual
<1> QED  BY <1>6 DEF s, u

\* The tool turn succeeds.
LEMMA ToolTurnIsDone ==
  ASSUME ProbeInv, verdict = "none", calls["own"].stage = "called", calls["own"].op = "passed",
         exercise = "tool_checkpoint", phase = "tools",
         seen.tools = <<Own("patch", "completed"), Own("test", "passed")>>
  PROVE  /\ ran = Wanted
         /\ Fixtured => Len(delivered) = Len(Script)
         /\ \A k \in DOMAIN delivered : delivered[k].op \in Calls => delivered[k].turn = "own"
         /\ Carried /\ recalled = history
<1>1. Fixtured /\ Checkpoint /\ ~Denial
  BY DEF Fixtured, Checkpoint, Denial
<1>2. \A k \in DOMAIN delivered : delivered[k].op \in Calls => delivered[k].turn = "own"
  BY <1>1, ToolsAreTheScripts
<1>3. ran = Before \o seen.tools
  <2>1. OwnOnly
    BY <1>2, OwnAlone
  <2> QED  BY <1>1, <2>1 DEF ProbeInv, RanFits
<1>4. ran = Wanted
  <2>1. Before = <<Own("read", "completed")>>
    BY DEF Before
  <2>2. <<Own("read", "completed")>> \o <<Own("patch", "completed"), Own("test", "passed")>>
          = <<Own("read", "completed"), Own("patch", "completed"), Own("test", "passed")>>
    BY OneAndTwo
  <2> QED  BY <1>3, <2>1, <2>2 DEF Wanted
<1>5. PICK k \in 1..Len(Script) : k \in DOMAIN delivered /\ k <= Len(delivered) /\ Script[k] = "passed"
  BY <1>1, AnswerIsPlaced DEF Turns
<1>6. ProbeTyped
  BY DEF ProbeInv
<1>7. k = Len(Script)
  BY <1>1, <1>5, <1>6, ScriptSteps
<1>8. Len(delivered) <= Len(Script) /\ Len(delivered) \in Nat /\ Len(Script) \in Nat
  BY <1>1, <1>6, ScriptReplies DEF ProbeInv, DeliveriesFit, ProbeTyped
<1>9. Len(delivered) = Len(Script)
  BY <1>5, <1>7, <1>8
<1>10. Carried /\ recalled = history
  BY <1>1 DEF ProbeInv, RecallFits
<1> QED  BY <1>2, <1>4, <1>9, <1>10

LEMMA OwnTurnEndsKeeps ==
  ASSUME ProbeInv, verdict = "none", calls["own"].stage = "called",
         calls["own"].op \notin Calls \cup {"compaction"}, phase # "start",
         NEW items, items = Noted(TextSeen("own", calls["own"].op)), OwnTurnEnds(items),
         UNCHANGED <<exercise, delivered, given, counts, output, child, server, report, asked,
                     history, ran, recalled>>
  PROVE  ProbeInv'
<1> USE DEF ProbeInv
<1> DEFINE op == calls["own"].op
<1>1. /\ op \in Answered /\ items.texts = Append(seen.texts, op)
      /\ items \in SeenType /\ items.tools = seen.tools /\ items.compactions = seen.compactions
  BY ItemsAre DEF Turns
<1>2. seen.texts \in Seq(Answered) /\ counts \in CountsType /\ history \in {"plain", "checkpoint", "leaky"}
      /\ evidence \in 0..3 /\ markers \in Seq(Answered)
  BY DEF ProbeTyped, SeenType
<1>3. ASSUME NEW x, TextIs(items, x) PROVE op = x
  <2>1. Append(seen.texts, op) = <<x>> => op = x
    BY <1>1, <1>2, LastText
  <2> QED  BY <1>1, <1>3, <2>1 DEF TextIs
<1>4. ASSUME NEW x, items.texts = <<x>> PROVE x = op /\ Last(items.texts) = op
  <2>1. x = op
    BY <1>3, <1>4 DEF TextIs
  <2> QED  BY <1>4, <2>1 DEF Last
<1>5. SeedIn(items) => Last(items.texts) \in Answered
  BY <1>1, <1>4 DEF SeedIn, TextIs
<1>6. exercise = "tool_checkpoint" /\ evidence > 0 => Len(ran) >= 1
  BY DEF ReportFits
<1>7. ASSUME Finds("failed", evidence), seen' = items PROVE ProbeInv'
  <2>1. verdict' = "failed" /\ evidence' = evidence /\ UNCHANGED <<phase, markers>>
        /\ calls' = [calls EXCEPT !["own"].stage = "over"]
    BY <1>7 DEF Finds
  <2>2. /\ verdict' \in {"ok", "failed"} /\ verdict' # "ok"
        /\ evidence' \in 0..3
        /\ seen' \in SeenType /\ seen'.tools = seen.tools /\ seen'.compactions = seen.compactions
        /\ counts' \in CountsType /\ history' \in {"plain", "checkpoint", "leaky"}
        /\ exercise = "tool_checkpoint" /\ evidence' > 0 => Len(ran) >= 1
    BY <1>1, <1>2, <1>6, <1>7, <2>1
  <2> QED  BY <2>1, <2>2, FindsKeeps
<1>8. ASSUME NEW found \in 0..3, Finds("ok", found), seen' = items,
             ran = Wanted, Fixtured => Len(delivered) = Len(Script),
             \A k \in DOMAIN delivered : delivered[k].op \in Calls => delivered[k].turn = "own",
             Checkpoint => Carried /\ recalled = history,
             exercise = "tool_checkpoint" => Len(ran) >= 1
      PROVE  ProbeInv'
  <2>1. verdict' = "ok" /\ evidence' = found /\ UNCHANGED <<phase, markers>>
        /\ calls' = [calls EXCEPT !["own"].stage = "over"]
    BY <1>8 DEF Finds
  <2>2. FinalFits'
    <3>1. /\ Wanted' = Wanted /\ Fixtured' = Fixtured /\ Script' = Script /\ Checkpoint' = Checkpoint
          /\ Carried' = Carried
      BY DEF Wanted, Expected, Own, Item, Repair, Fixtured, Script, Checkpoint, Carried
    <3>2. calls'["own"].stage = "over"
      BY <2>1 DEF ProbeTyped, Turns, CallType
    <3> QED  BY <1>8, <3>1, <3>2 DEF FinalFits
  <2>3. /\ verdict' \in {"ok", "failed"} /\ evidence' \in 0..3
        /\ seen' \in SeenType /\ seen'.tools = seen.tools /\ seen'.compactions = seen.compactions
        /\ counts' \in CountsType /\ history' \in {"plain", "checkpoint", "leaky"}
        /\ exercise = "tool_checkpoint" /\ evidence' > 0 => Len(ran) >= 1
    BY <1>1, <1>2, <1>8, <2>1
  <2> QED  BY <2>1, <2>2, <2>3, FindsKeeps
<1>9. /\ counts' \in CountsType /\ history' \in {"plain", "checkpoint", "leaky"}
      /\ Carried' = Carried /\ Uncarried' = Uncarried /\ Checkpoint' = Checkpoint
  BY <1>2 DEF Carried, Uncarried, Checkpoint
<1>10. ProbeTyped
  OBVIOUS
<1>11. CASE phase = "first"
  <2>1. FirstTurnEnds(items)
    BY <1>11 DEF OwnTurnEnds
  <2>2. CASE exercise = "checkpoint"
    <3>1. CASE SeedIn(items)
      <4>1. Goes("compact", <<Last(items.texts)>>, evidence)
        BY <2>1, <2>2, <3>1 DEF FirstTurnEnds
      <4>2. <<Last(items.texts)>> \in Seq(Answered)
        BY <1>5, <3>1, OneSequence
      <4>3. phase' = "compact" /\ verdict' = verdict /\ seen'.compactions = 0 /\ calls'["own"].stage = "idle"
        BY <4>1 DEF Goes, NoItems, NoCall, ProbeTyped, Turns
      <4>4. ~Fixtured /\ ~Denial
        BY <2>2 DEF Fixtured, Denial
      <4>5. Before' = << >> /\ ran = << >> /\ Start' = 0
        BY <2>2, <4>4, NoneRan DEF Before, Start
      <4>6. PhaseFits'
        BY <2>2, <4>3 DEF PhaseFits, Checkpoint
      <4>7. RecallFits'
        <5>1. Uncarried
          BY <1>11, <2>2 DEF RecallFits, Checkpoint
        <5> QED  BY <1>9, <4>3, <5>1 DEF RecallFits
      <4>8. 0 <= Len(delivered)
        BY DEF ProbeTyped
      <4> QED  BY <1>2, <1>9, <2>2, <4>1, <4>2, <4>4, <4>5, <4>6, <4>7, <4>8, GoesKeeps
    <3>2. CASE ~SeedIn(items)
      BY <1>7, <2>1, <2>2, <3>2 DEF FirstTurnEnds
    <3> QED  BY <3>1, <3>2
  <2>3. CASE exercise = "tool_checkpoint"
    <3>1. CASE TextIs(items, "ack") /\ VerifyRead(items) /\ NothingWritten
      <4>1. Goes("compact", <<"marker">>, 1)
        BY <2>1, <2>3, <3>1 DEF FirstTurnEnds
      <4>2. <<"marker">> \in Seq(Answered)
        BY OneSequence DEF Answered
      <4>3. /\ phase' = "compact" /\ verdict' = verdict /\ markers' = <<"marker">>
            /\ seen'.compactions = 0 /\ calls'["own"].stage = "idle"
        BY <4>1 DEF Goes, NoItems, NoCall, ProbeTyped, Turns
      <4>4. Fixtured /\ ~Denial
        BY <2>3 DEF Fixtured, Denial
      <4>5. op = "ack"
        BY <1>3, <3>1
      <4>6. PICK k \in 1..Len(Script) : k <= Len(delivered) /\ Script[k] = "ack"
        BY <4>4, <4>5, AnswerIsPlaced DEF Turns
      <4>7. k = 2
        BY <1>10, <4>4, <4>6, ScriptSteps
      <4>8. Start' = 2 /\ Start' <= Len(delivered)
        BY <2>3, <4>3, <4>6, <4>7 DEF Start
      <4>9. seen.tools = <<Own("read", "completed")>>
        BY <1>1, <3>1 DEF VerifyRead
      <4>10. DOMAIN seen.tools = {1} /\ seen.tools[1].op = "read" /\ seen.tools[1].status = "completed"
        BY <4>9 DEF Own, Item
      <4>11. delivered[1].turn = "own"
        <5>1. PICK of \in [DOMAIN seen.tools -> 1..Len(Script)] :
                \A i \in DOMAIN seen.tools : /\ delivered[of[i]].turn = "own"
                                             /\ Script[of[i]] = seen.tools[i].op
          BY <4>4, ToolsArePlaced
        <5>2. of[1] \in 1..Len(Script) /\ Script[of[1]] = "read"
          BY <4>10, <5>1
        <5>3. of[1] = 1
          BY <1>10, <4>4, <5>2, ScriptSteps
        <5> QED  BY <4>10, <5>1, <5>3
      <4>12. OwnOnly => ran = Before'
        <5>1. OwnOnly => ran = Before \o seen.tools
          BY <4>4 DEF RanFits
        <5>2. Before = << >> /\ Before' = <<Own("read", "completed")>>
          BY <1>11, <2>3, <4>3 DEF Before, Own, Item
        <5>3. seen.tools \in Seq(ItemType)
          BY DEF ProbeTyped, SeenType
        <5>4. << >> \o seen.tools = seen.tools
          BY <5>3, ConcatEmptySeq
        <5> QED  BY <4>9, <5>1, <5>2, <5>4
      <4>13. Len(ran) >= 1
        <5>1. PICK j \in DOMAIN ran : ran[j] = seen.tools[1]
          BY <4>10 DEF RanFits
        <5>2. ran \in Seq(ItemType)
          BY DEF ProbeTyped
        <5> QED  BY <5>1, <5>2
      <4>14. PhaseFits'
        BY <2>3, <4>3 DEF PhaseFits, Checkpoint
      <4>15. RecallFits'
        <5>1. Uncarried
          BY <1>11, <2>3 DEF RecallFits, Checkpoint
        <5> QED  BY <1>9, <4>3, <5>1 DEF RecallFits
      <4>16. 1 \in 0..3 /\ "compact" \in {"grow", "compact", "recall", "tools"}
        OBVIOUS
      <4> QED  BY <1>9, <2>3, <4>1, <4>2, <4>4, <4>8, <4>11, <4>12, <4>13, <4>14, <4>15, <4>16, GoesKeeps
    <3>2. CASE ~(TextIs(items, "ack") /\ VerifyRead(items) /\ NothingWritten)
      BY <1>7, <2>1, <2>3, <3>2 DEF FirstTurnEnds
    <3> QED  BY <3>1, <3>2
  <2>4. CASE exercise \notin {"checkpoint", "tool_checkpoint"}
    <3> DEFINE good == /\ TextIs(items, Last(Script))
                       /\ Fixtured => IF Denial THEN VerifyDenial(items) ELSE VerifyTools(items)
    <3>1. Finds(IF good THEN "ok" ELSE "failed", evidence) /\ seen' = items
      BY <2>1, <2>4 DEF FirstTurnEnds
    <3>2. CASE good
      <4>1. Finds("ok", evidence)
        BY <3>1, <3>2
      <4>2. op = Last(Script)
        BY <1>3, <3>2
      <4>3. Fixtured => IF Denial THEN seen.tools = <<Own("read", "declined")>> ELSE seen.tools = Expected
        BY <1>1, <3>2 DEF VerifyDenial, VerifyTools
      <4>4. /\ ran = Wanted
            /\ Fixtured => Len(delivered) = Len(Script)
            /\ \A k \in DOMAIN delivered : delivered[k].op \in Calls => delivered[k].turn = "own"
            /\ ~Checkpoint
        BY <1>11, <2>4, <4>2, <4>3, ExerciseIsDone
      <4> QED  BY <1>2, <1>8, <2>4, <3>1, <4>1, <4>4
    <3>3. CASE ~good
      BY <1>7, <3>1, <3>3
    <3> QED  BY <3>2, <3>3
  <2> QED  BY <2>2, <2>3, <2>4
<1>12. CASE phase = "grow"
  <2>1. GrowingEnds(items) /\ exercise = "automatic"
    BY <1>12 DEF OwnTurnEnds, PhaseFits
  <2>2. CASE FreshSeedIn(items) /\ Len(markers) + 1 < MaxGrow
    <3> DEFINE seeds == Append(markers, Last(items.texts))
    <3>1. Goes("grow", seeds, evidence)
      BY <2>1, <2>2 DEF GrowingEnds
    <3>2. seeds \in Seq(Answered)
      BY <1>2, <1>5, <2>2 DEF FreshSeedIn
    <3> HIDE DEF seeds
    <3>3. phase' = "grow" /\ verdict' = verdict /\ seen'.compactions = 0 /\ calls'["own"].stage = "idle"
      BY <3>1 DEF Goes, NoItems, NoCall, ProbeTyped, Turns
    <3>4. ~Fixtured /\ ~Denial
      BY <2>1 DEF Fixtured, Denial
    <3>5. Before' = << >> /\ ran = << >> /\ Start' = 0
      BY <2>1, <3>4, NoneRan DEF Before, Start
    <3>6. PhaseFits'
      BY <2>1, <3>3 DEF PhaseFits, Checkpoint
    <3>7. RecallFits'
      <4>1. Uncarried
        BY <1>12, <2>1 DEF RecallFits, Checkpoint
      <4> QED  BY <1>9, <3>3, <4>1 DEF RecallFits
    <3>8. 0 <= Len(delivered)
      BY DEF ProbeTyped
    <3> QED  BY <1>2, <1>9, <2>1, <3>1, <3>2, <3>4, <3>5, <3>6, <3>7, <3>8, GoesKeeps
  <2>3. CASE ~(FreshSeedIn(items) /\ Len(markers) + 1 < MaxGrow)
    BY <1>7, <2>1, <2>3 DEF GrowingEnds
  <2> QED  BY <2>2, <2>3
<1>13. CASE phase = "recall"
  <2>1. RecallEnds(items) /\ Checkpoint
    BY <1>13 DEF OwnTurnEnds, PhaseFits
  <2> DEFINE bad == ~TextIs(items, Last(markers)) \/ (exercise = "automatic" /\ ~CompactedOnce(items))
  <2>2. CASE bad
    BY <1>7, <2>1, <2>2 DEF RecallEnds
  <2>3. CASE ~bad
    <3>1. TextIs(items, Last(markers)) /\ (exercise = "automatic" => seen.compactions = 1)
      BY <1>1, <2>3 DEF CompactedOnce
    <3>2. Carried /\ recalled = history
      BY <1>13, <2>1, <3>1 DEF RecallFits
    <3>3. CASE exercise # "tool_checkpoint"
      <4>1. Finds("ok", 2) /\ seen' = items
        BY <2>1, <2>3, <3>3 DEF RecallEnds
      <4>2. ~Fixtured /\ Wanted = << >>
        BY <2>1, <3>3 DEF Checkpoint, Fixtured, Wanted, Expected, Repair
      <4>3. ran = << >> /\ \A k \in DOMAIN delivered : delivered[k].op \notin Calls
        BY <4>2, NoneRan
      <4> QED  BY <1>8, <3>2, <3>3, <4>1, <4>2, <4>3
    <3>4. CASE exercise = "tool_checkpoint" /\ ~NothingWritten
      BY <1>7, <2>1, <2>3, <3>4 DEF RecallEnds
    <3>5. CASE exercise = "tool_checkpoint" /\ NothingWritten
      <4>1. Goes("tools", markers, 2)
        BY <2>1, <2>3, <3>5 DEF RecallEnds
      <4>2. /\ phase' = "tools" /\ verdict' = verdict /\ markers' = markers
            /\ seen'.compactions = 0 /\ calls'["own"].stage = "idle"
        BY <4>1 DEF Goes, NoItems, NoCall, ProbeTyped, Turns
      <4>3. Fixtured /\ ~Denial
        BY <3>5 DEF Fixtured, Denial
      <4>4. markers = <<"marker">>
        BY <1>13, <3>5 DEF PhaseFits
      <4>5. op = "marker"
        <5>1. Last(markers) = "marker"
          BY <4>4 DEF Last
        <5> QED  BY <1>3, <3>1, <5>1
      <4>6. PICK k \in 1..Len(Script) :
              /\ k <= Len(delivered) /\ Script[k] = "marker"
              /\ \A j \in DOMAIN delivered : delivered[j].turn = "own" => j <= k
        BY <4>3, <4>5, AnswerIsPlaced DEF Turns
      <4>7. k = 4
        BY <1>10, <3>5, <4>3, <4>6, ScriptSteps
      <4>8. Start' = 4 /\ Start' <= Len(delivered) /\ Start = 3
        BY <1>13, <3>5, <4>2, <4>6, <4>7 DEF Start
      <4>9. DOMAIN seen.tools = {}
        <5> SUFFICES ASSUME NEW i \in DOMAIN seen.tools PROVE FALSE
          OBVIOUS
        <5>1. PICK of \in [DOMAIN seen.tools -> 1..Len(Script)] :
                \A j \in DOMAIN seen.tools :
                  /\ of[j] \in DOMAIN delivered /\ of[j] > Start /\ delivered[of[j]].turn = "own"
                  /\ Script[of[j]] = seen.tools[j].op
          BY <4>3, ToolsArePlaced
        <5>2. of[i] \in 1..Len(Script) /\ of[i] > 3 /\ of[i] <= 4
          BY <4>6, <4>7, <4>8, <5>1
        <5>3. of[i] = 4
          BY <5>2
        <5>4. seen.tools[i].op = "marker"
          BY <4>6, <4>7, <5>1, <5>3
        <5>5. seen.tools \in Seq(ItemType)
          BY DEF ProbeTyped, SeenType
        <5>6. seen.tools[i] \in ItemType
          BY <5>5
        <5> QED  BY <5>4, <5>6 DEF ItemType, Calls, Commands
      <4>10. OwnOnly => ran = Before'
        <5>1. OwnOnly => ran = Before \o seen.tools
          BY <4>3 DEF RanFits
        <5>2. Before' = Before /\ Before = <<Own("read", "completed")>>
          BY <1>13, <3>5, <4>2 DEF Before, Own, Item
        <5>3. Own("read", "completed") \in ItemType
          BY DEF Own, Item, ItemType, Turns, Calls, Commands, Ended
        <5>4. Before \in Seq(ItemType)
          BY <5>2, <5>3, OneSequence
        <5>5. seen.tools \in Seq(ItemType)
          BY DEF ProbeTyped, SeenType
        <5>6. PICK n \in Nat : n = Len(seen.tools) /\ DOMAIN seen.tools = 1..n
          BY <5>5
        <5>7. n = 0
          <6>1. n # 0 => 1 \in 1..n
            OBVIOUS
          <6> QED  BY <4>9, <5>6, <6>1
        <5>8. seen.tools = << >>
          BY <5>5, <5>6, <5>7, EmptySeq
        <5> QED  BY <5>1, <5>2, <5>4, <5>8, ConcatEmptySeq
      <4>11. delivered[1].turn = "own"
        BY <1>13, <3>5 DEF RanFits
      <4>12. Len(ran) >= 1
        BY <1>13, <3>5 DEF ReportFits
      <4>13. PhaseFits'
        BY <3>5, <4>2, <4>4 DEF PhaseFits, Checkpoint
      <4>14. RecallFits'
        BY <1>9, <3>2, <4>2 DEF RecallFits
      <4>15. 2 \in 0..3 /\ "tools" \in {"grow", "compact", "recall", "tools"}
        OBVIOUS
      <4> QED  BY <1>2, <1>9, <3>5, <4>1, <4>3, <4>8, <4>10, <4>11, <4>12, <4>13, <4>14, <4>15, GoesKeeps
    <3> QED  BY <3>3, <3>4, <3>5
  <2> QED  BY <2>2, <2>3
<1>14. CASE phase \in {"compact", "tools"}
  <2>1. ToolTurnEnds(items)
    BY <1>14 DEF OwnTurnEnds
  <2>2. CASE TextIs(items, "passed") /\ VerifyPost(items)
    <3>1. Finds("ok", 3) /\ seen' = items
      BY <2>1, <2>2 DEF ToolTurnEnds
    <3>2. phase = "tools"
      <4>1. PICK k \in DOMAIN delivered : delivered[k].id = calls["own"].id /\ delivered[k].op = op
        BY DEF CallsFit, Turns
      <4>2. ~calls["own"].trigger
        BY <4>1 DEF CallsFit
      <4> QED  BY <1>14, <4>2 DEF CallsFit
    <3>3. exercise = "tool_checkpoint"
      BY <3>2 DEF PhaseFits
    <3>4. op = "passed"
      BY <1>3, <2>2
    <3>5. seen.tools = <<Own("patch", "completed"), Own("test", "passed")>>
      BY <1>1, <2>2 DEF VerifyPost
    <3>6. /\ ran = Wanted
          /\ Fixtured => Len(delivered) = Len(Script)
          /\ \A k \in DOMAIN delivered : delivered[k].op \in Calls => delivered[k].turn = "own"
          /\ Carried /\ recalled = history
      BY <3>2, <3>3, <3>4, <3>5, ToolTurnIsDone
    <3>7. Len(ran) >= 1
      <4>1. Len(<<Own("read", "completed"), Own("patch", "completed"), Own("test", "passed")>>) = 3
        OBVIOUS
      <4> QED  BY <3>3, <3>6, <4>1 DEF Wanted
    <3> QED  BY <1>8, <3>1, <3>6, <3>7
  <2>3. CASE ~(TextIs(items, "passed") /\ VerifyPost(items))
    BY <1>7, <2>1, <2>3 DEF ToolTurnEnds
  <2> QED  BY <2>2, <2>3
<1> QED  BY <1>11, <1>12, <1>13, <1>14 DEF ProbeTyped

LEMMA SayKeeps ==
  ASSUME ProbeInv, NEW t \in Turns, Say(t)
  PROVE  ProbeInv'
<1> DEFINE items == Noted(TextSeen(t, calls[t].op))
<1>1. /\ UNCHANGED <<exercise, delivered, given, counts, output, child, server, report, asked,
                     history, ran, recalled>>
      /\ calls[t].stage = "called" /\ calls[t].op \notin Calls \cup {"compaction"} /\ phase # "start"
  BY DEF Say, Working, fixture, outcome, past
<1>2. items \in SeenType /\ items.tools = seen.tools /\ items.compactions = seen.compactions
  BY <1>1, ItemsAre
<1>3. CASE calls[t].cut
  <2>1. seen' = items /\ calls' = [calls EXCEPT ![t].stage = "again"]
        /\ UNCHANGED <<phase, verdict, markers, evidence>>
    BY <1>3 DEF Say, judgement
  <2> QED  BY <1>1, <1>2, <2>1, SayOnKeeps
<1>4. CASE ~calls[t].cut /\ t = "own" /\ Listening
  <2>1. OwnTurnEnds(items)
    BY <1>4 DEF Say
  <2> HIDE DEF items
  <2>2. items = Noted(TextSeen("own", calls["own"].op))
    BY <1>4 DEF items
  <2> QED  BY <1>1, <1>4, <2>1, <2>2, OwnTurnEndsKeeps DEF Listening
<1>5. CASE ~calls[t].cut /\ ~(t = "own" /\ Listening)
  <2>1. seen' = items /\ calls' = [calls EXCEPT ![t].stage = "over"]
        /\ UNCHANGED <<phase, verdict, markers, evidence>>
    BY <1>5 DEF Say, judgement
  <2> QED  BY <1>1, <1>2, <2>1, SayOnKeeps
<1> QED  BY <1>3, <1>4, <1>5

LEMMA ContextRefusalKeeps ==
  ASSUME ProbeInv, ContextRefusal
  PROVE  ProbeInv'
<1> USE DEF ProbeInv
<1>1. /\ UNCHANGED <<exercise, delivered, given, output, child, server, report, asked,
                     history, ran, recalled>>
      /\ verdict = "none" /\ calls["own"].stage = "asking"
      /\ counts' = [counts EXCEPT !.refusals = @ + 1]
  BY DEF ContextRefusal, Listening, fixture, outcome, past
<1>2. /\ counts \in CountsType /\ history \in {"plain", "checkpoint", "leaky"}
      /\ evidence \in 0..3 /\ markers \in Seq(Answered) /\ seen \in SeenType
  BY DEF ProbeTyped
<1>3. counts' \in CountsType /\ Carried' = Carried /\ Uncarried' = Uncarried
  BY <1>1, <1>2, CountedElse
<1>4. CASE phase = "grow" /\ markers # << >>
  <2>1. Goes("recall", markers, evidence) /\ exercise = "automatic"
    BY <1>4 DEF ContextRefusal, PhaseFits
  <2>2. phase' = "recall" /\ verdict' = verdict /\ seen'.compactions = 0 /\ calls'["own"].stage = "idle"
    BY <2>1 DEF Goes, NoItems, NoCall, ProbeTyped, Turns
  <2>3. ~Fixtured /\ ~Denial
    BY <2>1 DEF Fixtured, Denial
  <2>4. Before' = << >> /\ ran = << >> /\ Start' = 0
    BY <1>1, <2>1, <2>3, NoneRan DEF Before, Start
  <2>5. PhaseFits'
    BY <1>1, <2>1, <2>2 DEF PhaseFits, Checkpoint
  <2>6. RecallFits'
    <3>1. Uncarried
      BY <1>1, <1>4, <2>1 DEF RecallFits, Checkpoint
    <3> QED  BY <1>1, <1>3, <2>1, <2>2, <3>1 DEF RecallFits
  <2>7. 0 <= Len(delivered)
    BY DEF ProbeTyped
  <2> QED  BY <1>1, <1>2, <1>3, <2>1, <2>3, <2>4, <2>5, <2>6, <2>7, GoesKeeps
<1>5. CASE ~(phase = "grow" /\ markers # << >>)
  <2>1. Finds("failed", evidence) /\ UNCHANGED seen
    BY <1>5 DEF ContextRefusal
  <2>2. verdict' = "failed" /\ evidence' = evidence /\ UNCHANGED <<phase, markers>>
        /\ calls' = [calls EXCEPT !["own"].stage = "over"]
    BY <2>1 DEF Finds
  <2>3. /\ verdict' \in {"ok", "failed"} /\ verdict' # "ok" /\ evidence' \in 0..3
        /\ seen' \in SeenType /\ seen'.tools = seen.tools /\ seen'.compactions = seen.compactions
        /\ history' \in {"plain", "checkpoint", "leaky"}
        /\ exercise = "tool_checkpoint" /\ evidence' > 0 => Len(ran) >= 1
    BY <1>1, <1>2, <2>1, <2>2 DEF ReportFits
  <2> QED  BY <1>1, <1>3, <2>2, <2>3, FindsKeeps
<1> QED  BY <1>4, <1>5

LEMMA CompactedKeeps ==
  ASSUME ProbeInv, Compacted
  PROVE  ProbeInv'
<1> USE DEF ProbeInv
<1>1. /\ UNCHANGED <<exercise, delivered, given, counts, output, child, server, report, asked, ran, recalled>>
      /\ calls["own"].stage = "called" /\ calls["own"].op = "compaction"
      /\ history' \in {"plain", "checkpoint", "leaky"}
      /\ verdict # "failed"
  BY DEF Compacted, Working, fixture, outcome, past
<1>2. /\ counts \in CountsType /\ evidence \in 0..3 /\ markers \in Seq(Answered) /\ seen \in SeenType
      /\ calls \in [Turns -> CallType] /\ "own" \in Turns
  BY DEF ProbeTyped, Turns
<1>3. verdict = "none"
  BY <1>1 DEF FinalFits, ProbeTyped
<1> DEFINE compacting == phase = "compact" \/ (phase = "recall" /\ exercise = "automatic")
           bad == ~Listening \/ ~compacting \/ (phase = "compact" /\ ~NothingIn(seen))
<1>4. CASE bad
  <2>1. Finds("failed", evidence) /\ UNCHANGED seen
    BY <1>3, <1>4 DEF Compacted, Listening
  <2>2. verdict' = "failed" /\ evidence' = evidence /\ UNCHANGED <<phase, markers>>
        /\ calls' = [calls EXCEPT !["own"].stage = "over"]
    BY <2>1 DEF Finds
  <2>3. /\ verdict' \in {"ok", "failed"} /\ verdict' # "ok" /\ evidence' \in 0..3
        /\ seen' \in SeenType /\ seen'.tools = seen.tools /\ seen'.compactions = seen.compactions
        /\ counts' \in CountsType
        /\ exercise = "tool_checkpoint" /\ evidence' > 0 => Len(ran) >= 1
    BY <1>1, <1>2, <2>1, <2>2 DEF ReportFits
  <2> QED  BY <1>1, <1>3, <2>2, <2>3, FindsKeeps
<1>5. CASE ~bad /\ phase = "compact" /\ ~calls["own"].cut
  <2>1. Goes("recall", markers, evidence)
    BY <1>5 DEF Compacted
  <2>2. /\ phase' = "recall" /\ verdict' = verdict /\ markers' = markers
        /\ seen'.compactions = 0 /\ calls'["own"].stage = "idle"
    BY <2>1 DEF Goes, NoItems, NoCall, ProbeTyped, Turns
  <2>3. exercise \in {"checkpoint", "tool_checkpoint"}
    BY <1>5 DEF PhaseFits
  <2>4. ~Denial /\ Checkpoint
    BY <2>3 DEF Denial, Checkpoint
  <2>5. seen.tools = << >> /\ seen.compactions = 0
    BY <1>5 DEF NothingIn
  <2>6. PhaseFits'
    BY <1>1, <1>5, <2>2, <2>3 DEF PhaseFits, Checkpoint
  <2>7. RecallFits'
    <3>1. Uncarried
      BY <1>1, <1>5, <2>4, <2>5 DEF RecallFits
    <3>2. Carried'
      BY <1>1, <3>1 DEF Carried, Uncarried
    <3> QED  BY <1>1, <2>2, <2>3, <3>2 DEF RecallFits
  <2>8. Start' <= Len(delivered)
    <3>1. CASE exercise = "checkpoint"
      BY <1>1, <3>1 DEF Start, ProbeTyped
    <3>2. CASE exercise = "tool_checkpoint"
      <4>1. Fixtured
        BY <3>2 DEF Fixtured
      <4>2. PICK k \in 1..Len(Script) : k <= Len(delivered) /\ Script[k] = "compaction"
        BY <1>1, <1>2, <4>1, AnswerIsPlaced
      <4>3. k = 3
        BY <4>1, <4>2, ScriptSteps
      <4> QED  BY <1>1, <2>2, <3>2, <4>2, <4>3 DEF Start
    <3> QED  BY <2>3, <3>1, <3>2
  <2>9. OwnOnly => ran = Before'
    <3>1. OwnOnly => ran = Before \o seen.tools
      BY <1>3, <2>4 DEF RanFits
    <3>2. Before' = Before
      BY <1>1, <1>5, <2>2 DEF Before, Own, Item
    <3>3. Before \in Seq(ItemType)
      <4>1. Own("read", "completed") \in ItemType
        BY DEF Own, Item, ItemType, Turns, Calls, Commands, Ended
      <4> QED  BY <4>1, OneSequence, EmptySeq DEF Before
    <3>4. Before \o << >> = Before
      BY <3>3, ConcatEmptySeq
    <3> QED  BY <2>5, <3>1, <3>2, <3>4
  <2>10. exercise = "tool_checkpoint" => delivered[1].turn = "own" /\ Len(ran) >= 1
    BY <1>5 DEF RanFits, ReportFits
  <2>11. counts' \in CountsType
    BY <1>1, <1>2
  <2> QED  BY <1>1, <1>2, <1>3, <2>1, <2>4, <2>6, <2>7, <2>8, <2>9, <2>10, <2>11, GoesKeeps
<1>6. CASE ~bad /\ ~(phase = "compact" /\ ~calls["own"].cut)
  <2>1. /\ seen' = [seen EXCEPT !.compactions = @ + 1, !.late = @ \/ seen.texts # << >>]
        /\ UNCHANGED <<phase, verdict, markers, evidence>>
        /\ calls' = [calls EXCEPT !["own"].stage = After(calls["own"])]
    BY <1>6 DEF Compacted, judgement
  <2>2. After(calls["own"]) \in {"again", "idle"}
    BY DEF After
  <2>3. /\ calls' \in [Turns -> CallType]
        /\ calls'["own"].stage \in {"again", "idle"}
        /\ \A u \in Turns : /\ u # "own" => calls'[u] = calls[u]
                            /\ calls'[u].id = calls[u].id /\ calls'[u].trigger = calls[u].trigger
    BY <1>2, <2>1, <2>2, StageSet
  <2>4. seen.compactions \in Nat
    BY <1>2 DEF SeenType
  <2>5. seen' \in SeenType /\ seen'.tools = seen.tools /\ seen'.compactions = seen.compactions + 1
    <3>1. seen.compactions + 1 \in Nat
      BY <2>4
    <3>2. (seen.late \/ seen.texts # << >>) \in BOOLEAN
      OBVIOUS
    <3> QED  BY <1>2, <2>1, <3>1, <3>2 DEF SeenType
  <2>6. ProbeTyped'
    BY <1>1, <2>1, <2>3, <2>5 DEF ProbeTyped
  <2>7. EndFits'
    BY <1>1, <2>1 DEF EndFits
  <2>8. CallsFit'
    BY <1>1, <2>1, <2>3, StageFrame DEF Open
  <2>9. ToolsFit'
    <3>1. Start' = Start
      BY <1>1, <2>1 DEF Start
    <3> QED  BY <1>1, <2>1, <2>5, <3>1 DEF ToolsFit
  <2>10. RanFits'
    <3>1. Before' = Before /\ Denial' = Denial /\ OwnOnly' = OwnOnly
      BY <1>1, <2>1 DEF Before, Denial, OwnOnly, Own, Item
    <3> QED  BY <1>1, <2>1, <2>5, <3>1 DEF RanFits
  <2>11. RecallFits'
    <3>1. phase = "compact" \/ (phase = "recall" /\ exercise = "automatic")
      BY <1>6
    <3>2. Checkpoint' = Checkpoint
      BY <1>1 DEF Checkpoint
    <3>3. CASE phase = "compact"
      BY <2>1, <2>4, <2>5, <3>3 DEF RecallFits
    <3>4. CASE phase = "recall" /\ exercise = "automatic"
      <4>1. Checkpoint
        BY <3>4 DEF Checkpoint
      <4>2. seen'.compactions # 0
        BY <2>4, <2>5
      <4>3. ASSUME seen'.compactions = 1 PROVE Carried'
        <5>1. seen.compactions = 0
          BY <2>4, <2>5, <4>3
        <5>2. Uncarried
          BY <1>1, <3>4, <4>1, <5>1 DEF RecallFits
        <5> QED  BY <1>1, <5>2 DEF Carried, Uncarried
      <4> QED  BY <1>1, <2>1, <2>3, <3>4, <4>2, <4>3 DEF RecallFits
    <3> QED  BY <3>1, <3>3, <3>4
  <2>12. FinalFits'
    BY <1>3, <2>1 DEF FinalFits
  <2> QED  BY <1>1, <2>1, <2>6, <2>7, <2>8, <2>9, <2>10, <2>11, <2>12, PhaseFrame, DeliveriesFrame,
              PatchFrame, ReportFrame
<1> QED  BY <1>4, <1>5, <1>6

-----------------------------------------------------------------------------
LEMMA ProbeStep ==
  ASSUME ProbeInv, [ProbeNext]_probeVars
  PROVE  ProbeInv'
<1>1. CASE \E t \in {"own", "other"} : Ask(t) \/ AskAgain(t) \/ Refuse(t) \/ RunUnasked(t) \/ AskApproval(t) \/ Say(t)
  <2>1. PICK t \in Turns : Ask(t) \/ AskAgain(t) \/ Refuse(t) \/ RunUnasked(t) \/ AskApproval(t) \/ Say(t)
    BY <1>1 DEF Turns
  <2> QED  BY <2>1, AskKeeps, AskAgainKeeps, RefuseKeeps, RunUnaskedKeeps, AskApprovalKeeps, SayKeeps
<1>2. CASE \E t \in {"own", "other"} : \E op \in Answers(calls[t]) : Deliver(t, op)
  <2>1. PICK t \in Turns : \E op \in Answers(calls[t]) : Deliver(t, op)
    BY <1>2 DEF Turns
  <2>2. PICK op \in Answers(calls[t]) : Deliver(t, op)
    BY <2>1
  <2> QED  BY <2>2, DeliverKeeps
<1>3. CASE ContextRefusal
  BY <1>3, ContextRefusalKeeps
<1>4. CASE Compacted
  BY <1>4, CompactedKeeps
<1>5. CASE GiveUp
  BY <1>5, GiveUpKeeps
<1>6. CASE Launch
  BY <1>6, LaunchKeeps
<1>7. CASE Handshake
  BY <1>7, HandshakeKeeps
<1>8. CASE Terminate
  BY <1>8, TerminateKeeps
<1>9. CASE StopServer
  BY <1>9, StopServerKeeps
<1>10. CASE Conclude
  BY <1>10, ConcludeKeeps
<1>11. CASE UNCHANGED probeVars
  <2> USE DEF ProbeInv
  <2>1. UNCHANGED <<exercise, phase, verdict, delivered, given, seen, calls, counts, output, markers,
                    evidence, child, server, report, asked, history, ran, recalled>>
    BY <1>11 DEF probeVars
  <2>2. Failing
    BY <2>1 DEF Failing
  <2>3. ProbeTyped' /\ EndFits'
    BY <2>1 DEF ProbeTyped, EndFits
  <2> QED  BY <2>1, <2>2, <2>3, PhaseFrame, DeliveriesFrame, CallsFrame, ToolsFrame, RanFrame,
              PatchFrame, RecallFrame, FinalFrame, ReportFrame
<1> QED  BY <1>1, <1>2, <1>3, <1>4, <1>5, <1>6, <1>7, <1>8, <1>9, <1>10, <1>11 DEF ProbeNext

LEMMA ProbeStart ==
  ASSUME ProbeInit
  PROVE  ProbeInv
<1> USE DEF ProbeInit
<1>1. delivered = << >> /\ ran = << >> /\ seen = NoItems
  OBVIOUS
<1>2. DOMAIN delivered = {} /\ DOMAIN ran = {} /\ Len(delivered) = 0 /\ Len(ran) = 0
      /\ seen.tools = << >> /\ DOMAIN seen.tools = {} /\ seen.compactions = 0
  BY <1>1 DEF NoItems
<1>3. ProbeTyped
  <2>1. seen \in SeenType
    BY <1>1 DEF NoItems, SeenType
  <2>2. calls \in [Turns -> CallType]
    BY DEF NoCall, CallType, Turns
  <2>3. counts \in CountsType
    BY DEF CountsType
  <2>4. report \in [stage : {"starting", "completed", "failed"}, tools : 0..4]
    BY DEF NoReport
  <2>5. /\ exercise \in Exercises /\ phase = "start" /\ verdict = "none"
        /\ given \in [read : BOOLEAN, denied : BOOLEAN, patch : BOOLEAN, tests : Nat]
        /\ output = "none" /\ evidence \in 0..3 /\ child = "none" /\ server = "serving"
        /\ asked \in Nat /\ history = "plain" /\ recalled = "none"
    OBVIOUS
  <2>6. /\ delivered \in Seq([turn : Turns, id : Nat, op : Replies]) /\ markers \in Seq(Answered)
        /\ ran \in Seq(ItemType)
    BY EmptySeq
  <2> QED  BY <2>1, <2>2, <2>3, <2>4, <2>5, <2>6 DEF ProbeTyped
<1>4. EndFits /\ PhaseFits
  BY DEF EndFits, PhaseFits, NoReport
<1>5. DeliveriesFit
  <2>1. Len(Script) >= 0
    BY <1>3, ScriptReplies
  <2> QED  BY <1>2, <2>1 DEF DeliveriesFit
<1>6. CallsFit
  <2>1. \A t \in Turns : calls[t].stage = "idle" /\ calls[t].id = 0
    BY DEF NoCall, Turns
  <2>2. Start = 0
    BY DEF Start
  <2> QED  BY <1>2, <2>1, <2>2 DEF CallsFit, Turns
<1>7. ToolsFit
  <2>1. [i \in {} |-> i] \in [{} -> DOMAIN delivered]
    OBVIOUS
  <2> QED  BY <1>2, <2>1 DEF ToolsFit
<1>8. RanFits
  <2>1. Before = << >>
    BY DEF Before
  <2>2. << >> \o << >> = << >>
    BY EmptySeq, ConcatEmptySeq
  <2> QED  BY <1>1, <1>2, <2>1, <2>2 DEF RanFits
<1>9. PatchFits
  BY <1>2 DEF PatchFits
<1>10. RecallFits
  BY DEF RecallFits, Uncarried
<1>11. FinalFits
  BY DEF FinalFits
<1>12. ReportFits
  BY <1>2 DEF ReportFits, NoReport
<1> QED  BY <1>3, <1>4, <1>5, <1>6, <1>7, <1>8, <1>9, <1>10, <1>11, <1>12 DEF ProbeInv

\* The invariant holds in every state of a qualification.
LEMMA ProbeStays == ProbeSpec => []ProbeInv
<1>1. ProbeInit => ProbeInv
  BY ProbeStart
<1>2. ProbeInv /\ [ProbeNext]_probeVars => ProbeInv'
  BY ProbeStep
<1> QED  BY <1>1, <1>2, PTL DEF ProbeSpec

\* What the report of a qualification claims was done was done: a completed exercise ran
\* exactly its calls, in their order and with their results, and nothing else ran in any
\* turn; a completed checkpoint probe was answered from the checkpoint alone; the calls
\* that are counted did run; and the patch never ran twice, or in a repair before the test
\* had failed.
THEOREM ReportStaysTrue == ProbeSpec => []ReportIsTrue
<1>1. ProbeInv => ReportIsTrue
  <2> SUFFICES ASSUME ProbeInv PROVE ReportIsTrue
    OBVIOUS
  <2> USE DEF ProbeInv
  <2>1. ASSUME report.stage = "completed"
        PROVE  /\ child = "gone"
               /\ exercise # "tool_checkpoint" => ran = Expected
               /\ exercise = "tool_checkpoint" =>
                    ran = <<Own("read", "completed"), Own("patch", "completed"), Own("test", "passed")>>
               /\ Checkpoint => recalled = "checkpoint"
    <3>1. verdict = "ok" /\ child \in {"gone", "escaped"} /\ child # "escaped"
      BY <2>1 DEF EndFits
    <3>2. ran = Wanted
      BY <3>1 DEF FinalFits
    <3> QED  BY <2>1, <3>1, <3>2 DEF Wanted, ReportFits
  <2>2. Len(ran) >= report.tools
    BY DEF ReportFits, ProbeTyped
  <2> QED  BY <2>1, <2>2 DEF ReportIsTrue, PatchFits
<1> QED  BY <1>1, ProbeStays, PTL

=============================================================================
