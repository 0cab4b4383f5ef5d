-------------------------- MODULE CoordinatorProofs --------------------------
(***************************************************************************)
(* The ledger's own guarantees, then turn execution, for any number of     *)
(* workers, requests, sessions, retries, restarts and pages: a recorded    *)
(* outcome is final; the state is well-typed; one request has one sender   *)
(* and the ledger knows of every Send before it is clicked; one turn runs  *)
(* at a time; the records of a turn agree and nothing of it is left open;  *)
(* and it implements the promise of SubmissionOnce.                        *)
(***************************************************************************)
EXTENDS TurnProperties, SequenceTheorems, FiniteSetTheorems, TLAPS

(* The ledger, for any requests, sessions and inputs. *)

\* The table of legal moves: it stays within the states, has no way out of a
\* terminal one, and none from "Submitting" that forgets the submission.
LEMMA SuccessorsFacts ==
  ASSUME NEW s \in TurnState
  PROVE  /\ Successors(s) \subseteq TurnState
         /\ s \in TerminalStates => Successors(s) = {}
         /\ s = "Submitting" => Successors(s) = {"Submitted", "Failed", "SubmissionUncertain"}
  BY DEF TurnState, TerminalStates, Successors

\* What one operation may make of an existing row.
RowStep(old, new) ==
  /\ new \in Row
  /\ new.session = old.session
  /\ new.input = old.input
  /\ old.state \in TerminalStates => new = old
  /\ old.state = "Submitting" => new.state \notin {"Prepared", "ObservedBaseline", "Cancelled"}

\* `transition` and `recover` keep to it.
LEMMA MoveIsRowStep ==
  ASSUME NEW row \in Row, NEW next \in Successors(row.state)
  PROVE  RowStep(row, [row EXCEPT !.state = next])
<1>1. row.state \in TurnState
  BY DEF Row
<1>2. /\ next \in TurnState
      /\ row.state \notin TerminalStates
      /\ row.state = "Submitting" => next \in {"Submitted", "Failed", "SubmissionUncertain"}
  BY <1>1, SuccessorsFacts
<1> QED
  BY <1>2 DEF RowStep, Row

LEMMA RecoveredIsRowStep ==
  ASSUME NEW row \in Row
  PROVE  RowStep(row, Recovered(row))
  BY NoRowAssumption DEF RowStep, Recovered, Row, TurnState, TerminalStates

\* One operation changes each row by a row step and adds only whole rows.
LEMMA LedgerStep ==
  ASSUME LedgerTypeOK, [LedgerNext]_turns
  PROVE  /\ LedgerTypeOK'
         /\ \A r \in Requests : Admitted(r) => RowStep(turns[r], turns'[r])
<1> USE DEF LedgerTypeOK, Admitted
<1>1. CASE UNCHANGED turns
  BY <1>1 DEF RowStep, Row
<1>2. ASSUME NEW r \in Requests, NEW s \in Sessions, NEW i \in Inputs, Admit(r, s, i)
      PROVE  /\ LedgerTypeOK'
             /\ \A q \in Requests : Admitted(q) => RowStep(turns[q], turns'[q])
  <2>1. [session |-> s, input |-> i, state |-> "Prepared"] \in Row
    BY DEF Row, TurnState
  <2> QED
    BY <1>2, <2>1 DEF Admit, RowStep, Row
<1>3. ASSUME NEW r \in Requests, NEW next \in TurnState, Transition(r, next)
      PROVE  /\ LedgerTypeOK'
             /\ \A q \in Requests : Admitted(q) => RowStep(turns[q], turns'[q])
  <2>1. turns[r] \in Row
    BY <1>3 DEF Transition
  <2>2. turns' = [turns EXCEPT ![r] = [turns[r] EXCEPT !.state = next]]
    BY <1>3 DEF Transition
  <2>3. RowStep(turns[r], [turns[r] EXCEPT !.state = next])
    BY <1>3, <2>1, MoveIsRowStep DEF Transition
  <2>4. \A q \in Requests : Admitted(q) => RowStep(turns[q], turns[q])
    BY DEF RowStep, Row
  <2> QED
    BY <2>2, <2>3, <2>4 DEF RowStep
<1>4. CASE Recover
  <2>1. \A q \in Requests : Admitted(q) => RowStep(turns[q], Recovered(turns[q]))
    BY RecoveredIsRowStep
  <2>2. Recovered(NoRow) = NoRow
    BY DEF Recovered
  <2> QED
    BY <1>4, <2>1, <2>2 DEF Recover, RowStep
<1> QED
  BY <1>1, <1>2, <1>3, <1>4 DEF LedgerNext

\* The ledger only ever holds whole rows in known states.
THEOREM LedgerTypeCorrect == LedgerSpec => []LedgerTypeOK
<1>1. LedgerInit => LedgerTypeOK
  BY DEF LedgerInit, LedgerTypeOK
<1>2. LedgerTypeOK /\ [LedgerNext]_turns => LedgerTypeOK'
  BY LedgerStep
<1> QED
  BY <1>1, <1>2, PTL DEF LedgerSpec

\* A recorded outcome is never revised.
THEOREM OutcomesAreFinal == LedgerSpec => OutcomeIsFinal
<1>1. LedgerTypeOK /\ [LedgerNext]_turns
        => [\A r \in Requests : Settled(r) => turns'[r] = turns[r]]_turns
  BY LedgerStep DEF Settled, RowStep
<1> QED
  BY <1>1, LedgerTypeCorrect, PTL DEF LedgerSpec, OutcomeIsFinal

\* A row is never deleted and never bound to another session or input.
THEOREM BindingsAreFixed == LedgerSpec => BindingIsFixed
<1>1. LedgerTypeOK /\ [LedgerNext]_turns
        => [\A r \in Requests : Admitted(r) =>
              /\ Admitted(r)'
              /\ turns'[r].session = turns[r].session
              /\ turns'[r].input = turns[r].input]_turns
  BY LedgerStep, NoRowAssumption DEF Admitted, RowStep
<1> QED
  BY <1>1, LedgerTypeCorrect, PTL DEF LedgerSpec, BindingIsFixed

\* An unacknowledged submission is never recorded as unsent.
THEOREM SubmissionsAreNotForgotten == LedgerSpec => NeverTreatedAsUnsent
<1>1. LedgerTypeOK /\ [LedgerNext]_turns
        => [\A r \in Requests : (Admitted(r) /\ turns[r].state = "Submitting")
              => turns'[r].state \notin {"Prepared", "ObservedBaseline", "Cancelled"}]_turns
  BY LedgerStep DEF RowStep
<1> QED
  BY <1>1, LedgerTypeCorrect, PTL DEF LedgerSpec, NeverTreatedAsUnsent
-----------------------------------------------------------------------------
(* The workers, the drivers and the ledger together. *)

\* Where a list of ledger writes may lead.
Targets == {"gate", "submit", "observe", "verify", "stop", "release", "finish"}

\* The types, strengthened by what keeps them: a worker that writes has
\* something to write, and one that starts another attempt has one left.
Control ==
  /\ pc \in [Workers -> Pcs]
  /\ plan \in [Workers -> Seq(TurnState)]
  /\ after \in [Workers -> Targets \cup {"idle"}]
  /\ retries \in [Workers -> 0..MaxRetries]
  /\ \A w \in Workers : /\ pc[w] = "write" => plan[w] # <<>> /\ after[w] # "idle"
                        /\ pc[w] = "readmit" => retries[w] < MaxRetries

Tracking ==
  /\ result \in [Workers -> Results]
  /\ tracker \in [Workers -> TurnState]
  /\ synced \in [Workers -> TurnState]
  /\ cancelled \in [Workers -> BOOLEAN]
  /\ evidence \in [Handles -> Evidence]

Shared ==
  /\ owner \in [Requests -> Workers \cup {NoWorker}]
  /\ holder \in Workers \cup {NoWorker}
  /\ replay \in Seq(Requests)
  /\ restarts \in Nat

TypeInv == LedgerTypeOK /\ DriverTypeOK /\ Control /\ Tracking /\ Shared

LEMMA TypeInvIsTyped == TypeInv => TypeOK
  BY DEF TypeInv, TypeOK, Control, Tracking, Shared, Targets, Pcs

LEMMA Initially == Init => TypeInv
<1> SUFFICES ASSUME Init PROVE TypeInv
  OBVIOUS
<1>1. LedgerTypeOK
  BY DEF Init, LedgerInit, LedgerTypeOK
<1>2. DriverTypeOK
  BY DEF Init, DriverInit, DriverTypeOK, PageState, SendState, Replies
<1>3. Control
  BY DriverAssumption DEF Init, Control, Pcs, Targets
<1>4. Tracking /\ Shared
  BY DEF Init, Tracking, Shared, Results, TurnState, Evidence
<1> QED
  BY <1>1, <1>2, <1>3, <1>4 DEF TypeInv
-----------------------------------------------------------------------------
(* The building blocks of the actions keep the types. *)

LEMMA GotoKeeps ==
  ASSUME Control, NEW w \in Workers, NEW p \in Pcs \ {"write", "readmit"},
         Goto(w, p), UNCHANGED retries
  PROVE  Control'
  BY DEF Control, Goto

LEMMA WriteKeeps ==
  ASSUME Control, NEW w \in Workers, NEW p \in Targets, NEW states \in Seq(TurnState),
         Write(w, states, p), UNCHANGED retries
  PROVE  Control'
  BY DEF Control, Write, Targets, Pcs

LEMMA LeaveKeeps ==
  ASSUME Control, NEW w \in Workers, NEW p \in Targets, Leave(w, p), UNCHANGED retries
  PROVE  Control'
  BY DEF Control, Leave, Targets, Pcs

LEMMA PageOfIsHandle ==
  ASSUME Control, NEW w \in Workers
  PROVE  PageOf(w) \in Handles /\ Owner(PageOf(w)) = w
  BY DEF Control, PageOf, Handles, Attempts, Owner

LEMMA RequestKeeps ==
  ASSUME DriverTypeOK, NEW op \in Ops, NEW h \in Handles, Request(op, h)
  PROVE  DriverTypeOK'
<1>1. [op |-> op, handle |-> h, open |-> TRUE] \in Command
  BY DEF Command
<1>2. queue' \in Seq(Command)
  BY <1>1 DEF Request, DriverTypeOK
<1> QED
  BY <1>2 DEF Request, DriverTypeOK

LEMMA ReceiveKeeps ==
  ASSUME DriverTypeOK, NEW w \in Workers, Receive(w)
  PROVE  DriverTypeOK'
  BY DEF Receive, DriverTypeOK, Replies

LEMMA HangupKeeps ==
  ASSUME DriverTypeOK, NEW w \in Workers, NEW lost, lost \subseteq Handles, Hangup(w, lost)
  PROVE  DriverTypeOK'
<1>1. ASSUME NEW c \in Command \cup {Idle} PROVE Hush(w, c) \in Command \cup {Idle}
  BY <1>1 DEF Hush, Command
<1>2. ASSUME NEW c \in Command PROVE Hush(w, c) \in Command
  BY <1>2 DEF Hush, Command
<1>3. queue' \in Seq(Command)
  BY <1>2 DEF Hangup, DriverTypeOK
<1>4. current' \in Command \cup {Idle}
  BY <1>1 DEF Hangup, DriverTypeOK
<1> QED
  BY <1>3, <1>4 DEF Hangup, DriverTypeOK, Replies

LEMMA AnswerKeeps ==
  ASSUME DriverTypeOK, current # Idle, NEW v \in Replies, Answer(v)
  PROVE  current' \in Command \cup {Idle} /\ reply' \in [Workers -> Replies]
  BY DEF DriverTypeOK, Answer, Command, Handles, Owner

LEMMA DriverStepKeeps ==
  ASSUME DriverTypeOK, DriverStep
  PROVE  DriverTypeOK'
<1>1. CASE Take
  <2>1. Head(queue) \in Command /\ Tail(queue) \in Seq(Command)
    BY <1>1 DEF Take, DriverTypeOK
  <2> QED
    BY <1>1, <2>1 DEF Take, DriverTypeOK
<1> DEFINE Executed == current # Idle /\ \E v \in Replies : Answer(v)
<1>2. ASSUME Executed
      PROVE  current' \in Command \cup {Idle} /\ reply' \in [Workers -> Replies]
  BY <1>2, AnswerKeeps
<1>3. ASSUME NEW closed \in SUBSET Handles, NEW end \in PageState
      PROVE  /\ Reclaim(closed) \in [Handles -> PageState]
             /\ [Reclaim(closed) EXCEPT ![current.handle] = end] \in [Handles -> PageState]
  BY DEF DriverTypeOK, Reclaim, PageState
<1>4. Orphaned \subseteq Handles /\ {"closed", "orphaned", "leased"} \subseteq PageState
  BY DEF Orphaned, PageState
<1>5. CASE PrepareRefused
  <2>1. Executed /\ page' \in [Handles -> PageState]
    BY <1>3, <1>4, <1>5 DEF PrepareRefused, Executing, Replies
  <2> QED
    BY <1>2, <1>5, <2>1 DEF PrepareRefused, DriverTypeOK
<1>6. CASE PrepareRejected
  <2>1. Executed /\ page' \in [Handles -> PageState]
    BY <1>3, <1>4, <1>6 DEF PrepareRejected, Executing, Replies
  <2> QED
    BY <1>2, <1>6, <2>1 DEF PrepareRejected, DriverTypeOK
<1>7. CASE PrepareSucceeds
  <2>1. Executed /\ page' \in [Handles -> PageState]
    BY <1>3, <1>4, <1>7 DEF PrepareSucceeds, Executing, Replies
  <2> QED
    BY <1>2, <1>7, <2>1 DEF PrepareSucceeds, DriverTypeOK
<1>8. CASE SubmitFails
  <2>1. Executed /\ send' \in [Handles -> SendState]
    BY <1>8 DEF SubmitFails, Executing, Replies, DriverTypeOK, SendState
  <2> QED
    BY <1>2, <1>8, <2>1 DEF SubmitFails, DriverTypeOK
<1>9. CASE PressSend
  <2>1. current \in Command
    BY <1>9 DEF PressSend, Executing, DriverTypeOK
  <2>2. [current EXCEPT !.op = "Clicked"] \in Command
    BY <2>1 DEF Command
  <2> QED
    BY <1>9, <2>2 DEF PressSend, DriverTypeOK, SendState
<1>10. CASE SubmitReturns
  <2>1. Executed
    BY <1>10 DEF SubmitReturns, Executing, Replies
  <2> QED
    BY <1>2, <1>10, <2>1 DEF SubmitReturns, DriverTypeOK
<1>11. CASE Observe \/ VerifyCompletion \/ Stop
  <2>1. Executed
    BY <1>11 DEF Observe, VerifyCompletion, Stop, Executing, Replies
  <2> QED
    BY <1>2, <1>11, <2>1 DEF Observe, VerifyCompletion, Stop, DriverTypeOK
<1>12. CASE Release
  <2>1. Executed /\ page' \in [Handles -> PageState]
    BY <1>12 DEF Release, Executing, Replies, DriverTypeOK, PageState
  <2> QED
    BY <1>2, <1>12, <2>1 DEF Release, DriverTypeOK
<1>13. CASE ReleaseFails
  <2>1. Executed /\ current.handle \in Handles
    BY <1>13 DEF ReleaseFails, Executing, Replies, DriverTypeOK, Command
  <2> QED
    BY <1>2, <1>13, <2>1 DEF ReleaseFails, DriverTypeOK
<1> QED
  BY <1>1, <1>5, <1>6, <1>7, <1>8, <1>9, <1>10, <1>11, <1>12, <1>13 DEF DriverStep

\* The tracker and the states it catches up with stay within the table.
LEMMA TrackIsState ==
  ASSUME NEW t \in TurnState, NEW seen \in Observations
  PROVE  /\ Track(t, seen) \in TurnState
         /\ AfterCancel(t) \in TurnState
         /\ AfterFail(t) \in TurnState
  BY DEF Track, AfterCancel, AfterFail, TurnState, Observations

LEMMA CatchUpIsPlan ==
  ASSUME NEW have, NEW t
  PROVE  CatchUp(have, t) \in Seq(TurnState)
<1> DEFINE first == IF have = "Submitting" /\ t # "Submitting" THEN <<"Submitted">> ELSE <<>>
           second == IF have \in {"Submitting", "Submitted"} /\ t \in {"Generating", "Completed"}
                     THEN <<"Generating">> ELSE <<>>
<1>1. /\ <<>> \in Seq(TurnState)
      /\ <<"Submitted">> \in Seq(TurnState)
      /\ <<"Generating">> \in Seq(TurnState)
  <2>1. "Submitted" \in TurnState /\ "Generating" \in TurnState
    BY DEF TurnState
  <2> QED
    BY <2>1
<1>2. first \in Seq(TurnState) /\ second \in Seq(TurnState)
  BY <1>1, Zenon
<1>3. first \o second \in Seq(TurnState)
  <2> HIDE DEF first, second
  <2> QED
    BY <1>2
<1> QED
  BY <1>3 DEF CatchUp

LEMMA ProvesIsEvidence ==
  ASSUME NEW old \in Evidence, NEW t, NEW seen
  PROVE  Proves(old, t, seen) \in Evidence
  BY DEF Proves, Evidence
-----------------------------------------------------------------------------
(* Every action keeps the types. *)

\* What an action may do beside moving its worker's program counter.
LEMMA QuietDriver ==
  ASSUME DriverTypeOK, UNCHANGED driverVars
  PROVE  DriverTypeOK'
  BY DEF driverVars, DriverTypeOK

LEMMA QuietShared ==
  ASSUME Shared, UNCHANGED sharedVars
  PROVE  Shared'
  BY DEF sharedVars, Shared

LEMMA QuietTracking ==
  ASSUME Tracking, NEW w \in Workers, KeepTracking,
         \/ UNCHANGED result
         \/ \E code \in Results : Returning(w, code)
  PROVE  Tracking' /\ UNCHANGED retries
  BY DEF Tracking, KeepTracking, Returning

LEMMA OneStatePlan ==
  ASSUME NEW s \in TurnState
  PROVE  <<s>> \in Seq(TurnState) /\ <<>> \in Seq(TurnState)
  OBVIOUS

LEMMA StartKeeps ==
  ASSUME TypeInv, NEW w \in Workers,
         \/ Execute(w) \/ Cancel(w) \/ Acquire(w) \/ Refused(w)
         \/ AdmitNew(w) \/ AdmitDuplicate(w) \/ AdmitFails(w)
  PROVE  TypeInv'
<1> USE DEF TypeInv
<1>1. CASE Execute(w)
  <2>1. Tracking' /\ UNCHANGED retries
    BY <1>1, QuietTracking DEF Execute
  <2>2. Control'
    BY <1>1, <2>1, GotoKeeps DEF Execute, Pcs
  <2> QED
    BY <1>1, <2>1, <2>2, QuietDriver, QuietShared DEF Execute, LedgerTypeOK
<1>2. CASE Cancel(w)
  <2>1. Tracking' /\ Control'
    BY <1>2 DEF Cancel, Tracking, Control
  <2> QED
    BY <1>2, <2>1, QuietDriver, QuietShared DEF Cancel, LedgerTypeOK
<1>3. CASE Acquire(w)
  <2>1. Tracking' /\ UNCHANGED retries
    BY <1>3, QuietTracking DEF Acquire
  <2>2. Control'
    BY <1>3, <2>1, GotoKeeps DEF Acquire, Pcs
  <2>3. Shared'
    BY <1>3 DEF Acquire, Shared
  <2> QED
    BY <1>3, <2>1, <2>2, <2>3, QuietDriver DEF Acquire, LedgerTypeOK
<1>4. CASE Refused(w)
  <2>1. Tracking' /\ UNCHANGED retries
    BY <1>4, QuietTracking DEF Refused, Results
  <2>2. Control'
    BY <1>4, <2>1, GotoKeeps DEF Refused, Pcs
  <2> QED
    BY <1>4, <2>1, <2>2, QuietDriver, QuietShared DEF Refused, LedgerTypeOK
<1>5. CASE AdmitNew(w)
  <2>1. Tracking' /\ UNCHANGED retries
    BY <1>5, QuietTracking DEF AdmitNew
  <2>2. Control'
    BY <1>5, <2>1, GotoKeeps DEF AdmitNew, Pcs
  <2>3. Shared'
    BY <1>5, CoordinatorAssumption DEF AdmitNew, Shared
  <2>4. LedgerTypeOK'
    BY <1>5, CoordinatorAssumption DEF AdmitNew, Admit, LedgerTypeOK, Row, TurnState
  <2> QED
    BY <1>5, <2>1, <2>2, <2>3, <2>4, QuietDriver DEF AdmitNew, driverVars
<1>6. CASE AdmitDuplicate(w)
  <2>1. Tracking' /\ UNCHANGED retries
    BY <1>6, QuietTracking DEF AdmitDuplicate, DuplicateResult, Results
  <2>2. Control'
    BY <1>6, <2>1, GotoKeeps DEF AdmitDuplicate, Pcs
  <2> QED
    BY <1>6, <2>1, <2>2, QuietDriver, QuietShared DEF AdmitDuplicate, LedgerTypeOK
<1>7. CASE AdmitFails(w)
  <2>1. Tracking' /\ UNCHANGED retries
    BY <1>7, QuietTracking DEF AdmitFails, Results
  <2>2. Control'
    BY <1>7, <2>1, GotoKeeps DEF AdmitFails, Pcs
  <2> QED
    BY <1>7, <2>1, <2>2, QuietDriver, QuietShared DEF AdmitFails, LedgerTypeOK
<1> QED
  BY <1>1, <1>2, <1>3, <1>4, <1>5, <1>6, <1>7

LEMMA WritesKeep ==
  ASSUME TypeInv, NEW w \in Workers, WriteTurn(w) \/ WriteFails(w)
  PROVE  TypeInv'
<1> USE DEF TypeInv
<1>1. CASE WriteTurn(w)
  <2>1. Tracking' /\ UNCHANGED retries
    BY <1>1, QuietTracking DEF WriteTurn
  <2>2. Control'
    <3>1. CASE Len(plan[w]) = 1
      BY <1>1, <2>1, <3>1, LeaveKeeps DEF WriteTurn, Control
    <3>2. CASE Len(plan[w]) # 1
      <4>1. plan[w] \in Seq(TurnState) /\ plan[w] # <<>>
        BY <1>1 DEF WriteTurn, Control
      <4>2. /\ Tail(plan[w]) \in Seq(TurnState)
            /\ Len(Tail(plan[w])) = Len(plan[w]) - 1
        BY <4>1
      <4>3. Len(plan[w]) \in Nat /\ (Tail(plan[w]) = <<>> => Len(Tail(plan[w])) = 0)
        BY <4>1, EmptySeq
      <4>4. Tail(plan[w]) # <<>>
        BY <3>2, <4>2, <4>3
      <4> QED
        BY <1>1, <2>1, <3>2, <4>2, <4>4 DEF WriteTurn, Control
    <3> QED
      BY <3>1, <3>2
  <2>3. LedgerTypeOK'
    <3>1. turns[Req[w]] \in Row
      BY <1>1, CoordinatorAssumption DEF WriteTurn, Transition, Admitted, LedgerTypeOK
    <3>2. Head(plan[w]) \in TurnState
      BY <1>1, <3>1, SuccessorsFacts DEF WriteTurn, Transition, Row
    <3> QED
      BY <1>1, <3>1, <3>2 DEF WriteTurn, Transition, LedgerTypeOK, Row
  <2> QED
    BY <1>1, <2>1, <2>2, <2>3, QuietDriver, QuietShared DEF WriteTurn
<1>2. CASE WriteFails(w)
  <2>1. Tracking' /\ UNCHANGED retries
    BY <1>2, QuietTracking DEF WriteFails, Results
  <2>2. Control'
    BY <1>2, <2>1, LeaveKeeps DEF WriteFails, ErrorExit, Targets
  <2> QED
    BY <1>2, <2>1, <2>2, QuietDriver, QuietShared DEF WriteFails, LedgerTypeOK
<1> QED
  BY <1>1, <1>2

\* A call is queued, its reply received, or its receiver dropped.
LEMMA AskKeeps ==
  ASSUME TypeInv, NEW w \in Workers, NEW from, NEW op \in Ops,
         NEW to \in Pcs \ {"write", "readmit"}, Ask(w, from, op, to), UNCHANGED retries
  PROVE  LedgerTypeOK' /\ DriverTypeOK' /\ Control' /\ Shared'
<1> USE DEF TypeInv
<1>1. DriverTypeOK'
  BY PageOfIsHandle, RequestKeeps DEF Ask
<1>2. Control'
  BY GotoKeeps DEF Ask
<1> QED
  BY <1>1, <1>2, QuietShared DEF Ask, LedgerTypeOK

LEMMA ToldKeeps ==
  ASSUME TypeInv, NEW w \in Workers, NEW at, NEW v, Told(w, at, v)
  PROVE  DriverTypeOK'
  BY ReceiveKeeps DEF TypeInv, Told

LEMMA UntoldKeeps ==
  ASSUME TypeInv, NEW w \in Workers, NEW from, NEW at, Untold(w, from, at)
  PROVE  DriverTypeOK'
<1>1. (IF reply[w] = "prepared" THEN {PageOf(w)} ELSE {}) \subseteq Handles
  BY PageOfIsHandle DEF TypeInv
<1> QED
  BY <1>1, HangupKeeps DEF TypeInv, Untold

LEMMA PrepareKeeps ==
  ASSUME TypeInv, NEW w \in Workers,
         \/ AskPrepare(w) \/ PrepareAnswered(w) \/ PrepareUnanswered(w)
         \/ RejectPage(w) \/ AcceptPage(w) \/ GateCloses(w) \/ GateOpens(w)
  PROVE  TypeInv'
<1> USE DEF TypeInv
<1>0. /\ \A s \in TurnState : <<s>> \in Seq(TurnState)
      /\ <<>> \in Seq(TurnState)
      /\ {"Failed", "Cancelled", "ObservedBaseline", "Submitting"} \subseteq TurnState
  BY OneStatePlan DEF TurnState
<1>1. CASE AskPrepare(w)
  <2>1. Tracking' /\ UNCHANGED retries
    BY <1>1, QuietTracking DEF AskPrepare, Ask
  <2> QED
    BY <1>1, <2>1, AskKeeps DEF AskPrepare, Ops, Pcs
<1>2. CASE PrepareAnswered(w)
  <2>1. Tracking' /\ UNCHANGED retries
    BY <1>2, QuietTracking DEF PrepareAnswered
  <2>2. Control'
    BY <1>2, <2>1, GotoKeeps DEF PrepareAnswered, Pcs
  <2> QED
    BY <1>2, <2>1, <2>2, ToldKeeps, QuietShared DEF PrepareAnswered, LedgerTypeOK
<1>3. CASE PrepareUnanswered(w)
  <2>1. Tracking' /\ UNCHANGED retries
    BY <1>3, QuietTracking DEF PrepareUnanswered, Results
  <2>2. Control'
    BY <1>0, <1>3, <2>1, WriteKeeps DEF PrepareUnanswered, Targets
  <2> QED
    BY <1>3, <2>1, <2>2, UntoldKeeps, QuietShared DEF PrepareUnanswered, LedgerTypeOK
<1>4. CASE RejectPage(w)
  <2>1. Tracking' /\ UNCHANGED retries
    BY <1>4, QuietTracking DEF RejectPage, Results
  <2>2. Control'
    BY <1>0, <1>4, <2>1, WriteKeeps DEF RejectPage, Targets
  <2> QED
    BY <1>4, <2>1, <2>2, QuietDriver, QuietShared DEF RejectPage, LedgerTypeOK
<1>5. CASE AcceptPage(w)
  <2>1. Tracking' /\ UNCHANGED retries
    BY <1>0, <1>5 DEF AcceptPage, Tracking
  <2>2. Control'
    BY <1>0, <1>5, <2>1, WriteKeeps DEF AcceptPage, Targets
  <2> QED
    BY <1>5, <2>1, <2>2, QuietDriver, QuietShared DEF AcceptPage, LedgerTypeOK
<1>6. CASE GateCloses(w)
  <2>1. Tracking' /\ UNCHANGED retries
    BY <1>6, QuietTracking DEF GateCloses, Results
  <2>2. Control'
    BY <1>0, <1>6, <2>1, WriteKeeps DEF GateCloses, Targets
  <2> QED
    BY <1>6, <2>1, <2>2, QuietDriver, QuietShared DEF GateCloses, LedgerTypeOK
<1>7. CASE GateOpens(w)
  <2>1. Tracking' /\ UNCHANGED retries
    BY <1>7, QuietTracking DEF GateOpens
  <2>2. Control'
    BY <1>0, <1>7, <2>1, WriteKeeps DEF GateOpens, Targets
  <2> QED
    BY <1>7, <2>1, <2>2, QuietDriver, QuietShared DEF GateOpens, LedgerTypeOK
<1> QED
  BY <1>1, <1>2, <1>3, <1>4, <1>5, <1>6, <1>7

LEMMA SubmitKeeps ==
  ASSUME TypeInv, NEW w \in Workers,
         AskSubmit(w) \/ SubmitAnswered(w) \/ SubmitUnanswered(w)
  PROVE  TypeInv'
<1> USE DEF TypeInv
<1>1. CASE AskSubmit(w)
  <2>1. Tracking' /\ UNCHANGED retries
    BY <1>1 DEF AskSubmit, Ask, Tracking, TurnState
  <2> QED
    BY <1>1, <2>1, AskKeeps DEF AskSubmit, Ops, Pcs
<1>2. CASE SubmitAnswered(w)
  <2>1. Tracking' /\ UNCHANGED retries
    BY <1>2 DEF SubmitAnswered, Tracking, TurnState
  <2>2. Control'
    BY <1>2, <2>1, GotoKeeps DEF SubmitAnswered, Pcs
  <2> QED
    BY <1>2, <2>1, <2>2, ToldKeeps, QuietShared DEF SubmitAnswered, LedgerTypeOK
<1>3. CASE SubmitUnanswered(w)
  <2>1. Tracking' /\ UNCHANGED retries
    BY <1>3 DEF SubmitUnanswered, Returning, Tracking, Results, TurnState
  <2>2. <<"SubmissionUncertain">> \in Seq(TurnState)
    BY OneStatePlan DEF TurnState
  <2>3. Control'
    BY <1>3, <2>1, <2>2, WriteKeeps DEF SubmitUnanswered, Targets
  <2> QED
    BY <1>3, <2>1, <2>3, UntoldKeeps, QuietShared DEF SubmitUnanswered, LedgerTypeOK
<1> QED
  BY <1>1, <1>2, <1>3

LEMMA ObserveKeeps ==
  ASSUME TypeInv, NEW w \in Workers,
         \/ AskObserve(w) \/ ObserveCancelled(w) \/ ObserveSlow(w) \/ ObserveFails(w)
         \/ ObserveRejects(w) \/ ObserveAccepts(w)
  PROVE  TypeInv'
<1> USE DEF TypeInv
<1>0. tracker[w] \in TurnState /\ PageOf(w) \in Handles
  BY PageOfIsHandle DEF Tracking
<1>1. CASE AskObserve(w)
  <2>1. Tracking' /\ UNCHANGED retries
    BY <1>1, QuietTracking DEF AskObserve, Ask
  <2> QED
    BY <1>1, <2>1, AskKeeps DEF AskObserve, Ops, Pcs
<1>2. CASE ObserveCancelled(w)
  <2>1. AfterCancel(tracker[w]) \in TurnState
    BY <1>0, TrackIsState DEF Observations
  <2>2. Tracking' /\ UNCHANGED retries
    BY <1>2, <2>1 DEF ObserveCancelled, Returning, Tracking, Results
  <2>3. Control'
    BY <1>2, <2>1, <2>2, OneStatePlan, WriteKeeps DEF ObserveCancelled, Targets
  <2>4. DriverTypeOK'
    BY <1>2, HangupKeeps DEF ObserveCancelled
  <2> QED
    BY <1>2, <2>2, <2>3, <2>4, QuietShared DEF ObserveCancelled, LedgerTypeOK
<1>3. CASE ObserveSlow(w)
  <2>1. Tracking' /\ UNCHANGED retries
    BY <1>3, QuietTracking DEF ObserveSlow
  <2>2. Control'
    BY <1>3, <2>1, GotoKeeps DEF ObserveSlow, Pcs
  <2> QED
    BY <1>3, <2>1, <2>2, ToldKeeps, QuietShared DEF ObserveSlow, LedgerTypeOK
<1>4. CASE ObserveFails(w)
  <2>1. AfterFail(tracker[w]) \in TurnState
    BY <1>0, TrackIsState DEF Observations
  <2>2. Tracking' /\ UNCHANGED retries
    BY <1>4, <2>1 DEF ObserveFails, Returning, Tracking, Results
  <2>3. Control'
    BY <1>4, <2>1, <2>2, OneStatePlan, WriteKeeps DEF ObserveFails, Targets
  <2>4. DriverTypeOK'
    BY <1>4, HangupKeeps DEF ObserveFails
  <2> QED
    BY <1>4, <2>2, <2>3, <2>4, QuietShared DEF ObserveFails, LedgerTypeOK
<1>5. CASE ObserveRejects(w)
  <2> DEFINE T(seen) == Track(tracker[w], seen)
             First(seen) == IF synced[w] = "Submitting" /\ T(seen) = "Failed"
                            THEN <<"Submitted">> ELSE <<>>
  <2>1. PICK seen \in Observations :
          /\ Told(w, "observing", seen)
          /\ tracker' = [tracker EXCEPT ![w] = T(seen)]
          /\ evidence' = [evidence EXCEPT ![PageOf(w)] = Proves(@, T(seen), seen)]
          /\ \/ Write(w, First(seen), "release")
             \/ Write(w, Append(First(seen), T(seen)), "stop")
          /\ \E code \in Results : Returning(w, code)
    BY <1>5 DEF ObserveRejects, Results
  <2>2. T(seen) \in TurnState
    BY <1>0, TrackIsState
  <2>3. First(seen) \in Seq(TurnState)
    BY OneStatePlan DEF TurnState
  <2> HIDE DEF T, First
  <2>4. Append(First(seen), T(seen)) \in Seq(TurnState)
    BY <2>2, <2>3
  <2>5. evidence' \in [Handles -> Evidence]
    BY <1>0, <2>1, ProvesIsEvidence DEF Tracking
  <2>6. Tracking' /\ UNCHANGED retries
    BY <1>5, <2>1, <2>2, <2>5 DEF ObserveRejects, Returning, Tracking
  <2>7. Control'
    BY <2>1, <2>3, <2>4, <2>6, WriteKeeps DEF Targets
  <2> QED
    BY <1>5, <2>1, <2>6, <2>7, ToldKeeps, QuietShared DEF ObserveRejects, LedgerTypeOK
<1>6. CASE ObserveAccepts(w)
  <2> DEFINE T(seen) == Track(tracker[w], seen)
             Writes(seen) == CatchUp(synced[w], T(seen))
  <2>1. PICK seen \in Observations :
          /\ Told(w, "observing", seen)
          /\ tracker' = [tracker EXCEPT ![w] = T(seen)]
          /\ evidence' = [evidence EXCEPT ![PageOf(w)] = Proves(@, T(seen), seen)]
          /\ synced' = [synced EXCEPT ![w] =
               IF Writes(seen) = <<>> THEN @ ELSE Writes(seen)[Len(Writes(seen))]]
          /\ \E p \in {"verify", "observe"} : Write(w, Writes(seen), p)
    BY <1>6 DEF ObserveAccepts
  <2>2. T(seen) \in TurnState
    BY <1>0, TrackIsState
  <2>3. Writes(seen) \in Seq(TurnState)
    BY CatchUpIsPlan
  <2> HIDE DEF T, Writes
  <2>4. Writes(seen) # <<>> => Writes(seen)[Len(Writes(seen))] \in TurnState
    BY <2>3, EmptySeq, ElementOfSeq
  <2>5. evidence' \in [Handles -> Evidence]
    BY <1>0, <2>1, ProvesIsEvidence DEF Tracking
  <2>6. Tracking' /\ UNCHANGED retries
    BY <1>6, <2>1, <2>2, <2>4, <2>5 DEF ObserveAccepts, Tracking
  <2>7. Control'
    BY <2>1, <2>3, <2>6, WriteKeeps DEF Targets
  <2> QED
    BY <1>6, <2>1, <2>6, <2>7, ToldKeeps, QuietShared DEF ObserveAccepts, LedgerTypeOK
<1> QED
  BY <1>1, <1>2, <1>3, <1>4, <1>5, <1>6

LEMMA VerifyKeeps ==
  ASSUME TypeInv, NEW w \in Workers,
         AskVerify(w) \/ Publish(w) \/ Complete(w) \/ VerifyUnanswered(w)
  PROVE  TypeInv'
<1> USE DEF TypeInv
<1>0. /\ \A s \in TurnState : <<s>> \in Seq(TurnState)
      /\ {"Failed", "Cancelled", "Completed"} \subseteq TurnState
  BY OneStatePlan DEF TurnState
<1>1. CASE AskVerify(w)
  <2>1. Tracking' /\ UNCHANGED retries
    BY <1>1, QuietTracking DEF AskVerify, Ask
  <2> QED
    BY <1>1, <2>1, AskKeeps DEF AskVerify, Ops, Pcs
<1>2. CASE Publish(w)
  <2>1. Tracking' /\ UNCHANGED retries
    BY <1>2, QuietTracking DEF Publish, Results
  <2>2. Control'
    BY <1>0, <1>2, <2>1, GotoKeeps, WriteKeeps DEF Publish, Pcs, Targets
  <2> QED
    BY <1>2, <2>1, <2>2, ToldKeeps, QuietShared DEF Publish, LedgerTypeOK
<1>3. CASE Complete(w)
  <2>1. Tracking' /\ UNCHANGED retries
    BY <1>3, QuietTracking DEF Complete, Results
  <2>2. Control'
    BY <1>0, <1>3, <2>1, WriteKeeps DEF Complete, Targets
  <2> QED
    BY <1>3, <2>1, <2>2, ToldKeeps, QuietShared DEF Complete, LedgerTypeOK
<1>4. CASE VerifyUnanswered(w)
  <2>1. PICK outcome \in TurnState, p \in {"release", "stop"} :
          Write(w, <<outcome>>, p) /\ \E code \in Results : Returning(w, code)
    BY <1>0, <1>4 DEF VerifyUnanswered, Results
  <2>2. Tracking' /\ UNCHANGED retries
    BY <1>4, <2>1, QuietTracking DEF VerifyUnanswered
  <2>3. Control'
    BY <1>0, <2>1, <2>2, WriteKeeps DEF Targets
  <2> QED
    BY <1>4, <2>2, <2>3, UntoldKeeps, QuietShared DEF VerifyUnanswered, LedgerTypeOK
<1> QED
  BY <1>1, <1>2, <1>3, <1>4

LEMMA ReleaseKeeps ==
  ASSUME TypeInv, NEW w \in Workers,
         AskStop(w) \/ StopEnds(w) \/ AskRelease(w) \/ Released(w) \/ NotReleased(w)
  PROVE  TypeInv'
<1> USE DEF TypeInv
<1>1. CASE AskStop(w)
  <2>1. Tracking' /\ UNCHANGED retries
    BY <1>1, QuietTracking DEF AskStop, Ask
  <2> QED
    BY <1>1, <2>1, AskKeeps DEF AskStop, Ops, Pcs
<1>2. CASE StopEnds(w)
  <2>1. Tracking' /\ UNCHANGED retries
    BY <1>2, QuietTracking DEF StopEnds
  <2>2. Control'
    BY <1>2, <2>1, GotoKeeps DEF StopEnds, Pcs
  <2> QED
    BY <1>2, <2>1, <2>2, UntoldKeeps, QuietShared DEF StopEnds, LedgerTypeOK
<1>3. CASE AskRelease(w)
  <2>1. Tracking' /\ UNCHANGED retries
    BY <1>3, QuietTracking DEF AskRelease, Ask
  <2> QED
    BY <1>3, <2>1, AskKeeps DEF AskRelease, Ops, Pcs
<1>4. CASE Released(w)
  <2>1. Tracking' /\ UNCHANGED retries
    BY <1>4, QuietTracking DEF Released
  <2>2. Control'
    <3>1. CASE Retries(w)
      BY <1>4, <2>1, <3>1 DEF Released, Goto, Retries, Control, Pcs
    <3>2. CASE ~Retries(w)
      BY <1>4, <2>1, <3>2, GotoKeeps DEF Released, Pcs
    <3> QED
      BY <3>1, <3>2
  <2> QED
    BY <1>4, <2>1, <2>2, ToldKeeps, QuietShared DEF Released, LedgerTypeOK
<1>5. CASE NotReleased(w)
  <2>1. Tracking' /\ UNCHANGED retries
    BY <1>5, QuietTracking DEF NotReleased, Results
  <2>2. <<"Failed">> \in Seq(TurnState)
    BY OneStatePlan DEF TurnState
  <2>3. Control'
    BY <1>5, <2>1, <2>2, GotoKeeps, WriteKeeps DEF NotReleased, Pcs, Targets
  <2>4. (IF pc[w] = "release" THEN {PageOf(w)} ELSE {}) \subseteq Handles
    BY PageOfIsHandle
  <2>5. DriverTypeOK'
    BY <1>5, <2>4, HangupKeeps DEF NotReleased
  <2> QED
    BY <1>5, <2>1, <2>3, <2>5, QuietShared DEF NotReleased, LedgerTypeOK
<1> QED
  BY <1>1, <1>2, <1>3, <1>4, <1>5

LEMMA RetryKeeps ==
  ASSUME TypeInv, NEW w \in Workers, Readmit(w) \/ BackoffEnds(w) \/ BackoffCancelled(w)
  PROVE  TypeInv'
<1> USE DEF TypeInv
<1>0. <<"Cancelled">> \in Seq(TurnState)
  BY OneStatePlan DEF TurnState
<1>1. CASE Readmit(w)
  <2> DEFINE state == turns[Req[w]].state
  <2>1. CASE UNCHANGED <<synced, retries>>
    <3>1. Tracking'
      BY <1>1, <2>1 DEF Readmit, Returning, Tracking, Results
    <3>2. CASE Goto(w, "finish")
      BY <1>1, <2>1, <3>1, <3>2, GotoKeeps, QuietDriver, QuietShared
         DEF Readmit, Pcs, LedgerTypeOK
    <3>3. CASE Write(w, <<"Cancelled">>, "finish")
      BY <1>0, <1>1, <2>1, <3>1, <3>3, WriteKeeps, QuietDriver, QuietShared
         DEF Readmit, Targets, LedgerTypeOK
    <3>4. CASE Goto(w, "backoff")
      BY <1>1, <2>1, <3>1, <3>4, GotoKeeps, QuietDriver, QuietShared
         DEF Readmit, Pcs, LedgerTypeOK
    <3> QED
      BY <1>1, <3>2, <3>3, <3>4 DEF Readmit
  <2>2. CASE /\ state \in {"Submitted", "Generating"}
             /\ synced' = [synced EXCEPT ![w] = state]
             /\ Write(w, <<"Cancelled">>, "finish")
             /\ Returning(w, "E_CANCELLED")
             /\ UNCHANGED retries
    <3>1. Tracking'
      BY <1>1, <2>2 DEF Readmit, Returning, Tracking, Results, TurnState
    <3> QED
      BY <1>0, <1>1, <2>2, <3>1, WriteKeeps, QuietDriver, QuietShared
         DEF Readmit, Targets, LedgerTypeOK
  <2>3. CASE /\ state \in {"Submitted", "Generating"}
             /\ synced' = [synced EXCEPT ![w] = state]
             /\ retries' = [retries EXCEPT ![w] = @ + 1]
             /\ Goto(w, "backoff")
             /\ UNCHANGED result
    <3>1. Tracking'
      BY <1>1, <2>3 DEF Readmit, Tracking, TurnState
    <3>2. retries[w] \in 0..MaxRetries /\ retries[w] < MaxRetries
      BY <1>1 DEF Readmit, Control
    <3>3. retries[w] + 1 \in 0..MaxRetries
      BY <3>2, DriverAssumption
    <3>4. Control'
      BY <2>3, <3>3 DEF Goto, Control, Pcs
    <3> QED
      BY <1>1, <3>1, <3>4, QuietDriver, QuietShared DEF Readmit, LedgerTypeOK
  <2> QED
    BY <1>1, <2>1, <2>2, <2>3 DEF Readmit
<1>2. CASE BackoffEnds(w)
  <2>1. Tracking' /\ UNCHANGED retries
    BY <1>2, QuietTracking DEF BackoffEnds
  <2>2. Control'
    BY <1>2, <2>1, GotoKeeps DEF BackoffEnds, Pcs
  <2> QED
    BY <1>2, <2>1, <2>2, QuietDriver, QuietShared DEF BackoffEnds, LedgerTypeOK
<1>3. CASE BackoffCancelled(w)
  <2>1. Tracking' /\ UNCHANGED retries
    BY <1>3, QuietTracking DEF BackoffCancelled, Results
  <2>2. Control'
    BY <1>0, <1>3, <2>1, WriteKeeps DEF BackoffCancelled, Targets
  <2> QED
    BY <1>3, <2>1, <2>2, QuietDriver, QuietShared DEF BackoffCancelled, LedgerTypeOK
<1> QED
  BY <1>1, <1>2, <1>3

LEMMA ForgetKeeps ==
  ASSUME TypeInv, NEW ended, Forget(ended)
  PROVE  /\ tracker' \in [Workers -> TurnState]
         /\ synced' \in [Workers -> TurnState]
         /\ retries' \in [Workers -> 0..MaxRetries]
         /\ \A w \in Workers \ ended : retries'[w] = retries[w]
  BY DriverAssumption DEF TypeInv, Tracking, Control, Forget, TurnState

LEMMA FinishKeeps ==
  ASSUME TypeInv, NEW w \in Workers, Finish(w)
  PROVE  TypeInv'
<1> USE DEF TypeInv
<1>1. Tracking'
  BY ForgetKeeps DEF Finish, Tracking
<1>2. Control'
  <2>1. /\ retries' \in [Workers -> 0..MaxRetries]
        /\ \A v \in Workers \ {w} : retries'[v] = retries[v]
    BY ForgetKeeps DEF Finish
  <2>2. pc' = [pc EXCEPT ![w] = "done"] /\ UNCHANGED <<plan, after>>
    BY DEF Finish, Goto
  <2>3. pc' \in [Workers -> Pcs]
    BY <2>2 DEF Control, Pcs
  <2>4. ASSUME NEW v \in Workers
        PROVE  /\ pc'[v] = "write" => plan'[v] # <<>>
               /\ pc'[v] = "readmit" => retries'[v] < MaxRetries
               /\ pc'[v] = "write" => after'[v] # "idle"
    <3>1. CASE v = w
      BY <2>2, <3>1 DEF Control
    <3>2. CASE v # w
      BY <2>1, <2>2, <3>2 DEF Control
    <3> QED
      BY <3>1, <3>2
  <2> QED
    BY <2>1, <2>2, <2>3, <2>4 DEF Control
<1>3. Remember(Req[w]) \in Seq(Requests)
  <2>1. Append(replay, Req[w]) \in Seq(Requests)
    BY CoordinatorAssumption DEF Shared
  <2>2. Len(Append(replay, Req[w])) > ReplayLimit => Tail(Append(replay, Req[w])) \in Seq(Requests)
    <3>1. Len(<<>>) = 0
      OBVIOUS
    <3> QED
      BY <2>1, <3>1, CoordinatorAssumption
  <2> QED
    BY <2>1, <2>2 DEF Remember, Shared
<1>4. Shared'
  BY <1>3 DEF Finish, Shared
<1> QED
  BY <1>1, <1>2, <1>4, QuietDriver DEF Finish, LedgerTypeOK

LEMMA RestartKeeps ==
  ASSUME TypeInv, Restart
  PROVE  TypeInv'
<1> USE DEF TypeInv
<1>1. Tracking'
  BY ForgetKeeps DEF Restart, Tracking
<1>2. Control'
  BY ForgetKeeps DEF Restart, Control, Pcs, Targets
<1>3. Shared'
  BY DEF Restart, Shared
<1>4. DriverTypeOK'
  BY DEF Restart, DriverGone, DriverTypeOK, PageState, Replies
<1> QED
  BY <1>1, <1>2, <1>3, <1>4 DEF Restart, LedgerTypeOK

LEMMA TypeStep == TypeInv /\ [Next]_vars => TypeInv'
<1> SUFFICES ASSUME TypeInv, [Next]_vars PROVE TypeInv'
  OBVIOUS
<1>1. CASE UNCHANGED vars
  BY <1>1 DEF vars, driverVars, turnVars, sharedVars, TypeInv, LedgerTypeOK, DriverTypeOK,
              Control, Tracking, Shared
<1>2. CASE OwnerThread
  BY <1>2, DriverStepKeeps
     DEF OwnerThread, turnVars, sharedVars, TypeInv, LedgerTypeOK, Control, Tracking, Shared
<1>3. CASE Restart
  BY <1>3, RestartKeeps
<1>4. ASSUME NEW w \in Workers, Execute(w) \/ Cancel(w) \/ Step(w) PROVE TypeInv'
  BY <1>4, StartKeeps, WritesKeep, PrepareKeeps, SubmitKeeps, ObserveKeeps, VerifyKeeps,
     ReleaseKeeps, RetryKeeps, FinishKeeps DEF Step
<1> QED
  BY <1>1, <1>2, <1>3, <1>4 DEF Next

\* The state of turn execution is always well-typed: no worker writes to a row
\* that is not there, starts an attempt beyond the limit, or asks for a page
\* the handles do not name.
THEOREM TurnTypeCorrect == Spec => []TypeOK
<1>1. Spec => []TypeInv
  BY Initially, TypeStep, PTL DEF Spec
<1> QED
  BY <1>1, TypeInvIsTyped, PTL
-----------------------------------------------------------------------------
(* One sender per request, and its intent recorded first.                  *)
(*                                                                         *)
(* A click happens long after the admission and the ledger write it rests  *)
(* on, out of a queue the worker may have stopped waiting for, and after   *)
(* the process has been restarted it is known only by the page.  So the    *)
(* invariant follows the request from its admission: whoever works on it,  *)
(* whatever is queued for it and whatever was clicked belongs to the one   *)
(* worker it was admitted for, and its row stays past the baseline from    *)
(* the moment a Submit may be queued.                                      *)

Working(w) == pc[w] \notin {"idle", "acquire", "admit", "finish", "done", "dead"}

\* What the owner thread has been asked to do and has not answered.
Commands == {queue[k] : k \in DOMAIN queue} \cup ({current} \ {Idle})
Pending == {<<c.op, c.handle>> : c \in Commands}

Intended(r) == Admitted(r) /\ turns[r].state \notin {"Prepared", "ObservedBaseline"}

Owned ==
  /\ \A r \in Requests : owner[r] # NoWorker => Admitted(r)
  /\ \A w \in Workers : Working(w) => owner[Req[w]] = w
  /\ \A p \in Pending : owner[RequestOf(p[2])] = Owner(p[2])
  /\ \A h \in Clicked : owner[RequestOf(h)] = Owner(h)

Announced ==
  /\ \A p \in Pending : p[1] \in {"Submit", "Clicked"} => Intended(RequestOf(p[2]))
  /\ \A h \in Clicked : Intended(RequestOf(h))
  /\ \A w \in Workers :
       /\ pc[w] = "submit" => Intended(Req[w])
       /\ pc[w] = "write" /\ after[w] = "submit" => plan[w] = <<"Submitting">>
       /\ retries[w] > 0 => Intended(Req[w]) /\ pc[w] \notin {"idle", "acquire", "admit"}

SenderInv == Owned /\ Announced

LEMMA SenderInitially == Init => SenderInv
<1> SUFFICES ASSUME Init PROVE SenderInv
  OBVIOUS
<1>1. Commands = {}
  BY DEF Init, DriverInit, Commands
<1>2. Pending = {} /\ Clicked = {}
  BY <1>1 DEF Pending, Init, DriverInit, Clicked
<1> QED
  BY <1>2 DEF Init, SenderInv, Owned, Announced, Working

\* Rows are never removed, and none returns to before its submission.
LEMMA IntentStays ==
  ASSUME LedgerTypeOK, [LedgerNext]_turns, NEW r \in Requests
  PROVE  /\ Admitted(r) => Admitted(r)'
         /\ Intended(r) => Intended(r)'
<1>1. Admitted(r) => Admitted(r)'
  BY LedgerStep, NoRowAssumption DEF Admitted, RowStep
<1>2. ASSUME Intended(r) PROVE turns'[r].state \notin {"Prepared", "ObservedBaseline"}
  <2>1. turns[r] \in Row /\ turns[r].state \in TurnState
    BY <1>2 DEF Intended, Admitted, LedgerTypeOK, Row
  <2>2. CASE UNCHANGED turns
    BY <1>2, <2>2 DEF Intended
  <2>3. ASSUME NEW q \in Requests, NEW s \in Sessions, NEW i \in Inputs, Admit(q, s, i)
        PROVE  turns'[r] = turns[r]
    BY <1>2, <2>3 DEF Admit, Intended, LedgerTypeOK
  <2>4. ASSUME NEW q \in Requests, NEW next \in TurnState, Transition(q, next)
        PROVE  turns'[r].state \notin {"Prepared", "ObservedBaseline"}
    <3>1. Successors(turns[r].state) \cap {"Prepared", "ObservedBaseline"} = {}
      BY <1>2, <2>1 DEF Intended, Successors, TurnState, TerminalStates
    <3>2. CASE q = r
      BY <2>1, <2>4, <3>1, <3>2 DEF Transition, LedgerTypeOK, Row
    <3>3. CASE q # r
      BY <1>2, <2>4, <3>3 DEF Transition, Intended, LedgerTypeOK
    <3> QED
      BY <3>2, <3>3
  <2>5. CASE Recover
    BY <1>2, <2>1, <2>5 DEF Recover, Recovered, Intended, Row
  <2> QED
    BY <1>2, <2>2, <2>3, <2>4, <2>5 DEF LedgerNext, Intended
<1> QED
  BY <1>1, <1>2 DEF Intended

LEMMA PendingHandles ==
  ASSUME DriverTypeOK
  PROVE  \A p \in Pending : p[2] \in Handles
<1>1. \A k \in DOMAIN queue : queue[k] \in Command
  BY DEF DriverTypeOK
<1>2. \A c \in Commands : c \in Command
  BY <1>1 DEF Commands, DriverTypeOK
<1>3. \A c \in Command : c.handle \in Handles
  BY DEF Command
<1> QED
  BY <1>2, <1>3 DEF Pending

(* What the callers do to the pending commands. *)

LEMMA PendingQuiet ==
  ASSUME UNCHANGED <<queue, current>>
  PROVE  Pending' = Pending
  BY DEF Pending, Commands

LEMMA PendingRequest ==
  ASSUME DriverTypeOK, NEW op \in Ops, NEW h \in Handles, Request(op, h)
  PROVE  Pending' = Pending \cup {<<op, h>>}
<1> DEFINE c == [op |-> op, handle |-> h, open |-> TRUE]
<1>1. c \in Command
  BY DEF Command
<1>2. queue \in Seq(Command) /\ queue' = Append(queue, c) /\ UNCHANGED current
  BY DEF Request, DriverTypeOK
<1>3. c.op = op /\ c.handle = h
  OBVIOUS
<1> HIDE DEF c
<1>4. {queue'[k] : k \in DOMAIN queue'} = {queue[k] : k \in DOMAIN queue} \cup {c}
  <2>1. /\ Len(queue) \in Nat
        /\ DOMAIN queue' = 1..(Len(queue) + 1)
        /\ DOMAIN queue = 1..Len(queue)
        /\ \A k \in 1..Len(queue) : queue'[k] = queue[k]
        /\ queue'[Len(queue) + 1] = c
    BY <1>1, <1>2
  <2> QED
    BY <2>1
<1>5. Commands' = Commands \cup {c}
  BY <1>2, <1>4 DEF Commands
<1> QED
  BY <1>3, <1>5 DEF Pending

LEMMA PendingHangup ==
  ASSUME DriverTypeOK, NEW w \in Workers, NEW lost, Hangup(w, lost)
  PROVE  Pending' = Pending
<1>1. ASSUME NEW c \in Command
      PROVE  Hush(w, c) \in Command /\ Hush(w, c).op = c.op /\ Hush(w, c).handle = c.handle
  BY DriverAssumption DEF Hush, Command
<1>2. Hush(w, Idle) = Idle
  BY DEF Hush
<1>3. /\ queue' = [k \in DOMAIN queue |-> Hush(w, queue[k])]
      /\ current' = Hush(w, current)
  BY DEF Hangup
<1>4. /\ \A k \in DOMAIN queue : queue[k] \in Command
      /\ current \in Command \cup {Idle}
      /\ Idle \notin Command
  BY DriverAssumption DEF DriverTypeOK
<1>5. Commands' = {Hush(w, c) : c \in Commands}
  BY <1>1, <1>2, <1>3, <1>4 DEF Commands
<1>6. Commands \subseteq Command
  BY <1>4 DEF Commands
<1> QED
  BY <1>1, <1>5, <1>6 DEF Pending

\* The owner thread only works the pending commands off; a click comes from a
\* pending Submit.
LEMMA DriverWorksOff ==
  ASSUME DriverTypeOK, DriverStep
  PROVE  \/ Pending' \subseteq Pending /\ Clicked' = Clicked
         \/ \E h \in Handles :
              /\ <<"Submit", h>> \in Pending
              /\ Pending' \subseteq Pending \cup {<<"Clicked", h>>}
              /\ Clicked' = Clicked \cup {h}
<1>0. /\ queue \in Seq(Command)
      /\ current \in Command \cup {Idle}
      /\ Idle \notin Command
  BY DriverAssumption DEF DriverTypeOK
<1>1. CASE Take
  <2>1. /\ queue # <<>> /\ queue' = Tail(queue)
        /\ current' \in {Head(queue), Idle}
    BY <1>1 DEF Take
  <2>2. /\ Len(queue) \in Nat \ {0}
        /\ Head(queue) = queue[1]
        /\ Len(Tail(queue)) = Len(queue) - 1
        /\ \A k \in 1..(Len(queue) - 1) : Tail(queue)[k] = queue[k + 1]
    BY <1>0, <2>1, EmptySeq, HeadTailProperties
  <2>3. Commands' \subseteq Commands
    <3>1. ASSUME NEW k \in DOMAIN queue' PROVE queue'[k] \in Commands
      <4>1. k \in 1..(Len(queue) - 1) /\ k + 1 \in DOMAIN queue
        BY <1>0, <2>1, <2>2, <3>1, HeadTailProperties, LenProperties
      <4> QED
        BY <2>1, <2>2, <4>1 DEF Commands
    <3>2. Head(queue) \in Commands
      BY <1>0, <2>2, LenProperties DEF Commands
    <3> QED
      BY <2>1, <3>1, <3>2 DEF Commands
  <2>4. Pending' \subseteq Pending
    BY <2>3 DEF Pending
  <2> QED
    BY <1>1, <2>4 DEF Take, Clicked
<1>2. ASSUME UNCHANGED queue, current' = Idle
      PROVE  Pending' \subseteq Pending
  BY <1>2 DEF Pending, Commands
<1>3. CASE PressSend
  <2>1. current \in Commands /\ current \in Command /\ current.op = "Submit"
    BY <1>0, <1>3 DEF PressSend, Executing, Commands
  <2>2. <<"Submit", current.handle>> \in Pending /\ current.handle \in Handles
    BY <2>1 DEF Pending, Command
  <2>3. current' = [current EXCEPT !.op = "Clicked"] /\ UNCHANGED queue
    BY <1>3 DEF PressSend
  <2>4. current'.op = "Clicked" /\ current'.handle = current.handle
    BY <2>1, <2>3 DEF Command
  <2>5. Commands' \subseteq Commands \cup {current'}
    BY <2>3 DEF Commands
  <2>6. Pending' \subseteq Pending \cup {<<"Clicked", current.handle>>}
    BY <2>4, <2>5 DEF Pending
  <2>7. Clicked' = Clicked \cup {current.handle}
    BY <1>3, <2>2 DEF PressSend, Clicked, DriverTypeOK
  <2> QED
    BY <2>2, <2>6, <2>7
<1>4. CASE SubmitFails
  <2>1. Clicked' = Clicked
    BY <1>4 DEF SubmitFails, Clicked, DriverTypeOK
  <2> QED
    BY <1>2, <1>4, <2>1 DEF SubmitFails, Answer
<1>5. CASE PrepareRefused \/ PrepareRejected \/ PrepareSucceeds
  BY <1>2, <1>5 DEF PrepareRefused, PrepareRejected, PrepareSucceeds, Answer, Clicked
<1>6. CASE SubmitReturns \/ Observe \/ VerifyCompletion \/ Stop \/ Release \/ ReleaseFails
  BY <1>2, <1>6
     DEF SubmitReturns, Observe, VerifyCompletion, Stop, Release, ReleaseFails, Answer, Clicked
<1> QED
  BY <1>1, <1>3, <1>4, <1>5, <1>6 DEF DriverStep

LEMMA DriverKeepsSender ==
  ASSUME TypeInv, SenderInv, OwnerThread
  PROVE  SenderInv'
<1>1. UNCHANGED <<turns, owner, pc, plan, after, retries>>
  BY DEF OwnerThread, turnVars, sharedVars
<1>2. \A p \in Pending : p[1] \in {"Submit", "Clicked"} => Intended(RequestOf(p[2]))
  BY DEF SenderInv, Announced
<1>3. \A p \in Pending : owner[RequestOf(p[2])] = Owner(p[2])
  BY DEF SenderInv, Owned
<1>4. \/ Pending' \subseteq Pending /\ Clicked' = Clicked
      \/ \E h \in Handles :
           /\ <<"Submit", h>> \in Pending
           /\ Pending' \subseteq Pending \cup {<<"Clicked", h>>}
           /\ Clicked' = Clicked \cup {h}
  BY DriverWorksOff DEF OwnerThread, TypeInv
<1>5. /\ \A r : Intended(r)' <=> Intended(r)
      /\ \A r : Admitted(r)' <=> Admitted(r)
      /\ \A w \in Workers : Working(w)' <=> Working(w)
  BY <1>1 DEF Intended, Admitted, Working
<1>6. ASSUME NEW p, p \in Pending'
      PROVE  /\ owner[RequestOf(p[2])] = Owner(p[2])
             /\ p[1] \in {"Submit", "Clicked"} => Intended(RequestOf(p[2]))
  <2>1. CASE p \in Pending
    BY <1>2, <1>3, <2>1
  <2>2. ASSUME NEW h \in Handles, <<"Submit", h>> \in Pending, p = <<"Clicked", h>>
        PROVE  owner[RequestOf(h)] = Owner(h) /\ Intended(RequestOf(h)) /\ p[2] = h
    BY <1>2, <1>3, <2>2
  <2> QED
    BY <1>4, <1>6, <2>1, <2>2
<1>7. ASSUME NEW h, h \in Clicked'
      PROVE  owner[RequestOf(h)] = Owner(h) /\ Intended(RequestOf(h))
  <2>1. CASE h \in Clicked
    BY <2>1 DEF SenderInv, Owned, Announced
  <2>2. CASE <<"Submit", h>> \in Pending
    BY <1>2, <1>3, <2>2
  <2>3. CASE Clicked' = Clicked
    BY <1>7, <2>1, <2>3
  <2>4. ASSUME NEW g \in Handles, <<"Submit", g>> \in Pending, Clicked' = Clicked \cup {g}
        PROVE  h \in Clicked \/ <<"Submit", h>> \in Pending
    BY <1>7, <2>4, Zenon
  <2> QED
    BY <1>4, <2>1, <2>2, <2>3, <2>4
<1>8. Owned'
  BY <1>1, <1>5, <1>6, <1>7 DEF SenderInv, Owned, RequestOf
<1>9. Announced'
  BY <1>1, <1>5, <1>6, <1>7 DEF SenderInv, Announced, RequestOf
<1> QED
  BY <1>8, <1>9 DEF SenderInv

(* What a worker's step does to the rest, apart from the admission, the      *)
(* ledger write, the start of another attempt and the end of the turn.       *)

Starting == {"idle", "acquire", "admit"}

OthersStay(w) ==
  \A v \in Workers \ {w} : pc'[v] = pc[v] /\ plan'[v] = plan[v] /\ after'[v] = after[v]

Queues(w) ==
  \/ Pending' = Pending
  \/ \E op \in Ops : /\ Working(w)
                     /\ op = "Submit" => pc[w] = "submit"
                     /\ Pending' = Pending \cup {<<op, PageOf(w)>>}

Plain(w) ==
  /\ UNCHANGED <<turns, owner, send, retries>>
  /\ OthersStay(w)
  /\ Queues(w)
  /\ Working(w)' => Working(w)
  /\ pc'[w] = "submit" => pc[w] = "submit" \/ retries[w] > 0
  /\ pc'[w] \in Starting => pc[w] \in Starting
  /\ pc'[w] = "write" /\ after'[w] = "submit" =>
       \/ plan'[w] = <<"Submitting">>
       \/ pc[w] = "write" /\ after[w] = "submit" /\ plan'[w] = plan[w]

LEMMA PlainKeepsSender ==
  ASSUME TypeInv, SenderInv, NEW w \in Workers, Plain(w)
  PROVE  SenderInv'
<1>1. UNCHANGED <<turns, owner, send, retries>> /\ OthersStay(w)
  BY DEF Plain
<1>2. /\ \A r : Intended(r)' <=> Intended(r)
      /\ \A r : Admitted(r)' <=> Admitted(r)
      /\ Clicked' = Clicked
      /\ \A v \in Workers : Working(v)' => Working(v)
  BY <1>1 DEF Intended, Admitted, Clicked, Plain, OthersStay, Working
<1>3. ASSUME NEW p, p \in Pending'
      PROVE  /\ owner[RequestOf(p[2])] = Owner(p[2])
             /\ p[1] \in {"Submit", "Clicked"} => Intended(RequestOf(p[2]))
  <2>1. CASE p \in Pending
    BY <2>1 DEF SenderInv, Owned, Announced
  <2>2. ASSUME NEW op \in Ops, Working(w), op = "Submit" => pc[w] = "submit",
               p = <<op, PageOf(w)>>
        PROVE  /\ owner[RequestOf(p[2])] = Owner(p[2])
               /\ p[1] \in {"Submit", "Clicked"} => Intended(RequestOf(p[2]))
    <3>1. p[1] = op /\ p[2] = PageOf(w) /\ Owner(p[2]) = w /\ RequestOf(p[2]) = Req[w]
      BY <2>2, PageOfIsHandle DEF TypeInv, RequestOf
    <3>2. op # "Clicked"
      BY DEF Ops
    <3> QED
      BY <2>2, <3>1, <3>2 DEF SenderInv, Owned, Announced
  <2>3. p \in Pending \/ \E op \in Ops : /\ Working(w)
                                         /\ op = "Submit" => pc[w] = "submit"
                                         /\ p = <<op, PageOf(w)>>
    <3>1. CASE Pending' = Pending
      BY <1>3, <3>1
    <3>2. CASE Pending' # Pending
      BY <1>3, <3>2 DEF Plain, Queues
    <3> QED
      BY <3>1, <3>2
  <2> QED
    BY <2>1, <2>2, <2>3
<1>4. Owned'
  BY <1>1, <1>2, <1>3 DEF SenderInv, Owned, RequestOf
<1>5. ASSUME NEW v \in Workers
      PROVE  /\ pc'[v] = "submit" => Intended(Req[v])
             /\ pc'[v] = "write" /\ after'[v] = "submit" => plan'[v] = <<"Submitting">>
             /\ retries[v] > 0 => Intended(Req[v]) /\ pc'[v] \notin Starting
  <2>1. CASE v = w
    BY <2>1 DEF SenderInv, Announced, Plain, Starting
  <2>2. CASE v # w
    BY <1>1, <2>2 DEF SenderInv, Announced, OthersStay, Starting
  <2> QED
    BY <2>1, <2>2
<1>6. Announced'
  BY <1>1, <1>2, <1>3, <1>5 DEF SenderInv, Announced, RequestOf, Starting
<1> QED
  BY <1>4, <1>6 DEF SenderInv

LEMMA GotoMoves ==
  ASSUME Control, NEW w \in Workers, NEW p, Goto(w, p)
  PROVE  /\ OthersStay(w)
         /\ pc'[w] = p /\ plan'[w] = plan[w] /\ after'[w] = after[w]
  BY DEF Control, Goto, OthersStay

LEMMA WriteMoves ==
  ASSUME Control, NEW w \in Workers, NEW states, NEW p, Write(w, states, p)
  PROVE  /\ OthersStay(w)
         /\ plan'[w] = states
         /\ states # <<>> => pc'[w] = "write" /\ after'[w] = p
         /\ states = <<>> => pc'[w] = p
  BY DEF Control, Write, OthersStay

LEMMA LeaveMoves ==
  ASSUME Control, NEW w \in Workers, NEW p, Leave(w, p)
  PROVE  OthersStay(w) /\ pc'[w] = p
  BY DEF Control, Leave, OthersStay

\* An action that moves on from a place inside the turn, and where it may go.
LEMMA GoingIsPlain ==
  ASSUME TypeInv, NEW w \in Workers, NEW p, Goto(w, p),
         p \notin Starting \cup {"write", "submit"},
         Working(w) \/ p \in {"finish", "done"},
         Queues(w), UNCHANGED <<turns, owner, send, retries>>
  PROVE  Plain(w)
  BY GotoMoves DEF TypeInv, Plain, Working

LEMMA WritingIsPlain ==
  ASSUME TypeInv, NEW w \in Workers, NEW states, NEW p, Write(w, states, p),
         p \notin Starting \cup {"write", "submit"}, Working(w),
         Queues(w), UNCHANGED <<turns, owner, send, retries>>
  PROVE  Plain(w)
  BY WriteMoves DEF TypeInv, Plain, Working, Starting

LEMMA AskQueues ==
  ASSUME TypeInv, NEW w \in Workers, NEW from, NEW op \in Ops, NEW to, Ask(w, from, op, to),
         from \notin Starting \cup {"finish", "done", "dead"}, op = "Submit" => from = "submit"
  PROVE  Queues(w) /\ Working(w) /\ UNCHANGED <<turns, owner, send>>
<1>1. Pending' = Pending \cup {<<op, PageOf(w)>>}
  BY PageOfIsHandle, PendingRequest DEF TypeInv, Ask
<1>2. Working(w) /\ pc[w] = from
  BY DEF Ask, Working, Starting
<1> QED
  BY <1>1, <1>2 DEF Queues, Ask, Request, sharedVars

LEMMA ToldQueues ==
  ASSUME TypeInv, NEW w \in Workers, NEW at, NEW v, Told(w, at, v)
  PROVE  Queues(w) /\ UNCHANGED send
  BY PendingQuiet DEF Told, Receive, Queues

LEMMA HangupQueues ==
  ASSUME TypeInv, NEW w \in Workers, NEW lost, Hangup(w, lost)
  PROVE  Queues(w) /\ UNCHANGED send
  BY PendingHangup DEF TypeInv, Hangup, Queues

LEMMA QuietQueues ==
  ASSUME NEW w \in Workers, UNCHANGED driverVars
  PROVE  Queues(w) /\ UNCHANGED send
  BY PendingQuiet DEF driverVars, Queues

LEMMA StartIsPlain ==
  ASSUME TypeInv, NEW w \in Workers,
         \/ Execute(w) \/ Cancel(w) \/ Acquire(w) \/ Refused(w)
         \/ AdmitDuplicate(w) \/ AdmitFails(w) \/ WriteFails(w)
  PROVE  Plain(w)
<1>1. CASE Execute(w)
  <2>1. OthersStay(w) /\ pc'[w] = "acquire" /\ pc[w] = "idle"
    BY <1>1, GotoMoves DEF Execute, TypeInv
  <2>2. Queues(w) /\ UNCHANGED send
    BY <1>1, QuietQueues DEF Execute
  <2> QED
    BY <1>1, <2>1, <2>2 DEF Execute, KeepTracking, sharedVars, Plain, Working, Starting
<1>2. CASE Cancel(w)
  <2>1. Queues(w) /\ UNCHANGED send
    BY <1>2, QuietQueues DEF Cancel
  <2> QED
    BY <1>2, <2>1 DEF Cancel, sharedVars, Plain, OthersStay, Working
<1>3. CASE Acquire(w)
  <2>1. OthersStay(w) /\ pc'[w] = "admit" /\ pc[w] = "acquire"
    BY <1>3, GotoMoves DEF Acquire, TypeInv
  <2>2. Queues(w) /\ UNCHANGED send
    BY <1>3, QuietQueues DEF Acquire
  <2> QED
    BY <1>3, <2>1, <2>2 DEF Acquire, KeepTracking, Plain, Working, Starting
<1>4. CASE Refused(w) \/ AdmitDuplicate(w) \/ AdmitFails(w)
  <2>1. PICK p \in {"finish", "done"} : Goto(w, p)
    BY <1>4 DEF Refused, AdmitDuplicate, AdmitFails
  <2>2. Queues(w) /\ UNCHANGED send
    BY <1>4, QuietQueues DEF Refused, AdmitDuplicate, AdmitFails
  <2>3. UNCHANGED <<turns, owner, retries>>
    BY <1>4 DEF Refused, AdmitDuplicate, AdmitFails, KeepTracking, sharedVars
  <2>4. p \notin Starting \cup {"write", "submit"}
    BY DEF Starting
  <2> QED
    BY <2>1, <2>2, <2>3, <2>4, GoingIsPlain
<1>5. CASE WriteFails(w)
  <2>1. /\ OthersStay(w) /\ pc[w] = "write"
        /\ pc'[w] \in {"finish", "release"}
    BY <1>5, LeaveMoves DEF WriteFails, ErrorExit, TypeInv
  <2>2. Queues(w) /\ UNCHANGED send
    BY <1>5, QuietQueues DEF WriteFails
  <2> QED
    BY <1>5, <2>1, <2>2 DEF WriteFails, KeepTracking, sharedVars, Plain, Working, Starting
<1> QED
  BY <1>1, <1>2, <1>3, <1>4, <1>5

LEMMA AsksArePlain ==
  ASSUME TypeInv, NEW w \in Workers,
         \/ AskPrepare(w) \/ AskSubmit(w) \/ AskObserve(w) \/ AskVerify(w)
         \/ AskStop(w) \/ AskRelease(w)
  PROVE  Plain(w)
<1>1. ASSUME NEW from, NEW op \in Ops, NEW to, Ask(w, from, op, to), UNCHANGED retries,
             from \notin Starting \cup {"finish", "done", "dead"},
             to \notin Starting \cup {"write", "submit"},
             op = "Submit" => from = "submit"
      PROVE  Plain(w)
  <2>1. Queues(w) /\ Working(w) /\ UNCHANGED <<turns, owner, send>>
    BY <1>1, AskQueues
  <2>2. Goto(w, to)
    BY <1>1 DEF Ask
  <2> QED
    BY <1>1, <2>1, <2>2, GoingIsPlain
<1>2. CASE AskSubmit(w)
  BY <1>1, <1>2 DEF AskSubmit, Ops, Starting
<1>3. CASE AskPrepare(w) \/ AskObserve(w)
  BY <1>1, <1>3 DEF AskPrepare, AskObserve, KeepTracking, Ops, Starting
<1>4. CASE AskVerify(w) \/ AskStop(w) \/ AskRelease(w)
  BY <1>1, <1>4 DEF AskVerify, AskStop, AskRelease, KeepTracking, Ops, Starting
<1> QED
  BY <1>2, <1>3, <1>4

\* The answers and timeouts of Prepare and the checks before Send.
LEMMA PrepareIsPlain ==
  ASSUME TypeInv, NEW w \in Workers,
         \/ PrepareAnswered(w) \/ PrepareUnanswered(w)
         \/ RejectPage(w) \/ AcceptPage(w) \/ GateCloses(w) \/ GateOpens(w)
  PROVE  Plain(w)
<1>1. CASE PrepareAnswered(w)
  <2>1. Queues(w) /\ UNCHANGED send
    BY <1>1, ToldQueues DEF PrepareAnswered
  <2> QED
    BY <1>1, <2>1, GoingIsPlain
       DEF PrepareAnswered, Told, KeepTracking, sharedVars, Working, Starting
<1>2. CASE PrepareUnanswered(w)
  <2>1. Queues(w) /\ UNCHANGED send
    BY <1>2, HangupQueues DEF PrepareUnanswered, Untold
  <2> QED
    BY <1>2, <2>1, WritingIsPlain
       DEF PrepareUnanswered, Untold, KeepTracking, sharedVars, Working, Starting
<1>3. CASE RejectPage(w) \/ AcceptPage(w) \/ GateCloses(w)
  <2>1. Queues(w) /\ UNCHANGED send
    BY <1>3, QuietQueues DEF RejectPage, AcceptPage, GateCloses
  <2>2. PICK p \in {"release", "gate"},
             states \in {<<>>, <<"Failed">>, <<"ObservedBaseline">>, <<"Cancelled">>} :
          Write(w, states, p)
    BY <1>3 DEF RejectPage, AcceptPage, GateCloses
  <2>3. UNCHANGED <<turns, owner, retries>> /\ Working(w)
    BY <1>3 DEF RejectPage, AcceptPage, GateCloses, KeepTracking, sharedVars, Working
  <2>4. p \notin Starting \cup {"write", "submit"}
    BY DEF Starting
  <2> QED
    BY <2>1, <2>2, <2>3, <2>4, WritingIsPlain
<1>4. CASE GateOpens(w)
  <2>1. Queues(w) /\ UNCHANGED send
    BY <1>4, QuietQueues DEF GateOpens
  <2> DEFINE states == IF Resumed(w) THEN <<>> ELSE <<"Submitting">>
  <2>2. /\ OthersStay(w)
        /\ plan'[w] = states
        /\ states # <<>> => pc'[w] = "write" /\ after'[w] = "submit"
        /\ states = <<>> => pc'[w] = "submit"
    BY <1>4, WriteMoves DEF GateOpens, TypeInv
  <2>3. <<"Submitting">> # <<>>
    OBVIOUS
  <2>4. CASE Resumed(w)
    BY <1>4, <2>1, <2>2, <2>4
       DEF GateOpens, KeepTracking, sharedVars, Plain, Working, Resumed, Starting
  <2>5. CASE ~Resumed(w)
    BY <1>4, <2>1, <2>2, <2>3, <2>5
       DEF GateOpens, KeepTracking, sharedVars, Plain, Working, Starting
  <2> QED
    BY <2>4, <2>5
<1> QED
  BY <1>1, <1>2, <1>3, <1>4

\* The answers and timeouts of Submit, the readings, the verifications.
LEMMA AnswersArePlain ==
  ASSUME TypeInv, NEW w \in Workers,
         \/ SubmitAnswered(w) \/ SubmitUnanswered(w)
         \/ ObserveCancelled(w) \/ ObserveSlow(w) \/ ObserveFails(w)
         \/ ObserveRejects(w) \/ ObserveAccepts(w)
         \/ Publish(w) \/ Complete(w) \/ VerifyUnanswered(w)
  PROVE  Plain(w)
<1> DEFINE Places == {"observe", "verify", "stop", "release"}
<1>1. \A p \in Places : p \notin Starting \cup {"write", "submit"}
  BY DEF Starting
<1>2. /\ Queues(w) /\ UNCHANGED send
      /\ pc[w] \in {"submit", "submitting", "observe", "observing", "verify", "verifying"}
  BY ToldQueues, HangupQueues
     DEF SubmitAnswered, SubmitUnanswered, ObserveCancelled, ObserveSlow, ObserveFails,
         ObserveRejects, ObserveAccepts, Publish, Complete, VerifyUnanswered, Told, Untold
<1>3. UNCHANGED <<turns, owner, retries>>
  BY DEF SubmitAnswered, SubmitUnanswered, ObserveCancelled, ObserveSlow, ObserveFails,
         ObserveRejects, ObserveAccepts, Publish, Complete, VerifyUnanswered,
         KeepTracking, sharedVars
<1>4. \E p \in Places : Goto(w, p) \/ \E states : Write(w, states, p)
  <2>1. CASE SubmitAnswered(w) \/ SubmitUnanswered(w) \/ ObserveCancelled(w)
             \/ ObserveSlow(w) \/ ObserveFails(w)
    BY <2>1 DEF SubmitAnswered, SubmitUnanswered, ObserveCancelled, ObserveSlow, ObserveFails
  <2>2. CASE ObserveRejects(w)
    BY <2>2 DEF ObserveRejects
  <2>3. CASE ObserveAccepts(w)
    BY <2>3 DEF ObserveAccepts
  <2>4. CASE Publish(w) \/ Complete(w) \/ VerifyUnanswered(w)
    BY <2>4 DEF Publish, Complete, VerifyUnanswered
  <2> QED
    BY <2>1, <2>2, <2>3, <2>4
<1>5. Working(w)
  BY <1>2 DEF Working
<1> QED
  BY <1>1, <1>2, <1>3, <1>4, <1>5, GoingIsPlain, WritingIsPlain

LEMMA EndIsPlain ==
  ASSUME TypeInv, NEW w \in Workers,
         \/ StopEnds(w) \/ Released(w) \/ NotReleased(w)
         \/ BackoffEnds(w) \/ BackoffCancelled(w)
  PROVE  Plain(w)
<1> DEFINE Places == {"release", "readmit", "finish", "prepare"}
<1>1. \A p \in Places : p \notin Starting \cup {"write", "submit"}
  BY DEF Starting
<1>2. Queues(w) /\ UNCHANGED send
  BY ToldQueues, HangupQueues, QuietQueues
     DEF StopEnds, Released, NotReleased, BackoffEnds, BackoffCancelled, Untold
<1>3. UNCHANGED <<turns, owner, retries>>
  BY DEF StopEnds, Released, NotReleased, BackoffEnds, BackoffCancelled,
         KeepTracking, sharedVars
<1>4. \E p \in Places : Goto(w, p) \/ \E states : Write(w, states, p)
  BY DEF StopEnds, Released, NotReleased, BackoffEnds, BackoffCancelled
<1>5. Working(w)
  BY DEF StopEnds, Released, NotReleased, BackoffEnds, BackoffCancelled, Told, Untold, Working
<1> QED
  BY <1>1, <1>2, <1>3, <1>4, <1>5, GoingIsPlain, WritingIsPlain

(* The four steps that are not plain, and the end of the process. *)

LEMMA AdmitNewKeepsSender ==
  ASSUME TypeInv, SenderInv, NEW w \in Workers, AdmitNew(w)
  PROVE  SenderInv'
<1> DEFINE r == Req[w]
<1>1. r \in Requests /\ ~Admitted(r) /\ owner[r] = NoWorker
  BY CoordinatorAssumption DEF AdmitNew, Admit, SenderInv, Owned
<1>2. /\ \A q \in Requests \ {r} : owner'[q] = owner[q] /\ turns'[q] = turns[q]
      /\ owner'[r] = w
      /\ Admitted(r)'
  <2>1. [session |-> SessionOf[w], input |-> Input[w], state |-> "Prepared"] \in Row
    BY CoordinatorAssumption DEF Row, TurnState
  <2> QED
    BY <1>1, <2>1, NoRowAssumption
       DEF AdmitNew, Admit, Admitted, TypeInv, LedgerTypeOK, Shared
<1>3. Pending' = Pending /\ Clicked' = Clicked
  BY PendingQuiet DEF AdmitNew, driverVars, Clicked
<1>4. OthersStay(w) /\ pc'[w] = "prepare" /\ pc[w] = "admit" /\ UNCHANGED retries
  BY GotoMoves DEF AdmitNew, TypeInv, KeepTracking
<1>5. \A q \in Requests : Intended(q) => q # r /\ Intended(q)'
  BY <1>1, <1>2 DEF Intended, Admitted
<1>6. \A v \in Workers : Req[v] \in Requests /\ v # NoWorker
  BY CoordinatorAssumption
<1>7. \A p \in Pending : RequestOf(p[2]) \in Requests \ {r}
  <2>1. \A p \in Pending : p[2] \in Handles
    BY PendingHandles DEF TypeInv
  <2> QED
    BY <1>1, <1>6, <2>1 DEF SenderInv, Owned, RequestOf, Owner, Handles
<1>8. \A h \in Clicked : RequestOf(h) \in Requests \ {r}
  BY <1>1, <1>6 DEF SenderInv, Owned, RequestOf, Owner, Handles, Clicked
<1>9. Owned'
  <2>1. \A q \in Requests : owner'[q] # NoWorker => Admitted(q)'
    BY <1>2 DEF SenderInv, Owned, Admitted
  <2>2. ASSUME NEW v \in Workers, Working(v)' PROVE owner'[Req[v]] = v
    <3>1. CASE v = w
      BY <1>2, <3>1
    <3>2. CASE v # w
      BY <1>1, <1>2, <1>4, <1>6, <2>2, <3>2 DEF SenderInv, Owned, Working, OthersStay
    <3> QED
      BY <3>1, <3>2
  <2>3. \A p \in Pending : owner'[RequestOf(p[2])] = Owner(p[2])
    BY <1>2, <1>7 DEF SenderInv, Owned
  <2>4. \A h \in Clicked : owner'[RequestOf(h)] = Owner(h)
    BY <1>2, <1>8 DEF SenderInv, Owned
  <2> QED
    BY <1>3, <2>1, <2>2, <2>3, <2>4 DEF Owned, RequestOf
<1>10. Announced'
  <2>1. \A p \in Pending : p[1] \in {"Submit", "Clicked"} => Intended(RequestOf(p[2]))'
    BY <1>5, <1>7 DEF SenderInv, Announced, RequestOf
  <2>2. \A h \in Clicked : Intended(RequestOf(h))'
    BY <1>5, <1>8 DEF SenderInv, Announced, RequestOf
  <2>3. ASSUME NEW v \in Workers
        PROVE  /\ pc'[v] = "submit" => Intended(Req[v])'
               /\ pc'[v] = "write" /\ after'[v] = "submit" => plan'[v] = <<"Submitting">>
               /\ retries'[v] > 0 => Intended(Req[v])' /\ pc'[v] \notin Starting
    <3>1. CASE v = w
      BY <1>1, <1>4, <1>5, <3>1 DEF SenderInv, Announced, Starting
    <3>2. CASE v # w
      BY <1>4, <1>5, <1>6, <3>2 DEF SenderInv, Announced, OthersStay, Starting
    <3> QED
      BY <3>1, <3>2
  <2> QED
    BY <1>3, <2>1, <2>2, <2>3 DEF Announced, Starting
<1> QED
  BY <1>9, <1>10 DEF SenderInv

\* The other steps leave the owners, the pending commands and the clicks alone
\* and at most advance rows.
LEMMA AdvanceKeepsSender ==
  ASSUME TypeInv, SenderInv, [LedgerNext]_turns, UNCHANGED owner,
         Pending' \subseteq Pending, Clicked' = Clicked,
         \A v \in Workers : Working(v)' => Working(v),
         \A v \in Workers :
           /\ pc'[v] = "submit" => Intended(Req[v])'
           /\ pc'[v] = "write" /\ after'[v] = "submit" => plan'[v] = <<"Submitting">>
           /\ retries'[v] > 0 => Intended(Req[v])' /\ pc'[v] \notin Starting
  PROVE  SenderInv'
<1>1. \A r \in Requests : (Admitted(r) => Admitted(r)') /\ (Intended(r) => Intended(r)')
  BY IntentStays DEF TypeInv
<1>2. /\ \A p \in Pending : RequestOf(p[2]) \in Requests
      /\ \A h \in Clicked : RequestOf(h) \in Requests
  <2>1. \A p \in Pending : p[2] \in Handles
    BY PendingHandles DEF TypeInv
  <2> QED
    BY <2>1, CoordinatorAssumption DEF RequestOf, Owner, Handles, Clicked
<1>3. Owned'
  BY <1>1 DEF SenderInv, Owned, RequestOf
<1>4. Announced'
  BY <1>1, <1>2 DEF SenderInv, Announced, RequestOf, Starting
<1> QED
  BY <1>3, <1>4 DEF SenderInv

LEMMA WriteTurnKeepsSender ==
  ASSUME TypeInv, SenderInv, NEW w \in Workers, WriteTurn(w)
  PROVE  SenderInv'
<1>1. /\ pc[w] = "write" /\ Transition(Req[w], Head(plan[w]))
      /\ UNCHANGED <<owner, retries>>
  BY DEF WriteTurn, KeepTracking, sharedVars
<1>2. Req[w] \in Requests /\ turns[Req[w]] \in Row
  BY <1>1, CoordinatorAssumption DEF Transition, Admitted, TypeInv, LedgerTypeOK
<1>3. LedgerNext
  BY <1>1, <1>2, SuccessorsFacts DEF LedgerNext, Transition, Row
<1>4. Pending' = Pending /\ Clicked' = Clicked
  BY PendingQuiet DEF WriteTurn, driverVars, Clicked
<1>5. /\ OthersStay(w)
      /\ \/ pc'[w] = after[w] /\ Len(plan[w]) = 1
         \/ pc'[w] = "write" /\ after'[w] = after[w] /\ Len(plan[w]) # 1
  <2>1. CASE Len(plan[w]) = 1
    BY <2>1, LeaveMoves DEF WriteTurn, TypeInv
  <2>2. CASE Len(plan[w]) # 1
    BY <2>2 DEF WriteTurn, TypeInv, Control, OthersStay
  <2> QED
    BY <2>1, <2>2
<1>6. after[w] = "submit" => plan[w] = <<"Submitting">>
  BY <1>1 DEF SenderInv, Announced
<1>7. after[w] = "submit" => Len(plan[w]) = 1 /\ Intended(Req[w])'
  <2>1. Len(<<"Submitting">>) = 1 /\ Head(<<"Submitting">>) = "Submitting"
    OBVIOUS
  <2>2. ASSUME after[w] = "submit" PROVE turns'[Req[w]].state = "Submitting"
    BY <1>1, <1>2, <1>6, <2>1, <2>2 DEF Transition, TypeInv, LedgerTypeOK, Row
  <2>3. Admitted(Req[w])'
    BY <1>1, <1>2, <1>3, IntentStays DEF Transition, TypeInv
  <2> QED
    BY <1>6, <2>1, <2>2, <2>3 DEF Intended
<1>8. \A v \in Workers : Working(v)' => Working(v)
  BY <1>1, <1>5 DEF Working, OthersStay
<1>9. \A v \in Workers : Intended(Req[v]) => Intended(Req[v])'
  BY <1>3, IntentStays, CoordinatorAssumption DEF TypeInv
<1>10. ASSUME NEW v \in Workers
       PROVE  /\ pc'[v] = "submit" => Intended(Req[v])'
              /\ pc'[v] = "write" /\ after'[v] = "submit" => plan'[v] = <<"Submitting">>
              /\ retries'[v] > 0 => Intended(Req[v])' /\ pc'[v] \notin Starting
  <2>1. CASE v = w
    <3>1. after[w] \notin Starting \cup {"write"}
      BY <1>1 DEF TypeInv, Control, Targets, Starting
    <3> QED
      BY <1>1, <1>5, <1>7, <1>9, <2>1, <3>1 DEF SenderInv, Announced, Starting
  <2>2. CASE v # w
    BY <1>1, <1>5, <1>9, <2>2 DEF SenderInv, Announced, OthersStay, Starting
  <2> QED
    BY <2>1, <2>2
<1> QED
  BY <1>1, <1>3, <1>4, <1>8, <1>10, AdvanceKeepsSender

LEMMA ReadmitKeepsSender ==
  ASSUME TypeInv, SenderInv, NEW w \in Workers, Readmit(w)
  PROVE  SenderInv'
<1>1. pc[w] = "readmit" /\ UNCHANGED <<turns, owner>>
  BY DEF Readmit, sharedVars
<1>2. Pending' = Pending /\ Clicked' = Clicked
  BY PendingQuiet DEF Readmit, driverVars, Clicked
<1>3. \A r : Intended(r)' <=> Intended(r)
  BY <1>1 DEF Intended, Admitted
<1>4. /\ OthersStay(w)
      /\ pc'[w] \in {"finish", "backoff"} \/ (pc'[w] = "write" /\ after'[w] = "finish")
  <2>1. CASE \E p \in {"finish", "backoff"} : Goto(w, p)
    BY <2>1, GotoMoves DEF TypeInv
  <2>2. CASE Write(w, <<"Cancelled">>, "finish")
    <3>1. <<"Cancelled">> # <<>>
      OBVIOUS
    <3> QED
      BY <2>2, <3>1, WriteMoves DEF TypeInv
  <2> QED
    BY <2>1, <2>2 DEF Readmit
<1>5. /\ \A v \in Workers \ {w} : retries'[v] = retries[v]
      /\ \/ retries'[w] = retries[w]
         \/ turns[Req[w]].state \in {"Submitted", "Generating"}
  BY DEF Readmit, TypeInv, Control
<1>6. Admitted(Req[w])
  BY <1>1, CoordinatorAssumption DEF SenderInv, Owned, Working
<1>7. ASSUME NEW v \in Workers
      PROVE  /\ Working(v)' => Working(v)
             /\ pc'[v] = "submit" => Intended(Req[v])'
             /\ pc'[v] = "write" /\ after'[v] = "submit" => plan'[v] = <<"Submitting">>
             /\ retries'[v] > 0 => Intended(Req[v])' /\ pc'[v] \notin Starting
  <2>1. CASE v = w
    <3>1. retries'[w] > 0 => Intended(Req[w])
      BY <1>5, <1>6 DEF SenderInv, Announced, Intended
    <3> QED
      BY <1>1, <1>3, <1>4, <2>1, <3>1 DEF Working, Starting
  <2>2. CASE v # w
    BY <1>3, <1>4, <1>5, <2>2 DEF SenderInv, Announced, OthersStay, Starting, Working
  <2> QED
    BY <2>1, <2>2
<1> QED
  BY <1>1, <1>2, <1>7, AdvanceKeepsSender

LEMMA FinishKeepsSender ==
  ASSUME TypeInv, SenderInv, NEW w \in Workers, Finish(w)
  PROVE  SenderInv'
<1>1. UNCHANGED <<turns, owner>>
  BY DEF Finish
<1>2. Pending' = Pending /\ Clicked' = Clicked
  BY PendingQuiet DEF Finish, driverVars, Clicked
<1>3. \A r : Intended(r)' <=> Intended(r)
  BY <1>1 DEF Intended, Admitted
<1>4. OthersStay(w) /\ pc'[w] = "done"
  BY GotoMoves DEF Finish, TypeInv
<1>5. /\ \A v \in Workers \ {w} : retries'[v] = retries[v]
      /\ retries'[w] = 0
  BY ForgetKeeps DEF Finish, Forget
<1>6. ASSUME NEW v \in Workers
      PROVE  /\ Working(v)' => Working(v)
             /\ pc'[v] = "submit" => Intended(Req[v])'
             /\ pc'[v] = "write" /\ after'[v] = "submit" => plan'[v] = <<"Submitting">>
             /\ retries'[v] > 0 => Intended(Req[v])' /\ pc'[v] \notin Starting
  <2>1. CASE v = w
    BY <1>4, <1>5, <2>1 DEF Working
  <2>2. CASE v # w
    BY <1>3, <1>4, <1>5, <2>2 DEF SenderInv, Announced, OthersStay, Starting, Working
  <2> QED
    BY <2>1, <2>2
<1> QED
  BY <1>1, <1>2, <1>6, AdvanceKeepsSender

LEMMA RestartKeepsSender ==
  ASSUME TypeInv, SenderInv, Restart
  PROVE  SenderInv'
<1>1. UNCHANGED <<turns, owner>>
  BY DEF Restart
<1>2. Pending' = {} /\ Clicked' = Clicked
  <2>1. Commands' = {}
    BY DEF Restart, DriverGone, Commands
  <2> QED
    BY <2>1 DEF Pending, Restart, DriverGone, Clicked
<1>3. ASSUME NEW v \in Workers
      PROVE  pc'[v] \in {"idle", "done", "dead"} /\ retries'[v] = 0
  BY DEF Restart, Forget
<1>4. ASSUME NEW v \in Workers
      PROVE  /\ Working(v)' => Working(v)
             /\ pc'[v] = "submit" => Intended(Req[v])'
             /\ pc'[v] = "write" /\ after'[v] = "submit" => plan'[v] = <<"Submitting">>
             /\ retries'[v] > 0 => Intended(Req[v])' /\ pc'[v] \notin Starting
  BY <1>3 DEF Working
<1> QED
  BY <1>1, <1>2, <1>4, AdvanceKeepsSender

LEMMA SenderStep == TypeInv /\ SenderInv /\ [Next]_vars => SenderInv'
<1> SUFFICES ASSUME TypeInv, SenderInv, [Next]_vars PROVE SenderInv'
  OBVIOUS
<1>1. CASE UNCHANGED vars
  BY <1>1 DEF vars, driverVars, turnVars, sharedVars, SenderInv, Owned, Announced, Pending,
              Commands, Clicked, Working, Intended, Admitted
<1>2. CASE OwnerThread
  BY <1>2, DriverKeepsSender
<1>3. CASE Restart
  BY <1>3, RestartKeepsSender
<1>4. ASSUME NEW w \in Workers, Execute(w) \/ Cancel(w) \/ Step(w) PROVE SenderInv'
  <2>1. CASE AdmitNew(w) \/ WriteTurn(w) \/ Readmit(w) \/ Finish(w)
    BY <2>1, AdmitNewKeepsSender, WriteTurnKeepsSender, ReadmitKeepsSender, FinishKeepsSender
  <2>2. CASE Plain(w)
    BY <2>2, PlainKeepsSender
  <2>3. \/ AdmitNew(w) \/ WriteTurn(w) \/ Readmit(w) \/ Finish(w)
        \/ Plain(w)
    BY <1>4, StartIsPlain, AsksArePlain, PrepareIsPlain, AnswersArePlain, EndIsPlain DEF Step
  <2> QED
    BY <2>1, <2>2, <2>3
<1> QED
  BY <1>1, <1>2, <1>3, <1>4 DEF Next

LEMMA SenderInvariant == Spec => [](TypeInv /\ SenderInv)
<1>1. TypeInv /\ SenderInv /\ [Next]_vars => (TypeInv /\ SenderInv)'
  BY TypeStep, SenderStep
<1> QED
  BY <1>1, Initially, SenderInitially, PTL DEF Spec

\* Of all the calls that present one request, whatever is timed out, queued,
\* retried or restarted, only one ever clicks Send.
THEOREM OneSender == Spec => []OneSenderPerRequest
<1>1. TypeInv /\ SenderInv => OneSenderPerRequest
  BY DEF SenderInv, Owned, OneSenderPerRequest
<1> QED
  BY <1>1, SenderInvariant, PTL

\* Whenever Send may have been clicked for a request, its row says so.
THEOREM IntentPrecedesSend == Spec => []IntentBeforeSend
<1>1. TypeInv /\ SenderInv => IntentBeforeSend
  BY DEF SenderInv, Announced, IntentBeforeSend, Intended
<1> QED
  BY <1>1, SenderInvariant, PTL
-----------------------------------------------------------------------------
(* One turn at a time. *)

HolderInv == \A w \in InTurn : holder = w

Inside == Pcs \ {"idle", "acquire", "done", "dead"}

\* A step within the turn: its worker was inside and stays inside.
Within(w) ==
  /\ OthersStay(w)
  /\ pc[w] \in Inside /\ pc'[w] \in Inside
  /\ UNCHANGED holder

\* Where an action inside the turn sends its worker.
MovesTo(w, p) == Goto(w, p) \/ Leave(w, p) \/ \E states : Write(w, states, p)

LEMMA MovesWithin ==
  ASSUME TypeInv, NEW w \in Workers, pc[w] \in Inside, UNCHANGED holder,
         NEW p \in Inside, MovesTo(w, p)
  PROVE  Within(w)
<1>1. "write" \in Inside
  BY DEF Inside, Pcs
<1>2. CASE Goto(w, p)
  BY <1>2, GotoMoves DEF TypeInv, Within
<1>3. CASE \E states : Write(w, states, p)
  BY <1>1, <1>3, WriteMoves DEF TypeInv, Within
<1>4. CASE Leave(w, p)
  BY <1>4, LeaveMoves DEF TypeInv, Within
<1> QED
  BY <1>2, <1>3, <1>4 DEF MovesTo

LEMMA StepIsWithin ==
  ASSUME TypeInv, NEW w \in Workers, Step(w), ~Acquire(w), ~Refused(w), ~Finish(w)
  PROVE  Within(w)
<1> DEFINE Places == {"prepare", "preparing", "check", "gate", "submit", "submitting", "observe",
                      "observing", "verify", "verifying", "stop", "stopping", "release",
                      "releasing", "readmit", "backoff", "finish"}
<1>0. \A p \in Places \cup {"admit", "write"} : p \in Inside
  BY DEF Inside, Pcs
<1> DEFINE Moving == \E p \in Places : MovesTo(w, p)
<1>1. CASE AdmitNew(w) \/ AdmitDuplicate(w) \/ AdmitFails(w)
  <2>1. pc[w] \in Places \cup {"admit", "write"} /\ Moving /\ UNCHANGED holder
    BY <1>1 DEF AdmitNew, AdmitDuplicate, AdmitFails, MovesTo, sharedVars
  <2> QED
    BY <1>0, <2>1, MovesWithin
<1>2. CASE WriteTurn(w)
  <2>1. after[w] \in Inside /\ UNCHANGED holder
    BY <1>0, <1>2 DEF WriteTurn, TypeInv, Control, Targets, sharedVars
  <2>2. CASE Len(plan[w]) = 1
    BY <1>0, <1>2, <2>1, <2>2, MovesWithin DEF WriteTurn, MovesTo
  <2>3. CASE Len(plan[w]) # 1
    BY <1>0, <1>2, <2>1, <2>3 DEF WriteTurn, Within, OthersStay, TypeInv, Control
  <2> QED
    BY <2>2, <2>3
<1>3. CASE WriteFails(w)
  <2>1. pc[w] \in Places \cup {"admit", "write"} /\ Moving /\ UNCHANGED holder
    BY <1>3 DEF WriteFails, ErrorExit, MovesTo, sharedVars
  <2> QED
    BY <1>0, <2>1, MovesWithin
<1>4. CASE \/ AskPrepare(w) \/ AskSubmit(w) \/ AskObserve(w) \/ AskVerify(w)
           \/ AskStop(w) \/ AskRelease(w)
  <2>1. pc[w] \in Places \cup {"admit", "write"} /\ Moving /\ UNCHANGED holder
    BY <1>4 DEF AskPrepare, AskSubmit, AskObserve, AskVerify, AskStop, AskRelease, Ask,
                MovesTo, sharedVars
  <2> QED
    BY <1>0, <2>1, MovesWithin
<1>5. CASE \/ PrepareAnswered(w) \/ PrepareUnanswered(w)
           \/ RejectPage(w) \/ AcceptPage(w) \/ GateCloses(w) \/ GateOpens(w)
  <2>1. pc[w] \in Places \cup {"admit", "write"} /\ UNCHANGED holder
    BY <1>5 DEF PrepareAnswered, PrepareUnanswered, RejectPage, AcceptPage, GateCloses,
                GateOpens, Told, Untold, sharedVars
  <2>2. Moving
    BY <1>5 DEF PrepareAnswered, PrepareUnanswered, RejectPage, AcceptPage, GateCloses,
                GateOpens, MovesTo
  <2> QED
    BY <1>0, <2>1, <2>2, MovesWithin
<1>6. CASE \/ SubmitAnswered(w) \/ SubmitUnanswered(w)
           \/ ObserveCancelled(w) \/ ObserveSlow(w) \/ ObserveFails(w)
  <2>1. pc[w] \in Places \cup {"admit", "write"} /\ UNCHANGED holder
    BY <1>6 DEF SubmitAnswered, SubmitUnanswered, ObserveCancelled, ObserveSlow,
                ObserveFails, Told, Untold, sharedVars
  <2>2. Moving
    BY <1>6 DEF SubmitAnswered, SubmitUnanswered, ObserveCancelled, ObserveSlow,
                ObserveFails, MovesTo
  <2> QED
    BY <1>0, <2>1, <2>2, MovesWithin
<1>7. CASE ObserveRejects(w)
  <2>1. pc[w] \in Places \cup {"admit", "write"} /\ UNCHANGED holder
    BY <1>7 DEF ObserveRejects, Told, sharedVars
  <2>2. Moving
    BY <1>7 DEF ObserveRejects, MovesTo
  <2> QED
    BY <1>0, <2>1, <2>2, MovesWithin
<1>8. CASE ObserveAccepts(w)
  <2>1. pc[w] \in Places \cup {"admit", "write"} /\ UNCHANGED holder
    BY <1>8 DEF ObserveAccepts, Told, sharedVars
  <2>2. Moving
    BY <1>8 DEF ObserveAccepts, MovesTo
  <2> QED
    BY <1>0, <2>1, <2>2, MovesWithin
<1>9. CASE Publish(w) \/ Complete(w) \/ VerifyUnanswered(w)
  <2>1. pc[w] \in Places \cup {"admit", "write"} /\ UNCHANGED holder
    BY <1>9 DEF Publish, Complete, VerifyUnanswered, Told, Untold, sharedVars
  <2>2. Moving
    BY <1>9 DEF Publish, Complete, VerifyUnanswered, MovesTo
  <2> QED
    BY <1>0, <2>1, <2>2, MovesWithin
<1>10. CASE StopEnds(w) \/ Released(w) \/ NotReleased(w)
  <2>1. pc[w] \in Places \cup {"admit", "write"} /\ UNCHANGED holder
    BY <1>10 DEF StopEnds, Released, NotReleased, Told, Untold, sharedVars
  <2>2. Moving
    BY <1>10 DEF StopEnds, Released, NotReleased, MovesTo
  <2> QED
    BY <1>0, <2>1, <2>2, MovesWithin
<1>11. CASE Readmit(w) \/ BackoffEnds(w) \/ BackoffCancelled(w)
  <2>1. pc[w] \in Places \cup {"admit", "write"} /\ Moving /\ UNCHANGED holder
    BY <1>11 DEF Readmit, BackoffEnds, BackoffCancelled, MovesTo, sharedVars
  <2> QED
    BY <1>0, <2>1, MovesWithin
<1> QED
  BY <1>1, <1>2, <1>3, <1>4, <1>5, <1>6, <1>7, <1>8, <1>9, <1>10, <1>11 DEF Step

\* What a step does to the set of workers inside a turn and to the lease.
LEMMA InTurnStep ==
  ASSUME TypeInv, HolderInv, [Next]_vars
  PROVE  HolderInv' /\ [Lease!Next]_InTurn
<1> USE DEF HolderInv, InTurn, Running
<1>1. CASE UNCHANGED vars
  BY <1>1 DEF vars, turnVars, sharedVars
<1>2. CASE OwnerThread
  BY <1>2 DEF OwnerThread, turnVars, sharedVars
<1>3. CASE Restart
  <2>1. InTurn' = {}
    BY <1>3 DEF Restart
  <2> QED
    BY <2>1 DEF Lease!Next, Lease!Lose
<1>4. ASSUME NEW w \in Workers, Execute(w) \/ Cancel(w) \/ Refused(w)
      PROVE  InTurn' = InTurn /\ UNCHANGED holder
  <2>1. CASE Execute(w)
    BY <2>1, GotoMoves DEF Execute, TypeInv, OthersStay, sharedVars
  <2>2. CASE Cancel(w)
    BY <2>2 DEF Cancel, sharedVars
  <2>3. CASE Refused(w)
    BY <2>3, GotoMoves DEF Refused, TypeInv, OthersStay, sharedVars
  <2> QED
    BY <1>4, <2>1, <2>2, <2>3
<1>5. ASSUME NEW w \in Workers, Acquire(w)
      PROVE  HolderInv' /\ Lease!Grant(w)
  <2>1. InTurn = {}
    BY <1>5, CoordinatorAssumption DEF Acquire
  <2>2. InTurn' = {w} /\ holder' = w
    BY <1>5, <2>1, GotoMoves DEF Acquire, TypeInv, OthersStay
  <2>3. Cardinality({}) < 1
    BY FS_EmptySet
  <2>4. HolderInv'
    BY <2>2
  <2>5. Lease!Grant(w)
    <3> HIDE DEF InTurn
    <3> QED
      BY <2>1, <2>2, <2>3 DEF Lease!Grant, Lease!Cardinality, Cardinality
  <2> QED
    BY <2>4, <2>5
<1>6. ASSUME NEW w \in Workers, Finish(w)
      PROVE  HolderInv' /\ Lease!Return(w)
  <2>1. w \in InTurn /\ InTurn' = InTurn \ {w}
    BY <1>6, GotoMoves DEF Finish, TypeInv, OthersStay
  <2>2. InTurn' = {}
    BY <2>1
  <2> QED
    BY <2>1, <2>2 DEF Lease!Return
<1>7. ASSUME NEW w \in Workers, Within(w)
      PROVE  InTurn' = InTurn /\ UNCHANGED holder
  BY <1>7 DEF Within, OthersStay, Inside
<1> QED
  BY <1>1, <1>2, <1>3, <1>4, <1>5, <1>6, <1>7, StepIsWithin DEF Next, Step, Lease!Next

\* No two turns are ever inside at once: the lease is entered and left as the
\* scheduler's abstract specification says.
THEOREM TurnsUseLease == Spec => UsesLease
<1>1. Init => HolderInv /\ Lease!Init
  BY DEF Init, HolderInv, InTurn, Running, Lease!Init
<1>2. TypeInv /\ HolderInv /\ [Next]_vars => TypeInv' /\ HolderInv' /\ [Lease!Next]_InTurn
  BY TypeStep, InTurnStep
<1> QED
  BY <1>1, <1>2, Initially, PTL DEF Spec, UsesLease, Lease!Spec
-----------------------------------------------------------------------------
(* The records of a turn, its readings and its pages.                      *)
(*                                                                         *)
(* What the ledger, the tracker, the coordinator, the readings and the     *)
(* owner thread know of one turn is kept in five places, and each place of *)
(* the worker's program allows only some combinations.  The invariant says *)
(* which: of the open command of a worker (TalkOf), of its row (RowOf), of *)
(* its clicks (SendOf), of its result (ResultOf) and of its pages          *)
(* (PagesOf).  A worker that has states to write is judged by the place it *)
(* is going to and by the state its row will have there.                   *)

Asking == {"preparing", "submitting", "observing", "verifying", "stopping", "releasing"}

\* The place where the reply to a command is awaited.
PlaceOf(op) ==
  CASE op = "Prepare" -> "preparing"
    [] op \in {"Submit", "Clicked"} -> "submitting"
    [] op = "Observe" -> "observing"
    [] op = "Verify" -> "verifying"
    [] op = "Stop" -> "stopping"
    [] op = "Release" -> "releasing"

\* The commands whose reply worker w awaits.
Awaits(w, c) == c # Idle /\ c.open /\ Owner(c.handle) = w
Awaited(w) == {k \in DOMAIN queue : Awaits(w, queue[k])}

\* A worker has at most one open command, which is the one it waits for, and none once it
\* has been answered.
TalkOf(w) ==
  /\ \A j, k \in Awaited(w) : j = k
  /\ Awaits(w, current) => Awaited(w) = {}
  /\ reply[w] # "none" => ~Awaits(w, current) /\ Awaited(w) = {} /\ pc[w] \in Asking
  /\ \A c \in Commands : Awaits(w, c) => pc[w] = PlaceOf(c.op) /\ c.handle = PageOf(w)

\* Where worker w is, or is going to be, and the state its row has there.
Place(w) == IF pc[w] = "write" THEN after[w] ELSE pc[w]
Heading(w) == IF pc[w] = "write" THEN plan[w][Len(plan[w])] ELSE turns[Req[w]].state

Answering == {"Submitted", "Generating"}

\* Whether the row of worker w can be in that state when it is at that place.
RowFits(w, p, state) ==
  /\ p \in {"prepare", "preparing", "check", "backoff", "gate", "submit", "submitting"} =>
       IF Resumed(w) THEN state \in Answering /\ synced[w] = state
       ELSE state = CASE p \in {"submit", "submitting"} -> "Submitting"
                      [] p = "gate" -> "ObservedBaseline"
                      [] OTHER -> "Prepared"
  /\ p = "submitting" => tracker[w] = "Submitting"
  /\ p \in {"observe", "observing"} =>
       /\ synced[w] = state /\ state \in {"Submitting"} \cup Answering
       /\ tracker[w] \in {"Submitting"} \cup Answering
       /\ tracker[w] # "Submitting" => state # "Submitting"
       /\ tracker[w] = "Generating" => state = "Generating"
  /\ p \in {"verify", "verifying"} =>
       /\ synced[w] = state /\ state = "Generating"
       /\ tracker[w] \in {"Generating", "Completed"}
  /\ p \in {"stop", "stopping"} => state \in TerminalStates /\ ~Retries(w)
  /\ p \in {"release", "releasing"} =>
       IF Retries(w) THEN state \in Answering
       ELSE state \in TerminalStates \/ result[w] = "E_LEDGER"
  /\ p = "readmit" => state \in Answering
  /\ p \in {"finish", "done"} => state \in TerminalStates \/ result[w] = "E_LEDGER"
  /\ p \in {"stop", "stopping", "release", "releasing", "finish", "done"} =>
       (result[w] \in {"delivered", "replayed"} => state = "Completed")

\* A list of writes that the ledger accepts.
IsPath(state, states) ==
  /\ states[1] \in Successors(state)
  /\ \A k \in 1..(Len(states) - 1) : states[k + 1] \in Successors(states[k])

RowOf(w) ==
  /\ pc[w] \in Starting => owner[Req[w]] # w
  /\ owner[Req[w]] = w =>
       /\ pc[w] = "write" => IsPath(turns[Req[w]].state, plan[w])
       /\ RowFits(w, Place(w), Heading(w))

\* A worker's page that was clicked, and those whose click is still to come.
IsClicked(w, k) == <<w, k>> \in Clicked
Unsent(w) == {k \in Attempts : <<"Submit", <<w, k>> >> \in Pending /\ send[<<w, k>>] = "fresh"}

\* Every click was explicitly failed, or one is known to have created its message.
AllFailed(w) == \A k \in Attempts : IsClicked(w, k) => evidence[<<w, k>>] = "failed"
Known(w) ==
  AllFailed(w) \/ \E k \in Attempts : IsClicked(w, k) /\ evidence[<<w, k>>] \in {"acknowledged", "completed"}

Waiting == Starting \cup {"prepare", "preparing", "check", "backoff", "gate", "submit"}

\* What has been read from the pages of worker w when it is at that place.
SendFits(w, p) ==
  LET n == retries[w] IN
  /\ p \notin {"done", "dead"} =>
       \A k \in Attempts : /\ k < n => evidence[<<w, k>>] = "failed"
                           /\ k > n => /\ evidence[<<w, k>>] = "none"
                                       /\ ~IsClicked(w, k) /\ k \notin Unsent(w)
  /\ p \in Waiting => evidence[<<w, n>>] = "none" /\ ~IsClicked(w, n) /\ Unsent(w) = {}
  /\ p = "submitting" =>
       /\ evidence[<<w, n>>] = "none" /\ Unsent(w) \subseteq {n}
       /\ reply[w] = "ok" => IsClicked(w, n)
  /\ p \in {"observe", "observing"} =>
       /\ IsClicked(w, n) /\ Unsent(w) = {}
       /\ evidence[<<w, n>>] = IF tracker[w] = "Submitting" THEN "none" ELSE "acknowledged"
  /\ p \in {"verify", "verifying"} =>
       /\ IsClicked(w, n) /\ Unsent(w) = {}
       /\ evidence[<<w, n>>] = IF tracker[w] = "Completed" THEN "completed" ELSE "acknowledged"
  /\ p = "readmit" \/ (p \in {"release", "releasing"} /\ Retries(w)) =>
       evidence[<<w, n>>] = "failed" /\ Unsent(w) = {}

\* What an outcome, recorded or about to be, says of the clicks.
OutcomeFits(w, state) ==
  /\ state \in {"Failed", "Cancelled"} => Unsent(w) = {} /\ Known(w)
  /\ state = "Completed" =>
       /\ Unsent(w) = {}
       /\ \E k \in Attempts : IsClicked(w, k) /\ evidence[<<w, k>>] = "completed"

SendOf(w) ==
  /\ SendFits(w, Place(w))
  /\ \A j, k \in Unsent(w) : j = k
  /\ \A k \in Unsent(w) : evidence[<<w, k>>] = "none"
  /\ Unsent(w) # {} =>
       /\ AllFailed(w)
       /\ turns[Req[w]].state \in {"Submitting", "SubmissionUncertain"} \cup Answering
  /\ pc[w] = "write" => OutcomeFits(w, Heading(w))
  /\ owner[Req[w]] = w => OutcomeFits(w, turns[Req[w]].state)

\* What is returned, or about to be, agrees with the row.
ResultOf(w) ==
  /\ result[w] \notin {"E_TURN_TRANSITION", "E_TURN_STATE"}
  /\ pc[w] \in {"finish", "done"} /\ result[w] \in {"delivered", "replayed"} =>
       Admitted(Req[w]) /\ turns[Req[w]].state = "Completed"

\* A page that nobody but the owner thread cares for any more.
Disposed(h) == page[h] = "leased" => h \in leaked \/ ReleasePending(h)

PageFits(w, p) ==
  LET n == retries[w] IN
  /\ \A k \in Attempts : /\ p \in {"done", "dead"} \/ k < n => Disposed(<<w, k>>)
                         /\ k > n => (p \notin {"done", "dead"} => page[<<w, k>>] # "leased")
  /\ p \in Starting \cup {"prepare", "backoff"} => page[<<w, n>>] # "leased"
  /\ p = "preparing" => (page[<<w, n>>] = "leased" => reply[w] = "prepared")
  /\ p \in {"releasing", "readmit", "finish"} => Disposed(<<w, n>>)

PagesOf(w) == PageFits(w, Place(w))

LocalFits(w) == RowOf(w) /\ SendOf(w) /\ ResultOf(w) /\ PagesOf(w)

\* A row belongs to the call it was admitted for; a click is reported once it has happened;
\* what the cache holds was completed.
RowsBound ==
  \A r \in Requests : Admitted(r) =>
    /\ owner[r] \in Workers /\ Req[owner[r]] = r
    /\ turns[r].session = SessionOf[owner[r]] /\ turns[r].input = Input[owner[r]]

ClicksReported == \A p \in Pending : p[1] = "Clicked" => p[2] \in Clicked

CacheFits == \A k \in DOMAIN replay : Admitted(replay[k]) /\ turns[replay[k]].state = "Completed"

TurnInv ==
  /\ \A w \in Workers : TalkOf(w) /\ LocalFits(w)
  /\ RowsBound /\ ClicksReported /\ CacheFits

-----------------------------------------------------------------------------
(* The open command of a worker.                                            *)

LEMMA CommandsTyped ==
  ASSUME DriverTypeOK
  PROVE  /\ Commands \subseteq Command
         /\ \A k \in DOMAIN queue : queue[k] \in Command /\ queue[k] \in Commands
         /\ current # Idle => current \in Command /\ current \in Commands
  BY DriverAssumption DEF DriverTypeOK, Commands

LEMMA ReleaseIsPending ==
  ASSUME DriverTypeOK, NEW h
  PROVE  ReleasePending(h) <=> <<"Release", h>> \in Pending
<1>1. /\ \A k \in DOMAIN queue : queue[k] \in Commands
      /\ current # Idle => current \in Commands
  BY CommandsTyped
<1>2. \A c \in Commands : (c = current /\ current # Idle) \/ \E k \in DOMAIN queue : c = queue[k]
  BY DEF Commands
<1> QED
  BY <1>1, <1>2 DEF ReleasePending, Pending

LEMMA PlaceIsAsking ==
  ASSUME NEW op \in Ops \cup {"Clicked"}
  PROVE  PlaceOf(op) \in Asking
  BY DEF Ops, PlaceOf, Asking

\* A worker that is not waiting for an answer has no open command.
LEMMA NotAsking ==
  ASSUME DriverTypeOK, NEW w \in Workers, TalkOf(w), pc[w] \notin Asking
  PROVE  reply[w] = "none" /\ ~Awaits(w, current) /\ Awaited(w) = {}
<1>1. \A c \in Commands : ~Awaits(w, c)
  BY CommandsTyped, PlaceIsAsking DEF TalkOf, Command
<1>2. ~Awaits(w, current)
  BY <1>1, CommandsTyped DEF Awaits
<1> QED
  BY <1>1, <1>2, CommandsTyped DEF TalkOf, Awaited

\* The queue and the replies are as they were, and so is the worker, or it waits for nothing.
LEMMA TalkQuiet ==
  ASSUME DriverTypeOK, NEW w \in Workers, TalkOf(w), UNCHANGED <<queue, current>>,
         reply'[w] = reply[w],
         pc[w] \notin Asking \/ (pc'[w] = pc[w] /\ retries'[w] = retries[w])
  PROVE  TalkOf(w)'
<1>1. /\ Awaited(w)' = Awaited(w) /\ Commands' = Commands
      /\ \A c : Awaits(w, c)' <=> Awaits(w, c)
      /\ Awaits(w, current)' <=> Awaits(w, current)
  BY DEF Awaited, Commands, Awaits
<1>2. CASE pc[w] \notin Asking
  <2>1. reply[w] = "none" /\ ~Awaits(w, current) /\ Awaited(w) = {}
    BY <1>2, NotAsking
  <2>2. \A c \in Commands : ~Awaits(w, c)
    BY <2>1 DEF Commands, Awaited
  <2> QED
    BY <1>1, <2>1, <2>2 DEF TalkOf
<1>3. CASE pc'[w] = pc[w] /\ retries'[w] = retries[w]
  BY <1>1, <1>3 DEF TalkOf, PageOf
<1> QED
  BY <1>2, <1>3

LEMMA TalkRequest ==
  ASSUME TypeInv, NEW w \in Workers, TalkOf(w), NEW v \in Workers, NEW op \in Ops,
         Request(op, PageOf(v)), retries'[w] = retries[w],
         w # v => pc'[w] = pc[w],
         w = v => pc[w] \notin Asking /\ pc'[w] = PlaceOf(op)
  PROVE  TalkOf(w)'
<1> DEFINE c == [op |-> op, handle |-> PageOf(v), open |-> TRUE]
<1>0. DriverTypeOK /\ PageOf(v) \in Handles /\ Owner(PageOf(v)) = v
  BY PageOfIsHandle DEF TypeInv
<1>1. c \in Command /\ c.op = op /\ c.handle = PageOf(v) /\ c.open
  BY <1>0 DEF Command
<1>2. queue \in Seq(Command) /\ queue' = Append(queue, c) /\ UNCHANGED <<current, reply>>
  BY <1>0 DEF Request, DriverTypeOK
<1>3. Awaits(w, c) <=> w = v
  BY <1>0, <1>1, DriverAssumption DEF Awaits
<1> HIDE DEF c
<1>4. /\ Len(queue) \in Nat
      /\ DOMAIN queue' = 1..(Len(queue) + 1)
      /\ DOMAIN queue = 1..Len(queue)
      /\ \A k \in 1..Len(queue) : queue'[k] = queue[k]
      /\ queue'[Len(queue) + 1] = c
  BY <1>1, <1>2
<1>5. Commands' = Commands \cup {c}
  BY <1>2, <1>4 DEF Commands
<1>6. \A d : Awaits(w, d)' <=> Awaits(w, d)
  BY DEF Awaits
<1>7. CASE w = v
  <2>1. reply[w] = "none" /\ ~Awaits(w, current) /\ Awaited(w) = {}
    BY <1>0, <1>7, NotAsking
  <2>2. Awaited(w)' = {Len(queue) + 1}
    BY <1>3, <1>4, <1>6, <1>7, <2>1 DEF Awaited
  <2>3. \A d \in Commands : ~Awaits(w, d)
    BY <2>1 DEF Commands, Awaited
  <2>4. ASSUME NEW d \in Commands', Awaits(w, d)
        PROVE  pc'[w] = PlaceOf(d.op) /\ d.handle = PageOf(w)
    BY <1>1, <1>5, <1>7, <2>3, <2>4
  <2>5. PageOf(w)' = PageOf(w)
    BY DEF PageOf
  <2> QED
    BY <1>2, <1>6, <2>1, <2>2, <2>4, <2>5 DEF TalkOf, Awaits
<1>8. CASE w # v
  <2>1. Awaited(w)' = Awaited(w)
    BY <1>3, <1>4, <1>6, <1>8 DEF Awaited
  <2>2. PageOf(w)' = PageOf(w)
    BY DEF PageOf
  <2> QED
    BY <1>2, <1>3, <1>5, <1>6, <1>8, <2>1, <2>2 DEF TalkOf
<1> QED
  BY <1>7, <1>8

LEMMA TalkReceive ==
  ASSUME TypeInv, NEW w \in Workers, TalkOf(w), NEW v \in Workers, Receive(v), reply[v] # "none",
         w # v => pc'[w] = pc[w] /\ retries'[w] = retries[w]
  PROVE  TalkOf(w)'
<1>1. UNCHANGED <<queue, current>> /\ DriverTypeOK
  BY DEF Receive, TypeInv
<1>2. CASE w # v
  BY <1>1, <1>2, TalkQuiet DEF Receive, DriverTypeOK
<1>3. CASE w = v
  <2>1. reply'[w] = "none"
    BY <1>1, <1>3 DEF Receive, DriverTypeOK
  <2>2. ~Awaits(w, current) /\ Awaited(w) = {}
    BY <1>3 DEF TalkOf
  <2>3. /\ Awaited(w)' = Awaited(w) /\ Commands' = Commands
        /\ \A c : Awaits(w, c)' <=> Awaits(w, c)
        /\ Awaits(w, current)' <=> Awaits(w, current)
    BY <1>1 DEF Awaited, Commands, Awaits
  <2>4. \A c \in Commands : ~Awaits(w, c)
    BY <2>2 DEF Commands, Awaited
  <2> QED
    BY <2>1, <2>2, <2>3, <2>4 DEF TalkOf
<1> QED
  BY <1>2, <1>3

LEMMA TalkHangup ==
  ASSUME TypeInv, NEW w \in Workers, TalkOf(w), NEW v \in Workers, NEW lost, Hangup(v, lost),
         w # v => pc'[w] = pc[w] /\ retries'[w] = retries[w]
  PROVE  TalkOf(w)'
<1>1. ASSUME NEW c \in Command
      PROVE  /\ Hush(v, c) \in Command
             /\ Awaits(w, Hush(v, c)) <=> w # v /\ Awaits(w, c)
             /\ Awaits(w, Hush(v, c)) => Hush(v, c) = c
  BY DriverAssumption DEF Hush, Command, Awaits
<1>2. Hush(v, Idle) = Idle /\ ~Awaits(w, Idle)
  BY DEF Hush, Awaits
<1>3. /\ queue' = [k \in DOMAIN queue |-> Hush(v, queue[k])]
      /\ current' = Hush(v, current)
      /\ reply' = [reply EXCEPT ![v] = "none"]
      /\ DriverTypeOK
  BY DEF Hangup, TypeInv
<1>4. Awaits(w, current)' <=> w # v /\ Awaits(w, current)
  <2>1. Awaits(w, current)' <=> Awaits(w, Hush(v, current))
    BY <1>3 DEF Awaits
  <2> QED
    BY <1>1, <1>2, <2>1, CommandsTyped, <1>3
<1>5. Awaited(w)' = IF w = v THEN {} ELSE Awaited(w)
  <2>1. \A k \in DOMAIN queue : Awaits(w, queue'[k]) <=> w # v /\ Awaits(w, queue[k])
    BY <1>1, <1>3, CommandsTyped
  <2>2. DOMAIN queue' = DOMAIN queue /\ \A c : Awaits(w, c)' <=> Awaits(w, c)
    BY <1>3 DEF Awaits
  <2> QED
    BY <2>1, <2>2 DEF Awaited
<1>6. ASSUME NEW c \in Commands', Awaits(w, c) PROVE w # v /\ c \in Commands
  <2>1. PICK d \in Commands : c = Hush(v, d)
    <3>1. CASE c = current' /\ current' # Idle
      BY <1>2, <1>3, <3>1, CommandsTyped
    <3>2. CASE \E k \in DOMAIN queue' : c = queue'[k]
      BY <1>3, <3>2, CommandsTyped
    <3> QED
      BY <3>1, <3>2 DEF Commands
  <2> QED
    BY <1>1, <1>3, <1>6, <2>1, CommandsTyped
<1>7. CASE w = v
  <2>1. reply'[w] = "none"
    BY <1>3, <1>7 DEF DriverTypeOK
  <2> QED
    BY <1>4, <1>5, <1>6, <1>7, <2>1 DEF TalkOf, Awaits
<1>8. CASE w # v
  <2>1. reply'[w] = reply[w] /\ PageOf(w)' = PageOf(w)
    BY <1>3, <1>8 DEF DriverTypeOK, PageOf
  <2> QED
    BY <1>4, <1>5, <1>6, <1>8, <2>1 DEF TalkOf, Awaits
<1> QED
  BY <1>7, <1>8

LEMMA AnswerFacts ==
  ASSUME DriverTypeOK, current # Idle, NEW v, Answer(v), NEW w \in Workers
  PROVE  /\ current' = Idle
         /\ Awaits(w, current) => reply'[w] = v
         /\ ~Awaits(w, current) => reply'[w] = reply[w]
<1>1. current \in Command /\ Owner(current.handle) \in Workers
  BY CommandsTyped DEF Command, Handles, Owner
<1> QED
  BY <1>1 DEF Answer, Awaits, DriverTypeOK, Command

\* Every step of the owner thread but Take and PressSend is an answer.
LEMMA DriverAnswers ==
  ASSUME DriverStep, ~Take, ~PressSend
  PROVE  current # Idle /\ UNCHANGED queue /\ \E v \in Replies : Answer(v)
BY DEF DriverStep, PrepareRefused, PrepareRejected, PrepareSucceeds, SubmitFails, SubmitReturns,
       Observe, VerifyCompletion, Stop, Release, ReleaseFails, Executing, Replies

LEMMA PressedCommand ==
  ASSUME DriverTypeOK, PressSend
  PROVE  /\ current \in Command /\ current.op = "Submit" /\ current \in Commands
         /\ UNCHANGED <<queue, page, reply, leaked>>
         /\ current' \in Command /\ current' # Idle
         /\ current'.op = "Clicked" /\ current'.handle = current.handle /\ current'.open = current.open
<1>1. current \in Command /\ current.op = "Submit" /\ current \in Commands
  BY CommandsTyped DEF PressSend, Executing
<1>2. current' = [current EXCEPT !.op = "Clicked"] /\ UNCHANGED <<queue, page, reply, leaked>>
  BY DEF PressSend
<1> QED
  BY <1>1, <1>2, DriverAssumption DEF Command

LEMMA TalkDriver ==
  ASSUME TypeInv, NEW w \in Workers, TalkOf(w), DriverStep, UNCHANGED <<pc, retries>>
  PROVE  TalkOf(w)'
<1>0. /\ DriverTypeOK /\ queue \in Seq(Command) /\ Idle \notin Command
      /\ PageOf(w)' = PageOf(w)
      /\ \A c : Awaits(w, c)' <=> Awaits(w, c)
  BY DriverAssumption DEF TypeInv, DriverTypeOK, PageOf, Awaits
<1>1. CASE Take
  <2>1. /\ current = Idle /\ queue # <<>> /\ queue' = Tail(queue) /\ UNCHANGED reply
        /\ current' \in {Head(queue), Idle}
        /\ Head(queue).open => current' = Head(queue)
    BY <1>1 DEF Take
  <2>2. /\ Len(queue) \in Nat \ {0}
        /\ Head(queue) = queue[1]
        /\ DOMAIN queue = 1..Len(queue)
        /\ DOMAIN queue' = 1..(Len(queue) - 1)
        /\ \A k \in 1..(Len(queue) - 1) : queue'[k] = queue[k + 1]
    BY <1>0, <2>1, EmptySeq, HeadTailProperties, LenProperties
  <2>3. /\ \A k \in DOMAIN queue' : k + 1 \in DOMAIN queue /\ queue'[k] = queue[k + 1]
        /\ 1 \in DOMAIN queue
    BY <2>2
  <2>4. \A k \in Awaited(w)' : k + 1 \in Awaited(w) /\ k \in Nat \ {0}
    BY <1>0, <2>2, <2>3 DEF Awaited
  <2>5. \A c \in Commands' : c \in Commands
    <3>1. Head(queue) \in Commands
      BY <1>0, <2>2, <2>3, CommandsTyped
    <3>2. \A k \in DOMAIN queue' : queue'[k] \in Commands
      BY <1>0, <2>3, CommandsTyped
    <3> QED
      BY <2>1, <3>1, <3>2 DEF Commands
  <2>6. Awaits(w, current') => 1 \in Awaited(w)
    BY <1>0, <2>1, <2>2, <2>3 DEF Awaited, Awaits
  <2>7. \A j, k \in Awaited(w)' : j = k
    BY <2>4 DEF TalkOf
  <2>8. Awaits(w, current') => Awaited(w)' = {}
    BY <2>4, <2>6 DEF TalkOf
  <2>9. Awaited(w) = {} => ~Awaits(w, current') /\ Awaited(w)' = {}
    BY <2>4, <2>6
  <2>10. Awaits(w, current)' <=> Awaits(w, current')
    BY DEF Awaits
  <2> QED
    BY <1>0, <2>1, <2>5, <2>7, <2>8, <2>9, <2>10 DEF TalkOf
<1>2. CASE PressSend
  <2>1. /\ current \in Command /\ current.op = "Submit" /\ current \in Commands
        /\ UNCHANGED <<queue, reply>> /\ current' \in Command /\ current' # Idle
        /\ current'.op = "Clicked" /\ current'.handle = current.handle /\ current'.open = current.open
    BY <1>0, <1>2, PressedCommand
  <2>2. (Awaits(w, current)' <=> Awaits(w, current)) /\ (Awaits(w, current') <=> Awaits(w, current))
    BY <1>0, <2>1 DEF Awaits
  <2>3. Awaited(w)' = Awaited(w)
    BY <1>0, <2>1 DEF Awaited
  <2>4. \A c \in Commands' : c = current' \/ c \in Commands
    BY <2>1 DEF Commands
  <2>5. PlaceOf("Clicked") = PlaceOf("Submit")
    BY DEF PlaceOf
  <2> QED
    BY <1>0, <2>1, <2>2, <2>3, <2>4, <2>5 DEF TalkOf
<1>3. CASE ~Take /\ ~PressSend
  <2>1. PICK v \in Replies : current # Idle /\ UNCHANGED queue /\ Answer(v)
    BY <1>3, DriverAnswers
  <2>2. /\ current' = Idle /\ current \in Commands
        /\ ~Awaits(w, current) => reply'[w] = reply[w]
    BY <1>0, <2>1, AnswerFacts, CommandsTyped
  <2>3. Awaited(w)' = Awaited(w) /\ ~Awaits(w, current)' /\ \A c \in Commands' : c \in Commands
    BY <1>0, <2>1, <2>2 DEF Awaited, Awaits, Commands
  <2>4. Awaits(w, current) => pc[w] \in Asking /\ Awaited(w) = {}
    BY <1>0, <2>2, CommandsTyped, PlaceIsAsking DEF TalkOf, Command
  <2> QED
    BY <1>0, <2>2, <2>3, <2>4 DEF TalkOf
<1> QED
  BY <1>1, <1>2, <1>3

LEMMA TalkGone ==
  ASSUME DriverTypeOK, DriverGone, NEW w \in Workers
  PROVE  TalkOf(w)'
<1>1. queue' = <<>> /\ current' = Idle /\ reply'[w] = "none"
  BY DEF DriverGone, DriverTypeOK
<1>2. Commands' = {} /\ Awaited(w)' = {} /\ ~Awaits(w, current)'
  BY <1>1 DEF Commands, Awaited, Awaits
<1> QED
  BY <1>1, <1>2 DEF TalkOf

(* What the owner thread does to the pages of one worker. *)

LEMMA DriverSends ==
  ASSUME DriverTypeOK, DriverStep, NEW w \in Workers, NEW k \in Attempts
  PROVE  /\ k \in Unsent(w)' => k \in Unsent(w)
         /\ IsClicked(w, k)' => IsClicked(w, k) \/ k \in Unsent(w)
         /\ IsClicked(w, k) => IsClicked(w, k)'
<1>0. <<w, k>> \in Handles /\ send \in [Handles -> SendState]
  BY DEF Handles, DriverTypeOK
<1>1. <<"Submit", <<w, k>> >> \in Pending' => <<"Submit", <<w, k>> >> \in Pending
  BY DriverWorksOff
<1>2. CASE PressSend
  <2>1. current.op = "Submit" /\ current.handle \in Handles /\ current \in Commands
    BY <1>2, PressedCommand DEF Command
  <2>2. <<"Submit", current.handle>> \in Pending
    BY <2>1 DEF Pending
  <2>3. send' = [send EXCEPT ![current.handle] = "clicked"] /\ send[current.handle] = "fresh"
    BY <1>2 DEF PressSend
  <2> QED
    BY <1>0, <1>1, <2>1, <2>2, <2>3 DEF Unsent, IsClicked, Clicked
<1>3. CASE SubmitFails
  <2>1. send' = [send EXCEPT ![current.handle] =
                   IF page[current.handle] = "leased" /\ @ = "fresh" THEN "latched" ELSE @]
    BY <1>3 DEF SubmitFails
  <2> QED
    BY <1>0, <1>1, <2>1 DEF Unsent, IsClicked, Clicked
<1>4. CASE ~PressSend /\ ~SubmitFails
  <2>1. UNCHANGED send
    BY <1>4 DEF DriverStep, Take, PrepareRefused, PrepareRejected, PrepareSucceeds, SubmitReturns,
                Observe, VerifyCompletion, Stop, Release, ReleaseFails
  <2> QED
    BY <1>1, <2>1 DEF Unsent, IsClicked, Clicked
<1> QED
  BY <1>2, <1>3, <1>4

\* A Submit is answered "ok" only after the click.
LEMMA DriverConfirms ==
  ASSUME TypeInv, NEW w \in Workers, TalkOf(w), ClicksReported, DriverStep,
         pc[w] = "submitting", reply'[w] = "ok"
  PROVE  reply[w] = "ok" \/ IsClicked(w, retries[w])
<1>0. DriverTypeOK /\ current \in Command \cup {Idle}
  BY DEF TypeInv, DriverTypeOK
<1>1. CASE Take \/ PressSend
  BY <1>1 DEF Take, PressSend
<1>2. CASE ~Take /\ ~PressSend /\ Awaits(w, current)
  <2>1. PICK v \in Replies : current # Idle /\ Answer(v)
    BY <1>2, DriverAnswers
  <2>2. current \in Command /\ current \in Commands
    BY <1>0, <2>1, CommandsTyped
  <2>3. PlaceOf(current.op) = "submitting" /\ current.handle = PageOf(w)
    BY <1>2, <2>2 DEF TalkOf
  <2>4. current.op \in {"Submit", "Clicked"}
    BY <2>2, <2>3 DEF Command, PlaceOf, Ops
  <2>5. CASE current.op = "Clicked"
    <3>1. <<"Clicked", current.handle>> \in Pending
      BY <2>2, <2>5 DEF Pending
    <3> QED
      BY <2>3, <3>1 DEF ClicksReported, IsClicked, PageOf
  <2>6. CASE current.op = "Submit"
    <3>1. SubmitFails
      BY <1>2, <2>6 DEF DriverStep, PrepareRefused, PrepareRejected, PrepareSucceeds, SubmitReturns,
                        Observe, VerifyCompletion, Stop, Release, ReleaseFails, Executing
    <3>2. reply'[w] = "err"
      BY <1>0, <1>2, <2>1, <3>1, AnswerFacts DEF SubmitFails
    <3> QED
      BY <3>2
  <2> QED
    BY <2>4, <2>5, <2>6
<1>3. CASE ~Take /\ ~PressSend /\ ~Awaits(w, current)
  BY <1>0, <1>3, AnswerFacts, DriverAnswers
<1> QED
  BY <1>1, <1>2, <1>3

\* A page is newly leased only for the attempt that is waiting for it, which is told so; and
\* a page that will be released stays so until it is closed or cannot be.
LEMMA DriverLeases ==
  ASSUME TypeInv, NEW w \in Workers, TalkOf(w), DriverStep, NEW k \in Attempts
  PROVE  /\ \/ page'[<<w, k>>] # "leased"
            \/ page[<<w, k>>] = "leased"
            \/ k = retries[w] /\ pc[w] = "preparing" /\ reply'[w] = "prepared"
         /\ page'[<<w, k>>] = "leased" /\ page[<<w, k>>] = "leased" =>
              (<<w, k>> \in leaked \/ ReleasePending(<<w, k>>)
                 => <<w, k>> \in leaked' \/ ReleasePending(<<w, k>>)')
<1> DEFINE h == <<w, k>>
<1>0. /\ DriverTypeOK /\ h \in Handles /\ page \in [Handles -> PageState] /\ queue \in Seq(Command)
      /\ current \in Command \cup {Idle} /\ Idle \notin Command
  BY DriverAssumption DEF TypeInv, DriverTypeOK, Handles
<1> HIDE DEF h
<1>1. CASE Take
  <2>1. /\ queue # <<>> /\ queue' = Tail(queue) /\ UNCHANGED <<page, leaked>> /\ current = Idle
        /\ Head(queue).op = "Release" => current' = Head(queue)
    BY <1>1 DEF Take
  <2>2. /\ Len(queue) \in Nat \ {0}
        /\ Head(queue) = queue[1]
        /\ DOMAIN queue = 1..Len(queue)
        /\ DOMAIN queue' = 1..(Len(queue) - 1)
        /\ \A j \in 1..(Len(queue) - 1) : queue'[j] = queue[j + 1]
    BY <1>0, <2>1, EmptySeq, HeadTailProperties, LenProperties
  <2>3. ReleasePending(h) => ReleasePending(h)'
    <3>1. ASSUME NEW j \in DOMAIN queue, queue[j].handle = h, queue[j].op = "Release"
          PROVE  ReleasePending(h)'
      <4>1. CASE j = 1
        <5>1. current' = queue[1] /\ queue[1] \in Command
          BY <1>0, <2>1, <2>2, <3>1, <4>1, CommandsTyped
        <5> QED
          BY <1>0, <3>1, <4>1, <5>1 DEF ReleasePending
      <4>2. CASE j # 1
        <5>1. j - 1 \in DOMAIN queue' /\ queue'[j - 1] = queue[j]
          BY <2>2, <3>1, <4>2
        <5> QED
          BY <3>1, <5>1 DEF ReleasePending
      <4> QED
        BY <4>1, <4>2
    <3> QED
      BY <2>1, <3>1 DEF ReleasePending
  <2> QED
    BY <2>1, <2>3 DEF h
<1>2. CASE PressSend
  <2>1. UNCHANGED <<queue, page, leaked>> /\ current.op = "Submit"
    BY <1>0, <1>2, PressedCommand
  <2> QED
    BY <2>1 DEF ReleasePending
<1>3. CASE Release \/ ReleaseFails
  <2>1. /\ current # Idle /\ current.op = "Release" /\ UNCHANGED queue /\ current \in Command
        /\ current.handle \in Handles
    BY <1>0, <1>3 DEF Release, ReleaseFails, Executing, Command
  <2>2. CASE current.handle = h
    BY <1>0, <1>3, <2>1, <2>2 DEF Release, ReleaseFails, h
  <2>3. CASE current.handle # h
    <3>1. page'[h] = page[h] /\ leaked \subseteq leaked'
      BY <1>0, <1>3, <2>1, <2>3 DEF Release, ReleaseFails
    <3>2. ReleasePending(h) => ReleasePending(h)'
      BY <2>1, <2>3 DEF ReleasePending
    <3> QED
      BY <3>1, <3>2 DEF h
  <2> QED
    BY <2>2, <2>3
<1>4. CASE ~Take /\ ~PressSend /\ ~Release /\ ~ReleaseFails
  <2>1. PICK v \in Replies : current # Idle /\ UNCHANGED queue /\ Answer(v)
    BY <1>4, DriverAnswers
  <2>2. UNCHANGED leaked /\ current.op # "Release" /\ current \in Command /\ current \in Commands
    BY <1>0, <1>4, <2>1, CommandsTyped
       DEF DriverStep, PrepareRefused, PrepareRejected, PrepareSucceeds, SubmitFails, SubmitReturns,
           Observe, VerifyCompletion, Stop, Executing
  <2>3. ReleasePending(h) => ReleasePending(h)'
    BY <2>1, <2>2 DEF ReleasePending
  <2>4. ASSUME page'[h] = "leased", page[h] # "leased"
        PROVE  k = retries[w] /\ pc[w] = "preparing" /\ reply'[w] = "prepared"
    <3>1. PrepareSucceeds /\ current.open /\ current.handle = h
      <4>1. ASSUME NEW closed PROVE Reclaim(closed)[h] # "leased"
        BY <1>0, <2>4 DEF Reclaim
      <4>2. ~PrepareRefused
        BY <2>4, <4>1 DEF PrepareRefused
      <4>3. ASSUME NEW closed, NEW end,
                   page' = [Reclaim(closed) EXCEPT ![current.handle] = end]
            PROVE  current.handle = h /\ end = "leased"
        BY <1>0, <2>4, <4>1, <4>3 DEF Reclaim
      <4>4. ~PrepareRejected
        BY <4>3 DEF PrepareRejected
      <4>5. PrepareSucceeds
        BY <1>4, <2>4, <4>2, <4>4 DEF DriverStep, SubmitFails, SubmitReturns, Observe,
                                      VerifyCompletion, Stop
      <4>6. PICK closed \in SUBSET Orphaned,
                 end \in IF current.open THEN {"leased"} ELSE {"closed", "orphaned"} :
              page' = [Reclaim(closed) EXCEPT ![current.handle] = end]
        BY <4>5, Zenon DEF PrepareSucceeds
      <4> QED
        BY <4>3, <4>5, <4>6
    <3>2. Awaits(w, current) /\ current.op = "Prepare" /\ Answer("prepared")
      BY <2>1, <3>1 DEF Awaits, Owner, h, PrepareSucceeds, Executing
    <3>3. pc[w] = "preparing" /\ current.handle = PageOf(w)
      BY <2>2, <3>2 DEF TalkOf, PlaceOf
    <3>4. reply'[w] = "prepared"
      BY <1>0, <2>1, <3>2, AnswerFacts
    <3> QED
      BY <3>1, <3>3, <3>4 DEF h, PageOf
  <2> QED
    BY <2>2, <2>3, <2>4 DEF h
<1> QED
  BY <1>1, <1>2, <1>3, <1>4

LEMMA UnsentFacts ==
  ASSUME NEW w
  PROVE  /\ Unsent(w) \subseteq Attempts
         /\ \A k : k \in Unsent(w) => ~IsClicked(w, k)
  BY DEF Unsent, IsClicked, Clicked

LEMMA DriverKeepsRow ==
  ASSUME NEW w \in Workers, RowOf(w), UNCHANGED <<turns, turnVars, sharedVars>>
  PROVE  RowOf(w)'
  BY DEF turnVars, sharedVars, RowOf, Starting, Place, Heading, RowFits, Resumed, Retries, IsPath

LEMMA DriverKeepsSends ==
  ASSUME TypeInv, NEW w \in Workers, TalkOf(w), SendOf(w), ClicksReported, OwnerThread
  PROVE  SendOf(w)'
<1>0. /\ UNCHANGED <<turns, owner, evidence, pc, plan, after, result, tracker, retries>>
      /\ DriverTypeOK /\ DriverStep
      /\ retries[w] \in Attempts
  BY DEF OwnerThread, turnVars, sharedVars, TypeInv, Control, Attempts
<1>1. Place(w)' = Place(w) /\ Heading(w)' = Heading(w) /\ (Retries(w)' <=> Retries(w))
  BY <1>0 DEF Place, Heading, Retries
<1>2. ASSUME NEW k \in Attempts
      PROVE  /\ k \in Unsent(w)' => k \in Unsent(w) /\ ~IsClicked(w, k)'
             /\ IsClicked(w, k)' => IsClicked(w, k) \/ k \in Unsent(w)
             /\ IsClicked(w, k) => IsClicked(w, k)'
  BY <1>0, DriverSends DEF Unsent, IsClicked, Clicked
<1>3. Unsent(w)' \subseteq Unsent(w) /\ Unsent(w) \subseteq Attempts
  BY <1>2 DEF Unsent
<1>4. pc[w] = "submitting" /\ reply'[w] = "ok" => reply[w] = "ok" \/ IsClicked(w, retries[w])
  BY <1>0, DriverConfirms
<1>5. SendFits(w, Place(w))'
  <2>1. Place(w) = "submitting" => pc[w] = "submitting"
    BY DEF Place, TypeInv, Control, Targets
  <2> DEFINE n == retries[w]
  <2>2. Place(w) \notin {"done", "dead"} =>
          \A k \in Attempts : /\ k < n => evidence[<<w, k>>] = "failed"
                              /\ k > n => /\ evidence[<<w, k>>] = "none"
                                          /\ ~IsClicked(w, k)' /\ k \notin Unsent(w)'
    BY <1>2 DEF SendOf, SendFits
  <2>3. Place(w) \in Waiting =>
          evidence[<<w, n>>] = "none" /\ ~IsClicked(w, n)' /\ Unsent(w)' = {}
    BY <1>0, <1>2, <1>3 DEF SendOf, SendFits
  <2>4. Place(w) = "submitting" =>
          /\ evidence[<<w, n>>] = "none" /\ Unsent(w)' \subseteq {n}
          /\ reply'[w] = "ok" => IsClicked(w, n)'
    BY <1>0, <1>2, <1>3, <1>4, <2>1 DEF SendOf, SendFits
  <2>5. Place(w) \in {"observe", "observing", "verify", "verifying"} =>
          IsClicked(w, n)' /\ Unsent(w)' = {}
    BY <1>0, <1>2, <1>3 DEF SendOf, SendFits
  <2>6. Place(w) = "readmit" \/ (Place(w) \in {"release", "releasing"} /\ Retries(w)) =>
          evidence[<<w, n>>] = "failed" /\ Unsent(w)' = {}
    BY <1>3 DEF SendOf, SendFits
  <2> QED
    BY <1>0, <1>1, <2>2, <2>3, <2>4, <2>5, <2>6 DEF SendOf, SendFits, Waiting, Starting
<1>6. Unsent(w)' # {} => AllFailed(w)'
  <2> SUFFICES ASSUME NEW k \in Unsent(w)', NEW j \in Attempts, IsClicked(w, j)'
               PROVE  evidence'[<<w, j>>] = "failed"
    BY DEF AllFailed
  <2>1. k \in Attempts /\ k \in Unsent(w) /\ ~IsClicked(w, k)'
    BY <1>2, <1>3
  <2>2. j \notin Unsent(w)
    BY <2>1 DEF SendOf
  <2> QED
    BY <1>0, <1>2, <2>1, <2>2 DEF SendOf, AllFailed
<1>7. ASSUME NEW state, OutcomeFits(w, state) PROVE OutcomeFits(w, state)'
  <2>1. Unsent(w) = {} => /\ Unsent(w)' = {}
                          /\ \A k \in Attempts : IsClicked(w, k)' <=> IsClicked(w, k)
    BY <1>2, <1>3
  <2> QED
    BY <1>0, <1>7, <2>1 DEF OutcomeFits, Known, AllFailed
<1>8. Heading(w)' = Heading(w) /\ turns'[Req[w]] = turns[Req[w]]
  BY <1>0, <1>1
<1>9. /\ pc[w] = "write" => OutcomeFits(w, Heading(w))'
      /\ owner[Req[w]] = w => OutcomeFits(w, turns[Req[w]].state)'
  BY <1>0, <1>7, <1>8 DEF SendOf
<1> QED
  BY <1>0, <1>3, <1>5, <1>6, <1>9 DEF SendOf

LEMMA DriverKeepsPages ==
  ASSUME TypeInv, NEW w \in Workers, TalkOf(w), PagesOf(w), OwnerThread
  PROVE  PagesOf(w)'
<1>0. /\ UNCHANGED <<pc, after, retries>> /\ DriverStep /\ DriverTypeOK
      /\ retries[w] \in Attempts
  BY DEF OwnerThread, turnVars, sharedVars, TypeInv, Control, Attempts
<1>1. Place(w)' = Place(w) /\ (pc[w] = "preparing" <=> Place(w) = "preparing")
  BY <1>0 DEF Place, TypeInv, Control, Targets
<1>2. ASSUME NEW k \in Attempts
      PROVE  /\ \/ page'[<<w, k>>] # "leased"
                \/ page[<<w, k>>] = "leased"
                \/ k = retries[w] /\ pc[w] = "preparing" /\ reply'[w] = "prepared"
             /\ Disposed(<<w, k>>) =>
                  \/ Disposed(<<w, k>>)'
                  \/ k = retries[w] /\ pc[w] = "preparing" /\ reply'[w] = "prepared"
  <2>1. /\ \/ page'[<<w, k>>] # "leased"
           \/ page[<<w, k>>] = "leased"
           \/ k = retries[w] /\ pc[w] = "preparing" /\ reply'[w] = "prepared"
        /\ page'[<<w, k>>] = "leased" /\ page[<<w, k>>] = "leased" =>
             (<<w, k>> \in leaked \/ ReleasePending(<<w, k>>)
                => <<w, k>> \in leaked' \/ ReleasePending(<<w, k>>)')
    BY <1>0, DriverLeases
  <2> QED
    BY <2>1 DEF Disposed
<1>3. pc[w] = "preparing" /\ reply[w] = "prepared" => reply'[w] = "prepared"
  <2>1. reply[w] = "prepared" => ~Awaits(w, current)
    BY DEF TalkOf
  <2>2. ~Awaits(w, current) => reply'[w] = reply[w]
    <3>1. CASE Take \/ PressSend
      BY <3>1 DEF Take, PressSend
    <3>2. CASE ~Take /\ ~PressSend
      BY <1>0, <3>2, DriverAnswers, AnswerFacts
    <3> QED
      BY <3>1, <3>2
  <2> QED
    BY <2>1, <2>2
<1> DEFINE n == retries[w]
<1>4. \A k \in Attempts : /\ Place(w) \in {"done", "dead"} \/ k < n => Disposed(<<w, k>>)'
                          /\ k > n => (Place(w) \notin {"done", "dead"} => page'[<<w, k>>] # "leased")
  <2> SUFFICES ASSUME NEW k \in Attempts
               PROVE  /\ Place(w) \in {"done", "dead"} \/ k < n => Disposed(<<w, k>>)'
                      /\ k > n => (Place(w) \notin {"done", "dead"} => page'[<<w, k>>] # "leased")
    OBVIOUS
  <2>1. k \in Nat /\ n \in Nat
    BY <1>0, DriverAssumption DEF Attempts
  <2> QED
    BY <1>1, <1>2, <2>1 DEF PagesOf, PageFits
<1>5. Place(w) \in Starting \cup {"prepare", "backoff"} => page'[<<w, n>>] # "leased"
  BY <1>0, <1>1, <1>2 DEF PagesOf, PageFits, Starting
<1>6. Place(w) = "preparing" => (page'[<<w, n>>] = "leased" => reply'[w] = "prepared")
  BY <1>0, <1>1, <1>2, <1>3 DEF PagesOf, PageFits
<1>7. Place(w) \in {"releasing", "readmit", "finish"} => Disposed(<<w, n>>)'
  BY <1>0, <1>1, <1>2 DEF PagesOf, PageFits
<1> QED
  BY <1>0, <1>1, <1>4, <1>5, <1>6, <1>7 DEF PagesOf, PageFits

LEMMA DriverKeepsTurn ==
  ASSUME TypeInv, TurnInv, OwnerThread
  PROVE  TurnInv'
<1>0. /\ UNCHANGED <<turns, turnVars, sharedVars, evidence>> /\ DriverStep
      /\ UNCHANGED <<pc, retries, result, owner, replay>>
      /\ DriverTypeOK
  BY DEF OwnerThread, turnVars, sharedVars, TypeInv
<1>1. ASSUME NEW w \in Workers PROVE TalkOf(w)' /\ LocalFits(w)'
  <2>1. TalkOf(w) /\ RowOf(w) /\ SendOf(w) /\ ResultOf(w) /\ PagesOf(w) /\ ClicksReported
    BY DEF TurnInv, LocalFits
  <2>2. TalkOf(w)'
    BY <1>0, <2>1, TalkDriver
  <2>3. RowOf(w)'
    BY <1>0, <2>1, DriverKeepsRow
  <2>4. SendOf(w)' /\ PagesOf(w)'
    BY <2>1, DriverKeepsSends, DriverKeepsPages
  <2>5. ResultOf(w)'
    BY <1>0, <2>1 DEF ResultOf, Admitted
  <2> QED
    BY <2>2, <2>3, <2>4, <2>5 DEF LocalFits
<1>2. RowsBound' /\ CacheFits'
  BY <1>0 DEF TurnInv, RowsBound, CacheFits, Admitted
<1>3. ClicksReported'
  <2>1. \/ Pending' \subseteq Pending /\ Clicked' = Clicked
        \/ \E h \in Handles :
             /\ <<"Submit", h>> \in Pending
             /\ Pending' \subseteq Pending \cup {<<"Clicked", h>>}
             /\ Clicked' = Clicked \cup {h}
    BY <1>0, DriverWorksOff
  <2>2. ASSUME NEW h \in Handles, Pending' \subseteq Pending \cup {<<"Clicked", h>>},
               Clicked' = Clicked \cup {h}, NEW p \in Pending', p[1] = "Clicked"
        PROVE  p[2] \in Clicked'
    <3>1. CASE p \in Pending
      BY <2>2, <3>1 DEF TurnInv, ClicksReported
    <3>2. CASE p = <<"Clicked", h>>
      BY <2>2, <3>2
    <3> QED
      BY <2>2, <3>1, <3>2
  <2>3. CASE Pending' \subseteq Pending /\ Clicked' = Clicked
    BY <2>3 DEF TurnInv, ClicksReported
  <2> QED
    BY <2>1, <2>2, <2>3 DEF ClicksReported
<1> QED
  BY <1>1, <1>2, <1>3 DEF TurnInv

(* What a step of one worker leaves alone of the others.                     *)

\* A step of worker w that is its own business: it moves its place and its records, reads its
\* pages, and writes at most its own row or admits its request.
Locally(w) ==
  /\ OthersStay(w)
  /\ \A v \in Workers \ {w} :
       /\ result'[v] = result[v] /\ tracker'[v] = tracker[v] /\ synced'[v] = synced[v]
       /\ retries'[v] = retries[v] /\ reply'[v] = reply[v]
       /\ \A k \in Attempts : evidence'[<<v, k>>] = evidence[<<v, k>>]
       /\ Unsent(v)' = Unsent(v)
  /\ UNCHANGED <<send, page>>
  /\ leaked \subseteq leaked'
  /\ \A h \in Handles : ReleasePending(h) => ReleasePending(h)'

\* The rows and owners of requests other than that of w are left alone, and so is its own
\* unless it works on it.
RowsOfOthers(w) ==
  /\ \A r \in Requests \ {Req[w]} : turns'[r] = turns[r] /\ owner'[r] = owner[r]
  /\ \/ turns'[Req[w]] = turns[Req[w]] /\ owner'[Req[w]] = owner[Req[w]]
     \/ /\ owner[Req[w]] \in {w, NoWorker} /\ owner'[Req[w]] = w
        /\ ~(Admitted(Req[w]) /\ turns[Req[w]].state = "Completed")

LEMMA OthersKeepLocal ==
  ASSUME TypeInv, SenderInv, NEW w \in Workers, Locally(w), RowsOfOthers(w),
         NEW v \in Workers, v # w, LocalFits(v)
  PROVE  LocalFits(v)'
<1>0. /\ pc'[v] = pc[v] /\ plan'[v] = plan[v] /\ after'[v] = after[v]
      /\ result'[v] = result[v] /\ tracker'[v] = tracker[v] /\ synced'[v] = synced[v]
      /\ retries'[v] = retries[v] /\ reply'[v] = reply[v]
      /\ \A k \in Attempts : evidence'[<<v, k>>] = evidence[<<v, k>>]
      /\ Unsent(v)' = Unsent(v) /\ UNCHANGED <<send, page>>
      /\ retries[v] \in Attempts /\ Req[v] \in Requests /\ Req[w] \in Requests
      /\ v # NoWorker
  BY CoordinatorAssumption DEF Locally, OthersStay, TypeInv, Control, Attempts
<1>1. /\ \A k \in Attempts : IsClicked(v, k)' <=> IsClicked(v, k)
      /\ Place(v)' = Place(v) /\ (Retries(v)' <=> Retries(v)) /\ (Resumed(v)' <=> Resumed(v))
      /\ AllFailed(v)' <=> AllFailed(v)
  BY <1>0 DEF IsClicked, Clicked, Place, Retries, Resumed, AllFailed
<1>2. \/ turns'[Req[v]] = turns[Req[v]] /\ owner'[Req[v]] = owner[Req[v]]
      \/ /\ owner[Req[v]] # v /\ owner'[Req[v]] # v
         /\ ~(Admitted(Req[v]) /\ turns[Req[v]].state = "Completed")
  <2>1. CASE Req[v] = Req[w]
    BY <1>0, <2>1 DEF RowsOfOthers
  <2>2. CASE Req[v] # Req[w]
    BY <1>0, <2>2 DEF RowsOfOthers
  <2> QED
    BY <2>1, <2>2
<1>3. ASSUME NEW state
      PROVE  /\ RowFits(v, Place(v), state)' <=> RowFits(v, Place(v), state)
             /\ OutcomeFits(v, state)' <=> OutcomeFits(v, state)
  <2>1. RowFits(v, Place(v), state)' <=> RowFits(v, Place(v), state)
    BY <1>0, <1>1 DEF RowFits
  <2>2. OutcomeFits(v, state)' <=> OutcomeFits(v, state)
    BY <1>0, <1>1 DEF OutcomeFits, Known
  <2> QED
    BY <2>1, <2>2
<1>4. turns'[Req[v]] = turns[Req[v]] => Heading(v)' = Heading(v)
  BY <1>0 DEF Heading
<1>5. RowOf(v)'
  <2>1. pc'[v] \in Starting => owner'[Req[v]] # v
    BY <1>0, <1>2 DEF LocalFits, RowOf
  <2>2. ASSUME owner'[Req[v]] = v
        PROVE  /\ pc'[v] = "write" => IsPath(turns'[Req[v]].state, plan'[v])
               /\ RowFits(v, Place(v), Heading(v))'
    <3>1. turns'[Req[v]] = turns[Req[v]] /\ owner[Req[v]] = v
      BY <1>2, <2>2
    <3>2. /\ pc[v] = "write" => IsPath(turns[Req[v]].state, plan[v])
          /\ RowFits(v, Place(v), Heading(v))
      BY <3>1 DEF LocalFits, RowOf
    <3>3. RowFits(v, Place(v), Heading(v))'
      BY <1>0, <1>1, <1>4, <3>1, <3>2 DEF RowFits
    <3> QED
      BY <1>0, <3>1, <3>2, <3>3
  <2> QED
    BY <2>1, <2>2 DEF RowOf, Starting, IsPath
<1>6. SendOf(v)'
  <2>1. Unsent(v) # {} => owner[Req[v]] = v
    <3>1. ASSUME NEW k \in Unsent(v) PROVE owner[Req[v]] = v
      <4>1. <<"Submit", <<v, k>> >> \in Pending
        BY DEF Unsent
      <4>2. owner[RequestOf(<<v, k>>)] = Owner(<<v, k>>)
        BY <4>1 DEF SenderInv, Owned
      <4> QED
        BY <4>2 DEF RequestOf, Owner
    <3> QED
      BY <3>1
  <2>2. SendFits(v, Place(v))'
    BY <1>0, <1>1 DEF LocalFits, SendOf, SendFits, Waiting, Starting
  <2>3. pc'[v] = "write" => OutcomeFits(v, Heading(v))'
    <3>1. pc[v] = "write" => Heading(v)' = Heading(v)
      BY <1>0 DEF Heading
    <3>2. pc[v] = "write" => OutcomeFits(v, Heading(v))
      BY DEF LocalFits, SendOf
    <3> QED
      BY <1>0, <1>1, <3>1, <3>2 DEF OutcomeFits, Known
  <2>4. owner'[Req[v]] = v => OutcomeFits(v, turns[Req[v]].state)'
    <3>1. owner'[Req[v]] = v => turns'[Req[v]] = turns[Req[v]] /\ OutcomeFits(v, turns[Req[v]].state)
      BY <1>2 DEF LocalFits, SendOf
    <3> QED
      BY <1>0, <1>1, <3>1 DEF OutcomeFits, Known
  <2>5. /\ \A j, k \in Unsent(v) : j = k
        /\ \A k \in Unsent(v) : evidence'[<<v, k>>] = "none"
        /\ Unsent(v) # {} =>
             /\ AllFailed(v)
             /\ turns'[Req[v]].state \in {"Submitting", "SubmissionUncertain"} \cup Answering
    BY <1>0, <1>2, <2>1, UnsentFacts DEF LocalFits, SendOf
  <2> QED
    BY <1>0, <1>1, <2>2, <2>3, <2>4, <2>5 DEF SendOf
<1>7. ResultOf(v)'
  BY <1>0, <1>2 DEF LocalFits, ResultOf, Admitted
<1>8. PagesOf(v)'
  <2>1. ASSUME NEW k \in Attempts, Disposed(<<v, k>>) PROVE Disposed(<<v, k>>)'
    <3>1. <<v, k>> \in Handles
      BY DEF Handles
    <3> QED
      BY <1>0, <2>1, <3>1 DEF Disposed, Locally
  <2> QED
    BY <1>0, <1>1, <2>1 DEF LocalFits, PagesOf, PageFits, Starting
<1> QED
  BY <1>5, <1>6, <1>7, <1>8 DEF LocalFits

(* What a step of a worker does to its own.                                  *)

\* The records of the others are left alone.
OwnRecords(w) ==
  \A v \in Workers \ {w} :
    /\ result'[v] = result[v] /\ tracker'[v] = tracker[v] /\ synced'[v] = synced[v]
    /\ retries'[v] = retries[v]
    /\ \A k \in Attempts : evidence'[<<v, k>>] = evidence[<<v, k>>]

\* What a call of worker w does to the owner thread's side.
Calling(w) ==
  /\ \A v \in Workers : TalkOf(v)'
  /\ UNCHANGED <<send, page>>
  /\ leaked \subseteq leaked'
  /\ \A h \in Handles : ReleasePending(h) => ReleasePending(h)'
  /\ \A v \in Workers \ {w} : reply'[v] = reply[v] /\ Unsent(v)' = Unsent(v)
  /\ \A p \in Pending' : p \in Pending \/ p[1] # "Clicked"

LEMMA QuietCalls ==
  ASSUME TypeInv, TurnInv, NEW w \in Workers, UNCHANGED driverVars, pc[w] \notin Asking,
         OthersStay(w), OwnRecords(w)
  PROVE  Calling(w) /\ Unsent(w)' = Unsent(w) /\ reply'[w] = reply[w]
<1>0. UNCHANGED <<queue, current, page, send, reply, leaked>> /\ DriverTypeOK
  BY DEF driverVars, TypeInv
<1>1. ASSUME NEW v \in Workers PROVE TalkOf(v)'
  <2>1. v # w => pc'[v] = pc[v] /\ retries'[v] = retries[v]
    BY DEF OthersStay, OwnRecords
  <2> QED
    BY <1>0, <2>1, TalkQuiet DEF TurnInv
<1>2. Pending' = Pending
  BY <1>0, PendingQuiet
<1>3. (\A v \in Workers : Unsent(v)' = Unsent(v)) /\ \A h : ReleasePending(h) => ReleasePending(h)'
  BY <1>0, <1>2 DEF Unsent, ReleasePending
<1> QED
  BY <1>0, <1>1, <1>2, <1>3 DEF Calling

LEMMA ToldCalls ==
  ASSUME TypeInv, TurnInv, NEW w \in Workers, NEW at, NEW v, Told(w, at, v), v # "none",
         OthersStay(w), OwnRecords(w)
  PROVE  Calling(w) /\ Unsent(w)' = Unsent(w)
<1>0. /\ Receive(w) /\ reply[w] # "none" /\ DriverTypeOK
      /\ UNCHANGED <<queue, current, page, send, leaked>>
  BY DEF Told, Receive, TypeInv
<1>1. ASSUME NEW u \in Workers PROVE TalkOf(u)'
  <2>1. u # w => pc'[u] = pc[u] /\ retries'[u] = retries[u]
    BY DEF OthersStay, OwnRecords
  <2> QED
    BY <1>0, <2>1, TalkReceive DEF TurnInv
<1>2. Pending' = Pending
  BY <1>0, PendingQuiet
<1>3. (\A u \in Workers : Unsent(u)' = Unsent(u)) /\ \A h : ReleasePending(h) => ReleasePending(h)'
  BY <1>0, <1>2 DEF Unsent, ReleasePending
<1>4. \A u \in Workers \ {w} : reply'[u] = reply[u]
  BY <1>0 DEF Receive, DriverTypeOK
<1> QED
  BY <1>0, <1>1, <1>2, <1>3, <1>4 DEF Calling

LEMMA HangupCalls ==
  ASSUME TypeInv, TurnInv, NEW w \in Workers, NEW lost \in SUBSET Handles, Hangup(w, lost),
         OthersStay(w), OwnRecords(w)
  PROVE  Calling(w) /\ Unsent(w)' = Unsent(w) /\ lost \subseteq leaked'
<1>0. DriverTypeOK /\ DriverTypeOK'
  BY HangupKeeps DEF TypeInv
<1>1. ASSUME NEW u \in Workers PROVE TalkOf(u)'
  <2>1. u # w => pc'[u] = pc[u] /\ retries'[u] = retries[u]
    BY DEF OthersStay, OwnRecords
  <2> QED
    BY <2>1, TalkHangup DEF TurnInv
<1>2. Pending' = Pending
  BY <1>0, PendingHangup
<1>3. UNCHANGED <<send, page>> /\ leaked' = leaked \cup lost
  BY DEF Hangup
<1>4. \A h : /\ ReleasePending(h) <=> <<"Release", h>> \in Pending
  BY <1>0, ReleaseIsPending
<1>5. \A h : ReleasePending(h) => ReleasePending(h)'
  <2> SUFFICES ASSUME NEW h, ReleasePending(h) PROVE ReleasePending(h)'
    OBVIOUS
  <2>1. ASSUME NEW c \in Command PROVE Hush(w, c) # Idle /\ Hush(w, c).op = c.op
                                       /\ Hush(w, c).handle = c.handle
    BY DriverAssumption DEF Hush, Command
  <2>2. /\ queue' = [k \in DOMAIN queue |-> Hush(w, queue[k])]
        /\ current' = Hush(w, current)
    BY DEF Hangup
  <2> QED
    BY <1>0, <2>1, <2>2, CommandsTyped DEF ReleasePending
<1>6. \A u \in Workers \ {w} : reply'[u] = reply[u]
  BY <1>0 DEF Hangup, DriverTypeOK
<1>7. \A u \in Workers : Unsent(u)' = Unsent(u)
  BY <1>2, <1>3 DEF Unsent
<1> QED
  BY <1>1, <1>2, <1>3, <1>5, <1>6, <1>7 DEF Calling

LEMMA AskCalls ==
  ASSUME TypeInv, TurnInv, NEW w \in Workers, NEW from, NEW op \in Ops, Ask(w, from, op, PlaceOf(op)),
         from \notin Asking, OthersStay(w), OwnRecords(w), UNCHANGED retries
  PROVE  /\ Calling(w) /\ reply'[w] = "none"
         /\ op # "Submit" => Unsent(w)' = Unsent(w)
         /\ Unsent(w)' \subseteq Unsent(w) \cup {retries[w]}
         /\ op = "Release" => ReleasePending(PageOf(w))'
<1>0. /\ DriverTypeOK /\ Request(op, PageOf(w)) /\ pc[w] = from /\ pc'[w] = PlaceOf(op)
      /\ PageOf(w) \in Handles /\ Owner(PageOf(w)) = w
      /\ UNCHANGED <<current, page, send, reply, leaked>>
  BY PageOfIsHandle, GotoMoves DEF Ask, TypeInv, Request
<1>1. ASSUME NEW u \in Workers PROVE TalkOf(u)'
  <2>1. u # w => pc'[u] = pc[u]
    BY DEF OthersStay
  <2> QED
    BY <1>0, <2>1, TalkRequest DEF TurnInv
<1>2. Pending' = Pending \cup {<<op, PageOf(w)>>}
  BY <1>0, PendingRequest
<1>3. reply[w] = "none"
  BY <1>0, NotAsking DEF TurnInv
<1>4. /\ \A k \in DOMAIN queue : k \in DOMAIN queue' /\ queue'[k] = queue[k]
      /\ \E k \in DOMAIN queue' : queue'[k].op = op /\ queue'[k].handle = PageOf(w)
  <2> DEFINE c == [op |-> op, handle |-> PageOf(w), open |-> TRUE]
  <2>1. c \in Command /\ c.op = op /\ c.handle = PageOf(w)
    BY <1>0 DEF Command
  <2>2. queue \in Seq(Command) /\ queue' = Append(queue, c)
    BY <1>0 DEF Request, DriverTypeOK
  <2> HIDE DEF c
  <2>3. /\ Len(queue) \in Nat
        /\ DOMAIN queue' = 1..(Len(queue) + 1)
        /\ DOMAIN queue = 1..Len(queue)
        /\ \A k \in 1..Len(queue) : queue'[k] = queue[k]
        /\ queue'[Len(queue) + 1] = c
    BY <2>1, <2>2
  <2> QED
    BY <2>1, <2>3
<1>6. \A h : ReleasePending(h) => ReleasePending(h)'
  BY <1>0, <1>4 DEF ReleasePending
<1>7. op = "Release" => ReleasePending(PageOf(w))'
  <2>1. PageOf(w)' = PageOf(w)
    BY DEF PageOf
  <2> QED
    BY <1>4, <2>1 DEF ReleasePending
<1>8. ASSUME NEW u \in Workers, NEW k \in Attempts, <<"Submit", <<u, k>> >> \in Pending'
      PROVE  \/ <<"Submit", <<u, k>> >> \in Pending
             \/ op = "Submit" /\ u = w /\ k = retries[w]
  BY <1>2, <1>8 DEF PageOf
<1>9. \A u \in Workers \ {w} : Unsent(u)' = Unsent(u)
  BY <1>0, <1>2, <1>8 DEF Unsent
<1>10. /\ op # "Submit" => Unsent(w)' = Unsent(w)
       /\ Unsent(w)' \subseteq Unsent(w) \cup {retries[w]}
  BY <1>0, <1>2, <1>8 DEF Unsent
<1>11. \A p \in Pending' : p \in Pending \/ p[1] # "Clicked"
  BY <1>2 DEF Ops
<1> QED
  BY <1>0, <1>1, <1>3, <1>6, <1>7, <1>9, <1>10, <1>11 DEF Calling

\* What holds of a worker inside its turn.
LEMMA Here ==
  ASSUME TypeInv, SenderInv, TurnInv, NEW w \in Workers, Working(w), pc[w] # "write"
  PROVE  /\ owner[Req[w]] = w /\ Req[w] \in Requests
         /\ Admitted(Req[w]) /\ turns[Req[w]] \in Row /\ turns[Req[w]].state \in TurnState
         /\ RowFits(w, pc[w], turns[Req[w]].state)
         /\ SendFits(w, pc[w]) /\ PageFits(w, pc[w])
         /\ result[w] \notin {"E_TURN_TRANSITION", "E_TURN_STATE"}
         /\ retries[w] \in Attempts /\ PageOf(w) = <<w, retries[w]>> /\ PageOf(w) \in Handles
<1>1. owner[Req[w]] = w /\ Req[w] \in Requests /\ w # NoWorker
  BY CoordinatorAssumption DEF SenderInv, Owned
<1>2. Admitted(Req[w]) /\ turns[Req[w]] \in Row /\ turns[Req[w]].state \in TurnState
  BY <1>1 DEF SenderInv, Owned, Admitted, TypeInv, LedgerTypeOK, Row
<1>3. Place(w) = pc[w] /\ Heading(w) = turns[Req[w]].state
  BY DEF Place, Heading
<1>4. RowOf(w) /\ SendOf(w) /\ ResultOf(w) /\ PagesOf(w)
  BY DEF TurnInv, LocalFits
<1>5. retries[w] \in Attempts /\ PageOf(w) = <<w, retries[w]>> /\ PageOf(w) \in Handles
  BY PageOfIsHandle DEF TypeInv, Control, Attempts, PageOf
<1> QED
  BY <1>1, <1>2, <1>3, <1>4, <1>5 DEF RowOf, SendOf, ResultOf, PagesOf

LEMMA SinglePlan ==
  ASSUME NEW state, NEW next
  PROVE  /\ <<next>> # <<>> /\ <<next>>[Len(<<next>>)] = next
         /\ next \in Successors(state) => IsPath(state, <<next>>)
<1>1. Len(<<next>>) = 1 /\ <<next>>[1] = next /\ 1..(Len(<<next>>) - 1) = {}
  OBVIOUS
<1> QED
  BY <1>1 DEF IsPath

LEMMA DoublePlan ==
  ASSUME NEW state, NEW first, NEW next
  PROVE  /\ <<first, next>> # <<>> /\ <<first, next>>[Len(<<first, next>>)] = next
         /\ first \in Successors(state) /\ next \in Successors(first)
              => IsPath(state, <<first, next>>)
<1>1. /\ Len(<<first, next>>) = 2 /\ <<first, next>>[1] = first /\ <<first, next>>[2] = next
      /\ 1..(Len(<<first, next>>) - 1) = {1}
  OBVIOUS
<1>2. <<first, next>> # <<>>
  OBVIOUS
<1> QED
  BY <1>1, <1>2 DEF IsPath

\* A step that changes no row keeps the invariant if it does so for its own worker.
LEMMA OwnStepKeepsTurn ==
  ASSUME TypeInv, SenderInv, TurnInv, NEW w \in Workers, OthersStay(w), OwnRecords(w), Calling(w),
         RowsOfOthers(w), LocalFits(w)', RowsBound', CacheFits'
  PROVE  TurnInv'
<1>1. Locally(w)
  BY DEF Locally, OwnRecords, Calling
<1>2. \A v \in Workers : TalkOf(v)' /\ LocalFits(v)'
  <2>1. ASSUME NEW v \in Workers, v # w PROVE LocalFits(v)'
    BY <1>1, <2>1, OthersKeepLocal DEF TurnInv
  <2> QED
    BY <2>1 DEF Calling
<1>3. ClicksReported'
  <2>1. Clicked' = Clicked
    BY DEF Calling, Clicked
  <2> QED
    BY <2>1 DEF Calling, TurnInv, ClicksReported
<1> QED
  BY <1>2, <1>3 DEF TurnInv

\* The places of a turn that has been admitted and has not ended.
TurnPlaces == Targets \cup Asking \cup {"prepare", "check", "readmit", "backoff"}

\* A move within the turn of worker w, with some states to write on the way.
MovesOn(w, p, states) ==
  \/ states = <<>> /\ Goto(w, p)
  \/ states \in Seq(TurnState) /\ Write(w, states, p)

\* The state that the row of worker w will have once those are written.
Last(w, states) == IF states = <<>> THEN turns[Req[w]].state ELSE states[Len(states)]

\* What the step may do to the evidence of its own pages.
Reads(w) ==
  \/ UNCHANGED evidence /\ Unsent(w)' = Unsent(w)
  \/ Unsent(w)' = {} /\ turns[Req[w]].state \notin TerminalStates
  \/ /\ UNCHANGED evidence /\ Unsent(w)' \subseteq {retries[w]}
     /\ evidence[<<w, retries[w]>>] = "none" /\ AllFailed(w)
     /\ turns[Req[w]].state \in {"Submitting"} \cup Answering

LEMMA MoveKeepsTurn ==
  ASSUME TypeInv, SenderInv, TurnInv, NEW w \in Workers, Working(w), pc[w] # "write",
         NEW p \in TurnPlaces, NEW states, MovesOn(w, p, states), NEW s, s = Last(w, states),
         OwnRecords(w), Calling(w), UNCHANGED <<turns, owner, replay>>, Reads(w),
         result'[w] \notin {"E_TURN_TRANSITION", "E_TURN_STATE"},
         states # <<>> => IsPath(turns[Req[w]].state, states) /\ OutcomeFits(w, s)',
         RowFits(w, p, s)', SendFits(w, p)', PageFits(w, p)'
  PROVE  TurnInv'
<1>0. /\ p \notin Starting \cup {"write", "done", "dead", "idle"}
      /\ owner[Req[w]] = w /\ Admitted(Req[w]) /\ Req[w] \in Requests
  BY Here DEF TurnPlaces, Targets, Asking, Starting
<1>1. /\ OthersStay(w)
      /\ states = <<>> => pc'[w] = p
      /\ states # <<>> => pc'[w] = "write" /\ after'[w] = p /\ plan'[w] = states
  BY GotoMoves, WriteMoves DEF MovesOn, TypeInv
<1>2. Place(w)' = p /\ Heading(w)' = s
  <2>1. CASE states = <<>>
    BY <1>0, <1>1, <2>1 DEF Place, Heading, Last
  <2>2. CASE states # <<>>
    BY <1>1, <2>2 DEF Place, Heading, Last
  <2> QED
    BY <2>1, <2>2
<1>3. RowOf(w)'
  <2>1. pc'[w] \notin Starting
    BY <1>0, <1>1 DEF Starting
  <2>2. pc'[w] = "write" => IsPath(turns'[Req[w]].state, plan'[w])
    BY <1>0, <1>1
  <2>3. RowFits(w, Place(w), Heading(w))'
    BY <1>2 DEF RowFits
  <2> QED
    BY <2>1, <2>2, <2>3 DEF RowOf, Starting, IsPath
<1>4. SendOf(w)'
  <2>1. SendFits(w, Place(w))'
    BY <1>2 DEF SendFits
  <2>2. pc'[w] = "write" => OutcomeFits(w, Heading(w))'
    <3>1. states # <<>> => OutcomeFits(w, s)'
      OBVIOUS
    <3> QED
      BY <1>0, <1>1, <1>2, <3>1 DEF OutcomeFits
  <2>3. SendOf(w) /\ Clicked' = Clicked
    BY DEF TurnInv, LocalFits, Calling, Clicked
  <2>4. UNCHANGED evidence => AllFailed(w)' = AllFailed(w) /\ Known(w)' = Known(w)
    BY <2>3 DEF AllFailed, Known, IsClicked
  <2>5. CASE UNCHANGED evidence /\ Unsent(w)' = Unsent(w)
    <3>1. OutcomeFits(w, turns[Req[w]].state)
      BY <1>0, <2>3 DEF SendOf
    <3>2. OutcomeFits(w, turns[Req[w]].state)'
      BY <2>3, <2>4, <2>5, <3>1 DEF OutcomeFits, IsClicked
    <3>3. Unsent(w)' # {} => /\ AllFailed(w)'
                             /\ turns'[Req[w]].state \in {"Submitting", "SubmissionUncertain"} \cup Answering
      BY <2>3, <2>4, <2>5 DEF SendOf
    <3> QED
      BY <2>1, <2>2, <2>3, <2>5, <3>2, <3>3 DEF SendOf
  <2>6. CASE Unsent(w)' = {} /\ turns[Req[w]].state \notin TerminalStates
    <3>1. OutcomeFits(w, turns[Req[w]].state)'
      BY <2>6 DEF OutcomeFits, TerminalStates
    <3> QED
      BY <2>1, <2>2, <2>6, <3>1 DEF SendOf
  <2>7. CASE /\ UNCHANGED evidence /\ Unsent(w)' \subseteq {retries[w]}
             /\ evidence[<<w, retries[w]>>] = "none" /\ AllFailed(w)
             /\ turns[Req[w]].state \in {"Submitting"} \cup Answering
    <3>1. OutcomeFits(w, turns[Req[w]].state)'
      BY <2>7 DEF OutcomeFits, Answering
    <3>2. /\ \A j, k \in Unsent(w)' : j = k
          /\ \A k \in Unsent(w)' : evidence'[<<w, k>>] = "none"
      BY <2>7
    <3> QED
      BY <2>1, <2>2, <2>4, <2>7, <3>1, <3>2 DEF SendOf
  <2> QED
    BY <2>5, <2>6, <2>7 DEF Reads
<1>5. ResultOf(w)'
  <2>1. ASSUME pc'[w] \in {"finish", "done"}, result'[w] \in {"delivered", "replayed"}
        PROVE  turns'[Req[w]].state = "Completed" /\ Admitted(Req[w])'
    <3>1. states = <<>> /\ p = "finish"
      BY <1>0, <1>1, <2>1
    <3>2. s = "Completed"
      BY <2>1, <3>1 DEF RowFits
    <3> QED
      BY <1>0, <3>1, <3>2 DEF Last, Admitted
  <2> QED
    BY <2>1 DEF ResultOf
<1>6. PagesOf(w)'
  BY <1>2 DEF PagesOf, PageFits
<1>7. RowsOfOthers(w) /\ RowsBound' /\ CacheFits'
  BY DEF RowsOfOthers, TurnInv, RowsBound, CacheFits, Admitted
<1> QED
  BY <1>1, <1>3, <1>4, <1>5, <1>6, <1>7, OwnStepKeepsTurn DEF LocalFits

(* The calls.                                                                *)

LEMMA OwnTracking ==
  ASSUME TypeInv, NEW w \in Workers, KeepTracking,
         UNCHANGED result \/ \E code : Returning(w, code)
  PROVE  /\ OwnRecords(w)
         /\ UNCHANGED <<tracker, synced, retries, evidence>>
         /\ \A v : Retries(v)' <=> result'[v] = "E_CHATGPT_THINKING_FAILED" /\ retries[v] < MaxRetries
  BY DEF KeepTracking, OwnRecords, Returning, TypeInv, Tracking, Retries

LEMMA AsksKeepTurn ==
  ASSUME TypeInv, SenderInv, TurnInv, NEW w \in Workers,
         AskPrepare(w) \/ AskObserve(w) \/ AskVerify(w) \/ AskStop(w) \/ AskRelease(w)
  PROVE  TurnInv'
<1> DEFINE s == turns[Req[w]].state
           n == retries[w]
<1>1. PICK from \in {"prepare", "observe", "verify", "stop", "release"},
           op \in {"Prepare", "Observe", "Verify", "Stop", "Release"} :
        /\ <<from, op>> \in {<<"prepare", "Prepare">>, <<"observe", "Observe">>,
                             <<"verify", "Verify">>, <<"stop", "Stop">>, <<"release", "Release">>}
        /\ Ask(w, from, op, PlaceOf(op))
        /\ KeepTracking
  BY DEF AskPrepare, AskObserve, AskVerify, AskStop, AskRelease, PlaceOf
<1>2. /\ pc[w] = from /\ Goto(w, PlaceOf(op)) /\ UNCHANGED <<turns, result, owner, replay>>
      /\ op \in Ops /\ from \notin Asking /\ Working(w) /\ pc[w] # "write"
  BY <1>1 DEF Ask, sharedVars, Ops, Asking, Working
<1>3. OwnRecords(w) /\ UNCHANGED <<tracker, synced, retries, evidence>>
  BY <1>1, <1>2, OwnTracking
<1>4. /\ Calling(w) /\ Unsent(w)' = Unsent(w)
      /\ op = "Release" => ReleasePending(PageOf(w))'
  <2>1. OthersStay(w)
    BY <1>2, GotoMoves DEF TypeInv
  <2> QED
    BY <1>1, <1>2, <1>3, <2>1, AskCalls
<1>5. /\ RowFits(w, from, s) /\ SendFits(w, from) /\ PageFits(w, from)
      /\ result[w] \notin {"E_TURN_TRANSITION", "E_TURN_STATE"}
      /\ PageOf(w) = <<w, n>> /\ n \in Attempts
  BY <1>2, Here
<1>6. UNCHANGED <<send, page>> /\ Clicked' = Clicked /\ leaked \subseteq leaked'
  BY <1>4 DEF Calling, Clicked
<1>7. ASSUME NEW p, RowFits(w, p, s)', SendFits(w, p)', PageFits(w, p)', p = PlaceOf(op)
      PROVE  TurnInv'
  <2>1. MovesOn(w, p, <<>>) /\ Last(w, <<>>) = s /\ Reads(w)
    BY <1>2, <1>3, <1>4, <1>7 DEF MovesOn, Last, Reads
  <2>2. p \in TurnPlaces
    BY <1>2, <1>7, PlaceIsAsking DEF TurnPlaces
  <2> QED
    BY <1>2, <1>3, <1>4, <1>5, <1>7, <2>1, <2>2, MoveKeepsTurn
<1>8. /\ Resumed(w)' <=> Resumed(w)
      /\ Retries(w)' <=> Retries(w)
      /\ \A k \in Attempts : IsClicked(w, k)' <=> IsClicked(w, k)
      /\ \A k \in Attempts : Disposed(<<w, k>>) => Disposed(<<w, k>>)'
  <2>1. \A k \in Attempts : <<w, k>> \in Handles
    BY DEF Handles
  <2> QED
    BY <1>2, <1>3, <1>4, <1>6, <2>1 DEF Resumed, Retries, IsClicked, Disposed, Calling
<1>9. CASE from = "prepare"
  <2>1. op = "Prepare" /\ PlaceOf(op) = "preparing"
    BY <1>1, <1>9 DEF PlaceOf
  <2>2. RowFits(w, "preparing", s)'
    BY <1>2, <1>3, <1>5, <1>8, <1>9 DEF RowFits
  <2>3. SendFits(w, "preparing")'
    BY <1>2, <1>3, <1>4, <1>5, <1>8, <1>9 DEF SendFits, Waiting, Starting
  <2>4. PageFits(w, "preparing")'
    BY <1>3, <1>5, <1>6, <1>8, <1>9 DEF PageFits, Starting
  <2> QED
    BY <1>7, <2>1, <2>2, <2>3, <2>4
<1>10. CASE from = "observe"
  <2>1. op = "Observe" /\ PlaceOf(op) = "observing"
    BY <1>1, <1>10 DEF PlaceOf
  <2>2. RowFits(w, "observing", s)'
    BY <1>2, <1>3, <1>5, <1>8, <1>10 DEF RowFits
  <2>3. SendFits(w, "observing")'
    BY <1>2, <1>3, <1>4, <1>5, <1>8, <1>10 DEF SendFits, Waiting, Starting
  <2>4. PageFits(w, "observing")'
    BY <1>3, <1>5, <1>6, <1>8, <1>10 DEF PageFits, Starting
  <2> QED
    BY <1>7, <2>1, <2>2, <2>3, <2>4
<1>11. CASE from = "verify"
  <2>1. op = "Verify" /\ PlaceOf(op) = "verifying"
    BY <1>1, <1>11 DEF PlaceOf
  <2>2. RowFits(w, "verifying", s)'
    BY <1>2, <1>3, <1>5, <1>8, <1>11 DEF RowFits
  <2>3. SendFits(w, "verifying")'
    BY <1>2, <1>3, <1>4, <1>5, <1>8, <1>11 DEF SendFits, Waiting, Starting
  <2>4. PageFits(w, "verifying")'
    BY <1>3, <1>5, <1>6, <1>8, <1>11 DEF PageFits, Starting
  <2> QED
    BY <1>7, <2>1, <2>2, <2>3, <2>4
<1>12. CASE from = "stop"
  <2>1. op = "Stop" /\ PlaceOf(op) = "stopping"
    BY <1>1, <1>12 DEF PlaceOf
  <2>2. RowFits(w, "stopping", s)'
    BY <1>2, <1>3, <1>5, <1>8, <1>12 DEF RowFits
  <2>3. SendFits(w, "stopping")'
    BY <1>2, <1>3, <1>4, <1>5, <1>8, <1>12 DEF SendFits, Waiting, Starting
  <2>4. PageFits(w, "stopping")'
    BY <1>3, <1>5, <1>6, <1>8, <1>12 DEF PageFits, Starting
  <2> QED
    BY <1>7, <2>1, <2>2, <2>3, <2>4
<1>13. CASE from = "release"
  <2>1. op = "Release" /\ PlaceOf(op) = "releasing"
    BY <1>1, <1>13 DEF PlaceOf
  <2>2. RowFits(w, "releasing", s)'
    BY <1>2, <1>3, <1>5, <1>8, <1>13 DEF RowFits
  <2>3. SendFits(w, "releasing")'
    BY <1>2, <1>3, <1>4, <1>5, <1>8, <1>13 DEF SendFits, Waiting, Starting
  <2>4. Disposed(<<w, n>>)'
    BY <1>4, <2>1 DEF PageOf, Disposed
  <2>5. PageFits(w, "releasing")'
    BY <1>3, <1>5, <1>6, <1>8, <1>13, <2>4 DEF PageFits, Starting
  <2> QED
    BY <1>7, <2>1, <2>2, <2>3, <2>5
<1> QED
  BY <1>9, <1>10, <1>11, <1>12, <1>13

LEMMA AskSubmitKeepsTurn ==
  ASSUME TypeInv, SenderInv, TurnInv, NEW w \in Workers, AskSubmit(w)
  PROVE  TurnInv'
<1> DEFINE s == turns[Req[w]].state
           n == retries[w]
<1>1. /\ Ask(w, "submit", "Submit", "submitting") /\ PlaceOf("Submit") = "submitting"
      /\ tracker' = [tracker EXCEPT ![w] = "Submitting"]
      /\ UNCHANGED <<synced, retries, evidence>>
  BY DEF AskSubmit, PlaceOf
<1>2. /\ pc[w] = "submit" /\ Goto(w, "submitting") /\ UNCHANGED <<turns, result, owner, replay>>
      /\ Working(w) /\ pc[w] # "write" /\ tracker'[w] = "Submitting"
  BY <1>1 DEF Ask, sharedVars, Working, TypeInv, Tracking
<1>3. OwnRecords(w) /\ OthersStay(w)
  BY <1>1, <1>2, GotoMoves DEF OwnRecords, TypeInv, Tracking
<1>4. /\ Calling(w) /\ Unsent(w)' \subseteq Unsent(w) \cup {n} /\ reply'[w] = "none"
  <2>1. "Submit" \in Ops /\ "submit" \notin Asking
    BY DEF Ops, Asking
  <2> QED
    BY <1>1, <1>3, <2>1, AskCalls
<1>5. /\ RowFits(w, "submit", s) /\ SendFits(w, "submit") /\ PageFits(w, "submit")
      /\ result[w] \notin {"E_TURN_TRANSITION", "E_TURN_STATE"}
      /\ n \in Attempts
  BY <1>2, Here
<1>6. UNCHANGED <<send, page>> /\ Clicked' = Clicked /\ leaked \subseteq leaked'
  BY <1>4 DEF Calling, Clicked
<1>7. /\ Resumed(w)' <=> Resumed(w)
      /\ Retries(w)' <=> Retries(w)
      /\ \A k \in Attempts : IsClicked(w, k)' <=> IsClicked(w, k)
      /\ \A k \in Attempts : Disposed(<<w, k>>) => Disposed(<<w, k>>)'
  <2>1. \A k \in Attempts : <<w, k>> \in Handles
    BY DEF Handles
  <2> QED
    BY <1>1, <1>2, <1>4, <1>6, <2>1 DEF Resumed, Retries, IsClicked, Disposed, Calling
<1>8. /\ evidence[<<w, n>>] = "none" /\ ~IsClicked(w, n) /\ Unsent(w) = {}
      /\ \A k \in Attempts : /\ k < n => evidence[<<w, k>>] = "failed"
                             /\ k > n => evidence[<<w, k>>] = "none" /\ ~IsClicked(w, k)
  BY <1>5 DEF SendFits, Waiting, Starting
<1>9. s \in {"Submitting"} \cup Answering
  BY <1>5 DEF RowFits
<1>10. Reads(w)
  <2>1. AllFailed(w)
    <3>1. \A k \in Attempts : k < n \/ k = n \/ k > n
      BY <1>5, DriverAssumption DEF Attempts
    <3> QED
      BY <1>8, <3>1 DEF AllFailed
  <2> QED
    BY <1>1, <1>4, <1>8, <1>9, <2>1 DEF Reads
<1>11. RowFits(w, "submitting", s)'
  BY <1>1, <1>2, <1>5, <1>7 DEF RowFits
<1>12. SendFits(w, "submitting")'
  BY <1>1, <1>2, <1>4, <1>5, <1>7, <1>8 DEF SendFits, Waiting, Starting
<1>13. PageFits(w, "submitting")'
  BY <1>1, <1>5, <1>6, <1>7 DEF PageFits, Starting
<1>14. MovesOn(w, "submitting", <<>>) /\ Last(w, <<>>) = s /\ "submitting" \in TurnPlaces
  BY <1>2 DEF MovesOn, Last, TurnPlaces, Asking
<1> QED
  BY <1>2, <1>3, <1>4, <1>5, <1>10, <1>11, <1>12, <1>13, <1>14, MoveKeepsTurn

(* Recording an outcome.                                                     *)

\* What a step that starts no new attempt leaves as it was.
LEMMA CallingFacts ==
  ASSUME TypeInv, NEW w \in Workers, Calling(w), UNCHANGED retries
  PROVE  /\ UNCHANGED <<send, page>> /\ Clicked' = Clicked
         /\ Resumed(w)' <=> Resumed(w)
         /\ \A k \in Attempts : IsClicked(w, k)' <=> IsClicked(w, k)
         /\ \A k \in Attempts : Disposed(<<w, k>>) => Disposed(<<w, k>>)'
<1>1. \A k \in Attempts : <<w, k>> \in Handles
  BY DEF Handles
<1>2. UNCHANGED <<send, page>> /\ Clicked' = Clicked
  BY DEF Calling, Clicked
<1> QED
  BY <1>1, <1>2 DEF Calling, Resumed, IsClicked, Disposed

\* Before its click, and after an explicit failure, all clicks of a worker were failed.
LEMMA AllWereFailed ==
  ASSUME TypeInv, NEW w \in Workers, NEW p, SendFits(w, p),
         \/ p \in Waiting
         \/ p = "readmit"
         \/ p \in {"release", "releasing"} /\ Retries(w)
  PROVE  Unsent(w) = {} /\ AllFailed(w)
<1>1. retries[w] \in Attempts /\ \A k \in Attempts : k < retries[w] \/ k = retries[w] \/ k > retries[w]
  BY DriverAssumption DEF TypeInv, Control, Attempts
<1>2. p \notin {"done", "dead"}
  BY DEF Waiting, Starting
<1> QED
  BY <1>1, <1>2 DEF SendFits, AllFailed

\* What was known of the clicks is known when nothing was read.
LEMMA OutcomeStays ==
  ASSUME NEW w \in Workers, UNCHANGED <<evidence, send>>, Unsent(w)' = Unsent(w), NEW o,
         OutcomeFits(w, o)
  PROVE  OutcomeFits(w, o)'
  BY DEF OutcomeFits, Known, AllFailed, IsClicked, Clicked

LEMMA FailureIsKnown ==
  ASSUME NEW w, Unsent(w) = {}, Known(w), NEW o, o # "Completed"
  PROVE  OutcomeFits(w, o)
  BY DEF OutcomeFits

\* Every state of an open turn may be followed by the outcomes that the code records there.
LEMMA OutcomesFollow ==
  /\ \A s \in {"Prepared", "ObservedBaseline"} \cup Answering :
       "Failed" \in Successors(s) /\ "Cancelled" \in Successors(s)
  /\ "Failed" \in Successors("Submitting")
  /\ "Submitted" \in Successors("Submitting") /\ "Generating" \in Successors("Submitted")
  /\ "ObservedBaseline" \in Successors("Prepared") /\ "Submitting" \in Successors("ObservedBaseline")
  /\ "Completed" \in Successors("Generating")
  /\ \A s \in {"Submitting"} \cup Answering : "SubmissionUncertain" \in Successors(s)
  BY DEF Successors, Answering, TerminalStates

LEMMA ConcludeKeepsTurn ==
  ASSUME TypeInv, SenderInv, TurnInv, NEW w \in Workers, Working(w), pc[w] # "write",
         NEW p \in {"stop", "release", "finish"}, NEW states, NEW o \in TerminalStates,
         states # <<>>, states \in Seq(TurnState), Write(w, states, p), o = Last(w, states),
         IsPath(turns[Req[w]].state, states), OutcomeFits(w, o)',
         OwnRecords(w), Calling(w), UNCHANGED <<turns, owner, replay, retries>>, Reads(w),
         \A k \in Attempts : k # retries[w] => evidence'[<<w, k>>] = evidence[<<w, k>>],
         Unsent(w)' = Unsent(w),
         result'[w] \notin {"E_TURN_TRANSITION", "E_TURN_STATE", "replayed"}, ~Retries(w)',
         result'[w] = "delivered" => o = "Completed",
         p = "finish" => Disposed(<<w, retries[w]>>)'
  PROVE  TurnInv'
<1> DEFINE n == retries[w]
<1>1. /\ SendFits(w, pc[w]) /\ PageFits(w, pc[w]) /\ n \in Attempts
      /\ pc[w] \notin Starting \cup {"done", "dead"}
  BY Here DEF Working, Starting
<1>2. /\ UNCHANGED <<send, page>>
      /\ \A k \in Attempts : IsClicked(w, k)' <=> IsClicked(w, k)
      /\ \A k \in Attempts : Disposed(<<w, k>>) => Disposed(<<w, k>>)'
  BY CallingFacts
<1>3. \A k \in Attempts : (k < n \/ k > n) => k # n
  BY <1>1, DriverAssumption DEF Attempts
<1>4. RowFits(w, p, o)'
  BY DEF RowFits
<1>5. SendFits(w, p)'
  BY <1>1, <1>2, <1>3 DEF SendFits, Waiting, Starting
<1>6. PageFits(w, p)'
  BY <1>1, <1>2, <1>3 DEF PageFits, Starting
<1>7. p \in TurnPlaces /\ MovesOn(w, p, states)
  BY DEF TurnPlaces, Targets, MovesOn
<1> QED
  BY <1>4, <1>5, <1>6, <1>7, MoveKeepsTurn

\* Before the click: an outcome is recorded when the page could not be had, was not what was
\* asked for, or the turn was cancelled first.
LEMMA EarlyEndsKeepTurn ==
  ASSUME TypeInv, SenderInv, TurnInv, NEW w \in Workers,
         \/ PrepareUnanswered(w) \/ RejectPage(w) \/ GateCloses(w) \/ BackoffCancelled(w)
         \/ NotReleased(w) /\ Retries(w)
  PROVE  TurnInv'
<1> DEFINE s == turns[Req[w]].state
           n == retries[w]
<1>1. PICK p \in {"release", "finish"}, o \in {"Failed", "Cancelled"} :
        /\ Write(w, <<o>>, p) /\ KeepTracking
        /\ \E code \in {"E_BROWSER_PREPARE", "E_MODEL_FIDELITY", "E_CANCELLED",
                        "E_WEB_CLEANUP_UNCONFIRMED"} : Returning(w, code)
  BY DEF PrepareUnanswered, RejectPage, GateCloses, BackoffCancelled, NotReleased
<1>2. /\ pc[w] \in {"prepare", "preparing", "check", "gate", "backoff", "release", "releasing"}
      /\ pc[w] \in {"release", "releasing"} => Retries(w)
      /\ Working(w) /\ pc[w] # "write" /\ UNCHANGED <<turns, owner, replay>>
  BY DEF PrepareUnanswered, RejectPage, GateCloses, BackoffCancelled, NotReleased, Untold, Working,
         sharedVars
<1>3. /\ OwnRecords(w) /\ UNCHANGED <<tracker, synced, retries, evidence>>
      /\ OthersStay(w)
      /\ result'[w] \in {"E_BROWSER_PREPARE", "E_MODEL_FIDELITY", "E_CANCELLED",
                         "E_WEB_CLEANUP_UNCONFIRMED"}
      /\ ~Retries(w)'
  BY <1>1, OwnTracking, WriteMoves DEF Returning, TypeInv, Tracking
<1>4. /\ RowFits(w, pc[w], s) /\ SendFits(w, pc[w]) /\ PageFits(w, pc[w])
      /\ n \in Attempts /\ PageOf(w) = <<w, n>> /\ PageOf(w) \in Handles
  BY <1>2, Here
<1>5. /\ Calling(w) /\ Unsent(w)' = Unsent(w)
      /\ p = "finish" => Disposed(<<w, n>>)'
  <2>1. CASE PrepareUnanswered(w) \/ (NotReleased(w) /\ Retries(w))
    <3>1. PICK lost \in SUBSET Handles :
            /\ Hangup(w, lost)
            /\ pc[w] = "release" => PageOf(w) \in lost
            /\ pc[w] = "preparing" /\ reply[w] = "prepared" => PageOf(w) \in lost
      BY <1>4, <2>1 DEF PrepareUnanswered, NotReleased, Untold
    <3>2. Calling(w) /\ Unsent(w)' = Unsent(w) /\ lost \subseteq leaked'
      BY <1>3, <3>1, HangupCalls
    <3>3. Disposed(<<w, n>>) \/ <<w, n>> \in leaked'
      BY <1>2, <1>4, <2>1, <3>1, <3>2 DEF PageFits, PrepareUnanswered, NotReleased, Untold, Disposed
    <3>4. Disposed(<<w, n>>)'
      BY <1>3, <1>4, <3>2, <3>3, CallingFacts DEF Disposed
    <3> QED
      BY <3>2, <3>4
  <2>2. CASE RejectPage(w) \/ GateCloses(w) \/ BackoffCancelled(w)
    <3>1. UNCHANGED driverVars /\ pc[w] \in {"check", "gate", "backoff"}
      BY <2>2 DEF RejectPage, GateCloses, BackoffCancelled
    <3>2. Calling(w) /\ Unsent(w)' = Unsent(w)
      BY <1>3, <3>1, QuietCalls DEF Asking
    <3>3. p = "finish" => pc[w] = "backoff"
      <4>1. <<o>> # <<>>
        OBVIOUS
      <4>2. p = after'[w]
        BY <1>1, <4>1, WriteMoves DEF TypeInv
      <4>3. pc[w] # "backoff" => after'[w] = "release"
        <5>1. CASE RejectPage(w) \/ GateCloses(w)
          <6>1. \E states \in {<<"Failed">>, <<"Cancelled">>} : Write(w, states, "release")
            BY <5>1 DEF RejectPage, GateCloses
          <6> QED
            BY <6>1, WriteMoves DEF TypeInv
        <5> QED
          BY <2>2, <5>1 DEF BackoffCancelled
      <4> QED
        BY <4>2, <4>3
    <3>4. pc[w] = "backoff" => page[<<w, n>>] # "leased"
      BY <1>4 DEF PageFits
    <3>5. page' = page
      BY <3>2 DEF Calling
    <3> QED
      BY <1>3, <3>2, <3>3, <3>4, <3>5 DEF Disposed
  <2> QED
    BY <2>1, <2>2
<1>6. OutcomeFits(w, o)'
  <2>1. Unsent(w) = {} /\ AllFailed(w)
    BY <1>2, <1>4, AllWereFailed DEF Waiting
  <2>2. OutcomeFits(w, o)
    BY <2>1 DEF OutcomeFits, Known
  <2> QED
    BY <1>3, <1>5, <2>2, OutcomeStays DEF Calling
<1>7. s \in {"Prepared", "ObservedBaseline"} \cup Answering
  BY <1>2, <1>4 DEF RowFits
<1>8. IsPath(s, <<o>>) /\ <<o>> # <<>> /\ Last(w, <<o>>) = o
  BY <1>7, OutcomesFollow, SinglePlan DEF Last
<1>9. <<o>> \in Seq(TurnState) /\ o \in TerminalStates
  BY DEF TurnState, TerminalStates
<1>10. Reads(w)
  BY <1>3, <1>5 DEF Reads
<1> QED
  BY <1>1, <1>2, <1>3, <1>5, <1>6, <1>8, <1>9, <1>10, ConcludeKeepsTurn

\* On the way to the click.
LEMMA ApproachKeepsTurn ==
  ASSUME TypeInv, SenderInv, TurnInv, NEW w \in Workers,
         PrepareAnswered(w) \/ AcceptPage(w) \/ GateOpens(w) \/ BackoffEnds(w)
  PROVE  TurnInv'
<1> DEFINE s == turns[Req[w]].state
           n == retries[w]
<1>1. /\ pc[w] \in {"preparing", "check", "gate", "backoff"} /\ Working(w) /\ pc[w] # "write"
      /\ UNCHANGED <<turns, owner, replay, result, synced, retries, evidence>>
      /\ OwnRecords(w)
  BY DEF PrepareAnswered, AcceptPage, GateOpens, BackoffEnds, Told, Working, sharedVars, KeepTracking,
         OwnRecords, TypeInv, Tracking
<1>2. /\ RowFits(w, pc[w], s) /\ SendFits(w, pc[w]) /\ PageFits(w, pc[w])
      /\ result[w] \notin {"E_TURN_TRANSITION", "E_TURN_STATE"}
      /\ n \in Attempts
  BY <1>1, Here
<1>3. PICK p \in {"check", "gate", "submit", "prepare"},
           states \in {<<>>, <<"ObservedBaseline">>, <<"Submitting">>} :
        /\ <<pc[w], p>> \in {<<"preparing", "check">>, <<"check", "gate">>, <<"gate", "submit">>,
                             <<"backoff", "prepare">>}
        /\ states = (IF Resumed(w) \/ pc[w] \in {"preparing", "backoff"} THEN <<>>
                     ELSE IF pc[w] = "check" THEN <<"ObservedBaseline">> ELSE <<"Submitting">>)
        /\ (states = <<>> /\ Goto(w, p)) \/ Write(w, states, p)
  <2>1. CASE PrepareAnswered(w)
    <3>1. pc[w] = "preparing" /\ Goto(w, "check")
      BY <2>1 DEF PrepareAnswered, Told
    <3> QED
      BY <3>1
  <2>2. CASE AcceptPage(w)
    <3>1. pc[w] = "check" /\ Write(w, IF Resumed(w) THEN <<>> ELSE <<"ObservedBaseline">>, "gate")
      BY <2>2 DEF AcceptPage
    <3> QED
      BY <3>1
  <2>3. CASE GateOpens(w)
    <3>1. pc[w] = "gate" /\ Write(w, IF Resumed(w) THEN <<>> ELSE <<"Submitting">>, "submit")
      BY <2>3 DEF GateOpens
    <3> QED
      BY <3>1
  <2>4. CASE BackoffEnds(w)
    <3>1. pc[w] = "backoff" /\ Goto(w, "prepare")
      BY <2>4 DEF BackoffEnds
    <3> QED
      BY <3>1
  <2> QED
    BY <2>1, <2>2, <2>3, <2>4
<1>4. <<"ObservedBaseline">> # <<>> /\ <<"Submitting">> # <<>>
  OBVIOUS
<1>5. Calling(w) /\ Unsent(w)' = Unsent(w)
  <2>1. OthersStay(w)
    BY <1>3, GotoMoves, WriteMoves DEF TypeInv
  <2>2. CASE PrepareAnswered(w)
    BY <1>1, <2>1, <2>2, ToldCalls DEF PrepareAnswered
  <2>3. CASE AcceptPage(w) \/ GateOpens(w) \/ BackoffEnds(w)
    <3>1. UNCHANGED driverVars /\ pc[w] \notin Asking
      BY <2>3 DEF AcceptPage, GateOpens, BackoffEnds, Asking
    <3> QED
      BY <1>1, <2>1, <3>1, QuietCalls
  <2> QED
    BY <2>2, <2>3
<1>6. /\ UNCHANGED <<send, page>> /\ Clicked' = Clicked
      /\ Resumed(w)' <=> Resumed(w)
      /\ \A k \in Attempts : IsClicked(w, k)' <=> IsClicked(w, k)
      /\ \A k \in Attempts : Disposed(<<w, k>>) => Disposed(<<w, k>>)'
  BY <1>1, <1>5, CallingFacts
<1>7. PICK next : /\ next = Last(w, states)
                  /\ states = <<>> => next = s
                  /\ states # <<>> => states = <<next>>
                  /\ states # <<>> /\ pc[w] = "check" => next = "ObservedBaseline"
                  /\ states # <<>> /\ pc[w] = "gate" => next = "Submitting"
  <2>1. CASE states = <<>>
    BY <2>1 DEF Last
  <2>2. CASE states # <<>>
    <3>1. Last(w, <<"ObservedBaseline">>) = "ObservedBaseline" /\ Last(w, <<"Submitting">>) = "Submitting"
      BY SinglePlan DEF Last
    <3> QED
      BY <1>1, <1>3, <2>2, <3>1
  <2> QED
    BY <2>1, <2>2
<1>8. RowFits(w, p, next)'
  <2>1. CASE pc[w] = "preparing"
    BY <1>1, <1>2, <1>3, <1>6, <1>7, <2>1 DEF RowFits
  <2>2. CASE pc[w] = "check"
    BY <1>1, <1>2, <1>3, <1>4, <1>6, <1>7, <2>2 DEF RowFits
  <2>3. CASE pc[w] = "gate"
    BY <1>1, <1>2, <1>3, <1>4, <1>6, <1>7, <2>3 DEF RowFits
  <2>4. CASE pc[w] = "backoff"
    BY <1>1, <1>2, <1>3, <1>6, <1>7, <2>4 DEF RowFits
  <2> QED
    BY <1>1, <2>1, <2>2, <2>3, <2>4
<1>9. SendFits(w, p)'
  BY <1>1, <1>2, <1>3, <1>5, <1>6 DEF SendFits, Waiting, Starting
<1>10. PageFits(w, p)'
  BY <1>1, <1>2, <1>3, <1>6 DEF PageFits, Starting
<1>11. states # <<>> => IsPath(s, states) /\ OutcomeFits(w, next)'
  <2>1. ASSUME states # <<>>
        PROVE  /\ pc[w] \in {"check", "gate"} /\ ~Resumed(w)
               /\ states = <<next>> /\ next \in Successors(s)
    <3>1. pc[w] \in {"check", "gate"} /\ ~Resumed(w)
      BY <1>1, <1>3, <2>1
    <3>2. s = IF pc[w] = "gate" THEN "ObservedBaseline" ELSE "Prepared"
      BY <1>2, <3>1 DEF RowFits
    <3> QED
      BY <1>3, <1>7, <2>1, <3>1, <3>2, OutcomesFollow
  <2>2. states # <<>> => next \in {"ObservedBaseline", "Submitting"}
    BY <1>7
  <2> QED
    BY <2>1, <2>2, SinglePlan DEF OutcomeFits
<1>12. MovesOn(w, p, states) /\ p \in TurnPlaces
  <2>1. <<>> \in Seq(TurnState) /\ <<"ObservedBaseline">> \in Seq(TurnState)
        /\ <<"Submitting">> \in Seq(TurnState)
    BY DEF TurnState
  <2> QED
    BY <1>3, <2>1 DEF MovesOn, TurnPlaces, Targets
<1>13. Reads(w) /\ result'[w] \notin {"E_TURN_TRANSITION", "E_TURN_STATE"}
  BY <1>1, <1>2, <1>5 DEF Reads
<1>14. /\ Working(w) /\ pc[w] # "write" /\ p \in TurnPlaces /\ MovesOn(w, p, states)
       /\ next = Last(w, states) /\ OwnRecords(w) /\ Calling(w) /\ UNCHANGED <<turns, owner, replay>>
       /\ states # <<>> => IsPath(turns[Req[w]].state, states) /\ OutcomeFits(w, next)'
  BY <1>1, <1>5, <1>7, <1>11, <1>12
<1> HIDE DEF s, n
<1> QED
  BY <1>8, <1>9, <1>10, <1>13, <1>14, MoveKeepsTurn

LEMMA SubmitAnsweredKeepsTurn ==
  ASSUME TypeInv, SenderInv, TurnInv, NEW w \in Workers, SubmitAnswered(w)
  PROVE  TurnInv'
<1> DEFINE s == turns[Req[w]].state
           n == retries[w]
<1>1. /\ pc[w] = "submitting" /\ Working(w) /\ pc[w] # "write" /\ reply[w] = "ok"
      /\ UNCHANGED <<turns, owner, replay, result, tracker, retries, evidence>>
      /\ synced'[w] = IF Resumed(w) THEN synced[w] ELSE "Submitting"
      /\ OwnRecords(w) /\ Goto(w, "observe") /\ Told(w, "submitting", "ok")
  BY DEF SubmitAnswered, Told, Working, sharedVars, OwnRecords, TypeInv, Tracking
<1>2. /\ RowFits(w, "submitting", s) /\ SendFits(w, "submitting") /\ PageFits(w, "submitting")
      /\ result[w] \notin {"E_TURN_TRANSITION", "E_TURN_STATE"}
      /\ n \in Attempts
  BY <1>1, Here
<1>3. Calling(w) /\ Unsent(w)' = Unsent(w)
  BY <1>1, GotoMoves, ToldCalls DEF TypeInv
<1>4. /\ UNCHANGED <<send, page>>
      /\ Resumed(w)' <=> Resumed(w)
      /\ \A k \in Attempts : IsClicked(w, k)' <=> IsClicked(w, k)
      /\ \A k \in Attempts : Disposed(<<w, k>>) => Disposed(<<w, k>>)'
  BY <1>1, <1>3, CallingFacts
<1>5. RowFits(w, "observe", s)'
  BY <1>1, <1>2, <1>4 DEF RowFits
<1>6. IsClicked(w, n) /\ Unsent(w) = {}
  BY <1>1, <1>2, UnsentFacts DEF SendFits
<1>7. SendFits(w, "observe")'
  BY <1>1, <1>2, <1>3, <1>4, <1>6 DEF SendFits, RowFits, Waiting, Starting
<1>8. PageFits(w, "observe")'
  BY <1>1, <1>2, <1>4 DEF PageFits, Starting
<1>9. MovesOn(w, "observe", <<>>) /\ Last(w, <<>>) = s /\ Reads(w) /\ "observe" \in TurnPlaces
  BY <1>1, <1>3 DEF MovesOn, Last, Reads, TurnPlaces, Targets
<1> QED
  BY <1>1, <1>2, <1>3, <1>5, <1>7, <1>8, <1>9, MoveKeepsTurn

LEMMA SubmitUnansweredKeepsTurn ==
  ASSUME TypeInv, SenderInv, TurnInv, NEW w \in Workers, SubmitUnanswered(w)
  PROVE  TurnInv'
<1> DEFINE s == turns[Req[w]].state
<1>1. /\ pc[w] \in {"submit", "submitting"} /\ Working(w) /\ pc[w] # "write"
      /\ UNCHANGED <<turns, owner, replay, retries, evidence>>
      /\ result'[w] = "E_SUBMISSION_UNCERTAIN" /\ ~Retries(w)'
      /\ OwnRecords(w) /\ Write(w, <<"SubmissionUncertain">>, "stop")
      /\ Untold(w, "submit", "submitting")
  BY DEF SubmitUnanswered, Untold, Working, sharedVars, OwnRecords, Returning, TypeInv, Tracking, Retries
<1>2. RowFits(w, pc[w], s) /\ PageOf(w) \in Handles
  BY <1>1, Here
<1>3. PICK lost \in SUBSET Handles : Hangup(w, lost)
  BY <1>1, <1>2 DEF Untold
<1>4. Calling(w) /\ Unsent(w)' = Unsent(w)
  BY <1>1, <1>3, WriteMoves, HangupCalls DEF TypeInv
<1>5. s \in {"Submitting"} \cup Answering
  BY <1>1, <1>2 DEF RowFits
<1> DEFINE states == <<"SubmissionUncertain">>
<1>6. /\ states # <<>> /\ Last(w, states) = "SubmissionUncertain" /\ IsPath(s, states)
  BY <1>5, OutcomesFollow, SinglePlan DEF Last
<1>8. states \in Seq(TurnState) /\ "SubmissionUncertain" \in TerminalStates
  BY DEF TurnState, TerminalStates
<1>7. OutcomeFits(w, "SubmissionUncertain")' /\ Reads(w)
  BY <1>1, <1>4 DEF OutcomeFits, Reads
<1> QED
  BY <1>1, <1>4, <1>6, <1>7, <1>8, ConcludeKeepsTurn

(* Following the answer.                                                     *)

\* What a page being read is known to have done.
LEMMA Reading ==
  ASSUME TypeInv, SenderInv, TurnInv, NEW w \in Workers, pc[w] \in {"observe", "observing"}
  PROVE  /\ Working(w) /\ pc[w] # "write"
         /\ turns[Req[w]].state \in {"Submitting"} \cup Answering
         /\ synced[w] = turns[Req[w]].state
         /\ tracker[w] \in {"Submitting"} \cup Answering
         /\ tracker[w] # "Submitting" => turns[Req[w]].state # "Submitting"
         /\ tracker[w] = "Generating" => turns[Req[w]].state = "Generating"
         /\ retries[w] \in Attempts /\ PageOf(w) = <<w, retries[w]>> /\ PageOf(w) \in Handles
         /\ IsClicked(w, retries[w]) /\ Unsent(w) = {}
         /\ evidence[<<w, retries[w]>>] = IF tracker[w] = "Submitting" THEN "none" ELSE "acknowledged"
         /\ \A k \in Attempts : /\ k < retries[w] => evidence[<<w, k>>] = "failed"
                                /\ k > retries[w] => evidence[<<w, k>>] = "none" /\ ~IsClicked(w, k)
         /\ PageFits(w, pc[w])
         /\ result[w] \notin {"E_TURN_TRANSITION", "E_TURN_STATE"}
<1>1. Working(w) /\ pc[w] # "write"
  BY DEF Working
<1>2. /\ RowFits(w, pc[w], turns[Req[w]].state) /\ SendFits(w, pc[w]) /\ PageFits(w, pc[w])
      /\ result[w] \notin {"E_TURN_TRANSITION", "E_TURN_STATE"}
      /\ retries[w] \in Attempts /\ PageOf(w) = <<w, retries[w]>> /\ PageOf(w) \in Handles
  BY <1>1, Here
<1> QED
  BY <1>1, <1>2 DEF RowFits, SendFits

LEMMA ObserveSlowKeepsTurn ==
  ASSUME TypeInv, SenderInv, TurnInv, NEW w \in Workers, ObserveSlow(w)
  PROVE  TurnInv'
<1> DEFINE s == turns[Req[w]].state
           n == retries[w]
<1>1. /\ pc[w] = "observing" /\ Told(w, "observing", "slow") /\ Goto(w, "observe") /\ KeepTracking
      /\ UNCHANGED <<turns, owner, replay, result>>
  BY DEF ObserveSlow, Told, sharedVars
<1>2. /\ OwnRecords(w) /\ UNCHANGED <<tracker, synced, retries, evidence>> /\ (Retries(w)' <=> Retries(w))
  BY <1>1, OwnTracking DEF Retries
<1>3. Calling(w) /\ Unsent(w)' = Unsent(w)
  BY <1>1, <1>2, GotoMoves, ToldCalls DEF TypeInv
<1>4. /\ UNCHANGED <<send, page>>
      /\ Resumed(w)' <=> Resumed(w)
      /\ \A k \in Attempts : IsClicked(w, k)' <=> IsClicked(w, k)
      /\ \A k \in Attempts : Disposed(<<w, k>>) => Disposed(<<w, k>>)'
  BY <1>2, <1>3, CallingFacts
<1>5. /\ RowFits(w, "observing", s) /\ SendFits(w, "observing") /\ PageFits(w, "observing")
      /\ result[w] \notin {"E_TURN_TRANSITION", "E_TURN_STATE"} /\ Working(w) /\ pc[w] # "write"
  BY <1>1, Here DEF Working
<1>6. RowFits(w, "observe", s)'
  BY <1>1, <1>2, <1>5 DEF RowFits
<1>10. /\ IsClicked(w, n) /\ Unsent(w) = {}
       /\ evidence[<<w, n>>] = IF tracker[w] = "Submitting" THEN "none" ELSE "acknowledged"
       /\ \A k \in Attempts : /\ k < n => evidence[<<w, k>>] = "failed"
                              /\ k > n => evidence[<<w, k>>] = "none" /\ ~IsClicked(w, k)
       /\ n \in Attempts
  BY <1>1, Reading
<1>7. SendFits(w, "observe")'
  BY <1>2, <1>3, <1>4, <1>10 DEF SendFits, Waiting, Starting
<1>8. PageFits(w, "observe")'
  BY <1>2, <1>4, <1>5 DEF PageFits, Starting
<1>9. MovesOn(w, "observe", <<>>) /\ Last(w, <<>>) = s /\ Reads(w) /\ "observe" \in TurnPlaces
  BY <1>1, <1>2, <1>3 DEF MovesOn, Last, Reads, TurnPlaces, Targets
<1> QED
  BY <1>1, <1>2, <1>3, <1>5, <1>6, <1>7, <1>8, <1>9, MoveKeepsTurn

\* The reading is given up: what is recorded depends on whether the message was acknowledged.
LEMMA ReadingEndsKeepTurn ==
  ASSUME TypeInv, SenderInv, TurnInv, NEW w \in Workers, ObserveCancelled(w) \/ ObserveFails(w)
  PROVE  TurnInv'
<1> DEFINE s == turns[Req[w]].state
           n == retries[w]
<1>1. /\ pc[w] \in {"observe", "observing"} /\ Hangup(w, {})
      /\ UNCHANGED <<turns, owner, replay, synced, retries, evidence>>
      /\ OwnRecords(w)
      /\ result'[w] \in {"E_CANCELLED", "E_BROWSER"}
  BY DEF ObserveCancelled, ObserveFails, sharedVars, OwnRecords, TypeInv, Tracking, Returning
<1>2. PICK o \in {AfterCancel(tracker[w]), AfterFail(tracker[w])} : Write(w, <<o>>, "stop")
  BY DEF ObserveCancelled, ObserveFails
<1>3. /\ Working(w) /\ pc[w] # "write"
      /\ s \in {"Submitting"} \cup Answering
      /\ tracker[w] \in {"Submitting"} \cup Answering
      /\ tracker[w] # "Submitting" => s # "Submitting"
      /\ n \in Attempts /\ IsClicked(w, n) /\ Unsent(w) = {}
      /\ evidence[<<w, n>>] = IF tracker[w] = "Submitting" THEN "none" ELSE "acknowledged"
  BY <1>1, Reading
<1>4. /\ tracker[w] = "Submitting" => o = "SubmissionUncertain"
      /\ tracker[w] # "Submitting" => o \in {"Cancelled", "Failed"}
  BY <1>2 DEF AfterCancel, AfterFail
<1>5. Calling(w) /\ Unsent(w)' = Unsent(w)
  BY <1>1, <1>2, WriteMoves, HangupCalls DEF TypeInv
<1>6. OutcomeFits(w, o)'
  <2>1. CASE tracker[w] = "Submitting"
    BY <1>4, <2>1 DEF OutcomeFits
  <2>2. CASE tracker[w] # "Submitting"
    <3>1. Known(w)
      BY <1>3, <2>2 DEF Known
    <3>2. OutcomeFits(w, o)
      BY <1>3, <1>4, <2>2, <3>1, FailureIsKnown
    <3> QED
      BY <1>1, <1>5, <3>2, OutcomeStays DEF Calling
  <2> QED
    BY <2>1, <2>2
<1>7. o \in Successors(s) /\ o \in TerminalStates /\ o \in TurnState
  BY <1>3, <1>4, OutcomesFollow DEF TerminalStates, TurnState
<1>8. IsPath(s, <<o>>) /\ <<o>> # <<>> /\ Last(w, <<o>>) = o
  BY <1>7, SinglePlan DEF Last
<1>9. <<o>> \in Seq(TurnState)
  BY <1>7
<1>10. Reads(w) /\ ~Retries(w)'
  BY <1>1, <1>5 DEF Reads, Retries
<1> HIDE DEF s, n
<1> QED
  BY <1>1, <1>2, <1>3, <1>5, <1>6, <1>7, <1>8, <1>9, <1>10, ConcludeKeepsTurn DEF s

\* What a reading that the tracker rejects says of the page.
LEMMA RejectedReading ==
  ASSUME NEW tr \in {"Submitting"} \cup Answering, NEW seen \in Observations,
         NEW old, old = IF tr = "Submitting" THEN "none" ELSE "acknowledged",
         NEW t, t = Track(tr, seen), Rejected(t)
  PROVE  /\ t = "Failed" \/ (t = "SubmissionUncertain" /\ tr = "Submitting")
         /\ seen = "failed" => t = "Failed"
         /\ Proves(old, t, seen)
              = IF seen = "failed" THEN "failed"
                ELSE IF t = "Failed" THEN "acknowledged" ELSE "none"
  BY DEF Observations, Answering, Rejected, Track, AfterFail, Proves

LEMMA AcceptedReading ==
  ASSUME NEW tr \in {"Submitting"} \cup Answering, NEW seen \in Observations,
         NEW old, old = IF tr = "Submitting" THEN "none" ELSE "acknowledged",
         NEW t, t = Track(tr, seen), ~Rejected(t)
  PROVE  /\ t \in {"Submitting", "Completed"} \cup Answering
         /\ t = "Submitting" => tr = "Submitting"
         /\ tr = "Generating" => t \in {"Generating", "Completed"}
         /\ Proves(old, t, seen)
              = IF t = "Completed" THEN "completed"
                ELSE IF t = "Submitting" THEN "none" ELSE "acknowledged"
  BY DEF Observations, Answering, Rejected, Track, AfterFail, Proves

\* What the evidence of a worker becomes with one reading of its page.
LEMMA ReadingMarks ==
  ASSUME TypeInv, NEW w \in Workers, NEW v, evidence' = [evidence EXCEPT ![PageOf(w)] = v]
  PROVE  /\ evidence'[<<w, retries[w]>>] = v
         /\ \A k \in Attempts : k # retries[w] => evidence'[<<w, k>>] = evidence[<<w, k>>]
         /\ \A u \in Workers \ {w} : \A k \in Attempts : evidence'[<<u, k>>] = evidence[<<u, k>>]
<1>1. PageOf(w) = <<w, retries[w]>> /\ PageOf(w) \in Handles
  BY PageOfIsHandle DEF PageOf, TypeInv
<1>2. evidence \in [Handles -> Evidence]
  BY DEF TypeInv, Tracking
<1>3. \A u \in Workers : \A k \in Attempts : <<u, k>> \in Handles
  BY DEF Handles
<1>4. \A h \in Handles : evidence'[h] = IF h = PageOf(w) THEN v ELSE evidence[h]
  BY <1>2
<1> QED
  BY <1>1, <1>3, <1>4

LEMMA PairIsAppend ==
  ASSUME NEW S, NEW x \in S, NEW y \in S
  PROVE  Append(<<x>>, y) = <<x, y>> /\ <<x>> \o <<y>> = <<x, y>>
<1> DEFINE a == Append(<<x>>, y)
           b == <<x, y>>
<1>1. <<x>> \in Seq(S) /\ Len(<<x>>) = 1 /\ b \in Seq(S) /\ Len(b) = 2 /\ b[1] = x /\ b[2] = y /\ <<x>>[1] = x
  OBVIOUS
<1>2. a \in Seq(S) /\ Len(a) = 2 /\ a[1] = x /\ a[2] = y
  BY <1>1, AppendProperties
<1>3. a = <<x>> \o <<y>>
  BY <1>1, AppendIsConcat
<1> HIDE DEF a, b
<1>4. \A i \in 1..Len(a) : a[i] = b[i]
  <2>1. \A i \in 1..2 : i = 1 \/ i = 2
    OBVIOUS
  <2> QED
    BY <1>1, <1>2, <2>1
<1>5. a = b
  BY <1>1, <1>2, <1>4, SeqEqual
<1> QED
  BY <1>3, <1>5 DEF a, b

\* A reading that is rejected: an explicit failure is retried while that is allowed, anything
\* else is recorded.
LEMMA ObserveRejectsKeepsTurn ==
  ASSUME TypeInv, SenderInv, TurnInv, NEW w \in Workers, ObserveRejects(w)
  PROVE  TurnInv'
<1> DEFINE s == turns[Req[w]].state
           n == retries[w]
<1>0. PICK seen \in Observations :
        LET t == Track(tracker[w], seen)
            first == IF synced[w] = "Submitting" /\ t = "Failed" THEN <<"Submitted">> ELSE <<>>
            retry == seen = "failed" /\ retries[w] < MaxRetries
        IN /\ Told(w, "observing", seen)
           /\ Rejected(t)
           /\ tracker' = [tracker EXCEPT ![w] = t]
           /\ evidence' = [evidence EXCEPT ![PageOf(w)] = Proves(@, t, seen)]
           /\ IF retry THEN Write(w, first, "release")
                       ELSE Write(w, Append(first, t), "stop")
           /\ Returning(w, IF seen = "failed" THEN "E_CHATGPT_THINKING_FAILED"
                                              ELSE "E_OBSERVATION")
  BY DEF ObserveRejects
<1>14. PICK t : t = Track(tracker[w], seen)
  OBVIOUS
<1>15. PICK first : first = IF synced[w] = "Submitting" /\ t = "Failed" THEN <<"Submitted">> ELSE <<>>
  OBVIOUS
<1>1. /\ Told(w, "observing", seen) /\ Rejected(t)
      /\ tracker' = [tracker EXCEPT ![w] = t]
      /\ evidence' = [evidence EXCEPT ![PageOf(w)] = Proves(@, t, seen)]
      /\ IF seen = "failed" /\ n < MaxRetries THEN Write(w, first, "release")
         ELSE Write(w, Append(first, t), "stop")
      /\ Returning(w, IF seen = "failed" THEN "E_CHATGPT_THINKING_FAILED" ELSE "E_OBSERVATION")
  BY <1>0, <1>14, <1>15
<1>2. /\ pc[w] = "observing" /\ UNCHANGED <<turns, owner, replay, synced, retries>>
      /\ result'[w] = IF seen = "failed" THEN "E_CHATGPT_THINKING_FAILED" ELSE "E_OBSERVATION"
      /\ tracker'[w] = t
  BY <1>1 DEF ObserveRejects, Told, sharedVars, Returning, TypeInv, Tracking
<1>3. /\ Working(w) /\ pc[w] # "write" /\ s \in {"Submitting"} \cup Answering
      /\ synced[w] = s /\ tracker[w] \in {"Submitting"} \cup Answering
      /\ tracker[w] # "Submitting" => s # "Submitting"
      /\ n \in Attempts /\ PageOf(w) = <<w, n>> /\ PageOf(w) \in Handles
      /\ IsClicked(w, n) /\ Unsent(w) = {} /\ PageFits(w, pc[w])
      /\ evidence[<<w, n>>] = IF tracker[w] = "Submitting" THEN "none" ELSE "acknowledged"
      /\ \A k \in Attempts : /\ k < n => evidence[<<w, k>>] = "failed"
                             /\ k > n => evidence[<<w, k>>] = "none" /\ ~IsClicked(w, k)
  BY <1>2, Reading
<1>4. /\ t = "Failed" \/ (t = "SubmissionUncertain" /\ tracker[w] = "Submitting")
      /\ seen = "failed" => t = "Failed"
      /\ Proves(evidence[<<w, n>>], t, seen)
           = IF seen = "failed" THEN "failed" ELSE IF t = "Failed" THEN "acknowledged" ELSE "none"
  <2>2. PICK tr \in {"Submitting"} \cup Answering : tr = tracker[w]
    BY <1>3
  <2>3. PICK old : old = IF tr = "Submitting" THEN "none" ELSE "acknowledged"
    OBVIOUS
  <2>6. t = Track(tr, seen)
    BY <1>14, <2>2
  <2>7. Rejected(t)
    BY <1>1
  <2>4. /\ t = "Failed" \/ (t = "SubmissionUncertain" /\ tr = "Submitting")
        /\ seen = "failed" => t = "Failed"
        /\ Proves(old, t, seen)
             = IF seen = "failed" THEN "failed" ELSE IF t = "Failed" THEN "acknowledged" ELSE "none"
    BY <2>3, <2>6, <2>7, RejectedReading
  <2>5. old = evidence[<<w, n>>]
    BY <1>3, <2>2, <2>3
  <2> QED
    BY <2>2, <2>4, <2>5
<1>5. /\ evidence'[<<w, n>>] = IF seen = "failed" THEN "failed"
                               ELSE IF t = "Failed" THEN "acknowledged" ELSE "none"
      /\ \A k \in Attempts : k # n => evidence'[<<w, k>>] = evidence[<<w, k>>]
      /\ \A u \in Workers \ {w} : \A k \in Attempts : evidence'[<<u, k>>] = evidence[<<u, k>>]
  <2>1. evidence' = [evidence EXCEPT ![PageOf(w)] = Proves(evidence[<<w, n>>], t, seen)]
    BY <1>1, <1>3
  <2>2. PICK v : v = Proves(evidence[<<w, n>>], t, seen)
    OBVIOUS
  <2>3. /\ evidence'[<<w, n>>] = v
        /\ \A k \in Attempts : k # n => evidence'[<<w, k>>] = evidence[<<w, k>>]
        /\ \A u \in Workers \ {w} : \A k \in Attempts : evidence'[<<u, k>>] = evidence[<<u, k>>]
    BY <2>1, <2>2, ReadingMarks
  <2>4. v = IF seen = "failed" THEN "failed" ELSE IF t = "Failed" THEN "acknowledged" ELSE "none"
    BY <1>4, <2>2
  <2> QED
    BY <2>3, <2>4
<1>6. OwnRecords(w)
  BY <1>1, <1>2, <1>5 DEF OwnRecords, Returning, TypeInv, Tracking
<1>7. OthersStay(w)
  BY <1>1, WriteMoves DEF TypeInv
<1>8. Calling(w) /\ Unsent(w)' = Unsent(w)
  BY <1>1, <1>6, <1>7, ToldCalls DEF Observations
<1>9. /\ UNCHANGED <<send, page>>
      /\ \A k \in Attempts : IsClicked(w, k)' <=> IsClicked(w, k)
      /\ \A k \in Attempts : Disposed(<<w, k>>) => Disposed(<<w, k>>)'
  BY <1>2, <1>8, CallingFacts
<1>10. Reads(w) /\ Unsent(w)' = {}
  BY <1>3, <1>8 DEF Reads, Answering, TerminalStates
<1>11. /\ result'[w] \notin {"E_TURN_TRANSITION", "E_TURN_STATE", "replayed", "delivered"}
       /\ Retries(w)' <=> seen = "failed" /\ n < MaxRetries
  BY <1>2 DEF Retries
<1>12. CASE seen = "failed" /\ n < MaxRetries
  <2>1. Write(w, first, "release") /\ first = IF s = "Submitting" THEN <<"Submitted">> ELSE <<>>
    BY <1>1, <1>3, <1>4, <1>12, <1>15
  <2>2. PICK next \in Answering : /\ next = Last(w, first)
                                  /\ first # <<>> => IsPath(s, first)
    <3>1. CASE s = "Submitting"
      <4>1. Last(w, first) = "Submitted" /\ IsPath(s, first)
        BY <2>1, <3>1, SinglePlan, OutcomesFollow DEF Last
      <4> QED
        BY <4>1 DEF Answering
    <3>2. CASE s # "Submitting"
      <4>1. Last(w, first) = s /\ first = <<>>
        BY <2>1, <3>2 DEF Last
      <4> QED
        BY <1>3, <3>2, <4>1
    <3> QED
      BY <3>1, <3>2
  <2>3. RowFits(w, "release", next)'
    BY <1>11, <1>12, <2>2 DEF RowFits
  <2>4. SendFits(w, "release")'
    BY <1>2, <1>3, <1>5, <1>9, <1>10, <1>12 DEF SendFits, Waiting, Starting
  <2>5. PageFits(w, "release")'
    BY <1>2, <1>3, <1>9 DEF PageFits, Starting
  <2>6. first \in Seq(TurnState) /\ "release" \in TurnPlaces
    <3>1. <<>> \in Seq(TurnState) /\ <<"Submitted">> \in Seq(TurnState)
      BY DEF TurnState
    <3> QED
      BY <2>1, <3>1 DEF TurnPlaces, Targets
  <2>7. first # <<>> => IsPath(turns[Req[w]].state, first) /\ OutcomeFits(w, next)'
    BY <2>2 DEF OutcomeFits, Answering
  <2>8. MovesOn(w, "release", first)
    BY <2>1, <2>6 DEF MovesOn
  <2> HIDE DEF s, n
  <2> QED
    BY <1>2, <1>3, <1>6, <1>8, <1>10, <1>11, <2>2, <2>3, <2>4, <2>5, <2>6, <2>7, <2>8, MoveKeepsTurn
<1>13. CASE ~(seen = "failed" /\ n < MaxRetries)
  <2>1. Write(w, Append(first, t), "stop")
    BY <1>1, <1>13
  <2>2. PICK states : states = Append(first, t)
    OBVIOUS
  <2>3. t \in TurnState /\ t \in TerminalStates /\ "Submitted" \in TurnState
    BY <1>4 DEF TurnState, TerminalStates
  <2>4. /\ states # <<>> /\ states \in Seq(TurnState)
        /\ Last(w, states) = t /\ IsPath(s, states)
    <3>1. CASE s = "Submitting" /\ t = "Failed"
      <4>1. states = <<"Submitted", t>>
        <5>1. first = <<"Submitted">>
          BY <1>3, <1>15, <3>1
        <5>2. states = Append(<<"Submitted">>, t)
          BY ONLY <2>2, <5>1
        <5>3. Append(<<"Submitted">>, t) = <<"Submitted", t>>
          BY <2>3, PairIsAppend
        <5> QED
          BY <5>2, <5>3
      <4>2. "Submitted" \in Successors(s) /\ t \in Successors("Submitted")
        BY <3>1, OutcomesFollow DEF Answering
      <4>3. <<"Submitted", t>> \in Seq(TurnState)
        BY <2>3
      <4> QED
        BY <4>1, <4>2, <4>3, DoublePlan DEF Last
    <3>2. CASE ~(s = "Submitting" /\ t = "Failed")
      <4>1. states = <<t>>
        <5>1. first = <<>>
          BY <1>3, <1>15, <3>2
        <5>2. states = Append(<<>>, t)
          BY ONLY <2>2, <5>1
        <5>3. Append(<<>>, t) = <<t>>
          BY ONLY <2>3
        <5> QED
          BY <5>2, <5>3
      <4>2. t \in Successors(s)
        BY <1>3, <1>4, <3>2, OutcomesFollow
      <4>3. <<t>> \in Seq(TurnState)
        BY <2>3
      <4> QED
        BY <4>1, <4>2, <4>3, SinglePlan DEF Last
    <3> QED
      BY <3>1, <3>2
  <2>5. OutcomeFits(w, t)'
    <3>1. CASE t = "SubmissionUncertain"
      BY <3>1 DEF OutcomeFits
    <3>2. CASE t = "Failed"
      <4>1. Known(w)'
        <5>1. CASE seen = "failed"
          <6>1. \A k \in Attempts : k < n \/ k = n \/ k > n
            BY <1>3, DriverAssumption DEF Attempts
          <6>2. \A k \in Attempts : (k < n \/ k > n) => k # n
            BY <1>3, DriverAssumption DEF Attempts
          <6>3. AllFailed(w)'
            BY <1>3, <1>5, <1>9, <5>1, <6>1, <6>2 DEF AllFailed
          <6> QED
            BY <6>3 DEF Known
        <5>2. CASE seen # "failed"
          <6>1. evidence'[<<w, n>>] = "acknowledged" /\ IsClicked(w, n)' /\ n \in Attempts
            BY <1>2, <1>3, <1>5, <1>9, <3>2, <5>2
          <6> QED
            BY <1>2, <6>1 DEF Known
        <5> QED
          BY <5>1, <5>2
      <4> QED
        BY <1>10, <3>2, <4>1 DEF OutcomeFits
    <3> QED
      BY <1>4, <3>1, <3>2
  <2>6. ~Retries(w)'
    BY <1>11, <1>13
  <2> HIDE DEF s, n
  <2>7. UNCHANGED <<turns, owner, replay, retries>>
    BY <1>2
  <2>8. Write(w, states, "stop")
    BY <2>1, <2>2
  <2>9. \A k \in Attempts : k # retries[w] => evidence'[<<w, k>>] = evidence[<<w, k>>]
    BY <1>5 DEF n
  <2>10. IsPath(turns[Req[w]].state, states)
    BY <2>4 DEF s
  <2> QED
    BY <1>3, <1>6, <1>8, <1>10, <1>11, <2>3, <2>4, <2>5, <2>6, <2>7, <2>8, <2>9, <2>10,
       ConcludeKeepsTurn
<1> QED
  BY <1>12, <1>13

\* The states by which a row catches up with its tracker.
LEMMA CatchingUp ==
  ASSUME NEW have \in {"Submitting"} \cup Answering,
         NEW t \in {"Submitting", "Completed"} \cup Answering
  PROVE  /\ t = "Submitting" => CatchUp(have, t) = <<>>
         /\ t = "Submitted" => CatchUp(have, t) = IF have = "Submitting" THEN <<"Submitted">> ELSE <<>>
         /\ t \in {"Generating", "Completed"} =>
              CatchUp(have, t) = IF have = "Submitting" THEN <<"Submitted", "Generating">>
                                 ELSE IF have = "Submitted" THEN <<"Generating">> ELSE <<>>
<1>1. /\ <<>> \o <<>> = <<>> /\ <<"Submitted">> \o <<>> = <<"Submitted">>
      /\ <<>> \o <<"Generating">> = <<"Generating">>
      /\ <<"Submitted">> \o <<"Generating">> = <<"Submitted", "Generating">>
  <2>1. <<"Submitted">> \in Seq(TurnState) /\ <<"Generating">> \in Seq(TurnState)
        /\ <<>> \in Seq(TurnState) /\ "Submitted" \in TurnState /\ "Generating" \in TurnState
    BY DEF TurnState
  <2>2. <<"Submitted">> \o <<"Generating">> = <<"Submitted", "Generating">>
    BY <2>1, PairIsAppend
  <2> QED
    BY <2>1, <2>2, ConcatEmptySeq
<1>2. CASE t = "Submitting"
  BY <1>1, <1>2 DEF CatchUp, Answering
<1>3. CASE t = "Submitted"
  BY <1>1, <1>3 DEF CatchUp, Answering
<1>4. CASE t \in {"Generating", "Completed"}
  <2>1. CASE have = "Submitting"
    BY <1>1, <1>4, <2>1 DEF CatchUp
  <2>2. CASE have = "Submitted"
    BY <1>1, <1>4, <2>2 DEF CatchUp
  <2>3. CASE have = "Generating"
    BY <1>1, <1>4, <2>3 DEF CatchUp
  <2> QED
    BY <1>4, <2>1, <2>2, <2>3 DEF Answering
<1> QED
  BY <1>2, <1>3, <1>4 DEF Answering

LEMMA ObserveAcceptsKeepsTurn ==
  ASSUME TypeInv, SenderInv, TurnInv, NEW w \in Workers, ObserveAccepts(w)
  PROVE  TurnInv'
<1> DEFINE s == turns[Req[w]].state
           n == retries[w]
<1>0. PICK seen \in Observations, news \in BOOLEAN :
        LET t == Track(tracker[w], seen)
            writes == CatchUp(synced[w], t)
        IN /\ Told(w, "observing", seen)
           /\ ~Rejected(t)
           /\ tracker' = [tracker EXCEPT ![w] = t]
           /\ evidence' = [evidence EXCEPT ![PageOf(w)] = Proves(@, t, seen)]
           /\ synced' = [synced EXCEPT ![w] = IF writes = <<>> THEN @ ELSE writes[Len(writes)]]
           /\ news => t = "Generating"
           /\ Write(w, writes, IF t = "Completed" \/ news THEN "verify" ELSE "observe")
  BY DEF ObserveAccepts
<1>1. PICK t : t = Track(tracker[w], seen)
  OBVIOUS
<1>2. PICK states : states = CatchUp(synced[w], t)
  OBVIOUS
<1>3. PICK p \in {"verify", "observe"} : /\ p = (IF t = "Completed" \/ news THEN "verify" ELSE "observe")
                                         /\ p = "verify" => t \in {"Completed", "Generating"}
                                         /\ t = "Completed" => p = "verify"
  BY <1>0, <1>1
<1>4. /\ Told(w, "observing", seen) /\ ~Rejected(t)
      /\ tracker' = [tracker EXCEPT ![w] = t]
      /\ evidence' = [evidence EXCEPT ![PageOf(w)] = Proves(@, t, seen)]
      /\ synced' = [synced EXCEPT ![w] = IF states = <<>> THEN @ ELSE states[Len(states)]]
      /\ Write(w, states, p)
  BY <1>0, <1>1, <1>2, <1>3
<1>5. /\ pc[w] = "observing" /\ UNCHANGED <<turns, owner, replay, result, retries>>
      /\ tracker'[w] = t
      /\ synced'[w] = IF states = <<>> THEN synced[w] ELSE states[Len(states)]
  BY <1>4 DEF ObserveAccepts, Told, sharedVars, TypeInv, Tracking
<1>6. /\ Working(w) /\ pc[w] # "write" /\ s \in {"Submitting"} \cup Answering
      /\ synced[w] = s /\ tracker[w] \in {"Submitting"} \cup Answering
      /\ tracker[w] # "Submitting" => s # "Submitting"
      /\ tracker[w] = "Generating" => s = "Generating"
      /\ n \in Attempts /\ PageOf(w) = <<w, n>> /\ PageOf(w) \in Handles
      /\ IsClicked(w, n) /\ Unsent(w) = {} /\ PageFits(w, pc[w])
      /\ evidence[<<w, n>>] = IF tracker[w] = "Submitting" THEN "none" ELSE "acknowledged"
      /\ \A k \in Attempts : /\ k < n => evidence[<<w, k>>] = "failed"
                             /\ k > n => evidence[<<w, k>>] = "none" /\ ~IsClicked(w, k)
      /\ result[w] \notin {"E_TURN_TRANSITION", "E_TURN_STATE"}
  BY <1>5, Reading
<1>7. /\ t \in {"Submitting", "Completed"} \cup Answering
      /\ t = "Submitting" => tracker[w] = "Submitting"
      /\ tracker[w] = "Generating" => t \in {"Generating", "Completed"}
      /\ Proves(evidence[<<w, n>>], t, seen)
           = IF t = "Completed" THEN "completed" ELSE IF t = "Submitting" THEN "none" ELSE "acknowledged"
  <2>1. PICK tr \in {"Submitting"} \cup Answering : tr = tracker[w]
    BY <1>6
  <2>2. PICK old : old = IF tr = "Submitting" THEN "none" ELSE "acknowledged"
    OBVIOUS
  <2>3. t = Track(tr, seen)
    BY <1>1, <2>1
  <2>4. ~Rejected(t)
    BY <1>4
  <2>5. /\ t \in {"Submitting", "Completed"} \cup Answering
        /\ t = "Submitting" => tr = "Submitting"
        /\ tr = "Generating" => t \in {"Generating", "Completed"}
        /\ Proves(old, t, seen)
             = IF t = "Completed" THEN "completed" ELSE IF t = "Submitting" THEN "none" ELSE "acknowledged"
    BY <2>2, <2>3, <2>4, AcceptedReading
  <2>6. old = evidence[<<w, n>>]
    BY <1>6, <2>1, <2>2
  <2> QED
    BY <2>1, <2>5, <2>6
<1>8. /\ evidence'[<<w, n>>] = IF t = "Completed" THEN "completed"
                               ELSE IF t = "Submitting" THEN "none" ELSE "acknowledged"
      /\ \A k \in Attempts : k # n => evidence'[<<w, k>>] = evidence[<<w, k>>]
      /\ \A u \in Workers \ {w} : \A k \in Attempts : evidence'[<<u, k>>] = evidence[<<u, k>>]
  <2>1. evidence' = [evidence EXCEPT ![PageOf(w)] = Proves(evidence[<<w, n>>], t, seen)]
    BY <1>4, <1>6
  <2> QED
    BY <1>7, <2>1, ReadingMarks
<1>9. OwnRecords(w)
  BY <1>4, <1>5, <1>8 DEF OwnRecords, TypeInv, Tracking
<1>10. OthersStay(w)
  BY <1>4, WriteMoves DEF TypeInv
<1>11. Calling(w) /\ Unsent(w)' = Unsent(w)
  BY <1>4, <1>9, <1>10, ToldCalls DEF Observations
<1>12. /\ UNCHANGED <<send, page>>
       /\ \A k \in Attempts : IsClicked(w, k)' <=> IsClicked(w, k)
       /\ \A k \in Attempts : Disposed(<<w, k>>) => Disposed(<<w, k>>)'
  BY <1>5, <1>11, CallingFacts
<1>13. Reads(w) /\ Unsent(w)' = {}
  BY <1>6, <1>11 DEF Reads, Answering, TerminalStates
<1>14. /\ t = "Submitting" => states = <<>>
       /\ t = "Submitted" => states = IF s = "Submitting" THEN <<"Submitted">> ELSE <<>>
       /\ t \in {"Generating", "Completed"} =>
            states = IF s = "Submitting" THEN <<"Submitted", "Generating">>
                     ELSE IF s = "Submitted" THEN <<"Generating">> ELSE <<>>
  <2>1. PICK have \in {"Submitting"} \cup Answering : have = s
    BY <1>6
  <2>2. states = CatchUp(have, t)
    BY <1>2, <1>6, <2>1
  <2> QED
    BY <1>7, <2>1, <2>2, CatchingUp
<1>15. PICK next : /\ next = Last(w, states) /\ synced'[w] = next
                   /\ states # <<>> => IsPath(s, states)
                   /\ next \in {"Submitting"} \cup Answering
                   /\ t # "Submitting" => next # "Submitting"
                   /\ t \in {"Generating", "Completed"} => next = "Generating"
                   /\ states \in Seq(TurnState)
  <2>0. /\ <<>> \in Seq(TurnState) /\ <<"Submitted">> \in Seq(TurnState)
        /\ <<"Generating">> \in Seq(TurnState) /\ <<"Submitted", "Generating">> \in Seq(TurnState)
    BY DEF TurnState
  <2>1. CASE states = <<>>
    <3>1. Last(w, states) = s /\ synced'[w] = s
      BY <1>5, <1>6, <2>1 DEF Last
    <3>2. <<"Submitted">> # <<>> /\ <<"Generating">> # <<>> /\ <<"Submitted", "Generating">> # <<>>
      OBVIOUS
    <3>3. /\ t # "Submitting" => s # "Submitting"
          /\ t \in {"Generating", "Completed"} => s = "Generating"
      BY <1>6, <1>7, <1>14, <2>1, <3>2 DEF Answering
    <3> QED
      BY <1>6, <2>0, <2>1, <3>1, <3>3
  <2>2. CASE states = <<"Submitted">> /\ s = "Submitting" /\ t = "Submitted"
    <3>1. Last(w, states) = "Submitted" /\ synced'[w] = "Submitted" /\ IsPath(s, states)
      BY <1>5, <2>2, SinglePlan, OutcomesFollow DEF Last
    <3> QED
      BY <2>0, <2>2, <3>1 DEF Answering
  <2>3. CASE states = <<"Generating">> /\ s = "Submitted"
    <3>1. Last(w, states) = "Generating" /\ synced'[w] = "Generating" /\ IsPath(s, states)
      BY <1>5, <2>3, SinglePlan, OutcomesFollow DEF Last
    <3> QED
      BY <2>0, <2>3, <3>1 DEF Answering
  <2>4. CASE states = <<"Submitted", "Generating">> /\ s = "Submitting"
    <3>1. Last(w, states) = "Generating" /\ synced'[w] = "Generating" /\ IsPath(s, states)
      BY <1>5, <2>4, DoublePlan, OutcomesFollow DEF Last
    <3> QED
      BY <2>0, <2>4, <3>1 DEF Answering
  <2> QED
    BY <1>7, <1>14, <2>1, <2>2, <2>3, <2>4 DEF Answering
<1>16. RowFits(w, p, next)'
  BY <1>3, <1>5, <1>7, <1>15 DEF RowFits, Answering
<1>17. SendFits(w, p)'
  BY <1>3, <1>5, <1>6, <1>7, <1>8, <1>12, <1>13 DEF SendFits, Waiting, Starting, Answering
<1>18. PageFits(w, p)'
  BY <1>5, <1>6, <1>12 DEF PageFits, Starting
<1>19. /\ MovesOn(w, p, states) /\ p \in TurnPlaces
       /\ states # <<>> => IsPath(turns[Req[w]].state, states) /\ OutcomeFits(w, next)'
  BY <1>4, <1>15 DEF MovesOn, TurnPlaces, Targets, OutcomeFits, Answering
<1>20. UNCHANGED <<turns, owner, replay>> /\ result'[w] \notin {"E_TURN_TRANSITION", "E_TURN_STATE"}
  BY <1>5, <1>6
<1> HIDE DEF s, n
<1> QED
  BY <1>6, <1>9, <1>11, <1>13, <1>15, <1>16, <1>17, <1>18, <1>19, <1>20, MoveKeepsTurn

\* A page whose answer is being verified has acknowledged its message.
LEMMA Verifying ==
  ASSUME TypeInv, SenderInv, TurnInv, NEW w \in Workers, pc[w] \in {"verify", "verifying"}
  PROVE  /\ Working(w) /\ pc[w] # "write"
         /\ turns[Req[w]].state = "Generating" /\ synced[w] = "Generating"
         /\ tracker[w] \in {"Generating", "Completed"}
         /\ retries[w] \in Attempts /\ PageOf(w) = <<w, retries[w]>> /\ PageOf(w) \in Handles
         /\ IsClicked(w, retries[w]) /\ Unsent(w) = {}
         /\ evidence[<<w, retries[w]>>] = IF tracker[w] = "Completed" THEN "completed" ELSE "acknowledged"
         /\ \A k \in Attempts : /\ k < retries[w] => evidence[<<w, k>>] = "failed"
                                /\ k > retries[w] => evidence[<<w, k>>] = "none" /\ ~IsClicked(w, k)
         /\ PageFits(w, pc[w])
         /\ result[w] \notin {"E_TURN_TRANSITION", "E_TURN_STATE"}
<1>1. Working(w) /\ pc[w] # "write"
  BY DEF Working
<1>2. /\ RowFits(w, pc[w], turns[Req[w]].state) /\ SendFits(w, pc[w]) /\ PageFits(w, pc[w])
      /\ result[w] \notin {"E_TURN_TRANSITION", "E_TURN_STATE"}
      /\ retries[w] \in Attempts /\ PageOf(w) = <<w, retries[w]>> /\ PageOf(w) \in Handles
  BY <1>1, Here
<1> QED
  BY <1>1, <1>2 DEF RowFits, SendFits

\* A verified summary: reading goes on.
LEMMA PublishKeepsTurn ==
  ASSUME TypeInv, SenderInv, TurnInv, NEW w \in Workers, Publish(w), Goto(w, "observe"), UNCHANGED result
  PROVE  TurnInv'
<1> DEFINE s == turns[Req[w]].state
           n == retries[w]
<1>1. /\ pc[w] = "verifying" /\ Told(w, "verifying", "ok") /\ KeepTracking
      /\ UNCHANGED <<turns, owner, replay, result>> /\ tracker[w] = "Generating"
  BY DEF Publish, Told, sharedVars
<1>2. /\ OwnRecords(w) /\ UNCHANGED <<tracker, synced, retries, evidence>> /\ (Retries(w)' <=> Retries(w))
  BY <1>1, OwnTracking DEF Retries
<1>3. Calling(w) /\ Unsent(w)' = Unsent(w)
  BY <1>1, <1>2, GotoMoves, ToldCalls DEF TypeInv
<1>4. /\ UNCHANGED <<send, page>>
      /\ \A k \in Attempts : IsClicked(w, k)' <=> IsClicked(w, k)
      /\ \A k \in Attempts : Disposed(<<w, k>>) => Disposed(<<w, k>>)'
  BY <1>2, <1>3, CallingFacts
<1>5. /\ Working(w) /\ pc[w] # "write" /\ s = "Generating" /\ synced[w] = s
      /\ n \in Attempts /\ IsClicked(w, n) /\ Unsent(w) = {} /\ PageFits(w, pc[w])
      /\ evidence[<<w, n>>] = "acknowledged"
      /\ \A k \in Attempts : /\ k < n => evidence[<<w, k>>] = "failed"
                             /\ k > n => evidence[<<w, k>>] = "none" /\ ~IsClicked(w, k)
      /\ result[w] \notin {"E_TURN_TRANSITION", "E_TURN_STATE"}
  BY <1>1, Verifying
<1>6. RowFits(w, "observe", s)'
  BY <1>1, <1>2, <1>5 DEF RowFits, Answering
<1>7. SendFits(w, "observe")'
  BY <1>1, <1>2, <1>3, <1>4, <1>5 DEF SendFits, Waiting, Starting
<1>8. PageFits(w, "observe")'
  BY <1>1, <1>2, <1>4, <1>5 DEF PageFits, Starting
<1>9. MovesOn(w, "observe", <<>>) /\ Last(w, <<>>) = s /\ Reads(w) /\ "observe" \in TurnPlaces
  BY <1>1, <1>2, <1>3 DEF MovesOn, Last, Reads, TurnPlaces, Targets
<1> QED
  BY <1>1, <1>2, <1>3, <1>5, <1>6, <1>7, <1>8, <1>9, MoveKeepsTurn

\* The end of a verification: an answer read complete may be recorded as such, anything else
\* is a failure or a cancellation of a message known to exist.
LEMMA VerdictsKeepTurn ==
  ASSUME TypeInv, SenderInv, TurnInv, NEW w \in Workers,
         \/ Publish(w) /\ Returning(w, "E_BROWSER") /\ Write(w, <<"Failed">>, "stop")
         \/ Complete(w)
         \/ VerifyUnanswered(w)
  PROVE  TurnInv'
<1> DEFINE s == turns[Req[w]].state
           n == retries[w]
<1>1. PICK o \in {"Failed", "Cancelled", "Completed"}, p \in {"stop", "release"},
           code \in {"E_BROWSER", "delivered", "E_OUTPUT", "E_CANCELLED", "E_SESSION_SCOPE"} :
        /\ Write(w, <<o>>, p) /\ Returning(w, code)
        /\ o = "Completed" => tracker[w] = "Completed"
        /\ code = "delivered" => o = "Completed"
  BY DEF Publish, Complete, VerifyUnanswered
<1>2. /\ pc[w] \in {"verify", "verifying"} /\ KeepTracking
      /\ UNCHANGED <<turns, owner, replay>>
  BY DEF Publish, Complete, VerifyUnanswered, Told, Untold, sharedVars
<1>3. /\ OwnRecords(w) /\ UNCHANGED <<tracker, synced, retries, evidence>>
      /\ result'[w] = code /\ ~Retries(w)' /\ OthersStay(w)
  BY <1>1, <1>2, OwnTracking, WriteMoves DEF Returning, TypeInv, Tracking
<1>4. /\ Working(w) /\ pc[w] # "write" /\ s = "Generating" /\ PageOf(w) \in Handles
      /\ n \in Attempts /\ IsClicked(w, n) /\ Unsent(w) = {}
      /\ tracker[w] \in {"Generating", "Completed"}
      /\ evidence[<<w, n>>] = IF tracker[w] = "Completed" THEN "completed" ELSE "acknowledged"
  BY <1>2, Verifying
<1>5. Calling(w) /\ Unsent(w)' = Unsent(w)
  <2>1. CASE VerifyUnanswered(w)
    <3>1. PICK lost \in SUBSET Handles : Hangup(w, lost)
      BY <1>4, <2>1 DEF VerifyUnanswered, Untold
    <3> QED
      BY <1>3, <3>1, HangupCalls
  <2>2. CASE Publish(w) \/ Complete(w)
    BY <1>3, <2>2, ToldCalls DEF Publish, Complete
  <2> QED
    BY <2>1, <2>2
<1>6. OutcomeFits(w, o)'
  <2>1. OutcomeFits(w, o)
    <3>1. CASE o = "Completed"
      BY <1>1, <1>4, <3>1 DEF OutcomeFits
    <3>2. CASE o # "Completed"
      <4>1. Known(w)
        BY <1>4 DEF Known
      <4> QED
        BY <1>4, <3>2, <4>1, FailureIsKnown
    <3> QED
      BY <3>1, <3>2
  <2> QED
    BY <1>3, <1>5, <2>1, OutcomeStays DEF Calling
<1>7. o \in Successors(s) /\ o \in TerminalStates /\ o \in TurnState
  BY <1>4, OutcomesFollow DEF TerminalStates, TurnState, Answering
<1>8. IsPath(s, <<o>>) /\ <<o>> # <<>> /\ Last(w, <<o>>) = o
  BY <1>7, SinglePlan DEF Last
<1>9. <<o>> \in Seq(TurnState)
  BY <1>7
<1>10. /\ Reads(w)
       /\ result'[w] \notin {"E_TURN_TRANSITION", "E_TURN_STATE", "replayed"}
       /\ result'[w] = "delivered" => o = "Completed"
  BY <1>1, <1>3, <1>5 DEF Reads
<1> HIDE DEF s, n
<1> QED
  BY <1>1, <1>2, <1>3, <1>4, <1>5, <1>6, <1>7, <1>8, <1>9, <1>10, ConcludeKeepsTurn DEF s

(* Stopping, releasing, retrying, returning.                                 *)

LEMMA EndingKeepsTurn ==
  ASSUME TypeInv, SenderInv, TurnInv, NEW w \in Workers,
         StopEnds(w) \/ Released(w) \/ (NotReleased(w) /\ ~Retries(w))
  PROVE  TurnInv'
<1> DEFINE s == turns[Req[w]].state
           n == retries[w]
<1>1. /\ pc[w] \in {"stop", "stopping", "release", "releasing"} /\ KeepTracking
      /\ UNCHANGED <<turns, owner, replay, result>> /\ Working(w) /\ pc[w] # "write"
  BY DEF StopEnds, Released, NotReleased, Told, Untold, sharedVars, Working
<1>2. /\ OwnRecords(w) /\ UNCHANGED <<tracker, synced, retries, evidence>> /\ (Retries(w)' <=> Retries(w))
  BY <1>1, OwnTracking DEF Retries
<1>3. /\ RowFits(w, pc[w], s) /\ SendFits(w, pc[w]) /\ PageFits(w, pc[w])
      /\ result[w] \notin {"E_TURN_TRANSITION", "E_TURN_STATE"}
      /\ n \in Attempts /\ PageOf(w) = <<w, n>> /\ PageOf(w) \in Handles
  BY <1>1, Here
<1>4. PICK p \in {"release", "readmit", "finish"} :
        /\ Goto(w, p)
        /\ p = "release" => pc[w] \in {"stop", "stopping"}
        /\ p = "readmit" => pc[w] = "releasing" /\ Retries(w)
        /\ p = "finish" => pc[w] \in {"release", "releasing"} /\ ~Retries(w)
  BY DEF StopEnds, Released, NotReleased, Told, Untold
<1>5. OthersStay(w)
  BY <1>4, GotoMoves DEF TypeInv
<1>6. /\ Calling(w) /\ Unsent(w)' = Unsent(w)
      /\ pc[w] = "release" => Disposed(<<w, n>>)'
  <2>1. CASE Released(w)
    <3>1. pc[w] = "releasing" /\ Told(w, "releasing", "ok")
      BY <2>1 DEF Released, Told
    <3> QED
      BY <1>2, <1>5, <3>1, ToldCalls
  <2>2. CASE StopEnds(w) \/ NotReleased(w)
    <3>1. PICK lost \in SUBSET Handles : Hangup(w, lost) /\ (pc[w] = "release" => PageOf(w) \in lost)
      BY <1>3, <2>2 DEF StopEnds, NotReleased, Untold
    <3>2. Calling(w) /\ Unsent(w)' = Unsent(w) /\ lost \subseteq leaked'
      BY <1>2, <1>5, <3>1, HangupCalls
    <3>3. pc[w] = "release" => <<w, n>> \in leaked'
      BY <1>3, <3>1, <3>2
    <3> QED
      BY <1>2, <3>2, <3>3 DEF Disposed
  <2> QED
    BY <2>1, <2>2
<1>7. /\ UNCHANGED <<send, page>>
      /\ \A k \in Attempts : IsClicked(w, k)' <=> IsClicked(w, k)
      /\ \A k \in Attempts : Disposed(<<w, k>>) => Disposed(<<w, k>>)'
  BY <1>2, <1>6, CallingFacts
<1>8. RowFits(w, p, s)'
  BY <1>1, <1>2, <1>3, <1>4 DEF RowFits
<1>9. SendFits(w, p)'
  <2>1. \A k \in Attempts : /\ k < n => evidence[<<w, k>>] = "failed"
                            /\ k > n => /\ evidence[<<w, k>>] = "none"
                                        /\ ~IsClicked(w, k) /\ k \notin Unsent(w)
    BY <1>1, <1>3 DEF SendFits
  <2>2. Retries(w) /\ pc[w] = "releasing" => evidence[<<w, n>>] = "failed" /\ Unsent(w) = {}
    BY <1>3 DEF SendFits
  <2>3. p = "release" => ~Retries(w)
    BY <1>3, <1>4 DEF RowFits
  <2>5. p = "readmit" \/ (p = "release" /\ Retries(w)) =>
          evidence'[<<w, n>>] = "failed" /\ Unsent(w)' = {}
    BY <1>2, <1>4, <1>6, <2>2, <2>3
  <2>6. retries' = retries
    BY <1>2
  <2>7. /\ \A k \in Attempts : k < retries'[w] => evidence'[<<w, k>>] = "failed"
        /\ \A k \in Attempts : k > retries'[w] => evidence'[<<w, k>>] = "none"
        /\ \A k \in Attempts : k > retries'[w] => ~IsClicked(w, k)' /\ k \notin Unsent(w)'
    BY <1>2, <1>6, <1>7, <2>1
  <2>8. p = "readmit" \/ (p = "release" /\ Retries(w)') =>
          evidence'[<<w, retries'[w]>>] = "failed" /\ Unsent(w)' = {}
    BY <1>2, <2>5, <2>6
  <2>9. CASE p = "release"
    BY <2>7, <2>8, <2>9 DEF SendFits, Waiting, Starting
  <2>10. CASE p = "readmit"
    BY <2>7, <2>8, <2>10 DEF SendFits, Waiting, Starting
  <2>11. CASE p = "finish"
    BY <2>7, <2>8, <2>11 DEF SendFits, Waiting, Starting
  <2> QED
    BY <2>9, <2>10, <2>11
<1>10. PageFits(w, p)'
  <2>1. p \in {"readmit", "finish"} => Disposed(<<w, n>>)'
    BY <1>2, <1>3, <1>4, <1>6, <1>7 DEF PageFits
  <2> QED
    BY <1>1, <1>2, <1>3, <1>4, <1>7, <2>1 DEF PageFits, Starting
<1>11. MovesOn(w, p, <<>>) /\ Last(w, <<>>) = s /\ Reads(w) /\ p \in TurnPlaces
  BY <1>2, <1>4, <1>6 DEF MovesOn, Last, Reads, TurnPlaces, Targets
<1> QED
  BY <1>1, <1>2, <1>3, <1>6, <1>8, <1>9, <1>10, <1>11, MoveKeepsTurn

\* Another attempt: the row is found open, as this worker left it.
LEMMA ReadmitKeepsTurn ==
  ASSUME TypeInv, SenderInv, TurnInv, NEW w \in Workers, Readmit(w)
  PROVE  TurnInv'
<1> DEFINE s == turns[Req[w]].state
           n == retries[w]
<1>1. /\ pc[w] = "readmit" /\ UNCHANGED <<turns, driverVars, tracker, evidence, owner, replay>>
      /\ Working(w) /\ pc[w] # "write" /\ pc[w] \notin Asking
  BY DEF Readmit, sharedVars, Working, Asking
<1>2. /\ owner[Req[w]] = w /\ Req[w] \in Requests /\ Admitted(Req[w]) /\ s \in Answering
      /\ SendFits(w, "readmit") /\ PageFits(w, "readmit") /\ n \in Attempts
      /\ result[w] \notin {"E_TURN_TRANSITION", "E_TURN_STATE"}
  BY <1>1, Here DEF RowFits
<1>3. ~Conflicts(Req[w], SessionOf[w], Input[w])
  BY <1>2 DEF TurnInv, RowsBound, Conflicts
<1>4. /\ synced' = [synced EXCEPT ![w] = s]
      /\ \/ /\ Write(w, <<"Cancelled">>, "finish") /\ Returning(w, "E_CANCELLED") /\ UNCHANGED retries
         \/ /\ retries' = [retries EXCEPT ![w] = @ + 1] /\ Goto(w, "backoff") /\ UNCHANGED result
  BY <1>2, <1>3 DEF Readmit, Answering
<1>5. Unsent(w) = {} /\ AllFailed(w)
  BY <1>2, AllWereFailed
<1>6. OwnRecords(w) /\ OthersStay(w)
  BY <1>1, <1>4, GotoMoves, WriteMoves DEF OwnRecords, Returning, TypeInv, Tracking, Control
<1>7. Calling(w) /\ Unsent(w)' = Unsent(w)
  BY <1>1, <1>6, QuietCalls
<1>8. Reads(w)
  BY <1>1, <1>7 DEF Reads
<1>9. CASE Write(w, <<"Cancelled">>, "finish") /\ Returning(w, "E_CANCELLED") /\ UNCHANGED retries
  <2>1. OutcomeFits(w, "Cancelled")'
    <3>1. OutcomeFits(w, "Cancelled")
      BY <1>5 DEF OutcomeFits, Known
    <3> QED
      BY <1>1, <1>7, <3>1, OutcomeStays DEF Calling
  <2>2. IsPath(s, <<"Cancelled">>) /\ <<"Cancelled">> # <<>> /\ Last(w, <<"Cancelled">>) = "Cancelled"
    BY <1>2, OutcomesFollow, SinglePlan DEF Last
  <2>3. <<"Cancelled">> \in Seq(TurnState) /\ "Cancelled" \in TerminalStates
    BY DEF TurnState, TerminalStates
  <2>4. result'[w] = "E_CANCELLED" /\ ~Retries(w)'
    BY <1>9 DEF Returning, TypeInv, Tracking, Retries
  <2>5. Disposed(<<w, n>>)'
    <3>1. Disposed(<<w, n>>)
      BY <1>2 DEF PageFits
    <3> QED
      BY <1>2, <1>7, <1>9, <3>1, CallingFacts
  <2> QED
    BY <1>1, <1>6, <1>7, <1>8, <1>9, <2>1, <2>2, <2>3, <2>4, <2>5, ConcludeKeepsTurn
<1>10. CASE retries' = [retries EXCEPT ![w] = @ + 1] /\ Goto(w, "backoff") /\ UNCHANGED result
  <2>1. /\ retries'[w] = n + 1 /\ n + 1 \in Attempts
        /\ synced'[w] = s /\ n \in Nat
    BY <1>1, <1>4, <1>10, DriverAssumption DEF TypeInv, Control, Tracking, Attempts
  <2>2. \A k \in Attempts : /\ k < n + 1 => k < n \/ k = n
                            /\ k >= n + 1 => k > n
    BY <2>1, DriverAssumption DEF Attempts
  <2>3. RowFits(w, "backoff", s)'
    BY <1>1, <1>2, <2>1 DEF RowFits, Resumed
  <2>4. \A k \in Attempts : IsClicked(w, k)' <=> IsClicked(w, k)
    BY <1>7 DEF Calling, IsClicked, Clicked
  <2>5. SendFits(w, "backoff")'
    <3>1. evidence[<<w, n>>] = "failed"
      BY <1>2 DEF SendFits
    <3>2. \A k \in Attempts : /\ k < n + 1 => evidence[<<w, k>>] = "failed"
                              /\ k >= n + 1 => evidence[<<w, k>>] = "none" /\ ~IsClicked(w, k)
      BY <1>2, <2>2, <3>1 DEF SendFits
    <3>3. \A k \in Attempts : k > n + 1 => k >= n + 1
      BY <2>1, DriverAssumption DEF Attempts
    <3> QED
      BY <1>1, <1>5, <1>7, <2>1, <2>4, <3>2, <3>3 DEF SendFits, Waiting, Starting
  <2>6. PageFits(w, "backoff")'
    <3>1. \A k \in Attempts : Disposed(<<w, k>>) => Disposed(<<w, k>>)'
      <4>1. \A k \in Attempts : <<w, k>> \in Handles
        BY DEF Handles
      <4> QED
        BY <1>7, <4>1 DEF Calling, Disposed
    <3>2. \A k \in Attempts : /\ k < n + 1 => Disposed(<<w, k>>)
                              /\ k >= n + 1 => page[<<w, k>>] # "leased"
      BY <1>2, <2>2 DEF PageFits
    <3>3. (\A k \in Attempts : k > n + 1 => k >= n + 1) /\ page' = page
      BY <1>7, <2>1, DriverAssumption DEF Attempts, Calling
    <3> QED
      BY <2>1, <3>1, <3>2, <3>3 DEF PageFits, Starting
  <2>7. MovesOn(w, "backoff", <<>>) /\ Last(w, <<>>) = s /\ "backoff" \in TurnPlaces
    BY <1>10 DEF MovesOn, Last, TurnPlaces
  <2> QED
    BY <1>1, <1>2, <1>6, <1>7, <1>8, <1>10, <2>3, <2>5, <2>6, <2>7, MoveKeepsTurn
<1> QED
  BY <1>4, <1>9, <1>10

\* The request could not be looked up again.
LEMMA ReadmitFailsKeepsTurn ==
  ASSUME TypeInv, SenderInv, TurnInv, NEW w \in Workers, AdmitFails(w), pc[w] = "readmit"
  PROVE  TurnInv'
<1> DEFINE s == turns[Req[w]].state
           n == retries[w]
<1>1. /\ UNCHANGED <<turns, driverVars, owner, replay>> /\ Goto(w, "finish") /\ KeepTracking
      /\ Returning(w, "E_LEDGER") /\ Working(w) /\ pc[w] # "write" /\ pc[w] \notin Asking
  BY DEF AdmitFails, sharedVars, Working, Asking
<1>2. /\ SendFits(w, "readmit") /\ PageFits(w, "readmit") /\ n \in Attempts
  BY <1>1, Here
<1>3. /\ OwnRecords(w) /\ UNCHANGED <<tracker, synced, retries, evidence>> /\ OthersStay(w)
      /\ result'[w] = "E_LEDGER"
  BY <1>1, OwnTracking, GotoMoves DEF Returning, TypeInv, Tracking
<1>4. Calling(w) /\ Unsent(w)' = Unsent(w)
  BY <1>1, <1>3, QuietCalls
<1>5. /\ UNCHANGED <<send, page>>
      /\ \A k \in Attempts : IsClicked(w, k)' <=> IsClicked(w, k)
      /\ \A k \in Attempts : Disposed(<<w, k>>) => Disposed(<<w, k>>)'
  BY <1>3, <1>4, CallingFacts
<1>6. RowFits(w, "finish", s)'
  BY <1>3 DEF RowFits
<1>7. SendFits(w, "finish")'
  BY <1>2, <1>3, <1>4, <1>5 DEF SendFits, Waiting, Starting
<1>8. PageFits(w, "finish")'
  BY <1>2, <1>3, <1>5 DEF PageFits, Starting
<1>9. MovesOn(w, "finish", <<>>) /\ Last(w, <<>>) = s /\ Reads(w) /\ "finish" \in TurnPlaces
  BY <1>1, <1>3, <1>4 DEF MovesOn, Last, Reads, TurnPlaces, Targets
<1> QED
  BY <1>1, <1>3, <1>4, <1>6, <1>7, <1>8, <1>9, MoveKeepsTurn

(* Before the turn.                                                          *)

\* What holds of a worker whose request has not been admitted for it.
LEMMA Before ==
  ASSUME TypeInv, SenderInv, TurnInv, NEW w \in Workers, pc[w] \in Starting
  PROVE  /\ owner[Req[w]] # w /\ Req[w] \in Requests /\ w # NoWorker
         /\ retries[w] = 0 /\ 0 \in Attempts
         /\ SendFits(w, pc[w]) /\ PageFits(w, pc[w]) /\ Unsent(w) = {}
         /\ result[w] \notin {"E_TURN_TRANSITION", "E_TURN_STATE"}
         /\ pc[w] \notin Asking /\ pc[w] # "write"
<1>1. pc[w] \notin Asking /\ pc[w] # "write" /\ Req[w] \in Requests /\ w # NoWorker
  BY CoordinatorAssumption DEF Starting, Asking
<1>2. Place(w) = pc[w]
  BY <1>1 DEF Place
<1>3. RowOf(w) /\ SendOf(w) /\ ResultOf(w) /\ PagesOf(w)
  BY DEF TurnInv, LocalFits
<1>4. retries[w] = 0 /\ 0 \in Attempts
  <2>1. ~(retries[w] > 0) /\ retries[w] \in 0..MaxRetries
    BY DEF SenderInv, Announced, Starting, TypeInv, Control
  <2> QED
    BY <2>1, DriverAssumption DEF Attempts
<1> QED
  BY <1>1, <1>2, <1>3, <1>4 DEF RowOf, SendOf, ResultOf, PagesOf, SendFits, Waiting

LEMMA OutsideKeepsTurn ==
  ASSUME TypeInv, SenderInv, TurnInv, NEW w \in Workers, pc[w] \in Starting,
         NEW p \in Starting \cup {"finish", "done"}, Goto(w, p), KeepTracking,
         UNCHANGED <<turns, driverVars, owner, replay>>,
         UNCHANGED result \/ \E code : Returning(w, code),
         result'[w] \notin {"E_TURN_TRANSITION", "E_TURN_STATE"},
         p \in {"finish", "done"} /\ result'[w] \in {"delivered", "replayed"} =>
           Admitted(Req[w]) /\ turns[Req[w]].state = "Completed"
  PROVE  TurnInv'
<1>1. /\ OwnRecords(w) /\ UNCHANGED <<tracker, synced, retries, evidence>>
      /\ OthersStay(w) /\ pc'[w] = p
  BY OwnTracking, GotoMoves DEF TypeInv
<1>2. /\ owner[Req[w]] # w /\ retries[w] = 0 /\ 0 \in Attempts
      /\ SendFits(w, pc[w]) /\ PageFits(w, pc[w]) /\ Unsent(w) = {} /\ pc[w] \notin Asking
  BY Before
<1>3. Calling(w) /\ Unsent(w)' = Unsent(w)
  BY <1>1, <1>2, QuietCalls
<1>4. /\ UNCHANGED <<send, page>>
      /\ \A k \in Attempts : IsClicked(w, k)' <=> IsClicked(w, k)
      /\ \A k \in Attempts : Disposed(<<w, k>>) => Disposed(<<w, k>>)'
  BY <1>1, <1>3, CallingFacts
<1>5. Place(w)' = p /\ p # "write"
  BY <1>1 DEF Place, Starting
<1>6. RowOf(w)'
  BY <1>1, <1>2, <1>5 DEF RowOf
<1>7. SendOf(w)'
  <2>1. SendFits(w, p)'
    BY <1>1, <1>2, <1>3, <1>4 DEF SendFits, Waiting, Starting
  <2> QED
    BY <1>1, <1>2, <1>3, <1>5, <2>1 DEF SendOf, SendFits
<1>8. ResultOf(w)'
  BY <1>1 DEF ResultOf, Admitted
<1>9. PagesOf(w)'
  <2>1. \A k \in Attempts : k < 0 \/ k = 0 \/ k > 0
    BY DriverAssumption DEF Attempts
  <2>2. \A k \in Attempts : page[<<w, k>>] # "leased" => Disposed(<<w, k>>)'
    BY <1>4 DEF Disposed
  <2>3. page[<<w, 0>>] # "leased" /\ \A k \in Attempts : k > 0 => page[<<w, k>>] # "leased"
    BY <1>2 DEF PageFits, Starting
  <2>4. \A k \in Attempts : ~(k < 0)
    BY DriverAssumption DEF Attempts
  <2>5. PageFits(w, p)'
    BY <1>1, <1>2, <1>4, <2>1, <2>2, <2>3, <2>4 DEF PageFits, Starting
  <2> QED
    BY <1>5, <2>5 DEF PagesOf, PageFits
<1>10. RowsOfOthers(w) /\ RowsBound' /\ CacheFits'
  BY DEF RowsOfOthers, TurnInv, RowsBound, CacheFits, Admitted
<1> QED
  BY <1>1, <1>3, <1>6, <1>7, <1>8, <1>9, <1>10, OwnStepKeepsTurn DEF LocalFits

LEMMA BeginningKeepsTurn ==
  ASSUME TypeInv, SenderInv, TurnInv, NEW w \in Workers,
         \/ Execute(w) \/ Acquire(w) \/ Refused(w) \/ AdmitDuplicate(w)
         \/ AdmitFails(w) /\ pc[w] = "admit"
  PROVE  TurnInv'
<1>1. /\ pc[w] \in Starting /\ KeepTracking /\ UNCHANGED <<turns, driverVars, owner, replay>>
  BY DEF Execute, Acquire, Refused, AdmitDuplicate, AdmitFails, Starting, sharedVars
<1>2. result[w] \notin {"E_TURN_TRANSITION", "E_TURN_STATE"} /\ result \in [Workers -> Results]
  BY <1>1, Before DEF TypeInv, Tracking
<1>3. CASE Execute(w) \/ Acquire(w)
  <2>1. \E p \in {"acquire", "admit"} : Goto(w, p)
    BY <1>3 DEF Execute, Acquire
  <2>2. UNCHANGED result
    BY <1>3 DEF Execute, Acquire
  <2> QED
    BY <1>1, <1>2, <2>1, <2>2, OutsideKeepsTurn DEF Starting
<1>4. CASE Refused(w)
  <2>1. Goto(w, "done") /\ Returning(w, "E_REFUSED") /\ result'[w] = "E_REFUSED"
    BY <1>2, <1>4 DEF Refused, Returning
  <2> QED
    BY <1>1, <2>1, OutsideKeepsTurn
<1>5. CASE AdmitFails(w)
  <2>1. Goto(w, "finish") /\ Returning(w, "E_LEDGER") /\ result'[w] = "E_LEDGER"
    BY <1>2, <1>5 DEF AdmitFails, Returning
  <2> QED
    BY <1>1, <2>1, OutsideKeepsTurn
<1>6. CASE AdmitDuplicate(w)
  <2>1. Goto(w, "finish") /\ Returning(w, DuplicateResult(w)) /\ Admitted(Req[w])
    BY <1>6 DEF AdmitDuplicate
  <2>2. result'[w] = DuplicateResult(w)
    BY <1>2, <2>1 DEF Returning
  <2>3. /\ DuplicateResult(w) \in {"E_REQUEST_ID_CONFLICT", "E_REQUEST_ALREADY_ADMITTED",
                                   "replayed", "E_REPLAY_UNAVAILABLE"}
        /\ DuplicateResult(w) = "replayed" => turns[Req[w]].state = "Completed"
    BY DEF DuplicateResult
  <2> QED
    BY <1>1, <2>1, <2>2, <2>3, OutsideKeepsTurn
<1> QED
  BY <1>3, <1>4, <1>5, <1>6

LEMMA AdmitNewKeepsTurn ==
  ASSUME TypeInv, SenderInv, TurnInv, NEW w \in Workers, AdmitNew(w)
  PROVE  TurnInv'
<1> DEFINE row == [session |-> SessionOf[w], input |-> Input[w], state |-> "Prepared"]
<1>1. /\ pc[w] = "admit" /\ pc[w] \in Starting /\ ~Admitted(Req[w]) /\ Goto(w, "prepare")
      /\ turns' = [turns EXCEPT ![Req[w]] = row] /\ owner' = [owner EXCEPT ![Req[w]] = w]
      /\ KeepTracking /\ UNCHANGED <<driverVars, result, replay>>
  BY DEF AdmitNew, Admit, Starting
<1>2. /\ OwnRecords(w) /\ UNCHANGED <<tracker, synced, retries, evidence>>
      /\ OthersStay(w) /\ pc'[w] = "prepare"
  BY <1>1, OwnTracking, GotoMoves DEF TypeInv
<1>3. /\ owner[Req[w]] = NoWorker /\ Req[w] \in Requests /\ w # NoWorker
      /\ retries[w] = 0 /\ 0 \in Attempts
      /\ SendFits(w, "admit") /\ PageFits(w, "admit") /\ Unsent(w) = {} /\ pc[w] \notin Asking
      /\ result[w] \notin {"E_TURN_TRANSITION", "E_TURN_STATE"}
  BY <1>1, Before DEF SenderInv, Owned
<1>4. Calling(w) /\ Unsent(w)' = Unsent(w)
  BY <1>1, <1>2, <1>3, QuietCalls
<1>5. /\ UNCHANGED <<send, page>>
      /\ \A k \in Attempts : IsClicked(w, k)' <=> IsClicked(w, k)
      /\ \A k \in Attempts : Disposed(<<w, k>>) => Disposed(<<w, k>>)'
  BY <1>2, <1>4, CallingFacts
<1>6. /\ turns'[Req[w]] = row /\ turns'[Req[w]].state = "Prepared" /\ owner'[Req[w]] = w
      /\ \A r \in Requests \ {Req[w]} : turns'[r] = turns[r] /\ owner'[r] = owner[r]
  BY <1>1, <1>3 DEF TypeInv, LedgerTypeOK, Shared
<1>7. Place(w)' = "prepare" /\ Heading(w)' = "Prepared"
  BY <1>2, <1>6 DEF Place, Heading
<1>8. RowOf(w)'
  <2>1. ~Resumed(w)'
    BY <1>2, <1>3 DEF Resumed
  <2>2. RowFits(w, "prepare", "Prepared")'
    BY <2>1 DEF RowFits
  <2>3. pc'[w] \notin Starting /\ pc'[w] # "write"
    BY <1>2 DEF Starting
  <2> QED
    BY <1>7, <2>2, <2>3 DEF RowOf, RowFits
<1>9. SendOf(w)'
  <2>1. SendFits(w, "prepare")'
    BY <1>2, <1>3, <1>4, <1>5 DEF SendFits, Waiting, Starting
  <2>2. OutcomeFits(w, turns[Req[w]].state)'
    BY <1>6 DEF OutcomeFits
  <2> QED
    BY <1>2, <1>3, <1>4, <1>7, <2>1, <2>2 DEF SendOf, SendFits
<1>10. ResultOf(w)'
  BY <1>1, <1>2, <1>3 DEF ResultOf
<1>11. PagesOf(w)'
  <2>1. PageFits(w, "prepare")'
    BY <1>2, <1>3, <1>5 DEF PageFits, Starting
  <2> QED
    BY <1>7, <2>1 DEF PagesOf, PageFits
<1>12. RowsOfOthers(w)
  BY <1>1, <1>3, <1>6 DEF RowsOfOthers
<1>13. RowsBound'
  <2>1. row.session = SessionOf[w] /\ row.input = Input[w]
    OBVIOUS
  <2> QED
    BY <1>6, <2>1 DEF TurnInv, RowsBound, Admitted
<1>14. CacheFits'
  <2>1. \A k \in DOMAIN replay : replay[k] \in Requests \ {Req[w]}
    BY <1>1 DEF TypeInv, Shared, TurnInv, CacheFits
  <2> QED
    BY <1>1, <1>6, <2>1 DEF TurnInv, CacheFits, Admitted
<1> QED
  BY <1>2, <1>4, <1>8, <1>9, <1>10, <1>11, <1>12, <1>13, <1>14, OwnStepKeepsTurn DEF LocalFits

(* Ledger writes.                                                            *)

\* The steps that change nothing of a turn: a cancellation, or none at all.
LEMMA QuietKeepsTurn ==
  ASSUME TypeInv, TurnInv,
         UNCHANGED <<turns, driverVars, pc, plan, after, result, tracker, synced, retries, evidence,
                     owner, replay>>
  PROVE  TurnInv'
<1>1. UNCHANGED <<queue, current, page, send, reply, leaked>> /\ DriverTypeOK
  BY DEF driverVars, TypeInv
<1>2. Pending' = Pending /\ Clicked' = Clicked
  BY <1>1, PendingQuiet DEF Clicked
<1>3. ASSUME NEW w \in Workers PROVE TalkOf(w)' /\ LocalFits(w)'
  <2>1. TalkOf(w)'
    BY <1>1, TalkQuiet DEF TurnInv
  <2>2. /\ Unsent(w)' = Unsent(w) /\ Place(w)' = Place(w) /\ Heading(w)' = Heading(w)
        /\ (Retries(w)' <=> Retries(w)) /\ (Resumed(w)' <=> Resumed(w))
        /\ \A k : IsClicked(w, k)' <=> IsClicked(w, k)
        /\ \A h : Disposed(h)' <=> Disposed(h)
    BY <1>1, <1>2
       DEF Unsent, Place, Heading, Retries, Resumed, IsClicked, Disposed, ReleasePending
  <2>3. RowOf(w) /\ SendOf(w) /\ ResultOf(w) /\ PagesOf(w)
    BY DEF TurnInv, LocalFits
  <2>4. RowOf(w)'
    BY <2>2, <2>3 DEF RowOf, RowFits, IsPath
  <2>5. SendOf(w)'
    <3>1. SendFits(w, Place(w))'
      BY <1>1, <2>2, <2>3 DEF SendOf, SendFits
    <3>2. \A s : OutcomeFits(w, s) => OutcomeFits(w, s)'
      BY <1>1, <2>2, OutcomeStays
    <3>3. /\ pc[w] = "write" => OutcomeFits(w, Heading(w))'
          /\ owner[Req[w]] = w => OutcomeFits(w, turns[Req[w]].state)'
      BY <2>2, <2>3, <3>2 DEF SendOf, OutcomeFits
    <3> QED
      BY <2>2, <2>3, <3>1, <3>3 DEF SendOf, AllFailed
  <2>6. ResultOf(w)' /\ PagesOf(w)'
    BY <1>1, <2>2, <2>3 DEF ResultOf, Admitted, PagesOf, PageFits
  <2> QED
    BY <2>1, <2>4, <2>5, <2>6 DEF LocalFits
<1>4. RowsBound' /\ ClicksReported' /\ CacheFits'
  BY <1>2 DEF TurnInv, RowsBound, ClicksReported, CacheFits, Admitted
<1> QED
  BY <1>3, <1>4 DEF TurnInv

\* What holds of a worker that has states to write.
LEMMA Writing ==
  ASSUME TypeInv, SenderInv, TurnInv, NEW w \in Workers, pc[w] = "write"
  PROVE  /\ owner[Req[w]] = w /\ Req[w] \in Requests
         /\ Admitted(Req[w]) /\ turns[Req[w]] \in Row /\ turns[Req[w]].state \in TurnState
         /\ plan[w] \in Seq(TurnState) /\ plan[w] # <<>> /\ Len(plan[w]) \in Nat \ {0}
         /\ Head(plan[w]) = plan[w][1]
         /\ IsPath(turns[Req[w]].state, plan[w])
         /\ after[w] \in Targets
         /\ RowFits(w, after[w], plan[w][Len(plan[w])])
         /\ SendFits(w, after[w]) /\ PageFits(w, after[w])
         /\ OutcomeFits(w, plan[w][Len(plan[w])]) /\ OutcomeFits(w, turns[Req[w]].state)
         /\ result[w] \notin {"E_TURN_TRANSITION", "E_TURN_STATE"}
         /\ retries[w] \in Attempts
<1>1. owner[Req[w]] = w /\ Req[w] \in Requests /\ w # NoWorker
  BY CoordinatorAssumption DEF SenderInv, Owned, Working
<1>2. Admitted(Req[w]) /\ turns[Req[w]] \in Row /\ turns[Req[w]].state \in TurnState
  BY <1>1 DEF SenderInv, Owned, Admitted, TypeInv, LedgerTypeOK, Row
<1>3. plan[w] \in Seq(TurnState) /\ plan[w] # <<>> /\ after[w] \in Targets /\ retries[w] \in Attempts
  BY DEF TypeInv, Control, Attempts
<1>4. Len(plan[w]) \in Nat \ {0} /\ Head(plan[w]) = plan[w][1]
  BY <1>3, EmptySeq
<1>5. Place(w) = after[w] /\ Heading(w) = plan[w][Len(plan[w])]
  BY DEF Place, Heading
<1>6. RowOf(w) /\ SendOf(w) /\ ResultOf(w) /\ PagesOf(w)
  BY DEF TurnInv, LocalFits
<1> QED
  BY <1>1, <1>2, <1>3, <1>4, <1>5, <1>6 DEF RowOf, SendOf, ResultOf, PagesOf

LEMMA WriteTurnKeepsTurn ==
  ASSUME TypeInv, SenderInv, TurnInv, NEW w \in Workers, WriteTurn(w)
  PROVE  TurnInv'
<1>0. /\ pc[w] = "write" /\ pc[w] \notin Asking /\ Transition(Req[w], Head(plan[w]))
      /\ KeepTracking /\ UNCHANGED <<driverVars, result, owner, replay>>
  BY DEF WriteTurn, sharedVars, Asking
<1>1. PICK p, h, next, L : p = after[w] /\ h = plan[w][Len(plan[w])] /\ next = plan[w][1] /\ L = Len(plan[w])
  OBVIOUS
<1>2. /\ owner[Req[w]] = w /\ Req[w] \in Requests
      /\ Admitted(Req[w]) /\ turns[Req[w]] \in Row /\ turns[Req[w]].state \in TurnState
      /\ plan[w] \in Seq(TurnState) /\ plan[w] # <<>> /\ L \in Nat \ {0}
      /\ Head(plan[w]) = next /\ IsPath(turns[Req[w]].state, plan[w])
      /\ p \in Targets /\ RowFits(w, p, h) /\ SendFits(w, p) /\ PageFits(w, p)
      /\ OutcomeFits(w, h)
      /\ result[w] \notin {"E_TURN_TRANSITION", "E_TURN_STATE"}
      /\ retries[w] \in Attempts
  BY <1>0, <1>1, Writing
<1>3. /\ OwnRecords(w) /\ UNCHANGED <<tracker, synced, retries, evidence>>
      /\ (Retries(w)' <=> Retries(w)) /\ (Resumed(w)' <=> Resumed(w))
  BY <1>0, OwnTracking DEF Resumed, Retries
<1>4. /\ next \in Successors(turns[Req[w]].state)
      /\ turns' = [turns EXCEPT ![Req[w]].state = next]
  BY <1>0, <1>2 DEF Transition
<1>5. /\ turns'[Req[w]].state = next /\ turns'[Req[w]].session = turns[Req[w]].session
      /\ turns'[Req[w]].input = turns[Req[w]].input
      /\ \A r \in Requests \ {Req[w]} : turns'[r] = turns[r]
      /\ turns'[Req[w]] # NoRow
  <2>1. /\ turns'[Req[w]] = [turns[Req[w]] EXCEPT !.state = next]
        /\ \A r \in Requests \ {Req[w]} : turns'[r] = turns[r]
    BY <1>2, <1>4 DEF TypeInv, LedgerTypeOK
  <2>2. next \in TurnState
    BY <1>2, <1>4, SuccessorsFacts
  <2>3. turns'[Req[w]] \in Row /\ turns'[Req[w]].state = next
        /\ turns'[Req[w]].session = turns[Req[w]].session /\ turns'[Req[w]].input = turns[Req[w]].input
    BY <1>2, <2>1, <2>2 DEF Row
  <2> QED
    BY <2>1, <2>3, NoRowAssumption
<1>6. /\ OthersStay(w)
      /\ \/ L = 1 /\ pc'[w] = p /\ h = next
         \/ /\ L > 1 /\ pc'[w] = "write" /\ after'[w] = p
            /\ plan'[w] = Tail(plan[w])
  <2>1. CASE L = 1
    <3>1. Leave(w, p)
      BY <1>1, <2>1 DEF WriteTurn
    <3> QED
      BY <1>1, <2>1, <3>1 DEF Leave, OthersStay, TypeInv, Control
  <2>2. CASE L # 1
    <3>1. plan' = [plan EXCEPT ![w] = Tail(@)] /\ UNCHANGED <<pc, after>>
      BY <1>1, <2>2 DEF WriteTurn
    <3> QED
      BY <1>0, <1>1, <1>2, <2>2, <3>1 DEF OthersStay, TypeInv, Control
  <2> QED
    BY <2>1, <2>2
<1>7. L > 1 => /\ plan'[w][Len(plan'[w])] = h
               /\ IsPath(next, plan'[w])
               /\ next \notin TerminalStates
  <2> SUFFICES ASSUME L > 1
               PROVE  /\ plan'[w][Len(plan'[w])] = h
                      /\ IsPath(next, plan'[w])
                      /\ next \notin TerminalStates
    OBVIOUS
  <2>1. /\ plan'[w] = Tail(plan[w]) /\ Len(plan'[w]) = L - 1
        /\ \A k \in 1..(L - 1) : plan'[w][k] = plan[w][k + 1]
    <3>1. plan[w] \in Seq(TurnState) /\ plan[w] # <<>> /\ L = Len(plan[w])
      BY <1>1, <1>2
    <3>2. /\ Len(Tail(plan[w])) = Len(plan[w]) - 1
          /\ \A k \in 1..(Len(plan[w]) - 1) : Tail(plan[w])[k] = plan[w][k + 1]
      BY <3>1, HeadTailProperties
    <3>3. plan'[w] = Tail(plan[w])
      BY <1>2, <1>6
    <3> QED
      BY <3>1, <3>2, <3>3
  <2>2. plan'[w][L - 1] = plan[w][L] /\ plan'[w][1] = plan[w][2]
    BY <1>2, <2>1
  <2>3. \A k \in 1..(L - 1) : plan[w][k + 1] \in Successors(plan[w][k])
    BY <1>1, <1>2 DEF IsPath
  <2>4. plan[w][2] \in Successors(next)
    BY <1>1, <1>2, <2>3
  <2>5. \A k \in 1..(L - 1 - 1) : plan'[w][k + 1] \in Successors(plan'[w][k])
    <3> SUFFICES ASSUME NEW k \in 1..(L - 1 - 1)
                 PROVE  plan'[w][k + 1] \in Successors(plan'[w][k])
      OBVIOUS
    <3>1. k \in 1..(L - 1) /\ k + 1 \in 1..(L - 1)
      BY <1>2
    <3>2. plan'[w][k] = plan[w][k + 1] /\ plan'[w][k + 1] = plan[w][(k + 1) + 1]
      BY <2>1, <3>1
    <3> QED
      BY <2>3, <3>1, <3>2
  <2>6. next \notin TerminalStates
    BY <2>4 DEF Successors, TerminalStates
  <2> QED
    BY <1>1, <2>1, <2>2, <2>4, <2>5, <2>6 DEF IsPath
<1>8. Place(w)' = p /\ Heading(w)' = h
  BY <1>2, <1>5, <1>6, <1>7 DEF Place, Heading, Targets
<1>9. Calling(w) /\ Unsent(w)' = Unsent(w) /\ reply'[w] = reply[w]
  BY <1>0, <1>3, <1>6, QuietCalls
<1>10. /\ UNCHANGED <<send, page>>
       /\ \A k \in Attempts : IsClicked(w, k)' <=> IsClicked(w, k)
       /\ \A k \in Attempts : Disposed(<<w, k>>) => Disposed(<<w, k>>)'
  BY <1>3, <1>9, CallingFacts
<1>11. RowOf(w)'
  <2>1. pc'[w] \notin Starting
    BY <1>2, <1>6 DEF Starting, Targets
  <2>2. pc'[w] = "write" => IsPath(turns'[Req[w]].state, plan'[w])
    BY <1>2, <1>5, <1>6, <1>7 DEF Targets
  <2>3. RowFits(w, p, h)'
    BY <1>0, <1>2, <1>3 DEF RowFits
  <2> QED
    BY <1>8, <2>1, <2>2, <2>3 DEF RowOf, RowFits, IsPath
<1>12. OutcomeFits(w, h)' /\ OutcomeFits(w, next)'
  <2>1. OutcomeFits(w, next)
    BY <1>2, <1>6, <1>7 DEF OutcomeFits, TerminalStates
  <2> QED
    BY <1>2, <1>3, <1>9, <1>10, <2>1, OutcomeStays
<1>13. SendOf(w)'
  <2>1. SendFits(w, p)'
    BY <1>2, <1>3, <1>9, <1>10 DEF SendFits, Waiting, Starting
  <2>2. SendOf(w)
    BY DEF TurnInv, LocalFits
  <2>3. OutcomeFits(w, Heading(w))' /\ OutcomeFits(w, turns[Req[w]].state)'
    BY <1>5, <1>8, <1>12 DEF OutcomeFits
  <2>4. Unsent(w) # {} => next \in {"Submitting", "SubmissionUncertain"} \cup Answering
    <3>1. Unsent(w) # {} => next \notin {"Completed", "Failed", "Cancelled"}
      BY <1>9, <1>12 DEF OutcomeFits
    <3>2. Unsent(w) # {} => turns[Req[w]].state \in {"Submitting", "SubmissionUncertain"} \cup Answering
      BY <2>2 DEF SendOf
    <3> QED
      BY <1>4, <3>1, <3>2 DEF Successors, Answering, TerminalStates
  <2>5. AllFailed(w)' <=> AllFailed(w)
    BY <1>3, <1>10 DEF AllFailed
  <2> QED
    BY <1>3, <1>5, <1>8, <1>9, <2>1, <2>2, <2>3, <2>4, <2>5 DEF SendOf, SendFits
<1>14. ResultOf(w)'
  <2>1. ASSUME pc'[w] \in {"finish", "done"}, result'[w] \in {"delivered", "replayed"}
        PROVE  next = "Completed"
    <3>1. L = 1 /\ p = "finish" /\ h = next
      BY <1>2, <1>6, <2>1 DEF Targets
    <3> QED
      BY <1>0, <1>2, <2>1, <3>1 DEF RowFits
  <2> QED
    BY <1>0, <1>2, <1>5, <2>1 DEF ResultOf, Admitted
<1>15. PagesOf(w)'
  <2>1. PageFits(w, p)'
    BY <1>2, <1>3, <1>9, <1>10 DEF PageFits, Starting
  <2> QED
    BY <1>8, <2>1 DEF PagesOf, PageFits
<1>16. turns[Req[w]].state # "Completed"
  BY <1>4 DEF Successors, TerminalStates
<1>17. RowsOfOthers(w)
  BY <1>0, <1>2, <1>5, <1>16 DEF RowsOfOthers
<1>18. RowsBound'
  BY <1>0, <1>2, <1>5 DEF TurnInv, RowsBound, Admitted
<1>19. CacheFits'
  <2>1. \A k \in DOMAIN replay : replay[k] \in Requests \ {Req[w]}
    BY <1>16 DEF TypeInv, Shared, TurnInv, CacheFits
  <2> QED
    BY <1>0, <1>5, <2>1 DEF TurnInv, CacheFits, Admitted
<1> QED
  BY <1>3, <1>6, <1>9, <1>11, <1>13, <1>14, <1>15, <1>17, <1>18, <1>19, OwnStepKeepsTurn DEF LocalFits

LEMMA WriteFailsKeepsTurn ==
  ASSUME TypeInv, SenderInv, TurnInv, NEW w \in Workers, WriteFails(w)
  PROVE  TurnInv'
<1>0. /\ pc[w] = "write" /\ pc[w] \notin Asking /\ Leave(w, ErrorExit(w))
      /\ KeepTracking /\ UNCHANGED <<turns, driverVars, owner, replay>>
  BY DEF WriteFails, sharedVars, Asking
<1>1. /\ owner[Req[w]] = w /\ Req[w] \in Requests /\ Admitted(Req[w])
      /\ Head(plan[w]) \in Successors(turns[Req[w]].state)
      /\ after[w] \in Targets /\ SendFits(w, after[w]) /\ PageFits(w, after[w])
      /\ OutcomeFits(w, turns[Req[w]].state) /\ retries[w] \in Attempts
  BY <1>0, Writing DEF IsPath
<1>2. PICK p \in {"finish", "release"} : p = ErrorExit(w) /\ (p = "finish" => after[w] = "finish")
  BY DEF ErrorExit
<1>3. Returning(w, "E_LEDGER") /\ result'[w] = "E_LEDGER"
  BY <1>1 DEF WriteFails, Returning, TypeInv, Tracking
<1>4. /\ OwnRecords(w) /\ UNCHANGED <<tracker, synced, retries, evidence>>
      /\ ~Retries(w)'
  BY <1>0, <1>3, OwnTracking
<1>5. OthersStay(w) /\ pc'[w] = p
  BY <1>0, <1>2 DEF Leave, OthersStay, TypeInv, Control
<1>6. Calling(w) /\ Unsent(w)' = Unsent(w) /\ reply'[w] = reply[w]
  BY <1>0, <1>4, <1>5, QuietCalls
<1>7. /\ UNCHANGED <<send, page>>
      /\ \A k \in Attempts : IsClicked(w, k)' <=> IsClicked(w, k)
      /\ \A k \in Attempts : Disposed(<<w, k>>) => Disposed(<<w, k>>)'
  BY <1>4, <1>6, CallingFacts
<1>8. Place(w)' = p /\ Heading(w)' = turns[Req[w]].state
  BY <1>0, <1>5 DEF Place, Heading
<1>9. RowOf(w)'
  <2>1. RowFits(w, p, turns[Req[w]].state)'
    BY <1>3, <1>4 DEF RowFits
  <2> QED
    BY <1>0, <1>5, <1>8, <2>1 DEF RowOf, Starting, RowFits
<1>10. SendOf(w)'
  <2>1. SendFits(w, p)'
    BY <1>1, <1>4, <1>6, <1>7 DEF SendFits, Waiting, Starting, Targets
  <2>2. SendOf(w)
    BY DEF TurnInv, LocalFits
  <2>3. OutcomeFits(w, turns[Req[w]].state)'
    <3>1. OutcomeFits(w, turns[Req[w]].state) => OutcomeFits(w, turns'[Req[w]].state)
      BY <1>0
    <3>2. OutcomeFits(w, turns'[Req[w]].state) => OutcomeFits(w, turns[Req[w]].state)'
      BY <1>4, <1>6, <1>7, OutcomeStays DEF OutcomeFits, Known, AllFailed
    <3> QED
      BY <1>1, <3>1, <3>2
  <2>4. AllFailed(w)' <=> AllFailed(w)
    BY <1>4, <1>7 DEF AllFailed
  <2> QED
    BY <1>0, <1>4, <1>5, <1>6, <1>8, <2>1, <2>2, <2>3, <2>4 DEF SendOf, SendFits
<1>11. ResultOf(w)'
  BY <1>3 DEF ResultOf
<1>12. PagesOf(w)'
  <2>1. PageFits(w, p)'
    BY <1>1, <1>2, <1>4, <1>7 DEF PageFits, Starting, Targets
  <2> QED
    BY <1>8, <2>1 DEF PagesOf, PageFits
<1>13. RowsOfOthers(w) /\ RowsBound' /\ CacheFits'
  BY <1>0 DEF RowsOfOthers, TurnInv, RowsBound, CacheFits, Admitted
<1> QED
  BY <1>4, <1>5, <1>6, <1>9, <1>10, <1>11, <1>12, <1>13, OwnStepKeepsTurn DEF LocalFits

(* The end of a turn, and of the process.                                    *)

\* The cache holds what it held and what was just delivered.
LEMMA RememberFacts ==
  ASSUME replay \in Seq(Requests), NEW r \in Requests, NEW k \in DOMAIN Remember(r)
  PROVE  Remember(r)[k] = r \/ \E j \in DOMAIN replay : Remember(r)[k] = replay[j]
<1> DEFINE all == Append(replay, r)
<1>1. /\ Len(replay) \in Nat /\ DOMAIN replay = 1..Len(replay)
      /\ all \in Seq(Requests) /\ Len(all) = Len(replay) + 1
      /\ all[Len(replay) + 1] = r /\ \A j \in 1..Len(replay) : all[j] = replay[j]
  OBVIOUS
<1> HIDE DEF all
<1>2. \A j \in 1..Len(all) : all[j] = r \/ \E i \in DOMAIN replay : all[j] = replay[i]
  BY <1>1
<1>3. CASE r \in Oversized
  BY <1>3 DEF Remember
<1>4. CASE r \notin Oversized /\ ~(Len(all) > ReplayLimit)
  <2>1. Remember(r) = all
    BY <1>4 DEF Remember, all
  <2>2. k \in 1..Len(all)
    BY <1>1, <2>1
  <2> QED
    BY <1>2, <2>1, <2>2
<1>5. CASE r \notin Oversized /\ Len(all) > ReplayLimit
  <2>1. Remember(r) = Tail(all)
    BY <1>5 DEF Remember, all
  <2>2. /\ Len(all) \in Nat \ {0} /\ DOMAIN Tail(all) = 1..(Len(all) - 1)
        /\ \A j \in 1..(Len(all) - 1) : Tail(all)[j] = all[j + 1]
    BY <1>1
  <2>3. k \in 1..(Len(all) - 1) /\ Tail(all)[k] = all[k + 1]
    BY <2>1, <2>2
  <2>4. k + 1 \in 1..Len(all)
    BY <2>2, <2>3
  <2> QED
    BY <1>2, <2>1, <2>3, <2>4
<1> QED
  BY <1>3, <1>4, <1>5

LEMMA FinishKeepsTurn ==
  ASSUME TypeInv, SenderInv, TurnInv, NEW w \in Workers, Finish(w)
  PROVE  TurnInv'
<1>0. /\ pc[w] = "finish" /\ pc[w] \notin Asking /\ Goto(w, "done") /\ Forget({w})
      /\ UNCHANGED <<turns, driverVars, result, evidence, owner>>
      /\ replay' = IF result[w] = "delivered" THEN Remember(Req[w]) ELSE replay
  BY DEF Finish, Asking
<1>1. /\ \A v \in Workers \ {w} : tracker'[v] = tracker[v] /\ synced'[v] = synced[v]
                                  /\ retries'[v] = retries[v]
      /\ retries'[w] = 0
  BY <1>0 DEF Forget
<1>2. OwnRecords(w) /\ OthersStay(w) /\ pc'[w] = "done"
  BY <1>0, <1>1, GotoMoves DEF OwnRecords, TypeInv
<1>3. Calling(w) /\ Unsent(w)' = Unsent(w) /\ reply'[w] = reply[w]
  BY <1>0, <1>2, QuietCalls
<1>4. /\ RowOf(w) /\ SendOf(w) /\ ResultOf(w) /\ PagesOf(w)
      /\ Place(w) = "finish" /\ Heading(w) = turns[Req[w]].state
      /\ Place(w)' = "done" /\ Heading(w)' = turns[Req[w]].state
  BY <1>0, <1>2 DEF TurnInv, LocalFits, Place, Heading
<1>5. /\ UNCHANGED <<send, page>>
      /\ \A k \in Attempts : IsClicked(w, k)' <=> IsClicked(w, k)
      /\ \A k \in Attempts : Disposed(<<w, k>>) => Disposed(<<w, k>>)'
  <2>1. \A k \in Attempts : <<w, k>> \in Handles
    BY DEF Handles
  <2> QED
    BY <1>3, <2>1 DEF Calling, IsClicked, Clicked, Disposed
<1>6. RowOf(w)'
  <2>1. owner[Req[w]] = w => RowFits(w, "done", turns[Req[w]].state)'
    BY <1>0, <1>4 DEF RowOf, RowFits
  <2> QED
    BY <1>0, <1>2, <1>4, <2>1 DEF RowOf, Starting, RowFits
<1>7. SendOf(w)'
  <2>1. SendFits(w, "done")'
    BY DEF SendFits, Waiting, Starting
  <2>2. owner[Req[w]] = w => OutcomeFits(w, turns[Req[w]].state)'
    BY <1>0, <1>3, <1>4, <1>5 DEF SendOf, OutcomeFits, Known, AllFailed
  <2> QED
    BY <1>0, <1>2, <1>3, <1>4, <1>5, <2>1, <2>2 DEF SendOf, SendFits, AllFailed
<1>8. ResultOf(w)'
  BY <1>0, <1>4 DEF ResultOf, Admitted
<1>9. PagesOf(w)'
  <2>1. retries[w] \in Attempts /\ \A k \in Attempts : k < retries[w] \/ k = retries[w] \/ k > retries[w]
    BY DriverAssumption DEF TypeInv, Control, Attempts
  <2>2. PageFits(w, "finish")
    BY <1>4 DEF PagesOf
  <2>3. \A k \in Attempts : Disposed(<<w, k>>)
    BY <2>1, <2>2 DEF PageFits, Disposed
  <2>4. PageFits(w, "done")'
    BY <1>5, <2>3 DEF PageFits, Starting
  <2> QED
    BY <1>4, <2>4 DEF PagesOf, PageFits
<1>10. RowsOfOthers(w) /\ RowsBound'
  BY <1>0 DEF RowsOfOthers, TurnInv, RowsBound, Admitted
<1>11. CacheFits'
  <2>1. replay \in Seq(Requests) /\ Req[w] \in Requests
    BY CoordinatorAssumption DEF TypeInv, Shared
  <2>2. result[w] = "delivered" => Admitted(Req[w]) /\ turns[Req[w]].state = "Completed"
    BY <1>0, <1>4 DEF ResultOf
  <2>3. ASSUME NEW k \in DOMAIN replay'
        PROVE  Admitted(replay'[k]) /\ turns[replay'[k]].state = "Completed"
    <3>1. CASE result[w] = "delivered"
      BY <1>0, <2>1, <2>2, <3>1, RememberFacts DEF TurnInv, CacheFits
    <3>2. CASE result[w] # "delivered"
      BY <1>0, <3>2 DEF TurnInv, CacheFits
    <3> QED
      BY <3>1, <3>2
  <2> QED
    BY <1>0, <2>3 DEF CacheFits, Admitted
<1> QED
  BY <1>2, <1>3, <1>6, <1>7, <1>8, <1>9, <1>10, <1>11, OwnStepKeepsTurn DEF LocalFits

LEMMA RestartKeepsTurn ==
  ASSUME TypeInv, SenderInv, TurnInv, Restart
  PROVE  TurnInv'
<1>0. /\ DriverGone /\ Forget(Workers) /\ replay' = <<>> /\ UNCHANGED <<turns, result, evidence, owner>>
      /\ pc' = [w \in Workers |-> IF pc[w] \in {"idle", "done"} THEN pc[w] ELSE "dead"]
      /\ DriverTypeOK
  BY DEF Restart, TypeInv
<1>1. /\ queue' = <<>> /\ current' = Idle /\ UNCHANGED send
      /\ \A h \in Handles : page'[h] # "leased"
  BY <1>0 DEF DriverGone, DriverTypeOK
<1>2. Pending' = {} /\ Clicked' = Clicked
  BY <1>1 DEF Pending, Commands, Clicked
<1>3. ASSUME NEW w \in Workers PROVE TalkOf(w)' /\ LocalFits(w)'
  <2>1. TalkOf(w)'
    BY <1>0, TalkGone
  <2>2. /\ pc'[w] \in {"idle", "done", "dead"} /\ (pc'[w] # "dead" => pc'[w] = pc[w])
        /\ retries'[w] = 0
    BY <1>0 DEF Forget
  <2>3. /\ Unsent(w)' = {} /\ Place(w)' = pc'[w] /\ Heading(w)' = turns[Req[w]].state
        /\ \A k : IsClicked(w, k)' <=> IsClicked(w, k)
        /\ AllFailed(w)' <=> AllFailed(w)
    BY <1>0, <1>2, <2>2 DEF Unsent, Place, Heading, IsClicked, AllFailed
  <2>4. /\ RowOf(w) /\ SendOf(w) /\ ResultOf(w) /\ PagesOf(w)
        /\ pc'[w] # "dead" => Place(w) = pc'[w] /\ Heading(w) = turns[Req[w]].state
    BY <2>2 DEF TurnInv, LocalFits, Place, Heading
  <2>5. RowOf(w)'
    <3>1. pc'[w] \in Starting => owner'[Req[w]] # w
      BY <1>0, <2>2, <2>4 DEF RowOf, Starting
    <3>2. ASSUME owner[Req[w]] = w PROVE RowFits(w, pc[w], turns[Req[w]].state)'
      BY <1>0, <2>2, <2>4, <3>1, <3>2 DEF RowOf, RowFits, Starting
    <3> QED
      BY <1>0, <2>2, <2>3, <3>1, <3>2 DEF RowOf, RowFits, Starting
  <2>6. SendOf(w)'
    <3>1. pc'[w] = "idle" => /\ retries[w] = 0 /\ SendFits(w, "idle")
      BY <2>2, Before DEF Starting
    <3>2. SendFits(w, pc[w])'
      BY <1>0, <2>2, <2>3, <3>1 DEF SendFits, Waiting, Starting
    <3>3. OutcomeFits(w, turns[Req[w]].state) => OutcomeFits(w, turns[Req[w]].state)'
      BY <1>0, <2>3 DEF OutcomeFits, Known
    <3> QED
      BY <1>0, <2>2, <2>3, <2>4, <3>2, <3>3 DEF SendOf, SendFits
  <2>7. ResultOf(w)'
    BY <1>0, <2>2, <2>4 DEF ResultOf, Admitted
  <2>8. PagesOf(w)'
    <3>1. \A k \in Attempts : <<w, k>> \in Handles
      BY DEF Handles
    <3>2. 0 \in Attempts /\ \A k \in Attempts : Disposed(<<w, k>>)' /\ page'[<<w, k>>] # "leased"
      BY <1>1, <3>1, DriverAssumption DEF Disposed, Attempts
    <3>3. PageFits(w, pc[w])'
      BY <2>2, <3>2 DEF PageFits, Starting
    <3> QED
      BY <2>3, <3>3 DEF PagesOf, PageFits
  <2> QED
    BY <2>1, <2>5, <2>6, <2>7, <2>8 DEF LocalFits
<1>4. RowsBound' /\ CacheFits' /\ ClicksReported'
  BY <1>0, <1>2 DEF TurnInv, RowsBound, CacheFits, ClicksReported, Admitted
<1> QED
  BY <1>3, <1>4 DEF TurnInv

-----------------------------------------------------------------------------
(* The invariant, and what it says.                                          *)

LEMMA TurnInitially == Init => TurnInv
<1> SUFFICES ASSUME Init PROVE TurnInv
  OBVIOUS
<1>1. /\ queue = <<>> /\ current = Idle /\ replay = <<>>
      /\ \A h \in Handles : send[h] = "fresh" /\ page[h] = "none" /\ evidence[h] = "none"
      /\ \A r \in Requests : turns[r] = NoRow /\ owner[r] = NoWorker
  BY DEF Init, DriverInit, LedgerInit
<1>2. Commands = {} /\ Pending = {} /\ Clicked = {}
  BY <1>1 DEF Commands, Pending, Clicked
<1>3. ASSUME NEW w \in Workers PROVE TalkOf(w) /\ LocalFits(w)
  <2>1. /\ pc[w] = "idle" /\ retries[w] = 0 /\ result[w] = "none" /\ reply[w] = "none"
        /\ Req[w] \in Requests /\ w # NoWorker
    BY CoordinatorAssumption DEF Init, DriverInit
  <2>2. /\ Unsent(w) = {} /\ Place(w) = "idle"
        /\ \A k \in Attempts : <<w, k>> \in Handles /\ ~IsClicked(w, k)
    BY <1>2, <2>1 DEF Unsent, Place, IsClicked, Handles
  <2>3. 0 \in Attempts /\ \A k \in Attempts : k \in Nat
    BY DriverAssumption DEF Attempts
  <2>4. TalkOf(w)
    BY <1>1, <1>2, <2>1 DEF TalkOf, Awaited, Awaits
  <2>5. RowOf(w) /\ ResultOf(w)
    BY <1>1, <2>1 DEF RowOf, ResultOf
  <2>6. SendOf(w)
    <3>1. SendFits(w, "idle")
      BY <1>1, <2>1, <2>2, <2>3 DEF SendFits
    <3> QED
      BY <1>1, <2>1, <2>2, <3>1 DEF SendOf
  <2>7. PagesOf(w)
    <3>1. PageFits(w, "idle")
      BY <1>1, <2>1, <2>2, <2>3 DEF PageFits
    <3> QED
      BY <2>2, <3>1 DEF PagesOf
  <2> QED
    BY <2>4, <2>5, <2>6, <2>7 DEF LocalFits
<1>4. RowsBound /\ ClicksReported /\ CacheFits
  BY <1>1, <1>2 DEF RowsBound, ClicksReported, CacheFits, Admitted
<1> QED
  BY <1>3, <1>4 DEF TurnInv

LEMMA TurnStep == TypeInv /\ SenderInv /\ TurnInv /\ [Next]_vars => TurnInv'
<1> SUFFICES ASSUME TypeInv, SenderInv, TurnInv, [Next]_vars PROVE TurnInv'
  OBVIOUS
<1>1. CASE UNCHANGED vars
  BY <1>1, QuietKeepsTurn DEF vars, turnVars, sharedVars
<1>2. CASE OwnerThread
  BY <1>2, DriverKeepsTurn
<1>3. CASE Restart
  BY <1>3, RestartKeepsTurn
<1>4. ASSUME NEW w \in Workers, Cancel(w) PROVE TurnInv'
  BY <1>4, QuietKeepsTurn DEF Cancel, sharedVars
<1>5. ASSUME NEW w \in Workers, Execute(w) \/ Step(w) PROVE TurnInv'
  <2>1. CASE Execute(w) \/ Acquire(w) \/ Refused(w) \/ AdmitNew(w) \/ AdmitDuplicate(w) \/ AdmitFails(w)
    <3>1. AdmitFails(w) => pc[w] \in {"admit", "readmit"}
      BY DEF AdmitFails
    <3> QED
      BY <2>1, <3>1, BeginningKeepsTurn, AdmitNewKeepsTurn, ReadmitFailsKeepsTurn
  <2>2. CASE WriteTurn(w) \/ WriteFails(w)
    BY <2>2, WriteTurnKeepsTurn, WriteFailsKeepsTurn
  <2>3. CASE AskPrepare(w) \/ AskSubmit(w) \/ AskObserve(w) \/ AskVerify(w) \/ AskStop(w) \/ AskRelease(w)
    BY <2>3, AsksKeepTurn, AskSubmitKeepsTurn
  <2>4. CASE \/ PrepareAnswered(w) \/ AcceptPage(w) \/ GateOpens(w) \/ BackoffEnds(w)
             \/ SubmitAnswered(w) \/ SubmitUnanswered(w)
    BY <2>4, ApproachKeepsTurn, SubmitAnsweredKeepsTurn, SubmitUnansweredKeepsTurn
  <2>5. CASE PrepareUnanswered(w) \/ RejectPage(w) \/ GateCloses(w) \/ BackoffCancelled(w)
    BY <2>5, EarlyEndsKeepTurn
  <2>6. CASE ObserveCancelled(w) \/ ObserveSlow(w) \/ ObserveFails(w) \/ ObserveRejects(w) \/ ObserveAccepts(w)
    BY <2>6, ObserveSlowKeepsTurn, ReadingEndsKeepTurn, ObserveRejectsKeepsTurn, ObserveAcceptsKeepsTurn
  <2>7. CASE Publish(w)
    <3>1. \/ Goto(w, "observe") /\ UNCHANGED result
          \/ Write(w, <<"Failed">>, "stop") /\ Returning(w, "E_BROWSER")
      BY <2>7 DEF Publish
    <3> QED
      BY <2>7, <3>1, PublishKeepsTurn, VerdictsKeepTurn
  <2>8. CASE Complete(w) \/ VerifyUnanswered(w)
    BY <2>8, VerdictsKeepTurn
  <2>9. CASE StopEnds(w) \/ Released(w) \/ NotReleased(w)
    BY <2>9, EndingKeepsTurn, EarlyEndsKeepTurn
  <2>10. CASE Readmit(w) \/ Finish(w)
    BY <2>10, ReadmitKeepsTurn, FinishKeepsTurn
  <2> QED
    BY <1>5, <2>1, <2>2, <2>3, <2>4, <2>5, <2>6, <2>7, <2>8, <2>9, <2>10 DEF Step
<1> QED
  BY <1>1, <1>2, <1>3, <1>4, <1>5 DEF Next

LEMMA TurnInvariant == Spec => [](TypeInv /\ SenderInv /\ TurnInv)
<1>1. TypeInv /\ SenderInv /\ TurnInv /\ [Next]_vars => (TypeInv /\ SenderInv /\ TurnInv)'
  BY TypeStep, SenderStep, TurnStep
<1> QED
  BY <1>1, Initially, SenderInitially, TurnInitially, PTL DEF Spec

LEMMA RecordsFit ==
  ASSUME TypeInv, TurnInv
  PROVE  RecordsAgree
<1>1. \A w \in Workers : RowOf(w) /\ SendOf(w) /\ ResultOf(w)
  BY DEF TurnInv, LocalFits
<1>2. ASSUME NEW r \in Requests, Admitted(r), turns[r].state = "Completed"
      PROVE  \E h \in Clicked : RequestOf(h) = r /\ evidence[h] = "completed"
  <2>1. PICK w \in Workers : owner[r] = w /\ Req[w] = r
    BY <1>2 DEF TurnInv, RowsBound
  <2>2. OutcomeFits(w, "Completed")
    BY <1>1, <1>2, <2>1 DEF SendOf
  <2>3. PICK k \in Attempts : IsClicked(w, k) /\ evidence[<<w, k>>] = "completed"
    BY <2>2 DEF OutcomeFits
  <2> QED
    BY <2>1, <2>3 DEF IsClicked, RequestOf, Owner
<1> QED
  BY <1>1, <1>2 DEF RecordsAgree, ResultOf, TurnInv, CacheFits

\* The ledger, the tracker, the coordinator and the replay cache never drift apart.
THEOREM TurnRecordsAgree == Spec => []RecordsAgree
  BY TurnInvariant, RecordsFit, PTL

\* Until the process ends every worker it started is still there.
Alive == restarts = 0 => \A w \in Workers : pc[w] # "dead"

LEMMA RestartsCounted ==
  ASSUME NEW w \in Workers, Execute(w) \/ Cancel(w) \/ Step(w)
  PROVE  UNCHANGED restarts
<1>1. CASE Execute(w) \/ Cancel(w) \/ Acquire(w) \/ Refused(w) \/ AdmitNew(w) \/ AdmitDuplicate(w) \/ AdmitFails(w)
  BY <1>1 DEF Execute, Cancel, Acquire, Refused, AdmitNew, AdmitDuplicate, AdmitFails, sharedVars
<1>2. CASE WriteTurn(w) \/ WriteFails(w)
  BY <1>2 DEF WriteTurn, WriteFails, sharedVars
<1>3. CASE AskPrepare(w) \/ AskSubmit(w) \/ AskObserve(w) \/ AskVerify(w) \/ AskStop(w) \/ AskRelease(w)
  BY <1>3 DEF AskPrepare, AskSubmit, AskObserve, AskVerify, AskStop, AskRelease, Ask, sharedVars
<1>4. CASE \/ PrepareAnswered(w) \/ PrepareUnanswered(w) \/ RejectPage(w) \/ AcceptPage(w)
           \/ GateCloses(w) \/ GateOpens(w) \/ SubmitAnswered(w) \/ SubmitUnanswered(w)
  BY <1>4 DEF PrepareAnswered, PrepareUnanswered, RejectPage, AcceptPage, GateCloses, GateOpens,
              SubmitAnswered, SubmitUnanswered, sharedVars
<1>5. CASE ObserveCancelled(w) \/ ObserveSlow(w) \/ ObserveFails(w) \/ ObserveRejects(w) \/ ObserveAccepts(w)
  BY <1>5 DEF ObserveCancelled, ObserveSlow, ObserveFails, ObserveRejects, ObserveAccepts, sharedVars
<1>6. CASE Publish(w) \/ Complete(w) \/ VerifyUnanswered(w) \/ StopEnds(w) \/ Released(w) \/ NotReleased(w)
  BY <1>6 DEF Publish, Complete, VerifyUnanswered, StopEnds, Released, NotReleased, sharedVars
<1>7. CASE Readmit(w) \/ BackoffEnds(w) \/ BackoffCancelled(w) \/ Finish(w)
  BY <1>7 DEF Readmit, BackoffEnds, BackoffCancelled, Finish, sharedVars
<1> QED
  BY <1>1, <1>2, <1>3, <1>4, <1>5, <1>6, <1>7 DEF Step

LEMMA AliveStep == TypeInv /\ Alive /\ [Next]_vars => Alive'
<1> SUFFICES ASSUME TypeInv, Alive, [Next]_vars PROVE Alive'
  OBVIOUS
<1>1. CASE UNCHANGED vars \/ OwnerThread
  BY <1>1 DEF vars, OwnerThread, turnVars, sharedVars, Alive
<1>2. CASE Restart
  BY <1>2 DEF Restart, Alive, TypeInv, Shared
<1>3. ASSUME NEW w \in Workers, Execute(w) \/ Cancel(w) \/ Step(w) PROVE Alive'
  <2>1. UNCHANGED restarts
    BY <1>3, RestartsCounted
  <2>2. \/ UNCHANGED pc
        \/ OthersStay(w) /\ pc'[w] # "dead"
    <3>1. CASE Execute(w) \/ Acquire(w) \/ Refused(w) \/ Finish(w)
      <4>1. \E p \in {"acquire", "admit", "done"} : Goto(w, p)
        BY <3>1 DEF Execute, Acquire, Refused, Finish
      <4> QED
        BY <4>1, GotoMoves DEF TypeInv
    <3>2. CASE Cancel(w)
      BY <3>2 DEF Cancel
    <3>3. CASE Step(w) /\ ~Acquire(w) /\ ~Refused(w) /\ ~Finish(w)
      BY <3>3, StepIsWithin DEF Within, Inside
    <3> QED
      BY <1>3, <3>1, <3>2, <3>3
  <2> QED
    BY <2>1, <2>2 DEF Alive, OthersStay
<1> QED
  BY <1>1, <1>2, <1>3 DEF Next

LEMMA NothingIsLeft ==
  ASSUME TypeInv, TurnInv, Alive
  PROVE  NoTurnLeftOpen
<1> SUFFICES ASSUME restarts = 0
             PROVE  /\ EveryLeaseAccounted
                    /\ \A r \in Requests : Admitted(r) /\ ~Settled(r) =>
                         Running(owner[r]) \/ result[owner[r]] = "E_LEDGER"
  BY DEF NoTurnLeftOpen
<1>1. \A w \in Workers : RowOf(w) /\ PagesOf(w) /\ pc[w] # "dead"
  BY DEF TurnInv, LocalFits, Alive
<1>2. EveryLeaseAccounted
  <2> SUFFICES ASSUME NEW h \in Handles, page[h] = "leased", ~Disposed(h)
               PROVE  Running(Owner(h)) /\ h = PageOf(Owner(h))
    BY DEF EveryLeaseAccounted, Leased, Disposed
  <2>1. PICK w \in Workers, k \in Attempts : h = <<w, k>>
    BY DEF Handles
  <2>2. Owner(h) = w /\ PageFits(w, Place(w))
    BY <1>1, <2>1 DEF Owner, PagesOf
  <2>3. k < retries[w] \/ k = retries[w] \/ k > retries[w]
    BY DriverAssumption DEF TypeInv, Control, Attempts
  <2>4. Place(w) \notin {"done", "dead"} /\ k = retries[w]
    BY <2>1, <2>2, <2>3 DEF PageFits
  <2>5. Place(w) \notin Starting
    BY <2>1, <2>2, <2>4 DEF PageFits
  <2>6. Running(w)
    BY <2>4, <2>5 DEF Running, Place, Starting
  <2> QED
    BY <2>1, <2>2, <2>4, <2>6 DEF PageOf
<1>3. ASSUME NEW r \in Requests, Admitted(r), ~Settled(r), ~Running(owner[r])
      PROVE  result[owner[r]] = "E_LEDGER"
  <2>1. PICK w \in Workers : owner[r] = w /\ Req[w] = r
    BY <1>3 DEF TurnInv, RowsBound
  <2>2. pc[w] = "done"
    BY <1>1, <1>3, <2>1 DEF Running, RowOf, Starting
  <2>3. RowFits(w, "done", turns[r].state)
    BY <1>1, <2>1, <2>2 DEF RowOf, Place, Heading
  <2> QED
    BY <1>3, <2>1, <2>3 DEF RowFits, Settled
<1> QED
  BY <1>2, <1>3

\* As long as the process lives nothing of a turn is left without someone to see to it.
THEOREM NothingLeftOpen == Spec => []NoTurnLeftOpen
<1>1. Init => Alive
  BY DEF Init, Alive
<1> QED
  BY <1>1, TurnInvariant, AliveStep, NothingIsLeft, PTL DEF Spec

-----------------------------------------------------------------------------
(* The promise is kept, step by step.                                        *)

SameOutcome(r) == Outcome(r)' = Outcome(r)
SameSends(r) == Cardinality(SentFor(r))' = Cardinality(SentFor(r))
SameFailures(r) == Cardinality(Failures(r))' = Cardinality(Failures(r))
SameAck(r) == Acked(r)' <=> Acked(r)
Same(r) == SameOutcome(r) /\ SameSends(r) /\ SameFailures(r) /\ SameAck(r)

\* A step in which only request r moves, and as SubmissionOnce allows.
Moves(r) ==
  \/ Same(r)
  \/ /\ Outcome(r) = "none" /\ Outcome(r)' = "open"
     /\ SameSends(r) /\ SameFailures(r) /\ SameAck(r)
  \/ /\ Outcome(r) \in {"open", "SubmissionUncertain"}
     /\ Cardinality(SentFor(r)) = Cardinality(Failures(r))
     /\ Cardinality(SentFor(r)) <= MaxRetries
     /\ Cardinality(SentFor(r))' = Cardinality(SentFor(r)) + 1
     /\ SameOutcome(r) /\ SameFailures(r) /\ SameAck(r)
  \/ /\ Outcome(r) = "open" /\ Cardinality(SentFor(r)) > Cardinality(Failures(r))
     /\ Acked(r)'
     /\ SameOutcome(r) /\ SameSends(r) /\ SameFailures(r)
  \/ /\ Outcome(r) = "open" /\ Cardinality(SentFor(r)) > Cardinality(Failures(r))
     /\ Cardinality(Failures(r))' = Cardinality(Failures(r)) + 1
     /\ ~Acked(r)'
     /\ SameOutcome(r) /\ SameSends(r)
  \/ /\ Outcome(r) = "open" /\ Outcome(r)' \in TerminalStates
     /\ Outcome(r)' = "Completed" => Acked(r)
     /\ Outcome(r)' \in {"Failed", "Cancelled"} =>
          Acked(r) \/ Cardinality(SentFor(r)) = Cardinality(Failures(r))
     /\ SameSends(r) /\ SameFailures(r) /\ SameAck(r)

LEMMA MapsToPromise ==
  ASSUME \A r \in Requests : Same(r)
  PROVE  UNCHANGED Promise!vars
<1>1. Outcomes' = Outcomes /\ Sends' = Sends /\ Refusals' = Refusals
  BY DEF Same, SameOutcome, SameSends, SameFailures, Outcomes, Sends, Refusals
<1>2. Acks' = Acks
  BY Zenon DEF Same, SameAck, Acked, Acks
<1> QED
  BY <1>1, <1>2 DEF Promise!vars

LEMMA MoveKeepsPromise ==
  ASSUME NEW r \in Requests, Moves(r), \A q \in Requests \ {r} : Same(q)
  PROVE  [Promise!Next]_(Promise!vars)
<1>1. /\ \A v : Outcome(r)' = v => Outcomes' = [Outcomes EXCEPT ![r] = v]
      /\ \A v : Cardinality(SentFor(r))' = v => Sends' = [Sends EXCEPT ![r] = v]
      /\ \A v : Cardinality(Failures(r))' = v => Refusals' = [Refusals EXCEPT ![r] = v]
      /\ SameOutcome(r) => Outcomes' = Outcomes
      /\ SameSends(r) => Sends' = Sends
      /\ SameFailures(r) => Refusals' = Refusals
  BY DEF Same, SameOutcome, SameSends, SameFailures, Outcomes, Sends, Refusals
<1>2. /\ Acked(r)' => Acks' = [Acks EXCEPT ![r] = TRUE]
      /\ ~Acked(r)' => Acks' = [Acks EXCEPT ![r] = FALSE]
      /\ SameAck(r) => Acks' = Acks
  BY Zenon DEF Same, SameAck, Acked, Acks
<1>3. /\ Outcomes[r] = Outcome(r) /\ Sends[r] = Cardinality(SentFor(r))
      /\ Refusals[r] = Cardinality(Failures(r)) /\ (Acks[r] <=> Acked(r))
  BY DEF Outcomes, Sends, Refusals, Acks
<1>4. CASE Same(r)
  BY <1>4, MapsToPromise
<1>5. CASE /\ Outcome(r) = "none" /\ Outcome(r)' = "open"
           /\ SameSends(r) /\ SameFailures(r) /\ SameAck(r)
  BY <1>1, <1>2, <1>3, <1>5 DEF Promise!Next, Promise!Begin
<1>6. CASE /\ Outcome(r) \in {"open", "SubmissionUncertain"}
           /\ Cardinality(SentFor(r)) = Cardinality(Failures(r))
           /\ Cardinality(SentFor(r)) <= MaxRetries
           /\ Cardinality(SentFor(r))' = Cardinality(SentFor(r)) + 1
           /\ SameOutcome(r) /\ SameFailures(r) /\ SameAck(r)
  <2>1. Sends' = [Sends EXCEPT ![r] = Sends[r] + 1]
    BY <1>1, <1>3, <1>6
  <2> QED
    BY <1>1, <1>2, <1>3, <1>6, <2>1 DEF Promise!Next, Promise!Click
<1>7. CASE /\ Outcome(r) = "open" /\ Cardinality(SentFor(r)) > Cardinality(Failures(r))
           /\ Acked(r)'
           /\ SameOutcome(r) /\ SameSends(r) /\ SameFailures(r)
  BY <1>1, <1>2, <1>3, <1>7 DEF Promise!Next, Promise!Acknowledge
<1>8. CASE /\ Outcome(r) = "open" /\ Cardinality(SentFor(r)) > Cardinality(Failures(r))
           /\ Cardinality(Failures(r))' = Cardinality(Failures(r)) + 1
           /\ ~Acked(r)'
           /\ SameOutcome(r) /\ SameSends(r)
  <2>1. Refusals' = [Refusals EXCEPT ![r] = Refusals[r] + 1]
    BY <1>1, <1>3, <1>8
  <2> QED
    BY <1>1, <1>2, <1>3, <1>8, <2>1 DEF Promise!Next, Promise!Refuse
<1>9. CASE /\ Outcome(r) = "open" /\ Outcome(r)' \in TerminalStates
           /\ Outcome(r)' = "Completed" => Acked(r)
           /\ Outcome(r)' \in {"Failed", "Cancelled"} =>
                Acked(r) \/ Cardinality(SentFor(r)) = Cardinality(Failures(r))
           /\ SameSends(r) /\ SameFailures(r) /\ SameAck(r)
  <2>1. PICK o \in TerminalStates : o = Outcome(r)' /\ Outcomes' = [Outcomes EXCEPT ![r] = o]
    BY <1>1, <1>9
  <2>2. /\ o = "Completed" => Acks[r]
        /\ o \in {"Failed", "Cancelled"} => Acks[r] \/ Sends[r] = Refusals[r]
    BY <1>3, <1>9, <2>1
  <2> QED
    BY <1>1, <1>2, <1>3, <1>9, <2>1, <2>2 DEF Promise!Next, Promise!Conclude, Promise!Outcomes, TerminalStates
<1> QED
  BY <1>4, <1>5, <1>6, <1>7, <1>8, <1>9 DEF Moves

LEMMA PagesOfOne ==
  ASSUME NEW w, NEW S, \A h \in S : \E k \in Attempts : h = <<w, k>>
  PROVE  IsFiniteSet(S) /\ Cardinality(S) \in Nat /\ Cardinality(S) <= MaxRetries + 1
<1>1. IsFiniteSet(Attempts) /\ Cardinality(Attempts) = MaxRetries + 1
  BY DriverAssumption, FS_Interval DEF Attempts
<1> DEFINE f == [h \in S |-> h[2]]
<1>2. f \in Injection(S, Attempts)
  BY DEF Injection, IsInjective
<1>3. IsFiniteSet(S) /\ Cardinality(S) <= Cardinality(Attempts)
  BY <1>1, <1>2, FS_Injection
<1> QED
  BY <1>1, <1>3, FS_CardinalityType

\* The clicks for a request are clicks of the worker it was admitted for.
LEMMA SentFacts ==
  ASSUME TypeInv, SenderInv, NEW r \in Requests
  PROVE  /\ \A h \in SentFor(r) : \E k \in Attempts : h = <<owner[r], k>>
         /\ IsFiniteSet(SentFor(r)) /\ Cardinality(SentFor(r)) \in Nat
         /\ Failures(r) \subseteq SentFor(r) /\ IsFiniteSet(Failures(r))
<1>1. \A h \in SentFor(r) : \E k \in Attempts : h = <<owner[r], k>>
  <2> SUFFICES ASSUME NEW h \in SentFor(r) PROVE \E k \in Attempts : h = <<owner[r], k>>
    OBVIOUS
  <2>1. h \in Handles /\ h \in Clicked /\ RequestOf(h) = r
    BY DEF SentFor, Clicked
  <2>2. owner[r] = h[1]
    BY <2>1 DEF SenderInv, Owned, Owner
  <2> QED
    BY <2>1, <2>2 DEF Handles
<1>2. IsFiniteSet(SentFor(r)) /\ Cardinality(SentFor(r)) \in Nat
  BY <1>1, PagesOfOne
<1>3. Failures(r) \subseteq SentFor(r)
  BY DEF Failures
<1> QED
  BY <1>1, <1>2, <1>3, FS_Subset

LEMMA QuietPromise ==
  ASSUME UNCHANGED <<turns, evidence>>, Clicked' = Clicked
  PROVE  [Promise!Next]_(Promise!vars)
<1>1. \A r : SentFor(r)' = SentFor(r)
  BY DEF SentFor, RequestOf
<1>2. \A r : Failures(r)' = Failures(r) /\ (Acked(r)' <=> Acked(r))
  BY <1>1 DEF Failures, Acked
<1>3. \A r : Outcome(r)' = Outcome(r)
  BY DEF Outcome, Admitted, Settled
<1>4. \A r \in Requests : Same(r)
  BY <1>1, <1>2, <1>3 DEF Same, SameOutcome, SameSends, SameFailures, SameAck
<1> QED
  BY <1>4, MapsToPromise

\* The click.
LEMMA ClickIsPromised ==
  ASSUME TypeInv, SenderInv, TurnInv, PressSend, UNCHANGED <<turns, evidence>>
  PROVE  [Promise!Next]_(Promise!vars)
<1>1. /\ current \in Command /\ current.op = "Submit" /\ current \in Commands
      /\ send' = [send EXCEPT ![current.handle] = "clicked"] /\ send[current.handle] = "fresh"
      /\ send \in [Handles -> SendState]
  BY PressedCommand DEF PressSend, TypeInv, DriverTypeOK
<1>2. PICK w \in Workers, k \in Attempts : current.handle = <<w, k>>
  BY <1>1 DEF Command, Handles
<1>3. PICK h \in Handles : h = <<w, k>> /\ h = current.handle
  BY <1>1, <1>2 DEF Command
<1>4. <<"Submit", h>> \in Pending /\ k \in Unsent(w)
  BY <1>1, <1>2, <1>3 DEF Pending, Unsent
<1>5. PICK r \in Requests : r = Req[w]
  BY CoordinatorAssumption
<1>6. /\ owner[r] = w /\ RequestOf(h) = r /\ Admitted(r)
  BY <1>3, <1>4, <1>5, CoordinatorAssumption DEF SenderInv, Owned, RequestOf, Owner
<1>7. /\ AllFailed(w) /\ evidence[h] = "none"
      /\ turns[r].state \in {"Submitting", "SubmissionUncertain"} \cup Answering
  BY <1>3, <1>4, <1>5 DEF TurnInv, LocalFits, SendOf
<1>8. h \notin Clicked /\ Clicked' = Clicked \cup {h}
  BY <1>1, <1>3 DEF Clicked
<1>9. /\ SentFor(r)' = SentFor(r) \cup {h} /\ h \notin SentFor(r)
      /\ \A q : q # r => SentFor(q)' = SentFor(q)
  BY <1>6, <1>8 DEF SentFor, RequestOf
<1>10. Failures(r) = SentFor(r)
  <2>1. \A g \in SentFor(r) : g \in Clicked /\ \E j \in Attempts : g = <<w, j>>
    BY <1>6, SentFacts DEF SentFor
  <2> QED
    BY <1>7, <2>1 DEF Failures, AllFailed, IsClicked
<1>11. /\ Failures(r)' = Failures(r) /\ (Acked(r)' <=> Acked(r))
       /\ \A q : q # r => Failures(q)' = Failures(q) /\ (Acked(q)' <=> Acked(q))
  BY <1>7, <1>9 DEF Failures, Acked
<1>12. /\ Cardinality(SentFor(r))' = Cardinality(SentFor(r)) + 1
       /\ Cardinality(SentFor(r)) <= MaxRetries
  <2>1. Cardinality(SentFor(r) \cup {h}) = Cardinality(SentFor(r)) + 1
    BY <1>9, SentFacts, FS_AddElement
  <2>2. \A g \in SentFor(r) \cup {h} : \E j \in Attempts : g = <<w, j>>
    BY <1>3, <1>6, SentFacts
  <2>3. Cardinality(SentFor(r) \cup {h}) <= MaxRetries + 1
    BY <2>2, PagesOfOne
  <2>4. Cardinality(SentFor(r)) \in Nat /\ MaxRetries \in Nat
    BY SentFacts, DriverAssumption
  <2> QED
    BY <1>9, <2>1, <2>3, <2>4
<1>13. /\ \A q : Outcome(q)' = Outcome(q)
       /\ Outcome(r) \in {"open", "SubmissionUncertain"}
  BY <1>6, <1>7 DEF Outcome, Admitted, Settled, TerminalStates, Answering
<1>14. Moves(r)
  BY <1>10, <1>11, <1>12, <1>13 DEF Moves, SameOutcome, SameFailures, SameAck
<1>15. \A q \in Requests \ {r} : Same(q)
  BY <1>9, <1>11, <1>13 DEF Same, SameOutcome, SameSends, SameFailures, SameAck
<1> QED
  BY <1>14, <1>15, MoveKeepsPromise

\* A reading of the page of a turn that is under way.
LEMMA ReadingIsPromised ==
  ASSUME TypeInv, SenderInv, TurnInv, NEW w \in Workers, pc[w] = "observing",
         UNCHANGED <<turns, send>>, NEW v \in Evidence,
         evidence' = [evidence EXCEPT ![PageOf(w)] = v],
         v = "none" => evidence[PageOf(w)] = "none"
  PROVE  [Promise!Next]_(Promise!vars)
<1>1. PICK r \in Requests, h \in Handles : r = Req[w] /\ h = PageOf(w) /\ h = <<w, retries[w]>>
  BY PageOfIsHandle, CoordinatorAssumption DEF PageOf, TypeInv
<1>2. /\ owner[r] = w /\ Admitted(r) /\ turns[r].state \in {"Submitting"} \cup Answering
      /\ h \in Clicked /\ evidence[h] \in {"none", "acknowledged"}
      /\ \A k \in Attempts : /\ k < retries[w] => evidence[<<w, k>>] = "failed"
                             /\ k > retries[w] => ~IsClicked(w, k)
  <2>1. Working(w) /\ pc[w] # "write"
    BY DEF Working
  <2>2. owner[r] = w /\ Admitted(r) /\ RowFits(w, "observing", turns[r].state) /\ SendFits(w, "observing")
    BY <1>1, <2>1, Here
  <2> QED
    BY <1>1, <2>2 DEF RowFits, SendFits, IsClicked
<1>3. /\ RequestOf(h) = r
      /\ \A q : SentFor(q)' = SentFor(q) /\ (q # r => h \notin SentFor(q))
      /\ h \in SentFor(r)
  BY <1>1, <1>2 DEF SentFor, RequestOf, Owner, Clicked
<1>4. \A g \in Handles : evidence'[g] = IF g = h THEN v ELSE evidence[g]
  BY <1>1 DEF TypeInv, Tracking
<1>5. \A g \in SentFor(r) : g # h => evidence[g] = "failed"
  <2> SUFFICES ASSUME NEW g \in SentFor(r), g # h PROVE evidence[g] = "failed"
    OBVIOUS
  <2>1. PICK k \in Attempts : g = <<w, k>> /\ g \in Clicked
    BY <1>2, SentFacts DEF SentFor
  <2>2. k < retries[w] \/ k = retries[w] \/ k > retries[w]
    BY DriverAssumption DEF TypeInv, Control, Attempts
  <2> QED
    BY <1>1, <1>2, <2>1, <2>2 DEF IsClicked
<1>6. \A g \in SentFor(r) : g \in Handles
  BY DEF SentFor, Clicked
<1>7. Failures(r) = SentFor(r) \ {h} /\ Cardinality(SentFor(r)) = Cardinality(Failures(r)) + 1
      /\ Cardinality(Failures(r)) \in Nat
  <2>1. Failures(r) = SentFor(r) \ {h}
    BY <1>2, <1>3, <1>5 DEF Failures
  <2>2. Cardinality(SentFor(r) \ {h}) = Cardinality(SentFor(r)) - 1
    BY <1>3, SentFacts, FS_RemoveElement
  <2>3. Cardinality(SentFor(r)) \in Nat /\ Cardinality(Failures(r)) \in Nat
    BY SentFacts, FS_CardinalityType
  <2> QED
    BY <2>1, <2>2, <2>3
<1>8. Outcome(r) = "open" /\ \A q : Outcome(q)' = Outcome(q)
  BY <1>2 DEF Outcome, Admitted, Settled, TerminalStates, Answering
<1>9. \A q \in Requests \ {r} : Same(q)
  <2>1. \A q \in Requests \ {r} : Failures(q)' = Failures(q) /\ (Acked(q)' <=> Acked(q))
    <3>1. \A q \in Requests \ {r} : \A g \in SentFor(q) : evidence'[g] = evidence[g]
      BY <1>3, <1>4 DEF SentFor, Clicked
    <3> QED
      BY <1>3, <3>1 DEF Failures, Acked
  <2> QED
    BY <1>3, <1>8, <2>1 DEF Same, SameOutcome, SameSends, SameFailures, SameAck
<1>10. CASE v = "none"
  <2>1. evidence' = evidence /\ Clicked' = Clicked
    BY <1>1, <1>10 DEF TypeInv, Tracking, Clicked
  <2> QED
    BY <2>1, QuietPromise
<1>11. CASE v = "failed"
  <2>1. Failures(r)' = SentFor(r) /\ ~Acked(r)'
    BY <1>3, <1>4, <1>5, <1>6, <1>11 DEF Failures, Acked
  <2>2. Moves(r)
    BY <1>3, <1>7, <1>8, <2>1 DEF Moves, SameOutcome, SameSends
  <2> QED
    BY <1>9, <2>2, MoveKeepsPromise
<1>12. CASE v \in {"acknowledged", "completed"}
  <2>1. Failures(r)' = Failures(r) /\ Acked(r)'
    BY <1>2, <1>3, <1>4, <1>5, <1>6, <1>12 DEF Failures, Acked
  <2>2. Moves(r)
    BY <1>3, <1>7, <1>8, <2>1 DEF Moves, SameOutcome, SameSends, SameFailures
  <2> QED
    BY <1>9, <2>2, MoveKeepsPromise
<1> QED
  BY <1>10, <1>11, <1>12 DEF Evidence

\* A row that changes while its readings and clicks do not.
LEMMA RowIsPromised ==
  ASSUME NEW r \in Requests, UNCHANGED <<evidence, send>>,
         \A q \in Requests \ {r} : turns'[q] = turns[q],
         \/ SameOutcome(r)
         \/ Outcome(r) = "none" /\ Outcome(r)' = "open"
         \/ /\ Outcome(r) = "open" /\ Outcome(r)' \in TerminalStates
            /\ Outcome(r)' = "Completed" => Acked(r)
            /\ Outcome(r)' \in {"Failed", "Cancelled"} => Acked(r) \/ Failures(r) = SentFor(r)
  PROVE  [Promise!Next]_(Promise!vars)
<1>1. \A q : SentFor(q)' = SentFor(q)
  BY DEF SentFor, Clicked, RequestOf
<1>2. \A q : Failures(q)' = Failures(q) /\ (Acked(q)' <=> Acked(q))
  BY <1>1 DEF Failures, Acked
<1>3. \A q \in Requests \ {r} : Outcome(q)' = Outcome(q)
  BY DEF Outcome, Admitted, Settled
<1>4. \A q \in Requests \ {r} : Same(q)
  BY <1>1, <1>2, <1>3 DEF Same, SameOutcome, SameSends, SameFailures, SameAck
<1>5. SameSends(r) /\ SameFailures(r) /\ SameAck(r)
  BY <1>1, <1>2 DEF SameSends, SameFailures, SameAck
<1>6. Moves(r)
  BY <1>5 DEF Moves, Same
<1> QED
  BY <1>4, <1>6, MoveKeepsPromise

LEMMA AdmissionIsPromised ==
  ASSUME TypeInv, NEW w \in Workers, AdmitNew(w)
  PROVE  [Promise!Next]_(Promise!vars)
<1>1. PICK r \in Requests : r = Req[w]
  BY CoordinatorAssumption
<1>2. PICK row : row = [session |-> SessionOf[w], input |-> Input[w], state |-> "Prepared"]
  OBVIOUS
<1>3. /\ ~Admitted(r) /\ turns' = [turns EXCEPT ![r] = row] /\ row \in Row /\ row.state = "Prepared"
      /\ UNCHANGED <<evidence, send>>
  BY <1>1, <1>2, CoordinatorAssumption
     DEF AdmitNew, Admit, KeepTracking, driverVars, Row, TurnState
<1>4. turns'[r] = row /\ row # NoRow /\ \A q \in Requests \ {r} : turns'[q] = turns[q]
  BY <1>3, NoRowAssumption DEF TypeInv, LedgerTypeOK
<1>5. Outcome(r) = "none" /\ Outcome(r)' = "open"
  BY <1>3, <1>4 DEF Outcome, Admitted, Settled, TerminalStates
<1> QED
  BY <1>3, <1>4, <1>5, RowIsPromised

LEMMA RecordIsPromised ==
  ASSUME TypeInv, SenderInv, TurnInv, NEW w \in Workers, WriteTurn(w)
  PROVE  [Promise!Next]_(Promise!vars)
<1>0. /\ pc[w] = "write" /\ Transition(Req[w], Head(plan[w])) /\ KeepTracking
      /\ UNCHANGED <<driverVars, owner>>
  BY DEF WriteTurn, sharedVars
<1>1. PICK r \in Requests : r = Req[w]
  BY CoordinatorAssumption
<1>11. PICK next : next = Head(plan[w])
  OBVIOUS
<1>2. owner[r] = w /\ Admitted(r) /\ turns[r] \in Row
  BY <1>0, <1>1, Writing
<1>3. /\ next \in Successors(turns[r].state) /\ turns' = [turns EXCEPT ![r].state = next]
      /\ UNCHANGED <<evidence, send>>
  BY <1>0, <1>1, <1>11 DEF Transition, KeepTracking, driverVars
<1>4. next \in TurnState /\ turns[r].state \notin TerminalStates
  <2>1. turns[r].state \in TurnState
    BY <1>2 DEF Row
  <2> QED
    BY <1>3, <2>1, SuccessorsFacts DEF Successors
<1>5. /\ turns'[r].state = next /\ turns'[r] # NoRow
      /\ \A q \in Requests \ {r} : turns'[q] = turns[q]
  <2>1. /\ turns'[r] = [turns[r] EXCEPT !.state = next]
        /\ \A q \in Requests \ {r} : turns'[q] = turns[q]
    BY <1>3 DEF TypeInv, LedgerTypeOK
  <2>2. turns'[r] \in Row /\ turns'[r].state = next
    BY <1>2, <1>4, <2>1 DEF Row
  <2> QED
    BY <2>1, <2>2, NoRowAssumption
<1>6. Outcome(r) = "open" /\ Outcome(r)' = IF next \in TerminalStates THEN next ELSE "open"
  BY <1>2, <1>4, <1>5 DEF Outcome, Admitted, Settled
<1>7. OutcomeFits(w, next)'
  <2>1. TurnInv' /\ owner'[r] = w
    BY <1>0, <1>2, WriteTurnKeepsTurn
  <2> QED
    BY <1>1, <1>5, <2>1 DEF TurnInv, LocalFits, SendOf
<1>8. \A k \in Attempts : IsClicked(w, k)' => <<w, k>> \in SentFor(r)
  BY <1>1, <1>3 DEF IsClicked, Clicked, SentFor, RequestOf, Owner
<1>9. next = "Completed" => Acked(r)
  BY <1>3, <1>7, <1>8 DEF OutcomeFits, Acked
<1>10. ASSUME next \in {"Failed", "Cancelled"} PROVE Acked(r) \/ Failures(r) = SentFor(r)
  <2>1. Known(w)'
    BY <1>7, <1>10 DEF OutcomeFits
  <2>2. CASE AllFailed(w)'
    <3>1. \A h \in SentFor(r) : h \in Clicked /\ \E k \in Attempts : h = <<w, k>>
      BY <1>2, SentFacts DEF SentFor
    <3>2. \A h \in SentFor(r) : evidence[h] = "failed"
      BY <1>3, <2>2, <3>1 DEF AllFailed, IsClicked, Clicked
    <3> QED
      BY <3>2 DEF Failures
  <2>3. CASE \E k \in Attempts : IsClicked(w, k)' /\ evidence'[<<w, k>>] \in {"acknowledged", "completed"}
    BY <1>3, <1>8, <2>3 DEF Acked
  <2> QED
    BY <2>1, <2>2, <2>3 DEF Known
<1> QED
  BY <1>3, <1>5, <1>6, <1>9, <1>10, RowIsPromised DEF SameOutcome, TerminalStates

LEMMA ProvesOnward ==
  ASSUME NEW old \in Evidence, NEW t, NEW seen, Proves(old, t, seen) = "none"
  PROVE  old = "none"
  BY DEF Proves, Evidence

LEMMA ObservationIsPromised ==
  ASSUME TypeInv, SenderInv, TurnInv, NEW w \in Workers, ObserveRejects(w) \/ ObserveAccepts(w)
  PROVE  [Promise!Next]_(Promise!vars)
<1>1. PICK seen \in Observations : \E t :
        Told(w, "observing", seen) /\ evidence' = [evidence EXCEPT ![PageOf(w)] = Proves(@, t, seen)]
  <2>1. CASE ObserveRejects(w)
    BY <2>1 DEF ObserveRejects
  <2>2. CASE ObserveAccepts(w)
    BY <2>2 DEF ObserveAccepts
  <2> QED
    BY <2>1, <2>2
<1>6. PICK t : evidence' = [evidence EXCEPT ![PageOf(w)] = Proves(@, t, seen)]
  BY <1>1
<1>2. UNCHANGED <<turns, send>> /\ pc[w] = "observing"
  BY <1>1 DEF ObserveRejects, ObserveAccepts, Told, Receive
<1>3. PICK old \in Evidence : old = evidence[PageOf(w)]
  BY PageOfIsHandle DEF TypeInv, Tracking
<1>4. PICK v \in Evidence : v = Proves(old, t, seen)
  BY ProvesIsEvidence
<1>5. evidence' = [evidence EXCEPT ![PageOf(w)] = v] /\ (v = "none" => old = "none")
  BY <1>3, <1>4, <1>6, ProvesOnward
<1> QED
  BY <1>2, <1>3, <1>5, ReadingIsPromised

\* Every other step of a worker, which neither records, nor clicks, nor reads.
LEMMA OtherIsPromised ==
  ASSUME TypeInv, SenderInv, NEW w \in Workers, Execute(w) \/ Cancel(w) \/ Step(w),
         ~AdmitNew(w), ~WriteTurn(w), ~ObserveRejects(w), ~ObserveAccepts(w)
  PROVE  [Promise!Next]_(Promise!vars)
<1>1. UNCHANGED <<turns, evidence, send>>
  <2>1. CASE Execute(w) \/ Cancel(w) \/ Acquire(w) \/ Refused(w) \/ AdmitDuplicate(w) \/ AdmitFails(w)
    BY <2>1 DEF Execute, Cancel, Acquire, Refused, AdmitDuplicate, AdmitFails, KeepTracking, driverVars
  <2>2. CASE WriteFails(w) \/ RejectPage(w) \/ AcceptPage(w) \/ GateCloses(w) \/ GateOpens(w)
    BY <2>2 DEF WriteFails, RejectPage, AcceptPage, GateCloses, GateOpens, KeepTracking, driverVars
  <2>3. CASE AskPrepare(w) \/ AskSubmit(w) \/ AskObserve(w) \/ AskVerify(w) \/ AskStop(w) \/ AskRelease(w)
    BY <2>3 DEF AskPrepare, AskSubmit, AskObserve, AskVerify, AskStop, AskRelease, Ask, Request, KeepTracking
  <2>4. CASE \/ PrepareAnswered(w) \/ SubmitAnswered(w) \/ ObserveSlow(w) \/ Publish(w) \/ Complete(w)
             \/ Released(w)
    BY <2>4 DEF PrepareAnswered, SubmitAnswered, ObserveSlow, Publish, Complete, Released,
                Told, Receive, KeepTracking
  <2>5. CASE \/ PrepareUnanswered(w) \/ SubmitUnanswered(w) \/ ObserveCancelled(w) \/ ObserveFails(w)
             \/ VerifyUnanswered(w) \/ StopEnds(w) \/ NotReleased(w)
    BY <2>5 DEF PrepareUnanswered, SubmitUnanswered, ObserveCancelled, ObserveFails, VerifyUnanswered,
                StopEnds, NotReleased, Untold, Hangup, KeepTracking
  <2>6. CASE Readmit(w) \/ BackoffEnds(w) \/ BackoffCancelled(w) \/ Finish(w)
    BY <2>6 DEF Readmit, BackoffEnds, BackoffCancelled, Finish, KeepTracking, driverVars
  <2> QED
    BY <2>1, <2>2, <2>3, <2>4, <2>5, <2>6 DEF Step
<1>2. Clicked' = Clicked
  BY <1>1 DEF Clicked
<1> QED
  BY <1>1, <1>2, QuietPromise

LEMMA DriverIsPromised ==
  ASSUME TypeInv, SenderInv, TurnInv, OwnerThread
  PROVE  [Promise!Next]_(Promise!vars)
<1>0. DriverStep /\ UNCHANGED <<turns, evidence>>
  BY DEF OwnerThread
<1>1. CASE PressSend
  BY <1>0, <1>1, ClickIsPromised
<1>2. CASE SubmitFails
  <2>1. send' = [send EXCEPT ![current.handle] =
                   IF page[current.handle] = "leased" /\ @ = "fresh" THEN "latched" ELSE @]
    BY <1>2 DEF SubmitFails
  <2>2. \A h \in Handles : send'[h] = "clicked" <=> send[h] = "clicked"
    BY <2>1 DEF TypeInv, DriverTypeOK
  <2>3. Clicked' = Clicked
    BY <2>2 DEF Clicked
  <2> QED
    BY <1>0, <2>3, QuietPromise
<1>3. CASE DriverStep /\ ~PressSend /\ ~SubmitFails
  <2>1. UNCHANGED send
    BY <1>3 DEF DriverStep, Take, PrepareRefused, PrepareRejected, PrepareSucceeds, SubmitReturns,
                Observe, VerifyCompletion, Stop, Release, ReleaseFails
  <2>2. Clicked' = Clicked
    BY <2>1 DEF Clicked
  <2> QED
    BY <1>0, <2>2, QuietPromise
<1> QED
  BY <1>0, <1>1, <1>2, <1>3

LEMMA PromiseStep == TypeInv /\ SenderInv /\ TurnInv /\ [Next]_vars => [Promise!Next]_(Promise!vars)
<1> SUFFICES ASSUME TypeInv, SenderInv, TurnInv, [Next]_vars
             PROVE  [Promise!Next]_(Promise!vars)
  OBVIOUS
<1>1. CASE UNCHANGED vars
  <2>1. UNCHANGED <<turns, evidence>> /\ Clicked' = Clicked
    BY <1>1 DEF vars, driverVars, Clicked
  <2> QED
    BY <2>1, QuietPromise
<1>2. CASE OwnerThread
  BY <1>2, DriverIsPromised
<1>3. CASE Restart
  <2>1. UNCHANGED <<turns, evidence>> /\ Clicked' = Clicked
    BY <1>3 DEF Restart, DriverGone, Clicked
  <2> QED
    BY <2>1, QuietPromise
<1>4. ASSUME NEW w \in Workers, Execute(w) \/ Cancel(w) \/ Step(w)
      PROVE  [Promise!Next]_(Promise!vars)
  <2>1. CASE AdmitNew(w)
    BY <2>1, AdmissionIsPromised
  <2>2. CASE WriteTurn(w)
    BY <2>2, RecordIsPromised
  <2>3. CASE ObserveRejects(w) \/ ObserveAccepts(w)
    BY <2>3, ObservationIsPromised
  <2>4. CASE ~AdmitNew(w) /\ ~WriteTurn(w) /\ ~ObserveRejects(w) /\ ~ObserveAccepts(w)
    BY <1>4, <2>4, OtherIsPromised
  <2> QED
    BY <2>1, <2>2, <2>3, <2>4
<1> QED
  BY <1>1, <1>2, <1>3, <1>4 DEF Next

LEMMA PromiseInitially == Init => Promise!Init
<1> SUFFICES ASSUME Init PROVE Promise!Init
  OBVIOUS
<1>1. Clicked = {} /\ \A r \in Requests : turns[r] = NoRow
  BY DEF Init, DriverInit, LedgerInit, Clicked
<1>2. \A r \in Requests : /\ Outcome(r) = "none" /\ Cardinality(SentFor(r)) = 0
                          /\ Cardinality(Failures(r)) = 0 /\ ~Acked(r)
  <2>1. \A r \in Requests : SentFor(r) = {} /\ Failures(r) = {} /\ ~Acked(r)
    BY <1>1 DEF SentFor, Failures, Acked
  <2> QED
    BY <1>1, <2>1, FS_EmptySet DEF Outcome, Admitted
<1>3. /\ Outcomes = [r \in Requests |-> "none"]
      /\ Sends = [r \in Requests |-> 0] /\ Refusals = [r \in Requests |-> 0]
  BY <1>2 DEF Outcomes, Sends, Refusals
<1>4. Acks = [r \in Requests |-> FALSE]
  <2>1. \A r \in Requests : Acked(r) = FALSE
    BY <1>2 DEF Acked
  <2> QED
    BY <2>1 DEF Acks
<1> QED
  BY <1>3, <1>4 DEF Promise!Init

\* Turn execution keeps the promise of SubmissionOnce: for each request at most one click of
\* unknown fate, never more than MaxRetries + 1, and an outcome that says only what is known.
THEOREM TurnKeepsPromise == Spec => KeepsPromise
  BY TurnInvariant, PromiseInitially, PromiseStep, PTL DEF Spec, KeepsPromise, Promise!Spec
=============================================================================
