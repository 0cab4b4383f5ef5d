----------------------------- MODULE TurnStates -----------------------------
(***************************************************************************)
(* The life cycle of one turn: `TurnState` of crates/domain/src/lib.rs.    *)
(* The ledger row, the tracker of one browser page and the coordinator all *)
(* move through this table; `Successors(s)` is the set of states to which  *)
(* `transition` accepts a move from s (anything else is an error and       *)
(* leaves the state unchanged).                                            *)
(***************************************************************************)

TurnState == {"Prepared", "ObservedBaseline", "Submitting", "Submitted",
              "Generating", "Completed", "Failed", "Cancelled",
              "SubmissionUncertain"}

\* TurnState::terminal
TerminalStates == {"Completed", "Failed", "Cancelled", "SubmissionUncertain"}

\* Mutant: an unacknowledged submission may be recorded as cancelled.
SuccessorsCancellingUnsent(s) ==
  CASE s = "Prepared"         -> {"ObservedBaseline", "Cancelled", "Failed"}
    [] s = "ObservedBaseline" -> {"Submitting", "Cancelled", "Failed"}
    [] s = "Submitting"       -> {"Submitted", "Failed", "Cancelled", "SubmissionUncertain"}
    [] s = "Submitted"        -> {"Generating"} \cup TerminalStates
    [] s = "Generating"       -> TerminalStates
    [] s \in TerminalStates   -> {}

\* TurnState::transition.  From "Submitted" and "Generating" a Send of a
\* retried page may still end uncertain.
Successors(s) ==
  CASE s = "Prepared"         -> {"ObservedBaseline", "Cancelled", "Failed"}
    [] s = "ObservedBaseline" -> {"Submitting", "Cancelled", "Failed"}
    [] s = "Submitting"       -> {"Submitted", "Failed", "SubmissionUncertain"}
    [] s = "Submitted"        -> {"Generating"} \cup TerminalStates
    [] s = "Generating"       -> TerminalStates
    [] s \in TerminalStates   -> {}
=============================================================================
