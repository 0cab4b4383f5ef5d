------------------------------- MODULE Ledger -------------------------------
(***************************************************************************)
(* The durable turn ledger, crates/runtime/src/ledger.rs: one SQLite row   *)
(* per request, bound to a session and an input when it is admitted.       *)
(* Every operation is one SQLite transaction behind one mutex, so it is    *)
(* one action here.  Requests, sessions and inputs stand for the SHA-256   *)
(* digests the table stores; the diagnostics tables are left out.          *)
(***************************************************************************)
EXTENDS TurnStates

CONSTANTS Requests, \* request identities (primary key of `turns`)
          Sessions, \* session digests
          Inputs,   \* input digests
          NoRow     \* the value of turns[r] when the table has no row for r

Row == [session: Sessions, input: Inputs, state: TurnState]

ASSUME NoRowAssumption == NoRow \notin Row

VARIABLE turns

LedgerTypeOK == turns \in [Requests -> Row \cup {NoRow}]

LedgerInit == turns = [r \in Requests |-> NoRow]

Admitted(r) == turns[r] # NoRow
Settled(r) == Admitted(r) /\ turns[r].state \in TerminalStates

\* The same request identity presented with another session or input.
Conflicts(r, s, i) ==
  Admitted(r) /\ (turns[r].session # s \/ turns[r].input # i)

\* `admit` answering Admission::New.  Its other answers (the existing state,
\* E_REQUEST_ID_CONFLICT) change nothing.
Admit(r, s, i) ==
  /\ ~Admitted(r)
  /\ turns' = [turns EXCEPT ![r] = [session |-> s, input |-> i, state |-> "Prepared"]]

\* `transition` accepting the move; otherwise E_TURN_TRANSITION, no change.
Transition(r, next) ==
  /\ Admitted(r)
  /\ next \in Successors(turns[r].state)
  /\ turns' = [turns EXCEPT ![r].state = next]

\* What `recover` makes of one row.
Recovered(row) ==
  IF row = NoRow \/ row.state \in TerminalStates THEN row
  ELSE [row EXCEPT !.state = IF @ = "Submitting" THEN "SubmissionUncertain" ELSE "Failed"]

\* `recover`: both UPDATEs commit together.
Recover == turns' = [r \in Requests |-> Recovered(turns[r])]

LedgerNext ==
  \/ \E r \in Requests, s \in Sessions, i \in Inputs : Admit(r, s, i)
  \/ \E r \in Requests, next \in TurnState : Transition(r, next)
  \/ Recover

LedgerSpec == LedgerInit /\ [][LedgerNext]_turns
-----------------------------------------------------------------------------
\* A recorded outcome is never revised, neither by a later transition of a
\* worker that lost track of its row nor by recovery ("completed work survives
\* recovery as delivery only").
OutcomeIsFinal == [][\A r \in Requests : Settled(r) => turns'[r] = turns[r]]_turns

\* A row keeps the session and the input it was admitted with, and is never
\* deleted: presenting the identity again cannot bind it to other work.
BindingIsFixed ==
  [][\A r \in Requests : Admitted(r) =>
       /\ Admitted(r)'
       /\ turns'[r].session = turns[r].session
       /\ turns'[r].input = turns[r].input]_turns

\* An unacknowledged submission is never recorded as cancelled, nor does it
\* return to a state from which Send could be reached again ("uncertain
\* submission cannot be replayed or cancelled as unsent").
NeverTreatedAsUnsent ==
  [][\A r \in Requests :
       (Admitted(r) /\ turns[r].state = "Submitting")
         => turns'[r].state \notin {"Prepared", "ObservedBaseline", "Cancelled"}]_turns
=============================================================================
