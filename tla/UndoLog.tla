------------------------------ MODULE UndoLog ------------------------------
(***************************************************************************)
(* What preparing and undoing a change of the user's configuration file    *)
(* promises, with no mention of files, snapshots, crashes or retries:      *)
(*  - how to undo is logged before the change becomes visible;             *)
(*  - the change is made at most once, and never again after its removal   *)
(*    has begun;                                                           *)
(*  - the log says "removed" only when the change is gone.                 *)
(***************************************************************************)
VARIABLES logged,   \* how to undo the change is on disk
          exposed,  \* the change is visible
          spent,    \* it has been made
          closing,  \* its removal has begun
          closed    \* the log says that it was removed

vars == <<logged, exposed, spent, closing, closed>>

Init == <<logged, exposed, spent, closing, closed>> = <<FALSE, FALSE, FALSE, FALSE, FALSE>>

Log ==
  /\ ~logged /\ logged' = TRUE
  /\ UNCHANGED <<exposed, spent, closing, closed>>

Expose ==
  /\ logged /\ ~spent /\ ~closing
  /\ exposed' = TRUE /\ spent' = TRUE
  /\ UNCHANGED <<logged, closing, closed>>

\* By whoever removes the change: the program or the user.
Withdraw ==
  /\ exposed /\ exposed' = FALSE
  /\ UNCHANGED <<logged, spent, closing, closed>>

Close ==
  /\ logged /\ ~closing /\ closing' = TRUE
  /\ UNCHANGED <<logged, exposed, spent, closed>>

Confirm ==
  /\ closing /\ ~exposed /\ ~closed
  /\ closed' = TRUE
  /\ UNCHANGED <<logged, exposed, spent, closing>>

Next == Log \/ Expose \/ Withdraw \/ Close \/ Confirm

Spec == Init /\ [][Next]_vars
=============================================================================
