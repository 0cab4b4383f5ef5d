--------------------------- MODULE SubmissionOnce ---------------------------
(***************************************************************************)
(* What turn execution promises about one request, with no mention of      *)
(* pages, queues, timeouts or retries of calls:                            *)
(*  - Send is clicked again only after the provider explicitly failed the  *)
(*    previous answer, and at most MaxRetries times more;                  *)
(*  - an outcome is recorded once and says only what is known: a request   *)
(*    is "Failed" or "Cancelled" only if its last Send was never clicked,  *)
(*    was acknowledged, or was explicitly failed; a click of unknown fate  *)
(*    can only end "SubmissionUncertain" (and may even follow it, which is *)
(*    what that outcome means);                                            *)
(*  - "Completed" needs an acknowledged submission.                        *)
(***************************************************************************)
EXTENDS Naturals

CONSTANTS Requests, MaxRetries

VARIABLES outcome,  \* "none", "open", or the recorded terminal state
          sends,    \* clicks of Send so far
          refused,  \* how many of them were explicitly failed
          acked     \* the last click was seen to create its message

vars == <<outcome, sends, refused, acked>>

Init ==
  /\ outcome = [r \in Requests |-> "none"]
  /\ sends = [r \in Requests |-> 0]
  /\ refused = [r \in Requests |-> 0]
  /\ acked = [r \in Requests |-> FALSE]

Begin(r) ==
  /\ outcome[r] = "none"
  /\ outcome' = [outcome EXCEPT ![r] = "open"]
  /\ UNCHANGED <<sends, refused, acked>>

Click(r) ==
  /\ outcome[r] \in {"open", "SubmissionUncertain"}
  /\ sends[r] = refused[r]
  /\ sends[r] <= MaxRetries
  /\ sends' = [sends EXCEPT ![r] = @ + 1]
  /\ UNCHANGED <<outcome, refused, acked>>

Acknowledge(r) ==
  /\ outcome[r] = "open"
  /\ sends[r] > refused[r]
  /\ acked' = [acked EXCEPT ![r] = TRUE]
  /\ UNCHANGED <<outcome, sends, refused>>

Refuse(r) ==
  /\ outcome[r] = "open"
  /\ sends[r] > refused[r]
  /\ refused' = [refused EXCEPT ![r] = @ + 1]
  /\ acked' = [acked EXCEPT ![r] = FALSE]
  /\ UNCHANGED <<outcome, sends>>

Conclude(r, o) ==
  /\ outcome[r] = "open"
  /\ o = "Completed" => acked[r]
  /\ o \in {"Failed", "Cancelled"} => (acked[r] \/ sends[r] = refused[r])
  /\ outcome' = [outcome EXCEPT ![r] = o]
  /\ UNCHANGED <<sends, refused, acked>>

Outcomes == {"Completed", "Failed", "Cancelled", "SubmissionUncertain"}

Next ==
  \E r \in Requests :
    Begin(r) \/ Click(r) \/ Acknowledge(r) \/ Refuse(r) \/ \E o \in Outcomes : Conclude(r, o)

Spec == Init /\ [][Next]_vars
=============================================================================
