---------------------------- MODULE MCDisconnect ----------------------------
(* Instances of Disconnect for TLC. *)
EXTENDS Disconnect

CONSTANTS r1, r2, host, operation, disconnect

OneRequest == {r1}
TwoRequests == {r1, r2}
OneRequestActors == OneRequest \cup {host, operation}
TwoRequestsActors == TwoRequests \cup {host, operation}
Disconnects == {disconnect}
=============================================================================
