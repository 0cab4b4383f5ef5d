------------------------------ MODULE MCGateway ------------------------------
\* The gateway and three parts behind it, each on its own: admission, one websocket of a
\* client, what is told of the integration's health, and the qualification of a client.
\* A behaviour takes the steps of the one that `part` names and leaves the others as they
\* started.
EXTENDS Gateway, ClientSocket, Health, NativeProbe, TLC

CONSTANTS w1, w2, w3, d1, d2

VARIABLE part

Holders == {w1, w2, w3}
Closers == {d1, d2}
Symmetry == Permutations(Statuses) \cup Permutations(Settings)

MCInit ==
  /\ part \in {"admission", "socket", "health", "probe"}
  /\ \E open \in IF part = "admission" THEN BOOLEAN ELSE {TRUE} : GatewayInit(open)
  /\ SocketInit /\ HealthInit
  /\ ProbeInit /\ (part # "probe" => exercise = "text")

\* A socket that is closed stays so, and a probe that has been reported.
SocketRests == socket = "closed" /\ UNCHANGED socketVars
ProbeRests == report.stage \in {"completed", "failed"} /\ UNCHANGED probeVars

MCNext ==
  /\ \/ part = "admission" /\ GatewayNext /\ UNCHANGED <<socketVars, healthVars, probeVars>>
     \/ part = "socket" /\ (SocketNext \/ SocketRests) /\ UNCHANGED <<gatewayVars, healthVars, probeVars>>
     \/ part = "health" /\ HealthNext /\ UNCHANGED <<gatewayVars, socketVars, probeVars>>
     \/ part = "probe" /\ (ProbeNext \/ ProbeRests) /\ UNCHANGED <<gatewayVars, socketVars, healthVars>>
  /\ UNCHANGED part

MCSpec == MCInit /\ [][MCNext]_<<part, gatewayVars, socketVars, healthVars, probeVars>>
=============================================================================
