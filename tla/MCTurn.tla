------------------------------- MODULE MCTurn -------------------------------
\* Two calls.  SameRequest: a client repeats one request.  Otherwise two
\* requests of one session.
EXTENDS TurnProperties, TLC

CONSTANTS w1, w2, ra, rb, sa, ia

MCWorkers == {w1, w2}
OneRequest == {ra}
TwoRequests == {ra, rb}
SameRequest == w1 :> ra @@ w2 :> ra
OwnRequests == w1 :> ra @@ w2 :> rb
SameSession == w1 :> sa @@ w2 :> sa
SameInput == w1 :> ia @@ w2 :> ia
=============================================================================
