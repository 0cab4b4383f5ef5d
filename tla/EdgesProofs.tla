------------------------------ MODULE EdgesProofs ------------------------------
(***************************************************************************)
(* The parts around the coordinator, for any numbers of callers, receipts, *)
(* calls, accounts and lists: an operation runs once and its receipt says  *)
(* what became of it; what is recorded of a test turn is true; the list    *)
(* that a client ends with is the one it was told of.                      *)
(***************************************************************************)
EXTENDS ControlService, BrowserPage, CatalogList, Integers, SequenceTheorems, TLAPS
-----------------------------------------------------------------------------
(* The control plane.                                                      *)

\* A message of an attached caller; only a start can start.
MessagesFit ==
  \A i \in DOMAIN queue :
    /\ call[queue[i].caller].pc # "idle"
    /\ queue[i].live => call[queue[i].caller].pc = "waiting" /\ queue[i].type # "cancel"

\* A caller listens to the last request it sent: the pipe keeps their order.
LiveIsLast ==
  \A i, j \in DOMAIN queue :
    i < j /\ queue[i].live /\ queue[j].caller = queue[i].caller => queue[j].type = "cancel"

\* A caller knows no later instance than the running one, and is told one thing.
CallsFit ==
  \A c \in Callers :
    /\ call[c].inst <= instance
    /\ call[c].told # "nothing" <=> call[c].pc = "done"
    /\ call[c].pc = "idle" => ran.started[c] = 0 /\ receipts[c] = "none"

\* What this instance has no receipt for was never started for a caller of it.
NoReceiptNoStart ==
  \A c \in Callers :
    receipts[c] = "none" /\ call[c].inst = instance => ran.started[c] = 0

\* A caller that was refused has nothing under way.
RefusedIsOver ==
  \A c \in Callers : call[c].told \in {"busy", "unconfirmed"} =>
    /\ ran.started[c] = 0
    /\ \A i \in DOMAIN queue : queue[i].caller = c => queue[i].type # "start"

\* Receipt, worker and history agree.
WorkFits ==
  \A c \in Callers :
    /\ receipts[c] = "none" <=> work[c] = "none"
    /\ receipts[c] \in Outcomes => work[c] = receipts[c]
    /\ work[c] = "running" => ran.ended[c] = {}
    /\ work[c] \in Outcomes => ran.ended[c] = {work[c]}
    /\ ran.started[c] = 0 => ran.ended[c] = {}
    /\ ran.started[c] <= 1
    /\ work[c] # "none" => ran.started[c] = 1

\* Only the browser's own service keeps a cached status, and it is written with the truth.
CachedIsTrue ==
  /\ cached => mode = "login"
  /\ cached /\ ~ran.panic => qualified

ControlInv ==
  /\ ControlTypeOK
  /\ MessagesFit
  /\ LiveIsLast
  /\ CallsFit
  /\ NoReceiptNoStart
  /\ RefusedIsOver
  /\ WorkFits
  /\ CachedIsTrue
  /\ ToldTheTruth
-----------------------------------------------------------------------------
LEMMA ControlInitially ==
  ASSUME ControlInit
  PROVE  ControlInv
<1> USE ControlAssumption
<1>1. \A c \in Callers : /\ call[c].pc = "idle" /\ call[c].inst = 0 /\ call[c].told = "nothing"
                         /\ call[c] \in Call
  BY DEF ControlInit, Call, Kinds, Outcomes, LoginKinds, LifecycleKinds
<1>2. DOMAIN queue = {} /\ queue \in Seq(Connection) /\ Len(queue) = 0
  BY DEF ControlInit
<1>3. ControlTypeOK
  <2>1. call \in [Callers -> Call]
    BY <1>1 DEF ControlInit
  <2>2. ran \in [started: [Callers -> Nat], ended: [Callers -> SUBSET Outcomes], panic: BOOLEAN]
    BY DEF ControlInit
  <2>3. receipts \in [Callers -> Outcomes \cup {"none", "running"}] /\ work = receipts
    BY DEF ControlInit
  <2>4. /\ mode \in {"login", "lifecycle"} /\ instance \in 0..MaxStarts /\ earlier \in 0..RECEIPTS
        /\ cancelled \subseteq Callers
    BY DEF ControlInit
  <2>5. qualified \in BOOLEAN /\ cached \in BOOLEAN
    BY DEF ControlInit
  <2>6. queue \in Seq(Connection) /\ Len(queue) <= 2
    BY <1>2
  <2> QED
    BY <2>1, <2>2, <2>3, <2>4, <2>5, <2>6 DEF ControlTypeOK
<1> QED
  BY <1>1, <1>2, <1>3
     DEF ControlInit, ControlInv, MessagesFit, LiveIsLast, CallsFit, NoReceiptNoStart,
         RefusedIsOver, WorkFits, CachedIsTrue, ToldTheTruth, Outcomes

\* Steps of a caller that only change what the caller does, without a new message.
LEMMA CallersKeepInv ==
  ASSUME ControlInv, NEW c \in Callers, Attach(c) \/ ExchangeFails(c) \/ Deadline(c)
  PROVE  ControlInv'
<1> USE DEF ControlInv
<1>1. /\ UNCHANGED <<mode, instance, earlier, receipts, work, cancelled, qualified, cached, ran>>
      /\ DOMAIN queue' = DOMAIN queue
      /\ queue' \in Seq(Connection) /\ Len(queue') = Len(queue)
      /\ \A i \in DOMAIN queue : /\ queue'[i].caller = queue[i].caller
                                 /\ queue'[i].type = queue[i].type
                                 /\ queue'[i].live => queue[i].live
                                 /\ call[c].pc = "waiting" /\ queue[i].caller = c
                                      => ~queue'[i].live
  <2>1. CASE ExchangeFails(c)
    <3>1. queue \in Seq(Connection) /\ queue \in [1..Len(queue) -> Connection] /\ Len(queue) \in Nat
      BY DEF ControlTypeOK
    <3>2. queue' \in [1..Len(queue) -> Connection]
      BY <2>1, <3>1 DEF ExchangeFails, Connection
    <3>3. \A i \in DOMAIN queue :
            queue'[i] = IF queue[i].caller = c THEN [queue[i] EXCEPT !.live = FALSE] ELSE queue[i]
      BY <2>1 DEF ExchangeFails
    <3>4. queue' \in Seq(Connection) /\ Len(queue') = Len(queue) /\ DOMAIN queue' = DOMAIN queue
      BY <3>1, <3>2
    <3> QED
      BY <2>1, <3>1, <3>3, <3>4 DEF ExchangeFails, Connection
  <2>2. CASE Attach(c) \/ Deadline(c)
    BY <2>2 DEF Attach, Deadline, ControlTypeOK, Call
  <2> QED
    BY <2>1, <2>2
<1>2. PICK r \in Call : call' = [call EXCEPT ![c] = r]
  BY ZenonT(60) DEF Attach, ExchangeFails, Deadline, ControlTypeOK, Call
<1>3. ControlTypeOK'
  BY <1>1, <1>2 DEF ControlTypeOK
<1>4. /\ call[c] \in Call /\ call'[c] = r
      /\ \A d \in Callers \ {c} : call'[d] = call[d]
      /\ \/ call[c].pc = "idle" /\ r = [call[c] EXCEPT !.pc = "send", !.inst = instance]
         \/ /\ ExchangeFails(c) /\ call[c].pc \in {"send", "resend", "ask", "waiting"}
            /\ r = [call[c] EXCEPT !.pc = "ask"]
         \/ /\ call[c].pc \in {"ask", "resend"}
            /\ r = [call[c] EXCEPT !.pc = "done", !.told = "timeout"]
  BY <1>2 DEF Attach, ExchangeFails, Deadline, ControlTypeOK
<1>5. \A i \in DOMAIN queue : queue[i].caller \in Callers
  <2>1. \A i \in DOMAIN queue : queue[i] \in Connection
    BY DEF ControlTypeOK
  <2> QED
    BY <2>1 DEF Connection
<1>6. r.pc # "idle" /\ r.told \notin {"busy", "unconfirmed"} \cup Outcomes
  BY <1>4 DEF Call, CallsFit, Outcomes
<1>7. MessagesFit'
  BY <1>1, <1>4, <1>5, <1>6 DEF MessagesFit
<1>8. LiveIsLast'
  BY <1>1 DEF LiveIsLast
<1>9. CallsFit'
  <2>1. r.inst <= instance /\ (r.told # "nothing" <=> r.pc = "done")
    <3>1. instance \in Int /\ call[c].inst <= instance
          /\ (call[c].told # "nothing" <=> call[c].pc = "done")
      BY DEF CallsFit, ControlTypeOK
    <3>2. CASE call[c].pc = "idle" /\ r = [call[c] EXCEPT !.pc = "send", !.inst = instance]
      <4>1. r.inst = instance /\ r.pc = "send" /\ r.told = call[c].told
        BY <1>4, <3>2 DEF Call
      <4> QED
        BY <3>1, <3>2, <4>1
    <3>3. CASE call[c].pc \in {"send", "resend", "ask", "waiting"} /\ r = [call[c] EXCEPT !.pc = "ask"]
      <4>1. r.inst = call[c].inst /\ r.pc = "ask" /\ r.told = call[c].told
        BY <1>4, <3>3 DEF Call
      <4> QED
        BY <3>1, <3>3, <4>1
    <3>4. CASE r = [call[c] EXCEPT !.pc = "done", !.told = "timeout"]
      <4>1. r.inst = call[c].inst /\ r.pc = "done" /\ r.told = "timeout"
        BY <1>4, <3>4 DEF Call
      <4> QED
        BY <3>1, <4>1
    <3> QED
      BY <1>4, <3>2, <3>3, <3>4
  <2> QED
    BY <1>1, <1>4, <1>6, <2>1 DEF CallsFit
<1>10. NoReceiptNoStart'
  <2>1. r.inst = call[c].inst \/ call[c].pc = "idle"
    BY <1>4 DEF Call
  <2> QED
    BY <1>1, <1>4, <2>1 DEF NoReceiptNoStart, CallsFit
<1>11. RefusedIsOver'
  BY <1>1, <1>4, <1>6 DEF RefusedIsOver
<1>12. WorkFits' /\ CachedIsTrue' /\ ToldTheTruth'
  BY <1>1, <1>4, <1>6 DEF WorkFits, CachedIsTrue, ToldTheTruth
<1> QED
  BY <1>3, <1>7, <1>8, <1>9, <1>10, <1>11, <1>12

\* A message is sent at the end of the queue.
LEMMA SendingKeepsInv ==
  ASSUME ControlInv, NEW c \in Callers, NEW m \in Connection, m.caller = c,
         queue' = Append(queue, m), Len(queue) < 2,
         UNCHANGED <<mode, instance, earlier, receipts, work, cancelled, qualified, cached, ran>>,
         \/ /\ m.live /\ m.type # "cancel" /\ call[c].pc \in {"send", "resend", "ask"}
            /\ call' = [call EXCEPT ![c].pc = "waiting"]
         \/ /\ ~m.live /\ m.type = "cancel" /\ receipts[c] = "running"
            /\ UNCHANGED call
  PROVE  ControlInv'
<1> USE DEF ControlInv
<1>1. /\ queue \in Seq(Connection) /\ Len(queue) \in Nat
      /\ queue' \in Seq(Connection) /\ Len(queue') = Len(queue) + 1
      /\ DOMAIN queue = 1..Len(queue) /\ DOMAIN queue' = 1..(Len(queue) + 1)
      /\ \A i \in DOMAIN queue : queue'[i] = queue[i] /\ queue[i].caller \in Callers
      /\ queue'[Len(queue) + 1] = m
  <2>1. queue \in Seq(Connection)
    BY DEF ControlTypeOK
  <2>2. \A i \in DOMAIN queue : queue[i] \in Connection
    BY <2>1
  <2>3. \A i \in DOMAIN queue : queue[i].caller \in Callers
    BY <2>2 DEF Connection
  <2> QED
    BY <2>1, <2>3
<1>2. /\ call' \in [Callers -> Call]
      /\ \A d \in Callers : /\ call'[d].inst = call[d].inst /\ call'[d].told = call[d].told
                            /\ call'[d].kind = call[d].kind
                            /\ d # c => call'[d].pc = call[d].pc
      /\ IF m.live THEN call'[c].pc = "waiting" ELSE call'[c].pc = call[c].pc
  <2>1. call \in [Callers -> Call]
    BY DEF ControlTypeOK
  <2>2. CASE UNCHANGED call /\ ~m.live
    BY <2>1, <2>2
  <2>3. CASE m.live /\ call' = [call EXCEPT ![c].pc = "waiting"]
    <3>1. [call[c] EXCEPT !.pc = "waiting"] \in Call
      BY <2>1 DEF Call
    <3> QED
      BY <2>1, <2>3, <3>1 DEF Call
  <2> QED
    BY <2>2, <2>3
<1>3. ControlTypeOK'
  BY <1>1, <1>2 DEF ControlTypeOK
<1>4. call[c].pc # "idle" /\ (m.live => call[c].pc # "waiting" /\ call[c].pc # "done")
  BY DEF CallsFit
<1>5. MessagesFit'
  BY <1>1, <1>2, <1>4 DEF MessagesFit
<1>6. LiveIsLast'
  <2> SUFFICES ASSUME NEW i \in DOMAIN queue', NEW j \in DOMAIN queue',
                      i < j, queue'[i].live, queue'[j].caller = queue'[i].caller
               PROVE  queue'[j].type = "cancel"
    BY DEF LiveIsLast
  <2>1. i \in DOMAIN queue /\ queue'[i] = queue[i]
    BY <1>1
  <2>2. CASE j \in DOMAIN queue
    BY <1>1, <2>1, <2>2 DEF LiveIsLast
  <2>3. CASE j = Len(queue) + 1
    BY <1>1, <1>4, <2>1, <2>3 DEF MessagesFit
  <2> QED
    BY <1>1, <2>2, <2>3
<1>7. CallsFit'
  BY <1>2, <1>4 DEF CallsFit
<1>8. NoReceiptNoStart' /\ WorkFits' /\ CachedIsTrue' /\ ToldTheTruth'
  BY <1>2 DEF NoReceiptNoStart, WorkFits, CachedIsTrue, ToldTheTruth
<1>9. RefusedIsOver'
  <2> SUFFICES ASSUME NEW d \in Callers, call'[d].told \in {"busy", "unconfirmed"},
                      NEW i \in DOMAIN queue', queue'[i].caller = d
               PROVE  queue'[i].type # "start"
    BY <1>2 DEF RefusedIsOver
  <2>1. CASE i \in DOMAIN queue
    BY <1>1, <1>2, <2>1 DEF RefusedIsOver
  <2>2. CASE i = Len(queue) + 1
    BY <1>1, <1>2, <1>4, <2>2 DEF CallsFit
  <2> QED
    BY <1>1, <2>1, <2>2
<1> QED
  BY <1>3, <1>5, <1>6, <1>7, <1>8, <1>9

LEMMA ExchangeKeepsInv ==
  ASSUME ControlInv, NEW c \in Callers, Exchange(c)
  PROVE  ControlInv'
<1>1. PICK type \in {"ask", "start"} :
        queue' = Append(queue, [caller |-> c, live |-> TRUE, type |-> type])
  BY DEF Exchange
<1> DEFINE m == [caller |-> c, live |-> TRUE, type |-> type]
<1>2. m \in Connection /\ m.caller = c /\ m.live /\ m.type # "cancel"
  BY DEF Connection
<1>3. /\ call[c].pc \in {"send", "resend", "ask"} /\ call' = [call EXCEPT ![c].pc = "waiting"]
      /\ UNCHANGED <<mode, instance, earlier, receipts, work, cancelled, qualified, cached, ran>>
      /\ Len(queue) < 2
  BY DEF Exchange
<1> QED
  BY <1>1, <1>2, <1>3, SendingKeepsInv

LEMMA CancelNativeKeepsInv ==
  ASSUME ControlInv, NEW c \in Callers, CancelNative(c)
  PROVE  ControlInv'
<1> DEFINE m == [caller |-> c, live |-> FALSE, type |-> "cancel"]
<1>1. m \in Connection /\ m.caller = c /\ ~m.live /\ m.type = "cancel"
  BY DEF Connection
<1>2. /\ queue' = Append(queue, m) /\ receipts[c] = "running" /\ UNCHANGED call
      /\ UNCHANGED <<mode, instance, earlier, receipts, work, cancelled, qualified, cached, ran>>
      /\ Len(queue) < 2
  BY DEF CancelNative
<1> QED
  BY <1>1, <1>2, SendingKeepsInv

\* The worker returns, and its outcome becomes the receipt.
LEMMA WorkKeepsInv ==
  ASSUME ControlInv, NEW c \in Callers, Works(c) \/ WorkIsRefused(c) \/ Receipt(c)
  PROVE  ControlInv'
<1> USE DEF ControlInv
<1>1. UNCHANGED <<mode, instance, earlier, cancelled, queue, call>> /\ ran'.started = ran.started
  BY DEF Works, WorkIsRefused, Receipt, ControlTypeOK
<1>2. MessagesFit' /\ LiveIsLast'
  BY <1>1 DEF MessagesFit, LiveIsLast
<1>3. CASE Receipt(c)
  <2>1. /\ UNCHANGED <<work, qualified, cached, ran>>
        /\ receipts[c] = "running" /\ work[c] \in Outcomes
        /\ receipts' = [receipts EXCEPT ![c] = work[c]]
    BY <1>3 DEF Receipt
  <2>2. ControlTypeOK'
    BY <1>1, <2>1 DEF ControlTypeOK
  <2>3. CallsFit' /\ NoReceiptNoStart' /\ RefusedIsOver'
    BY <1>1, <2>1 DEF CallsFit, NoReceiptNoStart, RefusedIsOver, ControlTypeOK, Outcomes
  <2>4. WorkFits' /\ CachedIsTrue' /\ ToldTheTruth'
    BY <1>1, <2>1 DEF WorkFits, CachedIsTrue, ToldTheTruth, ControlTypeOK, Outcomes
  <2> QED
    BY <1>2, <2>2, <2>3, <2>4
<1>4. CASE Works(c) \/ WorkIsRefused(c)
  <2>1. UNCHANGED receipts /\ work[c] = "running"
    BY <1>4 DEF Works, WorkIsRefused
  <2>2. PICK outcome \in Outcomes :
          /\ work' = [work EXCEPT ![c] = outcome]
          /\ \/ ran' = [ran EXCEPT !.ended[c] = @ \cup {outcome}]
             \/ ran' = [ran EXCEPT !.ended[c] = @ \cup {outcome}, !.panic = TRUE]
    BY <1>4 DEF Works, WorkIsRefused, Outcomes
  <2>3. /\ ran' \in [started: [Callers -> Nat], ended: [Callers -> SUBSET Outcomes], panic: BOOLEAN]
        /\ ran.panic => ran'.panic
    <3>1. ran \in [started: [Callers -> Nat], ended: [Callers -> SUBSET Outcomes], panic: BOOLEAN]
      BY DEF ControlTypeOK
    <3>2. ran.ended[c] \cup {outcome} \in SUBSET Outcomes
      BY <3>1
    <3> DEFINE e == [ran.ended EXCEPT ![c] = @ \cup {outcome}]
    <3>3. e \in [Callers -> SUBSET Outcomes]
      BY <3>1, <3>2
    <3>4. \/ ran' = [ran EXCEPT !.ended = e]
          \/ ran' = [ran EXCEPT !.ended = e, !.panic = TRUE]
      BY <2>2
    <3> HIDE DEF e
    <3> QED
      BY <3>1, <3>3, <3>4
  <2>4. qualified' \in BOOLEAN /\ cached' \in BOOLEAN /\ CachedIsTrue'
    <3>1. CASE Works(c)
      <4>1. \/ /\ mode = "login" /\ qualified' \in BOOLEAN /\ cached' \in BOOLEAN
               /\ cached' => qualified'
            \/ UNCHANGED <<qualified, cached>>
        <5>1. PICK o \in Outcomes, now \in BOOLEAN :
                \/ mode = "login" /\ qualified' = now /\ cached' = (o = "completed" /\ now)
                \/ UNCHANGED <<qualified, cached>>
          BY <3>1, Zenon DEF Works, CachedAfter
        <5> QED
          BY <5>1, Zenon
      <4>2. ran'.panic = ran.panic
        BY <3>1 DEF Works, ControlTypeOK
      <4> QED
        <5>1. mode' = mode /\ qualified \in BOOLEAN /\ cached \in BOOLEAN
          BY <1>1 DEF ControlTypeOK
        <5>2. CASE mode = "login" /\ qualified' \in BOOLEAN /\ cached' \in BOOLEAN
                   /\ (cached' => qualified')
          BY <5>1, <5>2, Zenon DEF CachedIsTrue
        <5>3. CASE UNCHANGED <<qualified, cached>>
          BY <4>2, <5>1, <5>3 DEF CachedIsTrue
        <5> QED
          BY <4>1, <5>2, <5>3
    <3>2. CASE WorkIsRefused(c)
      <4>1. /\ UNCHANGED cached
            /\ qualified' = qualified \/ (qualified' = FALSE /\ ran'.panic)
        BY <3>2 DEF WorkIsRefused, ControlTypeOK
      <4> QED
        BY <4>1, <1>1, <2>3 DEF CachedIsTrue, ControlTypeOK
    <3> QED
      BY <1>4, <3>1, <3>2
  <2>5. ControlTypeOK'
    BY <1>1, <2>1, <2>2, <2>3, <2>4 DEF ControlTypeOK
  <2>6. CallsFit' /\ NoReceiptNoStart' /\ RefusedIsOver'
    BY <1>1, <2>1 DEF CallsFit, NoReceiptNoStart, RefusedIsOver
  <2>7. /\ ran.ended[c] = {} /\ ran'.ended[c] = {outcome}
        /\ \A d \in Callers \ {c} : ran'.ended[d] = ran.ended[d] /\ work'[d] = work[d]
        /\ work'[c] = outcome /\ receipts[c] = "running" /\ ran.started[c] = 1
    <3>1. receipts[c] = "running" /\ ran.ended[c] = {} /\ ran.started[c] = 1
      BY <2>1 DEF WorkFits, ControlTypeOK, Outcomes
    <3>2. /\ ran \in [started: [Callers -> Nat], ended: [Callers -> SUBSET Outcomes], panic: BOOLEAN]
          /\ work \in [Callers -> Outcomes \cup {"none", "running"}]
      BY DEF ControlTypeOK
    <3>3. ran'.ended = [ran.ended EXCEPT ![c] = @ \cup {outcome}]
      BY <2>2, <3>2
    <3>4. ran'.ended[c] = {outcome} /\ \A d \in Callers \ {c} : ran'.ended[d] = ran.ended[d]
      BY <3>1, <3>2, <3>3
    <3>5. work'[c] = outcome /\ \A d \in Callers \ {c} : work'[d] = work[d]
      BY <2>2, <3>2
    <3> QED
      BY <3>1, <3>4, <3>5
  <2>8. WorkFits'
    <3>1. "running" \notin Outcomes /\ "none" \notin Outcomes
      BY DEF Outcomes
    <3> SUFFICES ASSUME NEW d \in Callers
                 PROVE  /\ receipts'[d] = "none" <=> work'[d] = "none"
                        /\ receipts'[d] \in Outcomes => work'[d] = receipts'[d]
                        /\ work'[d] = "running" => ran'.ended[d] = {}
                        /\ work'[d] \in Outcomes => ran'.ended[d] = {work'[d]}
                        /\ ran'.started[d] = 0 => ran'.ended[d] = {}
                        /\ ran'.started[d] <= 1
                        /\ work'[d] # "none" => ran'.started[d] = 1
      BY DEF WorkFits
    <3>2. CASE d = c
      <4>1. /\ receipts'[d] = "running" /\ work'[d] = outcome
            /\ ran'.ended[d] = {outcome} /\ ran'.started[d] = 1
        <5>1. receipts'[c] = "running" /\ ran'.started[c] = 1
          BY <1>1, <2>1, <2>7
        <5>2. work'[c] = outcome /\ ran'.ended[c] = {outcome}
          BY <2>7
        <5> QED
          BY <3>2, <5>1, <5>2
      <4>2. outcome # "running" /\ outcome # "none" /\ receipts'[d] # "none"
        BY <3>1, <4>1
      <4>3. ran'.ended[d] = {work'[d]} /\ receipts'[d] \notin Outcomes
        BY <3>1, <4>1
      <4> QED
        BY <4>1, <4>2, <4>3
    <3>3. CASE d # c
      BY <1>1, <2>1, <2>7, <3>3 DEF WorkFits
    <3> QED
      BY <3>2, <3>3
  <2>9. ToldTheTruth'
    BY <1>1, <2>7 DEF ToldTheTruth
  <2> QED
    BY <1>2, <2>4, <2>5, <2>6, <2>8, <2>9
<1> QED
  BY <1>3, <1>4

\* What a served message leaves of the queue.
LEMMA Served ==
  ASSUME queue \in Seq(Connection), queue # << >>
  PROVE  /\ Len(queue) \in Nat \ {0} /\ DOMAIN queue = 1..Len(queue)
         /\ queue[1] = Head(queue) /\ Head(queue) \in Connection
         /\ Tail(queue) \in Seq(Connection) /\ Len(Tail(queue)) = Len(queue) - 1
         /\ DOMAIN Tail(queue) = 1..(Len(queue) - 1)
         /\ \A i \in 1..(Len(queue) - 1) : i + 1 \in DOMAIN queue /\ Tail(queue)[i] = queue[i + 1]
         /\ \A i \in DOMAIN queue : queue[i] \in Connection /\ queue[i].caller \in Callers
<1>1. Len(queue) \in Nat \ {0} /\ DOMAIN queue = 1..Len(queue) /\ queue[1] = Head(queue)
  OBVIOUS
<1>2. Tail(queue) \in Seq(Connection) /\ Len(Tail(queue)) = Len(queue) - 1
  BY <1>1
<1>3. \A i \in 1..(Len(queue) - 1) : i + 1 \in DOMAIN queue /\ Tail(queue)[i] = queue[i + 1]
  BY <1>1
<1>4. \A i \in DOMAIN queue : queue[i] \in Connection
  BY <1>1
<1>5. \A i \in DOMAIN queue : queue[i].caller \in Callers
  BY <1>4 DEF Connection
<1> QED
  BY <1>1, <1>2, <1>3, <1>4, <1>5

\* Dropping a message takes nothing away but the message.
LEMMA ShorterQueueFits ==
  ASSUME ControlInv, queue # << >>, queue' = Tail(queue)
  PROVE  /\ \A i \in DOMAIN queue' : i + 1 \in DOMAIN queue /\ queue'[i] = queue[i + 1]
         /\ queue' \in Seq(Connection) /\ Len(queue') <= 2
         /\ LiveIsLast'
         /\ \A i \in DOMAIN queue' : queue'[i].caller \in Callers
<1> USE DEF ControlInv
<1>1. queue \in Seq(Connection) /\ Len(queue) <= 2
  BY DEF ControlTypeOK
<1>2. /\ \A i \in DOMAIN queue' : i + 1 \in DOMAIN queue /\ queue'[i] = queue[i + 1]
      /\ queue' \in Seq(Connection) /\ Len(queue') <= 2
      /\ DOMAIN queue' \subseteq Nat
      /\ \A i \in DOMAIN queue : queue[i].caller \in Callers
  BY <1>1, Served
<1>3. LiveIsLast'
  BY <1>2 DEF LiveIsLast
<1> QED
  BY <1>2, <1>3

LEMMA ServeDroppedKeepsInv ==
  ASSUME ControlInv, ServeDropped
  PROVE  ControlInv'
<1> USE DEF ControlInv
<1>1. /\ queue # << >> /\ queue' = Tail(queue)
      /\ UNCHANGED <<mode, instance, earlier, receipts, work, cancelled, call, qualified, cached, ran>>
  BY DEF ServeDropped
<1>2. ControlTypeOK' /\ LiveIsLast'
  BY <1>1, ShorterQueueFits DEF ControlTypeOK
<1>3. MessagesFit'
  BY <1>1, ShorterQueueFits DEF MessagesFit
<1>4. RefusedIsOver'
  BY <1>1, ShorterQueueFits DEF RefusedIsOver
<1>5. CallsFit' /\ NoReceiptNoStart' /\ WorkFits' /\ CachedIsTrue' /\ ToldTheTruth'
  BY <1>1 DEF CallsFit, NoReceiptNoStart, WorkFits, CachedIsTrue, ToldTheTruth
<1> QED
  BY <1>2, <1>3, <1>4, <1>5

LEMMA RestartKeepsInv ==
  ASSUME ControlInv, Restart
  PROVE  ControlInv'
<1> USE DEF ControlInv, ControlAssumption
<1>1. /\ instance < MaxStarts /\ instance' = instance + 1 /\ earlier' = 0
      /\ receipts' = [c \in Callers |-> "none"] /\ work' = [c \in Callers |-> "none"]
      /\ queue' = << >> /\ cancelled' = {} /\ qualified' = FALSE /\ cached' = FALSE
      /\ UNCHANGED <<mode, call, ran>>
  BY DEF Restart
<1>2. instance' \in 0..MaxStarts /\ instance \in Int /\ 0 \in 0..RECEIPTS
  BY <1>1, ControlAssumption DEF ControlTypeOK
<1>3. queue' \in Seq(Connection) /\ Len(queue') = 0 /\ DOMAIN queue' = {}
  BY <1>1
<1>4. ControlTypeOK'
  <2>1. /\ receipts' \in [Callers -> Outcomes \cup {"none", "running"}] /\ work' = receipts'
        /\ cancelled' \subseteq Callers /\ earlier' \in 0..RECEIPTS
    BY <1>1, <1>2
  <2>2. qualified' \in BOOLEAN /\ cached' \in BOOLEAN
    BY <1>1
  <2> QED
    BY <1>1, <1>2, <1>3, <2>1, <2>2 DEF ControlTypeOK
<1>5. MessagesFit' /\ LiveIsLast' /\ RefusedIsOver'
  BY <1>1, <1>3 DEF MessagesFit, LiveIsLast, RefusedIsOver
<1>6. \A c \in Callers : call[c].inst \in Int /\ call[c].inst < instance'
  BY <1>1, <1>2 DEF CallsFit, ControlTypeOK, Call
<1>7. CallsFit' /\ NoReceiptNoStart'
  BY <1>1, <1>2, <1>6 DEF CallsFit, NoReceiptNoStart
<1>8. WorkFits' /\ CachedIsTrue' /\ ToldTheTruth'
  BY <1>1 DEF WorkFits, CachedIsTrue, ToldTheTruth, Outcomes
<1> QED
  BY <1>4, <1>5, <1>7, <1>8

\* A reply that starts nothing changes nothing but what the caller was told.
LEMMA ServeKeepsInv ==
  ASSUME ControlInv, Serve
  PROVE  ControlInv'
<1> USE DEF ControlInv
<1> DEFINE m == Head(queue)
           c == m.caller
           reply == Reply(c, m.type)
<1>1. /\ queue # << >> /\ queue' = Tail(queue) /\ Handle(c, m.type, reply)
      /\ \/ UNCHANGED call
         \/ m.live /\ call' = [call EXCEPT ![c] =
                                 Told(c, IF reply = "start" THEN "running" ELSE reply)]
      /\ UNCHANGED <<mode, instance, earlier, qualified, cached>>
  BY DEF Serve
<1>2. /\ m \in Connection /\ c \in Callers /\ 1 \in DOMAIN queue /\ m = queue[1]
  <2>1. queue \in Seq(Connection)
    BY DEF ControlTypeOK
  <2> QED
    BY <1>1, <2>1, Served DEF Connection
<1>3. /\ call[c] \in Call /\ call \in [Callers -> Call]
      /\ call[c].pc # "idle"
      /\ m.live => call[c].pc = "waiting" /\ m.type # "cancel" /\ call[c].told = "nothing"
  BY <1>2 DEF ControlTypeOK, MessagesFit, CallsFit
<1>4. /\ reply \in {"changed", "unknown", "busy", "protocol", "start", "running"} \cup Outcomes
      /\ reply = "start" => m.type = "start"
      /\ reply \in {"start", "busy", "unknown"} => receipts[c] = "none" /\ ran.started[c] = 0
      /\ reply \in Outcomes => receipts[c] = reply
  <2>1. receipts[c] \in Outcomes \cup {"none", "running"}
    BY <1>2 DEF ControlTypeOK
  <2>2. /\ reply \in {"changed", "unknown", "busy", "protocol", "start", "running"} \cup Outcomes
        /\ reply = "start" => m.type = "start"
        /\ reply \in {"start", "busy", "unknown"} => receipts[c] = "none" /\ call[c].inst = instance
        /\ reply \in Outcomes => receipts[c] = reply
    BY <2>1 DEF Reply, Outcomes
  <2> QED
    BY <1>2, <2>2 DEF NoReceiptNoStart
<1> DEFINE r == Told(c, IF reply = "start" THEN "running" ELSE reply)
<1> HIDE DEF reply
<1>5. /\ r \in Call /\ r.inst = call[c].inst /\ r.kind = call[c].kind
      /\ r.pc \in {"ask", "resend", "done"}
      /\ m.live => (r.told # "nothing" <=> r.pc = "done")
      /\ m.live /\ r.told \in {"busy", "unconfirmed"} => reply \in {"busy", "unknown"}
      /\ m.live /\ r.told \in Outcomes => reply = r.told
  <2>1. CASE reply \in {"start", "running"}
    <3>1. r = [call[c] EXCEPT !.pc = "ask"]
      BY <2>1 DEF Told
    <3> QED
      BY <1>3, <3>1 DEF Call, Outcomes
  <2>2. CASE reply = "unknown"
    <3>1. r = [call[c] EXCEPT !.pc = "resend"]
          \/ r = [call[c] EXCEPT !.pc = "done", !.told = "unconfirmed"]
      BY <2>2 DEF Told
    <3> QED
      BY <1>3, <2>2, <3>1 DEF Call, Outcomes
  <2>3. CASE reply \in {"changed", "busy", "protocol"} \cup Outcomes
    <3>1. r = [call[c] EXCEPT !.pc = "done", !.told = reply]
      BY <2>3 DEF Told, Outcomes
    <3> QED
      BY <1>3, <2>3, <3>1 DEF Call, Outcomes
  <2> QED
    BY <1>4, <2>1, <2>2, <2>3
<1> HIDE DEF r
<1>6. UNCHANGED call \/ (m.live /\ call' = [call EXCEPT ![c] = r])
  BY <1>1 DEF r
<1>7. /\ call' \in [Callers -> Call]
      /\ \A d \in Callers : /\ call'[d].inst = call[d].inst /\ call'[d].kind = call[d].kind
                            /\ call'[d] = call[d] \/ (d = c /\ m.live /\ call'[d] = r)
                            /\ call[d].pc # "idle" => call'[d].pc # "idle"
  BY <1>2, <1>3, <1>5, <1>6
<1>8. /\ ran' \in [started: [Callers -> Nat], ended: [Callers -> SUBSET Outcomes], panic: BOOLEAN]
      /\ ran'.ended = ran.ended /\ ran'.panic = ran.panic
      /\ receipts' \in [Callers -> Outcomes \cup {"none", "running"}]
      /\ work' \in [Callers -> Outcomes \cup {"none", "running"}]
      /\ cancelled' \subseteq Callers
      /\ \A d \in Callers :
           \/ /\ d = c /\ reply = "start" /\ receipts'[d] = "running" /\ work'[d] = "running"
              /\ ran'.started[d] = 1
           \/ /\ receipts'[d] = receipts[d] /\ work'[d] = work[d]
              /\ ran'.started[d] = ran.started[d]
  <2>1. /\ ran \in [started: [Callers -> Nat], ended: [Callers -> SUBSET Outcomes], panic: BOOLEAN]
        /\ receipts \in [Callers -> Outcomes \cup {"none", "running"}]
        /\ work \in [Callers -> Outcomes \cup {"none", "running"}]
        /\ cancelled \subseteq Callers
    BY DEF ControlTypeOK
  <2>2. cancelled' \subseteq Callers
    BY <1>1, <1>2, <2>1 DEF Handle
  <2>3. CASE reply = "start"
    <3>1. /\ receipts' = [receipts EXCEPT ![c] = "running"]
          /\ work' = [work EXCEPT ![c] = "running"]
          /\ ran' = [ran EXCEPT !.started[c] = @ + 1]
      BY <1>1, <2>3 DEF Handle
    <3>2. ran.started[c] + 1 = 1 /\ ran.started \in [Callers -> Nat]
      BY <1>4, <2>1, <2>3
    <3> DEFINE s == [ran.started EXCEPT ![c] = @ + 1]
    <3>3. s \in [Callers -> Nat] /\ s[c] = 1 /\ \A d \in Callers \ {c} : s[d] = ran.started[d]
      BY <1>2, <3>2
    <3>4. ran' = [ran EXCEPT !.started = s]
      BY <3>1
    <3> HIDE DEF s
    <3>5. ran'.started = s /\ ran'.ended = ran.ended /\ ran'.panic = ran.panic
          /\ ran' \in [started: [Callers -> Nat], ended: [Callers -> SUBSET Outcomes], panic: BOOLEAN]
      BY <2>1, <3>3, <3>4
    <3> QED
      BY <1>2, <2>1, <2>2, <2>3, <3>1, <3>3, <3>5
  <2>4. CASE reply # "start"
    <3>1. UNCHANGED <<receipts, work, ran>>
      BY <1>1, <2>4 DEF Handle
    <3> QED
      BY <2>1, <2>2, <3>1
  <2> QED
    BY <2>3, <2>4
<1>9. ControlTypeOK'
  BY <1>1, <1>7, <1>8, ShorterQueueFits DEF ControlTypeOK
<1>10. \A i \in DOMAIN queue' :
         /\ i + 1 \in DOMAIN queue /\ queue'[i] = queue[i + 1] /\ queue'[i].caller \in Callers
         /\ m.live /\ queue'[i].caller = c => queue'[i].type = "cancel"
  <2>1. \A i \in DOMAIN queue' :
          i + 1 \in DOMAIN queue /\ queue'[i] = queue[i + 1] /\ queue'[i].caller \in Callers
    BY <1>1, ShorterQueueFits
  <2>2. \A i \in DOMAIN queue' : i \in Nat /\ 1 < i + 1
    BY <1>1, ShorterQueueFits
  <2> QED
    BY <1>2, <2>1, <2>2 DEF LiveIsLast
<1>11. MessagesFit'
  BY <1>7, <1>10 DEF MessagesFit
<1>12. LiveIsLast'
  BY <1>1, ShorterQueueFits
<1>13. CallsFit'
  <2> SUFFICES ASSUME NEW d \in Callers
               PROVE  /\ call'[d].inst <= instance'
                      /\ call'[d].told # "nothing" <=> call'[d].pc = "done"
                      /\ call'[d].pc = "idle" => ran'.started[d] = 0 /\ receipts'[d] = "none"
    BY DEF CallsFit
  <2>1. call'[d].inst <= instance'
    BY <1>1, <1>7 DEF CallsFit
  <2>2. CASE call'[d] = call[d]
    <3>1. d # c \/ call[d].pc # "idle"
      BY <1>3
    <3> QED
      BY <1>8, <2>1, <2>2, <3>1 DEF CallsFit
  <2>3. CASE d = c /\ m.live /\ call'[d] = r
    BY <1>5, <2>1, <2>3
  <2> QED
    BY <1>7, <2>2, <2>3
<1>14. NoReceiptNoStart'
  <2> SUFFICES ASSUME NEW d \in Callers, receipts'[d] = "none", call'[d].inst = instance'
               PROVE  ran'.started[d] = 0
    BY DEF NoReceiptNoStart
  <2>1. call[d].inst = instance
    BY <1>1, <1>7
  <2>2. receipts[d] = "none" /\ ran'.started[d] = ran.started[d]
    BY <1>8
  <2> QED
    BY <2>1, <2>2 DEF NoReceiptNoStart
<1>15. RefusedIsOver'
  <2> SUFFICES ASSUME NEW d \in Callers, call'[d].told \in {"busy", "unconfirmed"}
               PROVE  /\ ran'.started[d] = 0
                      /\ \A i \in DOMAIN queue' : queue'[i].caller = d => queue'[i].type # "start"
    BY DEF RefusedIsOver
  <2>1. CASE call'[d] = call[d]
    <3>1. /\ ran.started[d] = 0
          /\ \A i \in DOMAIN queue : queue[i].caller = d => queue[i].type # "start"
      BY <2>1 DEF RefusedIsOver
    <3>2. ~(d = c /\ reply = "start")
      BY <1>2, <1>4, <3>1
    <3> QED
      BY <1>8, <1>10, <3>1, <3>2
  <2>2. CASE d = c /\ m.live /\ call'[d] = r
    <3>1. reply \in {"busy", "unknown"} /\ ran.started[d] = 0
      BY <1>4, <1>5, <2>2
    <3> QED
      BY <1>8, <1>10, <2>2, <3>1
  <2> QED
    BY <1>7, <2>1, <2>2
<1>16. WorkFits'
  <2> SUFFICES ASSUME NEW d \in Callers
               PROVE  /\ receipts'[d] = "none" <=> work'[d] = "none"
                      /\ receipts'[d] \in Outcomes => work'[d] = receipts'[d]
                      /\ work'[d] = "running" => ran'.ended[d] = {}
                      /\ work'[d] \in Outcomes => ran'.ended[d] = {work'[d]}
                      /\ ran'.started[d] = 0 => ran'.ended[d] = {}
                      /\ ran'.started[d] <= 1
                      /\ work'[d] # "none" => ran'.started[d] = 1
    BY DEF WorkFits
  <2>1. CASE d = c /\ reply = "start" /\ receipts'[d] = "running" /\ work'[d] = "running"
             /\ ran'.started[d] = 1
    <3>1. ran'.ended[d] = {} /\ "running" \notin Outcomes
      BY <1>2, <1>4, <1>8, <2>1 DEF WorkFits, Outcomes
    <3> QED
      BY <2>1, <3>1
  <2>2. CASE receipts'[d] = receipts[d] /\ work'[d] = work[d] /\ ran'.started[d] = ran.started[d]
    BY <1>8, <2>2 DEF WorkFits
  <2> QED
    BY <1>8, <2>1, <2>2
<1>17. CachedIsTrue'
  BY <1>1, <1>8 DEF CachedIsTrue
<1>18. ToldTheTruth'
  <2> SUFFICES ASSUME NEW d \in Callers, call'[d].told \in Outcomes
               PROVE  ran.ended[d] = {call'[d].told}
    BY <1>8 DEF ToldTheTruth
  <2>1. CASE call'[d] = call[d]
    BY <2>1 DEF ToldTheTruth
  <2>2. CASE d = c /\ m.live /\ call'[d] = r
    <3>1. receipts[d] \in Outcomes /\ receipts[d] = r.told
      BY <1>4, <1>5, <2>2
    <3> QED
      BY <2>2, <3>1 DEF WorkFits
  <2> QED
    BY <1>7, <2>1, <2>2
<1> QED
  BY <1>9, <1>11, <1>12, <1>13, <1>14, <1>15, <1>16, <1>17, <1>18
-----------------------------------------------------------------------------
\* What cannot happen in a step happens never.
THEOREM ControlCorrect == ControlSpec => []ControlInv
<1>1. ControlInit => ControlInv
  BY ControlInitially
<1>2. ControlInv /\ [ControlNext]_controlVars => ControlInv'
  <2> SUFFICES ASSUME ControlInv, [ControlNext]_controlVars PROVE ControlInv'
    OBVIOUS
  <2>1. CASE ControlNext
    BY <2>1, CallersKeepInv, ExchangeKeepsInv, CancelNativeKeepsInv, WorkKeepsInv,
       ServeKeepsInv, ServeDroppedKeepsInv, RestartKeepsInv DEF ControlNext
  <2>2. CASE UNCHANGED controlVars
    BY <2>2 DEF controlVars, ControlInv, ControlTypeOK, MessagesFit, LiveIsLast, CallsFit,
                NoReceiptNoStart, RefusedIsOver, WorkFits, CachedIsTrue, ToldTheTruth
  <2> QED
    BY <2>1, <2>2
<1> QED
  BY <1>1, <1>2, PTL DEF ControlSpec

\* Type correctness, for any number of callers, receipts and restarts.
THEOREM ControlTypeCorrect == ControlSpec => []ControlTypeOK
<1>1. ControlInv => ControlTypeOK
  BY DEF ControlInv
<1> QED
  BY <1>1, ControlCorrect, PTL

\* An operation is started at most once, however its requests and replies are lost,
\* repeated or overtaken by a restart, and never if its caller was refused; and an outcome
\* that a caller is told is the outcome of its operation.
THEOREM OperationsRunOnce == ControlSpec => []RunsOnceOrRefused
<1>1. ControlInv => RunsOnceOrRefused
  BY DEF ControlInv, RunsOnceOrRefused, WorkFits, RefusedIsOver
<1> QED
  BY <1>1, ControlCorrect, PTL

\* The cached status never shows a qualification that a failed operation has ended.
THEOREM StatusIsNotStale == ControlSpec => []StatusShowsNoLostTest
<1>1. ControlInv => StatusShowsNoLostTest
  BY DEF ControlInv, StatusShowsNoLostTest, CachedIsTrue
<1> QED
  BY <1>1, ControlCorrect, PTL
-----------------------------------------------------------------------------
(* One test turn on a page. *)

Said == {"true", "false", "limited", "bad", "gone", "E_SESSION_SCOPE", "E_BROWSER_BUSY"} \cup Refusals
Sight == [ambiguous : BOOLEAN, model : BOOLEAN, user : BOOLEAN,
          answer : {"none", "partial", "final", "failed"}, generating : BOOLEAN, control : BOOLEAN]
PipeCall == [id : Nat, step : Steps]
PipeReply == [id : Nat, says : Said, seen : Sight]

PageTyped ==
  /\ pc \in Steps \cup {"intend", "judge", "record", "done"}
  /\ wire \in Seq(PipeCall) /\ inbox \in Seq(PipeReply)
  /\ waiting \in Nat /\ lastId \in Nat
  /\ page \in Page /\ tracker \in TurnState /\ ledger \in TurnState /\ intent \in BOOLEAN
  /\ code \in {"none", "refused", "other"} /\ text \in {"none", "partial", "final"}

\* The prompt was not sent and no click is on its way.
NotSent == page.sent = 0 /\ \A i \in DOMAIN wire : wire[i].step # "click"

BeforeIntent == {"scope", "select", "baseline", "insert", "verify", "intend"}
AfterClick == {"observe", "rescope", "close", "record"}

\* The call that is waited for is the last one, and the one of this step.
PipeFits ==
  /\ waiting \in {0, lastId} /\ (waiting # 0 => pc \in Steps)
  /\ \A i \in DOMAIN wire : wire[i].id <= lastId /\ (waiting # 0 /\ wire[i].id = waiting => wire[i].step = pc)
  /\ \A i \in DOMAIN inbox : inbox[i].id <= lastId

\* One click, in the pipe or done, after the intent; the page that it is for stays as it
\* was until then; and a refusal that is believed is that of the page.
ClickFits ==
  /\ page.sent <= 1
  /\ \A i, j \in DOMAIN wire : wire[i].step = "click" /\ wire[j].step = "click" => i = j
  /\ \A i \in DOMAIN wire : wire[i].step = "click" => page.sent = 0
  /\ (pc \in BeforeIntent \cup {"ready"} \/ (pc = "click" /\ waiting = 0)) => NotSent
  /\ pc \in BeforeIntent => ~intent
  /\ pc \in {"ready", "click"} \cup AfterClick => intent
  /\ ~intent \/ code = "refused" => NotSent
  /\ pc \notin {"stop", "judge", "done"} => code = "none"
  /\ pc \in AfterClick => page.sent = 1

\* What the adapter may conclude from the reply to the call of this step.
Truthful(says, seen) ==
  /\ pc = "click" /\ says = "true" => page.sent = 1
  /\ pc = "click" /\ says \in Refusals => NotSent
  /\ pc \in {"observe", "rescope", "close"} => says \notin Refusals
  /\ pc = "observe" /\ says = "true" => seen.answer # "partial" \/ seen.generating

\* Until the program stops it, an answer that is not whole is still being generated.
AnswerFits ==
  /\ page.sent = 0 => page.answer = "none"
  /\ pc \notin {"stop", "judge", "done"} =>
       /\ page.answer = "partial" => page.generating
       /\ \A i \in DOMAIN wire : wire[i].step # "stop"
  /\ pc \in {"rescope", "close", "record"} => tracker = "Completed" /\ text = "final"
  /\ \A i \in DOMAIN inbox : waiting # 0 /\ inbox[i].id = waiting => Truthful(inbox[i].says, inbox[i].seen)

RecordFits ==
  /\ intent => ledger \notin {"Prepared", "ObservedBaseline"}
  /\ pc # "done" => ledger \notin {"Completed", "Failed"}

PageInv == PageTyped /\ PipeFits /\ ClickFits /\ AnswerFits /\ RecordFits /\ RecordIsTrue

LEMMA PageInitially == PageInit => PageInv
<1> SUFFICES ASSUME PageInit
             PROVE  PageInv
  OBVIOUS
<1>1. wire = << >> /\ inbox = << >> /\ DOMAIN wire = {} /\ DOMAIN inbox = {}
  BY DEF PageInit
<1>2. PageTyped
  <2>1. page \in Page
    BY DEF PageInit, Page
  <2>2. wire \in Seq(PipeCall) /\ inbox \in Seq(PipeReply)
    BY <1>1
  <2>3. pc \in Steps /\ tracker \in TurnState /\ ledger \in TurnState
    BY DEF PageInit, Steps, Reads, TurnState
  <2> QED
    BY <2>1, <2>2, <2>3 DEF PageInit, PageTyped
<1> QED
  BY <1>1, <1>2
     DEF PageInit, PageInv, PipeFits, ClickFits, AnswerFits, RecordFits, RecordIsTrue, NotSent,
         BeforeIntent, AfterClick, Steps, Reads

\* What remains of a list when its first element is taken.
LEMMA RestOf ==
  ASSUME NEW S, NEW s \in Seq(S), s # << >>
  PROVE  /\ Tail(s) \in Seq(S) /\ Head(s) \in S /\ 1 \in DOMAIN s /\ Head(s) = s[1]
         /\ \A i \in DOMAIN Tail(s) : i + 1 \in DOMAIN s /\ i \in Nat /\ i + 1 # 1 /\ Tail(s)[i] = s[i + 1]
<1>1. /\ Len(s) \in Nat \ {0} /\ DOMAIN s = 1..Len(s) /\ Head(s) = s[1]
  BY EmptySeq
<1>2. /\ Tail(s) \in Seq(S) /\ Head(s) \in S /\ Len(Tail(s)) = Len(s) - 1
      /\ \A i \in 1..Len(Tail(s)) : Tail(s)[i] = s[i + 1]
  BY HeadTailProperties
<1>3. DOMAIN Tail(s) = 1..Len(Tail(s))
  BY <1>2
<1> QED
  BY <1>1, <1>2, <1>3

LEMMA Appended ==
  ASSUME NEW S, NEW s \in Seq(S), NEW x \in S, NEW a, a = Append(s, x)
  PROVE  /\ a \in Seq(S)
         /\ \A i \in DOMAIN a : (i \in DOMAIN s /\ a[i] = s[i]) \/ (i = Len(s) + 1 /\ a[i] = x)
<1>1. /\ a \in Seq(S) /\ Len(a) = Len(s) + 1
      /\ \A i \in 1..Len(s) : a[i] = s[i]
      /\ a[Len(s) + 1] = x
  BY AppendProperties
<1>2. DOMAIN a = 1..(Len(s) + 1) /\ DOMAIN s = 1..Len(s) /\ Len(s) \in Nat
  BY <1>1
<1>3. ASSUME NEW i \in DOMAIN a
      PROVE  \/ i \in DOMAIN s /\ a[i] = s[i]
             \/ i = Len(s) + 1 /\ a[i] = x
  <2>1. i \in 1..Len(s) \/ i = Len(s) + 1
    BY <1>2
  <2> QED
    BY <1>1, <1>2, <2>1
<1> QED
  BY <1>1, <1>3

LEMMA Elements ==
  ASSUME NEW S, NEW s \in Seq(S)
  PROVE  \A i \in DOMAIN s : i \in Nat /\ s[i] \in S
<1>1. DOMAIN s = 1..Len(s) /\ Len(s) \in Nat
  OBVIOUS
<1> QED
  BY <1>1, ElementOfSeq

\* ManagedBrowser::call.
LEMMA IssueKeepsPage ==
  ASSUME PageInv, Issue
  PROVE  PageInv'
<1>1. /\ UNCHANGED <<pc, inbox, page, tracker, ledger, intent, code, text>>
      /\ pc \in Steps /\ waiting = 0 /\ lastId' = lastId + 1 /\ waiting' = lastId + 1
  BY DEF Issue
<1>2. wire \in Seq(PipeCall) /\ lastId \in Nat /\ inbox \in Seq(PipeReply)
  BY DEF PageInv, PageTyped
<1>3. PICK frame \in PipeCall : frame = [id |-> lastId + 1, step |-> pc]
  <2>1. lastId + 1 \in Nat
    BY <1>2
  <2>2. [id |-> lastId + 1, step |-> pc] \in PipeCall
    BY <1>1, <2>1 DEF PipeCall
  <2> QED
    BY <2>2
<1>4. frame.id = lastId + 1 /\ frame.step = pc
  BY <1>3
<1>5. wire' = Append(wire, frame)
  BY <1>1, <1>3 DEF Issue
<1>6. /\ wire' \in Seq(PipeCall)
      /\ \A i \in DOMAIN wire' : \/ i \in DOMAIN wire /\ wire'[i] = wire[i]
                                 \/ i = Len(wire) + 1 /\ wire'[i] = frame
  BY <1>2, <1>5, Appended
<1>7. PageTyped'
  BY <1>1, <1>2, <1>6 DEF PageInv, PageTyped
<1> DEFINE Calls == \A i \in DOMAIN wire : i \in Nat /\ wire[i] \in PipeCall
           Replies == \A i \in DOMAIN inbox : i \in Nat /\ inbox[i] \in PipeReply
<1>a. Calls /\ Replies
  BY <1>2, Elements
<1>8. PipeFits'
  <2>1. \A i \in DOMAIN wire : wire[i].id \in Nat /\ wire[i].id <= lastId
    BY <1>a DEF PageInv, PipeFits, PipeCall
  <2>2. \A i \in DOMAIN inbox : inbox[i].id \in Nat /\ inbox[i].id <= lastId
    BY <1>a DEF PageInv, PipeFits, PipeReply
  <2> QED
    BY <1>1, <1>2, <1>4, <1>6, <2>1, <2>2 DEF PipeFits
<1>9. pc = "click" => NotSent
  BY <1>1 DEF PageInv, ClickFits
<1>10. NotSent /\ pc # "click" => NotSent'
  BY <1>1, <1>4, <1>6 DEF NotSent
<1>11. ClickFits'
  <2>1. /\ page'.sent <= 1
        /\ \A i, j \in DOMAIN wire' : wire'[i].step = "click" /\ wire'[j].step = "click" => i = j
        /\ \A i \in DOMAIN wire' : wire'[i].step = "click" => page'.sent = 0
    BY <1>1, <1>4, <1>6, <1>9 DEF PageInv, ClickFits, NotSent
  <2>2. ~intent \/ code = "refused" => pc # "click"
    BY DEF PageInv, ClickFits
  <2>3. pc' \in BeforeIntent \cup {"ready"} => NotSent'
    BY <1>1, <1>10 DEF PageInv, ClickFits, BeforeIntent
  <2>4. pc' \in AfterClick => page'.sent = 1
    BY <1>1 DEF PageInv, ClickFits
  <2>5. ~intent' \/ code' = "refused" => NotSent'
    BY <1>1, <1>10, <2>2 DEF PageInv, ClickFits
  <2>6. waiting' # 0
    BY <1>1, <1>2
  <2> QED
    BY <1>1, <2>1, <2>3, <2>4, <2>5, <2>6 DEF PageInv, ClickFits
<1>12. AnswerFits'
  <2>1. \A i \in DOMAIN inbox : inbox[i].id # waiting'
    BY <1>1, <1>2, <1>a DEF PageInv, PipeFits, PipeReply
  <2> QED
    BY <1>1, <1>4, <1>6, <2>1 DEF PageInv, AnswerFits
<1>13. RecordFits' /\ RecordIsTrue'
  <2>1. pc # "done"
    BY <1>1 DEF Steps, Reads
  <2> QED
    BY <1>1, <2>1 DEF PageInv, RecordFits, RecordIsTrue
<1> QED
  BY <1>7, <1>8, <1>11, <1>12, <1>13 DEF PageInv

\* Nobody waits any more; the pipe and the page are as they were.
Took == /\ waiting' = 0 /\ UNCHANGED <<wire, lastId, page>>
        /\ inbox' \in Seq(PipeReply) /\ \A i \in DOMAIN inbox' : inbox'[i].id <= lastId

LEMMA TookKeepsPipe ==
  ASSUME PageInv, Took
  PROVE  PipeFits' /\ (NotSent' <=> NotSent) /\ wire' \in Seq(PipeCall) /\ page' \in Page /\ lastId' \in Nat
<1>1. waiting' = 0 /\ wire' = wire /\ lastId' = lastId /\ page' = page
  BY DEF Took
<1> QED
  BY <1>1 DEF Took, PageInv, PipeFits, PageTyped, NotSent

\* The turn is given up; a refusal of the page is kept as the reason only if nothing was sent.
LEMMA FailsKeepsPage ==
  ASSUME PageInv, Took, pc \in Steps \ {"stop"}, tracker' \in TurnState,
         NEW says, Fails(says), says \in Refusals => NotSent
  PROVE  PageInv'
<1>1. /\ UNCHANGED <<ledger, intent, text, wire, lastId, page>> /\ waiting' = 0
      /\ pc' \in {"judge", "stop"} /\ code' \in {"refused", "other"}
      /\ code' = "refused" => NotSent
  BY DEF Fails, Took
<1>2. PipeFits' /\ (NotSent' <=> NotSent) /\ wire' \in Seq(PipeCall) /\ page' \in Page /\ lastId' \in Nat
  BY TookKeepsPipe
<1>3. pc # "done"
  BY DEF Steps, Reads
<1>4. PageTyped'
  BY <1>1, <1>2 DEF Took, PageInv, PageTyped, Steps
<1>5. ClickFits'
  BY <1>1, <1>2 DEF PageInv, ClickFits, BeforeIntent, AfterClick
<1>6. AnswerFits'
  BY <1>1 DEF PageInv, AnswerFits
<1>7. RecordFits' /\ RecordIsTrue'
  BY <1>1, <1>3 DEF PageInv, RecordFits, RecordIsTrue
<1> QED
  BY <1>2, <1>4, <1>5, <1>6, <1>7 DEF PageInv

\* The step is repeated, or another one that asserts no more.
LEMMA StaysKeepsPage ==
  ASSUME PageInv, Took, pc \in {"ready", "observe"}, tracker' \in TurnState,
         UNCHANGED <<pc, ledger, intent, code, text>>
  PROVE  PageInv'
<1>1. UNCHANGED <<pc, ledger, intent, code, text, wire, lastId, page>> /\ waiting' = 0
  BY DEF Took
<1>2. PipeFits' /\ (NotSent' <=> NotSent) /\ wire' \in Seq(PipeCall) /\ page' \in Page /\ lastId' \in Nat
  BY TookKeepsPipe
<1>3. PageTyped'
  BY <1>1, <1>2 DEF Took, PageInv, PageTyped
<1>4. ClickFits'
  BY <1>1, <1>2 DEF PageInv, ClickFits
<1>5. AnswerFits'
  BY <1>1 DEF PageInv, AnswerFits
<1>6. RecordFits' /\ RecordIsTrue'
  BY <1>1 DEF PageInv, RecordFits, RecordIsTrue
<1> QED
  BY <1>2, <1>3, <1>4, <1>5, <1>6 DEF PageInv

\* The next step.
LEMMA GoesKeepsPage ==
  ASSUME PageInv, Took, pc \in Steps \ {"stop", "observe"}, Goes, pc = "click" => page.sent = 1
  PROVE  PageInv'
<1>1. /\ UNCHANGED <<ledger, intent, code, text, wire, lastId, page>> /\ waiting' = 0
      /\ pc' = Following[pc] /\ tracker' = IF pc = "baseline" THEN "ObservedBaseline" ELSE tracker
  BY DEF Goes, Took
<1>2. \/ pc \in BeforeIntent \ {"intend"} /\ pc' \in BeforeIntent \ {"scope"}
      \/ pc = "ready" /\ pc' = "click"
      \/ pc = "click" /\ pc' = "observe"
      \/ pc = "rescope" /\ pc' = "close"
      \/ pc = "close" /\ pc' = "record"
  <2>1. /\ Following["scope"] = "select" /\ Following["select"] = "baseline"
        /\ Following["baseline"] = "insert" /\ Following["insert"] = "verify"
        /\ Following["verify"] = "intend" /\ Following["ready"] = "click"
        /\ Following["click"] = "observe" /\ Following["rescope"] = "close"
        /\ Following["close"] = "record"
    BY DEF Following
  <2>2. pc \in {"scope", "select", "baseline", "insert", "verify", "ready", "click", "rescope", "close"}
    BY DEF Steps, Reads
  <2> QED
    BY <1>1, <2>1, <2>2 DEF BeforeIntent
<1>3. PipeFits' /\ (NotSent' <=> NotSent) /\ wire' \in Seq(PipeCall) /\ page' \in Page /\ lastId' \in Nat
  BY TookKeepsPipe
<1>4. PageTyped'
  <2>1. pc' \in Steps \cup {"intend", "judge", "record", "done"}
    BY <1>2 DEF BeforeIntent, Steps, Reads
  <2>2. tracker' \in TurnState
    BY <1>1 DEF PageInv, PageTyped, TurnState
  <2> QED
    BY <1>1, <1>3, <2>1, <2>2 DEF Took, PageInv, PageTyped
<1>5. ClickFits'
  <2>1. /\ (pc' \in BeforeIntent \cup {"ready", "click"}) => pc \in BeforeIntent \cup {"ready"}
        /\ pc' \in BeforeIntent => pc \in BeforeIntent
        /\ pc' \in {"ready", "click"} \cup AfterClick => pc \in {"ready", "click"} \cup AfterClick
        /\ pc' \in AfterClick => pc \in {"click"} \cup AfterClick
        /\ pc \notin {"stop", "judge", "done"}
    BY <1>2 DEF BeforeIntent, AfterClick
  <2>2. pc' \in AfterClick => page.sent = 1
    BY <2>1 DEF PageInv, ClickFits
  <2> QED
    BY <1>1, <1>3, <2>1, <2>2 DEF PageInv, ClickFits
<1>6. AnswerFits'
  <2>1. /\ pc \notin {"stop", "judge", "done"}
        /\ pc' \in {"rescope", "close", "record"} => pc \in {"rescope", "close"} /\ tracker' = tracker
    BY <1>1, <1>2 DEF BeforeIntent
  <2> QED
    BY <1>1, <2>1 DEF PageInv, AnswerFits
<1>7. RecordFits' /\ RecordIsTrue'
  <2>1. pc # "done" /\ pc' # "done"
    BY <1>2 DEF BeforeIntent
  <2> QED
    BY <1>1, <2>1 DEF PageInv, RecordFits, RecordIsTrue
<1> QED
  BY <1>3, <1>4, <1>5, <1>6, <1>7 DEF PageInv

\* TurnTracker::observe.
LEMMA ObserveKeepsPage ==
  ASSUME PageInv, Took, pc = "observe", NEW o \in Sight, Observe(o),
         o.answer # "partial" \/ o.generating
  PROVE  PageInv'
<1>1. CASE Fails("other") /\ tracker' \in {"SubmissionUncertain", "Failed"}
  BY <1>1, FailsKeepsPage DEF Steps, Reads, Refusals, TurnState
<1>2. CASE tracker' \in {tracker, "Submitted", "Generating"} /\ UNCHANGED <<pc, ledger, intent, code, text>>
  <2>1. tracker' \in TurnState
    BY <1>2 DEF PageInv, PageTyped, TurnState
  <2> QED
    BY <1>2, <2>1, StaysKeepsPage
<1>3. CASE /\ Answered(o) /\ tracker' = "Completed" /\ pc' = "rescope" /\ text' = o.answer
           /\ UNCHANGED <<ledger, intent, code>>
  <2>1. UNCHANGED <<ledger, intent, code, wire, lastId, page>> /\ waiting' = 0 /\ text' = "final"
    BY <1>3 DEF Took, Answered
  <2>2. PipeFits' /\ (NotSent' <=> NotSent) /\ wire' \in Seq(PipeCall) /\ page' \in Page /\ lastId' \in Nat
    BY TookKeepsPipe
  <2>3. PageTyped'
    BY <1>3, <2>1, <2>2 DEF Took, PageInv, PageTyped, Steps, Reads, TurnState
  <2>4. ClickFits'
    BY <1>3, <2>1, <2>2 DEF PageInv, ClickFits, BeforeIntent, AfterClick
  <2>5. AnswerFits'
    BY <1>3, <2>1 DEF PageInv, AnswerFits
  <2>6. RecordFits' /\ RecordIsTrue'
    BY <1>3, <2>1 DEF PageInv, RecordFits, RecordIsTrue
  <2> QED
    BY <2>2, <2>3, <2>4, <2>5, <2>6 DEF PageInv
<1> QED
  BY <1>1, <1>2, <1>3 DEF Observe

LEMMA ContinueKeepsPage ==
  ASSUME PageInv, Took, pc \in Steps, NEW says, NEW seen \in Sight,
         Continue(says, seen), Truthful(says, seen)
  PROVE  PageInv'
<1>1. tracker \in TurnState
  BY DEF PageInv, PageTyped
<1>2. CASE pc = "stop"
  <2>1. /\ UNCHANGED <<tracker, ledger, intent, code, text, wire, lastId, page>>
        /\ pc' = "judge" /\ waiting' = 0
    BY <1>2 DEF Continue, Took
  <2>2. PipeFits' /\ (NotSent' <=> NotSent) /\ wire' \in Seq(PipeCall) /\ page' \in Page /\ lastId' \in Nat
    BY TookKeepsPipe
  <2>3. PageTyped'
    BY <2>1, <2>2 DEF Took, PageInv, PageTyped
  <2>4. ClickFits' /\ AnswerFits'
    BY <1>2, <2>1, <2>2 DEF PageInv, ClickFits, AnswerFits, BeforeIntent, AfterClick
  <2>5. RecordFits' /\ RecordIsTrue'
    BY <1>2, <2>1 DEF PageInv, RecordFits, RecordIsTrue
  <2> QED
    BY <2>2, <2>3, <2>4, <2>5 DEF PageInv
<1>3. CASE pc = "observe" /\ says = "true"
  <2>1. Observe(seen)
    BY <1>3 DEF Continue
  <2> QED
    BY <1>3, <2>1, ObserveKeepsPage DEF Truthful
<1>4. CASE pc \notin {"observe", "stop"} /\ says = "true"
  <2>1. Goes
    BY <1>4 DEF Continue
  <2> QED
    BY <1>4, <2>1, GoesKeepsPage DEF Truthful
<1>5. ASSUME pc # "stop", Fails(says), UNCHANGED tracker
      PROVE  PageInv'
  <2>1. says \in Refusals => NotSent
    <3>1. pc \in BeforeIntent \cup {"ready"} => NotSent
      BY DEF PageInv, ClickFits
    <3>2. pc \in BeforeIntent \cup {"ready", "click", "observe", "rescope", "close"}
      BY <1>5 DEF Steps, Reads, BeforeIntent
    <3> QED
      BY <3>1, <3>2 DEF Truthful
  <2> QED
    BY <1>1, <1>5, <2>1, FailsKeepsPage
<1>6. CASE pc # "stop" /\ says # "true"
  <2>1. \/ Fails(says) /\ UNCHANGED tracker
        \/ pc = "ready" /\ UNCHANGED <<pc, tracker, ledger, intent, code, text>>
    BY <1>6 DEF Continue
  <2> QED
    BY <1>1, <1>5, <1>6, <2>1, StaysKeepsPage
<1> QED
  BY <1>2, <1>3, <1>4, <1>6

LEMMA TakeKeepsPage ==
  ASSUME PageInv, Take
  PROVE  PageInv'
<1>1. /\ UNCHANGED <<wire, lastId, page>> /\ waiting # 0 /\ inbox # << >> /\ inbox' = Tail(inbox)
  BY DEF Take
<1>2. inbox \in Seq(PipeReply) /\ waiting = lastId /\ pc \in Steps
  BY <1>1 DEF PageInv, PageTyped, PipeFits
<1>3. /\ inbox' \in Seq(PipeReply) /\ Head(inbox) \in PipeReply /\ 1 \in DOMAIN inbox /\ Head(inbox) = inbox[1]
      /\ \A i \in DOMAIN inbox' : i + 1 \in DOMAIN inbox /\ inbox'[i] = inbox[i + 1]
  BY <1>1, <1>2, RestOf
<1>4. PICK reply \in PipeReply : reply = Head(inbox)
  BY <1>3
<1>5. \A i \in DOMAIN inbox' : inbox'[i].id <= lastId
  BY <1>3 DEF PageInv, PipeFits
<1>6. CASE ~(reply.says # "bad" /\ reply.id # waiting)
  <2>1. waiting' = 0 /\ Continue(reply.says, reply.seen)
    BY <1>4, <1>6 DEF Take
  <2>2. Took
    BY <1>1, <1>3, <1>5, <2>1 DEF Took
  <2>3. Truthful(reply.says, reply.seen)
    <3>1. CASE reply.id = waiting
      BY <1>1, <1>3, <1>4, <3>1 DEF PageInv, AnswerFits
    <3>2. CASE reply.says = "bad"
      BY <3>2 DEF Truthful, Refusals
    <3> QED
      BY <1>6, <3>1, <3>2
  <2>4. reply.seen \in Sight
    BY DEF PipeReply
  <2> QED
    BY <1>2, <2>1, <2>2, <2>3, <2>4, ContinueKeepsPage
<1>7. CASE reply.says # "bad" /\ reply.id # waiting
  <2>1. UNCHANGED <<pc, waiting, tracker, ledger, intent, code, text>>
    BY <1>4, <1>7 DEF Take
  <2>2. PageTyped' /\ PipeFits'
    BY <1>1, <1>3, <1>5, <2>1 DEF PageInv, PageTyped, PipeFits
  <2>3. NotSent' <=> NotSent
    BY <1>1 DEF NotSent
  <2>4. ClickFits'
    BY <1>1, <2>1, <2>3 DEF PageInv, ClickFits
  <2>5. AnswerFits'
    <3>1. \A i \in DOMAIN inbox' : inbox'[i].id = waiting => Truthful(inbox'[i].says, inbox'[i].seen)
      BY <1>1, <1>3 DEF PageInv, AnswerFits
    <3> QED
      BY <1>1, <2>1, <2>3, <3>1 DEF PageInv, AnswerFits, Truthful
  <2>6. RecordFits' /\ RecordIsTrue'
    BY <1>1, <2>1 DEF PageInv, RecordFits, RecordIsTrue
  <2> QED
    BY <2>2, <2>4, <2>5, <2>6 DEF PageInv
<1> QED
  BY <1>6, <1>7

\* No reply in time.
LEMMA TimeOutKeepsPage ==
  ASSUME PageInv, TimeOut \/ GiveUp
  PROVE  PageInv'
<1>1. /\ UNCHANGED <<wire, inbox, lastId, page>> /\ waiting' = 0 /\ pc \in Steps
      /\ Continue("timeout", Nothing)
  BY DEF TimeOut, GiveUp, PageInv, PipeFits
<1>2. Took
  BY <1>1 DEF Took, PageInv, PageTyped, PipeFits
<1>3. Truthful("timeout", Nothing) /\ Nothing \in Sight
  BY DEF Truthful, Refusals, Nothing, Sight
<1> QED
  BY <1>1, <1>2, <1>3, ContinueKeepsPage

\* A step without a call: before_send, and what is recorded at the end.
LEMMA IntendKeepsPage ==
  ASSUME PageInv, Intend
  PROVE  PageInv'
<1>1. /\ UNCHANGED <<wire, inbox, waiting, lastId, page, text>> /\ pc = "intend" /\ waiting = 0
      /\ ledger \in TurnState /\ ~intent /\ NotSent
  BY DEF Intend, PageInv, PageTyped, PipeFits, ClickFits, BeforeIntent, Steps, Reads
<1>2. \/ /\ ledger' = "Submitting" /\ intent' = TRUE /\ tracker' = "Submitting" /\ pc' = "ready" /\ code' = code
      \/ /\ ledger' \in {ledger, "ObservedBaseline", "Submitting"} /\ code' = "other" /\ pc' = "stop"
         /\ UNCHANGED <<intent, tracker>>
  BY DEF Intend
<1>3. NotSent'
  BY <1>1 DEF NotSent
<1>4. PageTyped'
  BY <1>1, <1>2 DEF PageInv, PageTyped, Steps, Reads, TurnState
<1>5. PipeFits' /\ ClickFits'
  BY <1>1, <1>2, <1>3 DEF PageInv, PipeFits, ClickFits, BeforeIntent, AfterClick
<1>6. AnswerFits'
  BY <1>1, <1>2 DEF PageInv, AnswerFits
<1>7. RecordFits' /\ RecordIsTrue'
  BY <1>1, <1>2, <1>3 DEF PageInv, RecordFits, RecordIsTrue, NotSent
<1> QED
  BY <1>4, <1>5, <1>6, <1>7 DEF PageInv

LEMMA EndKeepsPage ==
  ASSUME PageInv, Judge \/ Record
  PROVE  PageInv'
<1>1. /\ UNCHANGED <<wire, inbox, waiting, lastId, page, tracker, intent, code, text>>
      /\ pc' = "done" /\ pc \in {"judge", "record"} /\ ledger \in TurnState /\ waiting = 0
  BY DEF Judge, Record, PageInv, PageTyped, PipeFits, Steps, Reads
<1>2. \/ ledger' = ledger
      \/ ledger' = "SubmissionUncertain"
      \/ ledger' = "Failed" /\ (text = "final" \/ NotSent)
      \/ ledger' \in {"Submitted", "Generating"}
      \/ ledger' = "Completed" /\ page.sent = 1 /\ text = "final" /\ tracker = "Completed"
  BY DEF Judge, Record, FailureState, PageInv, ClickFits, AnswerFits, AfterClick
<1>3. NotSent' <=> NotSent
  BY <1>1 DEF NotSent
<1>4. PageTyped'
  BY <1>1, <1>2 DEF PageInv, PageTyped, TurnState
<1>5. PipeFits' /\ ClickFits'
  BY <1>1, <1>3 DEF PageInv, PipeFits, ClickFits, BeforeIntent, AfterClick
<1>6. AnswerFits'
  BY <1>1 DEF PageInv, AnswerFits
<1>7. RecordFits' /\ RecordIsTrue'
  <2>1. ledger \notin {"Completed", "Failed"}
    BY <1>1 DEF PageInv, RecordFits
  <2> QED
    BY <1>1, <1>2, <2>1 DEF PageInv, RecordFits, RecordIsTrue, NotSent
<1> QED
  BY <1>4, <1>5, <1>6, <1>7 DEF PageInv

\* What the browser does with a call: only the click sends, and it sends exactly if the
\* script says so; only a stop ends the generation.
LEMMA CallEffects ==
  ASSUME page \in Page, page.sent <= 1, NEW step \in Steps, NEW q \in After(step)
  PROVE  /\ q \in Page /\ q.answer = page.answer
         /\ step # "click" => q.sent = page.sent
         /\ step = "click" => q.sent = page.sent + (IF SendReply = "true" THEN 1 ELSE 0)
         /\ step # "stop" /\ page.generating => q.generating
<1>1. CASE step = "click" /\ SendReply = "true"
  <2>1. page.sent + 1 \in 0..2
    BY DEF Page
  <2>2. \/ q = [page EXCEPT !.sent = page.sent + 1]
        \/ q = [page EXCEPT !.sent = page.sent + 1, !.composer = "empty", !.enabled = FALSE, !.generating = TRUE]
    BY <1>1 DEF After
  <2>3. CASE q = [page EXCEPT !.sent = page.sent + 1]
    <3>1. q \in Page /\ q.answer = page.answer /\ q.sent = page.sent + 1 /\ q.generating = page.generating
      BY <2>1, <2>3 DEF Page
    <3> QED
      BY <1>1, <3>1
  <2>4. CASE q = [page EXCEPT !.sent = page.sent + 1, !.composer = "empty", !.enabled = FALSE, !.generating = TRUE]
    <3>1. q \in Page /\ q.answer = page.answer /\ q.sent = page.sent + 1 /\ q.generating = TRUE
      BY <2>1, <2>4 DEF Page
    <3> QED
      BY <1>1, <3>1
  <2> QED
    BY <2>2, <2>3, <2>4
<1>2. CASE step = "click" /\ SendReply # "true"
  <2>1. q = page
    BY <1>2 DEF After
  <2> QED
    BY <1>2, <2>1 DEF Page
<1>3. CASE step = "select"
  <2>1. PICK m \in BOOLEAN : q = [page EXCEPT !.model = m]
    BY <1>3 DEF After
  <2> QED
    BY <1>3, <2>1 DEF Page
<1>4. CASE step = "insert"
  <2>1. q = page \/ q = [page EXCEPT !.composer = "prompt"]
    BY <1>4 DEF After
  <2> QED
    BY <1>4, <2>1 DEF Page
<1>5. CASE step = "stop"
  <2>1. q = [page EXCEPT !.generating = FALSE]
    BY <1>5 DEF After
  <2> QED
    BY <1>5, <2>1 DEF Page
<1>6. CASE step = "close"
  <2>1. q = [page EXCEPT !.open = FALSE]
    BY <1>6 DEF After
  <2> QED
    BY <1>6, <2>1 DEF Page
<1>7. CASE step \notin {"click", "select", "insert", "stop", "close"}
  <2>1. q = page
    BY <1>7 DEF After
  <2> QED
    BY <1>7, <2>1
<1> QED
  BY <1>1, <1>2, <1>3, <1>4, <1>5, <1>6, <1>7

\* What its reply may say.
LEMMA CallReplies ==
  ASSUME NEW step \in Steps
  PROVE  /\ Says(step) \in Said /\ SendReply \in Said
         /\ step = "click" => Says(step) = SendReply
         /\ step \in {"observe", "rescope", "close"} => Says(step) \notin Refusals
<1>1. SendReply \in Said
  BY DEF SendReply, Said, Refusals
<1> QED
  BY <1>1 DEF Says, Said, Refusals, Steps, Reads

\* The page does something by itself, and nothing that sends or ends an answer half-way.
LEMMA PageKeepsPage ==
  ASSUME PageInv, page' \in Page, page'.sent = page.sent,
         page.sent = 0 => page'.answer = "none",
         pc \notin {"stop", "judge", "done"} /\ page'.answer = "partial" => page'.generating,
         UNCHANGED <<pc, wire, inbox, waiting, lastId, tracker, ledger, intent, code, text>>
  PROVE  PageInv'
<1>1. NotSent' <=> NotSent
  BY DEF NotSent
<1> QED
  BY <1>1 DEF PageInv, PageTyped, PipeFits, ClickFits, AnswerFits, Truthful, RecordFits, RecordIsTrue

LEMMA MovesKeepPage ==
  ASSUME PageInv, PageMoves \/ PageDisturbed
  PROVE  PageInv'
<1>1. page \in Page /\ page.sent \in 0..2
      /\ UNCHANGED <<pc, wire, inbox, waiting, lastId, tracker, ledger, intent, code, text>>
  <2>1. page \in Page
    BY DEF PageInv, PageTyped
  <2>2. page.sent \in 0..2
    BY <2>1 DEF Page
  <2> QED
    BY <2>1, <2>2 DEF PageMoves, PageDisturbed
<1>2. /\ page.sent = 0 => page.answer = "none"
      /\ pc \notin {"stop", "judge", "done"} /\ page.answer = "partial" => page.generating
  BY DEF PageInv, AnswerFits
<1>3. CASE PageDisturbed
  <2> DEFINE Kept(p) == p \in Page /\ p.sent = page.sent /\ p.answer = page.answer
                        /\ p.generating = page.generating
  <2>a. Kept([page EXCEPT !.ours = FALSE]) /\ Kept([page EXCEPT !.model = FALSE])
    BY <1>1 DEF Page
  <2>b. Kept([page EXCEPT !.alien = TRUE]) /\ Kept([page EXCEPT !.composer = "other"])
    BY <1>1 DEF Page
  <2>c. Kept([page EXCEPT !.limited = TRUE]) /\ Kept([page EXCEPT !.surface = FALSE])
    BY <1>1 DEF Page
  <2>d. Kept([page EXCEPT !.open = FALSE])
    BY <1>1 DEF Page
  <2>1. Kept(page')
    <3> HIDE DEF Kept
    <3> QED
      BY <1>3, <2>a, <2>b, <2>c, <2>d DEF PageDisturbed
  <2> QED
    BY <1>1, <1>2, <2>1, PageKeepsPage
<1>4. CASE PageMoves
  <2> DEFINE Follows ==
        /\ page' \in Page /\ page'.sent = page.sent
        /\ \/ page'.answer = page.answer /\ (page.generating => page'.generating)
           \/ page.sent > 0 /\ page'.answer = "partial" /\ page'.generating
           \/ page.sent > 0 /\ page'.answer \in {"final", "failed"}
  <2>a. ASSUME page' = [page EXCEPT !.enabled = TRUE]
        PROVE  Follows
    BY <1>1, <2>a DEF Page
  <2>b. ASSUME page' = [page EXCEPT !.composer = "empty", !.enabled = FALSE, !.generating = TRUE]
        PROVE  Follows
    BY <1>1, <2>b DEF Page
  <2>c. ASSUME page.sent > 0 /\ page.generating /\ page' = [page EXCEPT !.answer = "partial", !.control = TRUE]
        PROVE  Follows
    BY <1>1, <2>c DEF Page
  <2>d. ASSUME page.sent > 0 /\ page' = [page EXCEPT !.answer = "final", !.control = TRUE, !.generating = FALSE]
        PROVE  Follows
    BY <1>1, <2>d DEF Page
  <2>e. ASSUME page.sent > 0 /\ page' = [page EXCEPT !.answer = "failed", !.generating = FALSE]
        PROVE  Follows
    BY <1>1, <2>e DEF Page
  <2>1. Follows
    BY <1>4, <2>a, <2>b, <2>c, <2>d, <2>e DEF PageMoves
  <2> QED
    BY <1>1, <1>2, <2>1, PageKeepsPage
<1> QED
  BY <1>3, <1>4

\* The browser runs the next call.
LEMMA RunsKeepPage ==
  ASSUME PageInv, BrowserRuns
  PROVE  PageInv'
<1>1. /\ UNCHANGED <<pc, waiting, lastId, tracker, ledger, intent, code, text>>
      /\ wire # << >> /\ wire' = Tail(wire)
  BY DEF BrowserRuns
<1>2. wire \in Seq(PipeCall) /\ inbox \in Seq(PipeReply) /\ page \in Page /\ page.sent <= 1
  BY DEF PageInv, PageTyped, ClickFits
<1>3. /\ wire' \in Seq(PipeCall) /\ Head(wire) \in PipeCall /\ 1 \in DOMAIN wire /\ Head(wire) = wire[1]
      /\ \A i \in DOMAIN wire' : i + 1 \in DOMAIN wire /\ i \in Nat /\ i + 1 # 1 /\ wire'[i] = wire[i + 1]
  BY <1>1, <1>2, RestOf
<1>4. PICK frame \in PipeCall : frame = Head(wire)
  BY <1>3
<1>5. /\ frame.step \in Steps /\ frame.id \in Nat /\ frame.id <= lastId
      /\ waiting # 0 /\ frame.id = waiting => frame.step = pc
      /\ frame.step = "click" => page.sent = 0 /\ \A i \in DOMAIN wire' : wire'[i].step # "click"
      /\ pc \notin {"stop", "judge", "done"} => frame.step # "stop"
  BY <1>3, <1>4 DEF PageInv, PipeFits, ClickFits, AnswerFits, PipeCall
<1>6. PICK says \in Said, seen \in Sight :
        /\ inbox' = Append(inbox, [id |-> frame.id, says |-> says, seen |-> seen])
        /\ page' \in Page /\ page'.answer = page.answer
        /\ frame.step # "click" => page'.sent = page.sent
        /\ frame.step = "click" => /\ says = "true" => page'.sent = 1
                                   /\ says \in Refusals => page'.sent = 0
                                   /\ page'.sent \in {0, 1}
        /\ frame.step # "stop" /\ page.generating => page'.generating
        /\ frame.step \in {"observe", "rescope", "close"} => says \notin Refusals
        /\ frame.step = "observe" /\ says = "true" =>
             seen.answer = page.answer /\ seen.generating = page.generating
  <2> DEFINE sight == IF frame.step = "observe" THEN Observation ELSE Nothing
             reply(says) == [id |-> frame.id, says |-> says, seen |-> sight]
  <2>1. sight \in Sight
    <3>1. Observation \in Sight
      BY <1>2 DEF Observation, Sight, Page
    <3>2. Nothing \in Sight
      BY DEF Nothing, Sight
    <3> QED
      BY <3>1, <3>2
  <2>2. frame.step = "observe" => sight.answer = page.answer /\ sight.generating = page.generating
    BY DEF Observation
  <2>3. PICK s \in Sight : s = sight
    BY <2>1
  <2>4. CASE ~page.open /\ UNCHANGED page /\ inbox' = Append(inbox, reply("gone"))
    <3>1. "gone" \in Said /\ "gone" \notin Refusals
      BY DEF Said, Refusals
    <3>2. page.sent \in {0, 1}
      BY <1>2 DEF Page
    <3> QED
      BY <1>2, <1>5, <2>3, <2>4, <3>1, <3>2
  <2>5. CASE /\ page' \in After(frame.step)
             /\ \E w \in {"bad", IF frame.step = "select"
                                  THEN IF page'.model THEN "true" ELSE "E_MODEL_SELECTION"
                                  ELSE Says(frame.step)} : inbox' = Append(inbox, reply(w))
    <3>1. PICK w \in {"bad", IF frame.step = "select"
                             THEN IF page'.model THEN "true" ELSE "E_MODEL_SELECTION"
                             ELSE Says(frame.step)} : inbox' = Append(inbox, reply(w))
      BY <2>5
    <3>2. /\ w \in Said
          /\ frame.step = "click" => w = "bad" \/ w = SendReply
          /\ frame.step \in {"observe", "rescope", "close"} => w \notin Refusals
      BY <1>5, CallReplies DEF Said, Refusals
    <3>3. /\ page' \in Page /\ page'.answer = page.answer
          /\ frame.step # "click" => page'.sent = page.sent
          /\ frame.step = "click" => page'.sent = IF SendReply = "true" THEN 1 ELSE 0
          /\ frame.step # "stop" /\ page.generating => page'.generating
      BY <1>2, <1>5, <2>5, CallEffects
    <3>4. "bad" \notin Refusals /\ "true" \notin Refusals
      BY DEF Refusals
    <3>5. inbox' = Append(inbox, [id |-> frame.id, says |-> w, seen |-> s])
      BY <2>3, <3>1
    <3> QED
      BY <2>2, <2>3, <3>2, <3>3, <3>4, <3>5
  <2> QED
    BY <1>4, <2>4, <2>5 DEF BrowserRuns
<1>7. PICK reply \in PipeReply : reply = [id |-> frame.id, says |-> says, seen |-> seen]
  BY <1>5 DEF PipeReply
<1>8. /\ inbox' \in Seq(PipeReply)
      /\ \A i \in DOMAIN inbox' : (i \in DOMAIN inbox /\ inbox'[i] = inbox[i]) \/ inbox'[i] = reply
  <2>1. inbox' = Append(inbox, reply)
    BY <1>6, <1>7
  <2> QED
    BY <1>2, <2>1, Appended
<1>9. PageTyped' /\ PipeFits'
  <2>1. PageTyped'
    BY <1>1, <1>3, <1>6, <1>8 DEF PageInv, PageTyped
  <2>2. \A i \in DOMAIN inbox' : inbox'[i].id <= lastId
    BY <1>5, <1>7, <1>8 DEF PageInv, PipeFits
  <2> QED
    BY <1>1, <1>3, <2>1, <2>2 DEF PageInv, PipeFits
<1>10. NotSent => NotSent' /\ frame.step # "click"
  BY <1>3, <1>4, <1>6 DEF NotSent
<1>11. page.sent = 1 => page'.sent = 1
  BY <1>5, <1>6
<1>12. ClickFits'
  <2>1. /\ page'.sent <= 1
        /\ \A i, j \in DOMAIN wire' : wire'[i].step = "click" /\ wire'[j].step = "click" => i = j
        /\ \A i \in DOMAIN wire' : wire'[i].step = "click" => page'.sent = 0
    <3>1. page'.sent <= 1
      BY <1>2, <1>6
    <3>2. \A i, j \in DOMAIN wire' : wire'[i].step = "click" /\ wire'[j].step = "click" => i = j
      BY <1>3 DEF PageInv, ClickFits
    <3>3. \A i \in DOMAIN wire' : wire'[i].step = "click" => page'.sent = 0
      BY <1>3, <1>5, <1>6 DEF PageInv, ClickFits
    <3> QED
      BY <3>1, <3>2, <3>3
  <2> QED
    BY <1>1, <1>10, <1>11, <2>1 DEF PageInv, ClickFits
<1>13. AnswerFits'
  <2>1. waiting # 0 /\ reply.id = waiting => Truthful(reply.says, reply.seen)'
    <3>1. ASSUME waiting # 0, reply.id = waiting
          PROVE  Truthful(reply.says, reply.seen)'
      <4>1. frame.step = pc /\ reply.says = says /\ reply.seen = seen
        BY <1>5, <1>7, <3>1
      <4>2. pc = "observe" => page.answer # "partial" \/ page.generating
        BY DEF PageInv, AnswerFits
      <4> QED
        BY <1>1, <1>5, <1>6, <4>1, <4>2 DEF Truthful, NotSent
    <3> QED
      BY <3>1
  <2>2. ASSUME NEW r \in PipeReply, Truthful(r.says, r.seen)
        PROVE  Truthful(r.says, r.seen)'
    BY <1>1, <1>10, <1>11, <2>2 DEF Truthful
  <2>3. (\A i \in DOMAIN inbox : waiting # 0 /\ inbox[i].id = waiting => Truthful(inbox[i].says, inbox[i].seen))'
    <3>1. SUFFICES ASSUME NEW i \in DOMAIN inbox', waiting # 0, inbox'[i].id = waiting
                   PROVE  (Truthful(inbox[i].says, inbox[i].seen))'
      BY <1>1
    <3>2. PICK r \in PipeReply : r = inbox'[i]
      BY <1>2, <1>8, Elements
    <3>3. CASE r = reply
      BY <2>1, <3>1, <3>2, <3>3 DEF Truthful
    <3>4. CASE i \in DOMAIN inbox /\ r = inbox[i]
      <4>1. Truthful(r.says, r.seen)
        BY <3>1, <3>2, <3>4 DEF PageInv, AnswerFits
      <4>2. Truthful(r.says, r.seen)'
        BY <2>2, <4>1
      <4> QED
        BY <3>2, <4>2 DEF Truthful
    <3> QED
      BY <1>8, <3>2, <3>3, <3>4
  <2>4. page'.sent = 0 => page'.answer = "none"
    BY <1>5, <1>6, <1>11, <1>2 DEF PageInv, AnswerFits, Page
  <2>5. pc \notin {"stop", "judge", "done"} =>
          /\ page'.answer = "partial" => page'.generating
          /\ \A i \in DOMAIN wire' : wire'[i].step # "stop"
    BY <1>3, <1>5, <1>6 DEF PageInv, AnswerFits
  <2> QED
    BY <1>1, <2>3, <2>4, <2>5 DEF PageInv, AnswerFits
<1>14. RecordFits' /\ RecordIsTrue'
  <2>1. ledger = "Failed" => text = "final" \/ NotSent
    BY DEF PageInv, RecordIsTrue, NotSent
  <2>2. page'.sent = 1 => intent
    BY <1>10, <1>12 DEF PageInv, ClickFits, NotSent
  <2> QED
    BY <1>1, <1>10, <1>11, <1>12, <2>1, <2>2 DEF PageInv, ClickFits, RecordFits, RecordIsTrue, NotSent
<1> QED
  BY <1>9, <1>12, <1>13, <1>14 DEF PageInv

LEMMA PageInductive == PageInv /\ [PageNext]_pageVars => PageInv'
<1> SUFFICES ASSUME PageInv, [PageNext]_pageVars
             PROVE  PageInv'
  OBVIOUS
<1>1. CASE UNCHANGED pageVars
  BY <1>1, PageKeepsPage DEF pageVars, PageInv, PageTyped, AnswerFits
<1>2. CASE PageNext
  BY <1>2, IssueKeepsPage, TakeKeepsPage, TimeOutKeepsPage, IntendKeepsPage, EndKeepsPage,
     RunsKeepPage, MovesKeepPage DEF PageNext, Adapter
<1> QED
  BY <1>1, <1>2

\* However many calls a test turn makes, time out and are answered late: Send is clicked
\* once at most, after its intent is on record, and what is recorded of the turn is known
\* (pipe.rs qualify_page_checked, qualification_failure_state).
THEOREM RecordsAreTrue == PageSpec => []RecordIsTrue
<1>1. PageInv => RecordIsTrue
  BY DEF PageInv
<1> QED
  BY <1>1, PageInitially, PageInductive, PTL DEF PageSpec
-----------------------------------------------------------------------------
(* The list of models. *)

Owned == {"none", "one", "all"}
ListOf == [account : Accounts \cup {"none"}, version : 0..MaxVersions, owned : Owned]
Codecs == {"cli", "unknown"}
TagOf ==
  {NoTag} \cup [by : {"service"}, list : ListOf]
  \cup [by : {"gateway"}, account : Accounts, codec : Codecs, generation : {1, 2}, list : ListOf]
ReaderOf == [codec : Codecs, account : Accounts, list : ListOf, tag : TagOf]
RequestOf == [stage : {"sent", "served", "refused"}, merged : BOOLEAN, account : Accounts,
              codec : Codecs, tag : TagOf, generation : {1, 2}, owned : Owned,
              answered : 0..MaxVersions, held : BOOLEAN, recovering : BOOLEAN, beside : BOOLEAN]
WebOf == [stage : {"recovering", "offered", "away", "closed", "signing in"},
          generation : {1, 2}, owned : Owned]

CatalogTyped ==
  /\ web \in WebOf /\ admitting \in BOOLEAN /\ maintaining \in BOOLEAN
  /\ natives \in [Accounts -> 0..MaxVersions]
  /\ reader \in ReaderOf /\ asking \in {NoRequest} \cup RequestOf

\* A tag of ours names the list that the client holds, a request carries the client's tag
\* or none, and a known client that asks during a recovery is sent on only by a maintenance.
TagsFit ==
  /\ reader.tag.by = "gateway" => reader.tag.list = reader.list
  /\ asking.stage = "sent" => asking.tag \in {NoTag, reader.tag}
  /\ asking.stage \in {"sent", "served"} /\ asking.recovering /\ asking.codec # "unknown" => asking.beside

CatalogInv == CatalogTyped /\ TagsFit /\ ListIsCurrent

LEMMA CatalogInitially == CatalogInit => CatalogInv
<1> SUFFICES ASSUME CatalogInit
             PROVE  CatalogInv
  OBVIOUS
<1>1. 0 \in 0..MaxVersions
  BY CatalogAssumption
<1>2. NoList \in ListOf /\ NoTag \in TagOf
  BY <1>1 DEF NoList, ListOf, Owned, TagOf
<1>3. CatalogTyped
  <2>1. web \in WebOf
    BY DEF CatalogInit, WebOf, Owned
  <2>2. natives \in [Accounts -> 0..MaxVersions]
    BY <1>1 DEF CatalogInit
  <2>3. PICK a \in Accounts, codec \in Codecs :
          reader = [codec |-> codec, account |-> a, list |-> NoList, tag |-> NoTag]
    BY DEF CatalogInit, Codecs
  <2>4. reader \in ReaderOf
    BY <1>2, <2>3 DEF ReaderOf
  <2> QED
    BY <2>1, <2>2, <2>4 DEF CatalogInit, CatalogTyped
<1>4. asking.stage = "none" /\ reader.tag.by = "nobody"
  <2>1. reader.tag = NoTag
    BY DEF CatalogInit
  <2> QED
    BY <2>1 DEF CatalogInit, NoRequest, NoTag
<1> QED
  BY <1>3, <1>4 DEF CatalogInv, TagsFit, ListIsCurrent, LosesModels

\* What happens to the provider and to the native lists changes no request and no client.
LEMMA ProviderKeepsLists ==
  ASSUME CatalogInv, UNCHANGED <<reader, asking>>,
         web' \in WebOf, admitting' \in BOOLEAN, maintaining' \in BOOLEAN,
         natives' \in [Accounts -> 0..MaxVersions]
  PROVE  CatalogInv'
  BY DEF CatalogInv, CatalogTyped, TagsFit, ListIsCurrent, LosesModels

LEMMA ProviderStep ==
  ASSUME CatalogInv,
         \/ Restore \/ Retry \/ Lose \/ Maintain \/ Refresh \/ OpenLogin \/ FinishLogin
         \/ EndMaintenance \/ StopAdmission \/ Disconnect
         \/ \E a \in Accounts : ListChanges(a)
  PROVE  CatalogInv'
<1>1. web \in WebOf /\ admitting \in BOOLEAN /\ maintaining \in BOOLEAN
      /\ natives \in [Accounts -> 0..MaxVersions]
  BY DEF CatalogInv, CatalogTyped
<1>2. CASE \/ Restore \/ Retry \/ Lose \/ Refresh \/ OpenLogin \/ FinishLogin \/ Disconnect
  <2>1. web' \in WebOf
    BY <1>1, <1>2 DEF WebOf, Owned, Restore, Retry, Lose, Refresh, OpenLogin, FinishLogin, Disconnect
  <2> QED
    BY <1>1, <1>2, <2>1, ProviderKeepsLists
       DEF gateway, Restore, Retry, Lose, Refresh, OpenLogin, FinishLogin, Disconnect
<1>3. CASE Maintain \/ EndMaintenance \/ StopAdmission
  BY <1>1, <1>3, ProviderKeepsLists DEF Maintain, EndMaintenance, StopAdmission
<1>4. ASSUME NEW a \in Accounts, ListChanges(a)
      PROVE  CatalogInv'
  <2>1. natives[a] + 1 \in 0..MaxVersions
    BY <1>1, <1>4, CatalogAssumption DEF ListChanges
  <2>2. natives' \in [Accounts -> 0..MaxVersions]
    BY <1>1, <1>4, <2>1 DEF ListChanges
  <2> QED
    BY <1>1, <1>4, <2>2, ProviderKeepsLists DEF ListChanges, gateway
<1> QED
  BY <1>2, <1>3, <1>4

LEMMA SwitchKeepsLists ==
  ASSUME CatalogInv, NEW a \in Accounts, SwitchAccount(a)
  PROVE  CatalogInv'
<1>1. UNCHANGED <<web, admitting, maintaining, natives, asking>> /\ reader \in ReaderOf
  BY DEF SwitchAccount, gateway, CatalogInv, CatalogTyped
<1>2. reader' \in ReaderOf /\ reader'.list = reader.list /\ reader'.tag = reader.tag
  BY <1>1 DEF SwitchAccount, ReaderOf
<1> QED
  BY <1>1, <1>2 DEF CatalogInv, CatalogTyped, TagsFit, ListIsCurrent, LosesModels

LEMMA AskKeepsLists ==
  ASSUME CatalogInv, AskForList
  PROVE  CatalogInv'
<1>1. UNCHANGED <<web, admitting, maintaining, natives, reader>>
  BY DEF AskForList, gateway
<1>2. PICK tag \in {NoTag, reader.tag} :
        asking' = IF Admitted /\ web.stage = "recovering"
                  THEN [Asked(tag, FALSE) EXCEPT !.stage = "refused"]
                  ELSE Asked(tag, Admitted /\ web.stage = "offered")
  BY DEF AskForList
<1>3. tag \in TagOf /\ reader \in ReaderOf /\ web \in WebOf /\ 0 \in 0..MaxVersions
      /\ admitting \in BOOLEAN /\ maintaining \in BOOLEAN
  BY CatalogAssumption DEF CatalogInv, CatalogTyped, ReaderOf, TagOf
<1>4. ASSUME NEW merged \in BOOLEAN
      PROVE  Asked(tag, merged) \in RequestOf
  BY <1>3 DEF Asked, RequestOf, ReaderOf, WebOf
<1>5. CASE Admitted /\ web.stage = "recovering"
  <2>1. asking' = [Asked(tag, FALSE) EXCEPT !.stage = "refused"]
    BY <1>2, <1>5
  <2>2. asking' \in RequestOf /\ asking'.stage = "refused"
    BY <1>4, <2>1 DEF RequestOf
  <2> QED
    BY <1>1, <2>2 DEF CatalogInv, CatalogTyped, TagsFit, ListIsCurrent, LosesModels
<1>6. CASE ~(Admitted /\ web.stage = "recovering")
  <2>1. PICK merged \in BOOLEAN : asking' = Asked(tag, merged)
    BY <1>2, <1>6
  <2>2. asking' \in RequestOf
    BY <1>4, <2>1
  <2>3. /\ asking'.stage = "sent" /\ asking'.tag = tag /\ asking'.codec = reader.codec
        /\ asking'.recovering <=> admitting /\ web.stage = "recovering"
        /\ asking'.beside = maintaining
    BY <2>1 DEF Asked
  <2>4. asking'.recovering /\ asking'.codec # "unknown" => asking'.beside
    BY <1>6, <2>3 DEF Admitted, Reviewed
  <2> QED
    BY <1>1, <2>2, <2>3, <2>4 DEF CatalogInv, CatalogTyped, TagsFit, ListIsCurrent, LosesModels
<1> QED
  BY <1>5, <1>6

\* An answer of the gateway: the client that is told to keep its list has this one.
LEMMA MergedKeepsLists ==
  ASSUME CatalogInv, AnswerMerged
  PROVE  CatalogInv'
<1>1. UNCHANGED <<web, admitting, maintaining, natives>> /\ asking.stage = "sent" /\ asking.merged
  BY DEF AnswerMerged, gateway
<1>2. asking \in RequestOf /\ reader \in ReaderOf
  BY <1>1 DEF CatalogInv, CatalogTyped, NoRequest
<1>3. PICK version \in 0..MaxVersions : version = natives[asking.account]
  BY <1>2 DEF CatalogInv, CatalogTyped, RequestOf
<1>4. PICK list \in ListOf : list = Merge(asking.account, version, asking.owned)
  BY <1>2 DEF Merge, ListOf, RequestOf
<1>5. PICK tag \in TagOf : tag = Tag(asking, list)
  BY <1>2 DEF Tag, TagOf, RequestOf
<1>6. tag.by = "gateway" /\ tag.list = list /\ tag # NoTag
  BY <1>5 DEF Tag, NoTag
<1>7. /\ reader' = IF asking.tag = tag THEN reader ELSE [reader EXCEPT !.list = list, !.tag = tag]
      /\ asking' = [asking EXCEPT !.stage = "served", !.answered = version]
  BY <1>3, <1>4, <1>5 DEF AnswerMerged
<1>8. /\ reader' \in ReaderOf /\ reader'.list = list
      /\ reader'.tag.by = "gateway" => reader'.tag.list = list
  <2>1. CASE asking.tag = tag
    BY <1>1, <1>2, <1>6, <1>7, <2>1 DEF CatalogInv, TagsFit
  <2>2. CASE asking.tag # tag
    BY <1>2, <1>6, <1>7, <2>2 DEF ReaderOf
  <2> QED
    BY <2>1, <2>2
<1>9. /\ asking' \in RequestOf /\ asking'.stage = "served" /\ asking'.answered = version
      /\ asking'.account = asking.account /\ asking'.owned = asking.owned
      /\ asking'.recovering = asking.recovering /\ asking'.codec = asking.codec
      /\ asking'.beside = asking.beside
  BY <1>2, <1>7 DEF RequestOf
<1> QED
  BY <1>1, <1>4, <1>8, <1>9 DEF CatalogInv, CatalogTyped, TagsFit, ListIsCurrent, LosesModels

LEMMA NativeKeepsLists ==
  ASSUME CatalogInv, AnswerNative
  PROVE  CatalogInv'
<1>1. UNCHANGED <<web, admitting, maintaining, natives>> /\ asking.stage = "sent" /\ ~asking.merged
  BY DEF AnswerNative, gateway
<1>2. asking \in RequestOf /\ reader \in ReaderOf
  BY <1>1 DEF CatalogInv, CatalogTyped, NoRequest
<1>3. PICK version \in 0..MaxVersions : version = natives[asking.account]
  BY <1>2 DEF CatalogInv, CatalogTyped, RequestOf
<1>4. PICK list \in ListOf : list = Merge(asking.account, version, "none")
  BY <1>2 DEF Merge, ListOf, RequestOf, Owned
<1>5. PICK tag \in TagOf : tag = NativeTag(list)
  BY DEF NativeTag, TagOf
<1>6. tag.by = "service"
  BY <1>5 DEF NativeTag
<1>7. /\ reader' = IF asking.tag = tag THEN reader ELSE [reader EXCEPT !.list = list, !.tag = tag]
      /\ asking' = [asking EXCEPT !.stage = "served", !.answered = version]
  BY <1>3, <1>4, <1>5 DEF AnswerNative
<1>8. reader' \in ReaderOf /\ (reader'.tag.by = "gateway" => reader'.tag.list = reader'.list)
  <2>1. CASE asking.tag = tag
    BY <1>2, <1>7, <2>1 DEF CatalogInv, TagsFit
  <2>2. CASE asking.tag # tag
    BY <1>2, <1>6, <1>7, <2>2 DEF ReaderOf
  <2> QED
    BY <2>1, <2>2
<1>9. /\ asking' \in RequestOf /\ asking'.stage = "served" /\ ~asking'.merged
      /\ asking'.recovering = asking.recovering /\ asking'.codec = asking.codec
      /\ asking'.beside = asking.beside
  BY <1>1, <1>2, <1>7 DEF RequestOf
<1> QED
  BY <1>1, <1>8, <1>9 DEF CatalogInv, CatalogTyped, TagsFit, ListIsCurrent, LosesModels

LEMMA FailureKeepsLists ==
  ASSUME CatalogInv, AnswerFails
  PROVE  CatalogInv'
<1>1. UNCHANGED <<web, admitting, maintaining, natives, reader>> /\ asking.stage = "sent"
  BY DEF AnswerFails, gateway
<1>2. asking' \in RequestOf /\ asking'.stage = "refused"
  BY <1>1 DEF AnswerFails, CatalogInv, CatalogTyped, NoRequest, RequestOf
<1> QED
  BY <1>1, <1>2 DEF CatalogInv, CatalogTyped, TagsFit, ListIsCurrent, LosesModels

LEMMA CatalogInductive == CatalogInv /\ [CatalogNext]_catalogVars => CatalogInv'
<1> SUFFICES ASSUME CatalogInv, [CatalogNext]_catalogVars
             PROVE  CatalogInv'
  OBVIOUS
<1>1. CASE UNCHANGED catalogVars
  BY <1>1 DEF catalogVars, gateway, CatalogInv, CatalogTyped, TagsFit, ListIsCurrent, LosesModels
<1>2. CASE CatalogNext
  BY <1>2, ProviderStep, SwitchKeepsLists, AskKeepsLists, MergedKeepsLists, NativeKeepsLists,
     FailureKeepsLists DEF CatalogNext
<1> QED
  BY <1>1, <1>2

\* The list that a client ends with is the one it was told of, and a client that asks while
\* the provider recovers loses our models only beside a maintenance: for any accounts,
\* however the lists, the provider and the account change while a request is under way
\* (gateway.rs handle, catalog_proxy.rs forward).
THEOREM ListsAreCurrent == CatalogSpec => []ListIsCurrent
<1>1. CatalogInv => ListIsCurrent
  BY DEF CatalogInv
<1> QED
  BY <1>1, CatalogInitially, CatalogInductive, PTL DEF CatalogSpec
=============================================================================
