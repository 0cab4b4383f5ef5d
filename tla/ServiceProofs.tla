---------------------------- MODULE ServiceProofs ----------------------------
(***************************************************************************)
(* What a client's socket guarantees, for any statuses, settings and       *)
(* bounds, and what the health report does, for any clients, failures and  *)
(* bounds.                                                                 *)
(***************************************************************************)
EXTENDS ClientSocket, Health, SequenceTheorems, FiniteSetTheorems, TLAPS

-----------------------------------------------------------------------------
(* The client's socket (ClientSocket).                                     *)

Events == {"created", "output", "completed", "failed"} \cup Statuses
Stages == {"idle", "running", "answered", "failed"}
TurnType == [number : 0..MaxFrames, stage : Stages, page : Nat,
             summary : Seq(Statuses), sent : Nat]
UpstreamType == [alive : BOOLEAN, waiting : Seq(Numbers)]

SocketTyped ==
  /\ frames \in Seq(FrameType) /\ Len(frames) <= MaxFrames
  /\ inbox \in Seq(Numbers)
  /\ socket \in {"relay", "owned", "closed"}
  /\ upstream \in UpstreamType
  /\ pending \in Nat /\ base \in 0..MaxFrames
  /\ turn \in TurnType
  /\ progress \in Seq(Seq(Events)) /\ published \in Seq(Events)
  /\ response \in [Numbers -> Seq(Events)] /\ shown \in [Numbers -> Seq(Events)]
  /\ told # "revision"

\* The frames that the relay has taken out of the inbox.
Taken == Len(frames) - Len(inbox)
OnTurn == turn.stage # "idle"

\* A frame refers to an earlier one, and what is still in the inbox are the last ones.
FramesFit ==
  /\ \A n \in DOMAIN frames : frames[n].previous < n
  /\ Len(inbox) <= Len(frames)
  /\ \A i \in DOMAIN inbox : inbox[i] = Taken + i
  /\ \A n \in Numbers : n > Taken => shown[n] = <<>> /\ response[n] = <<>>

\* While a frame is served it is the last one taken and the native side has nothing to do.
ServingFits ==
  /\ OnTurn <=> socket = "owned"
  /\ OnTurn => /\ turn.number = Taken /\ Taken \in Numbers
                /\ frames[turn.number].kind \in Owned
                /\ pending = 0
  /\ pending = Len(upstream.waiting)

\* What the native service has to answer: each frame once, none that builds on ours, and
\* only of the first has the client seen anything.
WaitingFits ==
  \A i \in DOMAIN upstream.waiting :
    LET n == upstream.waiting[i] IN
    /\ n <= Taken /\ frames[n].kind = "native"
    /\ frames[n].previous # 0 => frames[frames[n].previous].kind \notin Owned
    /\ i > 1 => shown[n] = <<>>
    /\ \A j \in DOMAIN upstream.waiting : upstream.waiting[j] = n => j = i

\* A response of which the client has a part is the one being given.
ShownFits ==
  socket # "closed" =>
    \A n \in Numbers :
      \/ shown[n] = <<>> \/ Whole(shown[n])
      \/ OnTurn /\ n = turn.number
      \/ Len(upstream.waiting) > 0 /\ n = upstream.waiting[1]

\* The batches `parts` are `events` from the position `from` on, cut at `at`.
Cut(parts, from, events) ==
  \E at \in [1..(Len(parts) + 1) -> 0..Len(events)] :
    /\ at[1] = from /\ at[Len(parts) + 1] = Len(events)
    /\ \A i \in 1..Len(parts) :
         /\ at[i + 1] = at[i] + Len(parts[i])
         /\ \A j \in 1..Len(parts[i]) : parts[i][j] = events[at[i] + j]

\* Channel and published events make up the summary, which the answer begins with.
TurnFits ==
  OnTurn =>
    /\ shown[turn.number] = published
    /\ turn.sent = Len(Prefix(turn.summary))
    /\ Cut(progress, Len(published), Prefix(turn.summary))
    /\ IsPrefix(published, Prefix(turn.summary))
    /\ IF turn.stage = "answered"
       THEN IsPrefix(Prefix(turn.summary), response[turn.number]) /\ Whole(response[turn.number])
       ELSE response[turn.number] = <<>>
    /\ LET frame == frames[turn.number] IN
       frame.previous # 0 => base = frame.previous /\ frames[base].settings = frame.settings

\* The response that the next frame may build on is the last one, and the client has it.
BaseFits ==
  base # 0 =>
    /\ socket # "closed" => base = IF OnTurn THEN Taken - 1 ELSE Taken
    /\ base <= Len(frames) /\ frames[base].kind \in {"generate", "warmup"}
    /\ shown[base] = response[base] /\ response[base] # <<>> /\ Last(response[base]) = "completed"

ResponsesFit ==
  \A n \in Numbers : response[n] # <<>> =>
    n <= Len(frames) /\ frames[n].kind \in Owned /\ IsPrefix(shown[n], response[n])

SocketInv ==
  /\ SocketTyped /\ FramesFit /\ ServingFits /\ WaitingFits /\ ShownFits /\ TurnFits
  /\ BaseFits /\ ResponsesFit

LEMMA PrefixPointwise ==
  ASSUME NEW S, NEW s \in Seq(S), NEW t \in Seq(S)
  PROVE  IsPrefix(s, t) <=> Len(s) <= Len(t) /\ \A i \in 1..Len(s) : s[i] = t[i]
<1>1. ASSUME IsPrefix(s, t)
      PROVE  Len(s) <= Len(t) /\ \A i \in 1..Len(s) : s[i] = t[i]
  <2>1. Len(s) <= Len(t) /\ SubSeq(s, 1, Len(s)) = SubSeq(t, 1, Len(s))
    BY <1>1 DEF IsPrefix
  <2>2. \A i \in 1..Len(s) : SubSeq(s, 1, Len(s))[i] = s[i] /\ SubSeq(t, 1, Len(s))[i] = t[i]
    BY <2>1
  <2> QED
    BY <2>1, <2>2
<1>2. ASSUME Len(s) <= Len(t), \A i \in 1..Len(s) : s[i] = t[i]
      PROVE  IsPrefix(s, t)
  <2>1. SubSeq(s, 1, Len(s)) = SubSeq(t, 1, Len(s))
    <3>1. SubSeq(s, 1, Len(s)) \in Seq(S) /\ SubSeq(t, 1, Len(s)) \in Seq(S)
      BY <1>2
    <3>2. Len(SubSeq(s, 1, Len(s))) = Len(s) /\ Len(SubSeq(t, 1, Len(s))) = Len(s)
      BY <1>2
    <3>3. \A i \in 1..Len(s) : SubSeq(s, 1, Len(s))[i] = SubSeq(t, 1, Len(s))[i]
      BY <1>2
    <3> QED
      BY <3>1, <3>2, <3>3, SeqEqual
  <2> QED
    BY <2>1, <1>2 DEF IsPrefix
<1> QED
  BY <1>1, <1>2

LEMMA PrefixTransitive ==
  ASSUME NEW S, NEW s \in Seq(S), NEW t \in Seq(S), NEW u \in Seq(S), IsPrefix(s, t), IsPrefix(t, u)
  PROVE  IsPrefix(s, u)
<1>1. Len(s) <= Len(t) /\ \A i \in 1..Len(s) : s[i] = t[i]
  BY PrefixPointwise
<1>2. Len(t) <= Len(u) /\ \A i \in 1..Len(t) : t[i] = u[i]
  BY PrefixPointwise
<1>3. Len(s) <= Len(u) /\ \A i \in 1..Len(s) : s[i] = u[i]
  BY <1>1, <1>2
<1> QED
  BY <1>3, PrefixPointwise

\* A concatenation, element by element.
LEMMA ConcatPointwise ==
  ASSUME NEW S, NEW s \in Seq(S), NEW t \in Seq(S)
  PROVE  /\ s \o t \in Seq(S) /\ Len(s \o t) = Len(s) + Len(t)
         /\ \A i \in 1..Len(s) : (s \o t)[i] = s[i]
         /\ \A i \in 1..Len(t) : (s \o t)[Len(s) + i] = t[i]
  OBVIOUS

\* What a response begins with.
LEMMA PublicSummary ==
  ASSUME NEW summary \in Seq(Statuses)
  PROVE  /\ Prefix(summary) \in Seq(Events)
         /\ summary = <<>> => Len(Prefix(summary)) = 0
         /\ summary # <<>> => /\ Len(Prefix(summary)) = Len(summary) + 1
                              /\ Prefix(summary)[1] = "created"
                              /\ \A i \in 1..Len(summary) : Prefix(summary)[1 + i] = summary[i]
<1> DEFINE first == <<"created">>
<1>1. first \in Seq(Events) /\ Len(first) = 1 /\ first[1] = "created"
  BY DEF Events
<1>2. summary \in Seq(Events)
  BY DEF Events
<1>3. CASE summary = <<>>
  BY <1>3 DEF Prefix
<1>4. CASE summary # <<>>
  <2>1. Prefix(summary) = first \o summary
    BY <1>4 DEF Prefix
  <2> HIDE DEF first
  <2>2. /\ first \o summary \in Seq(Events) /\ Len(first \o summary) = Len(first) + Len(summary)
        /\ \A i \in 1..Len(first) : (first \o summary)[i] = first[i]
        /\ \A i \in 1..Len(summary) : (first \o summary)[Len(first) + i] = summary[i]
    BY <1>1, <1>2, ConcatPointwise
  <2> QED
    BY <1>1, <1>4, <2>1, <2>2
<1> QED
  BY <1>3, <1>4

\* Observing more of the page only adds to it.
LEMMA SummaryGrows ==
  ASSUME NEW summary \in Seq(Statuses), NEW more \in Grown(summary)
  PROVE  /\ more \in Seq(Statuses)
         /\ IsPrefix(Prefix(summary), Prefix(more))
<1>1. PICK texts \in SeqOf(Statuses, 2) : more = summary \o texts
  BY DEF Grown
<1>2. texts \in Seq(Statuses)
  <2>1. PICK m \in 0..2 : texts \in [1..m -> Statuses]
    BY <1>1 DEF SeqOf
  <2>2. m \in Nat
    BY <2>1
  <2> QED
    BY <2>1, <2>2, SeqDef
<1>3. /\ more \in Seq(Statuses) /\ Len(more) = Len(summary) + Len(texts)
      /\ \A i \in 1..Len(summary) : more[i] = summary[i]
  BY <1>1, <1>2, ConcatPointwise
<1>4. Prefix(summary) \in Seq(Events) /\ Prefix(more) \in Seq(Events)
  BY <1>3, PublicSummary
<1>5. CASE summary = <<>>
  <2>1. Len(Prefix(summary)) = 0
    BY <1>5, PublicSummary
  <2>2. /\ Len(Prefix(summary)) <= Len(Prefix(more))
        /\ \A i \in 1..Len(Prefix(summary)) : Prefix(summary)[i] = Prefix(more)[i]
    BY <1>4, <2>1
  <2>3. IsPrefix(Prefix(summary), Prefix(more))
    BY <1>4, <2>2, PrefixPointwise
  <2> QED
    BY <1>3, <2>3
<1>6. CASE summary # <<>>
  <2>1. more # <<>> /\ Len(summary) \in Nat /\ Len(texts) \in Nat
    BY <1>2, <1>3, <1>6, EmptySeq
  <2>2. /\ Len(Prefix(summary)) = Len(summary) + 1 /\ Prefix(summary)[1] = "created"
        /\ \A i \in 1..Len(summary) : Prefix(summary)[1 + i] = summary[i]
    BY <1>6, PublicSummary
  <2>3. /\ Len(Prefix(more)) = Len(more) + 1 /\ Prefix(more)[1] = "created"
        /\ \A i \in 1..Len(more) : Prefix(more)[1 + i] = more[i]
    BY <2>1, <1>3, PublicSummary
  <2>4. \A i \in 1..Len(Prefix(summary)) : Prefix(summary)[i] = Prefix(more)[i]
    <3> TAKE i \in 1..Len(Prefix(summary))
    <3>1. CASE i = 1
      BY <3>1, <2>2, <2>3
    <3>2. CASE i # 1
      <4>1. i - 1 \in 1..Len(summary) /\ i - 1 \in 1..Len(more) /\ 1 + (i - 1) = i
        BY <3>2, <2>1, <2>2, <1>3
      <4> QED
        BY <4>1, <2>2, <2>3, <1>3
    <3> QED
      BY <3>1, <3>2
  <2>5. Len(Prefix(summary)) <= Len(Prefix(more))
    BY <2>1, <2>2, <2>3, <1>3
  <2>6. IsPrefix(Prefix(summary), Prefix(more))
    BY <1>4, <2>4, <2>5, PrefixPointwise
  <2> QED
    BY <1>3, <2>6
<1> QED
  BY <1>3, <1>5, <1>6

LEMMA ConcatEnds ==
  ASSUME NEW S, NEW s \in Seq(S), NEW t \in Seq(S), Len(t) > 0
  PROVE  /\ s \o t \in Seq(S) /\ s \o t # <<>> /\ Last(s \o t) = t[Len(t)]
         /\ IsPrefix(s, s \o t)
<1>1. /\ s \o t \in Seq(S) /\ Len(s \o t) = Len(s) + Len(t)
      /\ \A i \in 1..Len(s) : (s \o t)[i] = s[i]
      /\ \A i \in 1..Len(t) : (s \o t)[Len(s) + i] = t[i]
  BY ConcatPointwise
<1>2. Len(s) \in Nat /\ Len(t) \in Nat
  OBVIOUS
<1>3. s \o t # <<>>
  BY <1>1, <1>2
<1>4. (s \o t)[Len(s \o t)] = t[Len(t)]
  BY <1>1, <1>2
<1>5. IsPrefix(s, s \o t)
  <2>1. Len(s) <= Len(s \o t) /\ \A i \in 1..Len(s) : s[i] = (s \o t)[i]
    BY <1>1, <1>2
  <2> QED
    BY <1>1, <2>1, PrefixPointwise
<1> QED
  BY <1>1, <1>3, <1>4, <1>5 DEF Last

\* A finished response begins with all that was or could have been published.
LEMMA CompleteBegins ==
  ASSUME NEW summary \in Seq(Statuses)
  PROVE  /\ Complete(summary) \in Seq(Events) /\ Complete(summary) # <<>>
         /\ Last(Complete(summary)) = "completed"
         /\ IsPrefix(Prefix(summary), Complete(summary))
<1>1. PICK head \in Seq(Events) : head = <<"created">> \o summary
  <2>1. <<"created">> \in Seq(Events) /\ summary \in Seq(Events)
    BY DEF Events
  <2> QED
    BY <2>1, ConcatPointwise
<1>2. PICK end \in Seq(Events) : end = <<"output", "completed">>
  <2>1. <<"output", "completed">> \in Seq(Events)
    BY DEF Events
  <2> QED
    BY <2>1
<1>3. Len(end) = 2 /\ end[2] = "completed"
  BY <1>2
<1>4. Complete(summary) = head \o end
  BY <1>1, <1>2 DEF Complete
<1>5. /\ head \o end \in Seq(Events) /\ head \o end # <<>> /\ Last(head \o end) = "completed"
      /\ IsPrefix(head, head \o end)
  BY <1>3, ConcatEnds
<1>6. CASE summary # <<>>
  BY <1>1, <1>4, <1>5, <1>6 DEF Prefix
<1>7. CASE summary = <<>>
  <2>1. Prefix(summary) \in Seq(Events) /\ Len(Prefix(summary)) = 0
    BY <1>7, PublicSummary
  <2>2. /\ Len(Prefix(summary)) <= Len(head \o end)
        /\ \A i \in 1..Len(Prefix(summary)) : Prefix(summary)[i] = (head \o end)[i]
    BY <2>1, <1>5
  <2>3. IsPrefix(Prefix(summary), head \o end)
    BY <2>1, <2>2, <1>5, PrefixPointwise
  <2> QED
    BY <1>4, <1>5, <2>3
<1> QED
  BY <1>6, <1>7

\* What of a sequence comes behind its first `k` elements.
LEMMA RestPointwise ==
  ASSUME NEW S, NEW s \in Seq(S), NEW k \in 0..Len(s)
  PROVE  /\ SubSeq(s, k + 1, Len(s)) \in Seq(S)
         /\ Len(SubSeq(s, k + 1, Len(s))) = Len(s) - k
         /\ \A j \in 1..(Len(s) - k) : SubSeq(s, k + 1, Len(s))[j] = s[k + j]
<1>1. Len(s) \in Nat /\ k + 1 \in Int /\ Len(s) \in Int
  OBVIOUS
<1>2. \A i \in (k + 1)..Len(s) : s[i] \in S
  BY <1>1
<1>3. /\ SubSeq(s, k + 1, Len(s)) \in Seq(S)
      /\ Len(SubSeq(s, k + 1, Len(s))) = IF k + 1 <= Len(s) THEN Len(s) - (k + 1) + 1 ELSE 0
      /\ \A i \in 1..(Len(s) - (k + 1) + 1) : SubSeq(s, k + 1, Len(s))[i] = s[(k + 1) + i - 1]
  BY <1>1, <1>2, SubSeqProperties
<1>4. \A j \in 1..(Len(s) - k) : j \in 1..(Len(s) - (k + 1) + 1) /\ (k + 1) + j - 1 = k + j
  BY <1>1
<1> QED
  BY <1>1, <1>3, <1>4

LEMMA CutEmpty == Cut(<<>>, 0, <<>>)
<1> DEFINE at == [i \in 1..1 |-> 0]
<1>1. Len(<<>>) = 0
  OBVIOUS
<1>2. at \in [1..1 -> 0..0] /\ at[1] = 0
  OBVIOUS
<1> HIDE DEF at
<1>3. at \in [1..(Len(<<>>) + 1) -> 0..Len(<<>>)] /\ at[Len(<<>>) + 1] = Len(<<>>)
  BY <1>1, <1>2
<1>4. \A i \in 1..Len(<<>>) : FALSE
  BY <1>1
<1> QED
  BY <1>2, <1>3, <1>4 DEF Cut

\* What is published next is what the summary has gained.
LEMMA CutGrows ==
  ASSUME NEW S, NEW parts \in Seq(Seq(S)), NEW from \in Nat, NEW events \in Seq(S),
         NEW more \in Seq(S), Cut(parts, from, events), IsPrefix(events, more)
  PROVE  Cut(Append(parts, SubSeq(more, Len(events) + 1, Len(more))), from, more)
<1>1. PICK at \in [1..(Len(parts) + 1) -> 0..Len(events)] :
        /\ at[1] = from /\ at[Len(parts) + 1] = Len(events)
        /\ \A i \in 1..Len(parts) :
             /\ at[i + 1] = at[i] + Len(parts[i])
             /\ \A j \in 1..Len(parts[i]) : parts[i][j] = events[at[i] + j]
  BY DEF Cut
<1>2. Len(events) <= Len(more) /\ \A i \in 1..Len(events) : events[i] = more[i]
  BY PrefixPointwise
<1>3. Len(parts) \in Nat /\ Len(events) \in Nat /\ Len(more) \in Nat
  OBVIOUS
<1>4. PICK last \in Seq(S) : last = SubSeq(more, Len(events) + 1, Len(more))
  <2>1. Len(events) \in 0..Len(more)
    BY <1>2, <1>3
  <2>2. SubSeq(more, Len(events) + 1, Len(more)) \in Seq(S)
    BY <2>1, RestPointwise
  <2> QED
    BY <2>2
<1>5. /\ Len(last) = Len(more) - Len(events)
      /\ \A j \in 1..Len(last) : last[j] = more[Len(events) + j]
  <2>1. Len(events) \in 0..Len(more)
    BY <1>2, <1>3
  <2>2. /\ Len(SubSeq(more, Len(events) + 1, Len(more))) = Len(more) - Len(events)
        /\ \A j \in 1..(Len(more) - Len(events)) :
             SubSeq(more, Len(events) + 1, Len(more))[j] = more[Len(events) + j]
    BY <2>1, RestPointwise
  <2> QED
    BY <2>2, <1>4
<1>6. PICK all \in Seq(Seq(S)) : all = Append(parts, last)
  BY AppendProperties
<1>7. /\ Len(all) = Len(parts) + 1 /\ all[Len(parts) + 1] = last
      /\ \A i \in 1..Len(parts) : all[i] = parts[i]
  BY <1>6, AppendProperties
<1>8. PICK to \in [1..(Len(all) + 1) -> 0..Len(more)] :
        /\ to[Len(all) + 1] = Len(more) /\ \A i \in 1..(Len(parts) + 1) : to[i] = at[i]
  <2> DEFINE to == [i \in 1..(Len(all) + 1) |-> IF i = Len(all) + 1 THEN Len(more) ELSE at[i]]
  <2>1. ASSUME NEW i \in 1..(Len(all) + 1)
        PROVE  to[i] \in 0..Len(more)
    <3>1. CASE i = Len(all) + 1
      BY <3>1, <1>3
    <3>2. CASE i # Len(all) + 1
      <4>1. i \in 1..(Len(parts) + 1)
        BY <3>2, <1>3, <1>7
      <4>2. at[i] \in 0..Len(events)
        BY <4>1
      <4> QED
        BY <3>2, <4>2, <1>2, <1>3
    <3> QED
      BY <3>1, <3>2
  <2>2. to \in [1..(Len(all) + 1) -> 0..Len(more)]
    BY <2>1
  <2>3. to[Len(all) + 1] = Len(more)
    BY <1>3, <1>7
  <2>4. ASSUME NEW i \in 1..(Len(parts) + 1)
        PROVE  to[i] = at[i]
    <3>1. i \in 1..(Len(all) + 1) /\ i # Len(all) + 1
      BY <1>3, <1>7
    <3> QED
      BY <3>1
  <2> QED
    BY <2>2, <2>3, <2>4
<1>9. ASSUME NEW i \in 1..Len(all)
      PROVE  /\ to[i + 1] = to[i] + Len(all[i])
             /\ \A j \in 1..Len(all[i]) : all[i][j] = more[to[i] + j]
  <2>1. CASE i = Len(parts) + 1
    <3>1. to[i] = at[i] /\ at[i] = Len(events) /\ all[i] = last
      BY <2>1, <1>1, <1>3, <1>7, <1>8
    <3>3. to[i + 1] = Len(more)
      <4>1. i + 1 = Len(all) + 1
        BY <2>1, <1>7
      <4> QED
        BY <4>1, <1>8
    <3>2. Len(more) = Len(events) + Len(last)
      BY <1>3, <1>5
    <3> QED
      BY <3>1, <3>2, <3>3, <1>5
  <2>2. CASE i # Len(parts) + 1
    <3>1. i \in 1..Len(parts) /\ i + 1 \in 1..(Len(parts) + 1) /\ i \in 1..(Len(parts) + 1)
      <4>1. PICK size \in Nat : size = Len(parts)
        BY <1>3
      <4>2. i \in 1..(size + 1) /\ i # size + 1
        BY <2>2, <4>1, <1>7
      <4> QED
        BY ONLY <4>1, <4>2
    <3>2. to[i] = at[i] /\ to[i + 1] = at[i + 1] /\ all[i] = parts[i]
      <4>1. \A k \in 1..(Len(parts) + 1) : to[k] = at[k]
        BY <1>8
      <4>2. all[i] = parts[i]
        BY <3>1, <1>7
      <4> QED
        BY ONLY <3>1, <4>1, <4>2
    <3>3. parts[i] \in Seq(S) /\ at[i] \in 0..Len(events) /\ at[i + 1] \in 0..Len(events)
      BY <3>1, ElementOfSeq
    <3>4. /\ at[i + 1] = at[i] + Len(parts[i])
          /\ \A j \in 1..Len(parts[i]) : parts[i][j] = events[at[i] + j]
      BY <3>1, <1>1
    <3>5. \A j \in 1..Len(parts[i]) : at[i] + j \in 1..Len(events)
      <4>1. Len(parts[i]) \in Nat /\ at[i] + Len(parts[i]) <= Len(events)
        BY <3>3, <3>4
      <4>2. PICK size \in Nat : size = Len(parts[i])
        BY <4>1
      <4>3. PICK start \in Nat : start = at[i]
        BY <3>3, <1>3
      <4>4. start + size <= Len(events)
        BY <4>1, <4>2, <4>3
      <4>5. \A j \in 1..size : start + j \in 1..Len(events)
        BY <4>4, <1>3
      <4> QED
        BY <4>2, <4>3, <4>5
    <3>6. \A j \in 1..Len(parts[i]) : parts[i][j] = more[at[i] + j]
      BY <3>4, <3>5, <1>2
    <3> QED
      BY <3>2, <3>4, <3>6
  <2> QED
    BY <2>1, <2>2
<1>10. to[1] = from
  <2>1. Len(parts) \in Nat
    BY <1>3
  <2>2. 1 \in 1..(Len(parts) + 1)
    BY <2>1
  <2>3. to[1] = at[1]
    BY <2>2, <1>8
  <2> QED
    BY <2>3, <1>1
<1>11. Cut(all, from, more)
  BY <1>8, <1>9, <1>10 DEF Cut
<1> QED
  BY <1>4, <1>6, <1>11

\* Taking the first batch publishes a bit more of the summary.
LEMMA CutTail ==
  ASSUME NEW S, NEW parts \in Seq(Seq(S)), NEW got \in Seq(S), NEW events \in Seq(S),
         Cut(parts, Len(got), events), IsPrefix(got, events), parts # <<>>
  PROVE  /\ Head(parts) \in Seq(S) /\ got \o Head(parts) \in Seq(S)
         /\ Tail(parts) \in Seq(Seq(S))
         /\ IsPrefix(got \o Head(parts), events)
         /\ Cut(Tail(parts), Len(got \o Head(parts)), events)
<1>1. PICK at \in [1..(Len(parts) + 1) -> 0..Len(events)] :
        /\ at[1] = Len(got) /\ at[Len(parts) + 1] = Len(events)
        /\ \A i \in 1..Len(parts) :
             /\ at[i + 1] = at[i] + Len(parts[i])
             /\ \A j \in 1..Len(parts[i]) : parts[i][j] = events[at[i] + j]
  BY DEF Cut
<1>2. Len(got) <= Len(events) /\ \A i \in 1..Len(got) : got[i] = events[i]
  BY PrefixPointwise
<1>3. Len(parts) \in Nat /\ Len(events) \in Nat /\ Len(got) \in Nat /\ Len(parts) > 0
  BY EmptySeq
<1>4. PICK first \in Seq(S) : first = Head(parts) /\ first = parts[1]
  BY <1>3
<1>5. PICK rest \in Seq(Seq(S)) : rest = Tail(parts)
  BY HeadTailProperties
<1>6. Len(rest) = Len(parts) - 1 /\ \A i \in 1..Len(rest) : rest[i] = parts[i + 1]
  BY <1>3, <1>5, HeadTailProperties
<1>7. PICK all \in Seq(S) : all = got \o first
  BY ConcatPointwise
<1>8. /\ Len(all) = Len(got) + Len(first) /\ Len(first) \in Nat
      /\ \A i \in 1..Len(got) : all[i] = got[i]
      /\ \A i \in 1..Len(first) : all[Len(got) + i] = first[i]
  BY <1>7, ConcatPointwise
<1>9. /\ at[2] = Len(all) /\ at[2] \in 0..Len(events)
      /\ \A j \in 1..Len(first) : first[j] = events[Len(got) + j]
  <2>1. 1 \in 1..Len(parts) /\ 2 \in 1..(Len(parts) + 1) /\ 1 + 1 = 2
    BY <1>3
  <2>2. at[1 + 1] = at[1] + Len(parts[1]) /\ \A j \in 1..Len(parts[1]) : parts[1][j] = events[at[1] + j]
    BY <2>1, <1>1
  <2> QED
    BY <2>1, <2>2, <1>1, <1>4, <1>8
<1>10. IsPrefix(all, events)
  <2>1. \A i \in 1..Len(all) : all[i] = events[i]
    <3> TAKE i \in 1..Len(all)
    <3>1. CASE i <= Len(got)
      BY <3>1, <1>2, <1>3, <1>8
    <3>2. CASE i > Len(got)
      <4>1. i - Len(got) \in 1..Len(first) /\ Len(got) + (i - Len(got)) = i
        BY <3>2, <1>3, <1>8
      <4> QED
        BY <4>1, <1>8, <1>9
    <3> QED
      BY <3>1, <3>2, <1>3
  <2>2. Len(all) <= Len(events)
    BY <1>9
  <2> QED
    BY <2>1, <2>2, PrefixPointwise
<1>11. PICK to \in [1..(Len(rest) + 1) -> 0..Len(events)] :
         \A i \in 1..(Len(rest) + 1) : to[i] = at[i + 1]
  <2> DEFINE to == [i \in 1..(Len(rest) + 1) |-> at[i + 1]]
  <2>1. \A i \in 1..(Len(rest) + 1) : i + 1 \in 1..(Len(parts) + 1)
    BY <1>3, <1>6
  <2>2. to \in [1..(Len(rest) + 1) -> 0..Len(events)]
    BY <2>1
  <2> QED
    BY <2>2
<1>12. to[1] = Len(all) /\ to[Len(rest) + 1] = Len(events)
  <2>1. Len(rest) \in Nat /\ 1 \in 1..(Len(rest) + 1) /\ Len(rest) + 1 \in 1..(Len(rest) + 1)
    OBVIOUS
  <2>2. to[1] = at[1 + 1] /\ to[Len(rest) + 1] = at[(Len(rest) + 1) + 1]
    BY <2>1, <1>11
  <2>3. 1 + 1 = 2 /\ (Len(rest) + 1) + 1 = Len(parts) + 1
    BY <1>3, <1>6
  <2> QED
    BY <2>2, <2>3, <1>1, <1>9
<1>13. ASSUME NEW i \in 1..Len(rest)
       PROVE  /\ to[i + 1] = to[i] + Len(rest[i])
              /\ \A j \in 1..Len(rest[i]) : rest[i][j] = events[to[i] + j]
  <2>1. /\ i + 1 \in 1..Len(parts) /\ i \in 1..(Len(rest) + 1) /\ i + 1 \in 1..(Len(rest) + 1)
    BY <1>3, <1>6
  <2>2. to[i] = at[i + 1] /\ to[i + 1] = at[(i + 1) + 1] /\ rest[i] = parts[i + 1]
    BY <2>1, <1>6, <1>11
  <2>3. /\ at[(i + 1) + 1] = at[i + 1] + Len(parts[i + 1])
        /\ \A j \in 1..Len(parts[i + 1]) : parts[i + 1][j] = events[at[i + 1] + j]
    BY <2>1, <1>1
  <2> QED
    BY <2>2, <2>3
<1>14. Cut(rest, Len(all), events)
  BY <1>11, <1>12, <1>13 DEF Cut
<1> QED
  BY <1>4, <1>5, <1>7, <1>10, <1>14

LEMMA SocketStarts ==
  ASSUME SocketInit
  PROVE  SocketInv
<1> USE SocketAssumption DEF SocketInit, NoTurn, OnTurn, Taken
<1>1. SocketTyped
  BY DEF SocketTyped, UpstreamType, TurnType, Stages, Numbers
<1>2. FramesFit /\ ServingFits /\ WaitingFits /\ ShownFits /\ TurnFits /\ BaseFits /\ ResponsesFit
  BY DEF FramesFit, ServingFits, WaitingFits, ShownFits, TurnFits, BaseFits, ResponsesFit, Numbers
<1> QED
  BY <1>1, <1>2 DEF SocketInv

\* The loop ends: what the client was sent stays as it is.
LEMMA CloseKeeps ==
  ASSUME SocketInv, NEW error, error # "revision", Close(error)
  PROVE  SocketInv'
<1> USE DEF SocketInv
<1>1. /\ socket' = "closed" /\ told' = error /\ turn' = NoTurn /\ progress' = <<>> /\ inbox' = <<>>
      /\ frames' = frames /\ upstream' = upstream /\ pending' = pending /\ base' = base
      /\ published' = published /\ response' = response /\ shown' = shown
  BY DEF Close
<1>2. SocketTyped'
  <2>1. NoTurn \in TurnType
    BY SocketAssumption DEF NoTurn, TurnType, Stages
  <2>2. <<>> \in Seq(Seq(Events)) /\ <<>> \in Seq(Numbers)
    OBVIOUS
  <2> QED
    BY <1>1, <2>1, <2>2 DEF SocketTyped
<1>3. ~OnTurn' /\ Taken' = Len(frames) /\ Taken <= Taken' /\ Taken' \in Int
  BY <1>1 DEF NoTurn, OnTurn, Taken, SocketTyped
<1>4. FramesFit'
  <2>1. \A n \in Numbers : n > Taken' => n > Taken
    BY <1>3 DEF FramesFit, Numbers, Taken, SocketTyped
  <2> QED
    BY <1>1, <1>3, <2>1 DEF FramesFit, SocketTyped
<1>5. ServingFits'
  BY <1>1, <1>3 DEF ServingFits
<1>6. WaitingFits'
  <2> SUFFICES ASSUME NEW i \in DOMAIN upstream.waiting
               PROVE  upstream.waiting[i] <= Taken'
    BY <1>1 DEF WaitingFits
  <2>1. upstream.waiting[i] <= Taken /\ upstream.waiting[i] \in Numbers
    BY DEF WaitingFits, SocketTyped, UpstreamType
  <2> QED
    BY <1>3, <2>1 DEF Numbers, Taken, SocketTyped
<1>7. ShownFits' /\ TurnFits'
  BY <1>1, <1>3 DEF ShownFits, TurnFits
<1>8. BaseFits'
  BY <1>1 DEF BaseFits
<1>9. ResponsesFit'
  BY <1>1 DEF ResponsesFit
<1> QED
  BY <1>2, <1>4, <1>5, <1>6, <1>7, <1>8, <1>9

\* A frame refers back.
LEMMA EarlierFrame ==
  ASSUME SocketInv, NEW n \in 1..Len(frames)
  PROVE  frames[n] \in FrameType /\ frames[n].previous \in 0..(n - 1)
<1>1. frames[n] \in FrameType /\ n \in DOMAIN frames
  BY DEF SocketInv, SocketTyped
<1>2. frames[n].previous \in Nat
  BY <1>1, SocketAssumption DEF FrameType
<1>3. frames[n].previous < n
  BY <1>1 DEF SocketInv, FramesFit
<1> QED
  BY <1>1, <1>2, <1>3

LEMMA ClientSendsKeeps ==
  ASSUME SocketInv, NEW frame \in FrameType, ClientSends(frame)
  PROVE  SocketInv'
<1> USE DEF SocketInv
<1>1. /\ socket' = socket /\ told' = told /\ turn' = turn /\ progress' = progress
      /\ upstream' = upstream /\ pending' = pending /\ base' = base
      /\ published' = published /\ response' = response /\ shown' = shown
  BY DEF ClientSends
<1>2. /\ frames' \in Seq(FrameType) /\ Len(frames') = Len(frames) + 1
      /\ \A i \in 1..Len(frames) : frames'[i] = frames[i]
      /\ frames'[Len(frames) + 1] = frame
      /\ Len(frames') <= MaxFrames
  BY SocketAssumption DEF ClientSends, SocketTyped
<1>3. /\ inbox' \in Seq(Numbers) /\ Len(inbox') = Len(inbox) + 1
      /\ \A i \in 1..Len(inbox) : inbox'[i] = inbox[i]
      /\ inbox'[Len(inbox) + 1] = Len(frames) + 1
  <2>1. Len(frames) + 1 \in Numbers
    BY SocketAssumption DEF ClientSends, SocketTyped, Numbers
  <2> QED
    BY <2>1 DEF ClientSends, SocketTyped
<1>4. /\ Len(frames) \in Nat /\ Len(inbox) \in Nat /\ Len(inbox) <= Len(frames)
      /\ DOMAIN frames = 1..Len(frames) /\ DOMAIN inbox = 1..Len(inbox)
      /\ DOMAIN frames' = 1..Len(frames') /\ DOMAIN inbox' = 1..Len(inbox')
      /\ Taken \in Int /\ Taken' = Taken /\ Taken <= Len(frames)
  BY <1>2, <1>3 DEF SocketTyped, FramesFit, Taken
<1>5. SocketTyped'
  BY <1>1, <1>2, <1>3 DEF SocketTyped
<1>6. FramesFit'
  <2>1. \A n \in DOMAIN frames' : frames'[n].previous < n
    <3> TAKE n \in DOMAIN frames'
    <3>1. CASE n = Len(frames) + 1
      BY <3>1, <1>2, <1>4 DEF ClientSends, FrameType
    <3>2. CASE n # Len(frames) + 1
      BY <3>2, <1>2, <1>4 DEF FramesFit
    <3> QED
      BY <3>1, <3>2
  <2>2. \A i \in DOMAIN inbox' : inbox'[i] = Taken' + i
    <3> TAKE i \in DOMAIN inbox'
    <3>1. CASE i = Len(inbox) + 1
      BY <3>1, <1>3, <1>4 DEF Taken
    <3>2. CASE i # Len(inbox) + 1
      BY <3>2, <1>3, <1>4 DEF FramesFit
    <3> QED
      BY <3>1, <3>2
  <2> QED
    BY <1>1, <1>2, <1>3, <1>4, <2>1, <2>2 DEF FramesFit
<1>7. ServingFits'
  <2>1. OnTurn' <=> OnTurn
    BY <1>1 DEF OnTurn
  <2>2. OnTurn => frames'[turn.number] = frames[turn.number]
    BY <1>2, <1>4 DEF ServingFits, Numbers
  <2> QED
    BY <1>1, <1>4, <2>1, <2>2 DEF ServingFits
<1>8. ASSUME NEW n \in Numbers, n <= Taken
      PROVE  /\ frames'[n] = frames[n]
             /\ frames[n].previous # 0 => frames'[frames[n].previous] = frames[frames[n].previous]
  <2>1. n \in 1..Len(frames) /\ frames'[n] = frames[n]
    BY <1>2, <1>4, <1>8 DEF Numbers
  <2>2. frames[n].previous \in 0..(n - 1)
    BY <2>1, EarlierFrame
  <2> QED
    BY <2>1, <2>2, <1>2, <1>4
<1>9. WaitingFits'
  <2> SUFFICES ASSUME NEW i \in DOMAIN upstream.waiting
               PROVE  LET n == upstream.waiting[i] IN
                      /\ n <= Taken' /\ frames'[n].kind = "native"
                      /\ frames'[n].previous # 0 => frames'[frames'[n].previous].kind \notin Owned
    BY <1>1 DEF WaitingFits
  <2>1. PICK n \in Numbers : n = upstream.waiting[i]
    BY DEF SocketTyped, UpstreamType
  <2>2. /\ n <= Taken /\ frames[n].kind = "native"
        /\ frames[n].previous # 0 => frames[frames[n].previous].kind \notin Owned
    BY <2>1 DEF WaitingFits
  <2>3. /\ frames'[n] = frames[n]
        /\ frames[n].previous # 0 => frames'[frames[n].previous] = frames[frames[n].previous]
    BY <2>2, <1>8
  <2> QED
    BY <2>1, <2>2, <2>3, <1>4
<1>10. ShownFits'
  BY <1>1 DEF ShownFits, OnTurn
<1>11. TurnFits'
  <2>1. OnTurn => /\ frames'[turn.number] = frames[turn.number]
                  /\ frames[turn.number].previous # 0 =>
                       frames'[frames[turn.number].previous] = frames[frames[turn.number].previous]
    BY <1>4, <1>8 DEF ServingFits
  <2>2. OnTurn /\ frames[turn.number].previous # 0 => base = frames[turn.number].previous
    BY DEF TurnFits
  <2> QED
    BY <1>1, <2>1, <2>2 DEF TurnFits, OnTurn
<1>12. BaseFits'
  <2>1. base # 0 => base \in 1..Len(frames)
    BY <1>4 DEF BaseFits, SocketTyped
  <2> QED
    BY <1>1, <1>2, <1>4, <2>1 DEF BaseFits, OnTurn
<1>13. ResponsesFit'
  BY <1>1, <1>2, <1>4 DEF ResponsesFit, Numbers
<1> QED
  BY <1>5, <1>6, <1>7, <1>9, <1>10, <1>11, <1>12, <1>13

\* The next frame of the inbox.
LEMMA NextFrame ==
  ASSUME SocketInv, inbox # <<>>
  PROVE  /\ Head(inbox) = Taken + 1 /\ Head(inbox) \in Numbers /\ Head(inbox) \in 1..Len(frames)
         /\ Tail(inbox) \in Seq(Numbers) /\ Len(Tail(inbox)) = Len(inbox) - 1
         /\ \A i \in 1..(Len(inbox) - 1) : Tail(inbox)[i] = inbox[i + 1]
         /\ Len(inbox) \in Nat /\ Len(inbox) > 0 /\ Len(frames) \in Nat
<1>1. /\ inbox \in Seq(Numbers) /\ Len(inbox) \in Nat /\ Len(inbox) > 0 /\ Len(frames) \in Nat
      /\ Len(inbox) <= Len(frames)
  BY EmptySeq DEF SocketInv, SocketTyped, FramesFit
<1>2. Head(inbox) = inbox[1] /\ inbox[1] \in Numbers /\ inbox[1] = Taken + 1
  BY <1>1 DEF SocketInv, FramesFit
<1>3. /\ Tail(inbox) \in Seq(Numbers) /\ Len(Tail(inbox)) = Len(inbox) - 1
      /\ \A i \in 1..(Len(inbox) - 1) : Tail(inbox)[i] = inbox[i + 1]
  BY <1>1, HeadTailProperties
<1> QED
  BY <1>1, <1>2, <1>3 DEF Taken

\* What stays true of the inbox and the native side when the next frame is taken.
LEMMA TakingKeeps ==
  ASSUME SocketInv, inbox # <<>>, inbox' = Tail(inbox), frames' = frames,
         shown' = shown, response' = response
  PROVE  /\ Taken' = Taken + 1 /\ FramesFit' /\ Taken \in Int /\ ResponsesFit'
         /\ inbox' \in Seq(Numbers)
<1>1. Taken' = Taken + 1 /\ Taken \in Int
  BY NextFrame DEF Taken
<1>2. FramesFit'
  <2>1. Len(inbox') <= Len(frames')
    BY NextFrame DEF SocketInv, FramesFit
  <2>2. \A i \in DOMAIN inbox' : inbox'[i] = Taken' + i
    <3> TAKE i \in DOMAIN inbox'
    <3>1. i \in 1..(Len(inbox) - 1)
      BY NextFrame
    <3>2. i + 1 \in DOMAIN inbox /\ inbox'[i] = inbox[i + 1]
      BY <3>1, NextFrame DEF SocketInv, SocketTyped
    <3>3. inbox[i + 1] = Taken + (i + 1)
      BY <3>2 DEF SocketInv, FramesFit
    <3> QED
      BY <3>1, <3>2, <3>3, <1>1
  <2>3. \A n \in Numbers : n > Taken' => n > Taken
    BY <1>1 DEF Numbers
  <2> QED
    BY <2>1, <2>2, <2>3 DEF SocketInv, FramesFit
<1>3. ResponsesFit'
  BY DEF SocketInv, ResponsesFit
<1> QED
  BY <1>1, <1>2, <1>3, NextFrame

LEMMA ReadOwnedKeeps ==
  ASSUME SocketInv, ReadOwned
  PROVE  SocketInv'
<1> USE DEF SocketInv
<1>1. CASE Close("busy") \/ Close("context")
  BY <1>1, CloseKeeps
<1>2. ASSUME NEW n \in Numbers, n = Head(inbox), pending = 0, Extends(frames[n]),
             socket' = "owned", inbox' = Tail(inbox),
             turn' = [NoTurn EXCEPT !.number = n, !.stage = "running", !.page = 1],
             progress' = <<>>, published' = <<>>,
             UNCHANGED <<frames, upstream, pending, base, response, shown, told>>
      PROVE  SocketInv'
  <2>1. socket = "relay" /\ inbox # <<>> /\ frames[n].kind \in Owned /\ ~OnTurn
    BY <1>2 DEF ReadOwned, Reads, ServingFits
  <2>2. /\ n = Taken + 1 /\ n \in 1..Len(frames) /\ Taken' = Taken + 1 /\ Taken \in Int
        /\ FramesFit' /\ ResponsesFit' /\ inbox' \in Seq(Numbers)
    BY <1>2, <2>1, NextFrame, TakingKeeps
  <2>3. turn' = [number |-> n, stage |-> "running", page |-> 1, summary |-> <<>>, sent |-> 0]
    BY <1>2 DEF NoTurn
  <2>4. OnTurn' /\ n <= MaxFrames /\ n \in 0..MaxFrames
    BY <2>3, SocketAssumption DEF OnTurn, Numbers
  <2>5. SocketTyped'
    <3>1. turn' \in TurnType
      BY <2>3, <2>4 DEF TurnType, Stages
    <3>2. <<>> \in Seq(Seq(Events)) /\ <<>> \in Seq(Events)
      OBVIOUS
    <3> QED
      BY <1>2, <2>2, <3>1, <3>2 DEF SocketTyped
  <2>6. ServingFits'
    BY <1>2, <2>1, <2>2, <2>3, <2>4 DEF ServingFits
  <2>7. WaitingFits'
    <3>1. \A i \in DOMAIN upstream.waiting : upstream.waiting[i] <= Taken'
      <4> TAKE i \in DOMAIN upstream.waiting
      <4>1. upstream.waiting[i] \in Numbers /\ upstream.waiting[i] <= Taken
        BY DEF SocketTyped, UpstreamType, WaitingFits
      <4> QED
        BY <4>1, <2>2 DEF Numbers
    <3> QED
      BY <1>2, <3>1 DEF WaitingFits
  <2>8. ShownFits'
    BY <1>2, <2>1 DEF ShownFits
  <2>9. shown[n] = <<>> /\ response[n] = <<>>
    BY <2>2 DEF FramesFit
  <2>10. TurnFits'
    <3>1. Prefix(<<>>) = <<>>
      BY DEF Prefix
    <3>2. Cut(<<>>, 0, <<>>) /\ Len(<<>>) = 0
      BY CutEmpty
    <3>3. IsPrefix(<<>>, <<>>)
      BY DEF IsPrefix
    <3>4. frames[n].previous # 0 =>
            base = frames[n].previous /\ frames[base].settings = frames[n].settings
      BY <1>2 DEF Extends
    <3>5. /\ progress' = <<>> /\ published' = <<>> /\ shown'[n] = <<>> /\ response'[n] = <<>>
          /\ frames' = frames /\ base' = base
      BY <1>2, <2>9
    <3>6. /\ turn'.summary = <<>> /\ turn'.number = n /\ turn'.sent = 0 /\ turn'.stage = "running"
      BY <2>3
    <3> QED
      BY <3>1, <3>2, <3>3, <3>4, <3>5, <3>6 DEF TurnFits
  <2>11. BaseFits'
    BY <1>2, <2>1, <2>2, <2>4 DEF BaseFits
  <2> QED
    BY <2>2, <2>5, <2>6, <2>7, <2>8, <2>10, <2>11
<1>3. Head(inbox) \in Numbers
  BY NextFrame DEF ReadOwned, Reads
<1> QED
  BY <1>1, <1>2, <1>3 DEF ReadOwned

LEMMA ReadNativeKeeps ==
  ASSUME SocketInv, ReadNative
  PROVE  SocketInv'
<1> USE DEF SocketInv
<1>1. CASE Close("none") \/ Close("context")
  BY <1>1, CloseKeeps
<1>2. ASSUME NEW n \in Numbers, n = Head(inbox), ~RefersToOurs(frames[n]),
             pending' = pending + 1, base' = 0,
             upstream' = [upstream EXCEPT !.waiting = Append(@, n)], inbox' = Tail(inbox),
             UNCHANGED <<frames, socket, turn, progress, published, response, shown, told>>
      PROVE  SocketInv'
  <2>1. socket = "relay" /\ inbox # <<>> /\ frames[n].kind = "native" /\ ~OnTurn /\ ~OnTurn'
    BY <1>2 DEF ReadNative, Reads, ServingFits, OnTurn
  <2>2. /\ n = Taken + 1 /\ n \in 1..Len(frames) /\ Taken' = Taken + 1 /\ Taken \in Int
        /\ FramesFit' /\ ResponsesFit' /\ inbox' \in Seq(Numbers)
    BY <1>2, <2>1, NextFrame, TakingKeeps
  <2>3. PICK old \in Seq(Numbers) : old = upstream.waiting
    BY DEF SocketTyped, UpstreamType
  <2>4. PICK new \in Seq(Numbers) : new = Append(old, n)
    BY <1>2, AppendProperties
  <2>5. /\ Len(new) = Len(old) + 1 /\ new[Len(old) + 1] = n /\ Len(old) \in Nat
        /\ \A i \in 1..Len(old) : new[i] = old[i]
    BY <1>2, <2>4
  <2>6. upstream' \in UpstreamType /\ upstream'.waiting = new
    BY <1>2, <2>3, <2>4 DEF SocketTyped, UpstreamType
  <2>7. SocketTyped'
    <3>1. /\ pending' = pending + 1 /\ base' = 0 /\ frames' = frames /\ socket' = socket
          /\ turn' = turn /\ progress' = progress /\ published' = published
          /\ response' = response /\ shown' = shown /\ told' = told
      BY <1>2
    <3>2. 0 \in 0..MaxFrames
      BY SocketAssumption
    <3> QED
      BY <2>2, <2>6, <3>1, <3>2 DEF SocketTyped
  <2>8. ServingFits'
    BY <1>2, <2>1, <2>3, <2>5, <2>6 DEF ServingFits
  <2>9. \A i \in 1..Len(old) : old[i] \in Numbers /\ old[i] <= Taken
    BY <2>3 DEF WaitingFits
  <2>10. WaitingFits'
    <3> SUFFICES ASSUME NEW i \in 1..Len(new)
                 PROVE  /\ new[i] <= Taken' /\ frames[new[i]].kind = "native"
                        /\ frames[new[i]].previous # 0 =>
                             frames[frames[new[i]].previous].kind \notin Owned
                        /\ i > 1 => shown[new[i]] = <<>>
                        /\ \A j \in 1..Len(new) : new[j] = new[i] => j = i
      BY <1>2, <2>6 DEF WaitingFits
    <3>1. CASE i = Len(old) + 1
      <4>1. new[i] = n /\ shown[n] = <<>>
        BY <3>1, <2>2, <2>5 DEF FramesFit
      <4>2. \A j \in 1..Len(old) : new[j] # n
        BY <2>2, <2>5, <2>9 DEF Numbers
      <4> QED
        BY <3>1, <4>1, <4>2, <1>2, <2>1, <2>2, <2>5 DEF RefersToOurs
    <3>2. CASE i # Len(old) + 1
      <4>1. i \in 1..Len(old) /\ new[i] = old[i] /\ old[i] \in Numbers /\ old[i] <= Taken
        BY <3>2, <2>5, <2>9
      <4>2. new[Len(old) + 1] # new[i]
        BY <4>1, <2>2, <2>5 DEF Numbers
      <4>3. /\ frames[old[i]].kind = "native"
            /\ frames[old[i]].previous # 0 => frames[frames[old[i]].previous].kind \notin Owned
            /\ i > 1 => shown[old[i]] = <<>>
            /\ \A j \in 1..Len(old) : old[j] = old[i] => j = i
        BY <4>1, <2>3 DEF WaitingFits
      <4>4. new[i] <= Taken'
        BY <4>1, <2>2 DEF Numbers
      <4>5. \A j \in 1..Len(new) : new[j] = new[i] => j = i
        <5> SUFFICES ASSUME NEW j \in 1..Len(new), new[j] = new[i]
                     PROVE  j = i
          OBVIOUS
        <5>1. j # Len(old) + 1
          BY <4>2
        <5> QED
          BY <5>1, <4>1, <4>3, <2>5
      <4> QED
        BY <4>1, <4>3, <4>4, <4>5
    <3> QED
      BY <3>1, <3>2
  <2>11. ShownFits'
    <3>1. Len(old) > 0 => new[1] = old[1]
      BY <2>5
    <3> QED
      BY <1>2, <2>1, <2>3, <2>5, <2>6, <3>1 DEF ShownFits
  <2>12. TurnFits' /\ BaseFits'
    BY <1>2, <2>1 DEF TurnFits, BaseFits
  <2> QED
    BY <2>2, <2>7, <2>8, <2>10, <2>11, <2>12
<1>3. Head(inbox) \in Numbers
  BY NextFrame DEF ReadNative, Reads
<1> QED
  BY <1>1, <1>2, <1>3 DEF ReadNative

LEMMA NativeEventKeeps ==
  ASSUME SocketInv, NativeEvent
  PROVE  SocketInv'
<1> USE DEF SocketInv
<1>1. PICK n \in Numbers : n = Head(upstream.waiting) /\ n = upstream.waiting[1]
  BY EmptySeq DEF NativeEvent, SocketTyped, UpstreamType
<1>2. PICK event \in IF shown[n] = <<>> THEN {"created", "failed"} ELSE {"completed", "failed"} :
        /\ shown' = [shown EXCEPT ![n] = Append(@, event)]
        /\ IF event = "created" THEN UNCHANGED <<pending, upstream>>
           ELSE /\ pending' = IF pending = 0 THEN 0 ELSE pending - 1
                /\ upstream' = [upstream EXCEPT !.waiting = Tail(@)]
  BY <1>1 DEF NativeEvent
<1>3. /\ socket = "relay" /\ upstream.waiting # <<>>
      /\ frames' = frames /\ inbox' = inbox /\ socket' = socket /\ base' = base /\ turn' = turn
      /\ progress' = progress /\ published' = published /\ response' = response /\ told' = told
  BY DEF NativeEvent
<1>4. ~OnTurn /\ ~OnTurn' /\ Taken' = Taken
  BY <1>3 DEF ServingFits, OnTurn, Taken
<1>5. PICK old \in Seq(Numbers) : old = upstream.waiting
  BY DEF SocketTyped, UpstreamType
<1>6. Len(old) \in Nat /\ Len(old) > 0 /\ n = old[1] /\ 1 \in DOMAIN old /\ pending = Len(old)
  BY <1>1, <1>3, <1>5, EmptySeq DEF ServingFits
<1>7. n <= Taken /\ frames[n].kind = "native"
  BY <1>5, <1>6 DEF WaitingFits
<1>8. event \in Events /\ (event # "created" => event \in {"completed", "failed"})
      /\ (event = "created" => shown[n] = <<>>)
  BY <1>2 DEF Events
<1>9. PICK seen \in Seq(Events) : seen = Append(shown[n], event)
  BY <1>8, AppendProperties DEF SocketTyped
<1>10. seen # <<>> /\ seen[Len(seen)] = event
  <2>1. PICK past \in Seq(Events) : past = shown[n]
    BY DEF SocketTyped
  <2>2. seen = Append(past, event) /\ event \in Events
    BY <2>1, <1>8, <1>9
  <2>3. Len(seen) = Len(past) + 1 /\ seen[Len(past) + 1] = event /\ Len(past) \in Nat
    BY <2>2, AppendProperties
  <2> QED
    BY <2>3
<1>11. /\ shown' \in [Numbers -> Seq(Events)] /\ shown'[n] = seen
       /\ \A m \in Numbers \ {n} : shown'[m] = shown[m]
  BY <1>2, <1>9 DEF SocketTyped
<1>12. PICK new \in Seq(Numbers) : upstream'.waiting = new /\ upstream' \in UpstreamType
         /\ IF event = "created" THEN new = old /\ pending' = pending
            ELSE new = Tail(old) /\ pending' = pending - 1
  <2>1. CASE event = "created"
    BY <2>1, <1>2, <1>5 DEF SocketTyped
  <2>2. CASE event # "created"
    <3>1. PICK new \in Seq(Numbers) : new = Tail(old)
      <4>1. old # <<>>
        BY <1>6
      <4>2. Tail(old) \in Seq(Numbers)
        BY <4>1, HeadTailProperties
      <4> QED
        BY <4>2
    <3>2. upstream'.waiting = new /\ upstream' \in UpstreamType
      BY <2>2, <3>1, <1>2, <1>5 DEF SocketTyped, UpstreamType
    <3>3. pending' = pending - 1
      BY <2>2, <1>2, <1>6
    <3> QED
      BY <2>2, <3>1, <3>2, <3>3
  <2> QED
    BY <2>1, <2>2
<1>13. SocketTyped'
  <2>1. pending' \in Nat
    BY <1>6, <1>12
  <2> QED
    BY <1>3, <1>11, <1>12, <2>1 DEF SocketTyped
<1>14. FramesFit'
  <2>1. Taken \in Int
    BY DEF Taken, SocketTyped
  <2>2. \A m \in Numbers : m > Taken => m # n
    BY <2>1, <1>7 DEF Numbers
  <2> QED
    BY <2>2, <1>3, <1>4, <1>11 DEF FramesFit
\* Each frame that still waits waited before, and further behind.
<1>15. PICK k \in {0, 1} : /\ Len(new) = Len(old) - k /\ \A i \in 1..Len(new) : new[i] = old[i + k]
                           /\ k = IF event = "created" THEN 0 ELSE 1
  <2>1. CASE event = "created"
    BY <2>1, <1>6, <1>12
  <2>2. CASE event # "created"
    <3>1. Len(new) = Len(old) - 1 /\ \A i \in 1..Len(new) : new[i] = old[i + 1]
      BY <2>2, <1>6, <1>12, HeadTailProperties
    <3> QED
      BY <2>2, <3>1
  <2> QED
    BY <2>1, <2>2
<1>16. ServingFits'
  BY <1>3, <1>4, <1>6, <1>12, <1>15 DEF ServingFits
<1>17. ASSUME NEW i \in 1..Len(old)
       PROVE  /\ old[i] \in Numbers /\ old[i] <= Taken /\ frames[old[i]].kind = "native"
              /\ frames[old[i]].previous # 0 => frames[frames[old[i]].previous].kind \notin Owned
              /\ i > 1 => shown[old[i]] = <<>> /\ old[i] # n
              /\ \A j \in 1..Len(old) : old[j] = old[i] => j = i
  BY <1>5, <1>6, <1>17 DEF WaitingFits
<1>18. WaitingFits'
  <2> SUFFICES ASSUME NEW i \in 1..Len(new)
               PROVE  /\ new[i] <= Taken /\ frames[new[i]].kind = "native"
                      /\ frames[new[i]].previous # 0 =>
                           frames[frames[new[i]].previous].kind \notin Owned
                      /\ i > 1 => shown'[new[i]] = <<>>
                      /\ \A j \in 1..Len(new) : new[j] = new[i] => j = i
    BY <1>3, <1>4, <1>12 DEF WaitingFits
  <2>1. i + k \in 1..Len(old) /\ new[i] = old[i + k] /\ (i > 1 => i + k > 1)
    BY <1>6, <1>15
  <2>2. \A j \in 1..Len(new) : new[j] = new[i] => j = i
    <3> SUFFICES ASSUME NEW j \in 1..Len(new), new[j] = new[i]
                 PROVE  j = i
      OBVIOUS
    <3>1. j + k \in 1..Len(old) /\ new[j] = old[j + k]
      BY <1>6, <1>15
    <3>2. j + k = i + k
      BY <2>1, <3>1, <1>17
    <3> QED
      BY <3>2, <1>15
  <2>3. /\ old[i + k] \in Numbers /\ old[i + k] <= Taken /\ frames[old[i + k]].kind = "native"
        /\ frames[old[i + k]].previous # 0 => frames[frames[old[i + k]].previous].kind \notin Owned
        /\ i + k > 1 => shown[old[i + k]] = <<>> /\ old[i + k] # n
    BY <2>1, <1>17
  <2>4. i > 1 => shown'[new[i]] = <<>>
    BY <2>1, <2>3, <1>11
  <2> QED
    BY <2>1, <2>2, <2>3, <2>4
<1>19. ShownFits'
  <2> SUFFICES ASSUME NEW m \in Numbers
               PROVE  \/ shown'[m] = <<>> \/ Whole(shown'[m])
                      \/ Len(new) > 0 /\ m = new[1]
    BY <1>3, <1>12 DEF ShownFits
  <2>1. CASE m = n /\ event = "created"
    <3>1. Len(new) > 0 /\ new[1] = old[1]
      BY <2>1, <1>6, <1>12
    <3> QED
      BY <2>1, <3>1, <1>6
  <2>2. CASE m = n /\ event # "created"
    BY <2>2, <1>8, <1>10, <1>11 DEF Whole, Last
  <2>3. CASE m # n
    BY <2>3, <1>3, <1>4, <1>5, <1>6, <1>11 DEF ShownFits
  <2> QED
    BY <2>1, <2>2, <2>3
<1>20. TurnFits'
  BY <1>4 DEF TurnFits
<1>21. BaseFits'
  <2>1. base # 0 => base # n /\ base \in Numbers
    BY <1>7 DEF BaseFits, SocketTyped, Numbers
  <2> QED
    BY <2>1, <1>3, <1>4, <1>11 DEF BaseFits
<1>22. ResponsesFit'
  <2> SUFFICES ASSUME NEW m \in Numbers, response[m] # <<>>
               PROVE  m <= Len(frames) /\ frames[m].kind \in Owned /\ IsPrefix(shown'[m], response[m])
    BY <1>3 DEF ResponsesFit
  <2>1. m <= Len(frames) /\ frames[m].kind \in Owned /\ IsPrefix(shown[m], response[m])
    BY DEF ResponsesFit
  <2>2. m # n
    BY <2>1, <1>7 DEF Owned
  <2> QED
    BY <2>1, <2>2, <1>11
<1> QED
  BY <1>13, <1>14, <1>16, <1>18, <1>19, <1>20, <1>21, <1>22

LEMMA NativeEndsKeeps ==
  ASSUME SocketInv, NativeEnds
  PROVE  SocketInv'
<1>1. CASE Close("none")
  BY <1>1, CloseKeeps
<1>2. CASE /\ upstream' = [upstream EXCEPT !.alive = FALSE]
           /\ UNCHANGED <<frames, inbox, socket, pending, base, turn, progress, published,
                          response, shown, told>>
  <2>1. upstream' \in UpstreamType /\ upstream'.waiting = upstream.waiting
    BY <1>2 DEF SocketInv, SocketTyped, UpstreamType
  <2>2. /\ frames' = frames /\ inbox' = inbox /\ socket' = socket /\ pending' = pending
        /\ base' = base /\ turn' = turn /\ progress' = progress /\ published' = published
        /\ response' = response /\ shown' = shown /\ told' = told
    BY <1>2
  <2>3. SocketTyped'
    BY <2>1, <2>2 DEF SocketInv, SocketTyped
  <2>4. FramesFit' /\ ServingFits' /\ WaitingFits'
    BY <2>1, <2>2 DEF SocketInv, FramesFit, ServingFits, WaitingFits, Taken, OnTurn
  <2>5. ShownFits' /\ TurnFits'
    BY <2>1, <2>2 DEF SocketInv, ShownFits, TurnFits, OnTurn
  <2>6. BaseFits' /\ ResponsesFit'
    BY <2>1, <2>2 DEF SocketInv, BaseFits, ResponsesFit, OnTurn, Taken
  <2> QED
    BY <2>3, <2>4, <2>5, <2>6 DEF SocketInv
<1> QED
  BY <1>1, <1>2 DEF NativeEnds

\* A step of the turn, which only the turn, the channel and its own response notice.
LEMMA TurnKeeps ==
  ASSUME SocketInv, Running, TurnOnly, turn' \in TurnType, turn'.number = turn.number,
         turn'.stage # "idle", progress' \in Seq(Seq(Events)),
         response' \in [Numbers -> Seq(Events)],
         \A n \in Numbers \ {turn.number} : response'[n] = response[n],
         TurnFits'
  PROVE  SocketInv'
<1> USE DEF SocketInv
<1>1. /\ frames' = frames /\ inbox' = inbox /\ socket' = socket /\ upstream' = upstream
      /\ pending' = pending /\ base' = base /\ published' = published /\ shown' = shown
      /\ told' = told
  BY DEF TurnOnly
<1>2. OnTurn /\ OnTurn' /\ Taken' = Taken /\ turn.number = Taken /\ turn.number \in Numbers
  BY <1>1 DEF Running, OnTurn, Taken, ServingFits
<1>3. Len(frames) \in Nat /\ Taken \in 1..Len(frames)
  BY <1>2 DEF Taken, SocketTyped, FramesFit, Numbers
<1>4. SocketTyped'
  BY <1>1 DEF SocketTyped
<1>5. FramesFit'
  <2>1. \A n \in Numbers : n > Taken' => n # turn.number
    BY <1>2, <1>3
  <2> QED
    BY <1>1, <1>2, <2>1 DEF FramesFit
<1>6. ServingFits' /\ WaitingFits' /\ ShownFits'
  BY <1>1, <1>2 DEF ServingFits, WaitingFits, ShownFits
<1>7. BaseFits'
  <2>1. base # 0 => base \in Numbers /\ base # turn.number
    BY <1>2, <1>3 DEF BaseFits, Running, SocketTyped, Numbers
  <2> QED
    BY <1>1, <1>2, <2>1 DEF BaseFits
<1>8. ResponsesFit'
  <2> SUFFICES ASSUME NEW n \in Numbers, response'[n] # <<>>
               PROVE  n <= Len(frames) /\ frames[n].kind \in Owned /\ IsPrefix(shown[n], response'[n])
    BY <1>1 DEF ResponsesFit
  <2>1. CASE n # turn.number
    BY <2>1 DEF ResponsesFit
  <2>2. CASE n = turn.number
    <3>1. n <= Len(frames) /\ frames[n].kind \in Owned
      BY <2>2, <1>2, <1>3 DEF ServingFits
    <3>2. PICK public \in Seq(Events) : public = Prefix(turn'.summary)
      BY PublicSummary DEF TurnType
    <3>3. shown[n] = published /\ IsPrefix(published, public) /\ IsPrefix(public, response'[n])
      BY <2>2, <3>2, <1>1, <1>2 DEF TurnFits
    <3>4. published \in Seq(Events) /\ response'[n] \in Seq(Events)
      BY DEF SocketTyped
    <3>5. IsPrefix(published, response'[n])
      BY <3>3, <3>4, PrefixTransitive
    <3> QED
      BY <3>1, <3>3, <3>5
  <2> QED
    BY <2>1, <2>2
<1> QED
  BY <1>4, <1>5, <1>6, <1>7, <1>8

LEMMA PublishStatusKeeps ==
  ASSUME SocketInv, PublishStatus
  PROVE  SocketInv'
<1> USE DEF SocketInv
<1>1. PICK summary \in Grown(turn.summary) :
        /\ progress' = Append(progress, SubSeq(Prefix(summary), turn.sent + 1, Len(Prefix(summary))))
        /\ turn' = [turn EXCEPT !.summary = summary, !.sent = Len(Prefix(summary))]
  BY DEF PublishStatus
<1>2. Running /\ TurnOnly /\ response' = response
  BY DEF PublishStatus
<1>3. PICK before \in Seq(Statuses) : before = turn.summary
  BY DEF SocketTyped, TurnType
<1>4. summary \in Seq(Statuses) /\ IsPrefix(Prefix(before), Prefix(summary))
  BY <1>1, <1>3, SummaryGrows
<1>5. PICK old \in Seq(Events) : old = Prefix(before)
  BY PublicSummary
<1>6. PICK new \in Seq(Events) : new = Prefix(summary)
  BY <1>4, PublicSummary
<1>7. /\ OnTurn /\ turn.sent = Len(old) /\ Cut(progress, Len(published), old)
      /\ IsPrefix(published, old) /\ shown[turn.number] = published
      /\ response[turn.number] = <<>> /\ turn.stage = "running"
  BY <1>2, <1>3, <1>5 DEF Running, OnTurn, TurnFits
<1>8. IsPrefix(old, new)
  BY <1>4, <1>5, <1>6
<1>9. PICK last \in Seq(Events) : last = SubSeq(new, Len(old) + 1, Len(new))
  <2>1. Len(old) \in 0..Len(new)
    BY <1>8, PrefixPointwise
  <2>2. SubSeq(new, Len(old) + 1, Len(new)) \in Seq(Events)
    BY <2>1, RestPointwise
  <2> QED
    BY <2>2
<1>10. progress' = Append(progress, last)
  BY <1>1, <1>6, <1>7, <1>9
<1>11. progress' \in Seq(Seq(Events))
  BY <1>10, AppendProperties DEF SocketTyped
<1>12. Cut(progress', Len(published), new)
  <2>1. progress \in Seq(Seq(Events)) /\ Len(published) \in Nat
    BY DEF SocketTyped
  <2>2. Cut(Append(progress, SubSeq(new, Len(old) + 1, Len(new))), Len(published), new)
    BY <2>1, <1>7, <1>8, CutGrows
  <2> QED
    BY <2>2, <1>9, <1>10
<1>13. published \in Seq(Events) /\ IsPrefix(published, new)
  BY <1>7, <1>8, PrefixTransitive DEF SocketTyped
<1>14. /\ turn' \in TurnType /\ turn'.number = turn.number /\ turn'.stage = turn.stage
       /\ turn'.summary = summary /\ turn'.sent = Len(new)
  <2>1. PICK size \in Nat : size = Len(new)
    OBVIOUS
  <2>2. turn' = [turn EXCEPT !.summary = summary, !.sent = size]
    BY <2>1, <1>1, <1>6
  <2>3. turn \in TurnType
    BY DEF SocketTyped
  <2>4. turn' \in TurnType /\ turn'.number = turn.number /\ turn'.stage = turn.stage
    BY <2>2, <2>3, <1>4 DEF TurnType
  <2>5. turn'.summary = summary /\ turn'.sent = size
    BY <2>2, <2>3 DEF TurnType
  <2> QED
    BY <2>1, <2>4, <2>5
<1>15. TurnFits'
  <2>1. /\ published' = published /\ shown' = shown /\ frames' = frames /\ base' = base
        /\ response' = response
    BY <1>2 DEF TurnOnly
  <2> QED
    BY <2>1, <1>6, <1>7, <1>12, <1>13, <1>14 DEF TurnFits
<1> QED
  BY <1>2, <1>7, <1>11, <1>14, <1>15, TurnKeeps DEF SocketTyped

LEMMA OtherPageKeeps ==
  ASSUME SocketInv, TryNextPage \/ Fail
  PROVE  SocketInv'
<1> USE DEF SocketInv
<1>1. Running /\ TurnOnly /\ progress' = progress /\ response' = response
  BY DEF TryNextPage, Fail
<1>2. /\ turn' \in TurnType /\ turn'.number = turn.number /\ turn'.summary = turn.summary
      /\ turn'.sent = turn.sent /\ turn'.stage \in {"running", "failed"}
  <2>1. turn \in TurnType /\ turn.stage = "running"
    BY <1>1 DEF SocketTyped, Running
  <2>2. CASE TryNextPage
    <3>1. PICK page \in Nat : page = turn.page + 1
      BY <2>1 DEF TurnType
    <3>2. turn' = [turn EXCEPT !.page = page]
      BY <2>2, <3>1 DEF TryNextPage
    <3> QED
      BY <2>1, <3>2 DEF TurnType
  <2>3. CASE Fail
    <3>1. turn' = [turn EXCEPT !.stage = "failed"]
      BY <2>3 DEF Fail
    <3> QED
      BY <2>1, <3>1 DEF TurnType, Stages
  <2> QED
    BY <2>2, <2>3
<1>3. TurnFits'
  <2>1. /\ published' = published /\ shown' = shown /\ frames' = frames /\ base' = base
    BY <1>1 DEF TurnOnly
  <2>2. OnTurn /\ turn.stage # "answered"
    BY <1>1 DEF Running, OnTurn
  <2> QED
    BY <2>1, <2>2, <1>1, <1>2 DEF TurnFits
<1> QED
  BY <1>1, <1>2, <1>3, TurnKeeps DEF SocketTyped

\* Whatever is answered begins with what was published.
LEMMA AnsweringKeeps ==
  ASSUME SocketInv, Running, TurnOnly, progress' = progress,
         turn' = [turn EXCEPT !.stage = "answered"],
         NEW answer \in Seq(Events), response' = [response EXCEPT ![turn.number] = answer],
         IsPrefix(Prefix(turn.summary), answer), Whole(answer)
  PROVE  SocketInv'
<1> USE DEF SocketInv
<1>1. /\ turn' \in TurnType /\ turn'.number = turn.number /\ turn'.summary = turn.summary
      /\ turn'.sent = turn.sent /\ turn'.stage = "answered"
  BY DEF SocketTyped, TurnType, Stages
<1>2. OnTurn /\ turn.number \in Numbers
  BY DEF Running, OnTurn, ServingFits
<1>3. /\ response' \in [Numbers -> Seq(Events)] /\ response'[turn.number] = answer
      /\ \A n \in Numbers \ {turn.number} : response'[n] = response[n]
  BY <1>2 DEF SocketTyped
<1>4. TurnFits'
  <2>1. /\ published' = published /\ shown' = shown /\ frames' = frames /\ base' = base
    BY DEF TurnOnly
  <2> QED
    BY <2>1, <1>1, <1>2, <1>3 DEF TurnFits
<1> QED
  BY <1>1, <1>3, <1>4, TurnKeeps DEF SocketTyped

LEMMA AnswerKeeps ==
  ASSUME SocketInv, Answer
  PROVE  SocketInv'
<1>1. PICK before \in Seq(Statuses) : before = turn.summary
  BY DEF SocketInv, SocketTyped, TurnType
<1>2. PICK summary \in Grown(before) \cup {before} :
        response' = [response EXCEPT ![turn.number] = Complete(summary)]
  BY <1>1 DEF Answer
<1>3. /\ Running /\ TurnOnly /\ progress' = progress
      /\ turn' = [turn EXCEPT !.stage = "answered"]
  BY DEF Answer
<1>4. PICK old \in Seq(Events) : old = Prefix(before)
  BY PublicSummary
<1>5. summary \in Seq(Statuses) /\ IsPrefix(old, Prefix(summary))
  <2>1. CASE summary \in Grown(before)
    BY <2>1, <1>4, SummaryGrows
  <2>2. CASE summary = before
    <3>1. Len(old) <= Len(old) /\ \A i \in 1..Len(old) : old[i] = old[i]
      OBVIOUS
    <3>2. IsPrefix(old, old)
      BY <3>1, PrefixPointwise
    <3> QED
      BY <2>2, <3>2, <1>4
  <2> QED
    BY <2>1, <2>2
<1>6. PICK new \in Seq(Events) : new = Prefix(summary)
  BY <1>5, PublicSummary
<1>7. PICK answer \in Seq(Events) : answer = Complete(summary)
  BY <1>5, CompleteBegins
<1>8. answer # <<>> /\ Last(answer) = "completed" /\ IsPrefix(new, answer)
  BY <1>5, <1>6, <1>7, CompleteBegins
<1>9. IsPrefix(old, answer)
  BY <1>5, <1>6, <1>8, PrefixTransitive
<1>10. Whole(answer)
  BY <1>8 DEF Whole
<1>11. IsPrefix(Prefix(turn.summary), answer)
  BY <1>1, <1>4, <1>9
<1>12. response' = [response EXCEPT ![turn.number] = answer]
  BY <1>2, <1>7
<1> QED
  BY <1>3, <1>10, <1>11, <1>12, AnsweringKeeps

LEMMA RefuseContextKeeps ==
  ASSUME SocketInv, RefuseContext
  PROVE  SocketInv'
<1>1. PICK answer \in Seq(Events) : answer = <<"failed">>
  <2>1. <<"failed">> \in Seq(Events)
    BY DEF Events
  <2> QED
    BY <2>1
<1>2. /\ Running /\ TurnOnly /\ progress' = progress
      /\ turn' = [turn EXCEPT !.stage = "answered"]
      /\ response' = [response EXCEPT ![turn.number] = answer] /\ turn.summary = <<>>
  BY <1>1 DEF RefuseContext
<1>3. answer # <<>> /\ Len(answer) = 1 /\ answer[1] = "failed"
  BY <1>1
<1>4. Whole(answer)
  BY <1>3 DEF Whole, Last
<1>5. PICK public \in Seq(Events) : public = Prefix(turn.summary) /\ Len(public) = 0
  <2>1. turn.summary \in Seq(Statuses)
    BY DEF SocketInv, SocketTyped, TurnType
  <2>2. Prefix(turn.summary) \in Seq(Events) /\ Len(Prefix(turn.summary)) = 0
    BY <2>1, <1>2, PublicSummary
  <2> QED
    BY <2>2
<1>6. Len(public) <= Len(answer) /\ \A i \in 1..Len(public) : public[i] = answer[i]
  BY <1>3, <1>5
<1>7. IsPrefix(public, answer)
  BY <1>6, PrefixPointwise
<1> QED
  BY <1>2, <1>4, <1>5, <1>7, AnsweringKeeps

LEMMA TakeProgressKeeps ==
  ASSUME SocketInv, TakeProgress
  PROVE  SocketInv'
<1> USE DEF SocketInv
<1>1. /\ socket = "owned" /\ progress # <<>>
      /\ shown' = [shown EXCEPT ![turn.number] = @ \o Head(progress)]
      /\ published' = published \o Head(progress) /\ progress' = Tail(progress)
      /\ frames' = frames /\ inbox' = inbox /\ socket' = socket /\ upstream' = upstream
      /\ pending' = pending /\ base' = base /\ turn' = turn /\ response' = response /\ told' = told
  BY DEF TakeProgress
<1>2. OnTurn /\ OnTurn' /\ Taken' = Taken /\ turn.number = Taken /\ turn.number \in Numbers
  BY <1>1 DEF OnTurn, Taken, ServingFits
<1>3. Len(frames) \in Nat /\ Taken \in 1..Len(frames)
  BY <1>2 DEF Taken, SocketTyped, FramesFit, Numbers
<1>4. PICK public \in Seq(Events) : public = Prefix(turn.summary)
  BY PublicSummary DEF SocketTyped, TurnType
<1>5. /\ Cut(progress, Len(published), public) /\ IsPrefix(published, public)
      /\ shown[turn.number] = published
  BY <1>2, <1>4 DEF TurnFits
<1>6. progress \in Seq(Seq(Events)) /\ published \in Seq(Events)
  BY DEF SocketTyped
<1>7. /\ published' \in Seq(Events) /\ progress' \in Seq(Seq(Events))
      /\ IsPrefix(published', public) /\ Cut(progress', Len(published'), public)
  BY <1>1, <1>5, <1>6, CutTail
<1>8. /\ shown' \in [Numbers -> Seq(Events)] /\ shown'[turn.number] = published'
      /\ \A n \in Numbers \ {turn.number} : shown'[n] = shown[n]
  <2>1. PICK more \in Seq(Events) : more = published'
    BY <1>7
  <2>2. shown' = [shown EXCEPT ![turn.number] = more]
    BY <2>1, <1>1, <1>2, <1>5 DEF SocketTyped
  <2> QED
    BY <2>1, <2>2, <1>2 DEF SocketTyped
<1>9. SocketTyped'
  BY <1>1, <1>7, <1>8 DEF SocketTyped
<1>10. FramesFit'
  <2>1. \A n \in Numbers : n > Taken' => n # turn.number
    BY <1>2, <1>3
  <2> QED
    BY <2>1, <1>1, <1>2, <1>8 DEF FramesFit
<1>11. ServingFits'
  BY <1>1, <1>2 DEF ServingFits
<1>12. Len(upstream.waiting) = 0 /\ upstream.waiting \in Seq(Numbers)
  BY <1>2 DEF ServingFits, SocketTyped, UpstreamType
<1>13. WaitingFits'
  BY <1>1, <1>12 DEF WaitingFits
<1>14. ShownFits'
  BY <1>1, <1>2, <1>8 DEF ShownFits
<1>15. TurnFits'
  BY <1>1, <1>2, <1>4, <1>7, <1>8 DEF TurnFits
<1>16. BaseFits'
  <2>1. base # 0 => base \in Numbers /\ base # turn.number
    BY <1>1, <1>2, <1>3 DEF BaseFits, SocketTyped, Numbers
  <2> QED
    BY <1>1, <1>2, <1>8, <2>1 DEF BaseFits
<1>17. ResponsesFit'
  <2> SUFFICES ASSUME NEW n \in Numbers, response[n] # <<>>
               PROVE  n <= Len(frames) /\ frames[n].kind \in Owned /\ IsPrefix(shown'[n], response[n])
    BY <1>1 DEF ResponsesFit
  <2>1. n <= Len(frames) /\ frames[n].kind \in Owned /\ IsPrefix(shown[n], response[n])
    BY DEF ResponsesFit
  <2>2. CASE n # turn.number
    BY <2>1, <2>2, <1>8
  <2>3. CASE n = turn.number
    <3>1. IsPrefix(public, response[n]) /\ response[n] \in Seq(Events)
      BY <2>3, <1>2, <1>4 DEF TurnFits, SocketTyped
    <3>2. IsPrefix(published', response[n])
      BY <3>1, <1>7, PrefixTransitive
    <3> QED
      BY <2>1, <2>3, <3>2, <1>8
  <2> QED
    BY <2>2, <2>3
<1> QED
  BY <1>9, <1>10, <1>11, <1>13, <1>14, <1>15, <1>16, <1>17

LEMMA FrontPointwise ==
  ASSUME NEW S, NEW s \in Seq(S), NEW k \in 0..Len(s)
  PROVE  /\ SubSeq(s, 1, k) \in Seq(S) /\ Len(SubSeq(s, 1, k)) = k
         /\ \A i \in 1..k : SubSeq(s, 1, k)[i] = s[i]
<1>1. Len(s) \in Nat /\ k \in Int /\ 1 \in Int /\ \A i \in 1..k : s[i] \in S
  OBVIOUS
<1>2. /\ SubSeq(s, 1, k) \in Seq(S)
      /\ Len(SubSeq(s, 1, k)) = IF 1 <= k THEN k - 1 + 1 ELSE 0
      /\ \A i \in 1..(k - 1 + 1) : SubSeq(s, 1, k)[i] = s[1 + i - 1]
  BY <1>1, SubSeqProperties
<1>3. k - 1 + 1 = k /\ \A i \in 1..k : 1 + i - 1 = i
  BY <1>1
<1> QED
  BY <1>1, <1>2, <1>3

\* A part that goes on where the published events end.
LEMMA PartContinues ==
  ASSUME NEW S, NEW got \in Seq(S), NEW all \in Seq(S), IsPrefix(got, all),
         NEW part \in Seq(S), Len(got) + Len(part) <= Len(all),
         \A i \in 1..Len(part) : part[i] = all[Len(got) + i]
  PROVE  /\ got \o part \in Seq(S)
         /\ IsPrefix(got \o part, all)
         /\ Len(got) + Len(part) = Len(all) => got \o part = all
<1>1. Len(got) \in 0..Len(all) /\ \A i \in 1..Len(got) : got[i] = all[i]
  BY PrefixPointwise
<1>2. PICK sum \in Seq(S) : sum = got \o part
  BY ConcatPointwise
<1>3. /\ Len(sum) = Len(got) + Len(part) /\ \A i \in 1..Len(got) : sum[i] = got[i]
      /\ \A i \in 1..Len(part) : sum[Len(got) + i] = part[i]
  BY <1>2, ConcatPointwise
<1>4. Len(got) \in Nat /\ Len(all) \in Nat /\ Len(part) \in Nat /\ Len(sum) <= Len(all)
  BY <1>3
<1>5. \A i \in 1..Len(sum) : sum[i] = all[i]
  <2> TAKE i \in 1..Len(sum)
  <2>1. CASE i <= Len(got)
    BY <2>1, <1>1, <1>3, <1>4
  <2>2. CASE i > Len(got)
    <3>1. PICK j \in 1..Len(part) : i = Len(got) + j
      <4>1. i - Len(got) \in 1..Len(part) /\ i = Len(got) + (i - Len(got))
        BY <2>2, <1>3, <1>4
      <4> QED
        BY <4>1
    <3> QED
      BY <3>1, <1>3
  <2> QED
    BY <2>1, <2>2, <1>4
<1>6. IsPrefix(sum, all)
  BY <1>4, <1>5, PrefixPointwise
<1>7. Len(got) + Len(part) = Len(all) => sum = all
  BY <1>3, <1>5, SeqEqual
<1> QED
  BY <1>2, <1>6, <1>7

LEMMA TakeResponseKeeps ==
  ASSUME SocketInv, TakeResponse
  PROVE  SocketInv'
<1> USE DEF SocketInv
<1>1. /\ socket = "owned" /\ OnTurn /\ turn.number = Taken /\ turn.number \in Numbers
      /\ turn.stage = "answered" /\ frames[turn.number].kind \in Owned /\ pending = 0
  BY DEF TakeResponse, OnTurn, ServingFits
<1>2. PICK n \in Numbers : n = turn.number
  BY <1>1
<1>3. PICK all \in Seq(Events) : all = response[n]
  BY DEF SocketTyped
<1>4. PICK public \in Seq(Events) : public = Prefix(turn.summary)
  BY PublicSummary DEF SocketTyped, TurnType
<1>5. /\ IsPrefix(published, public) /\ IsPrefix(public, all) /\ Whole(all)
      /\ shown[n] = published /\ published \in Seq(Events)
  BY <1>1, <1>2, <1>3, <1>4 DEF TurnFits, SocketTyped
<1>6. IsPrefix(published, all)
  BY <1>5, PrefixTransitive
<1>7. PICK rest \in Seq(Events) : rest = SubSeq(all, Len(published) + 1, Len(all))
  <2>1. Len(published) \in 0..Len(all)
    BY <1>5, <1>6, PrefixPointwise
  <2>2. SubSeq(all, Len(published) + 1, Len(all)) \in Seq(Events)
    BY <2>1, RestPointwise
  <2> QED
    BY <2>2
<1>8. PICK k \in 0..Len(rest) :
        /\ shown' = [shown EXCEPT ![n] = @ \o SubSeq(rest, 1, k)]
        /\ IF k < Len(rest) THEN socket' = "closed" /\ base' = base
           ELSE /\ socket' = "relay"
                /\ base' = IF Last(all) = "failed" \/ frames[n].kind = "compact" THEN 0 ELSE n
  BY <1>2, <1>3, <1>6, <1>7 DEF TakeResponse, Kind
<1>9. /\ turn' = NoTurn /\ progress' = <<>>
      /\ inbox' = IF socket' = "closed" THEN <<>> ELSE inbox
      /\ frames' = frames /\ upstream' = upstream /\ pending' = pending
      /\ published' = published /\ response' = response /\ told' = told
  BY <1>2, <1>3, <1>6 DEF TakeResponse
<1>10. PICK seen \in Seq(Events) : /\ seen = published \o SubSeq(rest, 1, k)
                                   /\ IsPrefix(seen, all)
                                   /\ k = Len(rest) => seen = all
  <2>1. PICK got \in Seq(Events) : got = published
    BY <1>5
  <2>2. IsPrefix(got, all) /\ Len(got) \in 0..Len(all)
    BY <2>1, <1>6, PrefixPointwise
  <2>3. Len(rest) = Len(all) - Len(got) /\ \A i \in 1..Len(rest) : rest[i] = all[Len(got) + i]
    BY <2>1, <2>2, <1>7, RestPointwise
  <2>4. PICK part \in Seq(Events) :
          part = SubSeq(rest, 1, k) /\ Len(part) = k /\ \A i \in 1..k : part[i] = rest[i]
    <3>1. /\ SubSeq(rest, 1, k) \in Seq(Events) /\ Len(SubSeq(rest, 1, k)) = k
          /\ \A i \in 1..k : SubSeq(rest, 1, k)[i] = rest[i]
      BY FrontPointwise
    <3> QED
      BY <3>1
  <2>5. Len(got) + Len(part) <= Len(all) /\ (k = Len(rest) => Len(got) + Len(part) = Len(all))
    BY <2>2, <2>3, <2>4
  <2>6. \A i \in 1..Len(part) : part[i] = all[Len(got) + i]
    <3>1. \A i \in 1..k : i \in 1..Len(rest)
      OBVIOUS
    <3> QED
      BY <3>1, <2>3, <2>4
  <2>7. /\ got \o part \in Seq(Events) /\ IsPrefix(got \o part, all)
        /\ Len(got) + Len(part) = Len(all) => got \o part = all
    BY <2>2, <2>5, <2>6, PartContinues
  <2> QED
    BY <2>1, <2>4, <2>5, <2>7
<1>11. socket' \in {"relay", "closed"} /\ (socket' = "closed" => base' = base)
       /\ (socket' = "relay" =>
             /\ seen = all
             /\ base' = IF Last(all) = "failed" \/ frames[n].kind = "compact" THEN 0 ELSE n)
  <2>1. PICK size \in Nat : size = Len(rest)
    OBVIOUS
  <2>2. k \in 0..size
    BY <2>1
  <2>3. CASE k < size
    BY <2>1, <2>3, <1>8
  <2>4. CASE k = size
    <3>1. seen = all
      BY <2>1, <2>4, <1>10
    <3>2. ~(k < Len(rest))
      BY <2>1, <2>4
    <3> QED
      BY <3>1, <3>2, <1>8
  <2> QED
    BY <2>2, <2>3, <2>4
<1>12. /\ shown' \in [Numbers -> Seq(Events)] /\ shown'[n] = seen
       /\ \A m \in Numbers \ {n} : shown'[m] = shown[m]
  <2>1. shown' = [shown EXCEPT ![n] = seen]
    BY <1>5, <1>8, <1>10 DEF SocketTyped
  <2> QED
    BY <2>1 DEF SocketTyped
<1>13. ~OnTurn'
  BY <1>9 DEF OnTurn, NoTurn
<1>14. /\ Len(frames) \in Nat /\ Taken \in 1..Len(frames) /\ n = Taken
       /\ IF socket' = "closed" THEN Taken' = Len(frames) /\ inbox' = <<>>
          ELSE Taken' = Taken /\ inbox' = inbox
  BY <1>1, <1>2, <1>9 DEF Taken, SocketTyped, FramesFit, Numbers
<1>15. n <= MaxFrames /\ n \in 0..MaxFrames
  BY SocketAssumption DEF Numbers
<1>16. SocketTyped'
  <2>1. NoTurn \in TurnType
    BY SocketAssumption DEF NoTurn, TurnType, Stages
  <2>2. <<>> \in Seq(Seq(Events)) /\ <<>> \in Seq(Numbers)
    OBVIOUS
  <2>3. base' \in 0..MaxFrames
    <3>1. base \in 0..MaxFrames /\ 0 \in 0..MaxFrames
      BY SocketAssumption DEF SocketTyped
    <3> QED
      BY <3>1, <1>11, <1>15
  <2>4. inbox' \in Seq(Numbers)
    BY <1>14, <2>2 DEF SocketTyped
  <2> QED
    BY <1>9, <1>11, <1>12, <2>1, <2>2, <2>3, <2>4 DEF SocketTyped
<1>17. FramesFit'
  <2>1. \A m \in Numbers : m > Taken' => m > Taken /\ m # n
    BY <1>14 DEF Numbers
  <2>2. \A i \in DOMAIN inbox' : inbox'[i] = Taken' + i
    <3>1. CASE socket' = "closed"
      BY <3>1, <1>14
    <3>2. CASE socket' # "closed"
      BY <3>2, <1>14 DEF FramesFit
    <3> QED
      BY <3>1, <3>2
  <2>3. Len(inbox') <= Len(frames)
    BY <1>14 DEF FramesFit
  <2> QED
    BY <2>1, <2>2, <2>3, <1>9, <1>12 DEF FramesFit
<1>18. ServingFits'
  BY <1>9, <1>11, <1>13 DEF ServingFits
<1>19. Len(upstream.waiting) = 0 /\ upstream.waiting \in Seq(Numbers)
  BY <1>1 DEF ServingFits, SocketTyped, UpstreamType
<1>20. WaitingFits'
  BY <1>9, <1>19 DEF WaitingFits
<1>21. ShownFits'
  <2> SUFFICES ASSUME socket' = "relay", NEW m \in Numbers
               PROVE  shown'[m] = <<>> \/ Whole(shown'[m])
    BY <1>11 DEF ShownFits
  <2>1. CASE m = n
    BY <2>1, <1>5, <1>11, <1>12
  <2>2. CASE m # n
    <3>1. shown[m] = <<>> \/ Whole(shown[m])
      BY <2>2, <1>1, <1>2, <1>19 DEF ShownFits
    <3> QED
      BY <2>2, <3>1, <1>12
  <2> QED
    BY <2>1, <2>2
<1>22. TurnFits'
  BY <1>13 DEF TurnFits
<1>23. BaseFits'
  <2>1. CASE socket' = "closed"
    <3>1. base # 0 => base \in Numbers /\ base # n
      BY <1>1, <1>14 DEF BaseFits, SocketTyped, Numbers
    <3> QED
      BY <2>1, <3>1, <1>9, <1>11, <1>12 DEF BaseFits
  <2>2. CASE socket' = "relay" /\ base' # 0
    <3>1. base' = n /\ Last(all) # "failed" /\ frames[n].kind # "compact"
      BY <2>2, <1>11
    <3>2. all # <<>> /\ Last(all) = "completed"
      BY <3>1, <1>5 DEF Whole
    <3>3. frames[n].kind \in {"generate", "warmup"}
      BY <3>1, <1>1, <1>2 DEF Owned
    <3>4. n = Taken' /\ n <= Len(frames)
      BY <2>2, <1>14
    <3>5. shown'[n] = response'[n] /\ response'[n] = all
      BY <2>2, <1>3, <1>9, <1>11, <1>12
    <3> QED
      BY <3>1, <3>2, <3>3, <3>4, <3>5, <1>9, <1>13 DEF BaseFits
  <2>3. CASE base' = 0
    BY <2>3 DEF BaseFits
  <2> QED
    BY <2>1, <2>2, <2>3, <1>11
<1>24. ResponsesFit'
  <2> SUFFICES ASSUME NEW m \in Numbers, response[m] # <<>>
               PROVE  m <= Len(frames) /\ frames[m].kind \in Owned /\ IsPrefix(shown'[m], response[m])
    BY <1>9 DEF ResponsesFit
  <2>1. m <= Len(frames) /\ frames[m].kind \in Owned /\ IsPrefix(shown[m], response[m])
    BY DEF ResponsesFit
  <2>2. CASE m # n
    BY <2>1, <2>2, <1>12
  <2>3. CASE m = n
    BY <2>1, <2>3, <1>3, <1>10, <1>12
  <2> QED
    BY <2>2, <2>3
<1> QED
  BY <1>16, <1>17, <1>18, <1>20, <1>21, <1>22, <1>23, <1>24

LEMMA SocketStep ==
  ASSUME SocketInv, [SocketNext]_socketVars
  PROVE  SocketInv'
<1>1. CASE UNCHANGED socketVars
  <2>1. /\ frames' = frames /\ inbox' = inbox /\ socket' = socket /\ upstream' = upstream
        /\ pending' = pending /\ base' = base /\ turn' = turn /\ progress' = progress
        /\ published' = published /\ response' = response /\ shown' = shown /\ told' = told
    BY <1>1 DEF socketVars
  <2>2. SocketTyped' /\ FramesFit' /\ ServingFits' /\ WaitingFits'
    BY <2>1 DEF SocketInv, SocketTyped, FramesFit, ServingFits, WaitingFits, Taken, OnTurn
  <2>3. ShownFits' /\ TurnFits'
    BY <2>1 DEF SocketInv, ShownFits, TurnFits, OnTurn
  <2>4. BaseFits' /\ ResponsesFit'
    BY <2>1 DEF SocketInv, BaseFits, ResponsesFit, OnTurn, Taken
  <2> QED
    BY <2>2, <2>3, <2>4 DEF SocketInv
<1>2. ASSUME NEW frame \in FrameType, ClientSends(frame) PROVE SocketInv'
  BY <1>2, ClientSendsKeeps
<1>3. CASE ClientLeaves \/ ReadBinary \/ NativeIntrudes \/ TakeFailure
  BY <1>3, CloseKeeps DEF ClientLeaves, ReadBinary, NativeIntrudes, TakeFailure
<1>4. CASE ClientIntrudes
  <2>1. Close("none") \/ Close("busy")
    BY <1>4 DEF ClientIntrudes
  <2> QED
    BY <2>1, CloseKeeps
<1>5. CASE ReadOwned
  BY <1>5, ReadOwnedKeeps
<1>6. CASE ReadNative
  BY <1>6, ReadNativeKeeps
<1>7. CASE NativeEvent
  BY <1>7, NativeEventKeeps
<1>8. CASE NativeEnds
  BY <1>8, NativeEndsKeeps
<1>9. CASE PublishStatus
  BY <1>9, PublishStatusKeeps
<1>10. CASE TryNextPage \/ Fail
  BY <1>10, OtherPageKeeps
<1>11. CASE Answer
  BY <1>11, AnswerKeeps
<1>12. CASE RefuseContext
  BY <1>12, RefuseContextKeeps
<1>13. CASE TakeProgress
  BY <1>13, TakeProgressKeeps
<1>14. CASE TakeResponse
  BY <1>14, TakeResponseKeeps
<1> QED
  BY <1>1, <1>2, <1>3, <1>4, <1>5, <1>6, <1>7, <1>8, <1>9, <1>10, <1>11, <1>12, <1>13, <1>14
     DEF SocketNext

LEMMA SocketAlways == SocketSpec => []SocketInv
<1>1. SocketInit => SocketInv
  BY SocketStarts
<1>2. SocketInv /\ [SocketNext]_socketVars => SocketInv'
  BY SocketStep
<1> QED
  BY <1>1, <1>2, PTL DEF SocketSpec

\* What the client was sent of a response is a beginning of it, whatever the turn went
\* through, so that the comparison at the end of serve_owned never fails.
THEOREM EventsStay == SocketSpec => []EventsAreNeverRevised
<1>1. SocketInv => EventsAreNeverRevised
  BY DEF SocketInv, SocketTyped, ResponsesFit, EventsAreNeverRevised
<1> QED
  BY <1>1, SocketAlways, PTL

\* One response at a time reaches the client, and a request builds only on what its own
\* side answered and the client has.
THEOREM SidesStayApart == SocketSpec => []SidesDoNotMix
<1>1. ASSUME SocketInv
      PROVE  SidesDoNotMix
  <2> USE <1>1 DEF SocketInv
  <2>1. socket # "closed" =>
          Cardinality({n \in Numbers : shown[n] # <<>> /\ ~Whole(shown[n])}) <= 1
    <3> DEFINE open == {n \in Numbers : shown[n] # <<>> /\ ~Whole(shown[n])}
    <3> SUFFICES ASSUME socket # "closed"
                 PROVE  Cardinality(open) <= 1
      OBVIOUS
    <3>1. PICK x : open \subseteq {x}
      <4>1. CASE OnTurn
        <5>1. Len(upstream.waiting) = 0
          BY <4>1 DEF ServingFits
        <5>2. open \subseteq {turn.number}
          BY <4>1, <5>1 DEF ShownFits
        <5> QED
          BY <5>2
      <4>2. CASE ~OnTurn
        <5>1. open \subseteq {upstream.waiting[1]}
          BY <4>2 DEF ShownFits
        <5> QED
          BY <5>1
      <4> QED
        BY <4>1, <4>2
    <3>2. IsFiniteSet({x}) /\ Cardinality({x}) = 1
      BY FS_Singleton
    <3> HIDE DEF open
    <3> QED
      BY <3>1, <3>2, FS_Subset
  <2>2. \A n \in ToSet(upstream.waiting) : ~RefersToOurs(frames[n])
    BY DEF WaitingFits, RefersToOurs, ToSet
  <2>3. ASSUME turn.stage # "idle", frames[turn.number].previous # 0
        PROVE  LET n == turn.number  p == frames[n].previous IN
               /\ frames[p].kind \in {"generate", "warmup"} /\ frames[p].settings = frames[n].settings
               /\ shown[p] = response[p] /\ Last(shown[p]) = "completed"
               /\ \A m \in (p + 1)..(n - 1) : shown[m] = <<>>
    <3>1. /\ OnTurn /\ socket = "owned" /\ turn.number = Taken /\ Taken \in Int
          /\ base = frames[turn.number].previous
          /\ frames[base].settings = frames[turn.number].settings
      BY <2>3 DEF OnTurn, ServingFits, TurnFits, Taken, SocketTyped
    <3>2. /\ base = Taken - 1 /\ frames[base].kind \in {"generate", "warmup"}
          /\ shown[base] = response[base] /\ Last(response[base]) = "completed"
      BY <3>1, <2>3 DEF BaseFits
    <3>3. (base + 1)..(turn.number - 1) = {}
      BY <3>1, <3>2
    <3> QED
      BY <3>1, <3>2, <3>3
  <2> QED
    BY <2>1, <2>2, <2>3 DEF SidesDoNotMix
<1> QED
  BY <1>1, SocketAlways, PTL
-----------------------------------------------------------------------------
(* The report of the integration's health (Health).                        *)

Found == Failures \cup {"verified", "auth", "unavailable"}
Results == Outcomes \cup {"none", "success", "error"}
NativeType == [stage : {"sent", "streaming", "connected", "ended"}, outcome : Results,
               client : Clients \cup {"none"}, generation : 0..2, efforts : {"one", "all"},
               recorded : BOOLEAN, served : BOOLEAN]

ProviderType == [slot : {"pending", "ready", "failed"}, seen : Found, open : BOOLEAN,
                 generation : 0..2, instance : Nat, efforts : {"one", "all"}]
LatestType == [sequence : Nat, outcome : Results]
CatalogsType == [Clients -> [generation : 0..2, efforts : {"one", "all"}, valid : BOOLEAN]]
RequestsType == [Clients -> {"none", "ok", "failed"}]
Lives == {"idle", "draining", "drain failed", "pending restart"}
PollType == [stage : {"off", "provider", "clients", "lists"}, lifecycle : Lives,
             provider : Found \cup {"recovering"}, requests : RequestsType,
             lists : [Clients -> {"none", "valid", "invalid", "changed"}],
             pending : SUBSET [client : Clients, generation : 0..2]]

HealthTyped ==
  /\ provider \in ProviderType /\ natives \in Seq(NativeType) /\ latest \in LatestType
  /\ catalogs \in CatalogsType /\ poll \in PollType
  /\ requests \in RequestsType /\ lifecycle \in Lives

\* The last outcome is that of the newest request that has one; a list is recorded when it
\* is served, or before.
RequestsFit ==
  /\ \A n \in DOMAIN natives : natives[n].served => natives[n].recorded
  /\ \A n \in Reported : n <= latest.sequence
  /\ latest.outcome # "none" =>
       latest.sequence \in DOMAIN natives /\ natives[latest.sequence].outcome = latest.outcome

\* A client that has a valid list was served that list.
WasServed(c, generation) ==
  \E n \in DOMAIN natives :
    natives[n].client = c /\ natives[n].served /\ natives[n].generation = generation

ListsFit == \A c \in Clients : catalogs[c].valid => WasServed(c, catalogs[c].generation)

\* What a poll has read and found current did hold at some time since it began.
PollFits ==
  /\ held \subseteq {"provider", "client"}
  /\ poll.stage \in {"clients", "lists"} /\ poll.provider = "verified" => "provider" \in held
  /\ poll.stage = "lists" =>
       /\ \A c \in Clients :
            /\ poll.lists[c] = "none" /\ poll.requests[c] = "ok" => "client" \in held
            /\ poll.lists[c] = "valid" => "client" \in held \/ \E p \in poll.pending : p.client = c
       /\ \A p \in poll.pending :
            poll.lists[p.client] = "valid" => WasServed(p.client, p.generation)

\* None of this can be read off the property: the report remembers, the world moves on.
HealthInv == HealthTyped /\ RequestsFit /\ ListsFit /\ PollFits

\* As long as nothing that was served is forgotten, a poll may rely on what it has read.
LEMMA PollRests ==
  ASSUME HealthInv, poll' = poll, Watch,
         \A c, g : WasServed(c, g) => WasServed(c, g)'
  PROVE  PollFits'
<1>1. held' \subseteq {"provider", "client"} /\ (poll'.stage # "off" => held \subseteq held')
  BY DEF Watch, HealthInv, PollFits
<1>2. poll'.stage \in {"clients", "lists"} /\ poll'.provider = "verified" => "provider" \in held'
  BY <1>1 DEF HealthInv, PollFits
<1>3. ASSUME poll'.stage = "lists"
      PROVE  /\ \A c \in Clients :
                  /\ poll'.lists[c] = "none" /\ poll'.requests[c] = "ok" => "client" \in held'
                  /\ poll'.lists[c] = "valid" =>
                       "client" \in held' \/ \E p \in poll'.pending : p.client = c
             /\ \A p \in poll'.pending :
                  poll'.lists[p.client] = "valid" => WasServed(p.client, p.generation)'
  <2>1. held \subseteq held' /\ poll.stage = "lists"
    BY <1>1, <1>3
  <2> QED
    BY <2>1 DEF HealthInv, PollFits
<1> QED
  BY <1>1, <1>2, <1>3 DEF PollFits

\* Steps of the provider, of the turns and of the connection.
LEMMA QuietKeeps ==
  ASSUME HealthInv, Watch, UNCHANGED <<native, catalogs, reading>>,
         provider' \in ProviderType, requests' \in RequestsType, lifecycle' \in Lives
  PROVE  HealthInv'
<1>1. natives' = natives /\ latest' = latest /\ catalogs' = catalogs /\ poll' = poll
  BY DEF native, reading
<1>2. HealthTyped'
  BY <1>1 DEF HealthInv, HealthTyped
<1>3. RequestsFit' /\ ListsFit' /\ \A c, g : WasServed(c, g) => WasServed(c, g)'
  BY <1>1 DEF HealthInv, RequestsFit, ListsFit, WasServed, Reported
<1> QED
  BY <1>1, <1>2, <1>3, PollRests DEF HealthInv

LEMMA ProviderKeeps ==
  ASSUME HealthInv, Watch, RecoveryEnds \/ Retry \/ BrowserCloses \/ Maintain \/ FinishLogin
                           \/ MaintenanceEnds \/ Drained
  PROVE  HealthInv'
<1>1. Found = Failures \cup {"verified", "auth", "unavailable"}
  BY DEF Found
<1>2. provider \in ProviderType /\ requests \in RequestsType /\ lifecycle \in Lives
  BY DEF HealthInv, HealthTyped, ProviderType, RequestsType, Lives
<1>3. provider' \in ProviderType
  <2>1. provider.instance \in Nat
    BY <1>2 DEF ProviderType
  <2>2. /\ provider.instance + 1 \in Nat /\ 1 \in 0..2 /\ 2 \in 0..2
        /\ \A seen \in Failures : seen \in Found
        /\ "verified" \in Found /\ "auth" \in Found
    <3>1. (\A k \in Nat : k + 1 \in Nat) /\ 1 \in 0..2 /\ 2 \in 0..2
      OBVIOUS
    <3>2. (\A seen \in Failures : seen \in Found) /\ "verified" \in Found /\ "auth" \in Found
      BY <1>1
    <3> QED
      BY <2>1, <3>1, <3>2
  <2>3. ASSUME NEW slot \in {"pending", "ready", "failed"}, NEW seen \in Found
        PROVE  [provider EXCEPT !.slot = slot, !.seen = seen] \in ProviderType
    BY <1>2 DEF ProviderType
  <2>4. ASSUME NEW slot \in {"pending", "ready", "failed"}
        PROVE  [provider EXCEPT !.slot = slot] \in ProviderType
    BY <1>2 DEF ProviderType
  <2>5. CASE RecoveryEnds
    <3>1. CASE provider' = [provider EXCEPT !.slot = "ready", !.seen = "verified", !.open = TRUE,
                              !.generation = 1, !.instance = @ + 1]
      BY <1>2, <2>2, <3>1 DEF ProviderType
    <3>2. CASE \E seen \in Failures : provider' = [provider EXCEPT !.slot = "failed", !.seen = seen]
      <4>1. PICK seen \in Failures : provider' = [provider EXCEPT !.slot = "failed", !.seen = seen]
        BY <3>2
      <4> QED
        BY <2>2, <2>3, <4>1
    <3> QED
      BY <2>5, <3>1, <3>2 DEF RecoveryEnds
  <2>8. CASE Retry \/ BrowserCloses \/ FinishLogin
    <3>1. [provider EXCEPT !.open = FALSE] \in ProviderType
      BY <1>2 DEF ProviderType
    <3> QED
      BY <2>8, <3>1, <2>4 DEF Retry, BrowserCloses, FinishLogin
  <2>9. CASE MaintenanceEnds
    <3>1. CASE provider' = [provider EXCEPT !.seen = "verified", !.generation = 2,
                              !.instance = @ + 1, !.efforts = "all"]
      BY <1>2, <2>2, <3>1 DEF ProviderType
    <3>2. [provider EXCEPT !.slot = "failed", !.seen = "auth"] \in ProviderType
      BY <2>2, <2>3
    <3> QED
      BY <1>2, <2>9, <3>1, <3>2 DEF MaintenanceEnds
  <2>6. CASE Drained
    BY <1>1, <1>2, <2>6 DEF Drained, ProviderType
  <2>7. CASE Maintain
    BY <1>2, <2>7 DEF Maintain
  <2> QED
    BY <2>5, <2>6, <2>7, <2>8, <2>9
<1>4. UNCHANGED <<native, catalogs, reading>> /\ requests' = requests
  BY DEF RecoveryEnds, Retry, BrowserCloses, Maintain, FinishLogin, MaintenanceEnds, Drained,
         native, activity, reading
<1>5. lifecycle' \in Lives
  BY <1>2 DEF RecoveryEnds, Retry, BrowserCloses, Maintain, FinishLogin, MaintenanceEnds, Drained,
              connection, Lives
<1> QED
  BY <1>2, <1>3, <1>4, <1>5, QuietKeeps

LEMMA TurnsKeep ==
  ASSUME HealthInv, Watch, NEW c \in Clients,
         StartTurn(c) \/ CancelTurn(c) \/ Respond(c) \/ Record(c) \/ Disconnect \/ StopAdmission
  PROVE  HealthInv'
<1> USE DEF HealthInv, HealthTyped, native, activity, connection, reading
<1>2. provider \in ProviderType /\ requests \in RequestsType /\ lifecycle \in Lives
  BY DEF ProviderType, RequestsType, Lives
<1>3. provider' \in ProviderType
  <2>1. CASE Respond(c)
    <3>1. PICK evidence \in Failures \cup {"verified", "none"} :
            provider' = IF evidence # "none" /\ provider.slot = "ready"
                             /\ turns[c].instance = provider.instance
                        THEN [provider EXCEPT !.seen = evidence] ELSE provider
      BY <2>1 DEF Respond
    <3>2. evidence # "none" => evidence \in Found
      BY DEF Found
    <3> QED
      BY <3>1, <3>2, <1>2 DEF ProviderType
  <2>2. CASE ~Respond(c)
    BY <2>2, <1>2 DEF StartTurn, CancelTurn, Record, Disconnect, StopAdmission
  <2> QED
    BY <2>1, <2>2
<1>4. UNCHANGED <<native, catalogs, reading>>
  BY DEF StartTurn, CancelTurn, Respond, Record, Disconnect, StopAdmission
<1>5. requests' \in RequestsType
  BY <1>2 DEF StartTurn, CancelTurn, Respond, Record, Disconnect, StopAdmission, RequestsType
<1>6. lifecycle' \in Lives
  BY <1>2 DEF StartTurn, CancelTurn, Respond, Record, Disconnect, StopAdmission, Lives
<1> QED
  BY <1>3, <1>4, <1>5, <1>6, QuietKeeps

\* The native requests one by one: what a step does to request n, and to the last outcome.
LEMMA RequestKeeps ==
  ASSUME HealthInv, NEW n \in DOMAIN natives, NEW r \in NativeType,
         natives' = [natives EXCEPT ![n] = r], r.client = natives[n].client,
         r.generation = natives[n].generation, natives[n].served => r.served,
         r.served => r.recorded,
         \/ latest' = latest /\ r.outcome = natives[n].outcome
         \/ Observe(n, r.outcome) /\ r.outcome # "none"
  PROVE  /\ natives' \in Seq(NativeType) /\ latest' \in LatestType
         /\ RequestsFit' /\ \A c, g : WasServed(c, g) => WasServed(c, g)'
<1>0. natives \in Seq(NativeType) /\ latest \in LatestType /\ RequestsFit
  BY DEF HealthInv, HealthTyped
<1>1. /\ natives' \in Seq(NativeType) /\ DOMAIN natives' = DOMAIN natives
      /\ n \in Nat /\ DOMAIN natives \subseteq Nat
      /\ natives'[n] = r /\ \A m \in DOMAIN natives : m # n => natives'[m] = natives[m]
  BY <1>0
<1>2. latest' \in LatestType
  <2>1. r.outcome \in Results
    BY DEF NativeType
  <2> QED
    BY <1>0, <1>1, <2>1 DEF Observe, LatestType
<1>3. \A c, g : WasServed(c, g) => WasServed(c, g)'
  BY <1>1 DEF WasServed
<1>4. RequestsFit'
  <2>0. \A m \in DOMAIN natives' : natives'[m].served => natives'[m].recorded
    BY <1>0, <1>1 DEF RequestsFit
  <2>1. CASE latest' = latest /\ r.outcome = natives[n].outcome
    <3>1. Reported' = Reported
      BY <1>1, <2>1 DEF Reported
    <3> QED
      BY <1>0, <1>1, <2>0, <2>1, <3>1 DEF RequestsFit
  <2>2. CASE Observe(n, r.outcome) /\ r.outcome # "none"
    <3>1. latest.sequence \in Nat
      BY <1>0 DEF LatestType
    <3>2. CASE n >= latest.sequence
      <4>1. latest'.sequence = n /\ latest'.outcome = r.outcome
        BY <1>0, <2>2, <3>2 DEF Observe, LatestType
      <4>2. \A m \in Reported' : m <= n
        <5>1. \A m \in Reported' : m = n \/ m \in Reported
          BY <1>1 DEF Reported
        <5>2. \A m \in Reported : m \in Nat /\ m <= latest.sequence
          BY <1>0, <1>1 DEF Reported, RequestsFit
        <5> QED
          BY <5>1, <5>2, <3>1, <3>2, <1>1
      <4> QED
        BY <2>0, <4>1, <4>2, <1>1 DEF RequestsFit
    <3>3. CASE ~(n >= latest.sequence)
      <4>1. latest' = latest
        BY <2>2, <3>3 DEF Observe
      <4>2. n # latest.sequence /\ n <= latest.sequence
        BY <3>1, <3>3, <1>1
      <4>3. \A m \in Reported' : m = n \/ m \in Reported
        BY <1>1 DEF Reported
      <4> QED
        BY <1>0, <2>0, <4>1, <4>2, <4>3, <1>1 DEF RequestsFit
    <3> QED
      BY <3>2, <3>3
  <2> QED
    BY <2>1, <2>2
<1> QED
  BY <1>1, <1>2, <1>3, <1>4

\* A new request has no outcome and served nobody.
LEMMA BeginKeeps ==
  ASSUME HealthInv, NEW client \in Clients \cup {"none"}, NEW generation \in 0..2,
         NEW efforts \in {"one", "all"}, Begin(client, generation, efforts), latest' = latest
  PROVE  /\ natives' \in Seq(NativeType) /\ latest' \in LatestType
         /\ RequestsFit' /\ \A c, g : WasServed(c, g) => WasServed(c, g)'
<1>0. natives \in Seq(NativeType) /\ latest \in LatestType /\ RequestsFit
  BY DEF HealthInv, HealthTyped
<1> DEFINE r == [stage |-> "sent", outcome |-> "none", client |-> client,
                 generation |-> generation, efforts |-> efforts,
                 recorded |-> FALSE, served |-> FALSE]
<1>1. r \in NativeType
  BY DEF NativeType, Results
<1>2. natives' = Append(natives, r)
  BY DEF Begin
<1>3. /\ natives' \in Seq(NativeType) /\ DOMAIN natives' = DOMAIN natives \cup {Len(natives) + 1}
      /\ natives'[Len(natives) + 1] = r /\ \A m \in DOMAIN natives : natives'[m] = natives[m]
  <2> HIDE DEF r
  <2> QED
    BY <1>0, <1>1, <1>2
<1>4. Reported' = Reported
  <2>1. r.outcome = "none"
    OBVIOUS
  <2> HIDE DEF r
  <2> QED
    BY <1>3, <2>1 DEF Reported
<1>5. RequestsFit'
  <2>1. ~r.served
    OBVIOUS
  <2> HIDE DEF r
  <2> QED
    BY <1>0, <1>3, <1>4, <2>1 DEF RequestsFit
<1>6. \A c, g : WasServed(c, g) => WasServed(c, g)'
  BY <1>3 DEF WasServed
<1>7. latest' \in LatestType
  BY <1>0
<1> QED
  BY <1>3, <1>5, <1>6, <1>7

\* The lists of the clients stay as they are.
LEMMA NativesRest ==
  ASSUME HealthInv, Watch, UNCHANGED <<provider, catalogs, requests, lifecycle, reading>>,
         natives' \in Seq(NativeType), latest' \in LatestType,
         RequestsFit', \A c, g : WasServed(c, g) => WasServed(c, g)'
  PROVE  HealthInv'
<1>1. poll' = poll
  BY DEF reading
<1>2. HealthTyped' /\ ListsFit'
  BY <1>1 DEF HealthInv, HealthTyped, ListsFit
<1> QED
  BY <1>1, <1>2, PollRests DEF HealthInv

LEMMA CatalogType ==
  ASSUME HealthInv
  PROVE  Catalog \in 0..2 /\ provider.efforts \in {"one", "all"}
<1>1. provider \in ProviderType
  BY DEF HealthInv, HealthTyped, ProviderType
<1>2. provider.generation \in 0..2 /\ provider.efforts \in {"one", "all"} /\ 0 \in 0..2
  BY <1>1 DEF ProviderType
<1> QED
  BY <1>2 DEF Catalog

LEMMA BeginsKeep ==
  ASSUME HealthInv, Watch, NEW c \in Clients, BeginNative \/ BeginList(c)
  PROVE  HealthInv'
<1>1. UNCHANGED <<provider, catalogs, requests, lifecycle, reading>> /\ latest' = latest
  BY DEF BeginNative, BeginList, activity, connection
<1>2. PICK client \in Clients \cup {"none"}, generation \in 0..2, efforts \in {"one", "all"} :
        Begin(client, generation, efforts)
  BY CatalogType DEF BeginNative, BeginList
<1> QED
  BY <1>1, <1>2, BeginKeeps, NativesRest

LEMMA RefuseListKeeps ==
  ASSUME HealthInv, Watch, NEW c \in Clients, RefuseList(c)
  PROVE  HealthInv'
<1>1. UNCHANGED <<provider, natives, latest, requests, lifecycle, poll>>
  BY DEF RefuseList, native, connection, reading
<1>2. /\ catalogs' \in CatalogsType
      /\ ~catalogs'[c].valid /\ \A d \in Clients : d # c => catalogs'[d] = catalogs[d]
  BY CatalogType DEF RefuseList, HealthInv, HealthTyped, CatalogsType
<1>3. HealthTyped' /\ RequestsFit' /\ \A d, g : WasServed(d, g) => WasServed(d, g)'
  <2>1. HealthTyped'
    BY <1>1, <1>2 DEF HealthInv, HealthTyped
  <2>2. RequestsFit'
    BY <1>1 DEF HealthInv, RequestsFit, Reported
  <2>3. \A d, g : WasServed(d, g) => WasServed(d, g)'
    BY <1>1 DEF WasServed
  <2> QED
    BY <2>1, <2>2, <2>3
<1>4. ListsFit'
  BY <1>1, <1>2, <1>3 DEF HealthInv, ListsFit
<1> QED
  BY <1>1, <1>3, <1>4, PollRests DEF HealthInv

LEMMA RequestType ==
  ASSUME HealthInv, NEW n \in DOMAIN natives
  PROVE  /\ natives \in Seq(NativeType) /\ natives[n] \in NativeType
         /\ natives[n].served => natives[n].recorded
<1>1. natives \in Seq(NativeType) /\ RequestsFit
  BY DEF HealthInv, HealthTyped
<1> QED
  BY <1>1 DEF RequestsFit

\* A step that changes one request only, and lets its outcome be observed.
LEMMA HeadersKeep ==
  ASSUME HealthInv, Watch, NEW n \in DOMAIN natives, Headers(n)
  PROVE  HealthInv'
<1>0. /\ natives \in Seq(NativeType) /\ natives[n] \in NativeType
      /\ natives[n].served => natives[n].recorded
  BY RequestType
<1>1. UNCHANGED <<provider, catalogs, requests, lifecycle, reading>>
  BY DEF Headers, activity, connection
<1>2. ASSUME NEW outcome \in Results \ {"none"}, NEW stage \in {"ended", "connected"},
             Observe(n, outcome), natives' = [natives EXCEPT ![n].stage = stage, ![n].outcome = outcome]
      PROVE  HealthInv'
  <2> DEFINE r == [natives[n] EXCEPT !.stage = stage, !.outcome = outcome]
  <2>1. /\ r \in NativeType /\ r.outcome = outcome /\ r.client = natives[n].client
        /\ r.generation = natives[n].generation /\ r.served = natives[n].served
        /\ r.recorded = natives[n].recorded
    BY <1>0 DEF NativeType
  <2>2. natives' = [natives EXCEPT ![n] = r]
    BY <1>0, <1>2
  <2> HIDE DEF r
  <2> QED
    BY <1>1, <1>2, <1>0, <2>1, <2>2, RequestKeeps, NativesRest
<1>3. CASE natives' = [natives EXCEPT ![n].stage = "streaming"] /\ latest' = latest
  <2> DEFINE r == [natives[n] EXCEPT !.stage = "streaming"]
  <2>1. /\ r \in NativeType /\ r.outcome = natives[n].outcome /\ r.client = natives[n].client
        /\ r.generation = natives[n].generation /\ r.served = natives[n].served
        /\ r.recorded = natives[n].recorded
    BY <1>0 DEF NativeType
  <2>2. natives' = [natives EXCEPT ![n] = r]
    BY <1>0, <1>3
  <2> HIDE DEF r
  <2> QED
    BY <1>1, <1>3, <1>0, <2>1, <2>2, RequestKeeps, NativesRest
<1>4. \A outcome \in Outcomes : outcome \in Results \ {"none"}
  BY HealthAssumption DEF Results
<1>5. "success" \in Results \ {"none"}
  BY DEF Results
<1> QED
  BY <1>2, <1>3, <1>4, <1>5 DEF Headers

LEMMA BodyKeeps ==
  ASSUME HealthInv, Watch, NEW n \in DOMAIN natives, Body(n)
  PROVE  HealthInv'
<1>0. /\ natives \in Seq(NativeType) /\ natives[n] \in NativeType
      /\ natives[n].served => natives[n].recorded
  BY RequestType
<1>1. UNCHANGED <<provider, catalogs, requests, lifecycle, reading>>
  BY DEF Body, activity, connection
<1>2. ASSUME NEW outcome \in Results \ {"none"},
             Observe(n, outcome), natives' = [natives EXCEPT ![n].stage = "ended", ![n].outcome = outcome]
      PROVE  HealthInv'
  <2> DEFINE r == [natives[n] EXCEPT !.stage = "ended", !.outcome = outcome]
  <2>1. /\ r \in NativeType /\ r.outcome = outcome /\ r.client = natives[n].client
        /\ r.generation = natives[n].generation /\ r.served = natives[n].served
        /\ r.recorded = natives[n].recorded
    BY <1>0 DEF NativeType
  <2>2. natives' = [natives EXCEPT ![n] = r]
    BY <1>0, <1>2
  <2> HIDE DEF r
  <2> QED
    BY <1>1, <1>2, <1>0, <2>1, <2>2, RequestKeeps, NativesRest
<1>3. CASE natives' = [natives EXCEPT ![n].stage = "ended"] /\ latest' = latest
  <2> DEFINE r == [natives[n] EXCEPT !.stage = "ended"]
  <2>1. /\ r \in NativeType /\ r.outcome = natives[n].outcome /\ r.client = natives[n].client
        /\ r.generation = natives[n].generation /\ r.served = natives[n].served
        /\ r.recorded = natives[n].recorded
    BY <1>0 DEF NativeType
  <2>2. natives' = [natives EXCEPT ![n] = r]
    BY <1>0, <1>3
  <2> HIDE DEF r
  <2> QED
    BY <1>1, <1>3, <1>0, <2>1, <2>2, RequestKeeps, NativesRest
<1>4. "success" \in Results \ {"none"} /\ "error" \in Results \ {"none"}
  BY DEF Results
<1> QED
  BY <1>2, <1>3, <1>4 DEF Body

LEMMA DropListKeeps ==
  ASSUME HealthInv, Watch, NEW n \in DOMAIN natives, DropList(n)
  PROVE  HealthInv'
<1>0. /\ natives \in Seq(NativeType) /\ natives[n] \in NativeType
      /\ natives[n].served => natives[n].recorded
  BY RequestType
<1>1. UNCHANGED <<provider, catalogs, requests, lifecycle, reading>> /\ latest' = latest
  BY DEF DropList, activity, connection
<1> DEFINE r == [natives[n] EXCEPT !.recorded = TRUE, !.stage = "ended"]
<1>2. /\ r \in NativeType /\ r.outcome = natives[n].outcome /\ r.client = natives[n].client
      /\ r.generation = natives[n].generation /\ r.served = natives[n].served
      /\ r.recorded
  BY <1>0 DEF NativeType
<1>3. natives' = [natives EXCEPT ![n] = r]
  BY <1>0 DEF DropList
<1> HIDE DEF r
<1> QED
  BY <1>0, <1>1, <1>2, <1>3, RequestKeeps, NativesRest

\* The list is put on record for its client when it has been sent.
LEMMA RecordListKeeps ==
  ASSUME HealthInv, Watch, NEW n \in DOMAIN natives, RecordList(n)
  PROVE  HealthInv'
<1>0. /\ natives \in Seq(NativeType) /\ natives[n] \in NativeType /\ n \in DOMAIN natives
      /\ natives[n].client \in Clients /\ ~natives[n].recorded /\ ~natives[n].served
  BY RequestType DEF RecordList, Listing
<1>1. UNCHANGED <<provider, requests, lifecycle, poll>> /\ latest' = latest
  BY DEF RecordList, connection, reading
<1>2. PICK valid \in BOOLEAN :
        /\ catalogs' = [catalogs EXCEPT ![natives[n].client] =
                          [generation |-> natives[n].generation, efforts |-> natives[n].efforts,
                           valid |-> valid]]
        /\ natives' = [natives EXCEPT ![n].recorded = TRUE, ![n].served = valid]
  BY DEF RecordList
<1> DEFINE r == [natives[n] EXCEPT !.recorded = TRUE, !.served = valid]
<1>3. /\ r \in NativeType /\ r.outcome = natives[n].outcome /\ r.client = natives[n].client
      /\ r.generation = natives[n].generation /\ r.served = valid /\ r.recorded
  BY <1>0 DEF NativeType
<1>4. natives' = [natives EXCEPT ![n] = r]
  BY <1>0, <1>2
<1> HIDE DEF r
<1>5. /\ natives' \in Seq(NativeType) /\ latest' \in LatestType
      /\ RequestsFit' /\ \A c, g : WasServed(c, g) => WasServed(c, g)'
  BY <1>0, <1>1, <1>3, <1>4, RequestKeeps
<1>6. PICK c \in Clients : c = natives[n].client
  BY <1>0
<1>7. natives[n].generation \in 0..2 /\ natives[n].efforts \in {"one", "all"}
  BY <1>0 DEF NativeType
<1>8. /\ catalogs' \in CatalogsType
      /\ catalogs'[c].valid = valid /\ catalogs'[c].generation = natives[n].generation
      /\ \A d \in Clients : d # c => catalogs'[d] = catalogs[d]
  BY <1>2, <1>6, <1>7 DEF HealthInv, HealthTyped, CatalogsType
<1>9. HealthTyped'
  BY <1>1, <1>5, <1>8 DEF HealthInv, HealthTyped
<1>10. PICK list \in 0..2 : list = natives[n].generation
  BY <1>7
<1>11. valid => WasServed(c, list)'
  BY <1>0, <1>3, <1>4, <1>6, <1>10 DEF WasServed
<1>12. ListsFit'
  <2>1. ASSUME NEW d \in Clients, catalogs'[d].valid
        PROVE  WasServed(d, catalogs[d].generation)'
    <3>1. CASE d = c
      <4>1. WasServed(c, list)' /\ catalogs'[d].generation = list
        BY <1>8, <1>11, <1>10, <2>1, <3>1
      <4> QED
        BY <4>1, <3>1 DEF WasServed
    <3>2. CASE d # c
      <4>1. PICK had \in 0..2 : had = catalogs[d].generation
        BY DEF HealthInv, HealthTyped, CatalogsType
      <4>2. WasServed(d, had) /\ catalogs'[d].generation = had
        BY <1>8, <2>1, <3>2, <4>1 DEF HealthInv, ListsFit
      <4>3. WasServed(d, had)'
        BY <4>2, <1>5
      <4> QED
        BY <4>2, <4>3 DEF WasServed
    <3> QED
      BY <3>1, <3>2
  <2> QED
    BY <2>1 DEF ListsFit
<1> QED
  BY <1>1, <1>5, <1>9, <1>12, PollRests DEF HealthInv

LEMMA PollTyped ==
  ASSUME HealthInv
  PROVE  poll \in PollType /\ requests \in RequestsType /\ lifecycle \in Lives
BY DEF HealthInv, HealthTyped, PollType, RequestsType, Lives

\* What a step of a poll leaves to be shown.
LEMMA ReadingKeeps ==
  ASSUME HealthInv, UNCHANGED world, poll' \in PollType, PollFits'
  PROVE  HealthInv'
<1>1. UNCHANGED <<provider, natives, latest, requests, catalogs, lifecycle>>
  BY DEF world, native, activity, connection
<1>2. RequestsFit' /\ ListsFit'
  BY <1>1 DEF HealthInv, RequestsFit, ListsFit, Reported, WasServed
<1>3. HealthTyped'
  BY <1>1 DEF HealthInv, HealthTyped, PollType, RequestsType, Lives
<1> QED
  BY <1>2, <1>3 DEF HealthInv

\* What is noted while a poll lasts.
LEMMA WatchNotes ==
  ASSUME HealthInv, Watch
  PROVE  /\ held' \subseteq {"provider", "client"}
         /\ poll'.stage # "off" =>
              /\ held \subseteq held'
              /\ ProviderHealth' = "verified" => "provider" \in held'
              /\ Connected' => "client" \in held'
BY DEF HealthInv, PollFits, Watch

LEMMA PollBeginsOrEnds ==
  ASSUME HealthInv, Watch, StartPoll \/ EndPoll
  PROVE  HealthInv'
<1>1. UNCHANGED world
  BY DEF StartPoll, EndPoll
<1>2. poll' \in PollType /\ poll'.stage \in {"off", "provider"}
  <2>1. NoPoll \in PollType
    BY DEF NoPoll, PollType, Lives, RequestsType
  <2>2. [NoPoll EXCEPT !.stage = "provider", !.lifecycle = lifecycle] \in PollType
    BY <2>1, PollTyped DEF PollType
  <2>3. CASE StartPoll
    BY <2>2, <2>3 DEF StartPoll, NoPoll
  <2>4. CASE EndPoll
    BY <2>1, <2>4 DEF EndPoll, NoPoll
  <2> QED
    BY <2>3, <2>4
<1>3. PollFits'
  BY <1>2, WatchNotes DEF PollFits
<1> QED
  BY <1>1, <1>2, <1>3, ReadingKeeps

LEMMA ReadProviderKeeps ==
  ASSUME HealthInv, Watch, ReadProvider
  PROVE  HealthInv'
<1>1. UNCHANGED world /\ provider' = provider
  BY DEF ReadProvider, world
<1>2. ProviderHealth \in Found \cup {"recovering"} /\ ProviderHealth' = ProviderHealth
  <2>1. provider.seen \in Found /\ "unavailable" \in Found
    BY DEF HealthInv, HealthTyped, ProviderType, Found
  <2> QED
    BY <1>1, <2>1 DEF ProviderHealth
<1>3. poll' = [poll EXCEPT !.stage = "clients", !.provider = ProviderHealth]
  BY DEF ReadProvider
<1>4. poll' \in PollType /\ poll'.stage = "clients" /\ poll'.provider = ProviderHealth
  BY <1>2, <1>3, PollTyped DEF PollType
<1>5. PollFits'
  BY <1>2, <1>4, WatchNotes DEF PollFits
<1> QED
  BY <1>1, <1>4, <1>5, ReadingKeeps

LEMMA ReadClientsKeeps ==
  ASSUME HealthInv, Watch, ReadClients
  PROVE  HealthInv'
<1>1. UNCHANGED world /\ UNCHANGED <<provider, natives, requests, catalogs>>
  BY DEF ReadClients, world, native, activity
<1>2. catalogs \in CatalogsType
  BY DEF HealthInv, HealthTyped
<1> DEFINE lists == [c \in Clients |-> IF catalogs[c].generation = 0 THEN "none"
                                       ELSE IF catalogs[c].valid THEN "valid" ELSE "invalid"]
           listed == {[client |-> c, generation |-> catalogs[c].generation] :
                         c \in {d \in Clients : catalogs[d].generation # 0}}
<1>3. poll' = [poll EXCEPT !.stage = "lists", !.requests = requests, !.lists = lists,
                 !.pending = listed]
  BY DEF ReadClients
<1>4. lists \in [Clients -> {"none", "valid", "invalid", "changed"}]
  OBVIOUS
<1>5. listed \in SUBSET [client : Clients, generation : 0..2]
  BY <1>2 DEF CatalogsType
<1>6. \A c \in Clients :
        /\ lists[c] = "none" => catalogs[c].generation = 0
        /\ lists[c] = "valid" => catalogs[c].valid /\ \E p \in listed : p.client = c
  <2> TAKE c \in Clients
  <2>1. /\ lists[c] = "none" => catalogs[c].generation = 0
        /\ lists[c] = "valid" => catalogs[c].valid /\ catalogs[c].generation # 0
    OBVIOUS
  <2>2. ASSUME catalogs[c].generation # 0
        PROVE  \E p \in listed : p.client = c
    <3> DEFINE p == [client |-> c, generation |-> catalogs[c].generation]
    <3>1. p \in listed /\ p.client = c
      BY <2>2
    <3> QED
      BY <3>1
  <2> QED
    BY <2>1, <2>2
<1>7. \A p \in listed : p.client \in Clients /\ p.generation = catalogs[p.client].generation
  OBVIOUS
<1> HIDE DEF lists, listed
<1>8. /\ poll' \in PollType /\ poll'.stage = "lists" /\ poll'.lists = lists
      /\ poll'.pending = listed /\ poll'.requests = requests /\ poll'.provider = poll.provider
      /\ poll.stage = "clients"
  BY <1>3, <1>4, <1>5, PollTyped DEF PollType, ReadClients
<1>9. PollFits'
  <2>1. held' \subseteq {"provider", "client"} /\ held \subseteq held'
    BY <1>8, WatchNotes
  <2>2. poll'.provider = "verified" => "provider" \in held'
    BY <1>8, <2>1 DEF HealthInv, PollFits
  <2>3. ASSUME NEW c \in Clients, poll'.lists[c] = "none", poll'.requests[c] = "ok"
        PROVE  "client" \in held'
    <3>1. requests'[c] = "ok" /\ catalogs'[c].generation = 0
      BY <1>1, <1>6, <1>8, <2>3
    <3>2. Connected'
      BY <3>1 DEF Connected
    <3> QED
      BY <3>2, <1>8, WatchNotes
  <2>4. ASSUME NEW p \in listed, lists[p.client] = "valid"
        PROVE  WasServed(p.client, p.generation)'
    <3>1. WasServed(p.client, p.generation)
      BY <1>6, <1>7, <2>4 DEF HealthInv, ListsFit
    <3> QED
      BY <3>1, <1>1 DEF WasServed
  <2> QED
    BY <1>6, <1>8, <2>1, <2>2, <2>3, <2>4 DEF PollFits
<1> QED
  BY <1>1, <1>8, <1>9, ReadingKeeps

LEMMA CompareListKeeps ==
  ASSUME HealthInv, Watch, CompareList
  PROVE  HealthInv'
<1>1. UNCHANGED world /\ UNCHANGED <<provider, natives>> /\ poll.stage = "lists"
  BY DEF CompareList, world, native
<1>2. PICK p \in poll.pending :
        poll' = [poll EXCEPT !.pending = @ \ {p},
                   !.lists[p.client] = IF @ = "valid" /\ Catalog # p.generation THEN "changed" ELSE @]
  BY DEF CompareList
<1>3. /\ p.client \in Clients /\ poll.lists \in [Clients -> {"none", "valid", "invalid", "changed"}]
      /\ poll \in PollType /\ poll.pending \subseteq [client : Clients, generation : 0..2]
  BY <1>2, PollTyped DEF PollType
<1>4. PICK c \in Clients : c = p.client
  BY <1>3
<1>5. /\ poll' \in PollType /\ poll'.stage = "lists" /\ poll'.pending = poll.pending \ {p}
      /\ poll'.requests = poll.requests /\ poll'.provider = poll.provider
      /\ poll'.lists[c] = IF poll.lists[c] = "valid" /\ Catalog # p.generation THEN "changed"
                          ELSE poll.lists[c]
      /\ \A d \in Clients : d # c => poll'.lists[d] = poll.lists[d]
  BY <1>1, <1>2, <1>3, <1>4 DEF PollType
<1>6. held' \subseteq {"provider", "client"} /\ held \subseteq held'
  BY <1>5, WatchNotes
<1>7. poll'.provider = "verified" => "provider" \in held'
  BY <1>1, <1>5, <1>6 DEF HealthInv, PollFits
<1>8. poll'.lists[c] = "valid" => "client" \in held'
  <2>1. SUFFICES ASSUME poll'.lists[c] = "valid" PROVE "client" \in held'
    OBVIOUS
  <2>2. poll.lists[c] = "valid" /\ Catalog = p.generation
    BY <1>5, <2>1
  <2>3. WasServed(c, p.generation)
    BY <1>1, <1>2, <1>4, <2>2 DEF HealthInv, PollFits
  <2>4. Catalog' = Catalog
    BY <1>1 DEF Catalog
  <2>5. Served(c)'
    BY <1>1, <2>2, <2>3, <2>4 DEF WasServed, Served
  <2> QED
    BY <1>5, <2>5, WatchNotes DEF Connected
<1>9. ASSUME NEW d \in Clients
      PROVE  /\ poll'.lists[d] = "none" /\ poll'.requests[d] = "ok" => "client" \in held'
             /\ poll'.lists[d] = "valid" =>
                  "client" \in held' \/ \E q \in poll'.pending : q.client = d
  <2>1. poll'.lists[d] = "none" => poll.lists[d] = "none"
    BY <1>4, <1>5
  <2>2. CASE d = c
    BY <1>1, <1>5, <1>6, <1>8, <2>1, <2>2 DEF HealthInv, PollFits
  <2>3. CASE d # c
    <3>1. poll'.lists[d] = "valid" => "client" \in held \/ \E q \in poll.pending : q.client = d
      BY <1>1, <1>5, <2>3 DEF HealthInv, PollFits
    <3>2. \A q \in poll.pending : q.client = d => q \in poll'.pending
      BY <1>4, <1>5, <2>3
    <3> QED
      BY <1>1, <1>5, <1>6, <2>1, <3>1, <3>2 DEF HealthInv, PollFits
  <2> QED
    BY <2>2, <2>3
<1>10. ASSUME NEW q \in poll'.pending, poll'.lists[q.client] = "valid"
       PROVE  WasServed(q.client, q.generation)'
  <2>1. q \in poll.pending /\ q.client \in Clients
    BY <1>3, <1>5
  <2>2. poll.lists[q.client] = "valid"
    BY <1>5, <1>10, <2>1
  <2>3. WasServed(q.client, q.generation)
    BY <1>1, <2>1, <2>2 DEF HealthInv, PollFits
  <2> QED
    BY <1>1, <2>3 DEF WasServed
<1>11. PollFits'
  BY <1>5, <1>6, <1>7, <1>9, <1>10 DEF PollFits
<1> QED
  BY <1>1, <1>5, <1>11, ReadingKeeps

LEMMA HealthStarts == HealthInit => HealthInv
<1> SUFFICES ASSUME HealthInit PROVE HealthInv
  OBVIOUS
<1>1. HealthTyped
  <2>1. provider \in ProviderType
    BY DEF HealthInit, ProviderType, Found
  <2>2. poll \in PollType
    BY DEF HealthInit, NoPoll, PollType, Lives, RequestsType
  <2>3. natives \in Seq(NativeType) /\ latest \in LatestType
    BY DEF HealthInit, Results, LatestType
  <2>4. /\ catalogs \in CatalogsType
        /\ requests \in RequestsType /\ lifecycle \in Lives
    BY DEF HealthInit, CatalogsType, RequestsType, Lives
  <2> QED
    BY <2>1, <2>2, <2>3, <2>4 DEF HealthTyped
<1>2. RequestsFit
  BY DEF HealthInit, RequestsFit, Reported
<1>3. ListsFit /\ PollFits
  BY DEF HealthInit, ListsFit, PollFits, NoPoll
<1> QED
  BY <1>1, <1>2, <1>3 DEF HealthInv

LEMMA HealthStep == HealthInv /\ [HealthNext]_healthVars => HealthInv'
<1> SUFFICES ASSUME HealthInv, [HealthNext]_healthVars PROVE HealthInv'
  OBVIOUS
<1>1. CASE UNCHANGED healthVars
  <2>1. UNCHANGED <<provider, natives, latest, catalogs, poll, requests, lifecycle, held>>
    BY <1>1 DEF healthVars
  <2>2. HealthTyped'
    BY <2>1 DEF HealthInv, HealthTyped
  <2>3. RequestsFit' /\ ListsFit'
    BY <2>1 DEF HealthInv, RequestsFit, Reported, ListsFit, WasServed
  <2>4. PollFits'
    BY <2>1 DEF HealthInv, PollFits, WasServed
  <2> QED
    BY <2>2, <2>3, <2>4 DEF HealthInv
<1>2. CASE HealthNext
  <2>1. Watch /\ (Changes \/ Polls)
    BY <1>2 DEF HealthNext
  <2>2. CASE Changes
    <3>1. \E c \in Clients : c = c
      BY HealthAssumption
    <3>2. CASE RecoveryEnds \/ Retry \/ BrowserCloses \/ Maintain \/ FinishLogin
               \/ MaintenanceEnds \/ Drained
      BY <2>1, <3>2, ProviderKeeps
    <3>3. CASE Disconnect \/ StopAdmission
      BY <2>1, <3>1, <3>3, TurnsKeep
    <3>4. ASSUME NEW c \in Clients,
                 StartTurn(c) \/ CancelTurn(c) \/ Respond(c) \/ Record(c)
          PROVE  HealthInv'
      BY <2>1, <3>4, TurnsKeep
    <3>5. CASE BeginNative
      BY <2>1, <3>1, <3>5, BeginsKeep
    <3>6. ASSUME NEW c \in Clients, BeginList(c) \/ RefuseList(c)
          PROVE  HealthInv'
      BY <2>1, <3>6, BeginsKeep, RefuseListKeeps
    <3>7. ASSUME NEW n \in DOMAIN natives, Headers(n) \/ Body(n) \/ RecordList(n) \/ DropList(n)
          PROVE  HealthInv'
      BY <2>1, <3>7, HeadersKeep, BodyKeeps, RecordListKeeps, DropListKeeps
    <3> QED
      BY <2>2, <3>2, <3>3, <3>4, <3>5, <3>6, <3>7 DEF Changes
  <2>3. CASE Polls
    BY <2>1, <2>3, PollBeginsOrEnds, ReadProviderKeeps, ReadClientsKeeps, CompareListKeeps DEF Polls
  <2> QED
    BY <2>1, <2>2, <2>3
<1> QED
  BY <1>1, <1>2

\* "Ready" is said only when every source says so.
LEMMA ReadySays ==
  ASSUME HealthInv, Overall = "ready"
  PROVE  /\ ~inDoubt /\ admitting /\ poll.provider = "verified" /\ latest.outcome = "success"
         /\ ActiveTurns = 0 /\ \E c \in Clients : ClientState(c) = "healthy"
<1>1. /\ poll.provider \in Found \cup {"recovering"} /\ latest.outcome \in Results
      /\ poll.lifecycle \in Lives
  BY PollTyped DEF HealthInv, HealthTyped, PollType, LatestType
<1>2. Found \subseteq {"auth", "limited", "incompatible", "unavailable", "verified"}
  BY HealthAssumption DEF Found
<1>3. Results \subseteq {"auth", "limited", "error", "none", "success"}
  BY HealthAssumption DEF Results
<1>4. RemovalSays # "ready" /\ FileSays # "ready" /\ ProviderSays # "ready" /\ NativeSays # "ready"
  BY <1>1, <1>2, <1>3 DEF RemovalSays, FileSays, ProviderSays, NativeSays, Lives
<1>5. RemovalSays = "none" /\ ~inDoubt /\ admitting
  BY <1>4 DEF Overall
<1>6. ProviderSays = "preflight" /\ ActiveTurns = 0 /\ ClientsSay = "ready"
  BY <1>4, <1>5 DEF Overall
<1>7. poll.provider = "verified" /\ latest.outcome = "success" /\ SomeClient("healthy")
  BY <1>6 DEF ClientsSay
<1> QED
  BY <1>5, <1>6, <1>7 DEF SomeClient

LEMMA NobodyWorks ==
  ASSUME ActiveTurns = 0
  PROVE  AtWork = {} /\ ~maintaining
<1>1. IsFiniteSet(AtWork)
  <2>1. AtWork \subseteq Clients
    BY DEF AtWork
  <2> QED
    BY <2>1, HealthAssumption, FS_Subset
<1>2. Cardinality(AtWork) \in Nat
  BY <1>1, FS_CardinalityType
<1>3. Cardinality(AtWork) = 0 /\ ~maintaining
  BY <1>2 DEF ActiveTurns
<1> QED
  BY <1>1, <1>3, FS_EmptySet

\* A step that ends a poll with "ready".
LEMMA ReadyStep ==
  ASSUME HealthInv, HealthNext, poll.stage # "off", poll'.stage = "off", Overall = "ready"
  PROVE  /\ held = {"provider", "client"}
         /\ admitting /\ ~inDoubt /\ ~maintaining /\ AtWork = {}
         /\ Reported # {} /\ natives[Max(Reported)].outcome = "success"
<1>1. EndPoll
  <2>1. ~Changes
    <3>1. Changes => poll' = poll
      BY DEF Changes, RecoveryEnds, Retry, BrowserCloses, Maintain, FinishLogin, MaintenanceEnds,
             StartTurn, CancelTurn, Respond, Record, BeginNative, BeginList, RefuseList, Headers,
             Body, RecordList, DropList, Disconnect, StopAdmission, Drained, reading
    <3> QED
      BY <3>1
  <2>2. Polls
    BY <2>1 DEF HealthNext
  <2>3. poll \in PollType
    BY PollTyped
  <2>4. (ReadProvider \/ ReadClients \/ CompareList \/ StartPoll) => poll'.stage # "off"
    <3>1. ReadProvider => poll'.stage = "clients"
      BY <2>3 DEF ReadProvider, PollType
    <3>2. ReadClients => poll'.stage = "lists"
      BY <2>3 DEF ReadClients, PollType
    <3>3. CompareList => poll'.stage = poll.stage
      BY <2>3 DEF CompareList, PollType
    <3>4. StartPoll => poll'.stage = "provider"
      BY DEF StartPoll, NoPoll
    <3> QED
      BY <3>1, <3>2, <3>3, <3>4
  <2> QED
    BY <2>2, <2>4 DEF Polls
<1>2. poll.stage = "lists" /\ poll.pending = {}
  BY <1>1 DEF EndPoll
<1>3. "provider" \in held
  BY <1>2, ReadySays DEF HealthInv, PollFits
<1>4. "client" \in held
  <2>1. PICK c \in Clients : ClientState(c) = "healthy"
    BY ReadySays
  <2>2. poll.lists[c] = "valid" \/ (poll.lists[c] = "none" /\ poll.requests[c] = "ok")
    BY <2>1 DEF ClientState
  <2> QED
    BY <1>2, <2>2 DEF HealthInv, PollFits
<1>5. held = {"provider", "client"}
  BY <1>3, <1>4 DEF HealthInv, PollFits
<1>6. Reported # {} /\ natives[Max(Reported)].outcome = "success"
  <2>1. /\ latest.outcome = "success" /\ latest.sequence \in DOMAIN natives
        /\ natives[latest.sequence].outcome = "success"
        /\ \A n \in Reported : n <= latest.sequence
    BY ReadySays DEF HealthInv, RequestsFit
  <2>2. latest.sequence \in Reported
    BY <2>1 DEF Reported
  <2>3. Reported \subseteq Nat
    <3>1. natives \in Seq(NativeType)
      BY DEF HealthInv, HealthTyped
    <3>2. DOMAIN natives \subseteq Nat
      BY <3>1
    <3> QED
      BY <3>2 DEF Reported
  <2>4. \A n \in Reported : (\A m \in Reported : n >= m) => n = latest.sequence
    <3> TAKE n \in Reported
    <3>1. SUFFICES ASSUME n >= latest.sequence PROVE n = latest.sequence
      BY <2>2
    <3>2. n \in Nat /\ latest.sequence \in Nat /\ n <= latest.sequence
      BY <2>1, <2>2, <2>3
    <3> QED
      BY <3>1, <3>2
  <2>5. Max(Reported) = latest.sequence
    BY <2>1, <2>2, <2>3, <2>4 DEF Max
  <2> QED
    BY <2>1, <2>2, <2>5
<1> QED
  BY <1>5, <1>6, ReadySays, NobodyWorks

\* When a poll says "ready", the page was verified and a client connected while it lasted,
\* nobody works now, and the newest outcome of the native service is a success.
THEOREM ReadyHolds == HealthSpec => ReadyIsEarned
<1>1. HealthSpec => []HealthInv
  BY HealthStarts, HealthStep, PTL DEF HealthSpec
<1>2. ASSUME HealthInv, [HealthNext]_healthVars
      PROVE  [poll.stage # "off" /\ poll'.stage = "off" /\ Overall = "ready" =>
               /\ held = {"provider", "client"}
               /\ admitting /\ ~inDoubt /\ ~maintaining /\ AtWork = {}
               /\ Reported # {} /\ natives[Max(Reported)].outcome = "success"]_healthVars
  BY <1>2, ReadyStep
<1> QED
  BY <1>1, <1>2, PTL DEF HealthSpec, ReadyIsEarned
=============================================================================
