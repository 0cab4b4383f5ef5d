------------------------------ MODULE Compaction ------------------------------
(***************************************************************************)
(* The web provider around the coordinator: crates/runtime/src/            *)
(* web_provider.rs (execute, compact_overflow, select_compaction),         *)
(* staged_compaction.rs, compaction.rs and checkpoint.rs, with             *)
(* overflow_projection.rs and the history rules of codex-adapter's         *)
(* compaction.rs.                                                          *)
(*                                                                         *)
(* A client keeps the history of a task and presents all of it with every  *)
(* request.  When it grows too long, the client asks for a checkpoint, or  *)
(* the provider makes one on the way; a long source is summarised fragment *)
(* by fragment.  A checkpoint is a sealed token that only its own task and *)
(* route can open.  A summary is whatever the model writes: different      *)
(* sources may get the same text.  What a text was really made of is       *)
(* carried beside it, unseen by the program (`made`).                      *)
(*                                                                         *)
(* The coordinator is taken by its promise (SubmissionOnce): a request     *)
(* identity is executed once, and presented again it gets its delivery, as *)
(* long as that is in the memory of the process, or an error.  The ends of *)
(* a turn that have nothing on record (a busy session, a cancellation) are *)
(* the error "refused".                                                    *)
(***************************************************************************)
EXTENDS Naturals, Sequences, SequencesExt, FiniteSets

CONSTANTS Tasks, Routes,
          Writers,       \* routes that the user may choose for summaries
          Events,        \* what a task consists of: user messages, calls and results
          Clients,       \* HTTP calls; each presents one request
          Texts,         \* what a summary may say
          Budget,        \* items of a history that needs no compaction
          StageItems,    \* items of one fragment
          MaxItems,      \* bound: how long a task grows
          StageLimit,    \* deliveries that the stage cache holds
          MaxAsks,       \* bound: requests
          MaxChanges     \* bound: failed turns, restarts, forks, changes of route or policy

ASSUME CompactionAssumption ==
  /\ Budget \in Nat \ {0} /\ StageItems \in Nat \ {0}
  /\ StageLimit \in Nat \ {0}
  /\ Routes # {}
  /\ Events \subseteq [type : {"user", "call", "result"}, id : Nat]

VARIABLES client,   \* per task: the history it presents, what happened, its window and route
          policy,   \* the route the user chose for summaries, or "none"
          rows,     \* the ledger, with what each row was executed for
          replay,   \* identities whose delivery is still in memory
          stages,   \* the stage cache: keys and summaries, oldest first
          request,  \* where each call is, and how the last one ended
          count     \* the bounded events so far

providerVars == <<client, policy, rows, replay, stages, request, count>>
-----------------------------------------------------------------------------
(* Histories. *)

Item(type, id) == [type |-> type, id |-> id]
Summary(text, made) == [type |-> "summary", text |-> text, made |-> made]
IsToken(x) == x.type = "token"

\* What the program sees of an item, and what it stands for.
Seen(x) == IF x.type = "summary" THEN [type |-> "summary", text |-> x.text] ELSE x
Bytes(seq) == [i \in DOMAIN seq |-> Seen(seq[i])]
Tells(x) == IF x.type \in {"summary", "token"} THEN x.made ELSE {x}
ToldBy(seq) == UNION {Tells(x) : x \in ToSet(seq)}

\* The items of a sequence that a set has, in order: SelectSeq as a function that the
\* provers can expand.
Within(seq, set) ==
  LET until[i \in 0..Len(seq)] ==
        IF i = 0 THEN << >>
        ELSE IF seq[i] \in set THEN Append(until[i - 1], seq[i]) ELSE until[i - 1]
  IN until[Len(seq)]

Unanswered(items) == {x \in items : x.type = "call" /\ Item("result", x.id) \notin items}

\* pending_calls: the calls without a result, in order.
Pending(seq) == Within(seq, Unanswered(ToSet(seq)))

\* BoundCheckpoint::expand: the token becomes its summary and its pending calls.
Expanded(seq) ==
  FlattenSeq([i \in DOMAIN seq |->
    IF IsToken(seq[i])
    THEN <<Summary(seq[i].text, seq[i].made)>> \o seq[i].pending
    ELSE <<seq[i]>>])

\* Mutant: the calls stay behind in the summary.
ContinuationBare(seq, token) ==
  <<Summary(token.text, token.made), Last(seq)>>

\* overflow_projection::plan: instructions and the newest item stay, the rest goes
\* into the checkpoint.
LatestUser(seq) ==
  {i \in DOMAIN seq : /\ seq[i].type = "user"
                      /\ \A j \in DOMAIN seq : seq[j].type = "user" => j <= i}
Continuation(seq, token) ==
  SetToSeq({seq[i] : i \in LatestUser(seq) \ {Len(seq)}})
    \o Expanded(<<token>>) \o <<Last(seq)>>
-----------------------------------------------------------------------------
(* Identities.  q is the record of a call. *)

Session(q) == [task |-> q.task, window |-> q.window, route |-> q.route]

\* Mutant: the checkpoint is bound to the session, which changes with every window.
HomeInWindow(q) == Session(q)

\* BoundCheckpoint: the task and its own route, whoever writes the summary.
Home(q) == [task |-> q.task, window |-> 0, route |-> q.route]

\* Mutant: the digest of what is going to be sent.
TurnIdOfPrompt(q) == [use |-> "answer", session |-> Session(q), body |-> Bytes(q.prompt),
                      policy |-> "none"]

\* The digest of a request: its session and the payload as the client meant it, not
\* what compaction makes of it.
TurnId(q) == [use |-> "answer", session |-> Session(q), body |-> Bytes(q.body),
              policy |-> "none"]

\* A request for a summary; select_compaction adds the chosen route.
SummaryId(q) ==
  [use |-> IF q.kind = "compact" THEN "compact" ELSE "overflow",
   session |-> Session(q), body |-> Bytes(q.source), policy |-> q.policy]

Writer(q) == IF q.policy = "none" THEN Session(q) ELSE [Session(q) EXCEPT !.route = q.policy]

Staged(q) == Len(q.source) > StageItems
LastStage(q) == q.start + StageItems >= Len(q.source)
Fragment(q) ==
  SubSeq(q.source, q.start + 1, IF LastStage(q) THEN Len(q.source) ELSE q.start + StageItems)

\* stage: the prior summary, the fragment and where it lies in the source.
StageBytes(q) ==
  [prior |-> q.text, start |-> q.start, part |-> Bytes(Fragment(q)), ends |-> LastStage(q)]
StageId(q) == [use |-> "stage", base |-> SummaryId(q), bytes |-> StageBytes(q)]

\* stage_key: the scope, the binding of the checkpoint and the exact bytes.
StageKey(q) == [writer |-> Writer(q), home |-> Home(q), bytes |-> StageBytes(q)]

\* Mutant: the last checkpoint of the session is good enough.
FinalKeyOfSession(q) == [writer |-> Writer(q), home |-> Home(q), final |-> Session(q)]

\* The whole checkpoint is kept under its request.
FinalKey(q) == [writer |-> Writer(q), home |-> Home(q), final |-> SummaryId(q)]

Cached(key) == {s \in ToSet(stages) : s.key = key}

\* remember_stage: newest last; the oldest are dropped.
Remembered(cache, key, text, made) ==
  LET others == Within(cache, {s \in ToSet(cache) : s.key # key})
      room == IF Len(others) < StageLimit THEN others ELSE Tail(others)
  IN Append(room, [key |-> key, text |-> text, made |-> made])
-----------------------------------------------------------------------------
Idle == [pc |-> "idle", kind |-> "none", task |-> "none", window |-> 0, route |-> "none",
         asked |-> << >>, truth |-> {}, body |-> << >>, source |-> << >>, prompt |-> << >>,
         policy |-> "none", start |-> 0, text |-> "none", made |-> {},
         result |-> "none", got |-> {}]

ProviderInit ==
  /\ client = [t \in Tasks |-> [history |-> << >>, truth |-> {}, window |-> 1,
                                route |-> CHOOSE r \in Routes : TRUE]]
  /\ policy = "none"
  /\ rows = {} /\ replay = {} /\ stages = << >>
  /\ request = [c \in Clients |-> Idle]
  /\ count = [asks |-> 0, changes |-> 0]
-----------------------------------------------------------------------------
(* The client (external): it appends to a history, forks a task or changes its route. *)

Change ==
  count.changes < MaxChanges /\ count' = [count EXCEPT !.changes = @ + 1]
Waiting(t) == \E c \in Clients : request[c].task = t /\ request[c].pc \notin {"idle", "done"}

Grow(t, x) ==
  /\ Cardinality(client[t].truth) < MaxItems /\ ~Waiting(t)
  /\ x \notin client[t].truth
  /\ x.type = "result" => Item("call", x.id) \in client[t].truth
  /\ client[t].truth = {} => x = Item("user", 1) /\ \A u \in Tasks : client[u].truth = {}
  /\ x.id = 2 /\ x.type # "result" => Item(x.type, 1) \in client[t].truth
  /\ client' = [client EXCEPT ![t].history = Append(@, x), ![t].truth = @ \cup {x}]
  /\ UNCHANGED <<policy, rows, replay, stages, request, count>>

Fork(t, u) ==
  /\ Change
  /\ client[t].truth = {} /\ client[u].truth # {}
  /\ client' = [client EXCEPT ![t].history = client[u].history, ![t].truth = client[u].truth]
  /\ UNCHANGED <<policy, rows, replay, stages, request>>

SwitchRoute(t, r) ==
  /\ Change
  /\ client[t].route # r /\ client[t].truth # {}
  /\ client' = [client EXCEPT ![t].route = r]
  /\ UNCHANGED <<policy, rows, replay, stages, request>>

\* The client replaces what it asked to have summarised, in a new context window.
TakeToken(c) ==
  /\ request[c].pc = "done" /\ request[c].kind = "compact" /\ request[c].result = "ok"
  /\ client[request[c].task].history = request[c].asked
  /\ client' = [client EXCEPT ![request[c].task].history = SetToSeq(request[c].got),
                              ![request[c].task].window = @ + 1]
  /\ request' = [request EXCEPT ![c] = Idle]
  /\ UNCHANGED <<policy, rows, replay, stages, count>>

\* compaction_policy::save: applies to the next summary.
ChoosePolicy(p) ==
  /\ Change
  /\ policy # p /\ policy' = p
  /\ UNCHANGED <<client, rows, replay, stages, request>>
-----------------------------------------------------------------------------
(* The coordinator. *)

Purpose(q) == [task |-> q.task, window |-> q.window, route |-> q.route,
               asked |-> q.asked, truth |-> q.truth]

\* How Coordinator::execute may end: what is on record then, and whose delivery the
\* caller gets.
TurnEnds(q, id, prompt, text) ==
  LET input == Bytes(prompt)
      Row(completed) ==
        [id |-> id, input |-> input, completed |-> completed, text |-> text,
         purpose |-> IF q.pc = "answer" THEN Purpose(q) ELSE Purpose(Idle),
         pending |-> IF q.pc = "answer" THEN ToSet(Pending(prompt)) ELSE {},
         made |-> q.made \cup ToldBy(prompt)]
      Ends(result, all, live, got) ==
        [result |-> result, rows |-> all, replay |-> live, got |-> got]
  IN IF \A r \in rows : r.id # id
     THEN {Ends("refused", rows, replay, {}),
           Ends("failed", rows \cup {Row(FALSE)}, replay, {}),
           Ends("ok", rows \cup {Row(TRUE)}, replay \cup {id}, {Row(TRUE)})}
     ELSE {Ends(IF r.input # input THEN "E_REQUEST_CONFLICT"
                ELSE IF ~r.completed THEN "E_REQUEST_ALREADY_ADMITTED"
                ELSE IF id \notin replay THEN "E_REPLAY_UNAVAILABLE"
                ELSE "ok", rows, replay, {r}) :
             r \in {r \in rows : r.id = id}}

Recorded(o) ==
  /\ rows' = o.rows /\ replay' = o.replay
  /\ IF o.result \in {"refused", "failed"} THEN Change ELSE UNCHANGED count
-----------------------------------------------------------------------------
(* A call. *)

\* What an error leaves behind is on record; only what the properties look at is kept.
Ended(q, result, got) ==
  IF result \in {"ok", "E_NONPORTABLE_CONTEXT"}
  THEN [q EXCEPT !.pc = "done", !.result = result, !.got = got, !.body = << >>,
                 !.source = << >>, !.prompt = << >>, !.policy = "none", !.start = 0,
                 !.text = "none", !.made = {}]
  ELSE Idle

\* prepare_payload and all that follows it up to the first summary or turn.
Ask(c, t, kind) ==
  LET body == Expanded(client[t].history)
      over == kind = "answer" /\ Len(body) > Budget
      q == [Idle EXCEPT !.kind = kind, !.task = t, !.window = client[t].window,
                        !.route = client[t].route, !.asked = client[t].history,
                        !.truth = client[t].truth, !.body = body, !.prompt = body,
                        !.source = IF over THEN Front(body) ELSE body,
                        !.policy = IF over \/ kind = "compact" THEN policy ELSE "none"]
      portable == \A x \in ToSet(q.asked) : IsToken(x) => x.home = Home(q)
  IN /\ request[c].pc \in {"idle", "done"} /\ client[t].history # << >>
     /\ count.asks < MaxAsks /\ count' = [count EXCEPT !.asks = @ + 1]
     /\ request' = [request EXCEPT ![c] =
          IF ~portable THEN Ended(q, "E_NONPORTABLE_CONTEXT", {})
          ELSE [q EXCEPT !.pc = IF over \/ kind = "compact" THEN "summarise" ELSE "answer"]]
     /\ UNCHANGED <<client, policy, rows, replay, stages>>

\* The sealed checkpoint goes to the client, or into the prompt.
Delivered(q, text, made) ==
  LET token == [type |-> "token", home |-> Home(q), text |-> text, made |-> made,
                of |-> [task |-> q.task, route |-> q.route], pending |-> Pending(q.source)]
  IN IF q.kind = "compact" THEN Ended(q, "ok", {token})
     ELSE [q EXCEPT !.pc = "answer", !.made = {}, !.source = << >>, !.start = 0,
                    !.text = "none", !.prompt = Continuation(q.body, token)]

\* A source that fits one message.
SummariseWhole(c) ==
  LET q == request[c]
  IN /\ q.pc = "summarise" /\ ~Staged(q)
     /\ \E text \in Texts : \E o \in TurnEnds(q, SummaryId(q), q.source, text) :
          /\ Recorded(o)
          /\ request' = [request EXCEPT ![c] =
               IF o.result # "ok" THEN Ended(q, o.result, {})
               ELSE LET r == CHOOSE r \in o.got : TRUE IN Delivered(q, r.text, r.made)]
     /\ UNCHANGED <<client, policy, stages>>

SummaryCached(c) ==
  LET q == request[c]
  IN /\ q.pc = "summarise" /\ Staged(q) /\ q.start = 0
     /\ \E s \in Cached(FinalKey(q)) :
          request' = [request EXCEPT ![c] = Delivered(q, s.text, s.made)]
     /\ UNCHANGED <<client, policy, rows, replay, stages, count>>

\* The loop of staged_compaction::execute: a fragment and what was said before.
SummariseFragment(c) ==
  LET q == request[c]
      kept == Cached(StageKey(q))
  IN /\ q.pc = "summarise" /\ Staged(q)
     /\ q.start = 0 => Cached(FinalKey(q)) = {}
     /\ \E text \in Texts :
        \E o \in IF kept # {} THEN {[result |-> "ok", rows |-> rows, replay |-> replay,
                                     got |-> kept]}
                 ELSE TurnEnds(q, StageId(q), Fragment(q), text) :
          /\ Recorded(o)
          /\ IF o.result # "ok"
             THEN request' = [request EXCEPT ![c] = Ended(q, o.result, {})] /\ UNCHANGED stages
             ELSE LET r == CHOOSE r \in o.got : TRUE
                      cache == Remembered(stages, StageKey(q), r.text, r.made)
                  IN IF LastStage(q)
                     THEN /\ stages' = Remembered(cache, FinalKey(q), r.text, r.made)
                          /\ request' = [request EXCEPT ![c] = Delivered(q, r.text, r.made)]
                     ELSE /\ stages' = cache
                          /\ request' = [request EXCEPT ![c] =
                               [q EXCEPT !.start = @ + StageItems, !.text = r.text,
                                         !.made = r.made]]
     /\ UNCHANGED <<client, policy>>

Answer(c) ==
  LET q == request[c]
  IN /\ q.pc = "answer"
     /\ \E o \in TurnEnds(q, TurnId(q), q.prompt, "none") :
          /\ Recorded(o)
          /\ request' = [request EXCEPT ![c] = Ended(q, o.result, o.got)]
     /\ UNCHANGED <<client, policy, stages>>

\* The memory of the process is lost, and with it the calls.
Forget ==
  /\ Change
  /\ replay' = {} /\ stages' = << >>
  /\ request' = [c \in Clients |->
       IF request[c].pc = "done" THEN request[c] ELSE Idle]
  /\ UNCHANGED <<client, policy, rows>>

ProviderNext ==
  \/ \E t \in Tasks :
       \/ \E x \in Events : Grow(t, x)
       \/ \E u \in Tasks : Fork(t, u)
       \/ \E r \in Routes : SwitchRoute(t, r)
       \/ \E c \in Clients, kind \in {"answer", "compact"} : Ask(c, t, kind)
  \/ \E p \in Writers \cup {"none"} : ChoosePolicy(p)
  \/ \E c \in Clients : \/ SummariseWhole(c) \/ SummaryCached(c) \/ SummariseFragment(c)
                        \/ Answer(c) \/ TakeToken(c)
  \/ Forget

ProviderSpec == ProviderInit /\ [][ProviderNext]_providerVars
-----------------------------------------------------------------------------
(* Properties. *)

\* However often a task was summarised, in however many pieces, a prompt tells all that
\* happened in it and shows exactly the unanswered calls as pending; and a call gets the
\* answer, or the checkpoint, that was made of its own history, also from the caches and
\* although different histories have the same summary.
AnswersItsOwnHistory ==
  /\ \A r \in rows : r.id.use = "answer" =>
       r.made = r.purpose.truth /\ r.pending = Unanswered(r.purpose.truth)
  /\ \A c \in Clients : request[c].result = "ok" => \A g \in request[c].got :
       IF request[c].kind = "compact"
       THEN g.made = request[c].truth /\ ToSet(g.pending) = Unanswered(request[c].truth)
       ELSE g.purpose = Purpose(request[c])

\* A request that is presented again never starts a second generation, whatever was
\* summarised anew, forgotten or chosen in between.
RetryIsNoSecondTurn ==
  \A r1, r2 \in rows :
    r1.id.use = "answer" /\ r2.id.use = "answer" /\ r1.purpose = r2.purpose => r1 = r2

\* The two together: a turn is taken once, and for its own history.
OneTurnForItsHistory == AnswersItsOwnHistory /\ RetryIsNoSecondTurn

\* A checkpoint opens in its own task and route, in every later window and process,
\* and nowhere else.
CheckpointOpensAtHome ==
  \A c \in Clients : request[c].pc \notin {"idle"} =>
    (request[c].result = "E_NONPORTABLE_CONTEXT" <=>
       \E x \in ToSet(request[c].asked) :
         IsToken(x) /\ x.of # [task |-> request[c].task, route |-> request[c].route])
=============================================================================
