----------------------------- MODULE ClientSocket -----------------------------
(***************************************************************************)
(* One websocket of a client: native_ws.rs (relay, serve_owned,            *)
(* validate_message), the connection's context in web_ws.rs, and the       *)
(* public summary that a turn publishes while it runs (turn.rs, wire.rs).  *)
(*                                                                         *)
(* Frames with a native model go to the native service, whose events come  *)
(* back as they are.  A frame with one of our models is answered by a turn *)
(* in the browser; while it runs, only its own events reach the client.    *)
(* A frame may build on an earlier response instead of repeating history.  *)
(*                                                                         *)
(* External: the client may send anything at any time and may vanish; the  *)
(* native service answers its requests in order, may report an error or    *)
(* close, and may be idle.  Four events of one summary text are one here.  *)
(* Heartbeats, pings and quota notices change nothing and are left out.    *)
(***************************************************************************)
EXTENDS Integers, Sequences, SequencesExt, FiniteSets

CONSTANTS Statuses,    \* texts of public status that a page may show
          Settings,    \* properties of a request other than its input
          QUEUE,       \* batches that the progress channel holds
          MaxFrames,   \* bound: frames that the client sends
          MaxPages     \* bound: pages that a turn may use, after explicit failures

ASSUME SocketAssumption ==
  /\ QUEUE \in Nat \ {0} /\ MaxFrames \in Nat \ {0} /\ MaxPages \in Nat \ {0}
  /\ Statuses \cap {"created", "output", "completed", "failed"} = {}

VARIABLES frames,     \* what the client has sent
          inbox,      \* the numbers of those that the relay has not read
          socket,     \* the loop that reads: "relay", "owned", or "closed"
          upstream,   \* the native connection: is it alive, what has it to answer
          pending,    \* native_pending
          base,       \* Connection::last: the frame it answered, or 0
          turn,       \* the turn behind the frame that is served
          progress,   \* batches in the progress channel
          published,  \* the events that serve_owned took from there
          response,   \* per frame: the events of its finished response
          shown,      \* per frame: the events that the client was sent
          told        \* the error that the client was sent, or "none"

socketVars == <<frames, inbox, socket, upstream, pending, base, turn, progress,
                published, response, shown, told>>

Numbers == 1..MaxFrames
Owned == {"generate", "warmup", "compact"}
FrameType == [kind : Owned \cup {"native", "binary"}, previous : 0..MaxFrames, settings : Settings]

NoTurn == [number |-> 0, stage |-> "idle", page |-> 0, summary |-> <<>>, sent |-> 0]
-----------------------------------------------------------------------------
(* The events of a response (wire.rs). *)

\* public_summary_prefix: nothing before the first status.
Prefix(summary) == IF summary = <<>> THEN <<>> ELSE <<"created">> \o summary

\* encode_with_summary; a checkpoint and a warmup have no summary.
Complete(summary) == <<"created">> \o summary \o <<"output", "completed">>

Whole(events) == events # <<>> /\ Last(events) \in {"completed", "failed"}

\* The summary with what one observation of the page adds to it: each text once.
Grown(summary) ==
  {summary \o texts : texts \in {s \in SeqOf(Statuses, 2) :
                                  IsInjective(s) /\ ToSet(s) \cap ToSet(summary) = {}}}
-----------------------------------------------------------------------------
SocketInit ==
  /\ frames = <<>> /\ inbox = <<>> /\ socket = "relay"
  /\ upstream = [alive |-> TRUE, waiting |-> <<>>] /\ pending = 0
  /\ base = 0 /\ turn = NoTurn
  /\ progress = <<>> /\ published = <<>>
  /\ response = [n \in Numbers |-> <<>>] /\ shown = [n \in Numbers |-> <<>>]
  /\ told = "none"

\* The client sends a frame, whatever it is waiting for.
ClientSends(frame) ==
  /\ socket # "closed" /\ Len(frames) < MaxFrames /\ frame.previous <= Len(frames)
  /\ frame.kind = "binary" => frame.previous = 0
  /\ frames' = Append(frames, frame)
  /\ inbox' = Append(inbox, Len(frames) + 1)
  /\ UNCHANGED <<socket, upstream, pending, base, turn, progress, published, response, shown, told>>

\* The loop ends.  A delivery that is dropped with it cancels its turn.
Close(error) ==
  /\ socket' = "closed" /\ told' = error
  /\ turn' = NoTurn /\ progress' = <<>> /\ inbox' = <<>>
  /\ UNCHANGED <<frames, upstream, pending, base, published, response, shown>>

ClientLeaves == socket # "closed" /\ Close("none")

Reads(kinds) == socket = "relay" /\ inbox # <<>> /\ frames[Head(inbox)].kind \in kinds

\* Connection::prepare: a delta may only extend the last response of this connection,
\* and only with the same settings.
Extends(frame) ==
  \/ frame.previous = 0
  \/ base # 0 /\ frame.previous = base /\ frames[base].settings = frame.settings

\* context_boundary::has_owned_reference.
RefersToOurs(frame) == frame.previous # 0 /\ frames[frame.previous].kind \in Owned

\* Mutant: an owned frame is served while a native response is on its way.
ReadOwnedAnyTime ==
  /\ Reads(Owned)
  /\ LET n == Head(inbox) IN
     \/ ~Extends(frames[n]) /\ Close("context")
     \/ /\ Extends(frames[n])
        /\ socket' = "owned" /\ inbox' = Tail(inbox)
        /\ turn' = [NoTurn EXCEPT !.number = n, !.stage = "running", !.page = 1]
        /\ progress' = <<>> /\ published' = <<>>
        /\ UNCHANGED <<frames, upstream, pending, base, response, shown, told>>

ReadOwned ==
  /\ Reads(Owned)
  /\ LET n == Head(inbox) IN
     \/ pending # 0 /\ Close("busy")
     \/ pending = 0 /\ ~Extends(frames[n]) /\ Close("context")
     \/ /\ pending = 0 /\ Extends(frames[n])
        /\ socket' = "owned" /\ inbox' = Tail(inbox)
        /\ turn' = [NoTurn EXCEPT !.number = n, !.stage = "running", !.page = 1]
        /\ progress' = <<>> /\ published' = <<>>
        /\ UNCHANGED <<frames, upstream, pending, base, response, shown, told>>

\* Mutant: the context of the browser survives a native request.
ReadNativeKeepingBase ==
  /\ Reads({"native"})
  /\ LET n == Head(inbox) IN
     \/ RefersToOurs(frames[n]) /\ Close("context")
     \/ /\ ~RefersToOurs(frames[n])
        /\ \/ Close("none")
           \/ /\ upstream.alive
              /\ pending' = pending + 1
              /\ upstream' = [upstream EXCEPT !.waiting = Append(@, n)]
              /\ inbox' = Tail(inbox)
              /\ UNCHANGED <<frames, socket, base, turn, progress, published, response, shown, told>>

\* A native frame must not refer to a response of ours.  A connection that is dead, or
\* dies now, ends the loop.
ReadNative ==
  /\ Reads({"native"})
  /\ LET n == Head(inbox) IN
     \/ RefersToOurs(frames[n]) /\ Close("context")
     \/ /\ ~RefersToOurs(frames[n])
        /\ \/ Close("none")
           \/ /\ upstream.alive
              /\ pending' = pending + 1 /\ base' = 0
              /\ upstream' = [upstream EXCEPT !.waiting = Append(@, n)]
              /\ inbox' = Tail(inbox)
              /\ UNCHANGED <<frames, socket, turn, progress, published, response, shown, told>>

ReadBinary == Reads({"binary"}) /\ Close("none")

\* The native service goes on with the request that it has to answer.
NativeEvent ==
  /\ socket = "relay" /\ upstream.alive /\ upstream.waiting # <<>>
  /\ LET n == Head(upstream.waiting) IN
     \E event \in IF shown[n] = <<>> THEN {"created", "failed"} ELSE {"completed", "failed"} :
       /\ shown' = [shown EXCEPT ![n] = Append(@, event)]
       /\ IF event = "created" THEN UNCHANGED <<pending, upstream>>
          ELSE /\ pending' = IF pending = 0 THEN 0 ELSE pending - 1
               /\ upstream' = [upstream EXCEPT !.waiting = Tail(@)]
  /\ UNCHANGED <<frames, inbox, socket, base, turn, progress, published, response, told>>

\* The native connection ends.  A web response that is being served goes on without it.
NativeEnds ==
  /\ upstream.alive
  /\ \/ socket = "relay" /\ Close("none")
     \/ /\ socket = "owned"
        /\ upstream' = [upstream EXCEPT !.alive = FALSE]
        /\ UNCHANGED <<frames, inbox, socket, pending, base, turn, progress, published,
                       response, shown, told>>

\* Beside a web response nothing of the native service is passed on, and nothing of
\* the client is served.
NativeIntrudes == socket = "owned" /\ upstream.alive /\ Close("none")
ClientIntrudes ==
  /\ socket = "owned" /\ inbox # <<>>
  /\ Close(IF frames[Head(inbox)].kind = "binary" THEN "none" ELSE "busy")
-----------------------------------------------------------------------------
(* The turn (run_prepared, from the submission on). *)

Running == socket = "owned" /\ turn.stage = "running"
Kind == frames[turn.number].kind
TurnOnly == UNCHANGED <<frames, inbox, socket, upstream, pending, base, published, shown, told>>

\* New statuses go into the channel once the session is verified.  An unverified
\* session and a full channel fail the turn.
PublishStatus ==
  /\ Running /\ Kind = "generate" /\ Len(progress) < QUEUE
  /\ \E summary \in Grown(turn.summary) \ {turn.summary} :
       LET events == Prefix(summary) IN
       /\ progress' = Append(progress, SubSeq(events, turn.sent + 1, Len(events)))
       /\ turn' = [turn EXCEPT !.summary = summary, !.sent = Len(events)]
  /\ response' = response /\ TurnOnly

\* Mutant: a fresh page starts with a fresh summary.
TryNextPageAnew ==
  /\ Running /\ Kind # "warmup" /\ turn.page < MaxPages
  /\ turn' = [turn EXCEPT !.page = @ + 1, !.summary = <<>>, !.sent = 0]
  /\ UNCHANGED <<progress, response>> /\ TurnOnly

\* ChatGPT reports a failure: what was published stays with the turn.
TryNextPage ==
  /\ Running /\ Kind # "warmup" /\ turn.page < MaxPages
  /\ turn' = [turn EXCEPT !.page = @ + 1]
  /\ UNCHANGED <<progress, response>> /\ TurnOnly

\* The answer is complete and verified; its last statuses were not published.
Answer ==
  /\ Running
  /\ \E summary \in IF Kind = "generate" THEN Grown(turn.summary) ELSE {turn.summary} :
       response' = [response EXCEPT ![turn.number] = Complete(summary)]
  /\ turn' = [turn EXCEPT !.stage = "answered"]
  /\ progress' = progress /\ TurnOnly

\* The request does not fit into the context: a response of a single event.
RefuseContext ==
  /\ Running /\ Kind = "generate" /\ turn.summary = <<>> /\ turn.page = 1
  /\ response' = [response EXCEPT ![turn.number] = <<"failed">>]
  /\ turn' = [turn EXCEPT !.stage = "answered"]
  /\ progress' = progress /\ TurnOnly

Fail ==
  /\ Running
  /\ turn' = [turn EXCEPT !.stage = "failed"]
  /\ UNCHANGED <<progress, response>> /\ TurnOnly
-----------------------------------------------------------------------------
(* serve_owned. *)

TakeProgress ==
  /\ socket = "owned" /\ progress # <<>>
  /\ shown' = [shown EXCEPT ![turn.number] = @ \o Head(progress)]
  /\ published' = published \o Head(progress)
  /\ progress' = Tail(progress)
  /\ UNCHANGED <<frames, inbox, socket, upstream, pending, base, turn, response, told>>

TakeFailure == socket = "owned" /\ turn.stage = "failed" /\ Close("failed")

\* The rest of the response, of which the client may get only a part.  A failed
\* response and a checkpoint are nothing to build on.
TakeResponse ==
  /\ socket = "owned" /\ turn.stage = "answered"
  /\ LET n == turn.number
         rest == SubSeq(response[n], Len(published) + 1, Len(response[n]))
     IN \/ ~IsPrefix(published, response[n]) /\ Close("revision")
        \/ /\ IsPrefix(published, response[n])
           /\ \E k \in 0..Len(rest) :
                /\ shown' = [shown EXCEPT ![n] = @ \o SubSeq(rest, 1, k)]
                /\ IF k < Len(rest) THEN socket' = "closed" /\ base' = base
                   ELSE /\ socket' = "relay"
                        /\ base' = IF Last(response[n]) = "failed" \/ Kind = "compact" THEN 0 ELSE n
           /\ turn' = NoTurn /\ progress' = <<>>
           /\ inbox' = IF socket' = "closed" THEN <<>> ELSE inbox
           /\ UNCHANGED <<frames, upstream, pending, published, response, told>>
-----------------------------------------------------------------------------
SocketNext ==
  \/ \E frame \in FrameType : ClientSends(frame)
  \/ ClientLeaves \/ ReadOwned \/ ReadNative \/ ReadBinary
  \/ NativeEvent \/ NativeEnds \/ NativeIntrudes \/ ClientIntrudes
  \/ PublishStatus \/ TryNextPage \/ Answer \/ RefuseContext \/ Fail
  \/ TakeProgress \/ TakeFailure \/ TakeResponse

SocketSpec == SocketInit /\ [][SocketNext]_socketVars
-----------------------------------------------------------------------------
(* Properties. *)

\* What the client was sent of a response is never taken back: whatever pages the turn
\* needed, however progress and answer race, it is a beginning of the response, and the
\* comparison that would refuse a revised one never has to.
EventsAreNeverRevised ==
  /\ told # "revision"
  /\ \A n \in Numbers : response[n] # <<>> => IsPrefix(shown[n], response[n])

\* The two sides of a socket do not mix.  While one response is being shown no other one
\* begins, native or ours.  And a request builds only on what its own side answered: one of
\* ours builds on a whole response that the client has, the newest on this connection, not
\* a checkpoint, made with the same settings.
SidesDoNotMix ==
  /\ socket # "closed" => Cardinality({n \in Numbers : shown[n] # <<>> /\ ~Whole(shown[n])}) <= 1
  /\ \A n \in ToSet(upstream.waiting) : ~RefersToOurs(frames[n])
  /\ LET n == turn.number  p == frames[n].previous IN
     turn.stage # "idle" /\ p # 0 =>
       /\ frames[p].kind \in {"generate", "warmup"} /\ frames[p].settings = frames[n].settings
       /\ shown[p] = response[p] /\ Last(shown[p]) = "completed"
       /\ \A m \in (p + 1)..(n - 1) : shown[m] = <<>>
=============================================================================
