------------------------------ MODULE LiveFile ------------------------------
(***************************************************************************)
(* The download of a file that is read live from a worker.                 *)
(*                                                                         *)
(* A browser's request runs in a handler thread of the control plane.  It  *)
(* takes one of the few stream slots of the target's session, puts an      *)
(* operation on the lane, waits for the worker's answer and then copies    *)
(* the chunks to the browser.  The worker polls the lane, answers and      *)
(* pushes the chunks one call at a time; each call is a handler thread of  *)
(* its own that looks the stream up, asks whether it is closed and puts    *)
(* the chunk.  An administrator's change of the target invalidates the     *)
(* session and cancels its operations meanwhile.  The worker may stop, and *)
(* its last message may be lost.                                           *)
(***************************************************************************)
EXTENDS Naturals, Sequences, FiniteSets

CONSTANTS
  Download,    \* requests for the file
  Chunks,      \* length of the file
  MaxQueue,    \* stream_queue_size
  MaxStreams   \* max_streams

ASSUME LiveFileAssumption ==
  Chunks \in Nat \ {0} /\ MaxQueue \in Nat \ {0} /\ MaxStreams \in Nat \ {0}

VARIABLES
  liveTarget, \* what the target allows
  alive,      \* the session of the revision is still there
  slot,       \* session.streams
  stream,     \* closed flag and queue of each raw stream
  laneOp,     \* the lane's entry of each download
  viewer,     \* where each handler thread is, and the chunk it has in hand
  body,       \* what the browser of each download received
  lane,       \* the worker's lane thread
  change      \* the administrator's request

fileVars ==
  <<liveTarget, alive, slot, stream, laneOp, viewer, body, lane, change>>

Content == [i \in 1..Chunks |-> i]
NoOp == [in |-> FALSE, pending |-> FALSE, result |-> "none"]
Garbage == 0
Rested(silent) ==
  [on |-> {}, at |-> "poll", todo |-> {}, next |-> 1, silent |-> silent]

FileInit ==
  /\ liveTarget = "eligible" /\ alive = TRUE /\ slot = {}
  /\ stream = [d \in Download |-> [closed |-> FALSE, queue |-> <<>>]]
  /\ laneOp = [d \in Download |-> NoOp]
  /\ viewer = [d \in Download |-> [at |-> "idle", hand |-> Garbage]]
  /\ body = [d \in Download |-> <<>>]
  /\ lane = Rested(FALSE)
  /\ change = [at |-> "none", todo |-> {}, on |-> {}]

-----------------------------------------------------------------------------
(* The raw stream.                                                         *)

Close(d) ==
  /\ stream' = [stream EXCEPT ![d].closed = TRUE]
  /\ slot' = IF stream[d].closed THEN slot ELSE slot \ {d}

\* An open stream is drained as well; a closed one is left alone.
Cancel(d) ==
  IF stream[d].closed THEN UNCHANGED <<stream, slot>>
  ELSE /\ stream' = [stream EXCEPT ![d] = [closed |-> TRUE, queue |-> <<>>]]
       /\ slot' = slot \ {d}

-----------------------------------------------------------------------------
(* The handler of the browser.                                             *)

At(d, p) == viewer[d].at = p
Goes(d, p) == viewer' = [viewer EXCEPT ![d].at = p]

\* _live_context and open_raw_stream.  A request that comes when the session
\* is gone belongs to the next one, which is like this one; a request that
\* has read the context before is refused.
OpenStream(d) ==
  /\ At(d, "idle")
  /\ IF alive /\ Cardinality(slot) < MaxStreams
     THEN slot' = slot \union {d} /\ Goes(d, "open")
     ELSE Goes(d, "refused") /\ UNCHANGED slot
  /\ UNCHANGED <<liveTarget, alive, stream, laneOp, body, lane, change>>

\* submit: the lane is shared with every other target and may be full.  The
\* stream is left open then.
Submit(d) ==
  /\ At(d, "open")
  /\ \/ /\ laneOp' = [laneOp EXCEPT ![d] = [in |-> TRUE, pending |-> TRUE,
                                    result |-> "none"]]
        /\ Goes(d, "waiting")
     \/ Goes(d, "laneFull") /\ UNCHANGED laneOp
  /\ UNCHANGED <<liveTarget, alive, slot, stream, body, lane, change>>

\* lane.wait returns the answer; a target that is no longer eligible ends the
\* request before the headers.
Answered(d) ==
  /\ At(d, "waiting") /\ laneOp[d].result # "none"
  /\ IF laneOp[d].result = "ok" /\ liveTarget = "eligible"
     THEN Goes(d, "stream") /\ UNCHANGED <<laneOp, stream, slot>>
     ELSE /\ Goes(d, "refused") /\ laneOp' = [laneOp EXCEPT ![d] = NoOp]
          /\ IF laneOp[d].result = "ok" /\ liveTarget = "ineligible"
             THEN Cancel(d) ELSE Close(d)
  /\ UNCHANGED <<liveTarget, alive, body, lane, change>>

\* lane.wait gives up, or finds the operation canceled.
WaitOver(d) ==
  /\ At(d, "waiting") /\ laneOp[d].result = "none"
  /\ laneOp' = [laneOp EXCEPT ![d] = NoOp]
  /\ IF laneOp[d].in THEN Cancel(d) ELSE UNCHANGED <<stream, slot>>
  /\ Goes(d, "refused")
  /\ UNCHANGED <<liveTarget, alive, body, lane, change>>

TakeChunk(d) ==
  /\ At(d, "stream")
  /\ \/ /\ stream[d].queue # <<>>
        /\ viewer' = [viewer EXCEPT ![d] = [at |-> "chunk",
                                           hand |-> Head(stream[d].queue)]]
        /\ stream' = [stream EXCEPT ![d].queue = Tail(@)]
     \/ /\ stream[d].queue = <<>> /\ stream[d].closed
        /\ Goes(d, "finish") /\ UNCHANGED stream
  /\ UNCHANGED <<liveTarget, alive, slot, laneOp, body, lane, change>>

\* The target is asked before every chunk; looking up a deleted one raises,
\* and the error page is written where the file was.  The browser may have
\* gone away.
WriteChunk(d) ==
  /\ At(d, "chunk")
  /\ \/ /\ liveTarget = "eligible"
        /\ body' = [body EXCEPT ![d] = Append(@, viewer[d].hand)]
        /\ Goes(d, "stream") /\ UNCHANGED <<stream, slot>>
     \/ Cancel(d) /\ Goes(d, "finish") /\ UNCHANGED body
     \/ /\ liveTarget = "gone"
        /\ body' = [body EXCEPT ![d] = Append(@, Garbage)]
        /\ Goes(d, "finish") /\ UNCHANGED <<stream, slot>>
  /\ UNCHANGED <<liveTarget, alive, laneOp, lane, change>>

\* Faulty: the operation is forgotten and its stream stays open.
FinishOp(d) ==
  /\ At(d, "finish")
  /\ laneOp' = [laneOp EXCEPT ![d] = NoOp]
  /\ Goes(d, "served")
  /\ UNCHANGED <<liveTarget, alive, slot, stream, body, lane, change>>

\* lane.finish
Finish(d) ==
  /\ At(d, "finish")
  /\ laneOp' = [laneOp EXCEPT ![d] = NoOp]
  /\ IF laneOp[d].in THEN Close(d) ELSE UNCHANGED <<stream, slot>>
  /\ Goes(d, "served")
  /\ UNCHANGED <<liveTarget, alive, body, lane, change>>

-----------------------------------------------------------------------------
(* The worker's lane, and the handlers of its calls.                       *)

Busy(d, p) == lane.on = {d} /\ lane.at = p
LaneGoes(p) == lane' = [lane EXCEPT !.at = p]
Pushed(p) == lane' = [lane EXCEPT !.at = p, !.next = @ + 1]
NextCommand == lane' = [lane EXCEPT !.on = {}, !.at = "poll", !.next = 1]

\* lane.poll, when the commands of the last poll are done.
PollLane ==
  /\ lane.on = {} /\ lane.todo = {}
  /\ LET taken == {d \in Download : laneOp[d].pending}
     IN /\ taken # {}
        /\ lane' = [lane EXCEPT !.todo = taken]
        /\ laneOp' = [d \in Download |-> [laneOp[d] EXCEPT !.pending = FALSE]]
  /\ UNCHANGED <<liveTarget, alive, slot, stream, viewer, body, change>>

\* The first chunk is read before the answer.  An answer to an operation that
\* was canceled is refused, and so is the report of that.
Respond(d) ==
  /\ lane.on = {} /\ d \in lane.todo
  /\ \/ /\ laneOp[d].in
        /\ laneOp' = [laneOp EXCEPT ![d].result = "ok"]
        /\ lane' = [lane EXCEPT !.on = {d}, !.at = "push", !.todo = @ \ {d}]
        /\ UNCHANGED <<stream, slot>>
     \/ /\ laneOp[d].in
        /\ laneOp' = [laneOp EXCEPT ![d].result = "error"]
        /\ lane' = [lane EXCEPT !.todo = @ \ {d}]
        /\ Close(d)
     \/ /\ ~laneOp[d].in
        /\ lane' = [lane EXCEPT !.todo = @ \ {d}]
        /\ UNCHANGED <<laneOp, stream, slot>>
  /\ UNCHANGED <<liveTarget, alive, viewer, body, change>>

\* chunk and the first line of push: a stream that was closed takes the chunk
\* without an error.  The reading or the call may fail.
LookUp(d) ==
  /\ Busy(d, "push")
  /\ \/ /\ lane.next <= Chunks /\ laneOp[d].in
        /\ IF stream[d].closed THEN Pushed("push") ELSE LaneGoes("put")
     \/ LaneGoes("final")
  /\ UNCHANGED <<liveTarget, alive, slot, stream, laneOp, viewer, body,
                 change>>

\* Faulty: a chunk that finds no room takes the place of the others.
PutOverOldest(d) ==
  /\ Busy(d, "put")
  /\ stream' = [stream EXCEPT ![d].queue =
                  IF Len(@) < MaxQueue THEN Append(@, lane.next)
                  ELSE <<lane.next>>]
  /\ Pushed("push")
  /\ UNCHANGED <<liveTarget, alive, slot, laneOp, viewer, body, change>>

\* Faulty: the queue has no limit.
PutAlways(d) ==
  /\ Busy(d, "put")
  /\ stream' = [stream EXCEPT ![d].queue = Append(@, lane.next)]
  /\ Pushed("push")
  /\ UNCHANGED <<liveTarget, alive, slot, laneOp, viewer, body, change>>

\* The rest of push: a full queue cancels the stream.  The answer to the
\* worker may be lost.
Put(d) ==
  /\ Busy(d, "put")
  /\ IF Len(stream[d].queue) < MaxQueue
     THEN /\ stream' = [stream EXCEPT ![d].queue = Append(@, lane.next)]
          /\ UNCHANGED slot
          /\ Pushed("push") \/ Pushed("final")
     ELSE Cancel(d) /\ LaneGoes("final")
  /\ UNCHANGED <<liveTarget, alive, laneOp, viewer, body, change>>

\* finally: the final message closes the stream, or is lost.
Final(d) ==
  /\ Busy(d, "final")
  /\ IF laneOp[d].in THEN Close(d) ELSE UNCHANGED <<stream, slot>>
  /\ NextCommand
  /\ UNCHANGED <<liveTarget, alive, laneOp, viewer, body, change>>

WorkerFallsSilent ==
  /\ ~lane.silent
  /\ lane' = Rested(TRUE)
  /\ UNCHANGED <<liveTarget, alive, slot, stream, laneOp, viewer, body,
                 change>>

-----------------------------------------------------------------------------
(* The administrator's request.                                            *)

\* PATCH, DELETE
SaveTarget ==
  /\ change.at = "none"
  /\ liveTarget' \in {"eligible", "ineligible", "gone"}
  /\ change' = [change EXCEPT !.at = "saved"]
  /\ UNCHANGED <<alive, slot, stream, laneOp, viewer, body, lane>>

\* invalidate takes the session away under the lock
Invalidate ==
  /\ change.at = "saved"
  /\ alive' = FALSE /\ slot' = {}
  /\ change' = [change EXCEPT !.at = "flag", !.todo = slot]
  /\ UNCHANGED <<liveTarget, stream, laneOp, viewer, body, lane>>

\* and cancels its streams afterwards, in two steps each.
FlagStream(d) ==
  /\ change.at = "flag" /\ d \in change.todo /\ change.on = {}
  /\ IF stream[d].closed
     THEN /\ change' = [change EXCEPT !.todo = @ \ {d}]
          /\ UNCHANGED stream
     ELSE /\ change' = [change EXCEPT !.todo = @ \ {d}, !.on = {d}]
          /\ stream' = [stream EXCEPT ![d].closed = TRUE]
  /\ UNCHANGED <<liveTarget, alive, slot, laneOp, viewer, body, lane>>

DrainStream(d) ==
  /\ change.on = {d}
  /\ stream' = [stream EXCEPT ![d].queue = <<>>]
  /\ change' = [change EXCEPT !.on = {}]
  /\ UNCHANGED <<liveTarget, alive, slot, laneOp, viewer, body, lane>>

\* cancel_target goes through the operations that are on the lane now.
ListOps ==
  /\ change.at = "flag" /\ change.todo = {} /\ change.on = {}
  /\ change' = [change EXCEPT !.at = "ops",
                             !.todo = {d \in Download : laneOp[d].in}]
  /\ UNCHANGED <<liveTarget, alive, slot, stream, laneOp, viewer, body, lane>>

CancelOp(d) ==
  /\ change.at = "ops" /\ d \in change.todo
  /\ laneOp' = [laneOp EXCEPT ![d] = NoOp]
  /\ IF laneOp[d].in THEN Cancel(d) ELSE UNCHANGED <<stream, slot>>
  /\ change' = [change EXCEPT !.todo = @ \ {d}]
  /\ UNCHANGED <<liveTarget, alive, viewer, body, lane>>

-----------------------------------------------------------------------------
Serve(d) == \/ OpenStream(d) \/ Submit(d) \/ Answered(d) \/ WaitOver(d)
            \/ TakeChunk(d) \/ WriteChunk(d) \/ Finish(d)
LaneStep == PollLane \/ \E d \in Download : \/ Respond(d) \/ LookUp(d)
                                           \/ Put(d) \/ Final(d)
ChangeStep == \/ SaveTarget \/ Invalidate \/ ListOps
              \/ \E d \in Download :
                   FlagStream(d) \/ DrainStream(d) \/ CancelOp(d)

FileNext == \/ \E d \in Download : Serve(d)
            \/ LaneStep \/ WorkerFallsSilent \/ ChangeStep

FileSpec == FileInit /\ [][FileNext]_fileVars

-----------------------------------------------------------------------------
(* Properties.                                                             *)

FileTypeOK ==
  /\ liveTarget \in {"eligible", "ineligible", "gone"} /\ alive \in BOOLEAN
  /\ slot \subseteq Download
  /\ stream \in [Download -> [closed : BOOLEAN, queue : Seq(1..Chunks)]]
  /\ \A d \in Download : Len(stream[d].queue) <= MaxQueue
  /\ laneOp \in [Download -> [in : BOOLEAN, pending : BOOLEAN,
                             result : {"none", "ok", "error"}]]
  /\ viewer \in [Download ->
                   [at : {"idle", "open", "waiting", "stream", "chunk",
                          "finish", "served", "refused", "laneFull"},
                    hand : 0..Chunks]]
  /\ body \in [Download -> Seq(0..Chunks)]
  /\ lane \in [on : SUBSET Download, at : {"poll", "push", "put", "final"},
               todo : SUBSET Download, next : 1..(Chunks + 1),
               silent : BOOLEAN]
  /\ change \in [at : {"none", "saved", "flag", "ops"},
                 todo : SUBSET Download, on : SUBSET Download]

\* Every slot is held by a request that is still going on, whichever way the
\* others ended: answered, refused, given up, cut off, canceled.  The one
\* request that keeps its slot is the one the lane had no room for, because
\* the stream is opened before the operation is submitted.
SlotsAreInUse ==
  \A d \in slot : viewer[d].at \in {"open", "waiting", "stream", "chunk",
                                    "finish", "laneFull"}

\* As long as nobody changes the target, what the browser gets under the 200
\* is the beginning of the file: chunks that come too fast, a lost call or a
\* worker that stops may cut it short, but never leave something out.
ServedBodyIsPrefix ==
  change.at = "none" =>
    \A d \in Download : body[d] = SubSeq(Content, 1, Len(body[d]))

=============================================================================
