--------------------------- MODULE LiveFileProofs ---------------------------
(***************************************************************************)
(* Proofs about the live lane: LiveFile, for every set of requests, every  *)
(* length of the file, every queue size and every number of slots; and     *)
(* LiveWatch, for any number of revisions and changes and every size of    *)
(* the queue and of the log.                                               *)
(***************************************************************************)
EXTENDS LiveFile, LiveWatch, TLAPS

-----------------------------------------------------------------------------
(* Types, variable by variable.                                            *)

StageName == {"idle", "open", "waiting", "stream", "chunk", "finish",
              "served", "refused", "laneFull"}
Streams == [Download -> [closed : BOOLEAN, queue : Seq(1..Chunks)]]
Ops == [Download -> [in : BOOLEAN, pending : BOOLEAN,
                     result : {"none", "ok", "error"}]]
Viewers == [Download -> [at : StageName, hand : 0..Chunks]]
Bodies == [Download -> Seq(0..Chunks)]
Lanes == [on : SUBSET Download, at : {"poll", "push", "put", "final"},
          todo : SUBSET Download, next : 1..(Chunks + 1), silent : BOOLEAN]
Changes == [at : {"none", "saved", "flag", "ops"}, todo : SUBSET Download,
            on : SUBSET Download]

Bounded == \A d \in Download : Len(stream[d].queue) <= MaxQueue

(* A chunk that is about to be put is one of the file.                     *)
PutInRange == lane.at = "put" => lane.next <= Chunks

FileTypes ==
  /\ liveTarget \in {"eligible", "ineligible", "gone"} /\ alive \in BOOLEAN
  /\ slot \subseteq Download
  /\ stream \in Streams /\ Bounded
  /\ laneOp \in Ops /\ viewer \in Viewers /\ body \in Bodies
  /\ lane \in Lanes /\ PutInRange
  /\ change \in Changes

LEMMA FileTypesInit == FileInit => FileTypes
<1> SUFFICES ASSUME FileInit PROVE FileTypes
  OBVIOUS
<1> USE DEF FileInit
<1>1. stream \in Streams /\ Bounded
  BY LiveFileAssumption DEF Streams, Bounded
<1>2. laneOp \in Ops
  BY DEF Ops, NoOp
<1>3. viewer \in Viewers /\ body \in Bodies
  BY LiveFileAssumption DEF Viewers, Bodies, StageName, Garbage
<1>4. lane \in Lanes /\ PutInRange
  BY LiveFileAssumption DEF Lanes, PutInRange, Rested
<1>5. change \in Changes
  BY DEF Changes
<1>6. QED
  BY <1>1, <1>2, <1>3, <1>4, <1>5 DEF FileTypes

LEMMA Chopped ==
  ASSUME NEW S, NEW q \in Seq(S), q # <<>>
  PROVE  /\ Head(q) \in S /\ Tail(q) \in Seq(S) /\ Len(q) \in Nat
         /\ Len(Tail(q)) = Len(q) - 1
  OBVIOUS

\* The moves of the lane thread.
LEMMA LaneMoves ==
  ASSUME lane \in Lanes, NEW d \in Download
  PROVE  /\ \A p \in {"poll", "push", "put", "final"} :
              [lane EXCEPT !.at = p] \in Lanes
         /\ \A p \in {"push", "final"} :
              lane.next <= Chunks => [lane EXCEPT !.at = p, !.next = @ + 1] \in Lanes
         /\ [lane EXCEPT !.on = {}, !.at = "poll", !.next = 1] \in Lanes
         /\ [lane EXCEPT !.on = {d}, !.at = "push", !.todo = @ \ {d}] \in Lanes
         /\ [lane EXCEPT !.todo = @ \ {d}] \in Lanes
<1>1. lane.next \in 1..(Chunks + 1) /\ lane.todo \subseteq Download
  BY DEF Lanes
<1>2. /\ 1 \in 1..(Chunks + 1)
      /\ lane.next <= Chunks => lane.next + 1 \in 1..(Chunks + 1)
  BY <1>1, LiveFileAssumption
<1>3. \A p \in {"poll", "push", "put", "final"} : [lane EXCEPT !.at = p] \in Lanes
  BY DEF Lanes
<1>4. \A p \in {"push", "final"} :
        lane.next <= Chunks => [lane EXCEPT !.at = p, !.next = @ + 1] \in Lanes
  BY <1>2 DEF Lanes
<1>5. [lane EXCEPT !.on = {}, !.at = "poll", !.next = 1] \in Lanes
  BY <1>2 DEF Lanes
<1>6. [lane EXCEPT !.on = {d}, !.at = "push", !.todo = @ \ {d}] \in Lanes
  BY <1>1 DEF Lanes
<1>7. [lane EXCEPT !.todo = @ \ {d}] \in Lanes
  BY <1>1 DEF Lanes
<1>8. QED
  BY <1>3, <1>4, <1>5, <1>6, <1>7

\* The stream and its slot, closed, canceled or left alone.
LEMMA CloseTypes ==
  ASSUME stream \in Streams, Bounded, slot \subseteq Download,
         NEW d \in Download,
         Close(d) \/ Cancel(d) \/ UNCHANGED <<stream, slot>>
  PROVE  stream' \in Streams /\ Bounded' /\ slot' \subseteq Download
<1>1. CASE Close(d)
  <2>1. stream' \in Streams
    BY <1>1 DEF Close, Streams
  <2>2. Bounded'
    BY <1>1 DEF Close, Streams, Bounded
  <2>3. QED
    BY <1>1, <2>1, <2>2 DEF Close
<1>2. CASE stream' = [stream EXCEPT ![d] = [closed |-> TRUE, queue |-> <<>>]]
             /\ slot' = slot \ {d}
  <2>1. stream' \in Streams
    BY <1>2 DEF Streams
  <2>2. Bounded'
    BY <1>2, LiveFileAssumption DEF Streams, Bounded
  <2>3. QED
    BY <1>2, <2>1, <2>2
<1>3. CASE UNCHANGED <<stream, slot>>
  BY <1>3 DEF Bounded
<1>4. QED
  BY <1>1, <1>2, <1>3 DEF Cancel

LEMMA OpTypes ==
  ASSUME laneOp \in Ops, NEW d \in Download
  PROVE  /\ [laneOp EXCEPT ![d] = NoOp] \in Ops
         /\ [laneOp EXCEPT ![d] = [in |-> TRUE, pending |-> TRUE,
                                   result |-> "none"]] \in Ops
         /\ [laneOp EXCEPT ![d].result = "ok"] \in Ops
         /\ [laneOp EXCEPT ![d].result = "error"] \in Ops
  BY DEF Ops, NoOp

LEMMA ViewerTypes ==
  ASSUME viewer \in Viewers, NEW d \in Download, NEW p \in StageName, Goes(d, p)
  PROVE  viewer' \in Viewers
  BY DEF Viewers, Goes

LEMMA ServeTypes ==
  ASSUME FileTypes, NEW d \in Download, Serve(d)
  PROVE  FileTypes'
<1>0. /\ liveTarget \in {"eligible", "ineligible", "gone"} /\ alive \in BOOLEAN
      /\ slot \subseteq Download /\ stream \in Streams /\ Bounded
      /\ laneOp \in Ops /\ viewer \in Viewers /\ body \in Bodies
      /\ lane \in Lanes /\ PutInRange /\ change \in Changes
  BY DEF FileTypes
<1>1. UNCHANGED <<liveTarget, alive, lane, change>>
  BY DEF Serve, OpenStream, Submit, Answered, WaitOver, TakeChunk,
         WriteChunk, Finish
<1>2. laneOp' \in Ops
  BY <1>0, OpTypes DEF Serve, OpenStream, Submit, Answered, WaitOver,
                       TakeChunk, WriteChunk, Finish
<1>3. CASE TakeChunk(d) /\ stream[d].queue # <<>>
  <2>1. /\ viewer' = [viewer EXCEPT ![d] = [at |-> "chunk",
                                           hand |-> Head(stream[d].queue)]]
        /\ stream' = [stream EXCEPT ![d].queue = Tail(@)]
        /\ UNCHANGED <<slot, body>>
    BY <1>3 DEF TakeChunk
  <2>2. stream[d].queue \in Seq(1..Chunks) /\ Len(stream[d].queue) <= MaxQueue
    BY <1>0 DEF Streams, Bounded
  <2>3. /\ Head(stream[d].queue) \in 1..Chunks
        /\ Tail(stream[d].queue) \in Seq(1..Chunks)
        /\ Len(Tail(stream[d].queue)) <= MaxQueue
    <3>1. /\ Head(stream[d].queue) \in 1..Chunks
          /\ Tail(stream[d].queue) \in Seq(1..Chunks)
          /\ Len(stream[d].queue) \in Nat
          /\ Len(Tail(stream[d].queue)) = Len(stream[d].queue) - 1
      BY <1>3, <2>2, Chopped
    <3>2. QED
      BY <2>2, <3>1, LiveFileAssumption
  <2>4. stream' \in Streams /\ Bounded'
    BY <1>0, <2>1, <2>3 DEF Streams, Bounded
  <2>5. viewer' \in Viewers
    <3>1. Head(stream[d].queue) \in 0..Chunks
      BY <2>3, LiveFileAssumption
    <3>2. QED
      BY <1>0, <2>1, <3>1 DEF Viewers, StageName
  <2>6. QED
    BY <1>0, <1>1, <1>2, <2>1, <2>4, <2>5 DEF FileTypes, PutInRange
<1>4. CASE ~(TakeChunk(d) /\ stream[d].queue # <<>>)
  <2>1. viewer' \in Viewers
    <3>1. \E p \in StageName : Goes(d, p)
      BY <1>4 DEF Serve, OpenStream, Submit, Answered, WaitOver, TakeChunk,
                  WriteChunk, Finish, StageName
    <3>2. QED
      BY <1>0, <3>1, ViewerTypes
  <2>2. body' \in Bodies
    <3>1. /\ Append(body[d], viewer[d].hand) \in Seq(0..Chunks)
          /\ Append(body[d], Garbage) \in Seq(0..Chunks)
      BY <1>0, LiveFileAssumption DEF Viewers, Bodies, Garbage
    <3>2. \/ UNCHANGED body
          \/ body' = [body EXCEPT ![d] = Append(@, viewer[d].hand)]
          \/ body' = [body EXCEPT ![d] = Append(@, Garbage)]
      BY DEF Serve, OpenStream, Submit, Answered, WaitOver, TakeChunk,
             WriteChunk, Finish
    <3>3. QED
      BY <1>0, <3>1, <3>2 DEF Bodies
  <2>3. \/ Close(d) \/ Cancel(d) \/ UNCHANGED <<stream, slot>>
        \/ OpenStream(d)
    BY <1>4 DEF Serve, Submit, Answered, WaitOver, TakeChunk, WriteChunk,
                Finish
  <2>4. stream' \in Streams /\ Bounded' /\ slot' \subseteq Download
    <3>1. CASE OpenStream(d)
      BY <1>0, <3>1 DEF OpenStream, Bounded
    <3>2. QED
      BY <1>0, <2>3, <3>1, CloseTypes
  <2>5. QED
    BY <1>0, <1>1, <1>2, <2>1, <2>2, <2>4 DEF FileTypes, PutInRange
<1>5. QED
  BY <1>3, <1>4

LEMMA LaneTypes ==
  ASSUME FileTypes, LaneStep \/ WorkerFallsSilent
  PROVE  FileTypes'
<1>0. /\ liveTarget \in {"eligible", "ineligible", "gone"} /\ alive \in BOOLEAN
      /\ slot \subseteq Download /\ stream \in Streams /\ Bounded
      /\ laneOp \in Ops /\ viewer \in Viewers /\ body \in Bodies
      /\ lane \in Lanes /\ PutInRange /\ change \in Changes
  BY DEF FileTypes
<1>1. UNCHANGED <<liveTarget, alive, viewer, body, change>>
  BY DEF LaneStep, WorkerFallsSilent, PollLane, Respond, LookUp, Put, Final
<1>2. laneOp' \in Ops
  <2>1. CASE PollLane
    BY <1>0, <2>1 DEF PollLane, Ops
  <2>2. CASE ~PollLane
    BY <1>0, <2>2, OpTypes DEF LaneStep, WorkerFallsSilent, Respond, LookUp,
                               Put, Final
  <2>3. QED
    BY <2>1, <2>2
<1>3. lane' \in Lanes /\ PutInRange'
  <2>1. CASE PollLane
    <3>1. PICK taken \in SUBSET Download : lane' = [lane EXCEPT !.todo = taken]
      BY <2>1 DEF PollLane
    <3>2. lane'.at = lane.at /\ lane'.next = lane.next /\ lane' \in Lanes
      BY <1>0, <3>1 DEF Lanes
    <3>3. QED
      BY <1>0, <3>2 DEF PutInRange
  <2>2. CASE WorkerFallsSilent
    <3>1. 1 \in 1..(Chunks + 1)
      BY LiveFileAssumption
    <3>2. QED
      BY <2>2, <3>1 DEF WorkerFallsSilent, Rested, Lanes, PutInRange
  <2>3. ASSUME NEW d \in Download, Respond(d) \/ Final(d)
        PROVE  lane' \in Lanes /\ PutInRange'
    <3>1. \/ lane' = [lane EXCEPT !.on = {}, !.at = "poll", !.next = 1]
          \/ lane' = [lane EXCEPT !.on = {d}, !.at = "push", !.todo = @ \ {d}]
          \/ lane' = [lane EXCEPT !.todo = @ \ {d}]
      BY <2>3 DEF Respond, Final, NextCommand
    <3>2. lane' \in Lanes
      BY <1>0, <3>1, LaneMoves
    <3>3. lane'.at = "put" => lane.at = "put" /\ lane'.next = lane.next
      BY <1>0, <3>1 DEF Lanes
    <3>4. QED
      BY <1>0, <3>2, <3>3 DEF PutInRange
  <2>4. ASSUME NEW d \in Download, LookUp(d) \/ Put(d)
        PROVE  lane' \in Lanes /\ PutInRange'
    <3>1. \/ /\ lane' = [lane EXCEPT !.at = "put"]
             /\ lane.next <= Chunks
          \/ lane' = [lane EXCEPT !.at = "final"]
          \/ /\ \E p \in {"push", "final"} :
                   lane' = [lane EXCEPT !.at = p, !.next = @ + 1]
             /\ lane.next <= Chunks
      BY <1>0, <2>4 DEF LookUp, Put, Busy, LaneGoes, Pushed, PutInRange
    <3>2. lane' \in Lanes
      BY <1>0, <3>1, LaneMoves
    <3>3. lane'.at = "put" => lane.next <= Chunks /\ lane'.next = lane.next
      BY <1>0, <3>1 DEF Lanes
    <3>4. QED
      BY <3>2, <3>3 DEF PutInRange
  <2>5. QED
    BY <2>1, <2>2, <2>3, <2>4 DEF LaneStep
<1>4. stream' \in Streams /\ Bounded' /\ slot' \subseteq Download
  <2>1. CASE PollLane \/ WorkerFallsSilent
    BY <1>0, <2>1 DEF PollLane, WorkerFallsSilent, Bounded
  <2>2. ASSUME NEW d \in Download, Respond(d) \/ Final(d) \/ LookUp(d)
        PROVE  stream' \in Streams /\ Bounded' /\ slot' \subseteq Download
    BY <1>0, <2>2, CloseTypes DEF Respond, Final, LookUp
  <2>3. ASSUME NEW d \in Download, Put(d), Len(stream[d].queue) < MaxQueue
        PROVE  stream' \in Streams /\ Bounded' /\ slot' \subseteq Download
    <3>1. /\ stream' = [stream EXCEPT ![d].queue = Append(@, lane.next)]
          /\ UNCHANGED slot
      BY <2>3 DEF Put
    <3>2. lane.next \in 1..Chunks
      BY <1>0, <2>3, LiveFileAssumption DEF Put, Busy, Lanes, PutInRange
    <3>3. stream[d].queue \in Seq(1..Chunks)
      BY <1>0 DEF Streams
    <3>4. /\ Append(stream[d].queue, lane.next) \in Seq(1..Chunks)
          /\ Len(Append(stream[d].queue, lane.next)) <= MaxQueue
      BY <2>3, <3>2, <3>3, LiveFileAssumption
    <3>5. QED
      BY <1>0, <3>1, <3>4 DEF Streams, Bounded
  <2>4. ASSUME NEW d \in Download, Put(d), ~(Len(stream[d].queue) < MaxQueue)
        PROVE  stream' \in Streams /\ Bounded' /\ slot' \subseteq Download
    BY <1>0, <2>4, CloseTypes DEF Put
  <2>5. QED
    BY <2>1, <2>2, <2>3, <2>4 DEF LaneStep
<1>5. QED
  BY <1>0, <1>1, <1>2, <1>3, <1>4 DEF FileTypes

LEMMA ChangeMade ==
  ASSUME change \in Changes, NEW T \in SUBSET Download, NEW O \in SUBSET Download
  PROVE  /\ [change EXCEPT !.todo = T] \in Changes
         /\ [change EXCEPT !.todo = T, !.on = O] \in Changes
<1>1. [change EXCEPT !.todo = T] \in Changes
  BY DEF Changes
<1>2. [change EXCEPT !.todo = T, !.on = O] \in Changes
  BY DEF Changes
<1>3. QED
  BY <1>1, <1>2

LEMMA ChangeTypes ==
  ASSUME FileTypes, ChangeStep
  PROVE  FileTypes'
<1>0. /\ liveTarget \in {"eligible", "ineligible", "gone"} /\ alive \in BOOLEAN
      /\ slot \subseteq Download /\ stream \in Streams /\ Bounded
      /\ laneOp \in Ops /\ viewer \in Viewers /\ body \in Bodies
      /\ lane \in Lanes /\ PutInRange /\ change \in Changes
  BY DEF FileTypes
<1>1. /\ UNCHANGED <<viewer, body, lane>>
      /\ liveTarget' \in {"eligible", "ineligible", "gone"}
      /\ alive' \in BOOLEAN
  BY <1>0 DEF ChangeStep, SaveTarget, Invalidate, ListOps, FlagStream,
              DrainStream, CancelOp
<1>2. laneOp' \in Ops
  BY <1>0, OpTypes DEF ChangeStep, SaveTarget, Invalidate, ListOps,
                       FlagStream, DrainStream, CancelOp
<1>3. change' \in Changes
  <2>1. \/ \E p \in {"saved", "flag", "ops"} : change' = [change EXCEPT !.at = p]
        \/ \E p \in {"flag", "ops"}, S \in SUBSET Download :
             change' = [change EXCEPT !.at = p, !.todo = S]
        \/ \E d \in Download :
             \/ change' = [change EXCEPT !.todo = @ \ {d}]
             \/ change' = [change EXCEPT !.todo = @ \ {d}, !.on = {d}]
        \/ change' = [change EXCEPT !.on = {}]
    BY <1>0 DEF ChangeStep, SaveTarget, Invalidate, ListOps, FlagStream,
                DrainStream, CancelOp
  <2>2. change.todo \subseteq Download
    BY <1>0 DEF Changes
  <2>3. ASSUME NEW d \in Download,
               \/ change' = [change EXCEPT !.todo = @ \ {d}]
               \/ change' = [change EXCEPT !.todo = @ \ {d}, !.on = {d}]
        PROVE  change' \in Changes
    <3>1. change.todo \ {d} \subseteq Download /\ {d} \subseteq Download
      BY <2>2
    <3>2. PICK T \in SUBSET Download, O \in SUBSET Download :
            \/ change' = [change EXCEPT !.todo = T]
            \/ change' = [change EXCEPT !.todo = T, !.on = O]
      BY <2>3, <3>1, Zenon
    <3>3. QED
      BY <1>0, <3>2, ChangeMade
  <2>4. ASSUME NEW p \in {"saved", "flag", "ops"}, NEW S \in SUBSET Download,
               \/ change' = [change EXCEPT !.at = p]
               \/ change' = [change EXCEPT !.at = p, !.todo = S]
        PROVE  change' \in Changes
    BY <1>0, <2>4 DEF Changes
  <2>5. CASE change' = [change EXCEPT !.on = {}]
    BY <1>0, <2>5 DEF Changes
  <2>6. QED
    BY <2>1, <2>3, <2>4, <2>5
<1>4. stream' \in Streams /\ Bounded' /\ slot' \subseteq Download
  <2>1. CASE SaveTarget \/ Invalidate \/ ListOps
    BY <1>0, <2>1 DEF SaveTarget, Invalidate, ListOps, Bounded
  <2>2. ASSUME NEW d \in Download, FlagStream(d) \/ DrainStream(d)
        PROVE  stream' \in Streams /\ Bounded' /\ slot' \subseteq Download
    <3>1. /\ UNCHANGED slot
          /\ \/ UNCHANGED stream
             \/ stream' = [stream EXCEPT ![d].closed = TRUE]
             \/ stream' = [stream EXCEPT ![d].queue = <<>>]
      BY <2>2 DEF FlagStream, DrainStream
    <3>2. CASE UNCHANGED stream
      BY <1>0, <3>1, <3>2 DEF Bounded
    <3>3. CASE stream' = [stream EXCEPT ![d].closed = TRUE]
      BY <1>0, <3>1, <3>3 DEF Streams, Bounded
    <3>4. CASE stream' = [stream EXCEPT ![d].queue = <<>>]
      <4>1. <<>> \in Seq(1..Chunks) /\ Len(<<>>) <= MaxQueue
        BY LiveFileAssumption
      <4>2. QED
        BY <1>0, <3>1, <3>4, <4>1 DEF Streams, Bounded
    <3>5. QED
      BY <3>1, <3>2, <3>3, <3>4
  <2>3. ASSUME NEW d \in Download, CancelOp(d)
        PROVE  stream' \in Streams /\ Bounded' /\ slot' \subseteq Download
    BY <1>0, <2>3, CloseTypes DEF CancelOp
  <2>4. QED
    BY <2>1, <2>2, <2>3 DEF ChangeStep
<1>5. QED
  BY <1>0, <1>1, <1>2, <1>3, <1>4 DEF FileTypes, PutInRange

LEMMA FileTypesStep ==
  ASSUME FileTypes, [FileNext]_fileVars PROVE FileTypes'
<1>1. CASE UNCHANGED fileVars
  BY <1>1 DEF fileVars, FileTypes, Bounded, PutInRange
<1>2. QED
  BY <1>1, ServeTypes, LaneTypes, ChangeTypes DEF FileNext

\* Every variable of the download stays in its type; in particular no queue
\* holds more than stream_queue_size chunks.
THEOREM FileTypeCorrect == FileSpec => []FileTypeOK
<1>1. FileTypes => FileTypeOK
  BY DEF FileTypes, FileTypeOK, Streams, Ops, Viewers, Bodies, Lanes, Changes,
         StageName, Bounded
<1>2. QED
  BY <1>1, FileTypesInit, FileTypesStep, PTL DEF FileSpec

-----------------------------------------------------------------------------
(* The slots.                                                              *)

(* Where a request is once its operation is on the lane.                   *)
OnLane == {"waiting", "stream", "chunk", "finish"}

(* A stream is closed when it gives its slot back, so that whoever closes  *)
(* it once more, or finds it closed, has no slot to give back; and the     *)
(* operation stays on the lane as long as the request may have a slot.     *)
SlotInv ==
  /\ \A d \in Download : stream[d].closed => d \notin slot
  /\ ~alive => slot = {}
  /\ change.at \in {"flag", "ops"} => ~alive
  /\ \A d \in Download : alive /\ At(d, "idle") => ~stream[d].closed
  /\ \A d \in Download : laneOp[d].in => viewer[d].at \in OnLane
  /\ \A d \in slot : \/ viewer[d].at \in {"open", "laneFull"}
                     \/ viewer[d].at \in OnLane /\ laneOp[d].in

LEMMA SlotInvInit == FileInit => SlotInv
  BY DEF FileInit, SlotInv, NoOp, At

\* Closing and canceling both leave a closed stream without a slot.
LEMMA CloseFrees ==
  ASSUME FileTypes, SlotInv, NEW d \in Download, Close(d) \/ Cancel(d)
  PROVE  /\ slot' = slot \ {d} /\ stream'[d].closed
         /\ \A e \in Download : e # d => stream'[e] = stream[e]
<1>1. stream \in Streams /\ (stream[d].closed => d \notin slot)
  BY DEF FileTypes, SlotInv
<1>2. CASE Close(d)
  BY <1>1, <1>2 DEF Close, Streams
<1>3. CASE Cancel(d)
  BY <1>1, <1>3 DEF Cancel, Streams
<1>4. QED
  BY <1>2, <1>3

\* A request whose stream is closed, and whose operation may be forgotten.
LEMMA RequestEnds ==
  ASSUME FileTypes, SlotInv, NEW d \in Download, viewer[d].at \in OnLane,
         UNCHANGED <<alive, change>>, Close(d) \/ Cancel(d),
         laneOp' = laneOp \/ laneOp' = [laneOp EXCEPT ![d] = NoOp],
         viewer' = viewer \/ (\E p \in {"finish", "served", "refused"} : Goes(d, p)),
         laneOp'[d].in => viewer'[d].at \in OnLane
  PROVE  SlotInv'
<1>1. /\ slot' = slot \ {d} /\ stream'[d].closed
      /\ \A e \in Download : e # d => stream'[e] = stream[e]
  BY CloseFrees
<1>2. laneOp \in Ops /\ viewer \in Viewers /\ slot \subseteq Download
  BY DEF FileTypes
<1>3. \A e \in Download : e # d => laneOp'[e] = laneOp[e] /\ viewer'[e] = viewer[e]
  BY <1>2 DEF Ops, Viewers, Goes
<1>4. viewer'[d].at # "idle"
  BY <1>2 DEF Goes, Viewers, OnLane
<1>5. QED
  BY <1>1, <1>2, <1>3, <1>4 DEF SlotInv, At

\* A request goes on while the streams and the slots stay as they are.
LEMMA RequestMoves ==
  ASSUME FileTypes, SlotInv, NEW d \in Download,
         UNCHANGED <<alive, change, slot>>,
         \A e \in Download : stream'[e].closed = stream[e].closed,
         \A e \in Download : laneOp'[e].in = laneOp[e].in,
         \A e \in Download \ {d} : viewer'[e].at = viewer[e].at,
         viewer'[d].at # "idle" \/ viewer'[d].at = viewer[d].at,
         laneOp[d].in => viewer'[d].at \in OnLane,
         d \in slot => viewer'[d].at \in {"open", "laneFull"} \/ laneOp[d].in
  PROVE  SlotInv'
<1>1. slot \subseteq Download
  BY DEF FileTypes
<1>2. QED
  BY <1>1 DEF SlotInv, At

LEMMA ServeSlots ==
  ASSUME FileTypes, SlotInv, NEW d \in Download, Serve(d)
  PROVE  SlotInv'
<1>0. /\ stream \in Streams /\ laneOp \in Ops /\ viewer \in Viewers
      /\ slot \subseteq Download
  BY DEF FileTypes
<1>1. CASE OpenStream(d)
  <2>1. /\ UNCHANGED <<alive, stream, laneOp, change>>
        /\ \/ alive /\ slot' = slot \union {d} /\ Goes(d, "open")
           \/ slot' = slot /\ Goes(d, "refused")
        /\ viewer[d].at = "idle"
    BY <1>1 DEF OpenStream, At
  <2>2. /\ \A e \in Download : e # d => viewer'[e] = viewer[e]
        /\ \/ alive /\ slot' = slot \union {d} /\ viewer'[d].at = "open"
           \/ slot' = slot /\ viewer'[d].at = "refused"
    BY <1>0, <2>1 DEF Goes, Viewers
  <2>3. ~laneOp[d].in /\ d \notin slot /\ (alive => ~stream[d].closed)
    BY <1>0, <2>1 DEF SlotInv, OnLane, At
  <2>4. QED
    BY <1>0, <2>1, <2>2, <2>3 DEF SlotInv, At
<1>2. CASE Submit(d)
  <2>1. /\ UNCHANGED <<alive, slot, stream, change>> /\ viewer[d].at = "open"
        /\ \/ /\ laneOp' = [laneOp EXCEPT ![d] = [in |-> TRUE, pending |-> TRUE,
                                                 result |-> "none"]]
              /\ Goes(d, "waiting")
           \/ Goes(d, "laneFull") /\ UNCHANGED laneOp
    BY <1>2 DEF Submit, At
  <2>2. /\ \A e \in Download : e # d => /\ viewer'[e] = viewer[e]
                                        /\ laneOp'[e] = laneOp[e]
        /\ \/ laneOp'[d].in /\ viewer'[d].at = "waiting"
           \/ laneOp'[d] = laneOp[d] /\ viewer'[d].at = "laneFull"
    BY <1>0, <2>1 DEF Goes, Viewers, Ops
  <2>3. ~laneOp[d].in
    BY <2>1 DEF SlotInv, OnLane
  <2>4. QED
    BY <1>0, <2>1, <2>2, <2>3 DEF SlotInv, OnLane, At
<1>3. CASE Answered(d)
  <2>1. CASE laneOp[d].result = "ok" /\ liveTarget = "eligible"
    <3>1. Goes(d, "stream") /\ UNCHANGED <<alive, change, slot, laneOp, stream>>
      BY <1>3, <2>1 DEF Answered
    <3>2. viewer[d].at = "waiting"
      BY <1>3 DEF Answered, At
    <3>3. /\ viewer'[d].at = "stream"
          /\ \A e \in Download \ {d} : viewer'[e].at = viewer[e].at
      BY <1>0, <3>1 DEF Goes, Viewers
    <3>4. d \in slot => laneOp[d].in
      BY <3>2 DEF SlotInv
    <3>5. QED
      BY <3>1, <3>3, <3>4, RequestMoves DEF OnLane
  <2>2. CASE ~(laneOp[d].result = "ok" /\ liveTarget = "eligible")
    <3>1. /\ Goes(d, "refused") /\ laneOp' = [laneOp EXCEPT ![d] = NoOp]
          /\ Close(d) \/ Cancel(d)
          /\ UNCHANGED <<alive, change>>
          /\ viewer[d].at \in OnLane
      BY <1>3, <2>2 DEF Answered, At, OnLane
    <3>2. ~laneOp'[d].in /\ UNCHANGED <<alive, change>>
      BY <1>0, <1>3, <3>1 DEF Answered, Ops, NoOp
    <3>3. QED
      BY <3>1, <3>2, RequestEnds
  <2>3. QED
    BY <2>1, <2>2
<1>4. CASE WaitOver(d)
  <2>1. /\ laneOp' = [laneOp EXCEPT ![d] = NoOp] /\ Goes(d, "refused")
        /\ viewer[d].at = "waiting" /\ UNCHANGED <<alive, change>>
        /\ IF laneOp[d].in THEN Cancel(d) ELSE UNCHANGED <<stream, slot>>
    BY <1>4 DEF WaitOver, At
  <2>2. /\ laneOp'[d].in = FALSE /\ viewer'[d].at = "refused"
        /\ \A e \in Download \ {d} : /\ viewer'[e].at = viewer[e].at
                                     /\ laneOp'[e] = laneOp[e]
    BY <1>0, <2>1 DEF Goes, Viewers, Ops, NoOp
  <2>3. CASE laneOp[d].in
    BY <2>1, <2>2, <2>3, RequestEnds DEF OnLane
  <2>4. CASE ~laneOp[d].in
    <3>1. d \notin slot
      BY <2>1, <2>4 DEF SlotInv
    <3>2. \A e \in Download : laneOp'[e].in = laneOp[e].in
      BY <1>0, <2>2, <2>4 DEF Ops
    <3>3. QED
      BY <2>1, <2>2, <2>4, <3>1, <3>2, RequestMoves
  <2>5. QED
    BY <2>3, <2>4
<1>5. CASE TakeChunk(d)
  <2>1. /\ UNCHANGED <<alive, slot, laneOp, change>> /\ viewer[d].at = "stream"
        /\ \/ /\ viewer' = [viewer EXCEPT ![d] =
                              [at |-> "chunk", hand |-> Head(stream[d].queue)]]
              /\ stream' = [stream EXCEPT ![d].queue = Tail(@)]
           \/ Goes(d, "finish") /\ UNCHANGED stream
    BY <1>5 DEF TakeChunk, At
  <2>2. /\ viewer'[d].at \in {"chunk", "finish"}
        /\ \A e \in Download \ {d} : viewer'[e].at = viewer[e].at
        /\ \A e \in Download : stream'[e].closed = stream[e].closed
    <3>1. CASE /\ viewer' = [viewer EXCEPT ![d] =
                     [at |-> "chunk", hand |-> Head(stream[d].queue)]]
               /\ stream' = [stream EXCEPT ![d].queue = Tail(@)]
      BY <1>0, <3>1 DEF Viewers, Streams
    <3>2. CASE Goes(d, "finish") /\ UNCHANGED stream
      BY <1>0, <3>2 DEF Goes, Viewers
    <3>3. QED
      BY <2>1, <3>1, <3>2
  <2>3. d \in slot => laneOp[d].in
    BY <2>1 DEF SlotInv
  <2>4. QED
    BY <2>1, <2>2, <2>3, RequestMoves DEF OnLane
<1>6. CASE WriteChunk(d)
  <2>1. /\ UNCHANGED <<alive, laneOp, change>> /\ viewer[d].at = "chunk"
        /\ \/ /\ Goes(d, "stream") \/ Goes(d, "finish")
              /\ UNCHANGED <<stream, slot>>
           \/ Cancel(d) /\ Goes(d, "finish")
    BY <1>6 DEF WriteChunk, At
  <2>2. CASE Cancel(d) /\ Goes(d, "finish")
    <3>1. viewer'[d].at = "finish"
      BY <1>0, <2>2 DEF Goes, Viewers
    <3>2. QED
      BY <2>1, <2>2, <3>1, RequestEnds DEF OnLane
  <2>3. CASE (Goes(d, "stream") \/ Goes(d, "finish")) /\ UNCHANGED <<stream, slot>>
    <3>1. /\ viewer'[d].at \in {"stream", "finish"}
          /\ \A e \in Download \ {d} : viewer'[e].at = viewer[e].at
      BY <1>0, <2>3 DEF Goes, Viewers
    <3>2. d \in slot => laneOp[d].in
      BY <2>1 DEF SlotInv
    <3>3. QED
      BY <2>1, <2>3, <3>1, <3>2, RequestMoves DEF OnLane
  <2>4. QED
    BY <2>1, <2>2, <2>3
<1>7. CASE Finish(d)
  <2>1. /\ laneOp' = [laneOp EXCEPT ![d] = NoOp] /\ Goes(d, "served")
        /\ viewer[d].at = "finish" /\ UNCHANGED <<alive, change>>
        /\ IF laneOp[d].in THEN Close(d) ELSE UNCHANGED <<stream, slot>>
    BY <1>7 DEF Finish, At
  <2>2. /\ laneOp'[d].in = FALSE /\ viewer'[d].at = "served"
        /\ \A e \in Download \ {d} : /\ viewer'[e].at = viewer[e].at
                                     /\ laneOp'[e] = laneOp[e]
    BY <1>0, <2>1 DEF Goes, Viewers, Ops, NoOp
  <2>3. CASE laneOp[d].in
    BY <2>1, <2>2, <2>3, RequestEnds DEF OnLane
  <2>4. CASE ~laneOp[d].in
    <3>1. d \notin slot
      BY <2>1, <2>4 DEF SlotInv
    <3>2. \A e \in Download : laneOp'[e].in = laneOp[e].in
      BY <1>0, <2>2, <2>4 DEF Ops
    <3>3. QED
      BY <2>1, <2>2, <2>4, <3>1, <3>2, RequestMoves
  <2>5. QED
    BY <2>3, <2>4
<1>8. QED
  BY <1>1, <1>2, <1>3, <1>4, <1>5, <1>6, <1>7 DEF Serve

(* The lane works for requests that have begun.                            *)
LaneServes == \A d \in lane.on : viewer[d].at # "idle"

LEMMA LaneServesStep ==
  ASSUME FileTypes, SlotInv, LaneServes, [FileNext]_fileVars
  PROVE  LaneServes'
<1>0. viewer \in Viewers /\ lane \in Lanes /\ lane.on \subseteq Download
  BY DEF FileTypes, Lanes
<1>1. CASE UNCHANGED fileVars
  BY <1>1 DEF fileVars, LaneServes
<1>2. ASSUME NEW d \in Download, Serve(d) PROVE LaneServes'
  <2>1. UNCHANGED lane
    BY <1>2 DEF Serve, OpenStream, Submit, Answered, WaitOver, TakeChunk,
                WriteChunk, Finish
  <2>2. \/ \E p \in StageName \ {"idle"} : Goes(d, p)
        \/ viewer' = [viewer EXCEPT ![d] = [at |-> "chunk",
                                           hand |-> Head(stream[d].queue)]]
    BY <1>2 DEF Serve, OpenStream, Submit, Answered, WaitOver, TakeChunk,
                WriteChunk, Finish, StageName
  <2>3. \A e \in Download : viewer'[e].at # "idle" \/ viewer'[e].at = viewer[e].at
    BY <1>0, <2>2 DEF Goes, Viewers, StageName
  <2>4. QED
    BY <1>0, <2>1, <2>3 DEF LaneServes
<1>3. ASSUME NEW d \in Download, Respond(d) PROVE LaneServes'
  <2>1. UNCHANGED viewer /\ (lane'.on = lane.on \/ (laneOp[d].in /\ lane'.on = {d}))
    BY <1>0, <1>3 DEF Respond, Lanes
  <2>2. QED
    BY <2>1 DEF LaneServes, SlotInv, OnLane
<1>4. CASE /\ LaneStep \/ WorkerFallsSilent
           /\ ~(\E d \in Download : Respond(d))
  <2>1. UNCHANGED viewer
    BY <1>4 DEF LaneStep, WorkerFallsSilent, PollLane, LookUp, Put, Final
  <2>2. lane'.on \in {lane.on, {}}
    <3>1. CASE PollLane
      <4>1. PICK taken : lane' = [lane EXCEPT !.todo = taken]
        BY <3>1 DEF PollLane
      <4>2. QED
        BY <1>0, <4>1 DEF Lanes
    <3>2. ASSUME NEW d \in Download, LookUp(d) \/ Put(d) PROVE lane'.on = lane.on
      <4>1. \E p : LaneGoes(p) \/ Pushed(p)
        BY <3>2 DEF LookUp, Put
      <4>2. QED
        BY <1>0, <4>1 DEF LaneGoes, Pushed, Lanes
    <3>3. ASSUME NEW d \in Download, Final(d) PROVE lane'.on = {}
      BY <1>0, <3>3 DEF Final, NextCommand, Lanes
    <3>4. CASE WorkerFallsSilent
      BY <3>4 DEF WorkerFallsSilent, Rested
    <3>5. QED
      BY <1>4, <3>1, <3>2, <3>3, <3>4 DEF LaneStep
  <2>3. QED
    BY <2>1, <2>2 DEF LaneServes
<1>5. CASE ChangeStep
  BY <1>5 DEF ChangeStep, SaveTarget, Invalidate, ListOps, FlagStream,
              DrainStream, CancelOp, LaneServes
<1>6. QED
  BY <1>1, <1>2, <1>3, <1>4, <1>5 DEF FileNext

LEMMA LaneSlots ==
  ASSUME FileTypes, SlotInv, LaneServes, LaneStep \/ WorkerFallsSilent
  PROVE  SlotInv'
<1>0. /\ stream \in Streams /\ laneOp \in Ops /\ viewer \in Viewers
      /\ slot \subseteq Download
  BY DEF FileTypes
<1>1. UNCHANGED <<alive, viewer, change>>
  BY DEF LaneStep, WorkerFallsSilent, PollLane, Respond, LookUp, Put, Final
<1>2. ASSUME UNCHANGED slot,
             \A e \in Download : /\ stream'[e].closed = stream[e].closed
                                 /\ laneOp'[e].in = laneOp[e].in
      PROVE  SlotInv'
  BY <1>0, <1>1, <1>2 DEF SlotInv, At
<1>3. CASE PollLane
  <2>1. \A e \in Download : laneOp'[e].in = laneOp[e].in
    BY <1>0, <1>3 DEF PollLane, Ops
  <2>2. QED
    BY <1>2, <1>3, <2>1 DEF PollLane
<1>4. CASE WorkerFallsSilent
  BY <1>2, <1>4 DEF WorkerFallsSilent
<1>5. ASSUME NEW d \in Download, Respond(d) PROVE SlotInv'
  <2>1. CASE UNCHANGED <<stream, slot>>
    <3>1. \A e \in Download : laneOp'[e].in = laneOp[e].in
      BY <1>0, <1>5 DEF Respond, Ops
    <3>2. QED
      BY <1>2, <2>1, <3>1
  <2>2. CASE /\ laneOp[d].in /\ Close(d)
             /\ laneOp' = [laneOp EXCEPT ![d].result = "error"]
    <3>1. /\ slot' = slot \ {d} /\ stream'[d].closed
          /\ \A e \in Download : e # d => stream'[e] = stream[e]
      BY <2>2, CloseFrees
    <3>2. \A e \in Download : laneOp'[e].in = laneOp[e].in
      BY <1>0, <2>2 DEF Ops
    <3>3. viewer[d].at \in OnLane
      BY <2>2 DEF SlotInv
    <3>4. QED
      BY <1>0, <1>1, <3>1, <3>2, <3>3 DEF SlotInv, At, OnLane
  <2>3. QED
    BY <1>5, <2>1, <2>2 DEF Respond
<1>6. ASSUME NEW d \in Download, LookUp(d) PROVE SlotInv'
  BY <1>2, <1>6 DEF LookUp
<1>7. ASSUME NEW d \in Download, Put(d) PROVE SlotInv'
  <2>1. CASE Len(stream[d].queue) < MaxQueue
    <3>1. /\ stream' = [stream EXCEPT ![d].queue = Append(@, lane.next)]
          /\ UNCHANGED <<slot, laneOp>>
      BY <1>7, <2>1 DEF Put
    <3>2. \A e \in Download : stream'[e].closed = stream[e].closed
      BY <1>0, <3>1 DEF Streams
    <3>3. QED
      BY <1>2, <3>1, <3>2
  <2>2. CASE Cancel(d) /\ UNCHANGED laneOp
    <3>1. /\ slot' = slot \ {d} /\ stream'[d].closed
          /\ \A e \in Download : e # d => stream'[e] = stream[e]
      BY <2>2, CloseFrees
    <3>2. viewer[d].at # "idle"
      BY <1>7 DEF Put, Busy, LaneServes
    <3>3. QED
      BY <1>0, <1>1, <2>2, <3>1, <3>2 DEF SlotInv, At, OnLane
  <2>3. QED
    BY <1>7, <2>1, <2>2 DEF Put
<1>8. ASSUME NEW d \in Download, Final(d) PROVE SlotInv'
  <2>1. CASE laneOp[d].in /\ Close(d) /\ UNCHANGED laneOp
    <3>1. /\ slot' = slot \ {d} /\ stream'[d].closed
          /\ \A e \in Download : e # d => stream'[e] = stream[e]
      BY <2>1, CloseFrees
    <3>2. viewer[d].at \in OnLane
      BY <2>1 DEF SlotInv
    <3>3. QED
      BY <1>0, <1>1, <2>1, <3>1, <3>2 DEF SlotInv, At, OnLane
  <2>2. QED
    BY <1>2, <1>8, <2>1 DEF Final
<1>9. QED
  BY <1>3, <1>4, <1>5, <1>6, <1>7, <1>8 DEF LaneStep

LEMMA ChangeSlots ==
  ASSUME FileTypes, SlotInv, ChangeStep
  PROVE  SlotInv'
<1>0. /\ stream \in Streams /\ laneOp \in Ops /\ viewer \in Viewers
      /\ slot \subseteq Download /\ change \in Changes
  BY DEF FileTypes
<1>1. UNCHANGED viewer
  BY DEF ChangeStep, SaveTarget, Invalidate, ListOps, FlagStream, DrainStream,
         CancelOp
<1>2. CASE SaveTarget
  BY <1>0, <1>1, <1>2 DEF SaveTarget, SlotInv, Changes, At
<1>3. CASE Invalidate
  BY <1>0, <1>1, <1>3 DEF Invalidate, SlotInv, At
<1>4. CASE ListOps
  BY <1>0, <1>1, <1>4 DEF ListOps, SlotInv, Changes, At
<1>5. ASSUME NEW d \in Download, FlagStream(d) \/ DrainStream(d) PROVE SlotInv'
  <2>1. (~alive /\ slot = {}) \/ stream'[d].closed = stream[d].closed
    BY <1>0, <1>5 DEF FlagStream, DrainStream, SlotInv, Streams
  <2>2. /\ UNCHANGED <<alive, slot, laneOp>>
        /\ change'.at = change.at
        /\ \A e \in Download \ {d} : stream'[e] = stream[e]
    BY <1>0, <1>5 DEF FlagStream, DrainStream, Changes, Streams
  <2>3. QED
    BY <1>0, <1>1, <2>1, <2>2 DEF SlotInv, At
<1>6. ASSUME NEW d \in Download, CancelOp(d) PROVE SlotInv'
  <2>1. /\ laneOp' = [laneOp EXCEPT ![d] = NoOp] /\ UNCHANGED alive
        /\ Cancel(d) \/ UNCHANGED <<stream, slot>>
        /\ change.at = "ops" /\ change' = [change EXCEPT !.todo = @ \ {d}]
    BY <1>6 DEF CancelOp
  <2>2. slot = {} /\ ~alive
    BY <2>1 DEF SlotInv
  <2>3. slot' = {}
    BY <2>1, <2>2 DEF Cancel
  <2>4. /\ \A e \in Download : laneOp'[e].in => laneOp[e].in
        /\ change'.at = "ops"
    BY <1>0, <2>1 DEF Ops, NoOp, Changes
  <2>5. QED
    BY <1>0, <1>1, <2>1, <2>2, <2>3, <2>4 DEF SlotInv, At
<1>7. QED
  BY <1>2, <1>3, <1>4, <1>5, <1>6 DEF ChangeStep

LEMMA SlotInvStep ==
  ASSUME FileTypes, SlotInv, LaneServes, [FileNext]_fileVars
  PROVE  SlotInv'
<1>1. CASE UNCHANGED fileVars
  BY <1>1 DEF fileVars, SlotInv, At
<1>2. CASE FileNext
  BY <1>2, ServeSlots, LaneSlots, ChangeSlots DEF FileNext
<1>3. QED
  BY <1>1, <1>2

\* Every slot belongs to a request that is still going on, or that the lane
\* had no room for, in whatever order answers, chunks, ends and cancellations
\* come: for any number of requests and slots.
THEOREM SlotsBelongToRequests == FileSpec => []SlotsAreInUse
<1> DEFINE Inv == FileTypes /\ SlotInv /\ LaneServes
<1>1. FileInit => Inv
  BY FileTypesInit, SlotInvInit DEF FileInit, LaneServes, Rested
<1>2. Inv /\ [FileNext]_fileVars => Inv'
  BY FileTypesStep, SlotInvStep, LaneServesStep
<1>3. Inv => SlotsAreInUse
  BY DEF SlotInv, SlotsAreInUse, OnLane
<1>4. QED
  BY <1>1, <1>2, <1>3, PTL DEF FileSpec

-----------------------------------------------------------------------------
(* What the browser gets.                                                  *)

(* The chunks of the file that have come out of the queue.                 *)
Reached(d) == Len(body[d]) + (IF viewer[d].at = "chunk" THEN 1 ELSE 0)

Receiving == {"waiting", "stream", "chunk"}

Blank(d) == body[d] = <<>> /\ stream[d].queue = <<>>

(* The beginning of the file, and a part of it after the first n chunks.   *)
Beginning(b) == \A i \in 1..Len(b) : b[i] = i
Follows(q, n) == \A i \in 1..Len(q) : q[i] = n + i

LEMMA NothingFollows == Beginning(<<>>) /\ \A n \in Nat : Follows(<<>>, n)
  BY DEF Beginning, Follows

LEMMA ElementInSet ==
  ASSUME NEW S, NEW q \in Seq(S), NEW i \in 1..Len(q)
  PROVE  q[i] \in S
  OBVIOUS

LEMMA LongerBeginning ==
  ASSUME NEW b \in Seq(0..Chunks), Beginning(b), Len(b) + 1 \in 0..Chunks
  PROVE  /\ Beginning(Append(b, Len(b) + 1))
         /\ Len(Append(b, Len(b) + 1)) = Len(b) + 1
  BY DEF Beginning

LEMMA NextFollows ==
  ASSUME NEW q \in Seq(1..Chunks), NEW n \in Nat, Follows(q, n),
         n + Len(q) + 1 \in 1..Chunks
  PROVE  /\ Follows(Append(q, n + Len(q) + 1), n)
         /\ Len(Append(q, n + Len(q) + 1)) = Len(q) + 1
<1> DEFINE c == n + Len(q) + 1
<1>1. /\ Len(q) \in Nat /\ Len(Append(q, c)) = Len(q) + 1
      /\ Append(q, c)[Len(q) + 1] = c
      /\ \A i \in 1..Len(q) : Append(q, c)[i] = q[i]
  OBVIOUS
<1>2. c = n + (Len(q) + 1)
  BY <1>1
<1> HIDE DEF c
<1>3. \A i \in 1..(Len(q) + 1) : Append(q, c)[i] = n + i
  BY <1>1, <1>2 DEF Follows
<1>4. QED
  BY <1>1, <1>3 DEF Follows, c

LEMMA RestFollows ==
  ASSUME NEW q \in Seq(1..Chunks), NEW n \in Nat, Follows(q, n), q # <<>>
  PROVE  Head(q) = n + 1 /\ Follows(Tail(q), n + 1) /\ Len(Tail(q)) = Len(q) - 1
<1>1. Len(q) \in Nat /\ Len(q) >= 1 /\ Len(Tail(q)) = Len(q) - 1
  OBVIOUS
<1>2. Head(q) = n + 1
  BY <1>1 DEF Follows
<1>3. \A i \in 1..(Len(q) - 1) : Tail(q)[i] = q[i + 1] /\ i + 1 \in 1..Len(q)
  BY <1>1
<1>4. QED
  BY <1>1, <1>2, <1>3 DEF Follows

(* Before the worker answers nothing has been put or written, and after    *)
(* the answer the operation is not done a second time.                     *)
BeforeAnswer(d) ==
  /\ viewer[d].at \in {"idle", "open"} \/ laneOp[d].pending =>
       Blank(d) /\ d \notin lane.on /\ d \notin lane.todo
  /\ d \in lane.todo => Blank(d) /\ d \notin lane.on
  /\ laneOp[d].pending \/ d \in lane.todo =>
       /\ viewer[d].at \notin {"idle", "open", "stream", "chunk"}
       /\ laneOp[d].result = "none"

(* What was written, what the request has in hand, what is in the queue    *)
(* and what the worker will put next follow each other.                    *)
InOrder(d) ==
  /\ Beginning(body[d])
  /\ viewer[d].at = "chunk" => viewer[d].hand = Len(body[d]) + 1
  /\ viewer[d].at \in Receiving =>
       /\ Follows(stream[d].queue, Reached(d))
       /\ lane.on = {d} /\ lane.at \in {"push", "put"} /\ ~stream[d].closed =>
            lane.next = Reached(d) + Len(stream[d].queue) + 1
       /\ lane.on = {d} /\ lane.at = "put" => ~stream[d].closed

Track(d) == BeforeAnswer(d) /\ InOrder(d)

Undisturbed ==
  /\ liveTarget = "eligible" /\ change.on = {}
  /\ lane.on = {} => lane.next = 1
  /\ \A d \in Download : Track(d)

PrefixInv == change.at = "none" => Undisturbed

LEMMA PrefixInvInit == FileInit => PrefixInv
  BY NothingFollows DEF FileInit, PrefixInv, Undisturbed, Track, BeforeAnswer,
       InOrder, Blank, Reached, Receiving, Rested, NoOp

\* A request that a step does not concern.
LEMMA Bystander ==
  ASSUME NEW d \in Download, Track(d),
         body'[d] = body[d], stream'[d] = stream[d], viewer'[d] = viewer[d],
         laneOp'[d] = laneOp[d],
         \/ lane' = lane
         \/ d \notin lane'.on /\ lane'.todo \subseteq lane.todo
  PROVE  Track(d)'
  BY DEF Track, BeforeAnswer, InOrder, Blank, Reached

\* The stream is closed, or closed and emptied, or left alone.
LEMMA CloseLeaves ==
  ASSUME FileTypes, NEW d \in Download,
         Close(d) \/ Cancel(d) \/ UNCHANGED <<stream, slot>>
  PROVE  /\ stream'[d].closed \/ stream'[d] = stream[d]
         /\ stream'[d].queue = stream[d].queue \/ stream'[d].queue = <<>>
         /\ \A e \in Download \ {d} : stream'[e] = stream[e]
<1>1. stream \in Streams
  BY DEF FileTypes
<1>2. CASE Close(d)
  BY <1>1, <1>2 DEF Close, Streams
<1>3. CASE Cancel(d)
  BY <1>1, <1>3 DEF Cancel, Streams
<1>4. CASE UNCHANGED <<stream, slot>>
  BY <1>4
<1>5. QED
  BY <1>2, <1>3, <1>4

LEMMA ServeOthers ==
  ASSUME FileTypes, NEW d \in Download, Serve(d)
  PROVE  /\ \A e \in Download \ {d} :
              /\ body'[e] = body[e] /\ stream'[e] = stream[e]
              /\ viewer'[e] = viewer[e] /\ laneOp'[e] = laneOp[e]
         /\ UNCHANGED <<lane, change, liveTarget>>
<1>0. /\ stream \in Streams /\ laneOp \in Ops /\ viewer \in Viewers
      /\ body \in Bodies
  BY DEF FileTypes
<1>1. UNCHANGED <<lane, change, liveTarget>>
  BY DEF Serve, OpenStream, Submit, Answered, WaitOver, TakeChunk, WriteChunk,
         Finish
<1>2. \A e \in Download \ {d} : stream'[e] = stream[e]
  <2>1. \/ Close(d) \/ Cancel(d) \/ UNCHANGED stream
        \/ stream' = [stream EXCEPT ![d].queue = Tail(@)]
    BY DEF Serve, OpenStream, Submit, Answered, WaitOver, TakeChunk, WriteChunk,
           Finish
  <2>2. QED
    BY <1>0, <2>1 DEF Close, Cancel, Streams
<1>3. \A e \in Download \ {d} : laneOp'[e] = laneOp[e] /\ body'[e] = body[e]
  BY <1>0 DEF Serve, OpenStream, Submit, Answered, WaitOver, TakeChunk,
              WriteChunk, Finish, Ops, Bodies
<1>4. \A e \in Download \ {d} : viewer'[e] = viewer[e]
  BY <1>0 DEF Serve, OpenStream, Submit, Answered, WaitOver, TakeChunk,
              WriteChunk, Finish, Goes, Viewers
<1>5. QED
  BY <1>1, <1>2, <1>3, <1>4

\* A request that no longer receives anything.
LEMMA Ended ==
  ASSUME NEW d \in Download, FileTypes, Track(d),
         body'[d] = body[d], UNCHANGED lane,
         viewer'[d].at \in {"finish", "served", "refused"},
         viewer[d].at \notin {"idle", "open"} \/ Blank(d),
         stream'[d].queue = stream[d].queue \/ stream'[d].queue = <<>>,
         laneOp'[d] = laneOp[d] \/ laneOp'[d] = NoOp
  PROVE  Track(d)'
<1>1. BeforeAnswer(d)'
  BY DEF Track, BeforeAnswer, Blank, NoOp
<1>2. InOrder(d)'
  BY DEF Track, InOrder, Receiving
<1>3. QED
  BY <1>1, <1>2 DEF Track

LEMMA ServeTrack ==
  ASSUME FileTypes, Undisturbed, NEW d \in Download, Serve(d)
  PROVE  Track(d)'
<1>0. /\ stream \in Streams /\ laneOp \in Ops /\ viewer \in Viewers
      /\ body \in Bodies /\ Track(d) /\ liveTarget = "eligible"
      /\ UNCHANGED lane
  BY ServeOthers DEF FileTypes, Undisturbed
<1>1. CASE OpenStream(d)
  <2>1. viewer'[d].at \in {"open", "refused"} /\ viewer[d].at = "idle"
    BY <1>0, <1>1 DEF OpenStream, Goes, Viewers, At
  <2>2. UNCHANGED <<stream, body, laneOp>>
    BY <1>1 DEF OpenStream
  <2>3. BeforeAnswer(d)'
    BY <1>0, <2>1, <2>2 DEF Track, BeforeAnswer, Blank
  <2>4. InOrder(d)'
    BY <1>0, <2>1, <2>2 DEF Track, InOrder, Receiving
  <2>5. QED
    BY <2>3, <2>4 DEF Track
<1>2. CASE Submit(d)
  <2>1. /\ viewer'[d].at \in {"waiting", "laneFull"} /\ viewer[d].at = "open"
        /\ laneOp'[d] = laneOp[d] \/ laneOp'[d].result = "none"
    BY <1>0, <1>2 DEF Submit, Goes, Viewers, Ops, At
  <2>2. /\ Blank(d) /\ d \notin lane.on /\ d \notin lane.todo
        /\ ~laneOp[d].pending
    BY <1>0, <2>1 DEF Track, BeforeAnswer
  <2>3. UNCHANGED <<stream, body>>
    BY <1>2 DEF Submit
  <2>4. BeforeAnswer(d)'
    BY <1>0, <2>1, <2>2, <2>3 DEF BeforeAnswer, Blank
  <2>5. Reached(d)' = 0
    <3>1. body'[d] = <<>> /\ viewer'[d].at # "chunk"
      BY <2>1, <2>2, <2>3 DEF Blank
    <3>2. QED
      BY <3>1 DEF Reached
  <2>6. InOrder(d)'
    BY <1>0, <2>1, <2>2, <2>3, <2>5, NothingFollows DEF InOrder, Blank
  <2>7. QED
    BY <2>4, <2>6 DEF Track
<1>3. CASE Answered(d)
  <2>1. /\ viewer[d].at = "waiting" /\ laneOp[d].result # "none"
        /\ UNCHANGED body
    BY <1>3 DEF Answered, At
  <2>2. ~laneOp[d].pending /\ d \notin lane.todo
    BY <1>0, <2>1 DEF Track, BeforeAnswer
  <2>3. CASE Goes(d, "stream") /\ UNCHANGED <<laneOp, stream, slot>>
    <3>1. viewer'[d].at = "stream"
      BY <1>0, <2>3 DEF Goes, Viewers
    <3>2. BeforeAnswer(d)'
      BY <1>0, <2>2, <2>3, <3>1 DEF BeforeAnswer
    <3>3. Reached(d)' = Reached(d)
      BY <2>1, <3>1 DEF Reached
    <3>4. InOrder(d)'
      BY <1>0, <2>1, <2>3, <3>1, <3>3 DEF Track, InOrder, Receiving
    <3>5. QED
      BY <3>2, <3>4 DEF Track
  <2>4. CASE /\ Goes(d, "refused") /\ laneOp' = [laneOp EXCEPT ![d] = NoOp]
             /\ Cancel(d) \/ Close(d)
    <3>1. viewer'[d].at = "refused" /\ laneOp'[d] = NoOp
      BY <1>0, <2>4 DEF Goes, Viewers, Ops
    <3>2. QED
      BY <1>0, <2>1, <2>4, <3>1, CloseLeaves, Ended
  <2>5. QED
    BY <1>3, <2>3, <2>4 DEF Answered
<1>4. CASE WaitOver(d)
  <2>1. /\ viewer'[d].at = "refused" /\ viewer[d].at = "waiting"
        /\ UNCHANGED body /\ laneOp'[d] = NoOp
        /\ Cancel(d) \/ UNCHANGED <<stream, slot>>
    BY <1>0, <1>4 DEF WaitOver, Goes, Viewers, Ops, At
  <2>2. QED
    BY <1>0, <2>1, CloseLeaves, Ended
<1>5. CASE TakeChunk(d)
  <2>0. viewer[d].at = "stream" /\ UNCHANGED <<body, laneOp>>
    BY <1>5 DEF TakeChunk, At
  <2>1. CASE /\ stream[d].queue # <<>>
             /\ viewer' = [viewer EXCEPT ![d] = [at |-> "chunk",
                                                hand |-> Head(stream[d].queue)]]
             /\ stream' = [stream EXCEPT ![d].queue = Tail(@)]
    <3>1. /\ viewer'[d].at = "chunk" /\ viewer'[d].hand = Head(stream[d].queue)
          /\ stream'[d].queue = Tail(stream[d].queue)
          /\ stream'[d].closed = stream[d].closed
      BY <1>0, <2>1 DEF Viewers, Streams
    <3>2. /\ stream[d].queue \in Seq(1..Chunks) /\ Len(body[d]) \in Nat
          /\ Len(stream[d].queue) \in Nat
      BY <1>0 DEF Streams, Bodies
    <3>3. Reached(d) = Len(body[d]) /\ Reached(d)' = Len(body[d]) + 1
      BY <2>0, <3>1, <3>2 DEF Reached
    <3>4. Follows(stream[d].queue, Len(body[d]))
      BY <1>0, <2>0, <3>3 DEF Track, InOrder, Receiving
    <3>5. /\ Head(stream[d].queue) = Len(body[d]) + 1
          /\ Follows(stream'[d].queue, Len(body[d]) + 1)
          /\ Len(stream'[d].queue) = Len(stream[d].queue) - 1
      BY <2>1, <3>1, <3>2, <3>4, RestFollows
    <3>6. lane.on = {d} /\ lane.at \in {"push", "put"} /\ ~stream[d].closed =>
            lane.next = Len(body[d]) + Len(stream[d].queue) + 1
      BY <1>0, <2>0, <3>3 DEF Track, InOrder, Receiving
    <3>7. Len(body[d]) + Len(stream[d].queue) + 1
            = (Len(body[d]) + 1) + Len(stream'[d].queue) + 1
      <4>1. \A b, q, r \in Nat : r = q - 1 => b + q + 1 = (b + 1) + r + 1
        OBVIOUS
      <4>2. /\ Len(stream'[d].queue) = Len(stream[d].queue) - 1
            /\ Len(stream'[d].queue) \in Nat
        BY <2>1, <3>1, <3>2, <3>5, Chopped
      <4>3. QED
        BY <3>2, <4>1, <4>2
    <3>8. InOrder(d)'
      BY <1>0, <2>0, <3>1, <3>3, <3>5, <3>6, <3>7 DEF Track, InOrder, Receiving
    <3>9. BeforeAnswer(d)'
      BY <1>0, <2>0, <3>1 DEF Track, BeforeAnswer
    <3>10. QED
      BY <3>8, <3>9 DEF Track
  <2>2. CASE Goes(d, "finish") /\ UNCHANGED stream
    <3>1. viewer'[d].at = "finish"
      BY <1>0, <2>2 DEF Goes, Viewers
    <3>2. QED
      BY <1>0, <2>0, <2>2, <3>1, Ended
  <2>3. QED
    BY <1>5, <2>1, <2>2 DEF TakeChunk
<1>6. CASE WriteChunk(d)
  <2>0. viewer[d].at = "chunk" /\ UNCHANGED laneOp
    BY <1>6 DEF WriteChunk, At
  <2>1. CASE /\ body' = [body EXCEPT ![d] = Append(@, viewer[d].hand)]
             /\ Goes(d, "stream") /\ UNCHANGED <<stream, slot>>
    <3>1. /\ Beginning(body[d]) /\ viewer[d].hand = Len(body[d]) + 1
          /\ viewer[d].hand \in 0..Chunks
          /\ body[d] \in Seq(0..Chunks) /\ Len(body[d]) \in Nat
      BY <1>0, <2>0 DEF Track, InOrder, Viewers, Bodies
    <3>2. /\ body'[d] = Append(body[d], Len(body[d]) + 1)
          /\ viewer'[d].at = "stream"
      BY <1>0, <2>1, <3>1 DEF Bodies, Goes, Viewers
    <3>3. Beginning(body'[d]) /\ Len(body'[d]) = Len(body[d]) + 1
      BY <3>1, <3>2, LongerBeginning
    <3>4. Reached(d)' = Reached(d)
      BY <2>0, <3>1, <3>2, <3>3 DEF Reached
    <3>5. InOrder(d)'
      BY <1>0, <2>0, <2>1, <3>2, <3>3, <3>4 DEF Track, InOrder, Receiving
    <3>6. BeforeAnswer(d)'
      BY <1>0, <2>0, <3>2 DEF Track, BeforeAnswer
    <3>7. QED
      BY <3>5, <3>6 DEF Track
  <2>2. CASE Cancel(d) /\ Goes(d, "finish") /\ UNCHANGED body
    <3>1. viewer'[d].at = "finish"
      BY <1>0, <2>2 DEF Goes, Viewers
    <3>2. QED
      BY <1>0, <2>0, <2>2, <3>1, CloseLeaves, Ended
  <2>3. QED
    BY <1>0, <1>6, <2>1, <2>2 DEF WriteChunk
<1>7. CASE Finish(d)
  <2>1. /\ viewer'[d].at = "served" /\ viewer[d].at = "finish"
        /\ UNCHANGED body /\ laneOp'[d] = NoOp
        /\ Close(d) \/ UNCHANGED <<stream, slot>>
    BY <1>0, <1>7 DEF Finish, Goes, Viewers, Ops, At
  <2>2. QED
    BY <1>0, <2>1, CloseLeaves, Ended
<1>8. QED
  BY <1>1, <1>2, <1>3, <1>4, <1>5, <1>6, <1>7 DEF Serve

\* The steps of the worker, by the request they are about.
LEMMA LaneOthers ==
  ASSUME FileTypes, NEW d \in Download,
         Respond(d) \/ LookUp(d) \/ Put(d) \/ Final(d)
  PROVE  /\ \A e \in Download \ {d} :
              /\ stream'[e] = stream[e] /\ laneOp'[e] = laneOp[e]
              /\ e \notin lane'.on
         /\ UNCHANGED <<body, viewer, change, liveTarget>>
         /\ lane'.todo \subseteq lane.todo
<1>0. /\ stream \in Streams /\ laneOp \in Ops /\ lane \in Lanes
  BY DEF FileTypes
<1>1. UNCHANGED <<body, viewer, change, liveTarget>>
  BY DEF Respond, LookUp, Put, Final
<1>2. \A e \in Download \ {d} : stream'[e] = stream[e]
  <2>1. \/ Close(d) \/ Cancel(d) \/ UNCHANGED stream
        \/ stream' = [stream EXCEPT ![d].queue = Append(@, lane.next)]
    BY DEF Respond, LookUp, Put, Final
  <2>2. QED
    BY <1>0, <2>1 DEF Close, Cancel, Streams
<1>3. \A e \in Download \ {d} : laneOp'[e] = laneOp[e]
  BY <1>0 DEF Respond, LookUp, Put, Final, Ops
<1>4. /\ lane'.todo \subseteq lane.todo
      /\ \A e \in Download \ {d} : e \notin lane'.on
  BY <1>0 DEF Respond, LookUp, Put, Final, LaneGoes, Pushed, NextCommand, Busy,
              Lanes
<1>5. QED
  BY <1>1, <1>2, <1>3, <1>4
LEMMA LaneTrack ==
  ASSUME FileTypes, SlotInv, Undisturbed, NEW d \in Download,
         Respond(d) \/ LookUp(d) \/ Put(d) \/ Final(d)
  PROVE  Track(d)'
<1>0. /\ stream \in Streams /\ laneOp \in Ops /\ viewer \in Viewers
      /\ body \in Bodies /\ lane \in Lanes /\ PutInRange /\ Track(d)
      /\ lane.on = {} => lane.next = 1
      /\ UNCHANGED <<body, viewer>>
      /\ laneOp[d].in => viewer[d].at \in OnLane
  BY LaneOthers DEF FileTypes, Undisturbed, SlotInv
<1>1. /\ Len(body[d]) \in Nat /\ Len(stream[d].queue) \in Nat
      /\ Reached(d) \in Nat /\ Reached(d)' = Reached(d)
  BY <1>0 DEF Bodies, Streams, Reached
<1>2. CASE Respond(d)
  <2>1. lane.on = {} /\ d \in lane.todo
    BY <1>2 DEF Respond
  <2>2. /\ Blank(d) /\ ~laneOp[d].pending
        /\ viewer[d].at \notin {"idle", "open", "stream", "chunk"}
    BY <1>0, <2>1 DEF Track, BeforeAnswer
  <2>3. ~laneOp'[d].pending
    BY <1>0, <1>2, <2>2 DEF Respond, Ops
  <2>4. /\ d \notin lane'.todo
        /\ lane'.on = {} \/ (lane'.on = {d} /\ lane'.at = "push" /\ lane'.next = 1)
    BY <1>0, <1>2, <2>1 DEF Respond, Lanes
  <2>5. stream'[d].queue = <<>> /\ Len(stream'[d].queue) = 0
    BY <1>2, <2>2, CloseLeaves DEF Respond, Blank
  <2>6. BeforeAnswer(d)'
    BY <1>0, <2>2, <2>3, <2>4 DEF BeforeAnswer
  <2>7. Reached(d)' = 0
    <3>1. body'[d] = <<>> /\ viewer'[d].at # "chunk"
      BY <1>0, <2>2 DEF Blank
    <3>2. QED
      BY <3>1 DEF Reached
  <2>8. InOrder(d)'
    <3>1. Follows(stream'[d].queue, 0) /\ viewer'[d].at # "chunk"
      BY <1>0, <2>2, <2>5, NothingFollows
    <3>2. Beginning(body'[d])
      BY <1>0 DEF Track, InOrder
    <3>3. QED
      BY <2>4, <2>5, <2>7, <3>1, <3>2 DEF InOrder
  <2>9. QED
    BY <2>6, <2>8 DEF Track
<1>3. CASE LookUp(d)
  <2>1. /\ lane.on = {d} /\ lane.at = "push" /\ UNCHANGED <<stream, laneOp>>
    BY <1>3 DEF LookUp, Busy
  <2>2. /\ lane'.on = {d} /\ lane'.todo = lane.todo
        /\ \/ lane'.at = "push" /\ stream[d].closed
           \/ lane'.at = "put" /\ lane'.next = lane.next /\ ~stream[d].closed
           \/ lane'.at = "final"
    BY <1>0, <1>3, <2>1 DEF LookUp, LaneGoes, Pushed, Lanes
  <2>3. BeforeAnswer(d)'
    BY <1>0, <2>1, <2>2 DEF Track, BeforeAnswer, Blank
  <2>4. InOrder(d)'
    BY <1>0, <1>1, <2>1, <2>2 DEF Track, InOrder
  <2>5. QED
    BY <2>3, <2>4 DEF Track
<1>4. ASSUME lane.on = {d}, UNCHANGED laneOp, lane'.on \subseteq {d},
             lane'.todo = lane.todo
      PROVE  BeforeAnswer(d)'
  BY <1>0, <1>4 DEF Track, BeforeAnswer
<1>5. ASSUME lane'.at = "final" \/ lane'.on = {},
             stream'[d].queue = stream[d].queue \/ stream'[d].queue = <<>>
      PROVE  InOrder(d)'
  BY <1>0, <1>1, <1>5, NothingFollows DEF Track, InOrder
<1>6. CASE Put(d)
  <2>1. /\ lane.on = {d} /\ lane.at = "put" /\ UNCHANGED laneOp
    BY <1>6 DEF Put, Busy
  <2>2. lane'.on = {d} /\ lane'.todo = lane.todo
    BY <1>0, <1>6, <2>1 DEF Put, LaneGoes, Pushed, Lanes
  <2>3. CASE /\ stream' = [stream EXCEPT ![d].queue = Append(@, lane.next)]
             /\ Pushed("push") \/ Pushed("final")
    <3>1. /\ stream'[d].queue = Append(stream[d].queue, lane.next)
          /\ stream'[d].closed = stream[d].closed
      BY <1>0, <2>3 DEF Streams
    <3>2. lane'.next = lane.next + 1
      BY <1>0, <2>3 DEF Lanes, Pushed
    <3>3. lane'.at \in {"push", "final"}
      BY <1>0, <2>3 DEF Lanes, Pushed
    <3> SUFFICES InOrder(d)'
      BY <1>4, <2>1, <2>2 DEF Track
    <3>4. CASE viewer[d].at \in Receiving
      <4>1. /\ lane.next = Reached(d) + Len(stream[d].queue) + 1
            /\ Follows(stream[d].queue, Reached(d))
        BY <1>0, <2>1, <3>4 DEF Track, InOrder
      <4>2. /\ stream[d].queue \in Seq(1..Chunks)
            /\ Reached(d) + Len(stream[d].queue) + 1 \in 1..Chunks
        BY <1>0, <1>1, <2>1, <4>1, LiveFileAssumption DEF Streams, Lanes, PutInRange
      <4>3. /\ Follows(stream'[d].queue, Reached(d))
            /\ Len(stream'[d].queue) = Len(stream[d].queue) + 1
        BY <1>1, <3>1, <4>1, <4>2, NextFollows
      <4>4. lane'.next = Reached(d) + Len(stream'[d].queue) + 1
        BY <1>1, <3>2, <4>1, <4>3
      <4>5. QED
        BY <1>0, <1>1, <3>3, <4>3, <4>4 DEF Track, InOrder
    <3>5. CASE viewer[d].at \notin Receiving
      BY <1>0, <3>5 DEF Track, InOrder, Receiving
    <3>6. QED
      BY <3>4, <3>5
  <2>4. CASE Cancel(d) /\ LaneGoes("final")
    <3>1. lane'.at = "final"
      BY <1>0, <2>4 DEF LaneGoes, Lanes
    <3>2. QED
      BY <1>4, <1>5, <2>1, <2>2, <2>4, <3>1, CloseLeaves DEF Track
  <2>5. QED
    BY <1>6, <2>3, <2>4 DEF Put
<1>7. CASE Final(d)
  <2>1. lane.on = {d} /\ UNCHANGED laneOp
    BY <1>7 DEF Final, Busy
  <2>2. lane'.on = {} /\ lane'.todo = lane.todo
    BY <1>0, <1>7 DEF Final, NextCommand, Lanes
  <2>3. stream'[d].queue = stream[d].queue \/ stream'[d].queue = <<>>
    BY <1>7, CloseLeaves DEF Final
  <2>4. QED
    BY <1>4, <1>5, <2>1, <2>2, <2>3 DEF Track
<1>8. QED
  BY <1>2, <1>3, <1>6, <1>7

LEMMA PollTrack ==
  ASSUME FileTypes, Undisturbed, PollLane, NEW d \in Download
  PROVE  Track(d)'
<1>1. /\ laneOp \in Ops /\ lane \in Lanes /\ Track(d)
      /\ UNCHANGED <<body, viewer, stream>>
      /\ lane.on = {}
  BY DEF FileTypes, Undisturbed, PollLane
<1>2. ~laneOp'[d].pending /\ laneOp'[d].result = laneOp[d].result
  BY <1>1 DEF PollLane, Ops
<1>3. lane'.on = {} /\ (d \in lane'.todo => laneOp[d].pending)
  BY <1>1 DEF PollLane, Lanes
<1>4. BeforeAnswer(d)'
  BY <1>1, <1>2, <1>3 DEF Track, BeforeAnswer, Blank
<1>5. Reached(d)' = Reached(d)
  BY <1>1 DEF Reached
<1>6. InOrder(d)'
  BY <1>1, <1>3, <1>5 DEF Track, InOrder
<1>7. QED
  BY <1>4, <1>6 DEF Track

LEMMA PrefixInvStep ==
  ASSUME FileTypes, SlotInv, PrefixInv, [FileNext]_fileVars
  PROVE  PrefixInv'
<1>0. /\ laneOp \in Ops /\ lane \in Lanes /\ change \in Changes
  BY DEF FileTypes
<1> SUFFICES ASSUME change'.at = "none" PROVE Undisturbed'
  BY DEF PrefixInv
<1>1. CASE UNCHANGED fileVars
  BY <1>1 DEF fileVars, PrefixInv, Undisturbed, Track, BeforeAnswer, InOrder,
              Blank, Reached
<1>2. ASSUME NEW d \in Download, Serve(d) PROVE Undisturbed'
  <2>1. UNCHANGED <<lane, change, liveTarget>> /\ Undisturbed
    BY <1>2, ServeOthers DEF PrefixInv
  <2>2. ASSUME NEW e \in Download, e # d PROVE Track(e)'
    BY <1>2, <2>1, <2>2, ServeOthers, Bystander DEF Undisturbed
  <2>3. Track(d)'
    BY <1>2, <2>1, ServeTrack
  <2>4. QED
    BY <2>1, <2>2, <2>3 DEF Undisturbed
<1>3. ASSUME NEW d \in Download, Respond(d) \/ LookUp(d) \/ Put(d) \/ Final(d)
      PROVE  Undisturbed'
  <2>1. UNCHANGED <<change, liveTarget>> /\ Undisturbed
    BY <1>3, LaneOthers DEF PrefixInv
  <2>2. ASSUME NEW e \in Download, e # d PROVE Track(e)'
    BY <1>3, <2>1, <2>2, LaneOthers, Bystander DEF Undisturbed
  <2>3. Track(d)'
    BY <1>3, <2>1, LaneTrack
  <2>4. lane'.on = {} => lane'.next = 1
    <3>1. CASE Respond(d)
      BY <1>0, <2>1, <3>1 DEF Respond, Undisturbed, Lanes
    <3>2. CASE LookUp(d) \/ Put(d)
      BY <1>0, <3>2 DEF LookUp, Put, Busy, LaneGoes, Pushed, Lanes
    <3>3. CASE Final(d)
      BY <1>0, <3>3 DEF Final, NextCommand, Lanes
    <3>4. QED
      BY <1>3, <3>1, <3>2, <3>3
  <2>5. QED
    BY <2>1, <2>2, <2>3, <2>4 DEF Undisturbed
<1>4. CASE PollLane
  <2>1. /\ UNCHANGED <<change, liveTarget>> /\ Undisturbed
        /\ lane'.on = lane.on /\ lane'.next = lane.next
    BY <1>0, <1>4 DEF PollLane, PrefixInv, Lanes
  <2>2. QED
    BY <1>4, <2>1, PollTrack DEF Undisturbed
<1>5. CASE WorkerFallsSilent
  <2>1. /\ Undisturbed
        /\ UNCHANGED <<body, stream, viewer, laneOp, change, liveTarget>>
        /\ lane'.on = {} /\ lane'.todo = {} /\ lane'.next = 1
    BY <1>5 DEF WorkerFallsSilent, PrefixInv, Rested
  <2>2. ASSUME NEW e \in Download PROVE Track(e)'
    BY <2>1, Bystander DEF Undisturbed
  <2>3. QED
    BY <2>1, <2>2 DEF Undisturbed
<1>6. CASE ChangeStep
  <2>1. change.at = "none" => change.on = {}
    BY DEF PrefixInv, Undisturbed
  <2>2. FALSE
    BY <1>0, <1>6, <2>1 DEF ChangeStep, SaveTarget, Invalidate, ListOps,
       FlagStream, DrainStream, CancelOp, Changes
  <2>3. QED
    BY <2>2
<1>7. QED
  BY <1>1, <1>2, <1>3, <1>4, <1>5, <1>6 DEF FileNext, LaneStep

\* Whatever the queue, the worker and the lost calls do, what a browser gets
\* of a file is its beginning as long as nobody changes the target: for any
\* number of requests, chunks and slots and every size of the queue.
THEOREM BodiesArePrefixes == FileSpec => []ServedBodyIsPrefix
<1> DEFINE Inv == FileTypes /\ SlotInv /\ LaneServes /\ PrefixInv
<1>1. FileInit => Inv
  BY FileTypesInit, SlotInvInit, PrefixInvInit DEF FileInit, LaneServes, Rested
<1>2. Inv /\ [FileNext]_fileVars => Inv'
  BY FileTypesStep, SlotInvStep, LaneServesStep, PrefixInvStep
<1>3. Inv => ServedBodyIsPrefix
  <2> SUFFICES ASSUME FileTypes, PrefixInv, change.at = "none",
                      NEW d \in Download
               PROVE  body[d] = SubSeq(Content, 1, Len(body[d]))
    BY DEF ServedBodyIsPrefix
  <2>1. /\ body[d] \in Seq(0..Chunks) /\ Len(body[d]) \in Nat
        /\ \A i \in 1..Len(body[d]) : body[d][i] = i
    BY DEF FileTypes, Bodies, PrefixInv, Undisturbed, Track, InOrder, Beginning
  <2>2. Len(body[d]) <= Chunks
    <3>1. CASE Len(body[d]) = 0
      BY <3>1, LiveFileAssumption
    <3>2. CASE Len(body[d]) # 0
      <4>1. Len(body[d]) \in 1..Len(body[d])
        BY <2>1, <3>2
      <4>2. body[d][Len(body[d])] \in 0..Chunks
        BY <2>1, <4>1, ElementInSet
      <4>3. body[d][Len(body[d])] = Len(body[d])
        BY <2>1, <4>1
      <4>4. QED
        BY <2>1, <4>1, <4>2, <4>3, LiveFileAssumption
    <3>3. QED
      BY <3>1, <3>2
  <2>3. /\ Content \in Seq(1..Chunks) /\ Len(Content) = Chunks
        /\ \A i \in 1..Chunks : Content[i] = i
    BY LiveFileAssumption DEF Content
  <2>4. /\ Len(SubSeq(Content, 1, Len(body[d]))) = Len(body[d])
        /\ SubSeq(Content, 1, Len(body[d])) \in Seq(1..Chunks)
        /\ \A i \in 1..Len(body[d]) : SubSeq(Content, 1, Len(body[d]))[i] = i
    BY <2>1, <2>2, <2>3, LiveFileAssumption
  <2>5. QED
    BY <2>1, <2>4
<1>4. QED
  BY <1>1, <1>2, <1>3, PTL DEF FileSpec

-----------------------------------------------------------------------------
(* LiveWatch: types.                                                       *)

Posts == [at : {"none", "sent", "offer", "full"}, seen : 0..MaxDisk,
          to : BOOLEAN]
Watchers == [at : {"none", "start", "run"}, seen : 0..MaxDisk]
Browsers == [at : {"closed", "asked", "attached", "replay", "open"},
             on : Revision, replay : Seq(Nat), subscribed : BOOLEAN,
             foreign : BOOLEAN]

WatchTypes ==
  /\ disk \in 0..MaxDisk
  /\ revision \in [now : Revision, ended : 0..MaxRevision]
  /\ watcher \in [Revision -> Watchers]
  /\ numbered \in [Revision -> Nat]
  /\ post \in [Revision -> Posts]
  /\ browser \in Browsers
  /\ inbox \in Seq(Nat)
  /\ told \in SUBSET Nat
  /\ lastEvent \in [on : Revision, id : Nat]

\* Updates of the records.
LEMMA PostUpdate ==
  ASSUME NEW p \in [Revision -> Posts], NEW r \in Revision, NEW v \in BOOLEAN
  PROVE  /\ [p EXCEPT ![r].to = v] \in [Revision -> Posts]
         /\ [p EXCEPT ![r].at = "offer", ![r].to = v] \in [Revision -> Posts]
         /\ [p EXCEPT ![r].at = "full"] \in [Revision -> Posts]
  BY DEF Posts

LEMMA BrowserUpdate ==
  ASSUME NEW b \in Browsers, NEW v \in BOOLEAN, NEW f \in BOOLEAN,
         NEW r \in Revision, NEW q \in Seq(Nat)
  PROVE  /\ [b EXCEPT !.subscribed = v] \in Browsers
         /\ [b EXCEPT !.at = "attached", !.on = r, !.subscribed = TRUE,
                      !.foreign = f] \in Browsers
         /\ [b EXCEPT !.at = "replay", !.replay = q] \in Browsers
         /\ [b EXCEPT !.replay = q] \in Browsers
         /\ [b EXCEPT !.at = "open"] \in Browsers
         /\ [b EXCEPT !.at = "asked"] \in Browsers
         /\ [b EXCEPT !.at = "closed", !.subscribed = FALSE,
                      !.replay = <<>>] \in Browsers
<1>1. [b EXCEPT !.subscribed = v] \in Browsers
  BY DEF Browsers
<1>2. [b EXCEPT !.at = "attached", !.on = r, !.subscribed = TRUE,
                !.foreign = f] \in Browsers
  BY DEF Browsers
<1>3. [b EXCEPT !.at = "replay", !.replay = q] \in Browsers
  BY DEF Browsers
<1>4. [b EXCEPT !.replay = q] \in Browsers
  BY DEF Browsers
<1>5. [b EXCEPT !.at = "open"] \in Browsers
  BY DEF Browsers
<1>6. [b EXCEPT !.at = "asked"] \in Browsers
  BY DEF Browsers
<1>7. [b EXCEPT !.at = "closed", !.subscribed = FALSE,
                !.replay = <<>>] \in Browsers
  <2>1. ASSUME NEW e \in Seq(Nat)
        PROVE  [b EXCEPT !.at = "closed", !.subscribed = FALSE,
                         !.replay = e] \in Browsers
    BY DEF Browsers
  <2>2. <<>> \in Seq(Nat)
    OBVIOUS
  <2>3. QED
    BY <2>1, <2>2, Zenon
<1>8. QED
  BY <1>1, <1>2, <1>3, <1>4, <1>5, <1>6, <1>7, Zenon

LEMMA BrowserFields ==
  ASSUME NEW b \in Browsers
  PROVE  /\ b.foreign \in BOOLEAN /\ b.subscribed \in BOOLEAN
         /\ b.on \in Revision /\ b.replay \in Seq(Nat)
  BY DEF Browsers

LEMMA ShowType ==
  ASSUME NEW id \in Nat, Show(id), browser.on \in Revision,
         numbered \in [Revision -> Nat], told \in SUBSET Nat,
         lastEvent \in [on : Revision, id : Nat]
  PROVE  told' \in SUBSET Nat /\ lastEvent' \in [on : Revision, id : Nat]
<1>1. CASE id = Resync
  BY <1>1 DEF Show
<1>2. CASE id # Resync
  <2>1. told' = told \union {id} /\ lastEvent' = [on |-> browser.on, id |-> id]
    BY <1>2, Zenon DEF Show
  <2>2. QED
    BY <2>1
<1>3. QED
  BY <1>1, <1>2

LEMMA OfferType ==
  ASSUME NEW r \in Revision, Offer(r), inbox \in Seq(Nat),
         numbered \in [Revision -> Nat]
  PROVE  inbox' \in Seq(Nat)
<1>1. numbered[r] \in Nat
  OBVIOUS
<1>2. Append(inbox, numbered[r]) \in Seq(Nat) /\ <<>> \in Seq(Nat)
  BY <1>1
<1>3. inbox' = Append(inbox, numbered[r]) \/ inbox' = <<>> \/ inbox' = inbox
  BY DEF Offer
<1>4. QED
  BY <1>2, <1>3, Zenon

LEMMA WatchTypesInit == WatchInit => WatchTypes
<1> SUFFICES ASSUME WatchInit PROVE WatchTypes
  OBVIOUS
<1> USE LiveWatchAssumption
<1>1. 1 \in Revision
  BY DEF Revision
<1>2. NoPost \in Posts /\ NoWatcher \in Watchers
  BY DEF Posts, NoPost, Watchers, NoWatcher
<1>3. browser \in Browsers
  BY <1>1 DEF WatchInit, Browsers
<1>4. revision \in [now : Revision, ended : 0..MaxRevision]
  BY <1>1 DEF WatchInit
<1>5. QED
  BY <1>1, <1>2, <1>3, <1>4 DEF WatchInit, WatchTypes

LEMMA WatchTypesStep ==
  ASSUME WatchTypes, [WatchNext]_watchVars PROVE WatchTypes'
<1> USE LiveWatchAssumption DEF WatchTypes
<1>1. CASE UNCHANGED watchVars
  BY <1>1 DEF watchVars
<1>2. CASE Edit
  BY <1>2 DEF Edit
<1>3. CASE Configure
  <2>1. revision' \in [now : Revision, ended : 0..MaxRevision]
    <3>1. revision.now \in Nat /\ revision.now + 1 \in Revision
      BY <1>3 DEF Configure, Revision
    <3>2. revision' = [revision EXCEPT !.now = revision.now + 1]
      BY <1>3 DEF Configure
    <3>3. QED
      BY <3>1, <3>2
  <2>2. QED
    BY <1>3, <2>1 DEF Configure
<1>4. CASE EndSession
  <2>1. revision' \in [now : Revision, ended : 0..MaxRevision]
    <3>1. revision.ended + 1 \in 0 .. MaxRevision
      BY <1>4 DEF EndSession, Revision
    <3>2. revision' = [revision EXCEPT !.ended = revision.ended + 1]
      BY <1>4 DEF EndSession
    <3>3. QED
      BY <3>1, <3>2
  <2>2. browser' \in Browsers
    BY <1>4 DEF EndSession, Browsers
  <2>3. post' \in [Revision -> Posts]
    BY <1>4 DEF EndSession, Unsubscribe, Posts
  <2>4. QED
    BY <1>4, <2>1, <2>2, <2>3 DEF EndSession
<1>5. CASE Ask
  <2>1. watcher' \in [Revision -> Watchers]
    <3>1. [at |-> "start", seen |-> 0] \in Watchers
      BY DEF Watchers
    <3>2. UNCHANGED watcher
            \/ watcher' = [watcher EXCEPT ![revision.now] =
                             [at |-> "start", seen |-> 0]]
      BY <1>5 DEF Ask, Watches
    <3>3. QED
      BY <3>1, <3>2
  <2>2. browser' \in Browsers
    BY <1>5 DEF Ask, Browsers
  <2>3. QED
    BY <1>5, <2>1, <2>2 DEF Ask
<1>6. CASE Attach
  <2>1. browser' \in Browsers
    <3> DEFINE f == IF lastEvent.on = revision.now THEN browser.foreign
                    ELSE lastEvent.id > 0
    <3>1. browser' = [browser EXCEPT !.at = "attached", !.on = revision.now,
                                     !.subscribed = TRUE, !.foreign = f]
      BY <1>6 DEF Attach
    <3>2. f \in BOOLEAN
      <4>1. browser.foreign \in BOOLEAN /\ (lastEvent.id > 0) \in BOOLEAN
        BY BrowserFields
      <4>2. QED
        BY <4>1, Zenon
    <3>3. revision.now \in Revision
      OBVIOUS
    <3> HIDE DEF f
    <3>4. QED
      BY <3>1, <3>2, <3>3, BrowserUpdate
  <2>2. told' \in SUBSET Nat
    BY <1>6 DEF Attach
  <2>3. QED
    BY <1>6, <2>1, <2>2 DEF Attach
<1>7. CASE Replay
  <2> DEFINE n == numbered[browser.on]
             all == [i \in 1..n |-> i]
             some == SubSeq(all, lastEvent.id + 1, n)
  <2>1. browser.on \in Revision /\ n \in Nat /\ lastEvent.id \in Nat
    BY DEF Browsers
  <2>2. all \in Seq(Nat) /\ Len(all) = n
    BY <2>1
  <2>3. some \in Seq(Nat)
    <3> HIDE DEF all, n
    <3>1. QED
      BY <2>1, <2>2
  <2>4. <<Resync>> \in Seq(Nat)
    BY DEF Resync
  <2>5. browser' = [browser EXCEPT !.at = "replay",
             !.replay = IF lastEvent.id + 1 < Oldest(browser.on) THEN <<Resync>>
                        ELSE some]
    BY <1>7 DEF Replay
  <2>6. browser' \in Browsers
    <3> HIDE DEF some
    <3>1. QED
      BY <2>3, <2>4, <2>5 DEF Browsers
  <2>7. QED
    BY <1>7, <2>6 DEF Replay
<1>8. CASE ShowReplay
  <2>1. browser.replay \in Seq(Nat)
    BY DEF Browsers
  <2>2. CASE browser.replay = <<>>
    BY <1>8, <2>2 DEF ShowReplay, Browsers
  <2>3. CASE browser.replay # <<>>
    <3>1. Tail(browser.replay) \in Seq(Nat) /\ Head(browser.replay) \in Nat
      BY <2>1, <2>3
    <3>2. browser' \in Browsers
      BY <1>8, <2>3, <3>1 DEF ShowReplay, Browsers
    <3>3. told' \in SUBSET Nat /\ lastEvent' \in [on : Revision, id : Nat]
      BY <1>8, <2>3, <3>1 DEF ShowReplay, Show, Browsers
    <3>4. QED
      BY <1>8, <3>2, <3>3 DEF ShowReplay
  <2>4. QED
    BY <2>2, <2>3
<1>9. CASE ShowChange
  <2>1. inbox' \in Seq(Nat) /\ Head(inbox) \in Nat
    BY <1>9 DEF ShowChange
  <2>2. told' \in SUBSET Nat /\ lastEvent' \in [on : Revision, id : Nat]
    <3>1. Show(Head(inbox)) /\ browser.on \in Revision
      BY <1>9, BrowserFields DEF ShowChange
    <3>2. QED
      BY <2>1, <3>1, ShowType
  <2>3. QED
    BY <1>9, <2>1, <2>2 DEF ShowChange
<1>10. CASE Leave
  <2>1. browser' \in Browsers
    BY <1>10, BrowserUpdate DEF Leave
  <2>2. post' \in [Revision -> Posts]
    BY <1>10, PostUpdate DEF Leave, Unsubscribe, Browsers
  <2>3. QED
    BY <1>10, <2>1, <2>2 DEF Leave
<1>11. ASSUME NEW r \in Revision, Snapshot(r) PROVE WatchTypes'
  <2>1. [NoPost EXCEPT !.at = "sent", !.seen = disk] \in Posts
    BY DEF NoPost, Posts
  <2>2. NoWatcher \in Watchers /\ [at |-> "run", seen |-> disk] \in Watchers
    BY DEF NoWatcher, Watchers
  <2>3. watcher' \in [Revision -> Watchers]
    BY <1>11, <2>2 DEF Snapshot, Watches
  <2>4. post' \in [Revision -> Posts]
    BY <1>11, <2>1 DEF Snapshot
  <2>5. QED
    BY <1>11, <2>3, <2>4 DEF Snapshot
<1>12. ASSUME NEW r \in Revision, Expire(r) PROVE WatchTypes'
  <2>1. NoWatcher \in Watchers
    BY DEF NoWatcher, Watchers
  <2>2. QED
    BY <1>12, <2>1 DEF Expire, Watches
<1>13. ASSUME NEW r \in Revision, Number(r) PROVE WatchTypes'
  <2>1. NoWatcher \in Watchers /\ NoPost \in Posts
    BY DEF NoWatcher, Watchers, NoPost, Posts
  <2>2. CASE Current(r)
    <3>1. numbered' \in [Revision -> Nat] /\ UNCHANGED watcher
      <4>1. numbered' = [numbered EXCEPT ![r] = numbered[r] + 1]
        BY <1>13, <2>2 DEF Number
      <4>2. numbered[r] + 1 \in Nat
        OBVIOUS
      <4>3. UNCHANGED watcher
        BY <1>13, <2>2 DEF Number
      <4>4. QED
        BY <4>1, <4>2, <4>3
    <3>2. (browser.subscribed /\ browser.on = r) \in BOOLEAN
      OBVIOUS
    <3>3. post' \in [Revision -> Posts]
      <4> DEFINE v == browser.subscribed /\ browser.on = r
      <4>1. post' = [post EXCEPT ![r].at = "offer", ![r].to = v]
        BY <1>13, <2>2 DEF Number
      <4>2. v \in BOOLEAN
        BY <3>2
      <4> HIDE DEF v
      <4>3. QED
        BY <4>1, <4>2, PostUpdate
    <3>4. QED
      BY <1>13, <3>1, <3>3 DEF Number
  <2>3. CASE ~Current(r)
    BY <1>13, <2>1, <2>3 DEF Number, Watches
  <2>4. QED
    BY <2>2, <2>3
<1>14. ASSUME NEW r \in Revision, Posted(r)
       PROVE  post' \in [Revision -> Posts] /\ watcher' \in [Revision -> Watchers]
  <2>1. NoPost \in Posts
    BY DEF NoPost, Posts
  <2>2. post[r].seen \in 0..MaxDisk
    BY DEF Posts
  <2>3. QED
    BY <1>14, <2>1, <2>2 DEF Posted, Watchers
<1>15. ASSUME NEW r \in Revision, Offer(r) PROVE WatchTypes'
  <2>1. numbered[r] \in Nat /\ Append(inbox, numbered[r]) \in Seq(Nat)
    OBVIOUS
  <2>2. inbox' \in Seq(Nat)
    BY <1>15, OfferType
  <2>3. CASE Posted(r)
    BY <1>14, <1>15, <2>2, <2>3 DEF Offer
  <2>4. CASE ~Posted(r)
    <3>1. post' = [post EXCEPT ![r].at = "full"] /\ UNCHANGED watcher
      BY <1>15, <2>4 DEF Offer
    <3>2. post' \in [Revision -> Posts]
      BY <3>1 DEF Posts
    <3>3. QED
      BY <1>15, <2>2, <3>1, <3>2 DEF Offer
  <2>5. QED
    BY <2>3, <2>4
<1>16. ASSUME NEW r \in Revision, OfferResync(r) PROVE WatchTypes'
  <2>1. inbox' \in Seq(Nat)
    BY <1>16 DEF OfferResync, Resync
  <2>2. QED
    BY <1>14, <1>16, <2>1 DEF OfferResync
<1>17. QED
  BY <1>1, <1>2, <1>3, <1>4, <1>5, <1>6, <1>7, <1>8, <1>9, <1>10, <1>11,
     <1>12, <1>13, <1>15, <1>16 DEF WatchNext

-----------------------------------------------------------------------------
(* LiveWatch: no change is missed.                                         *)

First(q, i) == {q[j] : j \in 1..i}
All(q) == First(q, Len(q))

\* Who has seen the changes of S after what he knows, has seen all up to n, or
\* was told to read everything again.
Reaches(S, n) == Resync \in S \/ 1..n \subseteq told \union S

Streaming == browser.at \in {"replay", "open"} /\ ~browser.foreign

StreamParts ==
  /\ \A r \in Revision : post[r].to =>
       /\ r = browser.on /\ browser.subscribed
       /\ post[r].at \in {"offer", "full"}
       /\ post[r].at = "full" => inbox = <<>>
  /\ Len(inbox) <= QueueLimit
  /\ browser.at \in {"closed", "asked"} => ~browser.subscribed /\ inbox = <<>>
  /\ browser.at # "replay" => browser.replay = <<>>

\* Nothing is offered that was not numbered.
NumberedFirst ==
  /\ \A n \in All(browser.replay) : n <= numbered[browser.on]
  /\ \A n \in All(inbox) : n <= numbered[browser.on]

\* The number the browser comes back with says what its user knows.
KnownUpToLast ==
  ~browser.foreign =>
    /\ 1..lastEvent.id \subseteq told
    /\ \/ lastEvent.id = 0
       \/ lastEvent.on = browser.on /\ lastEvent.id <= numbered[browser.on]

\* Changes come in the order of their numbers, the replay before the queue.
ComeInOrder ==
  Streaming =>
    /\ \A i \in 1..Len(browser.replay) :
         Reaches(First(browser.replay, i), browser.replay[i])
    /\ \A i \in 1..Len(inbox) :
         Reaches(All(browser.replay) \union First(inbox, i), inbox[i])

Offered(r) ==
  IF post[r].to /\ post[r].at = "offer" THEN {numbered[r]}
  ELSE IF post[r].to /\ post[r].at = "full" THEN {Resync} ELSE {}

AllComing ==
  Streaming /\ browser.subscribed =>
    Reaches(All(browser.replay) \union All(inbox) \union Offered(browser.on),
            numbered[browser.on])

WatchInv ==
  /\ WatchTypes /\ StreamParts /\ NumberedFirst /\ KnownUpToLast
  /\ ComeInOrder /\ AllComing

\* Beginnings of sequences.
LEMMA FirstOfSequences ==
  ASSUME NEW q \in Seq(Nat)
  PROVE  /\ All(<<>>) = {}
         /\ \A i \in 1..Len(q) : q[i] \in First(q, i)
         /\ \A i \in 1..Len(q) : First(q, i) \subseteq All(q)
         /\ \A n \in Nat : All(Append(q, n)) = All(q) \union {n}
         /\ \A n \in Nat, i \in 1..Len(q) :
              First(Append(q, n), i) = First(q, i) /\ Append(q, n)[i] = q[i]
         /\ q # <<>> => /\ First(q, 1) = {Head(q)}
                        /\ All(q) = {Head(q)} \union All(Tail(q))
                        /\ \A i \in 1..Len(Tail(q)) :
                             /\ First(q, i + 1) = {Head(q)} \union First(Tail(q), i)
                             /\ Tail(q)[i] = q[i + 1]
<1>1. All(<<>>) = {}
  BY DEF All, First
<1>2. \A i \in 1..Len(q) : q[i] \in First(q, i)
  BY DEF First
<1>3. \A i \in 1..Len(q) : First(q, i) \subseteq All(q)
  BY DEF All, First
<1>4. ASSUME NEW n \in Nat PROVE All(Append(q, n)) = All(q) \union {n}
  <2>1. /\ Len(Append(q, n)) = Len(q) + 1 /\ Append(q, n)[Len(q) + 1] = n
        /\ \A j \in 1..Len(q) : Append(q, n)[j] = q[j]
    OBVIOUS
  <2>2. Len(q) \in Nat
    OBVIOUS
  <2> DEFINE p == Append(q, n)
  <2> HIDE DEF p
  <2>3. All(p) = All(q) \union {n}
    <3>1. ASSUME NEW x \in All(p) PROVE x \in All(q) \union {n}
      <4>1. PICK j \in 1..Len(p) : x = p[j]
        BY <3>1 DEF All, First
      <4>2. j = Len(q) + 1 \/ j \in 1..Len(q)
        BY <2>1, <2>2, <4>1 DEF p
      <4>3. QED
        BY <2>1, <4>1, <4>2 DEF p, All, First
    <3>2. ASSUME NEW x \in All(q) PROVE x \in All(p)
      <4>1. PICK j \in 1..Len(q) : x = q[j]
        BY <3>2 DEF All, First
      <4>2. j \in 1..Len(p) /\ p[j] = x
        BY <2>1, <2>2, <4>1 DEF p
      <4>3. QED
        BY <4>2 DEF All, First
    <3>3. n \in All(p)
      <4>1. Len(q) + 1 \in 1..Len(p) /\ p[Len(q) + 1] = n
        BY <2>1, <2>2 DEF p
      <4>2. QED
        BY <4>1 DEF All, First
    <3>4. QED
      BY <3>1, <3>2, <3>3
  <2>4. QED
    BY <2>3 DEF p
<1>5. ASSUME NEW n \in Nat, NEW i \in 1..Len(q)
      PROVE  First(Append(q, n), i) = First(q, i) /\ Append(q, n)[i] = q[i]
  <2>1. \A j \in 1..Len(q) : Append(q, n)[j] = q[j]
    OBVIOUS
  <2>2. Len(q) \in Nat /\ \A j \in 1..i : j \in 1..Len(q)
    OBVIOUS
  <2>3. QED
    BY <2>1, <2>2 DEF First
<1>6. ASSUME q # <<>>
      PROVE  /\ First(q, 1) = {Head(q)}
             /\ All(q) = {Head(q)} \union All(Tail(q))
             /\ \A i \in 1..Len(Tail(q)) :
                  /\ First(q, i + 1) = {Head(q)} \union First(Tail(q), i)
                  /\ Tail(q)[i] = q[i + 1]
  <2>1. /\ Len(q) \in Nat /\ Len(q) > 0 /\ Len(Tail(q)) = Len(q) - 1
        /\ q[1] = Head(q)
        /\ \A j \in 1..Len(Tail(q)) : Tail(q)[j] = q[j + 1]
    BY <1>6
  <2> DEFINE t == Tail(q)
             h == Head(q)
  <2>2. /\ Len(t) = Len(q) - 1 /\ q[1] = h
        /\ \A j \in 1..Len(t) : t[j] = q[j + 1]
    BY <2>1
  <2> HIDE DEF t, h
  <2>3. First(q, 1) = {h}
    BY <2>2 DEF First
  <2>4. ASSUME NEW i \in 0..Len(t) PROVE First(q, i + 1) = {h} \union First(t, i)
    <3>1. ASSUME NEW x \in First(q, i + 1) PROVE x \in {h} \union First(t, i)
      <4>1. PICK j \in 1..(i + 1) : x = q[j]
        BY <3>1 DEF First
      <4>2. CASE j = 1
        BY <2>2, <4>1, <4>2
      <4>3. CASE j # 1
        <5>1. j - 1 \in 1..i /\ j - 1 \in 1..Len(t)
          BY <2>1, <2>2, <4>1, <4>3
        <5>2. t[j - 1] = q[j - 1 + 1] /\ j - 1 + 1 = j
          BY <2>2, <4>1, <5>1
        <5>3. QED
          BY <4>1, <5>1, <5>2 DEF First
      <4>4. QED
        BY <4>2, <4>3
    <3>2. h \in First(q, i + 1)
      <4>1. 1 \in 1..(i + 1)
        BY <2>1, <2>2
      <4>2. QED
        BY <2>2, <4>1 DEF First
    <3>3. ASSUME NEW x \in First(t, i) PROVE x \in First(q, i + 1)
      <4>1. PICK j \in 1..i : x = t[j]
        BY <3>3 DEF First
      <4>2. j + 1 \in 1..(i + 1) /\ j \in 1..Len(t)
        BY <2>1, <2>2, <4>1
      <4>3. QED
        BY <2>2, <4>1, <4>2 DEF First
    <3>4. QED
      BY <3>1, <3>2, <3>3
  <2>5. All(q) = {h} \union All(t)
    <3>1. Len(t) \in 0..Len(t) /\ Len(q) = Len(t) + 1
      BY <2>1, <2>2
    <3>2. First(q, Len(t) + 1) = {h} \union First(t, Len(t))
      BY <2>4, <3>1
    <3>3. QED
      BY <3>1, <3>2 DEF All
  <2>6. \A i \in 1..Len(t) : i \in 0..Len(t)
    BY <2>1, <2>2
  <2>7. /\ First(q, 1) = {h} /\ All(q) = {h} \union All(t)
        /\ \A i \in 1..Len(t) : /\ First(q, i + 1) = {h} \union First(t, i)
                                /\ t[i] = q[i + 1]
    BY <2>2, <2>3, <2>4, <2>5, <2>6
  <2>8. QED
    BY <2>7 DEF t, h
<1>7. QED
  BY <1>1, <1>2, <1>3, <1>4, <1>5, <1>6

LEMMA WatchInvInit == WatchInit => WatchInv
<1> SUFFICES ASSUME WatchInit PROVE WatchInv
  OBVIOUS
<1>1. \A r \in Revision : post[r].to = FALSE
  BY DEF WatchInit, NoPost
<1>2. /\ browser.at = "closed" /\ browser.replay = <<>> /\ inbox = <<>>
      /\ browser.subscribed = FALSE
  BY DEF WatchInit
<1>3. All(browser.replay) = {} /\ All(inbox) = {} /\ Len(inbox) = 0
  BY <1>2 DEF All, First
<1>4. StreamParts
  BY <1>1, <1>2, <1>3, LiveWatchAssumption DEF StreamParts
<1>5. NumberedFirst
  BY <1>3 DEF NumberedFirst
<1>6. KnownUpToLast
  BY DEF WatchInit, KnownUpToLast
<1>7. ComeInOrder /\ AllComing
  BY <1>2 DEF ComeInOrder, AllComing, Streaming
<1>8. QED
  BY <1>4, <1>5, <1>6, <1>7, WatchTypesInit DEF WatchInv

\* Fields and ranges.
LEMMA WatchFields ==
  ASSUME WatchTypes
  PROVE  /\ browser.on \in Revision /\ browser.foreign \in BOOLEAN
         /\ browser.subscribed \in BOOLEAN /\ browser.replay \in Seq(Nat)
         /\ inbox \in Seq(Nat) /\ told \subseteq Nat /\ lastEvent.id \in Nat
         /\ \A r \in Revision : numbered[r] \in Nat /\ post[r].to \in BOOLEAN
  BY BrowserFields DEF WatchTypes, Posts

\* Steps that have nothing to do with what is offered.
LEMMA SilentSteps ==
  ASSUME WatchInv, UNCHANGED <<numbered, browser, inbox, told, lastEvent>>,
         \A r \in Revision : \/ post'[r].to = post[r].to /\ post'[r].at = post[r].at
                             \/ post'[r].to = FALSE /\ post[r].to = FALSE
  PROVE  /\ StreamParts' /\ NumberedFirst' /\ KnownUpToLast' /\ ComeInOrder'
         /\ AllComing'
<1>1. browser.on \in Revision
  BY WatchFields DEF WatchInv
<1>2. StreamParts'
  BY DEF WatchInv, StreamParts
<1>3. NumberedFirst' /\ KnownUpToLast'
  BY DEF WatchInv, NumberedFirst, KnownUpToLast
<1>4. ComeInOrder'
  BY DEF WatchInv, ComeInOrder, Streaming, Reaches
<1>5. Offered(browser.on)' = Offered(browser.on)
  BY <1>1 DEF Offered
<1>6. AllComing'
  BY <1>5 DEF WatchInv, AllComing, Streaming, Reaches
<1>7. QED
  BY <1>2, <1>3, <1>4, <1>6

\* The session's next change.
LEMMA NumberKeeps ==
  ASSUME WatchInv, NEW r \in Revision, Number(r)
  PROVE  /\ StreamParts' /\ NumberedFirst' /\ KnownUpToLast' /\ ComeInOrder'
         /\ AllComing'
<1>1. WatchTypes /\ browser.on \in Revision /\ browser.subscribed \in BOOLEAN
  BY WatchFields DEF WatchInv
<1>2. post[r].at = "sent" /\ post[r].to = FALSE
  BY WatchFields DEF Number, WatchInv, StreamParts
<1>3. UNCHANGED <<browser, inbox, told, lastEvent>>
  BY DEF Number
<1>4. CASE Current(r)
  <2> DEFINE v == browser.subscribed /\ browser.on = r
  <2>1. /\ numbered' = [numbered EXCEPT ![r] = numbered[r] + 1]
        /\ post' = [post EXCEPT ![r].at = "offer", ![r].to = v]
    BY <1>4 DEF Number
  <2>2. v \in BOOLEAN
    BY <1>1
  <2>3. /\ post'[r].at = "offer" /\ post'[r].to = v
        /\ \A q \in Revision : q # r => post'[q] = post[q]
    <3> HIDE DEF v
    <3>1. QED
      BY <1>1, <2>1, <2>2 DEF WatchTypes, Posts
  <2>4. /\ numbered[r] \in Nat /\ numbered'[r] = numbered[r] + 1
        /\ \A q \in Revision : q # r => numbered'[q] = numbered[q]
    BY <1>1, <2>1 DEF WatchTypes
  <2>5. StreamParts'
    BY <1>3, <2>3 DEF WatchInv, StreamParts
  <2>6. /\ numbered[browser.on] \in Nat /\ numbered'[browser.on] \in Nat
        /\ numbered[browser.on] <= numbered'[browser.on]
    <3>1. numbered[browser.on] \in Nat
      BY <1>1, WatchFields
    <3>2. CASE browser.on = r
      BY <2>4, <3>1, <3>2
    <3>3. CASE browser.on # r
      BY <1>1, <2>4, <3>1, <3>3
    <3>4. QED
      BY <3>1, <3>2, <3>3
  <2>7. NumberedFirst'
    <3>1. \A n \in All(browser.replay) \union All(inbox) : n \in Nat
      BY <1>1, WatchFields DEF All, First
    <3>2. ASSUME NEW n \in All(browser.replay) \union All(inbox)
          PROVE  n <= numbered'[browser.on]
      <4>1. n \in Nat /\ n <= numbered[browser.on]
        BY <3>1, <3>2 DEF WatchInv, NumberedFirst
      <4>2. QED
        BY <2>6, <4>1
    <3>3. QED
      BY <1>3, <3>2 DEF NumberedFirst
  <2>8. KnownUpToLast'
    <3>1. lastEvent.id \in Nat
      BY <1>1, WatchFields
    <3>2. KnownUpToLast
      BY DEF WatchInv
    <3>3. QED
      BY <1>3, <2>6, <3>1, <3>2 DEF KnownUpToLast
  <2>9. ComeInOrder'
    BY <1>3 DEF WatchInv, ComeInOrder, Streaming, Reaches
  <2>10. AllComing'
    <3> SUFFICES ASSUME Streaming, browser.subscribed
                 PROVE  Reaches(All(browser.replay) \union All(inbox)
                                  \union Offered(browser.on),
                                numbered[browser.on])'
      BY <1>3 DEF AllComing, Streaming
    <3>1. Reaches(All(browser.replay) \union All(inbox) \union Offered(browser.on),
                  numbered[browser.on])
      BY DEF WatchInv, AllComing
    <3>2. CASE browser.on = r
      <4>1. Offered(r) = {}
        BY <1>2 DEF Offered
      <4>2. Offered(browser.on)' = {numbered[r] + 1}
        BY <1>3, <2>3, <2>4, <3>2 DEF Offered
      <4>3. 1..(numbered[r] + 1) = 1..numbered[r] \union {numbered[r] + 1}
        BY <2>4
      <4>4. QED
        BY <1>3, <2>4, <3>1, <3>2, <4>1, <4>2, <4>3 DEF Reaches
    <3>3. CASE browser.on # r
      <4>1. Offered(browser.on)' = Offered(browser.on)
        BY <1>1, <1>3, <2>3, <2>4, <3>3 DEF Offered
      <4>2. QED
        BY <1>1, <1>3, <2>4, <3>1, <3>3, <4>1 DEF Reaches
    <3>4. QED
      BY <3>2, <3>3
  <2>11. QED
    BY <2>5, <2>7, <2>8, <2>9, <2>10
<1>5. CASE ~Current(r)
  <2>1. post' = [post EXCEPT ![r] = NoPost] /\ UNCHANGED numbered
    BY <1>5 DEF Number
  <2>2. post'[r].to = FALSE /\ \A q \in Revision : q # r => post'[q] = post[q]
    BY <1>1, <2>1 DEF WatchTypes, NoPost
  <2>3. QED
    BY <1>2, <1>3, <2>1, <2>2, SilentSteps
<1>6. QED
  BY <1>4, <1>5

\* What is offered comes after what was offered before.
LEMMA OfferKeeps ==
  ASSUME WatchInv, NEW r \in Revision, Offer(r)
  PROVE  /\ StreamParts' /\ NumberedFirst' /\ KnownUpToLast' /\ ComeInOrder'
         /\ AllComing'
<1>1. WatchTypes /\ browser.on \in Revision /\ inbox \in Seq(Nat)
  BY WatchFields DEF WatchInv
<1>2. post[r].at = "offer" /\ UNCHANGED <<numbered, browser, told, lastEvent>>
  BY DEF Offer
<1>3. numbered[r] \in Nat
  BY <1>1, WatchFields
<1>4. KnownUpToLast'
  BY <1>2 DEF WatchInv, KnownUpToLast
<1>5. ASSUME Posted(r)
      PROVE  post'[r].to = FALSE /\ \A q \in Revision : q # r => post'[q] = post[q]
  BY <1>1, <1>5 DEF Posted, WatchTypes, NoPost
<1>6. CASE ~post[r].to
  <2>1. Posted(r) /\ UNCHANGED inbox
    BY <1>6 DEF Offer
  <2>2. post[r].to = FALSE
    BY <1>1, <1>6, WatchFields
  <2>3. QED
    BY <1>2, <1>5, <2>1, <2>2, SilentSteps
<1>7. CASE post[r].to
  <2>1. /\ r = browser.on /\ browser.subscribed
        /\ \A q \in Revision : q # r => post[q].to = FALSE
    BY <1>1, <1>7, WatchFields DEF WatchInv, StreamParts
  <2>2. Offered(r) = {numbered[r]}
    BY <1>2, <1>7 DEF Offered
  <2>3. CASE Len(inbox) < QueueLimit
    <3>1. inbox' = Append(inbox, numbered[r]) /\ Posted(r)
      BY <1>7, <2>3, LiveWatchAssumption DEF Offer
    <3>2. \A q \in Revision : post'[q].to = FALSE
      BY <1>5, <2>1, <3>1
    <3>3. Len(inbox') = Len(inbox) + 1 /\ Len(inbox) \in Nat
          /\ inbox'[Len(inbox) + 1] = numbered[r]
      BY <1>1, <1>3, <3>1
    <3>4. /\ All(inbox') = All(inbox) \union {numbered[r]}
          /\ \A i \in 1..Len(inbox) :
               First(inbox', i) = First(inbox, i) /\ inbox'[i] = inbox[i]
      BY <1>1, <1>3, <3>1, FirstOfSequences
    <3>5. StreamParts'
      <4>1. Len(inbox') <= QueueLimit
        BY <2>3, <3>3, LiveWatchAssumption
      <4>2. QED
        BY <1>2, <2>1, <3>2, <4>1 DEF WatchInv, StreamParts
    <3>6. NumberedFirst'
      BY <1>2, <1>3, <2>1, <3>4 DEF WatchInv, NumberedFirst
    <3>7. Streaming => Reaches(All(browser.replay) \union All(inbox'), numbered[r])
      BY <2>1, <2>2, <3>4 DEF WatchInv, AllComing, Reaches
    <3>8. ComeInOrder'
      <4> SUFFICES ASSUME Streaming, NEW i \in 1..Len(inbox')
                   PROVE  Reaches(All(browser.replay) \union First(inbox', i),
                                  inbox'[i])
        BY <1>2 DEF WatchInv, ComeInOrder, Streaming, Reaches
      <4>1. CASE i \in 1..Len(inbox)
        BY <3>4, <4>1 DEF WatchInv, ComeInOrder
      <4>2. CASE i = Len(inbox')
        BY <3>3, <3>7, <4>2 DEF All
      <4>3. QED
        BY <3>3, <4>1, <4>2
    <3>9. AllComing'
      BY <1>2, <2>1, <3>7 DEF AllComing, Streaming, Reaches
    <3>10. QED
      BY <1>4, <3>5, <3>6, <3>8, <3>9
  <2>4. CASE Len(inbox) = QueueLimit
    <3>1. inbox' = <<>> /\ post' = [post EXCEPT ![r].at = "full"]
      BY <1>7, <2>4, LiveWatchAssumption DEF Offer
    <3>2. /\ post'[r].at = "full" /\ post'[r].to = post[r].to
          /\ \A q \in Revision : q # r => post'[q] = post[q]
      BY <1>1, <3>1 DEF WatchTypes, Posts
    <3>3. All(inbox') = {} /\ Len(inbox') = 0
      BY <3>1 DEF All, First
    <3>4. StreamParts'
      BY <1>2, <2>1, <3>1, <3>2, <3>3, LiveWatchAssumption DEF WatchInv, StreamParts
    <3>5. NumberedFirst'
      BY <1>2, <3>3 DEF WatchInv, NumberedFirst
    <3>6. ComeInOrder'
      BY <1>2, <3>3 DEF WatchInv, ComeInOrder, Streaming, Reaches
    <3>7. Offered(browser.on)' = {Resync}
      BY <1>2, <1>7, <2>1, <3>2 DEF Offered
    <3>8. AllComing'
      BY <3>7 DEF AllComing, Reaches
    <3>9. QED
      BY <1>4, <3>4, <3>5, <3>6, <3>8
  <2>5. QED
    BY <1>7, <2>3, <2>4 DEF Offer
<1>8. QED
  BY <1>6, <1>7

LEMMA OfferResyncKeeps ==
  ASSUME WatchInv, NEW r \in Revision, OfferResync(r)
  PROVE  /\ StreamParts' /\ NumberedFirst' /\ KnownUpToLast' /\ ComeInOrder'
         /\ AllComing'
<1>1. WatchTypes /\ browser.on \in Revision /\ inbox \in Seq(Nat)
  BY WatchFields DEF WatchInv
<1>2. post[r].at = "full" /\ UNCHANGED <<numbered, browser, told, lastEvent>>
  BY DEF OfferResync
<1>3. post'[r].to = FALSE /\ \A q \in Revision : q # r => post'[q] = post[q]
  BY <1>1 DEF OfferResync, Posted, WatchTypes, NoPost
<1>4. CASE ~post[r].to
  <2>1. UNCHANGED inbox /\ post[r].to = FALSE
    BY <1>1, <1>4, WatchFields DEF OfferResync
  <2>2. QED
    BY <1>2, <1>3, <2>1, SilentSteps
<1>5. CASE post[r].to
  <2>1. /\ r = browser.on /\ browser.subscribed /\ inbox = <<>>
        /\ \A q \in Revision : q # r => post[q].to = FALSE
    BY <1>1, <1>2, <1>5, WatchFields DEF WatchInv, StreamParts
  <2>2. inbox' = <<Resync>>
    BY <1>5, <2>1 DEF OfferResync
  <2>3. /\ Len(inbox') = 1 /\ inbox'[1] = Resync /\ All(inbox') = {Resync}
        /\ First(inbox', 1) = {Resync}
    BY <2>2 DEF All, First
  <2>4. \A q \in Revision : post'[q].to = FALSE
    BY <1>3, <2>1
  <2>5. StreamParts'
    BY <1>2, <2>1, <2>3, <2>4, LiveWatchAssumption DEF WatchInv, StreamParts
  <2>6. NumberedFirst'
    BY <1>1, <1>2, <2>3, WatchFields DEF WatchInv, NumberedFirst, Resync
  <2>7. KnownUpToLast'
    BY <1>2 DEF WatchInv, KnownUpToLast
  <2>8. ComeInOrder'
    BY <1>2, <2>3 DEF WatchInv, ComeInOrder, Streaming, Reaches
  <2>9. AllComing'
    BY <2>3 DEF AllComing, Reaches
  <2>10. QED
    BY <2>5, <2>6, <2>7, <2>8, <2>9
<1>6. QED
  BY <1>4, <1>5

\* What the browser is shown next.
LEMMA ShowKeeps ==
  ASSUME WatchInv, NEW h \in Nat, Show(h), Streaming,
         UNCHANGED numbered, h <= numbered[browser.on],
         Reaches({h}, h), browser'.on = browser.on,
         browser'.foreign = browser.foreign
  PROVE  /\ KnownUpToLast'
         /\ \A S : \A n \in Nat :
              /\ n <= numbered[browser.on]
              /\ Resync \in {h} \union S \/ 1..n \subseteq told \union ({h} \union S)
              => Resync \in S \/ 1..n \subseteq told' \union S
<1>1. /\ browser.on \in Revision /\ numbered[browser.on] \in Nat
      /\ lastEvent.id \in Nat
  BY WatchFields DEF WatchInv
<1>2. KnownUpToLast /\ ~browser.foreign
  BY DEF WatchInv, Streaming
<1>3. CASE h = Resync
  <2>1. told' = 1..numbered[browser.on] /\ UNCHANGED lastEvent
    BY <1>3 DEF Show
  <2>2. 1..lastEvent.id \subseteq told'
    BY <1>1, <1>2, <2>1 DEF KnownUpToLast
  <2>3. KnownUpToLast'
    BY <1>2, <2>1, <2>2 DEF KnownUpToLast
  <2>4. \A n \in Nat : n <= numbered[browser.on] => 1..n \subseteq told'
    BY <1>1, <2>1
  <2>5. QED
    BY <2>3, <2>4
<1>4. CASE h # Resync
  <2>1. told' = told \union {h} /\ lastEvent' = [on |-> browser.on, id |-> h]
    BY <1>4, Zenon DEF Show
  <2>2. 1..h \subseteq told'
    BY <1>4, <2>1 DEF Reaches
  <2>3. lastEvent'.on = browser.on /\ lastEvent'.id = h
    BY <2>1
  <2>4. KnownUpToLast'
    BY <2>2, <2>3 DEF KnownUpToLast
  <2>5. QED
    BY <1>4, <2>1, <2>4
<1>5. QED
  BY <1>3, <1>4

LEMMA ShowReplayKeeps ==
  ASSUME WatchInv, ShowReplay
  PROVE  /\ StreamParts' /\ NumberedFirst' /\ KnownUpToLast' /\ ComeInOrder'
         /\ AllComing'
<1>1. /\ WatchTypes /\ browser.on \in Revision /\ inbox \in Seq(Nat)
      /\ browser.replay \in Seq(Nat) /\ browser.foreign \in BOOLEAN
      /\ browser \in Browsers
  BY WatchFields DEF WatchInv, WatchTypes
<1>2. browser.at = "replay" /\ UNCHANGED <<numbered, post, inbox>>
  BY DEF ShowReplay
<1>3. CASE browser.replay = <<>>
  <2>1. browser' = [browser EXCEPT !.at = "open"] /\ UNCHANGED <<told, lastEvent>>
    BY <1>3 DEF ShowReplay
  <2>2. /\ browser'.at = "open" /\ browser'.on = browser.on
        /\ browser'.replay = browser.replay /\ browser'.foreign = browser.foreign
        /\ browser'.subscribed = browser.subscribed
    BY <1>1, <2>1 DEF Browsers
  <2>3. StreamParts'
    BY <1>2, <1>3, <2>2 DEF WatchInv, StreamParts
  <2>4. NumberedFirst' /\ KnownUpToLast'
    BY <1>2, <2>1, <2>2 DEF WatchInv, NumberedFirst, KnownUpToLast
  <2>5. ComeInOrder'
    BY <1>2, <2>1, <2>2 DEF WatchInv, ComeInOrder, Streaming, Reaches
  <2>6. Offered(browser.on)' = Offered(browser.on)
    BY <1>2, <2>2 DEF Offered
  <2>7. AllComing'
    BY <1>2, <2>1, <2>2, <2>6 DEF WatchInv, AllComing, Streaming, Reaches
  <2>8. QED
    BY <2>3, <2>4, <2>5, <2>7
<1>4. CASE browser.replay # <<>>
  <2> DEFINE q == browser.replay
             h == Head(q)
             t == Tail(q)
  <2>1. Show(h) /\ browser' = [browser EXCEPT !.replay = Tail(@)]
    BY <1>4 DEF ShowReplay
  <2>2. /\ browser'.at = "replay" /\ browser'.on = browser.on
        /\ browser'.replay = t /\ browser'.foreign = browser.foreign
        /\ browser'.subscribed = browser.subscribed
    BY <1>1, <1>2, <2>1 DEF Browsers
  <2>3. /\ h \in Nat /\ t \in Seq(Nat) /\ Len(t) \in Nat /\ Len(q) = Len(t) + 1
        /\ q[1] = h
    BY <1>1, <1>4
  <2>4. /\ First(q, 1) = {h} /\ All(q) = {h} \union All(t)
        /\ \A i \in 1..Len(t) : /\ First(q, i + 1) = {h} \union First(t, i)
                                /\ t[i] = q[i + 1]
    BY <1>1, <1>4, FirstOfSequences
  <2>5. \A i \in 1..Len(inbox) : inbox[i] \in Nat /\ inbox[i] \in All(inbox)
    BY <1>1 DEF All, First
  <2>6. \A i \in 1..Len(t) : t[i] \in Nat /\ t[i] \in All(t)
    BY <2>3 DEF All, First
  <2>7. numbered[browser.on] \in Nat
    BY <1>1, WatchFields
  <2> HIDE DEF q, h, t
  <2>8. StreamParts'
    BY <1>2, <2>2 DEF WatchInv, StreamParts
  <2>9. NumberedFirst'
    BY <1>2, <2>2, <2>4 DEF WatchInv, NumberedFirst, q
  <2>10. ASSUME Streaming
         PROVE  KnownUpToLast' /\ ComeInOrder' /\ AllComing'
    <3>1. Reaches({h}, h)
      <4>1. 1 \in 1..Len(q)
        BY <2>3
      <4>2. QED
        BY <2>3, <2>4, <2>10, <4>1 DEF WatchInv, ComeInOrder, q
    <3>2. \A n \in All(q) \union All(inbox) : n <= numbered[browser.on]
      BY DEF WatchInv, NumberedFirst, q
    <3>3. /\ KnownUpToLast'
          /\ \A S : \A n \in Nat :
               /\ n <= numbered[browser.on]
               /\ Resync \in {h} \union S
                    \/ 1..n \subseteq told \union ({h} \union S)
               => Resync \in S \/ 1..n \subseteq told' \union S
      BY <1>2, <2>1, <2>2, <2>3, <2>4, <2>10, <3>1, <3>2, ShowKeeps
    <3>4. ASSUME NEW i \in 1..Len(t)
          PROVE  Resync \in First(t, i) \/ 1..t[i] \subseteq told' \union First(t, i)
      <4>1. i + 1 \in 1..Len(q)
        BY <2>3
      <4>2. Reaches(First(q, i + 1), q[i + 1])
        BY <2>10, <4>1 DEF WatchInv, ComeInOrder, q
      <4>3. QED
        BY <2>4, <2>6, <3>2, <3>3, <4>2 DEF Reaches
    <3>5. ASSUME NEW i \in 1..Len(inbox)
          PROVE  \/ Resync \in All(t) \union First(inbox, i)
                 \/ 1..inbox[i] \subseteq told' \union (All(t) \union First(inbox, i))
      <4>1. Reaches(All(q) \union First(inbox, i), inbox[i])
        BY <2>10 DEF WatchInv, ComeInOrder, q
      <4>2. All(q) \union First(inbox, i) = {h} \union (All(t) \union First(inbox, i))
        BY <2>4
      <4>3. QED
        BY <2>5, <3>2, <3>3, <4>1, <4>2 DEF Reaches
    <3>6. ComeInOrder'
      BY <1>2, <2>2, <3>4, <3>5 DEF ComeInOrder, Reaches
    <3>7. Offered(browser.on)' = Offered(browser.on)
      BY <1>2, <2>2 DEF Offered
    <3>8. AllComing'
      <4> SUFFICES ASSUME browser.subscribed
                   PROVE  (Reaches(All(browser.replay) \union All(inbox)
                                    \union Offered(browser.on),
                                  numbered[browser.on]))'
        BY <2>2 DEF AllComing
      <4> DEFINE S == All(t) \union All(inbox) \union Offered(browser.on)
      <4>1. Reaches(All(q) \union All(inbox) \union Offered(browser.on),
                    numbered[browser.on])
        BY <2>10 DEF WatchInv, AllComing, q
      <4>2. All(q) \union All(inbox) \union Offered(browser.on) = {h} \union S
        BY <2>4
      <4>3. Resync \in S \/ 1..numbered[browser.on] \subseteq told' \union S
        <5> HIDE DEF S
        <5>1. QED
          BY <2>7, <3>3, <4>1, <4>2 DEF Reaches
      <4>4. QED
        BY <1>2, <2>2, <3>7, <4>3 DEF Reaches
    <3>9. QED
      BY <3>3, <3>6, <3>8
  <2>11. ASSUME ~Streaming
         PROVE  KnownUpToLast' /\ ComeInOrder' /\ AllComing'
    BY <1>2, <2>2, <2>11 DEF Streaming, KnownUpToLast, ComeInOrder, AllComing
  <2>12. QED
    BY <2>8, <2>9, <2>10, <2>11
<1>5. QED
  BY <1>3, <1>4

LEMMA ShowChangeKeeps ==
  ASSUME WatchInv, ShowChange
  PROVE  /\ StreamParts' /\ NumberedFirst' /\ KnownUpToLast' /\ ComeInOrder'
         /\ AllComing'
<1>1. /\ WatchTypes /\ browser.on \in Revision /\ inbox \in Seq(Nat)
      /\ browser.foreign \in BOOLEAN
  BY WatchFields DEF WatchInv
<1> DEFINE q == inbox
           h == Head(q)
           t == Tail(q)
<1>2. /\ browser.at = "open" /\ inbox # <<>> /\ Show(h) /\ inbox' = t
      /\ UNCHANGED <<numbered, post, browser>>
  BY DEF ShowChange
<1>3. /\ h \in Nat /\ t \in Seq(Nat) /\ Len(t) \in Nat /\ Len(q) = Len(t) + 1
      /\ q[1] = h
  BY <1>1, <1>2
<1>4. /\ First(q, 1) = {h} /\ All(q) = {h} \union All(t)
      /\ \A i \in 1..Len(t) : /\ First(q, i + 1) = {h} \union First(t, i)
                              /\ t[i] = q[i + 1]
  BY <1>1, <1>2, FirstOfSequences
<1>5. \A i \in 1..Len(t) : t[i] \in Nat /\ t[i] \in All(t)
  BY <1>3 DEF All, First
<1>6. numbered[browser.on] \in Nat
  BY <1>1, WatchFields
<1>7. All(browser.replay) = {} /\ Len(browser.replay) = 0
  <2>1. browser.replay = <<>>
    BY <1>2 DEF WatchInv, StreamParts
  <2>2. QED
    BY <2>1 DEF All, First
<1>8. StreamParts'
  BY <1>2, <1>3, LiveWatchAssumption DEF WatchInv, StreamParts
<1> HIDE DEF q, h, t
<1>9. NumberedFirst'
  BY <1>2, <1>4 DEF WatchInv, NumberedFirst, q
<1>10. ASSUME Streaming
       PROVE  KnownUpToLast' /\ ComeInOrder' /\ AllComing'
  <2>1. \A i \in 1..Len(q) : Reaches(First(q, i), q[i])
    BY <1>7, <1>10 DEF WatchInv, ComeInOrder, Reaches, q
  <2>2. Reaches({h}, h)
    <3>1. 1 \in 1..Len(q)
      BY <1>3
    <3>2. QED
      BY <1>3, <1>4, <2>1, <3>1
  <2>3. \A n \in All(q) : n <= numbered[browser.on]
    BY DEF WatchInv, NumberedFirst, q
  <2>4. /\ KnownUpToLast'
        /\ \A S : \A n \in Nat :
             /\ n <= numbered[browser.on]
             /\ Resync \in {h} \union S
                  \/ 1..n \subseteq told \union ({h} \union S)
             => Resync \in S \/ 1..n \subseteq told' \union S
    BY <1>2, <1>3, <1>4, <1>10, <2>2, <2>3, ShowKeeps
  <2>5. ASSUME NEW i \in 1..Len(t)
        PROVE  Resync \in First(t, i) \/ 1..t[i] \subseteq told' \union First(t, i)
    <3>1. i + 1 \in 1..Len(q)
      BY <1>3
    <3>2. Reaches(First(q, i + 1), q[i + 1])
      BY <2>1, <3>1
    <3>3. QED
      BY <1>4, <1>5, <2>3, <2>4, <3>2 DEF Reaches
  <2>6. ComeInOrder'
    BY <1>2, <1>7, <2>5 DEF ComeInOrder, Reaches
  <2>7. Offered(browser.on)' = Offered(browser.on)
    BY <1>2 DEF Offered
  <2>8. AllComing'
    <3> SUFFICES ASSUME browser.subscribed
                 PROVE  (Reaches(All(browser.replay) \union All(inbox)
                                  \union Offered(browser.on),
                                numbered[browser.on]))'
      BY <1>2 DEF AllComing
    <3> DEFINE S == All(t) \union Offered(browser.on)
    <3>1. Reaches({} \union All(q) \union Offered(browser.on), numbered[browser.on])
      BY <1>7, <1>10 DEF WatchInv, AllComing, q
    <3>2. {} \union All(q) \union Offered(browser.on) = {h} \union S
      BY <1>4
    <3>3. Resync \in S \/ 1..numbered[browser.on] \subseteq told' \union S
      <4> HIDE DEF S
      <4>1. QED
        BY <1>6, <2>4, <3>1, <3>2 DEF Reaches
    <3>4. QED
      BY <1>2, <1>7, <2>7, <3>3 DEF Reaches
  <2>9. QED
    BY <2>4, <2>6, <2>8
<1>11. ASSUME ~Streaming
       PROVE  KnownUpToLast' /\ ComeInOrder' /\ AllComing'
  BY <1>2, <1>11 DEF Streaming, KnownUpToLast, ComeInOrder, AllComing
<1>12. QED
  BY <1>8, <1>9, <1>10, <1>11

\* The browser comes, goes, or loses its session.
LEMMA StreamEndsKeep ==
  ASSUME WatchInv, EndSession \/ Ask \/ Leave
  PROVE  /\ StreamParts' /\ NumberedFirst' /\ KnownUpToLast' /\ ComeInOrder'
         /\ AllComing'
<1>1. /\ WatchTypes /\ browser \in Browsers /\ browser.on \in Revision
      /\ browser.subscribed \in BOOLEAN
      /\ \A r \in Revision : post[r].to \in BOOLEAN
  BY WatchFields DEF WatchInv, WatchTypes
<1>2. UNCHANGED <<numbered, told, lastEvent>>
  BY DEF EndSession, Ask, Leave
<1>3. StreamParts /\ NumberedFirst /\ KnownUpToLast /\ ComeInOrder /\ AllComing
  BY DEF WatchInv
<1>4. post \in [Revision -> Posts]
  BY <1>1 DEF WatchTypes
<1>5. CASE EndSession
  <2> DEFINE e == revision.ended + 1
             v == browser.subscribed /\ browser.on # e
  <2>1. /\ browser' = [browser EXCEPT !.subscribed = v] /\ Unsubscribe(e)
        /\ UNCHANGED inbox
    BY <1>5 DEF EndSession
  <2>2. v \in BOOLEAN
    BY <1>1
  <2>3. /\ browser'.at = browser.at /\ browser'.on = browser.on
        /\ browser'.replay = browser.replay /\ browser'.foreign = browser.foreign
        /\ browser'.subscribed = v
    <3> HIDE DEF v
    <3>1. QED
      BY <1>1, <2>1, <2>2 DEF Browsers
  <2>4. \A r \in Revision : /\ r = e => post'[r].to = FALSE
                            /\ r # e => post'[r] = post[r]
    <3> HIDE DEF e
    <3>1. post' = [post EXCEPT ![e].to = FALSE]
      BY <2>1 DEF Unsubscribe
    <3>2. QED
      BY <1>4, <3>1 DEF Posts
  <2> HIDE DEF e
  <2>5. StreamParts'
    <3>1. ASSUME NEW r \in Revision, post'[r].to
          PROVE  /\ r = browser.on /\ v /\ post'[r].at \in {"offer", "full"}
                 /\ post'[r].at = "full" => inbox = <<>>
      <4>1. r # e /\ post'[r] = post[r] /\ post[r].to
        BY <2>4, <3>1
      <4>2. QED
        BY <1>3, <4>1 DEF StreamParts
    <3>2. ~browser.subscribed => ~v
      OBVIOUS
    <3>3. inbox' = inbox
      BY <2>1
    <3> HIDE DEF v
    <3>4. QED
      BY <1>3, <2>3, <3>1, <3>2, <3>3 DEF StreamParts
  <2>6. NumberedFirst' /\ KnownUpToLast'
    BY <1>2, <1>3, <2>1, <2>3 DEF NumberedFirst, KnownUpToLast
  <2>7. ComeInOrder'
    BY <1>2, <1>3, <2>1, <2>3 DEF ComeInOrder, Streaming, Reaches
  <2>8. AllComing'
    <3>1. CASE browser.on = e
      BY <2>3, <3>1 DEF AllComing
    <3>2. CASE browser.on # e
      <4>1. Offered(browser.on)' = Offered(browser.on)
        BY <1>1, <1>2, <2>3, <2>4, <3>2 DEF Offered
      <4>2. QED
        BY <1>2, <1>3, <2>1, <2>3, <3>2, <4>1 DEF AllComing, Streaming, Reaches
    <3>3. QED
      BY <3>1, <3>2
  <2>9. QED
    BY <2>5, <2>6, <2>7, <2>8
<1>6. CASE Ask
  <2>1. /\ browser.at = "closed" /\ browser' = [browser EXCEPT !.at = "asked"]
        /\ UNCHANGED <<post, inbox>>
    BY <1>6 DEF Ask
  <2>2. /\ browser'.at = "asked" /\ browser'.on = browser.on
        /\ browser'.replay = browser.replay /\ browser'.foreign = browser.foreign
        /\ browser'.subscribed = browser.subscribed
    BY <1>1, <2>1 DEF Browsers
  <2>3. StreamParts'
    BY <1>3, <2>1, <2>2 DEF StreamParts
  <2>4. NumberedFirst' /\ KnownUpToLast'
    BY <1>2, <1>3, <2>1, <2>2 DEF NumberedFirst, KnownUpToLast
  <2>5. ComeInOrder' /\ AllComing'
    BY <2>2 DEF ComeInOrder, AllComing, Streaming
  <2>6. QED
    BY <2>3, <2>4, <2>5
<1>7. CASE Leave
  <2>1. /\ browser' = [browser EXCEPT !.at = "closed", !.subscribed = FALSE,
                                     !.replay = <<>>]
        /\ inbox' = <<>> /\ Unsubscribe(browser.on)
    BY <1>7 DEF Leave
  <2>2. /\ browser'.at = "closed" /\ browser'.on = browser.on
        /\ browser'.replay = <<>> /\ browser'.foreign = browser.foreign
        /\ browser'.subscribed = FALSE
    BY <1>1, <2>1 DEF Browsers
  <2>3. \A r \in Revision : post'[r].to = FALSE
    <3>1. post' = [post EXCEPT ![browser.on].to = FALSE]
      BY <2>1 DEF Unsubscribe
    <3>2. /\ post'[browser.on].to = FALSE
          /\ \A r \in Revision : r # browser.on => post'[r] = post[r]
      BY <1>1, <1>4, <3>1 DEF Posts
    <3>3. \A r \in Revision : r # browser.on => post[r].to = FALSE
      BY <1>1, <1>3 DEF StreamParts
    <3>4. QED
      BY <3>2, <3>3
  <2>4. All(<<>>) = {} /\ Len(<<>>) = 0
    BY DEF All, First
  <2>5. StreamParts'
    BY <2>1, <2>2, <2>3, <2>4, LiveWatchAssumption DEF StreamParts
  <2>6. NumberedFirst'
    BY <2>1, <2>2, <2>4 DEF NumberedFirst
  <2>7. KnownUpToLast'
    BY <1>2, <1>3, <2>2 DEF KnownUpToLast
  <2>8. ComeInOrder' /\ AllComing'
    BY <2>2 DEF ComeInOrder, AllComing, Streaming
  <2>9. QED
    BY <2>5, <2>6, <2>7, <2>8
<1>8. QED
  BY <1>5, <1>6, <1>7

LEMMA AttachKeeps ==
  ASSUME WatchInv, Attach
  PROVE  /\ StreamParts' /\ NumberedFirst' /\ KnownUpToLast' /\ ComeInOrder'
         /\ AllComing'
<1> DEFINE r == revision.now
           f == IF lastEvent.on = r THEN browser.foreign ELSE lastEvent.id > 0
<1>1. /\ WatchTypes /\ browser \in Browsers /\ browser.foreign \in BOOLEAN
      /\ lastEvent.id \in Nat /\ browser.subscribed \in BOOLEAN
      /\ \A q \in Revision : post[q].to \in BOOLEAN
  BY WatchFields DEF WatchInv, WatchTypes
<1>2. /\ browser.at = "asked" /\ UNCHANGED <<numbered, post, inbox, lastEvent>>
      /\ browser' = [browser EXCEPT !.at = "attached", !.on = r,
                                    !.subscribed = TRUE, !.foreign = f]
      /\ told' = IF lastEvent.on = r THEN told ELSE {}
  BY DEF Attach
<1>3. f \in BOOLEAN
  <2>1. (lastEvent.id > 0) \in BOOLEAN
    OBVIOUS
  <2>2. QED
    BY <1>1, <2>1, Zenon
<1>4. /\ browser'.at = "attached" /\ browser'.on = r
      /\ browser'.replay = browser.replay /\ browser'.foreign = f
      /\ browser'.subscribed = TRUE
  <2> HIDE DEF f, r
  <2>1. QED
    BY <1>1, <1>2, <1>3 DEF Browsers
<1>5. /\ browser.replay = <<>> /\ inbox = <<>>
      /\ \A q \in Revision : post[q].to = FALSE
  BY <1>1, <1>2 DEF WatchInv, StreamParts
<1>6. All(<<>>) = {} /\ Len(<<>>) = 0
  BY DEF All, First
<1>7. StreamParts'
  BY <1>2, <1>4, <1>5, <1>6, LiveWatchAssumption DEF StreamParts
<1>8. NumberedFirst'
  BY <1>2, <1>4, <1>5, <1>6 DEF NumberedFirst
<1>9. KnownUpToLast'
  <2>1. KnownUpToLast
    BY DEF WatchInv
  <2>2. CASE lastEvent.on = r
    <3>1. f = browser.foreign /\ told' = told
      BY <1>2, <2>2
    <3> HIDE DEF f, r
    <3>2. QED
      BY <1>2, <1>4, <2>1, <2>2, <3>1 DEF KnownUpToLast
  <2>3. CASE lastEvent.on # r
    <3>1. ~f => lastEvent.id = 0
      BY <1>1, <2>3
    <3> HIDE DEF f, r
    <3>2. QED
      BY <1>2, <1>4, <3>1 DEF KnownUpToLast
  <2>4. QED
    BY <2>2, <2>3
<1>10. ComeInOrder' /\ AllComing'
  BY <1>4 DEF ComeInOrder, AllComing, Streaming
<1>11. QED
  BY <1>7, <1>8, <1>9, <1>10

\* What is replayed begins after what is known and ends with the last change
\* that was numbered.
LEMMA Replayed ==
  ASSUME NEW n \in Nat, NEW k \in Nat
  PROVE  LET q == SubSeq([i \in 1..n |-> i], k + 1, n)
         IN /\ q \in Seq(Nat)
            /\ \A i \in 1..Len(q) : q[i] = k + i /\ q[i] <= n
            /\ All(q) = (k + 1)..n
            /\ \A i \in 1..Len(q) : (k + 1)..q[i] \subseteq First(q, i)
<1> DEFINE a == [i \in 1..n |-> i]
           q == SubSeq(a, k + 1, n)
<1>1. a \in Seq(Nat) /\ Len(a) = n /\ \A i \in 1..n : a[i] = i
  OBVIOUS
<1> HIDE DEF a
<1>2. /\ q \in Seq(Nat)
      /\ Len(q) = IF k + 1 <= n THEN n - k ELSE 0
      /\ \A i \in 1..Len(q) : q[i] = a[k + i]
  <2>1. CASE k + 1 <= n
    BY <1>1, <2>1
  <2>2. CASE ~(k + 1 <= n)
    BY <1>1, <2>2
  <2>3. QED
    BY <2>1, <2>2
<1> HIDE DEF q
<1>3. \A i \in 1..Len(q) : q[i] = k + i /\ q[i] <= n
  BY <1>1, <1>2
<1>4. All(q) = (k + 1)..n
  <2>1. ASSUME NEW x \in All(q) PROVE x \in (k + 1)..n
    <3>1. PICK i \in 1..Len(q) : x = q[i]
      BY <2>1 DEF All, First
    <3>2. QED
      BY <1>2, <1>3, <3>1
  <2>2. ASSUME NEW x \in (k + 1)..n PROVE x \in All(q)
    <3>1. x - k \in 1..Len(q)
      BY <1>2, <2>2
    <3>2. q[x - k] = x
      BY <1>3, <2>2, <3>1
    <3>3. QED
      BY <3>1, <3>2 DEF All, First
  <2>3. QED
    BY <2>1, <2>2
<1>5. ASSUME NEW i \in 1..Len(q), NEW x \in (k + 1)..q[i] PROVE x \in First(q, i)
  <2>1. Len(q) \in Nat /\ q[i] = k + i
    BY <1>2, <1>3
  <2>2. x - k \in 1..i /\ x - k \in 1..Len(q)
    BY <2>1
  <2>3. q[x - k] = k + (x - k)
    BY <1>3, <2>2
  <2>4. QED
    BY <1>5, <2>1, <2>2, <2>3 DEF First
<1>6. QED
  BY <1>2, <1>3, <1>4, <1>5 DEF q, a

LEMMA ReplayKeeps ==
  ASSUME WatchInv, Replay
  PROVE  /\ StreamParts' /\ NumberedFirst' /\ KnownUpToLast' /\ ComeInOrder'
         /\ AllComing'
<1> DEFINE n == numbered[browser.on]
           k == lastEvent.id
           some == SubSeq([i \in 1..n |-> i], k + 1, n)
           q == IF k + 1 < Oldest(browser.on) THEN <<Resync>> ELSE some
<1>1. /\ WatchTypes /\ browser \in Browsers /\ browser.on \in Revision
      /\ n \in Nat /\ k \in Nat /\ inbox \in Seq(Nat)
  BY WatchFields DEF WatchInv, WatchTypes
<1>2. /\ browser.at = "attached"
      /\ browser' = [browser EXCEPT !.at = "replay", !.replay = q]
      /\ UNCHANGED <<numbered, post, inbox, told, lastEvent>>
  BY DEF Replay
<1>3. /\ some \in Seq(Nat)
      /\ \A i \in 1..Len(some) : some[i] = k + i /\ some[i] <= n
      /\ All(some) = (k + 1)..n
      /\ \A i \in 1..Len(some) : (k + 1)..some[i] \subseteq First(some, i)
  BY <1>1, Replayed
<1>4. /\ <<Resync>> \in Seq(Nat) /\ All(<<Resync>>) = {Resync}
      /\ Len(<<Resync>>) = 1 /\ First(<<Resync>>, 1) = {Resync}
  BY DEF All, First, Resync
<1> HIDE DEF some
<1>5. q \in Seq(Nat) /\ (q = <<Resync>> \/ q = some)
  BY <1>3, <1>4
<1> HIDE DEF q
<1>6. /\ browser'.at = "replay" /\ browser'.on = browser.on
      /\ browser'.replay = q /\ browser'.foreign = browser.foreign
      /\ browser'.subscribed = browser.subscribed
  BY <1>1, <1>2, <1>5 DEF Browsers
<1>7. StreamParts'
  BY <1>2, <1>6 DEF WatchInv, StreamParts
<1>8. \A x \in All(q) : x <= n
  <2>1. CASE q = <<Resync>>
    BY <1>1, <1>4, <2>1 DEF Resync
  <2>2. CASE q = some
    <3>1. \A x \in (k + 1)..n : x <= n
      BY <1>1
    <3>2. QED
      BY <1>3, <2>2, <3>1
  <2>3. QED
    BY <1>5, <2>1, <2>2
<1>9. NumberedFirst'
  BY <1>2, <1>6, <1>8 DEF WatchInv, NumberedFirst
<1>10. KnownUpToLast'
  BY <1>2, <1>6 DEF WatchInv, KnownUpToLast
<1>11. ASSUME Streaming' PROVE ComeInOrder' /\ AllComing'
  <2>1. 1..k \subseteq told
    BY <1>6, <1>11 DEF WatchInv, KnownUpToLast, Streaming
  <2>2. Resync \in All(q) \/ 1..n \subseteq told \union All(q)
    <3>1. CASE q = <<Resync>>
      BY <1>4, <3>1
    <3>2. CASE q = some
      BY <1>1, <1>3, <2>1, <3>2
    <3>3. QED
      BY <1>5, <3>1, <3>2
  <2>3. ASSUME NEW i \in 1..Len(q) PROVE Reaches(First(q, i), q[i])
    <3>1. CASE q = <<Resync>>
      <4>1. i = 1
        BY <1>4, <3>1
      <4>2. QED
        BY <1>4, <3>1, <4>1 DEF Reaches
    <3>2. CASE q = some
      <4>1. some[i] = k + i /\ (k + 1)..some[i] \subseteq First(some, i)
        BY <1>3, <2>3, <3>2
      <4>2. i \in Nat
        OBVIOUS
      <4>3. 1..some[i] \subseteq 1..k \union (k + 1)..some[i]
        BY <1>1, <4>1, <4>2
      <4>4. QED
        BY <2>1, <3>2, <4>1, <4>3 DEF Reaches
    <3>3. QED
      BY <1>5, <3>1, <3>2
  <2>4. ASSUME NEW i \in 1..Len(inbox)
        PROVE  Reaches(All(q) \union First(inbox, i), inbox[i])
    <3>1. inbox[i] \in Nat /\ inbox[i] \in All(inbox)
      BY <1>1 DEF All, First
    <3>2. inbox[i] <= n
      BY <3>1 DEF WatchInv, NumberedFirst
    <3>3. 1..inbox[i] \subseteq 1..n
      BY <1>1, <3>1, <3>2
    <3>4. QED
      BY <2>2, <3>3 DEF Reaches
  <2>5. ComeInOrder'
    BY <1>2, <1>6, <2>3, <2>4 DEF ComeInOrder, Reaches
  <2>6. AllComing'
    BY <1>2, <1>6, <2>2 DEF AllComing, Reaches
  <2>7. QED
    BY <2>5, <2>6
<1>12. QED
  BY <1>7, <1>9, <1>10, <1>11 DEF ComeInOrder, AllComing

LEMMA WatchInvStep ==
  ASSUME WatchInv, [WatchNext]_watchVars PROVE WatchInv'
<1>1. WatchTypes'
  BY WatchTypesStep DEF WatchInv
<1>2. \A r \in Revision : post[r].to \in BOOLEAN
  BY WatchFields DEF WatchInv
<1> DEFINE Kept == /\ StreamParts' /\ NumberedFirst' /\ KnownUpToLast'
                   /\ ComeInOrder' /\ AllComing'
<1>3. CASE Edit \/ Configure \/ UNCHANGED watchVars
  <2>1. UNCHANGED <<numbered, post, browser, inbox, told, lastEvent>>
    BY <1>3 DEF Edit, Configure, watchVars
  <2>2. Kept
    BY <2>1, SilentSteps
  <2>3. QED
    BY <1>1, <2>2 DEF WatchInv
<1>4. ASSUME NEW r \in Revision, Snapshot(r) \/ Expire(r) PROVE WatchInv'
  <2>1. UNCHANGED <<numbered, browser, inbox, told, lastEvent>>
    BY <1>4 DEF Snapshot, Expire
  <2>2. \/ UNCHANGED post
        \/ /\ post[r] = NoPost
           /\ post' = [post EXCEPT ![r] =
                         [NoPost EXCEPT !.at = "sent", !.seen = disk]]
    BY <1>4 DEF Snapshot, Expire
  <2>3. \A q \in Revision :
          \/ post'[q].to = post[q].to /\ post'[q].at = post[q].at
          \/ post'[q].to = FALSE /\ post[q].to = FALSE
    <3>1. CASE UNCHANGED post
      BY <3>1
    <3>2. CASE post[r] = NoPost /\ ~UNCHANGED post
      <4> DEFINE sent == [NoPost EXCEPT !.at = "sent", !.seen = disk]
      <4>1. sent.to = FALSE /\ NoPost.to = FALSE
        BY DEF NoPost
      <4>2. post' = [post EXCEPT ![r] = sent] /\ post \in [Revision -> Posts]
        BY <2>2, <3>2 DEF WatchInv, WatchTypes
      <4> HIDE DEF sent
      <4>3. post'[r] = sent /\ \A q \in Revision : q # r => post'[q] = post[q]
        BY <4>2
      <4>4. QED
        BY <3>2, <4>1, <4>3
    <3>3. QED
      BY <2>2, <3>1, <3>2
  <2>4. Kept
    BY <2>1, <2>3, SilentSteps
  <2>5. QED
    BY <1>1, <2>4 DEF WatchInv
<1>5. CASE \/ EndSession \/ Ask \/ Attach \/ Replay \/ ShowReplay \/ ShowChange
           \/ Leave
  BY <1>1, <1>5, StreamEndsKeep, AttachKeeps, ReplayKeeps, ShowReplayKeeps,
     ShowChangeKeeps DEF WatchInv
<1>6. ASSUME NEW r \in Revision, Number(r) \/ Offer(r) \/ OfferResync(r)
      PROVE  WatchInv'
  BY <1>1, <1>6, NumberKeeps, OfferKeeps, OfferResyncKeeps DEF WatchInv
<1>7. QED
  BY <1>3, <1>4, <1>5, <1>6 DEF WatchNext

\* Sessions, posts and streams stay in their types, and the browser's queue
\* within its size, for any number of revisions and changes.
THEOREM WatchTypeCorrect == WatchSpec => []WatchTypeOK
<1>1. WatchInv => WatchTypeOK
  <2> SUFFICES ASSUME WatchInv PROVE WatchTypeOK
    OBVIOUS
  <2>1. /\ disk \in 0..MaxDisk /\ Len(inbox) <= QueueLimit /\ told \subseteq Nat
        /\ lastEvent.id \in Nat
        /\ revision.now \in Revision /\ revision.ended \in 0..MaxRevision
    BY DEF WatchInv, WatchTypes, StreamParts
  <2>2. browser.at \in {"closed", "asked", "attached", "replay", "open"}
    BY DEF WatchInv, WatchTypes, Browsers
  <2>3. \A r \in Revision :
          watcher[r] \in Watchers /\ numbered[r] \in Nat /\ post[r] \in Posts
    BY DEF WatchInv, WatchTypes
  <2>4. QED
    BY <2>1, <2>2, <2>3 DEF WatchTypeOK, Watchers, Posts
<1>2. QED
  BY <1>1, WatchInvInit, WatchInvStep, PTL DEF WatchSpec

\* For any number of revisions and changes and any size of queue and log: a
\* browser whose stream is open is told of every change its session numbered,
\* or to read everything again, or one of the two is on its way, whatever is
\* posted while it attaches and is replayed, and however often it leaves.
THEOREM ChangesReachTheBrowser == WatchSpec => []NoChangeIsMissed
<1>1. WatchInv => NoChangeIsMissed
  <2> SUFFICES ASSUME WatchInv, browser.at = "open", browser.subscribed,
                      ~browser.foreign
               PROVE  \/ Resync \in OnItsWay(browser.on)
                      \/ 1..numbered[browser.on] \subseteq
                           told \union OnItsWay(browser.on)
    BY DEF NoChangeIsMissed
  <2> DEFINE S == All(browser.replay) \union All(inbox) \union Offered(browser.on)
  <2>1. Resync \in S \/ 1..numbered[browser.on] \subseteq told \union S
    BY DEF WatchInv, AllComing, Streaming, Reaches
  <2>2. All(browser.replay) = {browser.replay[i] : i \in DOMAIN browser.replay}
        /\ All(inbox) = {inbox[i] : i \in DOMAIN inbox}
    <3>1. DOMAIN browser.replay = 1..Len(browser.replay) /\ DOMAIN inbox = 1..Len(inbox)
      BY WatchFields DEF WatchInv
    <3>2. QED
      BY <3>1 DEF All, First
  <2>3. S \subseteq OnItsWay(browser.on)
    <3>1. Offered(browser.on) \subseteq OnItsWay(browser.on)
      BY DEF Offered, OnItsWay
    <3>2. QED
      BY <2>2, <3>1, Zenon DEF OnItsWay
  <2> HIDE DEF S
  <2>4. QED
    BY <2>1, <2>3
<1>2. QED
  BY <1>1, WatchInvInit, WatchInvStep, PTL DEF WatchSpec

=============================================================================
