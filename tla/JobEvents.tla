----------------------------- MODULE JobEvents -----------------------------
(***************************************************************************)
(* The event stream of one job: handlers that change the job's row and     *)
(* publish its new view, the in-process broker that offers the view to     *)
(* every subscribed stream, and the streams (one thread each) that write   *)
(* what they are offered to their viewer.                                  *)
(*                                                                         *)
(* Nothing orders these threads: two handlers save in one order and        *)
(* publish in the other, the set of subscribers is copied before the       *)
(* offers are made, and an offer to a full queue takes the oldest event    *)
(* out and tries again, which another handler can defeat.  What keeps the  *)
(* viewer right is the stream's own look at the row when nothing arrived   *)
(* for JOB_EVENT_HEARTBEAT_SECONDS.                                        *)
(*                                                                         *)
(* A view is the version of the row (updated_at) and whether the job has   *)
(* ended.  A handler loads a row that has not ended and saves it some time *)
(* later, whatever has become of the row meanwhile: a row that ended may   *)
(* so get another outcome, or go on (JobLease tells which handlers do it). *)
(***************************************************************************)
EXTENDS Integers, Sequences

CONSTANTS
  Publisher,     \* handler threads that change the row
  Stream,        \* handler threads that stream to a viewer
  QueueSize,     \* max_queue_size of a subscription
  MaxVersion     \* bound on how often the row changes

ASSUME EventsAssumption ==
  /\ Publisher \cap Stream = {}
  /\ QueueSize \in Nat \ {0}
  /\ MaxVersion \in Nat

VARIABLES
  jobRow,       \* the current view of the row
  outcomes,     \* the views of the row as it ended, since the beginning
  fan,          \* what each thread has still to publish
  jobStream,    \* where each stream is, and the view it wrote last
  eventQueue,   \* the queue of each subscription
  subscribers,  \* the subscriptions the broker knows
  closedSubs    \* the subscriptions whose _closed event is set

eventVars ==
  <<jobRow, outcomes, fan, jobStream, eventQueue, subscribers, closedSubs>>
rowVars == <<jobRow, outcomes>>
brokerVars == <<eventQueue, subscribers, closedSubs>>

View == [ver : 0 .. MaxVersion, ended : BOOLEAN]
NoView == [ver |-> -1, ended |-> FALSE]

Thread == Publisher \union Stream
Quiet == [at |-> "quiet"]
Fan ==
  {Quiet}
    \union [at : {"loaded", "expired"}]
    \union [at : {"saved"}, view : View]
    \union [at : {"offer"}, view : View, left : SUBSET Stream]
    \union [at : {"drop", "again"}, view : View, left : SUBSET Stream,
            to : Stream]

Watching(v) == jobStream[v].at \in {"loop", "beat"}

EventsInit ==
  /\ jobRow = [ver |-> 0, ended |-> FALSE] /\ outcomes = {}
  /\ fan = [t \in Thread |-> Quiet]
  /\ jobStream = [v \in Stream |-> [at |-> "new", shown |-> NoView]]
  /\ eventQueue = [v \in Stream |-> <<>>]
  /\ subscribers = {} /\ closedSubs = {}

-----------------------------------------------------------------------------
(* Handlers that change the row.                                           *)

\* A handler has the row, on which all its checks are made.
LoadRow(t) ==
  /\ fan[t] = Quiet /\ t \in Publisher
  /\ ~jobRow.ended
  /\ fan' = [fan EXCEPT ![t] = [at |-> "loaded"]]
  /\ UNCHANGED <<rowVars, jobStream, brokerVars>>

Changed(ended) ==
  /\ jobRow.ver < MaxVersion
  /\ jobRow' = [ver |-> jobRow.ver + 1, ended |-> ended]
  /\ outcomes' = IF ended THEN outcomes \union {jobRow'} ELSE outcomes

\* Faulty: the view is published before the row is saved.
AnnounceFirst(t) ==
  /\ fan[t].at = "loaded"
  /\ \/ fan' = [fan EXCEPT ![t] =
                  [at |-> "saved", view |-> [ver |-> jobRow.ver,
                                             ended |-> TRUE]]]
        /\ UNCHANGED rowVars
     \/ Changed(TRUE) /\ UNCHANGED fan
  /\ UNCHANGED <<jobStream, brokerVars>>

\* save replaces the whole row by what the handler made of the one it loaded.
SaveRow(t) ==
  /\ fan[t].at = "loaded"
  /\ \E ended \in BOOLEAN : Changed(ended)
  /\ fan' = [fan EXCEPT ![t] = [at |-> "saved", view |-> jobRow']]
  /\ UNCHANGED <<jobStream, brokerVars>>

\* A lease that ran out fails the job, in one statement.  A stream does so too
\* when it looks at the row.
ExpireRow(t) ==
  /\ fan[t] = Quiet
  /\ t \in Stream => jobStream[t].at = "beat"
  /\ ~jobRow.ended /\ Changed(TRUE)
  /\ fan' = [fan EXCEPT ![t] = [at |-> "expired"]]
  /\ UNCHANGED <<jobStream, brokerVars>>

\* The row is read again, and announced if it still says so.
AnnounceExpired(t) ==
  /\ fan[t].at = "expired"
  /\ fan' = [fan EXCEPT ![t] = IF jobRow.ended
                               THEN [at |-> "saved", view |-> jobRow]
                               ELSE Quiet]
  /\ UNCHANGED <<rowVars, jobStream, brokerVars>>

\* publish copies the subscribers; the offers come after the lock is free.
Publish(t) ==
  /\ fan[t].at = "saved"
  /\ fan' = [fan EXCEPT ![t] =
               [at |-> "offer", view |-> @.view, left |-> subscribers]]
  /\ UNCHANGED <<rowVars, jobStream, brokerVars>>

\* A handler that refuses saves nothing; some saves are not published, nor is
\* a view that could not be built.
PublishNothing(t) ==
  /\ fan[t].at \in {"loaded", "saved"}
  /\ fan' = [fan EXCEPT ![t] = Quiet]
  /\ UNCHANGED <<rowVars, jobStream, brokerVars>>

Offered(t, v) == [at |-> "offer", view |-> fan[t].view,
                  left |-> fan[t].left \ {v}]

OfferFirst(t) ==
  /\ fan[t].at = "offer"
  /\ \E v \in fan[t].left :
       IF v \in closedSubs \/ Len(eventQueue[v]) < QueueSize
       THEN /\ eventQueue' = [eventQueue EXCEPT ![v] =
                 IF v \in closedSubs THEN @ ELSE Append(@, fan[t].view)]
            /\ fan' = [fan EXCEPT ![t] = Offered(t, v)]
       ELSE /\ fan' = [fan EXCEPT ![t] = [at |-> "drop", view |-> @.view,
                                          left |-> @.left, to |-> v]]
            /\ UNCHANGED eventQueue
  /\ UNCHANGED <<rowVars, jobStream, subscribers, closedSubs>>

\* Full: the oldest event goes; a queue that was emptied ends the offer.
OfferDrop(t) ==
  /\ fan[t].at = "drop"
  /\ LET v == fan[t].to
     IN IF eventQueue[v] = <<>>
        THEN /\ fan' = [fan EXCEPT ![t] = Offered(t, v)]
             /\ UNCHANGED eventQueue
        ELSE /\ eventQueue' = [eventQueue EXCEPT ![v] = Tail(@)]
             /\ fan' = [fan EXCEPT ![t].at = "again"]
  /\ UNCHANGED <<rowVars, jobStream, subscribers, closedSubs>>

\* The second attempt; a queue that is full once more loses the event.
OfferAgain(t) ==
  /\ fan[t].at = "again"
  /\ LET v == fan[t].to
     IN /\ eventQueue' = [eventQueue EXCEPT ![v] =
             IF Len(@) < QueueSize THEN Append(@, fan[t].view) ELSE @]
        /\ fan' = [fan EXCEPT ![t] = Offered(t, v)]
  /\ UNCHANGED <<rowVars, jobStream, subscribers, closedSubs>>

PublishDone(t) ==
  /\ fan[t].at = "offer" /\ fan[t].left = {}
  /\ fan' = [fan EXCEPT ![t] = Quiet]
  /\ UNCHANGED <<rowVars, jobStream, brokerVars>>

-----------------------------------------------------------------------------
(* Streams.                                                                *)

\* A view goes to the viewer; one of an ended job is the last.
Written(v, view) ==
  jobStream' = [jobStream EXCEPT ![v] =
               [at |-> IF view.ended THEN "closing" ELSE "loop",
                shown |-> view]]

StreamSubscribe(v) ==
  /\ jobStream[v].at = "new"
  /\ jobStream' = [jobStream EXCEPT ![v].at = "subscribed"]
  /\ subscribers' = subscribers \union {v}
  /\ UNCHANGED <<rowVars, fan, eventQueue, closedSubs>>

\* The row is read again after the subscription, so that a change between
\* the first look and the subscription is seen.
StreamFirstView(v) ==
  /\ jobStream[v].at = "subscribed"
  /\ Written(v, jobRow)
  /\ UNCHANGED <<rowVars, fan, brokerVars>>

StreamTake(v) ==
  /\ jobStream[v].at = "loop" /\ eventQueue[v] # <<>>
  /\ Written(v, Head(eventQueue[v]))
  /\ eventQueue' = [eventQueue EXCEPT ![v] = Tail(@)]
  /\ UNCHANGED <<rowVars, fan, subscribers, closedSubs>>

StreamTimeout(v) ==
  /\ jobStream[v].at = "loop" /\ eventQueue[v] = <<>>
  /\ jobStream' = [jobStream EXCEPT ![v].at = "beat"]
  /\ UNCHANGED <<rowVars, fan, brokerVars>>

\* Faulty: a heartbeat is only a comment, and the row is not read again.
HeartbeatWithoutLook(v) ==
  /\ jobStream[v].at = "beat" /\ fan[v] = Quiet
  /\ jobStream' = [jobStream EXCEPT ![v].at = "loop"]
  /\ UNCHANGED <<rowVars, fan, brokerVars>>

StreamHeartbeat(v) ==
  /\ jobStream[v].at = "beat" /\ fan[v] = Quiet
  /\ IF jobRow.ver # jobStream[v].shown.ver \/ jobRow.ended
     THEN Written(v, jobRow)
     ELSE jobStream' = [jobStream EXCEPT ![v].at = "loop"]
  /\ UNCHANGED <<rowVars, fan, brokerVars>>

\* The viewer went away, which a write finds out.
StreamDisconnect(v) ==
  /\ jobStream[v].at \in {"subscribed", "loop"}
  /\ jobStream' = [jobStream EXCEPT ![v].at = "lost"]
  /\ UNCHANGED <<rowVars, fan, brokerVars>>

\* finally: subscription.close()
StreamClose(v) ==
  /\ jobStream[v].at \in {"closing", "lost"} /\ v \notin closedSubs
  /\ subscribers' = subscribers \ {v}
  /\ closedSubs' = closedSubs \union {v}
  /\ UNCHANGED <<rowVars, fan, jobStream, eventQueue>>

PublisherStep(t) ==
  \/ AnnounceExpired(t) \/ Publish(t) \/ PublishNothing(t) \/ PublishDone(t)
  \/ OfferFirst(t) \/ OfferDrop(t) \/ OfferAgain(t)

StreamStep(v) ==
  \/ StreamFirstView(v) \/ StreamTake(v) \/ StreamTimeout(v)
  \/ StreamHeartbeat(v) \/ StreamClose(v)

EventsNext ==
  \/ \E t \in Thread :
       LoadRow(t) \/ SaveRow(t) \/ ExpireRow(t) \/ PublisherStep(t)
  \/ \E v \in Stream :
       StreamSubscribe(v) \/ StreamStep(v) \/ StreamDisconnect(v)

\* A thread that has begun goes on; nothing makes a handler change the row
\* or a viewer come.
EventsFairness ==
  /\ \A t \in Thread : WF_eventVars(PublisherStep(t))
  /\ \A v \in Stream : WF_eventVars(StreamStep(v))

EventsSpec == EventsInit /\ [][EventsNext]_eventVars /\ EventsFairness

-----------------------------------------------------------------------------
(* Properties.                                                             *)

EventsTypeOK ==
  /\ jobRow \in View /\ outcomes \subseteq View
  /\ fan \in [Thread -> Fan]
  /\ jobStream \in [Stream -> [at : {"new", "subscribed", "loop", "beat",
                                  "closing", "lost"},
                            shown : View \union {NoView}]]
  /\ eventQueue \in [Stream -> Seq(View)]
  /\ subscribers \subseteq Stream /\ closedSubs \subseteq Stream

\* A stream that the server ends has shown the outcome of the job as a row
\* really had it, whichever of the publications, dropped events and looks at
\* the row came first and even if a late save has since made another of it;
\* and from then on the broker no longer knows the stream.
EndedStreamShowedOutcome ==
  \A v \in Stream :
    /\ jobStream[v].at = "closing" => jobStream[v].shown \in outcomes
    /\ v \in closedSubs => v \notin subscribers

\* A viewer that stays is brought up to date: once the row no longer changes
\* the stream shows its present version, and if the job has ended the stream
\* ends.  Publications in the wrong order, events lost at a full queue and
\* changes that are never published are all made good.
StreamCatchesUp ==
  \A v \in Stream :
    <>[](Watching(v) => ~jobRow.ended /\ jobStream[v].shown = jobRow)
=============================================================================
