----------------------------- MODULE LiveWatch ------------------------------
(***************************************************************************)
(* Live changes of a target: the watcher thread of the worker compares     *)
(* snapshots and posts what changed; the control plane numbers the change  *)
(* under a lock and offers it to the subscribers after the lock is         *)
(* released; a browser attaches, is replayed what it does not have and     *)
(* then gets what is offered, or is told to read everything again.         *)
(*                                                                         *)
(* Sessions belong to a revision of the target.  A change of the target    *)
(* ends the session of the old revision; the worker's session ends by age  *)
(* or when its post is refused.                                            *)
(***************************************************************************)
EXTENDS Naturals, Sequences, FiniteSets

CONSTANTS
  MaxRevision,  \* bound: revisions of the target
  MaxDisk,      \* bound: changes of the watched file
  QueueLimit,   \* queue_size
  LogLimit      \* max_events

ASSUME LiveWatchAssumption ==
  /\ MaxRevision \in Nat \ {0} /\ MaxDisk \in Nat
  /\ QueueLimit \in Nat \ {0} /\ LogLimit \in Nat \ {0}

VARIABLES
  disk,       \* version of the watched file
  revision,   \* the target's revision, and whether the old session is ended
  watcher,    \* the worker's session of each revision
  numbered,   \* number of changes each session of the control plane has had
  post,       \* the handler of the watcher's post, of each session
  browser,    \* the browser's stream
  inbox,      \* its subscription's queue
  told,       \* numbers of the changes its user knows of
  lastEvent   \* revision and number of the last event it was sent

watchVars == <<disk, revision, watcher, numbered, post, browser, inbox, told,
               lastEvent>>

Revision == 1..MaxRevision
Resync == 0
NoPost == [at |-> "none", seen |-> 0, to |-> FALSE]
NoWatcher == [at |-> "none", seen |-> 0]

WatchInit ==
  /\ disk = 0
  /\ revision = [now |-> 1, ended |-> 0]
  /\ watcher = [r \in Revision |-> NoWatcher]
  /\ numbered = [r \in Revision |-> 0]
  /\ post = [r \in Revision |-> NoPost]
  /\ browser = [at |-> "closed", on |-> 1, replay |-> <<>>, subscribed |-> FALSE,
                foreign |-> FALSE]
  /\ inbox = <<>> /\ told = {}
  /\ lastEvent = [on |-> 1, id |-> 0]

-----------------------------------------------------------------------------
(* The worker.                                                             *)

Edit ==
  /\ disk < MaxDisk /\ disk' = disk + 1
  /\ UNCHANGED <<revision, watcher, numbered, post, browser, inbox, told,
                 lastEvent>>

Watches(r, w) == watcher' = [watcher EXCEPT ![r] = w]

\* The thread's first snapshot, and the later ones that differ from it.  One
\* that had to stop at the limit is posted as a demand to resync, and the
\* thread ends.
Snapshot(r) ==
  /\ \/ /\ watcher[r].at = "start"
        /\ Watches(r, [at |-> "run", seen |-> disk]) /\ UNCHANGED post
     \/ /\ watcher[r].at = "run" /\ watcher[r].seen # disk /\ post[r] = NoPost
        /\ post' = [post EXCEPT ![r] = [NoPost EXCEPT !.at = "sent", !.seen = disk]]
        /\ UNCHANGED watcher
     \/ /\ watcher[r].at \in {"start", "run"} /\ post[r] = NoPost
        /\ numbered[r] < MaxDisk
        /\ post' = [post EXCEPT ![r] = [NoPost EXCEPT !.at = "sent", !.seen = disk]]
        /\ Watches(r, NoWatcher)
  /\ UNCHANGED <<disk, revision, numbered, browser, inbox, told, lastEvent>>

\* cleanup: the worker's session ends by age, and its thread with it.
Expire(r) ==
  /\ watcher[r].at # "none" /\ post[r] = NoPost
  /\ Watches(r, NoWatcher)
  /\ UNCHANGED <<disk, revision, numbered, post, browser, inbox, told, lastEvent>>

-----------------------------------------------------------------------------
(* The control plane: posts.                                               *)

Current(r) == r = revision.now /\ r # revision.ended

\* publish_change numbers the change and takes the list of the subscribers.  A
\* post of an old revision is refused, and ends the worker's session.
Number(r) ==
  /\ post[r].at = "sent"
  /\ IF Current(r)
     THEN /\ numbered' = [numbered EXCEPT ![r] = @ + 1]
          /\ post' = [post EXCEPT ![r].at = "offer",
                                  ![r].to = browser.subscribed /\ browser.on = r]
          /\ UNCHANGED watcher
     ELSE /\ post' = [post EXCEPT ![r] = NoPost]
          /\ Watches(r, NoWatcher)
          /\ UNCHANGED numbered
  /\ UNCHANGED <<disk, revision, browser, inbox, told, lastEvent>>

Posted(r) ==
  /\ post' = [post EXCEPT ![r] = NoPost]
  /\ watcher' = [watcher EXCEPT ![r].seen =
                   IF watcher[r].at = "run" THEN post[r].seen ELSE @]

\* A subscription that is closed takes no offers.
Unsubscribe(r) == post' = [post EXCEPT ![r].to = FALSE]

\* Faulty: an offer that finds no room is dropped.
OfferOrDrop(r) ==
  /\ post[r].at = "offer"
  /\ inbox' = IF post[r].to /\ Len(inbox) < QueueLimit
              THEN Append(inbox, numbered[r]) ELSE inbox
  /\ Posted(r)
  /\ UNCHANGED <<disk, revision, numbered, browser, told, lastEvent>>

\* _offer: put, or empty the queue
Offer(r) ==
  /\ post[r].at = "offer"
  /\ \/ /\ ~post[r].to
        /\ Posted(r) /\ UNCHANGED inbox
     \/ /\ post[r].to /\ Len(inbox) < QueueLimit
        /\ inbox' = Append(inbox, numbered[r])
        /\ Posted(r)
     \/ /\ post[r].to /\ Len(inbox) = QueueLimit
        /\ inbox' = <<>>
        /\ post' = [post EXCEPT ![r].at = "full"] /\ UNCHANGED watcher
  /\ UNCHANGED <<disk, revision, numbered, browser, told, lastEvent>>

\* and put the demand to resync.
OfferResync(r) ==
  /\ post[r].at = "full"
  /\ inbox' = IF post[r].to THEN Append(inbox, Resync) ELSE inbox
  /\ Posted(r)
  /\ UNCHANGED <<disk, revision, numbered, browser, told, lastEvent>>

\* PATCH of the target, and the invalidation of the session after it.  The
\* browser's subscription is closed and its handler does not look.
Configure ==
  /\ revision.now < MaxRevision
  /\ revision' = [revision EXCEPT !.now = @ + 1]
  /\ UNCHANGED <<disk, watcher, numbered, post, browser, inbox, told, lastEvent>>

EndSession ==
  /\ revision.ended < revision.now - 1
  /\ revision' = [revision EXCEPT !.ended = @ + 1]
  /\ browser' = [browser EXCEPT !.subscribed = @ /\ browser.on # revision.ended + 1]
  /\ Unsubscribe(revision.ended + 1)
  /\ UNCHANGED <<disk, watcher, numbered, inbox, told, lastEvent>>

-----------------------------------------------------------------------------
(* The browser's stream.                                                   *)

\* The watch request, which the worker carries out.
Ask ==
  /\ browser.at = "closed"
  /\ LET r == revision.now
     IN IF watcher[r].at = "none" /\ post[r] = NoPost
        THEN Watches(r, [at |-> "start", seen |-> 0]) ELSE UNCHANGED watcher
  /\ browser' = [browser EXCEPT !.at = "asked"]
  /\ UNCHANGED <<disk, revision, numbered, post, inbox, told, lastEvent>>

\* _live_context and attach.  What the user knows of an older revision is of
\* no use for this one.
Attach ==
  /\ browser.at = "asked"
  /\ LET r == revision.now
     IN /\ browser' = [browser EXCEPT !.at = "attached", !.on = r,
                                      !.subscribed = TRUE,
                                      !.foreign = IF lastEvent.on = r THEN @
                                                  ELSE lastEvent.id > 0]
        /\ told' = IF lastEvent.on = r THEN told ELSE {}
  /\ UNCHANGED <<disk, revision, watcher, numbered, post, inbox, lastEvent>>

Oldest(r) == IF numbered[r] > LogLimit THEN numbered[r] - LogLimit + 1 ELSE 1

\* replay: from the number the browser sends, whatever revision it is of.  A
\* session that was ended is an error, and the stream is left.
Replay ==
  LET r == browser.on
      after == lastEvent.id
  IN /\ browser.at = "attached" /\ r > revision.ended
     /\ browser' = [browser EXCEPT
                      !.at = "replay",
                      !.replay = IF after + 1 < Oldest(r) THEN <<Resync>>
                                 ELSE SubSeq([i \in 1..numbered[r] |-> i],
                                             after + 1, numbered[r])]
     /\ UNCHANGED <<disk, revision, watcher, numbered, post, inbox, told,
                    lastEvent>>

\* An event carries its number, the demand to resync does not.
Show(id) ==
  IF id = Resync
  THEN told' = 1..numbered[browser.on] /\ UNCHANGED lastEvent
  ELSE told' = told \union {id} /\ lastEvent' = [on |-> browser.on, id |-> id]

ShowReplay ==
  /\ browser.at = "replay"
  /\ IF browser.replay = <<>>
     THEN /\ browser' = [browser EXCEPT !.at = "open"]
          /\ UNCHANGED <<told, lastEvent>>
     ELSE /\ Show(Head(browser.replay))
          /\ browser' = [browser EXCEPT !.replay = Tail(@)]
  /\ UNCHANGED <<disk, revision, watcher, numbered, post, inbox>>

ShowChange ==
  /\ browser.at = "open" /\ inbox # <<>>
  /\ Show(Head(inbox))
  /\ inbox' = Tail(inbox)
  /\ UNCHANGED <<disk, revision, watcher, numbered, post, browser>>

\* The browser goes away, or the target stops being eligible: the subscription
\* is closed.
Leave ==
  /\ browser.at \in {"attached", "replay", "open"}
  /\ browser' = [browser EXCEPT !.at = "closed", !.subscribed = FALSE,
                                !.replay = <<>>]
  /\ inbox' = <<>> /\ Unsubscribe(browser.on)
  /\ UNCHANGED <<disk, revision, watcher, numbered, told, lastEvent>>

WatchNext ==
  \/ Edit \/ Configure \/ EndSession
  \/ Ask \/ Attach \/ Replay \/ ShowReplay \/ ShowChange \/ Leave
  \/ \E r \in Revision : \/ Snapshot(r) \/ Expire(r) \/ Number(r) \/ Offer(r)
                         \/ OfferResync(r)

WatchSpec == WatchInit /\ [][WatchNext]_watchVars

-----------------------------------------------------------------------------
(* Properties.                                                             *)

WatchTypeOK ==
  /\ disk \in 0..MaxDisk
  /\ revision.now \in Revision /\ revision.ended \in 0..MaxRevision
  /\ \A r \in Revision :
       /\ watcher[r] \in [at : {"none", "start", "run"}, seen : 0..MaxDisk]
       /\ numbered[r] \in Nat
       /\ post[r] \in [at : {"none", "sent", "offer", "full"}, seen : 0..MaxDisk,
                       to : BOOLEAN]
  /\ browser.at \in {"closed", "asked", "attached", "replay", "open"}
  /\ Len(inbox) <= QueueLimit
  /\ told \subseteq Nat /\ lastEvent.id \in Nat

OnItsWay(r) ==
  {browser.replay[i] : i \in DOMAIN browser.replay}
    \union {inbox[i] : i \in DOMAIN inbox}
    \union (CASE post[r].to /\ post[r].at = "offer" -> {numbered[r]}
              [] post[r].to /\ post[r].at = "full" -> {Resync}
              [] OTHER -> {})

\* A browser that has its stream open is told of every change its session
\* numbered, or that it has to read everything again, or one of the two is on
\* its way: between attaching and replaying, over full queues, after having
\* been away.  Two cases are left out because the code does lose changes in
\* them: a stream whose session was ended under it stays open and silent, and
\* a browser that comes back with the number of an event of another session is
\* replayed from there.
NoChangeIsMissed ==
  LET r == browser.on
  IN browser.at = "open" /\ browser.subscribed /\ ~browser.foreign =>
       \/ Resync \in OnItsWay(r)
       \/ 1..numbered[r] \subseteq told \union OnItsWay(r)
=============================================================================
