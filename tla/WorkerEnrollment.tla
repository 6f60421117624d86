-------------------------- MODULE WorkerEnrollment --------------------------
(***************************************************************************)
(* The enrollment of one worker: a one-time bootstrap token of the Control *)
(* Plane is redeemed for a versioned credential.                           *)
(*                                                                         *)
(* The command line tool draws an attempt, that is an identifier and a     *)
(* durable key, writes it to a pending file, sends it with the token,      *)
(* stores the credential and deletes the pending file.  It may be killed   *)
(* anywhere and is run again with the same token.  The Control Plane       *)
(* records the attempt that redeemed a token, so that a repeated request   *)
(* gets the same answer.  Meanwhile credentials are revoked and rotated.   *)
(*                                                                         *)
(* An attempt, or a rotation, stands for its key.  A version without a row *)
(* has NoAttempt for its key, and version 0 stands for "no active          *)
(* credential".  A token that expired or was replaced is "gone": both are  *)
(* refused alike.                                                          *)
(***************************************************************************)
EXTENDS Integers, FiniteSets

CONSTANTS
  Token, NoToken,
  Attempt, NoAttempt,
  Rotation,    \* the rotations, each with a key of its own
  MaxVersion   \* bounds the credential versions

ASSUME EnrollmentAssumption ==
  /\ NoToken \notin Token
  /\ NoAttempt \notin Attempt \union Rotation
  /\ Attempt \intersect Rotation = {}
  /\ MaxVersion \in Nat

VARIABLES
  enrollment, \* the status of each token
  redeemed,   \* the attempt that redeemed a token, and its version
  creds,      \* the credential rows of the worker
  known,      \* whether the worker has a row
  rotation,   \* where each rotation is, and what it has read
  done,       \* the administrator's operations that were begun so far
  handling,   \* completions that are committed and not yet answered
  requests,   \* attempts whose request is on its way
  tokenOf,    \* the token of each attempt that was drawn
  pc,         \* where the command line tool is
  answer,     \* the version it was answered
  pending,    \* the attempt in the pending file
  store,      \* the credential file
  leftover,   \* files whose write was cut off, leaving a temporary file
  settled     \* attempts that were stored, or discarded by their owner

adminVars == <<creds, known, rotation, done>>
serverVars == <<enrollment, redeemed, adminVars, handling>>
processVars == <<pc, answer>>
fileVars == <<pending, store, leftover, settled>>
clientVars == <<tokenOf, processVars, fileVars>>
vars == <<serverVars, requests, clientVars>>

Version == 1..MaxVersion
Key == Attempt \union Rotation \union {NoAttempt}
Claim == [attempt : Attempt \union {NoAttempt}, version : 0..MaxVersion]
Nothing == [attempt |-> NoAttempt, version |-> 0]
NotBegun == [step |-> "none", version |-> 0, key |-> NoAttempt]

Init ==
  /\ enrollment = [t \in Token |-> "none"]
  /\ redeemed = [t \in Token |-> Nothing]
  /\ creds = [v \in Version |-> [key |-> NoAttempt, active |-> FALSE]]
  /\ known = FALSE
  /\ rotation = [r \in Rotation |-> NotBegun] /\ done = {}
  /\ handling = {} /\ requests = {}
  /\ tokenOf = [a \in Attempt |-> NoToken]
  /\ pc = "idle" /\ answer = 0
  /\ pending = NoAttempt /\ store = Nothing
  /\ leftover = {} /\ settled = {}

-----------------------------------------------------------------------------
(* The administrator.                                                      *)

\* A token for a new worker, or one for a known worker, which replaces the
\* tokens of that worker that wait to be used.
Create(t) ==
  /\ enrollment[t] = "none"
  /\ \/ enrollment' = [enrollment EXCEPT ![t] = "open"]
     \/ /\ known
        /\ enrollment' = [u \in Token |->
                            IF u = t THEN "open"
                            ELSE IF enrollment[u] = "open" THEN "gone"
                            ELSE enrollment[u]]
  /\ UNCHANGED <<redeemed, adminVars, handling, requests, clientVars>>

Expire(t) ==
  /\ enrollment[t] = "open"
  /\ enrollment' = [enrollment EXCEPT ![t] = "gone"]
  /\ UNCHANGED <<redeemed, adminVars, handling, requests, clientVars>>

\* The highest active version.
IsCurrent(c) ==
  /\ \A v \in Version : creds[v].active => v <= c
  /\ c # 0 => creds[c].active

Revoked(row) == [key |-> row.key, active |-> FALSE]

\* Every credential of the worker is revoked.
RevokeAll ==
  /\ known
  /\ done' = done \union {"revoke"}
  /\ creds' = [v \in Version |-> Revoked(creds[v])]
  /\ UNCHANGED <<enrollment, redeemed, known, rotation, handling, requests, clientVars>>

\* A rotation takes no lock and uses a transaction for each of its steps, so
\* that several may overlap, and completions and revocations come in between.
RotateRead(r) ==
  /\ known /\ rotation[r].step = "none"
  /\ done' = done \union {"rotate"}
  /\ \E c \in 0..MaxVersion :
       /\ IsCurrent(c) /\ c < MaxVersion
       /\ rotation' = [rotation EXCEPT ![r] =
                         [step |-> IF c = 0 THEN "save" ELSE "revoke",
                          version |-> c,
                          key |-> IF c = 0 THEN NoAttempt ELSE creds[c].key]]
  /\ UNCHANGED <<enrollment, redeemed, creds, known, handling, requests, clientVars>>

\* Faulty: the whole row that was read is saved again, its status with it.
RotateKeepsRow(r) ==
  /\ rotation[r].step = "revoke"
  /\ creds' = [creds EXCEPT ![rotation[r].version] = [key |-> rotation[r].key, active |-> TRUE]]
  /\ rotation' = [rotation EXCEPT ![r].step = "save"]
  /\ UNCHANGED <<enrollment, redeemed, known, done, handling, requests, clientVars>>

\* The row that was read is saved as revoked, whatever its version holds by now.
RotateRevoke(r) ==
  /\ rotation[r].step = "revoke"
  /\ creds' = [creds EXCEPT ![rotation[r].version] = [key |-> rotation[r].key, active |-> FALSE]]
  /\ rotation' = [rotation EXCEPT ![r].step = "save"]
  /\ UNCHANGED <<enrollment, redeemed, known, done, handling, requests, clientVars>>

\* The new row replaces one of the same version.
RotateSave(r) ==
  /\ rotation[r].step = "save"
  /\ creds' = [creds EXCEPT ![rotation[r].version + 1] = [key |-> r, active |-> TRUE]]
  /\ rotation' = [rotation EXCEPT ![r].step = "over"]
  /\ UNCHANGED <<enrollment, redeemed, known, done, handling, requests, clientVars>>

-----------------------------------------------------------------------------
(* The completion of an enrollment at the Control Plane.                   *)

Redeemable(a) == a \in requests /\ enrollment[tokenOf[a]] = "open"

\* Faulty: the version the worker had before stays active.
RedeemBeside(a) ==
  /\ Redeemable(a)
  /\ \E c \in 0..MaxVersion :
       /\ IsCurrent(c) /\ c < MaxVersion /\ creds[c + 1].key = NoAttempt
       /\ creds' = [creds EXCEPT ![c + 1] = [key |-> a, active |-> TRUE]]
       /\ redeemed' = [redeemed EXCEPT ![tokenOf[a]] = [attempt |-> a, version |-> c + 1]]
       /\ handling' = handling \union {[attempt |-> a, version |-> c + 1]}
  /\ enrollment' = [enrollment EXCEPT ![tokenOf[a]] = "used"]
  /\ requests' = requests \ {a}
  /\ UNCHANGED <<known, rotation, done, clientVars>>

\* A token is redeemed: the active credential is revoked, the attempt's key
\* becomes the next version, and the attempt is recorded.
Redeem(a) ==
  /\ Redeemable(a)
  /\ \E c \in 0..MaxVersion :
       /\ IsCurrent(c) /\ c < MaxVersion /\ creds[c + 1].key = NoAttempt
       /\ creds' = [v \in Version |->
                      IF v = c + 1 THEN [key |-> a, active |-> TRUE]
                      ELSE IF v = c THEN Revoked(creds[v])
                      ELSE creds[v]]
       /\ redeemed' = [redeemed EXCEPT ![tokenOf[a]] = [attempt |-> a, version |-> c + 1]]
       /\ handling' = handling \union {[attempt |-> a, version |-> c + 1]}
  /\ enrollment' = [enrollment EXCEPT ![tokenOf[a]] = "used"]
  /\ requests' = requests \ {a}
  /\ UNCHANGED <<known, rotation, done, clientVars>>

\* The next version has a row already, so that its insertion fails; what was
\* done before is committed all the same.
Conflict(a) ==
  /\ Redeemable(a)
  /\ \E c \in 0..MaxVersion :
       /\ IsCurrent(c) /\ c < MaxVersion /\ creds[c + 1].key # NoAttempt
       /\ creds' = [v \in Version |-> IF v = c THEN Revoked(creds[v]) ELSE creds[v]]
  /\ enrollment' = [enrollment EXCEPT ![tokenOf[a]] = "used"]
  /\ requests' = requests \ {a}
  /\ UNCHANGED <<redeemed, known, rotation, done, handling, clientVars>>

\* Faulty: a retry is told the highest version of the worker.
ReplayCurrent(a) ==
  /\ a \in requests /\ redeemed[tokenOf[a]].attempt = a
  /\ \E c \in Version :
       IsCurrent(c) /\ handling' = handling \union {[attempt |-> a, version |-> c]}
  /\ requests' = requests \ {a}
  /\ UNCHANGED <<enrollment, redeemed, adminVars, clientVars>>

\* Faulty: a used token is refused, whoever used it.
ReplayRefused(a) ==
  /\ a \in requests /\ redeemed[tokenOf[a]].attempt = a
  /\ requests' = requests \ {a}
  /\ UNCHANGED <<serverVars, clientVars>>

\* The attempt that redeemed the token gets the recorded answer again, also
\* after the token expired or the credential was revoked.
Replay(a) ==
  /\ a \in requests /\ redeemed[tokenOf[a]].attempt = a
  /\ handling' = handling \union {redeemed[tokenOf[a]]}
  /\ requests' = requests \ {a}
  /\ UNCHANGED <<enrollment, redeemed, adminVars, clientVars>>

Refuse(a) ==
  /\ a \in requests
  /\ enrollment[tokenOf[a]] # "open" /\ redeemed[tokenOf[a]].attempt # a
  /\ requests' = requests \ {a}
  /\ UNCHANGED <<serverVars, clientVars>>

\* The worker is registered, and the answer is lost or nobody waits for it.
Register(m) ==
  /\ m \in handling
  /\ handling' = handling \ {m} /\ known' = TRUE
  /\ UNCHANGED <<enrollment, redeemed, creds, rotation, done, requests, clientVars>>

\* The worker is registered and the answer arrives.
Answer(m) ==
  /\ m \in handling /\ pc = "waiting" /\ pending = m.attempt
  /\ handling' = handling \ {m} /\ known' = TRUE
  /\ pc' = "answered" /\ answer' = m.version
  /\ UNCHANGED <<enrollment, redeemed, creds, rotation, done, requests, tokenOf, fileVars>>

\* Requests on their way and requests being handled are lost.
ServerRestart ==
  /\ requests' = {} /\ handling' = {}
  /\ rotation' = [r \in Rotation |->
                    IF rotation[r].step = "none" THEN rotation[r]
                    ELSE [rotation[r] EXCEPT !.step = "over"]]
  /\ UNCHANGED <<enrollment, redeemed, creds, known, done, clientVars>>

-----------------------------------------------------------------------------
(* The command line tool.  A file is written under a temporary name and    *)
(* renamed.  A temporary file that is there already makes the write fail,  *)
(* and is removed by the failure.                                          *)

\* Without a pending attempt one is drawn and written.
Prepare(t, a) ==
  /\ pc = "idle" /\ pending = NoAttempt /\ "pending" \notin leftover
  /\ enrollment[t] # "none" /\ tokenOf[a] = NoToken
  /\ tokenOf' = [tokenOf EXCEPT ![a] = t]
  /\ pending' = a
  /\ pc' = "ready"
  /\ UNCHANGED <<serverVars, requests, answer, store, leftover, settled>>

\* The write fails, or is cut off.
PrepareFails ==
  /\ pc = "idle" /\ pending = NoAttempt
  /\ leftover' = IF "pending" \in leftover
                 THEN leftover \ {"pending"} ELSE leftover \union {"pending"}
  /\ UNCHANGED <<serverVars, requests, tokenOf, processVars, pending, store, settled>>

\* The tool is run again with the token of the pending attempt; another
\* token ends it at once.
Retry ==
  /\ pc = "idle" /\ pending # NoAttempt
  /\ pc' = "ready"
  /\ UNCHANGED <<serverVars, requests, tokenOf, answer, fileVars>>

\* Faulty: the request does not wait for the pending file.
SendAnyway ==
  /\ pc \in {"idle", "ready"}
  /\ requests' = requests \union {pending}
  /\ pc' = "waiting"
  /\ UNCHANGED <<serverVars, tokenOf, answer, fileVars>>

Send ==
  /\ pc = "ready"
  /\ requests' = requests \union {pending}
  /\ pc' = "waiting"
  /\ UNCHANGED <<serverVars, tokenOf, answer, fileVars>>

\* An error is answered, or nothing in time; the pending file is kept.
GiveUp ==
  /\ pc = "waiting"
  /\ pc' = "idle"
  /\ UNCHANGED <<serverVars, requests, tokenOf, answer, fileVars>>

\* Faulty: the version is stored as its default.
SaveDefault ==
  /\ pc = "answered" /\ "store" \notin leftover
  /\ store' = [attempt |-> pending, version |-> 1]
  /\ settled' = settled \union {pending}
  /\ pc' = "stored"
  /\ UNCHANGED <<serverVars, requests, tokenOf, answer, pending, leftover>>

Save ==
  /\ pc = "answered" /\ "store" \notin leftover
  /\ store' = [attempt |-> pending, version |-> answer]
  /\ settled' = settled \union {pending}
  /\ pc' = "stored"
  /\ UNCHANGED <<serverVars, requests, tokenOf, answer, pending, leftover>>

\* The write fails, or is cut off, and with it the run of the tool.
SaveFails ==
  /\ pc = "answered"
  /\ leftover' = IF "store" \in leftover
                 THEN leftover \ {"store"} ELSE leftover \union {"store"}
  /\ pc' = "idle"
  /\ UNCHANGED <<serverVars, requests, tokenOf, answer, pending, store, settled>>

DeletePending ==
  /\ pc = "stored"
  /\ pending' = NoAttempt
  /\ pc' = "idle"
  /\ UNCHANGED <<serverVars, requests, tokenOf, answer, store, leftover, settled>>

\* enroll --reset-pending: the owner discards the attempt.
ResetPending ==
  /\ pc = "idle" /\ pending # NoAttempt
  /\ settled' = settled \union {pending}
  /\ pending' = NoAttempt
  /\ UNCHANGED <<serverVars, requests, tokenOf, processVars, store, leftover>>

Kill ==
  /\ pc # "idle"
  /\ pc' = "idle"
  /\ UNCHANGED <<serverVars, requests, tokenOf, answer, fileVars>>

Complete(a) == Redeem(a) \/ Conflict(a) \/ Replay(a) \/ Refuse(a)

Next ==
  \/ \E t \in Token : Create(t) \/ Expire(t)
  \/ RevokeAll
  \/ \E r \in Rotation : RotateRead(r) \/ RotateRevoke(r) \/ RotateSave(r)
  \/ \E a \in Attempt : Complete(a)
  \/ \E m \in handling : Register(m) \/ Answer(m)
  \/ ServerRestart
  \/ \E t \in Token, a \in Attempt : Prepare(t, a)
  \/ PrepareFails
  \/ Retry \/ Send \/ GiveUp
  \/ Save \/ SaveFails
  \/ DeletePending \/ ResetPending
  \/ Kill

\* The owner runs the tool until it succeeds, each run comes to an end, and
\* over and over a request is sent, handled in time, answered, and the answer
\* written.
Fairness ==
  /\ WF_vars(Retry)
  /\ WF_vars(GiveUp)
  /\ SF_vars(SaveFails /\ "store" \in leftover)
  /\ SF_vars(Send)
  /\ SF_vars(Save)
  /\ SF_vars(\E m \in handling : Answer(m))
  /\ \A a \in Attempt : SF_vars(Replay(a) /\ pc = "waiting")

Spec == Init /\ [][Next]_vars /\ Fairness

-----------------------------------------------------------------------------
(* Properties.                                                             *)

\* Every variable stays in its type.
TypeOK ==
  /\ enrollment \in [Token -> {"none", "open", "used", "gone"}]
  /\ redeemed \in [Token -> Claim]
  /\ creds \in [Version -> [key : Key, active : BOOLEAN]]
  /\ known \in BOOLEAN
  /\ rotation \in [Rotation -> [step : {"none", "revoke", "save", "over"},
                                version : 0..MaxVersion, key : Key]]
  /\ done \subseteq {"revoke", "rotate"}
  /\ handling \subseteq [attempt : Attempt, version : Version]
  /\ requests \subseteq Attempt
  /\ tokenOf \in [Attempt -> Token \union {NoToken}]
  /\ pc \in {"idle", "ready", "waiting", "answered", "stored"}
  /\ answer \in 0..MaxVersion
  /\ pending \in Attempt \union {NoAttempt}
  /\ store \in Claim
  /\ leftover \subseteq {"pending", "store"}
  /\ settled \subseteq Attempt

Recorded(a, v) == \E t \in Token : redeemed[t] = [attempt |-> a, version |-> v]

\* However often an attempt is sent, and whatever happens to tokens and
\* credentials in between, every answer to it names the version it redeemed,
\* and so does the file that the worker signs its requests with.
SameAttemptSameVersion ==
  /\ \A m \in handling : Recorded(m.attempt, m.version)
  /\ pc \in {"answered", "stored"} => Recorded(pending, answer)
  /\ store # Nothing => Recorded(store.attempt, store.version)

\* The key of an attempt that redeemed its token is on the worker's disk, in
\* one file or the other, wherever the tool was killed, unless its owner
\* discarded it.
RecordedAttemptIsKept ==
  \A t \in Token :
    redeemed[t].attempt # NoAttempt =>
      redeemed[t].attempt = pending \/ redeemed[t].attempt \in settled

\* A key that was revoked, one of the worker or one of a rotation, does not
\* become active again, whatever is retried, enrolled, or rotated at the same
\* time.
RevokedKeyStaysRevoked ==
  [][\A v, w \in Version :
       creds[v].key # NoAttempt /\ ~creds[v].active =>
         ~(creds'[w].key = creds[v].key /\ creds'[w].active)]_vars

\* Before the first rotation, which takes no lock, at most one credential is
\* active, however completions and revocations follow each other.
OneActiveCredential ==
  "rotate" \notin done =>
    \A v, w \in Version : creds[v].active /\ creds[w].active => v = w

\* Until an administrator revokes or rotates, what the worker has stored
\* authenticates it, unless a later enrollment took over, and it is
\* registered.
StoredCredentialWorks ==
  done = {} /\ store # Nothing =>
    /\ known
    /\ creds[store.version].key = store.attempt
    /\ \/ creds[store.version].active
       \/ \E t \in Token : redeemed[t].version > store.version

\* Why the safety properties hold.  A token has a record only when it is used;
\* whatever is on its way was written to the pending file first; a key that a
\* worker drew is the credential of exactly the version it is recorded with,
\* and one of a rotation that of the version after the one it read; and what
\* a rotation has read, it writes back under the same version.
TokenInv ==
  \A t \in Token :
    \/ redeemed[t] = Nothing
    \/ /\ enrollment[t] = "used"
       /\ redeemed[t] \in [attempt : Attempt, version : Version]

RequestInv ==
  /\ \A a \in requests : tokenOf[a] \in Token /\ (a = pending \/ a \in settled)
  /\ pending # NoAttempt => tokenOf[pending] \in Token
  /\ pc # "idle" => pending # NoAttempt
  /\ pc = "stored" => pending \in settled

Owned(k, v) ==
  \/ k \in Attempt /\ tokenOf[k] \in Token
     /\ redeemed[tokenOf[k]] = [attempt |-> k, version |-> v]
  \/ k \in Rotation /\ rotation[k].step = "over" /\ v = rotation[k].version + 1

KeyInv == \A v \in Version : creds[v].key # NoAttempt => Owned(creds[v].key, v)

RotationInv ==
  \A r \in Rotation :
    /\ rotation[r].step \in {"revoke", "save"} =>
         "rotate" \in done /\ rotation[r].version < MaxVersion
    /\ rotation[r].step = "revoke" =>
         /\ rotation[r].version \in Version
         /\ rotation[r].key # NoAttempt => Owned(rotation[r].key, rotation[r].version)

\* The parts of the invariant that carries the safety properties of retries.
LedgerInv == TokenInv /\ RequestInv /\ KeyInv /\ RotationInv

\* Until then the newest version is the active one, so that completions never
\* meet a row that is there already.
NewestInv ==
  done = {} =>
    /\ \A v \in Version :
         creds[v].key # NoAttempt => \E w \in Version : w >= v /\ creds[w].active
    /\ \A t \in Token :
         redeemed[t] # Nothing =>
           /\ creds[redeemed[t].version].key = redeemed[t].attempt
           /\ \/ creds[redeemed[t].version].active
              \/ \E u \in Token : redeemed[u].version > redeemed[t].version
    /\ pc \in {"answered", "stored"} \/ store # Nothing => known

\* An attempt that redeemed its token is stored in the end, however often
\* requests, answers, the server or the tool fail, unless it is discarded.
RedeemedIsStored ==
  \A a \in Attempt :
    (\E t \in Token : redeemed[t].attempt = a) ~> a \in settled

\* "Interrupted requests can retry the same attempt": a token that is used up
\* has a recorded attempt that can be answered again.
UsedTokenHasAttempt ==
  \A t \in Token : enrollment[t] = "used" => redeemed[t].attempt # NoAttempt
=============================================================================
