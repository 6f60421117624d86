----------------------- MODULE WorkerEnrollmentProofs -----------------------
(***************************************************************************)
(* Proofs about WorkerEnrollment, for any tokens, attempts and versions,   *)
(* and any revocations and overlapping rotations.                          *)
(***************************************************************************)
EXTENDS WorkerEnrollment, TLAPS

-----------------------------------------------------------------------------
(* Types and the ledger of tokens, attempts and keys are one induction: a  *)
(* request names an attempt because it was written before it was sent, and *)
(* an answer names a version because it was recorded before it was given.  *)

Inv == TypeOK /\ LedgerInv

LEMMA InvInit == Init => Inv
<1> SUFFICES ASSUME Init PROVE Inv
  OBVIOUS
<1> USE EnrollmentAssumption DEF Init, Nothing, NotBegun, Claim, Key, Version
<1>1. TypeOK
  <2>1. creds \in [Version -> [key : Key, active : BOOLEAN]]
    OBVIOUS
  <2>2. redeemed \in [Token -> Claim] /\ store \in Claim
    OBVIOUS
  <2>3. rotation \in [Rotation -> [step : {"none", "revoke", "save", "over"},
                                    version : 0..MaxVersion, key : Key]]
    OBVIOUS
  <2>4. known \in BOOLEAN /\ enrollment \in [Token -> {"none", "open", "used", "gone"}]
    OBVIOUS
  <2> QED
    BY <2>1, <2>2, <2>3, <2>4 DEF TypeOK
<1>2. LedgerInv
  BY DEF LedgerInv, TokenInv, RequestInv, KeyInv, RotationInv
<1> QED
  BY <1>1, <1>2 DEF Inv

RotationType ==
  [step : {"none", "revoke", "save", "over"}, version : 0..MaxVersion, key : Key]

\* The administrator's steps leave the command line tool alone.
LEMMA AdminStep ==
  ASSUME Inv,
         \/ \E t \in Token : Create(t) \/ Expire(t)
         \/ RevokeAll
         \/ \E r \in Rotation : RotateRead(r) \/ RotateRevoke(r) \/ RotateSave(r)
  PROVE  Inv'
<1> USE EnrollmentAssumption
    DEF Inv, TypeOK, LedgerInv, TokenInv, RequestInv, KeyInv, RotationInv, Owned,
        Nothing, NotBegun, Claim, Key, Version,
        adminVars, processVars, fileVars, clientVars, serverVars
<1>1. ASSUME NEW t \in Token, Create(t) PROVE Inv'
  <2>1. TypeOK'
    BY <1>1 DEF Create
  <2>2. TokenInv'
    BY <1>1 DEF Create
  <2>3. RequestInv'
    BY <1>1 DEF Create
  <2>4. KeyInv'
    BY <1>1 DEF Create
  <2>5. RotationInv'
    BY <1>1 DEF Create
  <2> QED
    BY <2>1, <2>2, <2>3, <2>4, <2>5
<1>2. ASSUME NEW t \in Token, Expire(t) PROVE Inv'
  BY <1>2 DEF Expire
<1>3. CASE RevokeAll
  BY <1>3 DEF RevokeAll, Revoked
<1>4. ASSUME NEW r \in Rotation, RotateRead(r) PROVE Inv'
  <2>1. TypeOK'
    BY <1>4 DEF RotateRead, IsCurrent
  <2>2. \A k \in Key, v \in Version : Owned(k, v) => Owned(k, v)'
    BY <1>4 DEF RotateRead
  <2>3. KeyInv'
    BY <1>4, <2>2 DEF RotateRead
  <2>4. RotationInv'
    <3>1. PICK c \in 0..MaxVersion :
            /\ IsCurrent(c) /\ c < MaxVersion
            /\ rotation' = [rotation EXCEPT ![r] =
                              [step |-> IF c = 0 THEN "save" ELSE "revoke",
                               version |-> c,
                               key |-> IF c = 0 THEN NoAttempt ELSE creds[c].key]]
      BY <1>4 DEF RotateRead
    <3>2. c # 0 => c \in Version /\ (creds[c].key # NoAttempt => Owned(creds[c].key, c))
      BY DEF KeyInv
    <3>3. ASSUME NEW q \in Rotation, q # r PROVE rotation'[q] = rotation[q]
      BY <3>1, <3>3
    <3>4. "rotate" \in done' /\ done \subseteq done'
      BY <1>4 DEF RotateRead
    <3>5. c # 0 /\ creds[c].key # NoAttempt => Owned(creds[c].key, c)'
      <4>1. SUFFICES ASSUME c # 0, creds[c].key # NoAttempt
                     PROVE  Owned(creds[c].key, c)'
        BY <1>4 DEF RotateRead
      <4>2. creds[c] \in [key : Key, active : BOOLEAN] /\ creds' = creds
        BY <3>2, <4>1, <1>4 DEF RotateRead
      <4>3. Owned(creds[c].key, c) /\ creds[c].key \in Key
        BY <3>2, <4>1, <4>2
      <4> HIDE DEF Owned
      <4> QED
        BY <2>2, <3>2, <4>1, <4>2, <4>3
    <3>6. /\ rotation'[r].version = c
          /\ rotation'[r].step = "revoke" => c # 0 /\ rotation'[r].key = creds[c].key
      BY <3>1
    <3> HIDE DEF Owned
    <3> QED
      BY <2>2, <3>1, <3>2, <3>3, <3>4, <3>5, <3>6
  <2> QED
    BY <1>4, <2>1, <2>3, <2>4 DEF RotateRead
<1>5. ASSUME NEW r \in Rotation, RotateRevoke(r) PROVE Inv'
  <2>1. TypeOK'
    <3>1. rotation[r] \in RotationType
      BY DEF RotationType
    <3>2. rotation' \in [Rotation -> RotationType]
      BY <1>5, <3>1 DEF RotateRevoke, RotationType
    <3>3. creds' \in [Version -> [key : Key, active : BOOLEAN]]
      BY <1>5, <3>1 DEF RotateRevoke, RotationType
    <3> QED
      BY <1>5, <3>2, <3>3 DEF RotateRevoke, RotationType
  <2>2. \A k \in Key, v \in Version : Owned(k, v) => Owned(k, v)'
    BY <1>5 DEF RotateRevoke
  <2>3. KeyInv'
    BY <1>5, <2>2 DEF RotateRevoke
  <2>4. RotationInv'
    BY <1>5, <2>2 DEF RotateRevoke
  <2> QED
    BY <1>5, <2>1, <2>3, <2>4 DEF RotateRevoke
<1>6. ASSUME NEW r \in Rotation, RotateSave(r) PROVE Inv'
  <2>1. TypeOK'
    <3>1. rotation[r] \in RotationType
      BY DEF RotationType
    <3>2. rotation' \in [Rotation -> RotationType]
      BY <1>6, <3>1 DEF RotateSave, RotationType
    <3>3. creds' \in [Version -> [key : Key, active : BOOLEAN]]
      BY <1>6, <3>1 DEF RotateSave, RotationType
    <3> QED
      BY <1>6, <3>2, <3>3 DEF RotateSave, RotationType
  <2>2. \A k \in Key, v \in Version : Owned(k, v) => Owned(k, v)'
    BY <1>6 DEF RotateSave
  <2>3. KeyInv'
    BY <1>6, <2>2 DEF RotateSave
  <2>4. RotationInv'
    BY <1>6, <2>2 DEF RotateSave
  <2> QED
    BY <1>6, <2>1, <2>3, <2>4 DEF RotateSave
<1> QED
  BY <1>1, <1>2, <1>3, <1>4, <1>5, <1>6

\* The completion writes a key under its own version only.
LEMMA CompletionStep ==
  ASSUME Inv, NEW a \in Attempt, Complete(a)
  PROVE  Inv'
<1> USE EnrollmentAssumption
    DEF Inv, TypeOK, LedgerInv, TokenInv, RequestInv, KeyInv, RotationInv, Owned,
        Nothing, NotBegun, Claim, Key, Version,
        adminVars, processVars, fileVars, clientVars, serverVars
<1>1. CASE Redeem(a)
  <2>1. TypeOK'
    BY <1>1 DEF Redeem, Redeemable, Revoked
  <2>2. TokenInv'
    BY <1>1 DEF Redeem, Redeemable, Revoked
  <2>3. RequestInv'
    BY <1>1 DEF Redeem, Redeemable, Revoked
  <2>4. KeyInv'
    BY <1>1 DEF Redeem, Redeemable, Revoked
  <2>5. RotationInv'
    BY <1>1 DEF Redeem, Redeemable, Revoked
  <2> QED
    BY <2>1, <2>2, <2>3, <2>4, <2>5
<1>2. CASE Conflict(a)
  BY <1>2 DEF Conflict, Redeemable, Revoked
<1>3. CASE Replay(a)
  BY <1>3 DEF Replay
<1>4. CASE Refuse(a)
  BY <1>4 DEF Refuse
<1> QED
  BY <1>1, <1>2, <1>3, <1>4 DEF Complete

LEMMA AnswerStep ==
  ASSUME Inv,
         (\E m \in handling : Register(m) \/ Answer(m)) \/ ServerRestart
  PROVE  Inv'
<1> USE EnrollmentAssumption
    DEF Inv, TypeOK, LedgerInv, TokenInv, RequestInv, KeyInv, RotationInv, Owned,
        Nothing, NotBegun, Claim, Key, Version,
        adminVars, processVars, fileVars, clientVars, serverVars
<1>1. ASSUME NEW m \in handling, Register(m) PROVE Inv'
  BY <1>1 DEF Register
<1>2. ASSUME NEW m \in handling, Answer(m) PROVE Inv'
  BY <1>2 DEF Answer
<1>3. CASE ServerRestart
  <2>1. rotation' \in [Rotation -> [step : {"none", "revoke", "save", "over"},
                                    version : 0..MaxVersion, key : Key]]
    <3>0. ASSUME NEW x \in RotationType
          PROVE  [x EXCEPT !.step = "over"] \in RotationType
      BY DEF RotationType
    <3>2. \A r \in Rotation : rotation[r] \in RotationType
      BY DEF RotationType
    <3>1. \A r \in Rotation : [rotation[r] EXCEPT !.step = "over"] \in RotationType
      BY <3>0, <3>2
    <3> QED
      BY <1>3, <3>1, <3>2 DEF ServerRestart, RotationType
  <2>2. TypeOK'
    BY <1>3, <2>1 DEF ServerRestart
  <2>3. \A k \in Key, v \in Version : Owned(k, v) => Owned(k, v)'
    BY <1>3 DEF ServerRestart
  <2>4. KeyInv'
    BY <1>3, <2>3 DEF ServerRestart
  <2>5. RotationInv'
    <3>1. \A r \in Rotation : rotation'[r].step \in {"none", "over"}
      BY <1>3 DEF ServerRestart
    <3> QED
      BY <3>1
  <2>6. TokenInv' /\ RequestInv'
    BY <1>3 DEF ServerRestart
  <2> QED
    BY <2>2, <2>4, <2>5, <2>6
<1> QED
  BY <1>1, <1>2, <1>3

\* The tool writes the pending file before it sends, and the credential
\* before it deletes the pending file.
LEMMA ToolStep ==
  ASSUME Inv,
         \/ \E t \in Token, a \in Attempt : Prepare(t, a)
         \/ PrepareFails \/ Retry \/ Send \/ GiveUp \/ Save \/ SaveFails
         \/ DeletePending \/ ResetPending \/ Kill
  PROVE  Inv'
<1> USE EnrollmentAssumption
    DEF Inv, TypeOK, LedgerInv, TokenInv, RequestInv, KeyInv, RotationInv, Owned,
        Nothing, NotBegun, Claim, Key, Version,
        adminVars, processVars, fileVars, clientVars, serverVars
<1>1. ASSUME NEW t \in Token, NEW a \in Attempt, Prepare(t, a) PROVE Inv'
  <2>1. \A b \in Attempt : tokenOf[b] \in Token => tokenOf'[b] = tokenOf[b]
    BY <1>1 DEF Prepare
  <2> QED
    BY <1>1, <2>1 DEF Prepare
<1>2. CASE PrepareFails
  <2>1. leftover' \subseteq {"pending", "store"}
    BY <1>2 DEF PrepareFails
  <2> QED
    BY <1>2, <2>1 DEF PrepareFails
<1>3. CASE Retry \/ GiveUp \/ Kill
  <2>1. CASE Retry
    BY <2>1 DEF Retry
  <2>2. CASE GiveUp
    BY <2>2 DEF GiveUp
  <2>3. CASE Kill
    BY <2>3 DEF Kill
  <2> QED
    BY <1>3, <2>1, <2>2, <2>3
<1>4. CASE Send
  <2>1. pending \in Attempt
    BY <1>4 DEF Send
  <2> QED
    BY <1>4, <2>1 DEF Send
<1>5. CASE SaveFails
  <2>1. leftover' \subseteq {"pending", "store"}
    BY <1>5 DEF SaveFails
  <2>2. TypeOK'
    BY <1>5, <2>1 DEF SaveFails
  <2>3. LedgerInv'
    BY <1>5 DEF SaveFails
  <2> QED
    BY <2>2, <2>3
<1>6. CASE Save
  BY <1>6 DEF Save
<1>7. CASE DeletePending
  <2>1. pending \in settled
    BY <1>7 DEF DeletePending
  <2>2. TypeOK' /\ TokenInv' /\ KeyInv' /\ RotationInv'
    BY <1>7 DEF DeletePending
  <2>3. RequestInv'
    BY <1>7, <2>1 DEF DeletePending
  <2> QED
    BY <2>2, <2>3
<1>8. CASE ResetPending
  <2>1. TypeOK' /\ TokenInv' /\ KeyInv' /\ RotationInv'
    BY <1>8 DEF ResetPending
  <2>2. RequestInv'
    BY <1>8 DEF ResetPending
  <2> QED
    BY <2>1, <2>2
<1> QED
  BY <1>1, <1>2, <1>3, <1>4, <1>5, <1>6, <1>7, <1>8

LEMMA StutterStep == Inv /\ UNCHANGED vars => Inv'
BY DEF vars, Inv, TypeOK, LedgerInv, TokenInv, RequestInv, KeyInv, RotationInv, Owned,
       adminVars, processVars, fileVars, clientVars, serverVars

LEMMA InvStep == Inv /\ [Next]_vars => Inv'
BY AdminStep, CompletionStep, AnswerStep, ToolStep, StutterStep DEF Next, Inv, TypeOK

LEMMA Invariant == Spec => []Inv
BY InvInit, InvStep, PTL DEF Spec

\* The state of tokens, credentials, files and the tool stays in its types.
THEOREM EnrollmentTypes == Spec => []TypeOK
BY Invariant, PTL DEF Inv

\* A token has a record only when used, a request was written down first, and
\* a key is the credential of the version it is recorded with.
THEOREM EnrollmentLedger == Spec => []LedgerInv
BY Invariant, PTL DEF Inv

-----------------------------------------------------------------------------
(* Retries.                                                                *)

\* A record of a token is written once.
LEMMA RecordsStay ==
  ASSUME Inv, [Next]_vars, NEW t \in Token, redeemed[t] # Nothing
  PROVE  redeemed'[t] = redeemed[t]
<1>1. ASSUME NEW a \in Attempt, Redeem(a) PROVE redeemed'[t] = redeemed[t]
  <2>1. enrollment[t] = "used"
    BY DEF Inv, LedgerInv, TokenInv
  <2>2. t # tokenOf[a]
    BY <1>1, <2>1 DEF Redeem, Redeemable
  <2> QED
    BY <1>1, <2>2 DEF Redeem, Inv, TypeOK
<1>2. CASE UNCHANGED redeemed
  BY <1>2
<1> QED
  BY <1>1, <1>2
     DEF Next, vars, Complete, serverVars, adminVars, clientVars, processVars, fileVars,
         Create, Expire, RevokeAll, RotateRead, RotateRevoke, RotateSave, Conflict,
         Replay, Refuse, Register, Answer, ServerRestart, Prepare, PrepareFails, Retry,
         Send, GiveUp, Save, SaveFails, DeletePending, ResetPending, Kill

\* What Recorded says in the next state.
RecordedNext(a, v) == \E t \in Token : redeemed'[t] = [attempt |-> a, version |-> v]

LEMMA RecordedStays ==
  ASSUME Inv, [Next]_vars, NEW a \in Attempt, NEW v \in 0..MaxVersion, Recorded(a, v)
  PROVE  RecordedNext(a, v)
<1>1. PICK t \in Token : redeemed[t] = [attempt |-> a, version |-> v]
  BY DEF Recorded
<1>2. redeemed[t] # Nothing
  BY <1>1, EnrollmentAssumption DEF Nothing
<1> QED
  BY <1>1, <1>2, RecordsStay DEF RecordedNext

SameInv == SameAttemptSameVersion /\ (store # Nothing => store.attempt \in Attempt)

LEMMA SameStep ==
  ASSUME Inv, SameInv, [Next]_vars
  PROVE  SameInv'
<1> USE DEF SameInv, SameAttemptSameVersion, adminVars, processVars, fileVars,
            clientVars, serverVars
<1>1. /\ \A m \in handling : m.attempt \in Attempt /\ m.version \in 0..MaxVersion
      /\ pc # "idle" => pending \in Attempt
      /\ answer \in 0..MaxVersion
      /\ store.version \in 0..MaxVersion
  BY DEF Inv, TypeOK, LedgerInv, RequestInv, Claim, Version
<1>2. \A m \in handling : RecordedNext(m.attempt, m.version)
  BY <1>1, RecordedStays
<1>3. pc \in {"answered", "stored"} => RecordedNext(pending, answer)
  BY <1>1, RecordedStays
<1>4. store # Nothing => RecordedNext(store.attempt, store.version)
  BY <1>1, RecordedStays
<1> HIDE DEF SameInv, SameAttemptSameVersion
<1> DEFINE Handled == \A m \in handling' : RecordedNext(m.attempt, m.version)
           Answered == pc' \in {"answered", "stored"} => RecordedNext(pending', answer')
           Stored == store' # Nothing =>
                       /\ RecordedNext(store'.attempt, store'.version)
                       /\ store'.attempt \in Attempt
<1>5. SUFFICES Handled /\ Answered /\ Stored
  BY DEF SameInv, SameAttemptSameVersion, Recorded, RecordedNext, Nothing
<1>6. store # Nothing => store.attempt \in Attempt
  BY DEF SameInv
<1>7. ASSUME NEW a \in Attempt, Redeem(a) PROVE Handled
  <2>1. PICK c \in 0..MaxVersion :
          /\ redeemed' = [redeemed EXCEPT ![tokenOf[a]] = [attempt |-> a, version |-> c + 1]]
          /\ handling' = handling \union {[attempt |-> a, version |-> c + 1]}
    BY <1>7 DEF Redeem
  <2>2. tokenOf[a] \in Token
    BY <1>7 DEF Redeem, Redeemable, Inv, LedgerInv, RequestInv
  <2>3. RecordedNext(a, c + 1)
    BY <2>1, <2>2 DEF RecordedNext, Inv, TypeOK
  <2> QED
    BY <2>1, <2>3, <1>2
<1>8. ASSUME NEW a \in Attempt, Replay(a) PROVE Handled
  <2>1. tokenOf[a] \in Token
    BY <1>8 DEF Replay, Inv, LedgerInv, RequestInv
  <2>2. redeemed[tokenOf[a]] \in Claim /\ redeemed[tokenOf[a]].attempt = a
    BY <1>8, <2>1 DEF Replay, Inv, TypeOK
  <2>3. RecordedNext(redeemed[tokenOf[a]].attempt, redeemed[tokenOf[a]].version)
    BY <1>8, <2>1, <2>2 DEF RecordedNext, Replay, Claim
  <2> QED
    BY <1>8, <2>3, <1>2 DEF Replay
<1>9. ASSUME handling' \subseteq handling PROVE Handled
  BY <1>9, <1>2
<1>10. ASSUME NEW m \in handling, Answer(m) PROVE Handled /\ Answered
  BY <1>10, <1>2 DEF Answer, fileVars
<1>11. ASSUME Save PROVE Answered /\ Stored
  BY <1>11, <1>1, <1>3 DEF Save
<1>12. ASSUME pc' \notin {"answered", "stored"} \/ UNCHANGED <<pc, pending, answer>>
       PROVE  Answered
  BY <1>12, <1>3
<1>13. ASSUME UNCHANGED store PROVE Stored
  BY <1>13, <1>4, <1>6
<1>14. Handled
  <2>1. ASSUME NEW a \in Attempt, Conflict(a) \/ Refuse(a) PROVE handling' = handling
    BY <2>1 DEF Conflict, Refuse, serverVars
  <2>2. ASSUME NEW m \in handling, Register(m) PROVE handling' \subseteq handling
    BY <2>2 DEF Register
  <2> QED
    BY <1>7, <1>8, <1>9, <1>10, <2>1, <2>2
       DEF Next, vars, serverVars, clientVars, Complete, Create, Expire, RevokeAll,
           RotateRead, RotateRevoke, RotateSave, ServerRestart, Prepare, PrepareFails,
           Retry, Send, GiveUp, Save, SaveFails, DeletePending, ResetPending, Kill
<1>15. Answered
  <2>1. ASSUME NEW a \in Attempt, Complete(a) PROVE UNCHANGED <<pc, pending, answer>>
    BY <2>1 DEF Complete, Redeem, Conflict, Replay, Refuse, clientVars, processVars, fileVars
  <2>2. ASSUME NEW m \in handling, Register(m) PROVE UNCHANGED <<pc, pending, answer>>
    BY <2>2 DEF Register, clientVars, processVars, fileVars
  <2> QED
    BY <1>10, <1>11, <1>12, <2>1, <2>2
       DEF Next, vars, clientVars, processVars, fileVars, Create, Expire, RevokeAll,
           RotateRead, RotateRevoke, RotateSave, ServerRestart, Prepare, PrepareFails,
           Retry, Send, GiveUp, SaveFails, DeletePending, ResetPending, Kill
<1>16. Stored
  <2>1. ASSUME NEW a \in Attempt, Complete(a) PROVE UNCHANGED store
    BY <2>1 DEF Complete, Redeem, Conflict, Replay, Refuse, clientVars, fileVars
  <2>2. ASSUME NEW m \in handling, Register(m) \/ Answer(m) PROVE UNCHANGED store
    BY <2>2 DEF Register, Answer, clientVars, fileVars
  <2> QED
    BY <1>11, <1>13, <2>1, <2>2
       DEF Next, vars, clientVars, fileVars, Create, Expire, RevokeAll,
           RotateRead, RotateRevoke, RotateSave, ServerRestart, Prepare, PrepareFails,
           Retry, Send, GiveUp, SaveFails, DeletePending, ResetPending, Kill
<1> QED
  BY <1>14, <1>15, <1>16

LEMMA SameInvariant == Spec => []SameInv
<1>1. Init => SameInv
  BY DEF Init, SameInv, SameAttemptSameVersion
<1>2. Inv /\ SameInv /\ [Next]_vars => SameInv'
  BY SameStep
<1> QED
  BY <1>1, <1>2, Invariant, PTL DEF Spec

\* Every answer to an attempt, and the stored credential, name the version
\* that the attempt redeemed.
THEOREM RetriesAgree == Spec => []SameAttemptSameVersion
BY SameInvariant, PTL DEF SameInv

LEMMA KeptStep ==
  ASSUME Inv, RecordedAttemptIsKept, [Next]_vars
  PROVE  RecordedAttemptIsKept'
<1> USE DEF RecordedAttemptIsKept
<1>1. ASSUME NEW a \in Attempt, Redeem(a) PROVE RecordedAttemptIsKept'
  <2>1. tokenOf[a] \in Token /\ (a = pending \/ a \in settled)
    BY <1>1 DEF Redeem, Redeemable, Inv, LedgerInv, RequestInv
  <2>2. PICK c \in 0..MaxVersion :
          redeemed' = [redeemed EXCEPT ![tokenOf[a]] = [attempt |-> a, version |-> c + 1]]
    BY <1>1 DEF Redeem
  <2> QED
    BY <1>1, <2>1, <2>2 DEF Redeem, clientVars, fileVars, Inv, TypeOK
<1>2. CASE UNCHANGED <<redeemed, pending>> /\ settled \subseteq settled'
  BY <1>2
<1>3. CASE /\ UNCHANGED redeemed /\ settled \subseteq settled'
           /\ pending \in settled' \union {NoAttempt}
  BY <1>3
<1>4. ASSUME NEW t \in Token, NEW a \in Attempt, Prepare(t, a)
      PROVE  RecordedAttemptIsKept'
  BY <1>4, <1>3 DEF Prepare, serverVars
<1>5. CASE DeletePending \/ ResetPending
  BY <1>5, <1>3 DEF DeletePending, ResetPending, serverVars, Inv, LedgerInv, RequestInv
<1>6. ASSUME NEW m \in handling, Register(m) \/ Answer(m)
      PROVE  UNCHANGED <<redeemed, pending, settled>>
  BY <1>6 DEF Register, Answer, clientVars, fileVars
<1>7. ASSUME NEW a \in Attempt, Conflict(a) \/ Replay(a) \/ Refuse(a)
      PROVE  UNCHANGED <<redeemed, pending, settled>>
  BY <1>7 DEF Conflict, Replay, Refuse, serverVars, clientVars, fileVars
<1> QED
  BY <1>1, <1>2, <1>4, <1>5, <1>6, <1>7
     DEF Next, vars, Complete, serverVars, clientVars, fileVars, Create, Expire,
         RevokeAll, RotateRead, RotateRevoke, RotateSave, ServerRestart, PrepareFails,
         Retry, Send, GiveUp, Save, SaveFails, Kill

\* The key of an attempt that redeemed its token is never lost.
THEOREM KeysAreKept == Spec => []RecordedAttemptIsKept
<1>1. Init => RecordedAttemptIsKept
  BY DEF Init, RecordedAttemptIsKept, Nothing
<1>2. Inv /\ RecordedAttemptIsKept /\ [Next]_vars => RecordedAttemptIsKept'
  BY KeptStep
<1> QED
  BY <1>1, <1>2, Invariant, PTL DEF Spec

-----------------------------------------------------------------------------
(* Credentials.                                                            *)

\* The steps that write credential rows.
WritesCreds ==
  \/ RevokeAll
  \/ \E r \in Rotation : RotateRevoke(r) \/ RotateSave(r)
  \/ \E a \in Attempt : Redeem(a) \/ Conflict(a)

LEMMA CredsStay == [Next]_vars => WritesCreds \/ UNCHANGED creds
BY DEF WritesCreds, Next, vars, Complete, serverVars, adminVars, Create, Expire,
       RotateRead, Replay, Refuse, Register, Answer, ServerRestart, Prepare,
       PrepareFails, Retry, Send, GiveUp, Save, SaveFails, DeletePending,
       ResetPending, Kill

\* A revoked key does not become active again: a key has one version, and a
\* completion or a rotation, however many overlap, activates a key that has none.
THEOREM RevocationIsFinal == Spec => RevokedKeyStaysRevoked
<1> DEFINE Final == \A v, w \in Version :
                      creds[v].key # NoAttempt /\ ~creds[v].active =>
                        ~(creds'[w].key = creds[v].key /\ creds'[w].active)
<1>1. Inv /\ [Next]_vars => [Final]_vars
  <2> SUFFICES ASSUME Inv, [Next]_vars, NEW v \in Version, NEW w \in Version,
                      creds[v].key # NoAttempt, ~creds[v].active
               PROVE  ~(creds'[w].key = creds[v].key /\ creds'[w].active)
    OBVIOUS
  <2>1. creds \in [Version -> [key : Key, active : BOOLEAN]]
    BY DEF Inv, TypeOK
  <2>2. creds[w].key = creds[v].key => v = w
    <3>1. Owned(creds[v].key, v)
      BY DEF Inv, LedgerInv, KeyInv
    <3>2. creds[w].key = creds[v].key => Owned(creds[v].key, w)
      BY DEF Inv, LedgerInv, KeyInv
    <3> QED
      BY <3>1, <3>2, EnrollmentAssumption DEF Owned
  <2>3. CASE creds'[w].active => creds[w].active /\ creds'[w].key = creds[w].key
    BY <2>2, <2>3
  <2>4. CASE RevokeAll
    BY <2>4, <2>1 DEF RevokeAll, Revoked
  <2>5. ASSUME NEW r \in Rotation, RotateRevoke(r)
        PROVE  ~(creds'[w].key = creds[v].key /\ creds'[w].active)
    BY <2>5, <2>1, <2>3 DEF RotateRevoke
  <2>6. ASSUME NEW r \in Rotation, RotateSave(r)
        PROVE  ~(creds'[w].key = creds[v].key /\ creds'[w].active)
    <3>1. creds[v].key # r
      BY <2>6, EnrollmentAssumption
      DEF RotateSave, Inv, LedgerInv, KeyInv, Owned
    <3> QED
      BY <2>6, <2>1, <2>3, <3>1 DEF RotateSave
  <2>7. ASSUME NEW a \in Attempt, Redeem(a)
        PROVE  ~(creds'[w].key = creds[v].key /\ creds'[w].active)
    <3>1. creds[v].key # a
      <4>1. enrollment[tokenOf[a]] # "used"
        BY <2>7 DEF Redeem, Redeemable
      <4>2. Owned(creds[v].key, v)
        BY DEF Inv, LedgerInv, KeyInv
      <4>3. ASSUME creds[v].key = a PROVE redeemed[tokenOf[a]] # Nothing
        BY <4>2, <4>3, EnrollmentAssumption DEF Owned, Nothing
      <4> QED
        BY <4>1, <4>2, <4>3, EnrollmentAssumption DEF Inv, LedgerInv, TokenInv, Owned
    <3> QED
      BY <2>7, <2>1, <2>3, <3>1 DEF Redeem, Revoked
  <2>8. ASSUME NEW a \in Attempt, Conflict(a)
        PROVE  ~(creds'[w].key = creds[v].key /\ creds'[w].active)
    BY <2>8, <2>1, <2>3 DEF Conflict, Revoked
  <2> QED
    BY <2>3, <2>4, <2>5, <2>6, <2>7, <2>8, CredsStay DEF WritesCreds
<1> QED
  BY <1>1, Invariant, PTL DEF Spec, RevokedKeyStaysRevoked

\* What an administrator did is remembered.
LEMMA DoneGrows == [Next]_vars => done \subseteq done'
BY DEF Next, vars, Complete, serverVars, adminVars, clientVars, processVars, fileVars,
       Create, Expire, RevokeAll, RotateRead, RotateRevoke, RotateSave, Redeem, Conflict,
       Replay, Refuse, Register, Answer, ServerRestart, Prepare, PrepareFails, Retry,
       Send, GiveUp, Save, SaveFails, DeletePending, ResetPending, Kill

\* Before the first rotation a worker has one active credential at most.
THEOREM OneActive == Spec => []OneActiveCredential
<1>1. Init => OneActiveCredential
  BY DEF Init, OneActiveCredential
<1>2. Inv /\ OneActiveCredential /\ [Next]_vars => OneActiveCredential'
  <2> SUFFICES ASSUME Inv, OneActiveCredential, [Next]_vars, "rotate" \notin done',
                      NEW v \in Version, NEW w \in Version,
                      creds'[v].active, creds'[w].active
               PROVE  v = w
    BY DEF OneActiveCredential
  <2> "rotate" \notin done
    BY DoneGrows
  <2>1. creds \in [Version -> [key : Key, active : BOOLEAN]]
    BY DEF Inv, TypeOK
  <2>2. creds[v].active /\ creds[w].active => v = w
    BY DEF OneActiveCredential
  <2>3. \A r \in Rotation : ~RotateRevoke(r) /\ ~RotateSave(r)
    BY DEF RotateRevoke, RotateSave, Inv, LedgerInv, RotationInv
  <2>4. CASE RevokeAll
    BY <2>4, <2>1 DEF RevokeAll, Revoked
  <2>5. ASSUME NEW a \in Attempt, Redeem(a) PROVE v = w
    <3>1. PICK c \in 0..MaxVersion :
            /\ IsCurrent(c)
            /\ creds' = [x \in Version |->
                           IF x = c + 1 THEN [key |-> a, active |-> TRUE]
                           ELSE IF x = c THEN Revoked(creds[x])
                           ELSE creds[x]]
      BY <2>5 DEF Redeem
    <3>2. ASSUME NEW x \in Version, creds'[x].active PROVE x = c + 1
      <4>1. CASE x # c /\ x # c + 1
        <5>1. creds[x].active
          BY <3>1, <3>2, <4>1
        <5>2. c \in Version /\ creds[c].active
          BY <3>1, <5>1, EnrollmentAssumption DEF IsCurrent, Version
        <5> QED
          BY <4>1, <5>1, <5>2 DEF OneActiveCredential
      <4>2. CASE x = c
        BY <3>1, <3>2, <4>2 DEF Revoked, Version
      <4> QED
        BY <4>1, <4>2
    <3> QED
      BY <3>2
  <2>6. ASSUME NEW a \in Attempt, Conflict(a) PROVE v = w
    BY <2>6, <2>1, <2>2 DEF Conflict, Revoked
  <2>7. CASE UNCHANGED creds
    BY <2>7, <2>2
  <2> QED
    BY <2>3, <2>4, <2>5, <2>6, <2>7, CredsStay DEF WritesCreds
<1> QED
  BY <1>1, <1>2, Invariant, PTL DEF Spec

-----------------------------------------------------------------------------
(* Before an administrator revokes or rotates, the newest version is        *)
(* active.                                                                 *)

LEMMA QuietAdmin ==
  Inv /\ done = {} /\ done' = {} =>
    ~RevokeAll /\ (\A r \in Rotation : ~RotateRevoke(r) /\ ~RotateSave(r))
BY DEF RevokeAll, RotateRevoke, RotateSave, Inv, LedgerInv, RotationInv

\* A completion finds the row of the next version free.
LEMMA NoConflict ==
  ASSUME Inv, NewestInv, done = {}, NEW a \in Attempt
  PROVE  ~Conflict(a)
<1> SUFFICES ASSUME NEW c \in 0..MaxVersion, IsCurrent(c), c < MaxVersion,
                    creds[c + 1].key # NoAttempt
             PROVE  FALSE
  BY DEF Conflict
<1>1. c + 1 \in Version
  BY EnrollmentAssumption DEF Version
<1>2. PICK w \in Version : w >= c + 1 /\ creds[w].active
  BY <1>1 DEF NewestInv
<1>3. w <= c
  BY <1>2 DEF IsCurrent
<1> QED
  BY <1>2, <1>3, EnrollmentAssumption DEF Version

LEMMA NewestRedeem ==
  ASSUME Inv, NewestInv, done = {}, NEW a \in Attempt, Redeem(a)
  PROVE  NewestInv'
<1>1. PICK c \in 0..MaxVersion :
        /\ IsCurrent(c) /\ c < MaxVersion /\ creds[c + 1].key = NoAttempt
        /\ creds' = [x \in Version |->
                       IF x = c + 1 THEN [key |-> a, active |-> TRUE]
                       ELSE IF x = c THEN Revoked(creds[x])
                       ELSE creds[x]]
        /\ redeemed' = [redeemed EXCEPT ![tokenOf[a]] = [attempt |-> a, version |-> c + 1]]
  BY DEF Redeem
<1>2. tokenOf[a] \in Token /\ redeemed \in [Token -> Claim]
  BY DEF Redeem, Redeemable, Inv, TypeOK, LedgerInv, RequestInv
<1>3. c + 1 \in Version /\ creds'[c + 1] = [key |-> a, active |-> TRUE]
  BY <1>1, EnrollmentAssumption DEF Version
<1>4. redeemed'[tokenOf[a]] = [attempt |-> a, version |-> c + 1]
  BY <1>1, <1>2
<1>5. ASSUME NEW v \in Version, creds'[v].key # NoAttempt
      PROVE  \E w \in Version : w >= v /\ creds'[w].active
  <2>1. v <= c + 1
    <3>1. CASE v = c + 1
      BY <3>1, <1>1
    <3>2. CASE v # c + 1
      <4>1. creds[v].key # NoAttempt
        BY <1>1, <1>5, <3>2 DEF Revoked
      <4>2. PICK w \in Version : w >= v /\ creds[w].active
        BY <4>1 DEF NewestInv
      <4>3. w <= c
        BY <1>1, <4>2 DEF IsCurrent
      <4> QED
        BY <4>2, <4>3 DEF Version
    <3> QED
      BY <3>1, <3>2
  <2> QED
    BY <2>1, <1>3
<1>6. ASSUME NEW t \in Token, redeemed'[t] # Nothing
      PROVE  /\ creds'[redeemed'[t].version].key = redeemed'[t].attempt
             /\ \/ creds'[redeemed'[t].version].active
                \/ \E u \in Token : redeemed'[u].version > redeemed'[t].version
  <2>1. CASE t = tokenOf[a]
    BY <2>1, <1>3, <1>4
  <2>2. CASE t # tokenOf[a]
    <3>1. redeemed'[t] = redeemed[t] /\ redeemed[t] # Nothing
      BY <1>1, <1>2, <1>6, <2>2
    <3>2. redeemed[t] \in [attempt : Attempt, version : Version]
      BY <3>1 DEF Inv, LedgerInv, TokenInv
    <3>3. /\ creds[redeemed[t].version].key = redeemed[t].attempt
          /\ \/ creds[redeemed[t].version].active
             \/ \E u \in Token : redeemed[u].version > redeemed[t].version
      BY <3>1 DEF NewestInv
    <3>4. redeemed[t].version # c + 1
      BY <3>2, <3>3, <1>1, EnrollmentAssumption
    <3>5. creds'[redeemed[t].version].key = redeemed[t].attempt
      BY <3>2, <3>3, <3>4, <1>1 DEF Revoked
    <3>6. ASSUME creds[redeemed[t].version].active
          PROVE  redeemed'[tokenOf[a]].version > redeemed'[t].version
      BY <3>1, <3>2, <3>6, <1>1, <1>4 DEF IsCurrent, Version
    <3>7. ASSUME NEW u \in Token, redeemed[u].version > redeemed[t].version
          PROVE  redeemed'[u].version > redeemed'[t].version
      <4>1. redeemed[tokenOf[a]] = Nothing
        BY DEF Redeem, Redeemable, Inv, LedgerInv, TokenInv, RequestInv
      <4>2. u # tokenOf[a]
        BY <4>1, <3>2, <3>7 DEF Nothing, Version
      <4> QED
        BY <4>2, <3>1, <3>7, <1>1, <1>2
    <3> QED
      BY <3>1, <3>3, <3>5, <3>6, <3>7, <1>2
  <2> QED
    BY <2>1, <2>2
<1>7. UNCHANGED <<pc, store, known>>
  BY DEF Redeem, clientVars, processVars, fileVars
<1> QED
  BY <1>5, <1>6, <1>7 DEF NewestInv

LEMMA NewestStep ==
  ASSUME Inv, NewestInv, [Next]_vars
  PROVE  NewestInv'
<1> SUFFICES ASSUME done' = {} PROVE NewestInv'
  BY DEF NewestInv
<1> done = {}
  BY DoneGrows
<1>1. ASSUME UNCHANGED <<creds, redeemed>>,
             known => known',
             pc' \in {"answered", "stored"} \/ store' # Nothing => known'
      PROVE  NewestInv'
  BY <1>1 DEF NewestInv
<1>2. pc \in {"answered", "stored"} \/ store # Nothing => known
  BY DEF NewestInv
<1>3. ASSUME NEW a \in Attempt, Complete(a) PROVE NewestInv'
  <2>1. CASE Replay(a) \/ Refuse(a)
    BY <2>1, <1>1, <1>2
       DEF Replay, Refuse, serverVars, adminVars, clientVars, processVars, fileVars
  <2> QED
    BY <2>1, <1>3, NewestRedeem, NoConflict DEF Complete
<1>4. ASSUME NEW m \in handling, Register(m) \/ Answer(m) PROVE NewestInv'
  BY <1>4, <1>1 DEF Register, Answer
<1>5. ASSUME NEW t \in Token, NEW a \in Attempt, Prepare(t, a) PROVE NewestInv'
  BY <1>5, <1>1, <1>2 DEF Prepare, serverVars, adminVars
<1>6. CASE Save \/ SaveFails \/ DeletePending \/ ResetPending \/ PrepareFails
  BY <1>6, <1>1, <1>2
     DEF Save, SaveFails, DeletePending, ResetPending, PrepareFails, serverVars,
         adminVars, processVars
<1>7. CASE Retry \/ Send \/ GiveUp \/ Kill
  BY <1>7, <1>1, <1>2 DEF Retry, Send, GiveUp, Kill, serverVars, adminVars, fileVars
<1>8. CASE (\E r \in Rotation : RotateRead(r)) \/ ServerRestart
  BY <1>8, <1>1, <1>2 DEF RotateRead, ServerRestart, clientVars, processVars, fileVars
<1>9. ASSUME NEW t \in Token, Create(t) \/ Expire(t) PROVE NewestInv'
  BY <1>9, <1>1, <1>2 DEF Create, Expire, adminVars, clientVars, processVars, fileVars
<1>10. CASE UNCHANGED vars
  BY <1>10, <1>1, <1>2
     DEF vars, serverVars, adminVars, clientVars, processVars, fileVars
<1> QED
  BY <1>3, <1>4, <1>5, <1>6, <1>7, <1>8, <1>9, <1>10, QuietAdmin DEF Next

\* Before a revocation or rotation the newest version is the active one.
THEOREM NewestIsActive == Spec => []NewestInv
<1>1. Init => NewestInv
  BY DEF Init, NewestInv
<1>2. Inv /\ NewestInv /\ [Next]_vars => NewestInv'
  BY NewestStep
<1> QED
  BY <1>1, <1>2, Invariant, PTL DEF Spec

\* Before a revocation or rotation, the stored credential authenticates the
\* worker until a later enrollment takes over.
THEOREM StoredWorks == Spec => []StoredCredentialWorks
<1>1. Inv /\ SameInv /\ NewestInv => StoredCredentialWorks
  <2> SUFFICES ASSUME Inv, SameInv, NewestInv, done = {}, store # Nothing
               PROVE  /\ known
                      /\ creds[store.version].key = store.attempt
                      /\ \/ creds[store.version].active
                         \/ \E t \in Token : redeemed[t].version > store.version
    BY DEF StoredCredentialWorks
  <2>1. PICK t \in Token : redeemed[t] = [attempt |-> store.attempt, version |-> store.version]
    BY DEF SameInv, SameAttemptSameVersion, Recorded
  <2>2. redeemed[t] # Nothing
    BY <2>1, EnrollmentAssumption DEF SameInv, Nothing
  <2> QED
    BY <2>1, <2>2 DEF NewestInv
<1> QED
  BY <1>1, Invariant, SameInvariant, NewestIsActive, PTL

\* Before a revocation or rotation a token that is used up has a recorded
\* attempt, which can be answered again: what the documentation says of retries
\* is so until an administrator interferes (_complete_v2_sqlite).
THEOREM UsedTokensAreRecorded == Spec => [](done = {} => UsedTokenHasAttempt)
<1> DEFINE Kept == done = {} => UsedTokenHasAttempt
<1>1. Init => Kept
  BY DEF Init, UsedTokenHasAttempt
<1>2. ASSUME Inv, NewestInv, Kept, [Next]_vars
      PROVE  Kept'
  <2> SUFFICES ASSUME done' = {}, NEW t \in Token, enrollment'[t] = "used"
               PROVE  redeemed'[t].attempt # NoAttempt
    BY DEF UsedTokenHasAttempt
  <2>1. done = {}
    BY <1>2, DoneGrows
  <2>2. enrollment[t] = "used" => redeemed[t].attempt # NoAttempt
    BY <1>2, <2>1 DEF UsedTokenHasAttempt
  <2>3. ASSUME NEW a \in Attempt, Redeem(a)
        PROVE  redeemed'[t].attempt # NoAttempt
    BY <1>2, <2>2, <2>3, EnrollmentAssumption
    DEF Redeem, Inv, LedgerInv, TypeOK, RequestInv
  <2>4. ASSUME NEW a \in Attempt, Conflict(a)
        PROVE  FALSE
    BY <1>2, <2>1, <2>4, NoConflict
  <2>5. ASSUME NEW a \in Attempt, Replay(a) \/ Refuse(a)
        PROVE  UNCHANGED <<enrollment, redeemed>>
    BY <2>5 DEF Replay, Refuse, serverVars
  <2>6. ASSUME NEW u \in Token, Create(u) \/ Expire(u)
        PROVE  redeemed' = redeemed /\ enrollment[t] = "used"
    BY <1>2, <2>6 DEF Create, Expire, Inv, TypeOK
  <2>7. ASSUME NEW m \in handling, Register(m) \/ Answer(m)
        PROVE  UNCHANGED <<enrollment, redeemed>>
    BY <2>7 DEF Register, Answer
  <2>8. ASSUME NEW u \in Token, NEW a \in Attempt, Prepare(u, a)
        PROVE  UNCHANGED <<enrollment, redeemed>>
    BY <2>8 DEF Prepare, serverVars
  <2>9. CASE \/ RevokeAll \/ ServerRestart
             \/ \E r \in Rotation : RotateRead(r) \/ RotateRevoke(r) \/ RotateSave(r)
    BY <2>2, <2>9 DEF RevokeAll, RotateRead, RotateRevoke, RotateSave, ServerRestart
  <2>10. CASE \/ PrepareFails \/ Retry \/ Send \/ GiveUp \/ Save \/ SaveFails
              \/ DeletePending \/ ResetPending \/ Kill \/ UNCHANGED vars
    BY <2>2, <2>10
    DEF PrepareFails, Retry, Send, GiveUp, Save, SaveFails, DeletePending,
        ResetPending, Kill, vars, serverVars
  <2>11. QED
    BY <1>2, <2>2, <2>3, <2>4, <2>5, <2>6, <2>7, <2>8, <2>9, <2>10
    DEF Next, Complete
<1>3. QED
  BY <1>1, <1>2, Invariant, NewestIsActive, PTL DEF Spec
=============================================================================
