------------------------- MODULE ControlPlaneProofs -------------------------
(***************************************************************************)
(* Proofs about the services of the Control Plane: Scheduler, for a day of *)
(* any length, a clock change at any time and of any size, every schedule  *)
(* and whatever the loop waits; UserAccounts, for every set of users,      *)
(* passwords and handlers; JobEvents, for every set of publishing threads  *)
(* and streams, every queue size and every number of changes;              *)
(* WorkerRegistry, for every set of callers and every age at which a       *)
(* worker counts as offline; and SnapshotCatalog: that no sync shows less  *)
(* than what was reported before its payload was built, in every           *)
(* deployment, and that without Redis and with a worker that waits for its *)
(* answers the catalogue is complete whenever nothing is under way.  At    *)
(* the end, what holds of them side by side.                               *)
(***************************************************************************)
EXTENDS MCServices, SetInduction, WellFoundedInduction, TLAPS

-----------------------------------------------------------------------------
(* Scheduler: readings and earliest instants.                              *)

LEMMA WallType ==
  ASSUME day \in {"plain", "longer", "shorter"}, NEW i \in Instant
  PROVE  Wall(i) \in Reading
  BY SchedulerAssumption DEF Wall, WallOn, Instant, Reading

\* A set of numbers that is not empty has a least element.
LEMMA EarliestExists ==
  ASSUME NEW S \in SUBSET Nat, S # {}
  PROVE  Earliest(S) \in S /\ \A y \in S : Earliest(S) <= y
<1> DEFINE R == OpToRel(<, Nat)
<1>1. IsWellFoundedOn(R, Nat)
  BY NatLessThanWellFounded, Zenon
<1>2. \E x \in S : \A y \in S : ~ (<<y, x>> \in R)
  <2> HIDE DEF R
  <2>1. QED
    BY <1>1, WFMin
<1>3. \A x, y \in Nat : <<y, x>> \in R <=> y < x
  BY DEF OpToRel
<1>4. \E x \in S : \A y \in S : x <= y
  <2>1. PICK x \in S : \A y \in S : ~ (<<y, x>> \in R)
    BY <1>2
  <2> HIDE DEF R
  <2>2. ASSUME NEW y \in S PROVE x <= y
    <3>1. x \in Nat /\ y \in Nat
      OBVIOUS
    <3>2. ~ (<<y, x>> \in R)
      BY <2>1
    <3>3. ~ (y < x)
      BY <1>3, <3>1, <3>2
    <3>4. QED
      BY <3>1, <3>3
  <2>3. QED
    BY <2>2
<1>5. QED
  BY <1>4 DEF Earliest

-----------------------------------------------------------------------------
(* Types, and what a run of the loop has to go by.                         *)

(* The checked reading is never behind the one of the last run, and a tick *)
(* that is about to dispatch does so for a later reading than that, which  *)
(* it has marked, and found no scheduled backup active.                    *)
Ahead ==
  /\ lastRun <= lastCheck
  /\ tick.at = "check" => lastCheck < Wall(tick.now)
  /\ tick.at = "dispatch" =>
       /\ lastRun < Wall(tick.now) /\ Wall(tick.now) <= lastCheck
       /\ "schedule" \notin backups

SchedulerInv == SchedulerTypeOK /\ Ahead

LEMMA MinuteType == SchedulerTypeOK => Minute \in Instant
  BY SchedulerAssumption DEF SchedulerTypeOK, Minute, Instant

LEMMA SchedulerInvInit == SchedulerInit => SchedulerInv
  BY SchedulerAssumption
  DEF SchedulerInit, SchedulerInv, SchedulerTypeOK, Ahead, Asleep, Never, Reading

LEMMA TickBeginsKeeps ==
  ASSUME SchedulerInv, TickBegins PROVE SchedulerInv'
<1> USE DEF SchedulerInv, SchedulerTypeOK
<1>1. CASE Due(Minute)
  <2>1. Wall(Minute) \in Reading /\ Minute \in Instant
    BY MinuteType, WallType
  <2>2. tick' = [at |-> "check", now |-> Minute]
    BY <1>1 DEF TickBegins
  <2>3. lastCheck < Wall(Minute)
    BY <1>1, <2>1 DEF Due, Reading, Never
  <2>4. Ahead'
    BY <2>2, <2>3 DEF TickBegins, Ahead, Wall
  <2>5. QED
    BY <2>1, <2>2, <2>4 DEF TickBegins
<1>2. CASE ~Due(Minute)
  <2>1. tick' = Resting /\ clock + interval \in Nat
    BY <1>2, SchedulerAssumption DEF TickBegins
  <2>2. QED
    BY <2>1 DEF TickBegins, Ahead, Asleep, Resting, Wall
<1>3. QED
  BY <1>1, <1>2

LEMMA TickChecksKeeps ==
  ASSUME SchedulerInv, TickChecks PROVE SchedulerInv'
<1> USE DEF SchedulerInv, SchedulerTypeOK
<1>1. /\ tick.now \in Instant /\ Wall(tick.now) \in Reading
      /\ lastRun <= lastCheck /\ lastCheck < Wall(tick.now)
      /\ lastRun \in Int /\ lastCheck \in Int
  BY WallType DEF TickChecks, Ahead, Reading, Never
<1>2. CASE /\ tick' = Resting
           /\ lastCheck' \in {lastCheck, Wall(tick.now)}
  <2>1. clock + interval \in Nat
    BY SchedulerAssumption
  <2>2. lastRun' <= lastCheck'
    BY <1>1, <1>2 DEF TickChecks, Reading
  <2>3. QED
    BY <1>1, <1>2, <2>1, <2>2 DEF TickChecks, Ahead, Asleep, Resting
<1>3. CASE /\ backups = {}
           /\ tick' = [tick EXCEPT !.at = "dispatch"]
           /\ lastCheck' = Wall(tick.now)
  <2>1. tick' = [at |-> "dispatch", now |-> tick.now]
    BY <1>3 DEF TickChecks
  <2>2. Wall(tick.now)' = Wall(tick.now)
    BY <2>1 DEF TickChecks, Wall
  <2>3. lastRun' <= lastCheck' /\ lastRun' < Wall(tick.now)
    BY <1>1, <1>3 DEF TickChecks, Reading
  <2>4. tick' \in [at : {"check", "dispatch"}, now : Instant]
    BY <1>1, <2>1
  <2>5. Ahead'
    BY <1>1, <1>3, <2>1, <2>2, <2>3 DEF TickChecks, Ahead, Reading
  <2>6. QED
    BY <1>1, <1>3, <2>4, <2>5 DEF TickChecks
<1>4. QED
  BY <1>2, <1>3 DEF TickChecks

LEMMA TickDispatchesKeeps ==
  ASSUME SchedulerInv, TickDispatches PROVE SchedulerInv'
<1> USE DEF SchedulerInv, SchedulerTypeOK
<1>1. /\ tick.now \in Instant /\ Wall(tick.now) \in Reading
      /\ lastRun < Wall(tick.now) /\ Wall(tick.now) <= lastCheck
  BY WallType DEF TickDispatches, Ahead
<1>2. tick' = Resting /\ clock + interval \in Nat
  BY SchedulerAssumption DEF TickDispatches
<1>3. lastRun' \in {lastRun, Wall(tick.now)} /\ UNCHANGED lastCheck
  BY DEF TickDispatches
<1>4. lastRun' <= lastCheck'
  BY <1>1, <1>3 DEF Ahead
<1>5. Ahead'
  BY <1>2, <1>4 DEF Ahead, Asleep, Resting
<1>6. tick' \in [at : {"asleep"}, wake : Nat]
  BY <1>2 DEF Asleep, Resting
<1>7. runs' \in Nat
  BY DEF TickDispatches
<1>8. backups' \subseteq {"schedule", "manual"}
  BY DEF TickDispatches
<1>9. UNCHANGED <<interval, clock, day, schedule>>
  BY DEF TickDispatches
<1>10. QED
  BY <1>1, <1>3, <1>5, <1>6, <1>7, <1>8, <1>9

LEMMA SchedulerInvStep ==
  ASSUME SchedulerInv, [SchedulerNext]_schedulerVars PROVE SchedulerInv'
<1> USE DEF SchedulerInv, SchedulerTypeOK
<1>1. CASE ClockRuns \/ ManualBackup \/ BackupEnds
  <2>1. UNCHANGED <<day, schedule, interval, tick, lastCheck, lastRun, runs>>
    BY <1>1 DEF ClockRuns, ManualBackup, BackupEnds
  <2>2. LastInstant * Pace \in Nat
    BY SchedulerAssumption
  <2>3. /\ clock' \in 0 .. (LastInstant * Pace)
        /\ backups' \subseteq {"schedule", "manual"}
        /\ "schedule" \in backups' => "schedule" \in backups
    <3>1. /\ clock' = clock \/ (clock < LastInstant * Pace /\ clock' = clock + 1)
          /\ backups' \in {backups, backups \union {"manual"}}
               \/ \E b \in backups : backups' = backups \ {b}
      BY <1>1 DEF ClockRuns, ManualBackup, BackupEnds
    <3>2. clock' \in 0 .. (LastInstant * Pace)
      BY <2>2, <3>1
    <3>3. QED
      BY <3>1, <3>2
  <2>4. QED
    BY <2>1, <2>3 DEF Ahead, Wall
<1>2. CASE SchedulerRestart
  <2>1. clock \in Nat
    BY SchedulerAssumption
  <2>2. QED
    BY <1>2, <2>1 DEF SchedulerRestart, Ahead, Asleep, Never
<1>3. CASE UNCHANGED schedulerVars
  BY <1>3 DEF schedulerVars, Ahead, Wall
<1>4. QED
  BY <1>1, <1>2, <1>3, TickBeginsKeeps, TickChecksKeeps, TickDispatchesKeeps
     DEF SchedulerNext

\* Every variable of the scheduler stays in its type.
THEOREM SchedulerTypeCorrect == SchedulerSpec => []SchedulerTypeOK
<1>1. SchedulerInv => SchedulerTypeOK
  BY DEF SchedulerInv
<1>2. QED
  BY <1>1, SchedulerInvInit, SchedulerInvStep, PTL DEF SchedulerSpec

-----------------------------------------------------------------------------
(* Runs.                                                                   *)

\* A reading of the wall clock starts at most one scheduled backup, and none
\* is dispatched on top of another, on a day of any length with a clock
\* change at any time.
THEOREM OneRunForEachReading == SchedulerSpec => OneRunPerReading
<1>1. SchedulerInv /\ [SchedulerNext]_schedulerVars
        => [runs' > runs
              => lastRun' > lastRun /\ "schedule" \notin backups]_schedulerVars
  <2> SUFFICES ASSUME SchedulerInv, SchedulerNext,
                      runs' > runs
               PROVE  lastRun' > lastRun /\ "schedule" \notin backups
    BY DEF schedulerVars
  <2>1. TickDispatches
    BY DEF SchedulerInv, SchedulerTypeOK, SchedulerNext, ClockRuns, TickBegins, TickChecks, ManualBackup,
           BackupEnds, SchedulerRestart
  <2>2. lastRun' = Wall(tick.now)
    BY <2>1 DEF TickDispatches, SchedulerInv, SchedulerTypeOK
  <2>3. tick.now \in Instant
    BY <2>1 DEF TickDispatches, SchedulerInv, SchedulerTypeOK
  <2>4. Wall(tick.now) \in Int /\ lastRun \in Int
    BY <2>3, WallType DEF SchedulerInv, SchedulerTypeOK, Reading, Never
  <2>5. QED
    BY <2>1, <2>2, <2>4 DEF TickDispatches, SchedulerInv, Ahead
<1>2. QED
  BY <1>1, SchedulerInvInit, SchedulerInvStep, PTL
     DEF SchedulerSpec, OneRunPerReading

-----------------------------------------------------------------------------
(* The preview.                                                            *)

\* The earliest instant of the earliest reading is the earliest match: an
\* instant that precedes it reads less only in the first pass through a
\* repeated hour, and then that very reading was there before.
LEMMA NextRunIsFirstMatch ==
  ASSUME SchedulerTypeOK, NEW base \in Instant, ~FirstPass(base)
  PROVE  NextRun(base) = FirstMatch(base)
<1> DEFINE W == {w \in schedule : Candidates(w, base) # {}}
           M == {i \in Instant : i > base /\ Wall(i) \in schedule}
<1>1. W = {} <=> M = {}
  BY DEF Candidates
<1>2. CASE M = {}
  BY <1>1, <1>2 DEF NextRun, FirstMatch
<1>3. CASE M # {}
  <2> DEFINE w == Earliest(W)
             c == Earliest(Candidates(w, base))
             m == Earliest(M)
  <2>1. w \in W /\ \A v \in W : w <= v
    <3>1. W \in SUBSET Nat
      <4>1. Reading \subseteq Nat /\ schedule \subseteq Reading
        BY SchedulerAssumption DEF SchedulerTypeOK, Reading
      <4>2. QED
        BY <4>1
    <3>2. QED
      BY <1>1, <1>3, <3>1, EarliestExists
  <2>2. c \in Candidates(w, base) /\ \A i \in Candidates(w, base) : c <= i
    <3>1. Candidates(w, base) \in SUBSET Nat /\ Candidates(w, base) # {}
      BY <2>1, SchedulerAssumption DEF Candidates, Instant
    <3>2. QED
      BY <3>1, EarliestExists
  <2>3. m \in M /\ \A i \in M : m <= i
    <3>1. M \in SUBSET Nat
      BY SchedulerAssumption DEF Instant
    <3>2. QED
      BY <1>3, <3>1, EarliestExists
  <2> HIDE DEF w, c, m
  <2>4. c \in M /\ c \in Instant /\ Wall(c) = w /\ w \in schedule
    BY <2>1, <2>2 DEF Candidates
  <2>5. Wall(m) \in W
    BY <2>3 DEF Candidates
  <2>6. m <= c /\ w <= Wall(m)
    BY <2>1, <2>3, <2>4, <2>5
  <2>7. \A i \in Instant : i > base /\ Wall(i) = w => c <= i
    BY <2>2 DEF Candidates
  <2>8. m \in Instant /\ m > base
    BY <2>3
  <2>9. day \in {"plain", "longer", "shorter"} /\ base \in Nat /\ m \in Nat
          /\ c \in Nat
    BY <2>4, <2>8, SchedulerAssumption DEF SchedulerTypeOK, Instant
  <2>10. c <= m
    <3>1. SUFFICES ASSUME m < c PROVE FALSE
      BY <2>9
    <3>2. CASE day = "plain"
      BY <2>4, <2>6, <2>9, <3>1, <3>2 DEF Wall, WallOn
    <3>3. CASE day = "shorter"
      BY <2>4, <2>6, <2>9, <3>1, <3>3, SchedulerAssumption DEF Wall, WallOn
    <3>4. CASE day = "longer"
      <4>1. m < ChangeAt + Shift /\ c >= ChangeAt + Shift
        BY <2>4, <2>6, <2>9, <3>1, <3>4, SchedulerAssumption DEF Wall, WallOn
      <4>2. w = c - Shift /\ Wall(m) = m /\ w \in Nat /\ w <= m /\ w >= ChangeAt
        BY <2>4, <2>6, <2>9, <3>4, <4>1, SchedulerAssumption DEF Wall, WallOn
      <4>3. base < ChangeAt
        BY <2>8, <2>9, <3>4, <4>1, SchedulerAssumption DEF FirstPass
      <4>4. w \in Instant /\ w > base /\ Wall(w) = w
        BY <2>8, <2>9, <3>4, <4>1, <4>2, <4>3, SchedulerAssumption
           DEF Wall, WallOn, Instant
      <4>5. QED
        BY <2>7, <2>9, <3>1, <4>2, <4>4
    <3>5. QED
      BY <2>9, <3>2, <3>3, <3>4
  <2>11. c = m
    BY <2>6, <2>9, <2>10
  <2>12. NextRun(base) = c
    BY <1>1, <1>3 DEF NextRun, w, c
  <2>13. FirstMatch(base) = m
    BY <1>3 DEF FirstMatch, m
  <2>14. QED
    BY <2>11, <2>12, <2>13
<1>4. QED
  BY <1>2, <1>3

\* What the preview announces is the next instant the schedule matches,
\* unless one asks during the first pass through a repeated hour.
THEOREM PreviewIsExact == SchedulerSpec => []PreviewExactOutsideFirstPass
<1>1. SchedulerTypeOK => PreviewExactOutsideFirstPass
  BY MinuteType, NextRunIsFirstMatch DEF PreviewExactOutsideFirstPass
<1>2. QED
  BY <1>1, SchedulerTypeCorrect, PTL

-----------------------------------------------------------------------------
(* UserAccounts: types.                                                    *)

File == {NoFile, Torn} \union [state : {"whole"}, list : Users]

UserRequest ==
  {Waiting}
    \union [at : {"read"}, user : User, account : Account]
    \union [at : {"set"}]
    \union [at : {"listed", "written", "saved"}, list : Users]
    \union [at : {"open"}, list : Users, file : {"temp", "users", "gone"}]

(* The type invariant, with the requests in full.                          *)
AccountTypes ==
  /\ users \in Users /\ answered \in Users
  /\ usersFile \in File /\ tempFile \in File
  /\ process \in {"down", "bootstrapping", "up"}
  /\ crowded \in BOOLEAN
  /\ request \in [Scribe -> UserRequest]

LEMMA FileMade ==
  ASSUME NEW list \in Users
  PROVE  /\ Whole(list) \in File
         /\ Readable(Whole(list)) /\ Whole(list).list = list
         /\ \A file \in File : Over(file, list) \subseteq File
         /\ Over(Torn, list) = {Whole(list)}
  BY DEF File, Whole, Readable, Over, Torn, NoFile

LEMMA FileRead ==
  ASSUME NEW file \in File
  PROVE  /\ Readable(file) => file.list \in Users /\ file = Whole(file.list)
         /\ Readable(file) => file # NoFile /\ file # Torn
  BY DEF File, Readable, Whole, NoFile, Torn

LEMMA RequestMade ==
  /\ Waiting \in UserRequest /\ [at |-> "set"] \in UserRequest
  /\ \A u \in User, a \in Account :
       [at |-> "read", user |-> u, account |-> a] \in UserRequest
  /\ \A list \in Users :
       /\ [at |-> "listed", list |-> list] \in UserRequest
       /\ [at |-> "written", list |-> list] \in UserRequest
       /\ [at |-> "saved", list |-> list] \in UserRequest
       /\ \A f \in {"temp", "users", "gone"} :
            [at |-> "open", list |-> list, file |-> f] \in UserRequest
  BY DEF UserRequest

LEMMA RequestRead ==
  ASSUME NEW r \in UserRequest
  PROVE  /\ r.at = "read" => r.user \in User /\ r.account \in Account
         /\ r.at \in {"listed", "open", "written", "saved"} => r.list \in Users
         /\ r.at = "open" =>
              /\ r.file \in {"temp", "users", "gone"}
              /\ r = [at |-> "open", list |-> r.list, file |-> r.file]
         /\ r.at = "waiting" <=> r = Waiting
  BY DEF UserRequest, Waiting

LEMMA AccountTypesInit == AccountsInit => AccountTypes
  BY DEF AccountsInit, AccountTypes, Users, File, UserRequest

LEMMA ProcessTypes ==
  ASSUME AccountTypes, LoadUsers \/ Bootstrap \/ BootstrapWritten \/ Die
  PROVE  AccountTypes'
<1>1. CASE LoadUsers
  BY <1>1, FileRead DEF LoadUsers, AccountTypes
<1>2. CASE Bootstrap
  <2>1. users' \in Users
    BY <1>2, AccountsAssumption DEF Bootstrap, Users, Account, Role
  <2>2. QED
    BY <1>2, <2>1 DEF Bootstrap, AccountTypes, File
<1>3. CASE BootstrapWritten
  BY <1>3, FileMade DEF BootstrapWritten, AccountTypes
<1>4. CASE Die
  BY <1>4, RequestMade DEF Die, AccountTypes
<1>5. QED
  BY <1>1, <1>2, <1>3, <1>4

LEMMA AccountTaken ==
  ASSUME AccountTypes, NEW h \in Scribe,
         ChangePassword(h) \/ CreateUser(h) \/ ResetPassword(h) \/ UpdateUser(h)
  PROVE  \E u \in User, a \in Account : Takes(h, u, a)
<1>1. CASE ChangePassword(h)
  <2>1. PICK u \in User, password \in Password :
          /\ users[u] # NoAccount
          /\ Takes(h, u, [role |-> users[u].role, password |-> password])
    BY <1>1 DEF ChangePassword
  <2>2. users[u] \in Account
    BY <2>1 DEF AccountTypes, Users
  <2>3. [role |-> users[u].role, password |-> password] \in Account
    BY <2>2 DEF Account
  <2>4. QED
    BY <2>1, <2>3
<1>2. QED
  BY <1>1 DEF CreateUser, ResetPassword, UpdateUser

LEMMA HandlerTypes ==
  ASSUME AccountTypes, NEW h \in Scribe,
         \/ ChangePassword(h) \/ CreateUser(h) \/ ResetPassword(h) \/ UpdateUser(h)
         \/ SetUser(h) \/ ListUsers(h) \/ OpenTemp(h) \/ WriteUsers(h)
         \/ ReplaceUsersFile(h) \/ SaveFails(h) \/ AnswerRequest(h)
  PROVE  AccountTypes'
<1>0. request[h] \in UserRequest
  BY DEF AccountTypes
<1>1. CASE ChangePassword(h) \/ CreateUser(h) \/ ResetPassword(h) \/ UpdateUser(h)
  <2>1. PICK u \in User, a \in Account : Takes(h, u, a)
    BY <1>1, AccountTaken
  <2>2. QED
    BY <2>1, RequestMade DEF Takes, Asks, AccountTypes
<1>2. CASE SetUser(h)
  <2>1. users' \in Users
    BY <1>0, <1>2, RequestRead DEF SetUser, AccountTypes, Users
  <2>2. QED
    BY <1>2, <2>1, RequestMade DEF SetUser, Asks, AccountTypes
<1>3. CASE ListUsers(h)
  BY <1>3, RequestMade DEF ListUsers, Asks, AccountTypes
<1>4. CASE OpenTemp(h)
  BY <1>0, <1>4, RequestRead, RequestMade DEF OpenTemp, Asks, AccountTypes, File
<1>5. CASE WriteUsers(h)
  <2>1. request[h].list \in Users
    BY <1>0, <1>5, RequestRead DEF WriteUsers
  <2>2. usersFile' \in File /\ tempFile' \in File
    BY <1>5, <2>1, FileMade DEF WriteUsers, AccountTypes
  <2>3. QED
    BY <1>5, <2>1, <2>2, RequestMade DEF WriteUsers, Asks, AccountTypes
<1>6. CASE ReplaceUsersFile(h)
  <2>1. ASSUME NEW g \in Scribe PROVE request'[g] \in UserRequest
    <3>1. request[g] \in UserRequest
      BY DEF AccountTypes
    <3>2. CASE g = h
      BY <1>0, <1>6, <3>2, RequestRead, RequestMade DEF ReplaceUsersFile
    <3>3. CASE g # h /\ request[g].at = "open"
      <4>1. \E f \in {"temp", "users", "gone"} :
              request'[g] = [at |-> "open", list |-> request[g].list, file |-> f]
        BY <1>6, <3>1, <3>3, RequestRead DEF ReplaceUsersFile
      <4>2. PICK f \in {"temp", "users", "gone"} :
              request'[g] = [at |-> "open", list |-> request[g].list, file |-> f]
        BY <4>1
      <4>3. request[g].list \in Users
        BY <3>1, <3>3, RequestRead
      <4>4. QED
        BY <4>2, <4>3, RequestMade
    <3>4. CASE g # h /\ request[g].at # "open"
      BY <1>6, <3>1, <3>4 DEF ReplaceUsersFile
    <3>5. QED
      BY <3>2, <3>3, <3>4
  <2>2. request' \in [Scribe -> UserRequest]
    BY <1>6, <2>1 DEF ReplaceUsersFile
  <2>3. QED
    BY <1>6, <2>2 DEF ReplaceUsersFile, AccountTypes, File
<1>7. CASE SaveFails(h)
  BY <1>7, RequestMade DEF SaveFails, Asks, AccountTypes
<1>8. CASE AnswerRequest(h)
  BY <1>0, <1>8, RequestRead, RequestMade DEF AnswerRequest, Asks, AccountTypes
<1>9. QED
  BY <1>1, <1>2, <1>3, <1>4, <1>5, <1>6, <1>7, <1>8

LEMMA AccountTypesStep ==
  ASSUME AccountTypes, [AccountsNext]_accountVars PROVE AccountTypes'
<1>1. CASE UNCHANGED accountVars
  BY <1>1 DEF accountVars, AccountTypes
<1>2. QED
  BY <1>1, ProcessTypes, HandlerTypes DEF AccountsNext

\* Every variable of the users' store stays in its type.
THEOREM AccountsTypeCorrect == AccountsSpec => []AccountsTypeOK
<1>1. AccountTypes => AccountsTypeOK
  <2> SUFFICES ASSUME AccountTypes PROVE AccountsTypeOK
    OBVIOUS
  <2>1. \A h \in Scribe : request[h].at \in
          {"waiting", "read", "set", "listed", "open", "written", "saved"}
    BY DEF AccountTypes, UserRequest, Waiting
  <2>2. \A file \in {usersFile, tempFile} :
          file \in {NoFile, Torn} \/ (Readable(file) /\ file.list \in Users)
    BY DEF AccountTypes, File, Readable
  <2>3. QED
    BY <2>1, <2>2 DEF AccountsTypeOK, AccountTypes
<1>2. QED
  BY <1>1, AccountTypesInit, AccountTypesStep, PTL DEF AccountsSpec

-----------------------------------------------------------------------------
(* The users file.                                                         *)

(* Without a running process there is no request.                          *)
NoneWhenDown == process # "up" => \A h \in Scribe : request[h] = Waiting

(* While no two requests overlap there is one at most.                     *)
OneAtATime ==
  ~crowded =>
    \A g, h \in Scribe : request[g] # Waiting /\ request[h] # Waiting => g = h

(* The temporary file is empty for the write, and is what the request      *)
(* listed when it is renamed.                                              *)
TempIsOwn ==
  ~crowded =>
    \A h \in Scribe :
      /\ request[h].at = "open" => request[h].file = "temp" /\ tempFile = Torn
      /\ request[h].at = "written" => tempFile = Whole(request[h].list)

(* The users file is what was answered for, until a rename replaces it.    *)
FileIsSaved ==
  process = "up" /\ ~crowded =>
    /\ Readable(usersFile)
    /\ (\A h \in Scribe : request[h].at # "saved") => usersFile.list = answered
    /\ \A h \in Scribe :
         request[h].at = "saved" => usersFile.list = request[h].list

AccountsInv ==
  AccountTypes /\ NoneWhenDown /\ OneAtATime /\ TempIsOwn /\ FileIsSaved

LEMMA AccountsInvInit == AccountsInit => AccountsInv
<1> SUFFICES ASSUME AccountsInit PROVE AccountsInv
  OBVIOUS
<1>1. \A h \in Scribe : request[h] = Waiting /\ request[h].at = "waiting"
  BY DEF AccountsInit, Waiting
<1>2. process = "down"
  BY DEF AccountsInit
<1>3. QED
  BY <1>1, <1>2, AccountTypesInit
     DEF AccountsInv, NoneWhenDown, OneAtATime, TempIsOwn, FileIsSaved

LEMMA ProcessKeeps ==
  ASSUME AccountsInv, LoadUsers \/ Bootstrap \/ BootstrapWritten \/ Die
  PROVE  NoneWhenDown' /\ OneAtATime' /\ TempIsOwn' /\ FileIsSaved'
<1>1. \A h \in Scribe : request'[h] = Waiting /\ request'[h].at = "waiting"
  <2>1. CASE Die
    BY <2>1 DEF Die, Waiting
  <2>2. CASE LoadUsers \/ Bootstrap \/ BootstrapWritten
    BY <2>2 DEF LoadUsers, Bootstrap, BootstrapWritten, AccountsInv,
                NoneWhenDown, Waiting
  <2>3. QED
    BY <2>1, <2>2
<1>2. process' = "up" => Readable(usersFile') /\ usersFile'.list = answered'
  <2>1. CASE LoadUsers
    BY <2>1 DEF LoadUsers
  <2>2. CASE BootstrapWritten
    BY <2>2 DEF BootstrapWritten, Whole, Readable
  <2>3. CASE Bootstrap \/ Die
    BY <2>3 DEF Bootstrap, Die
  <2>4. QED
    BY <2>1, <2>2, <2>3
<1>3. QED
  BY <1>1, <1>2 DEF NoneWhenDown, OneAtATime, TempIsOwn, FileIsSaved

LEMMA HandlerKeeps ==
  ASSUME AccountsInv, NEW h \in Scribe,
         \/ ChangePassword(h) \/ CreateUser(h) \/ ResetPassword(h) \/ UpdateUser(h)
         \/ SetUser(h) \/ ListUsers(h) \/ OpenTemp(h) \/ WriteUsers(h)
         \/ ReplaceUsersFile(h) \/ SaveFails(h) \/ AnswerRequest(h)
  PROVE  NoneWhenDown' /\ OneAtATime' /\ TempIsOwn' /\ FileIsSaved'
<1> USE DEF AccountsInv
<1>1. CASE ChangePassword(h) \/ CreateUser(h) \/ ResetPassword(h) \/ UpdateUser(h)
  <2>1. PICK u \in User, a \in Account : Takes(h, u, a)
    BY <1>1, AccountTaken
  <2>2. /\ process = "up" /\ process' = "up" /\ ~crowded
        /\ request' = [request EXCEPT ![h] =
                         [at |-> "read", user |-> u, account |-> a]]
        /\ UNCHANGED <<usersFile, tempFile, answered>>
        /\ crowded' = \E g \in Scribe : request[g] # Waiting
        /\ request[h] = Waiting
    BY <2>1 DEF Takes, Asks
  <2>3. CASE \E g \in Scribe : request[g] # Waiting
    BY <2>2, <2>3 DEF NoneWhenDown, OneAtATime, TempIsOwn, FileIsSaved
  <2>4. CASE \A g \in Scribe : request[g] = Waiting
    <3>1. \A g \in Scribe : request'[g].at \in {"waiting", "read"}
            /\ (g # h => request'[g] = Waiting)
      BY <2>2, <2>4 DEF AccountTypes, Waiting
    <3>2. \A g \in Scribe : request[g].at = "waiting"
      BY <2>4 DEF Waiting
    <3>3. QED
      BY <2>2, <2>4, <3>1, <3>2
         DEF NoneWhenDown, OneAtATime, TempIsOwn, FileIsSaved
  <2>5. QED
    BY <2>3, <2>4
<1>2. ASSUME ~ (ChangePassword(h) \/ CreateUser(h) \/ ResetPassword(h)
                \/ UpdateUser(h))
      PROVE  NoneWhenDown' /\ OneAtATime' /\ TempIsOwn' /\ FileIsSaved'
  <2>1. /\ UNCHANGED <<process, crowded>> /\ request[h].at # "waiting"
    BY <1>2 DEF SetUser, ListUsers, OpenTemp, WriteUsers, ReplaceUsersFile,
                SaveFails, AnswerRequest
  <2>2. request[h] # Waiting /\ process = "up"
    BY <2>1 DEF NoneWhenDown, Waiting
  <2>3. CASE crowded
    BY <2>1, <2>2, <2>3 DEF NoneWhenDown, OneAtATime, TempIsOwn, FileIsSaved
  <2>4. CASE ~crowded
    <3>1. \A g \in Scribe \ {h} : request[g] = Waiting /\ request[g].at = "waiting"
      BY <2>2, <2>4 DEF OneAtATime, Waiting
    <3>2. \A g \in Scribe \ {h} : request'[g] = request[g]
      BY <1>2, <3>1 DEF SetUser, ListUsers, OpenTemp, WriteUsers,
            ReplaceUsersFile, SaveFails, AnswerRequest, Asks, AccountTypes
    <3>3. OneAtATime' /\ NoneWhenDown'
      BY <2>1, <2>2, <3>1, <3>2 DEF OneAtATime, NoneWhenDown
    <3>4. request[h] \in UserRequest /\ request \in [Scribe -> UserRequest]
      BY DEF AccountTypes
    <3>5. CASE SetUser(h) \/ ListUsers(h) \/ OpenTemp(h) \/ SaveFails(h)
      <4>1. /\ request'[h].at \in {"set", "listed", "open", "waiting"}
            /\ request[h].at # "saved"
            /\ request'[h].at = "open" =>
                 request'[h].file = "temp" /\ tempFile' = Torn
            /\ UNCHANGED <<usersFile, answered>>
        BY <3>4, <3>5 DEF SetUser, ListUsers, OpenTemp, SaveFails, Asks, Waiting
      <4>2. TempIsOwn'
        BY <3>1, <3>2, <4>1 DEF TempIsOwn
      <4>3. FileIsSaved'
        BY <2>1, <2>2, <2>4, <3>1, <3>2, <4>1 DEF FileIsSaved
      <4>4. QED
        BY <3>3, <4>2, <4>3
    <3>6. CASE WriteUsers(h)
      <4>1. /\ request[h].at = "open" /\ request[h].file = "temp"
            /\ tempFile = Torn /\ request[h].list \in Users
        BY <2>4, <3>4, <3>6, RequestRead DEF WriteUsers, TempIsOwn
      <4>2. /\ request'[h] = [at |-> "written", list |-> request[h].list]
            /\ tempFile' = Whole(request[h].list)
            /\ UNCHANGED <<usersFile, answered>>
        BY <3>4, <3>6, <4>1, FileMade DEF WriteUsers, Asks
      <4>3. TempIsOwn'
        BY <3>1, <3>2, <4>2 DEF TempIsOwn
      <4>4. FileIsSaved'
        BY <2>1, <2>2, <2>4, <3>1, <3>2, <4>1, <4>2 DEF FileIsSaved
      <4>5. QED
        BY <3>3, <4>3, <4>4
    <3>7. CASE ReplaceUsersFile(h)
      <4>1. request[h].list \in Users /\ tempFile = Whole(request[h].list)
        BY <2>4, <3>4, <3>7, RequestRead DEF ReplaceUsersFile, TempIsOwn
      <4>2. /\ request'[h] = [at |-> "saved", list |-> request[h].list]
            /\ usersFile' = Whole(request[h].list)
        BY <3>4, <3>7, <4>1 DEF ReplaceUsersFile
      <4>3. TempIsOwn'
        BY <3>1, <3>2, <4>2 DEF TempIsOwn
      <4>4. FileIsSaved'
        BY <3>1, <3>2, <4>1, <4>2, FileMade DEF FileIsSaved
      <4>5. QED
        BY <3>3, <4>3, <4>4
    <3>8. CASE AnswerRequest(h)
      <4>1. /\ request'[h] = Waiting /\ request'[h].at = "waiting"
            /\ answered' = request[h].list /\ request[h].at = "saved"
            /\ UNCHANGED usersFile
        BY <3>4, <3>8 DEF AnswerRequest, Asks, Waiting
      <4>2. TempIsOwn'
        BY <3>1, <3>2, <4>1 DEF TempIsOwn
      <4>3. FileIsSaved'
        BY <2>1, <2>2, <2>4, <3>1, <3>2, <4>1 DEF FileIsSaved
      <4>4. QED
        BY <3>3, <4>2, <4>3
    <3>9. QED
      BY <1>2, <3>5, <3>6, <3>7, <3>8
  <2>5. QED
    BY <2>3, <2>4
<1>3. QED
  BY <1>1, <1>2

\* Whenever the process runs and requests have not overlapped, the file that
\* a restart would read is whole and holds every change that was answered.
THEOREM RestartsFindTheUsers == AccountsSpec => []RestartFindsTheUsers
<1>1. AccountsInv /\ [AccountsNext]_accountVars => AccountsInv'
  <2> SUFFICES ASSUME AccountsInv, [AccountsNext]_accountVars
               PROVE  AccountsInv'
    OBVIOUS
  <2>1. AccountTypes'
    BY AccountTypesStep DEF AccountsInv
  <2>2. NoneWhenDown' /\ OneAtATime' /\ TempIsOwn' /\ FileIsSaved'
    <3>1. CASE UNCHANGED accountVars
      BY <3>1 DEF accountVars, AccountsInv, NoneWhenDown, OneAtATime,
                  TempIsOwn, FileIsSaved
    <3>2. QED
      BY <3>1, ProcessKeeps, HandlerKeeps DEF AccountsNext
  <2>3. QED
    BY <2>1, <2>2 DEF AccountsInv
<1>2. AccountsInv => RestartFindsTheUsers
  BY DEF AccountsInv, FileIsSaved, RestartFindsTheUsers
<1>3. QED
  BY <1>1, <1>2, AccountsInvInit, PTL DEF AccountsSpec

-----------------------------------------------------------------------------
(* JobEvents: what a thread has still to publish.                          *)

\* The stages of a publication are told apart by at.
LEMMA FanStages ==
  ASSUME NEW f \in Fan
  PROVE  /\ f.at \in {"saved", "offer", "drop", "again"} => f.view \in View
         /\ f.at = "saved" => f.view \in View
         /\ f.at = "offer" => f.view \in View /\ f.left \in SUBSET Stream
         /\ f.at \in {"drop", "again"} =>
              /\ f.view \in View /\ f.left \in SUBSET Stream /\ f.to \in Stream
              /\ [f EXCEPT !.at = "again"] \in Fan
  BY DEF Fan, Quiet

LEMMA FanMade ==
  ASSUME NEW w \in View, NEW left \in SUBSET Stream, NEW v \in Stream
  PROVE  /\ Quiet \in Fan /\ [at |-> "loaded"] \in Fan /\ [at |-> "expired"] \in Fan
         /\ [at |-> "saved", view |-> w] \in Fan
         /\ [at |-> "offer", view |-> w, left |-> left] \in Fan
         /\ [at |-> "drop", view |-> w, left |-> left, to |-> v] \in Fan
  BY DEF Fan, Quiet

-----------------------------------------------------------------------------
(* JobEvents: types.                                                       *)

LEMMA EventsTypeInit == EventsInit => EventsTypeOK
  BY EventsAssumption DEF EventsInit, EventsTypeOK, View, NoView, Fan, Quiet

\* What a save leaves is a view, and counts as an outcome if it ended.
LEMMA ChangedRow ==
  ASSUME EventsTypeOK, NEW ended \in BOOLEAN, Changed(ended)
  PROVE  /\ jobRow' \in View /\ jobRow'.ended = ended
         /\ outcomes \subseteq outcomes' /\ outcomes' \subseteq View
         /\ ended => jobRow' \in outcomes'
  BY EventsAssumption DEF Changed, EventsTypeOK, View

LEMMA SaveRowType ==
  ASSUME EventsTypeOK, NEW t \in Thread,
         LoadRow(t) \/ SaveRow(t) \/ ExpireRow(t)
  PROVE  EventsTypeOK'
<1> USE DEF EventsTypeOK
<1>1. CASE LoadRow(t)
  BY <1>1 DEF LoadRow, rowVars, brokerVars, Fan
<1>2. CASE SaveRow(t)
  <2>1. jobRow' \in View /\ outcomes' \subseteq View
    BY <1>2, ChangedRow DEF SaveRow
  <2>2. [at |-> "saved", view |-> jobRow'] \in Fan
    BY <2>1 DEF Fan
  <2>3. QED
    BY <1>2, <2>1, <2>2 DEF SaveRow, brokerVars
<1>3. CASE ExpireRow(t)
  <2>1. jobRow' \in View /\ outcomes' \subseteq View
    BY <1>3, ChangedRow DEF ExpireRow
  <2>2. [at |-> "expired"] \in Fan
    BY DEF Fan
  <2>3. QED
    BY <1>3, <2>1, <2>2 DEF ExpireRow, brokerVars
<1>4. QED
  BY <1>1, <1>2, <1>3

LEMMA PublisherType ==
  ASSUME EventsTypeOK, NEW t \in Thread, PublisherStep(t)
  PROVE  EventsTypeOK'
<1> USE DEF EventsTypeOK
<1>0. fan[t] \in Fan
  OBVIOUS
<1>1. CASE Publish(t)
  BY <1>0, <1>1, FanStages, FanMade DEF Publish, rowVars, brokerVars, Fan
<1>2. CASE PublishNothing(t) \/ PublishDone(t)
  BY <1>2 DEF PublishNothing, PublishDone, rowVars, brokerVars, Fan
<1>7. CASE AnnounceExpired(t)
  <2>1. [at |-> "saved", view |-> jobRow] \in Fan /\ Quiet \in Fan
    BY DEF Fan
  <2>2. QED
    BY <1>7, <2>1 DEF AnnounceExpired, rowVars, brokerVars
<1>3. CASE OfferFirst(t)
  <2>1. PICK v \in fan[t].left :
          IF v \in closedSubs \/ Len(eventQueue[v]) < QueueSize
          THEN /\ eventQueue' = [eventQueue EXCEPT ![v] =
                    IF v \in closedSubs THEN @ ELSE Append(@, fan[t].view)]
               /\ fan' = [fan EXCEPT ![t] = Offered(t, v)]
          ELSE /\ fan' = [fan EXCEPT ![t] = [at |-> "drop", view |-> @.view,
                                             left |-> @.left, to |-> v]]
               /\ UNCHANGED eventQueue
    BY <1>3 DEF OfferFirst
  <2>2. /\ v \in Stream /\ fan[t].view \in View
        /\ fan[t].left \in SUBSET Stream
    BY <1>0, <1>3, <2>1, FanStages DEF OfferFirst
  <2>3. fan' \in [Thread -> Fan]
    <3>1. fan[t].left \ {v} \in SUBSET Stream
      BY <2>2
    <3>2. /\ [at |-> "offer", view |-> fan[t].view, left |-> fan[t].left \ {v}]
               \in Fan
          /\ [at |-> "drop", view |-> fan[t].view, left |-> fan[t].left, to |-> v]
               \in Fan
      BY <2>2, <3>1, FanMade
    <3>3. QED
      BY <2>1, <3>2 DEF Offered
  <2>4. eventQueue' \in [Stream -> Seq(View)]
    <3>1. eventQueue[v] \in Seq(View)
      BY <2>2
    <3>2. Append(eventQueue[v], fan[t].view) \in Seq(View)
      BY <2>2, <3>1
    <3>3. QED
      BY <2>1, <3>1, <3>2
  <2>5. QED
    BY <1>3, <2>3, <2>4 DEF OfferFirst, rowVars
<1>4. CASE OfferDrop(t)
  <2>1. /\ fan[t].view \in View /\ fan[t].left \in SUBSET Stream
        /\ fan[t].to \in Stream /\ [fan[t] EXCEPT !.at = "again"] \in Fan
    BY <1>0, <1>4, FanStages DEF OfferDrop
  <2>2. CASE eventQueue[fan[t].to] = <<>>
    <3>1. fan[t].left \ {fan[t].to} \in SUBSET Stream
      BY <2>1
    <3>2. [at |-> "offer", view |-> fan[t].view,
           left |-> fan[t].left \ {fan[t].to}] \in Fan
      BY <2>1, <3>1, FanMade
    <3>3. QED
      BY <1>4, <2>2, <3>2 DEF OfferDrop, Offered, rowVars
  <2>3. CASE eventQueue[fan[t].to] # <<>>
    <3>1. fan' \in [Thread -> Fan]
      <4>1. fan' = [fan EXCEPT ![t] = [fan[t] EXCEPT !.at = "again"]]
        BY <1>4, <2>3 DEF OfferDrop
      <4>2. QED
        BY <2>1, <4>1
    <3>2. eventQueue' \in [Stream -> Seq(View)]
      <4>1. Tail(eventQueue[fan[t].to]) \in Seq(View)
        BY <2>1, <2>3
      <4>2. eventQueue' = [eventQueue EXCEPT ![fan[t].to] = Tail(@)]
        BY <1>4, <2>3 DEF OfferDrop
      <4>3. QED
        BY <2>1, <4>1, <4>2
    <3>3. QED
      BY <1>4, <3>1, <3>2 DEF OfferDrop, rowVars
  <2>4. QED
    BY <2>2, <2>3
<1>5. CASE OfferAgain(t)
  <2>1. /\ fan[t].view \in View /\ fan[t].left \in SUBSET Stream
        /\ fan[t].to \in Stream
    BY <1>0, <1>5, FanStages DEF OfferAgain
  <2>2. fan' \in [Thread -> Fan]
    <3>1. fan[t].left \ {fan[t].to} \in SUBSET Stream
      BY <2>1
    <3>2. [at |-> "offer", view |-> fan[t].view,
           left |-> fan[t].left \ {fan[t].to}] \in Fan
      BY <2>1, <3>1, FanMade
    <3>3. QED
      BY <1>5, <3>2 DEF OfferAgain, Offered
  <2>3. eventQueue' \in [Stream -> Seq(View)]
    <3>1. Append(eventQueue[fan[t].to], fan[t].view) \in Seq(View)
      BY <2>1
    <3>2. QED
      BY <1>5, <2>1, <3>1 DEF OfferAgain
  <2>4. QED
    BY <1>5, <2>2, <2>3 DEF OfferAgain, rowVars
<1>6. QED
  BY <1>1, <1>2, <1>3, <1>4, <1>5, <1>7 DEF PublisherStep

LEMMA WrittenType ==
  ASSUME EventsTypeOK, NEW v \in Stream, NEW w \in View, Written(v, w)
  PROVE  jobStream' \in [Stream -> [at : {"new", "subscribed", "loop", "beat",
                                          "closing", "lost"},
                                    shown : View \union {NoView}]]
  BY DEF Written, EventsTypeOK

LEMMA StreamType ==
  ASSUME EventsTypeOK, NEW v \in Stream,
         StreamSubscribe(v) \/ StreamStep(v) \/ StreamDisconnect(v)
  PROVE  EventsTypeOK'
<1>1. CASE StreamSubscribe(v) \/ StreamTimeout(v) \/ StreamDisconnect(v)
             \/ StreamClose(v)
  BY <1>1 DEF StreamSubscribe, StreamTimeout, StreamDisconnect, StreamClose,
              EventsTypeOK, rowVars, brokerVars
<1>2. CASE StreamFirstView(v)
  BY <1>2, WrittenType DEF StreamFirstView, EventsTypeOK, rowVars, brokerVars
<1>3. CASE StreamTake(v)
  <2>1. Head(eventQueue[v]) \in View /\ Tail(eventQueue[v]) \in Seq(View)
    BY <1>3 DEF StreamTake, EventsTypeOK
  <2>2. QED
    BY <1>3, <2>1, WrittenType DEF StreamTake, EventsTypeOK, rowVars
<1>4. CASE StreamHeartbeat(v)
  <2>1. CASE Written(v, jobRow)
    BY <1>4, <2>1, WrittenType DEF StreamHeartbeat, EventsTypeOK, rowVars, brokerVars
  <2>2. CASE jobStream' = [jobStream EXCEPT ![v].at = "loop"]
    BY <1>4, <2>2 DEF StreamHeartbeat, EventsTypeOK, rowVars, brokerVars
  <2>3. QED
    BY <1>4, <2>1, <2>2 DEF StreamHeartbeat
<1>5. QED
  BY <1>1, <1>2, <1>3, <1>4 DEF StreamStep

LEMMA EventsTypeStep ==
  EventsTypeOK /\ [EventsNext]_eventVars => EventsTypeOK'
<1>1. CASE UNCHANGED eventVars
  BY <1>1 DEF eventVars, EventsTypeOK
<1>2. QED
  BY <1>1, SaveRowType, PublisherType, StreamType DEF EventsNext

\* Every variable of the event stream stays in its type.
THEOREM EventsTypeCorrect == EventsSpec => []EventsTypeOK
<1>1. QED
  BY EventsTypeInit, EventsTypeStep, PTL DEF EventsSpec

-----------------------------------------------------------------------------
(* JobEvents: the outcome.                                                 *)

(* A view that says the job has ended was taken from a row that said so:   *)
(* wherever the view is on its way, with a handler, in a queue or at the   *)
(* viewer, it is one of the outcomes.                                      *)
Borne(view) == view.ended => view \in outcomes

HasView(f) == f.at \in {"saved", "offer", "drop", "again"}

OnTheWay ==
  /\ \A t \in Thread : HasView(fan[t]) => Borne(fan[t].view)
  /\ Borne(jobRow)
  /\ \A v \in Stream :
       /\ \A i \in 1 .. Len(eventQueue[v]) : Borne(eventQueue[v][i])
       /\ Borne(jobStream[v].shown)
       /\ jobStream[v].at = "closing" => jobStream[v].shown.ended

(* A closed subscription belongs to a stream that came to its end.         *)
ClosedForGood ==
  \A v \in closedSubs :
    v \notin subscribers /\ jobStream[v].at \in {"closing", "lost"}

EventsInv == EventsTypeOK /\ OnTheWay /\ ClosedForGood

LEMMA EventsInvInit == EventsInit => EventsInv
<1> SUFFICES ASSUME EventsInit PROVE EventsInv
  OBVIOUS
<1>1. OnTheWay
  BY DEF EventsInit, OnTheWay, Borne, HasView, NoView, Quiet
<1>2. ClosedForGood
  BY DEF EventsInit, ClosedForGood
<1>3. QED
  BY <1>1, <1>2, EventsTypeInit DEF EventsInv

LEMMA SaveRowKeeps ==
  ASSUME EventsInv, NEW t \in Thread,
         LoadRow(t) \/ SaveRow(t) \/ ExpireRow(t)
  PROVE  OnTheWay' /\ ClosedForGood'
<1> USE DEF EventsInv, EventsTypeOK
<1>1. UNCHANGED <<jobStream, eventQueue, subscribers, closedSubs>>
  BY DEF LoadRow, SaveRow, ExpireRow, brokerVars
<1>2. Borne(jobRow)' /\ outcomes \subseteq outcomes'
  <2>1. CASE LoadRow(t)
    BY <2>1 DEF LoadRow, rowVars, OnTheWay, Borne
  <2>2. CASE SaveRow(t) \/ ExpireRow(t)
    <3>1. PICK ended \in BOOLEAN : Changed(ended)
      BY <2>2 DEF SaveRow, ExpireRow
    <3>2. QED
      BY <3>1, ChangedRow DEF Borne
  <2>3. QED
    BY <2>1, <2>2
<1>3. \A u \in Thread : HasView(fan'[u]) =>
        fan'[u].view = jobRow' \/ (HasView(fan[u]) /\ fan'[u] = fan[u])
  <2>1. \A u \in Thread \ {t} : fan'[u] = fan[u]
    BY DEF LoadRow, SaveRow, ExpireRow
  <2>2. fan'[t] \in {[at |-> "loaded"], [at |-> "expired"],
                    [at |-> "saved", view |-> jobRow']}
    BY DEF LoadRow, SaveRow, ExpireRow
  <2>3. HasView(fan'[t]) => fan'[t].view = jobRow'
    BY <2>2 DEF HasView
  <2>4. QED
    BY <2>1, <2>3
<1>4. OnTheWay'
  BY <1>1, <1>2, <1>3 DEF OnTheWay, Borne
<1>5. QED
  BY <1>1, <1>4 DEF ClosedForGood

LEMMA PublisherKeeps ==
  ASSUME EventsInv, NEW t \in Thread, PublisherStep(t)
  PROVE  OnTheWay' /\ ClosedForGood'
<1> USE DEF EventsInv, EventsTypeOK
<1>0. /\ fan[t] \in Fan /\ UNCHANGED <<rowVars, jobStream, subscribers, closedSubs>>
      /\ fan' \in [Thread -> Fan] /\ eventQueue' \in [Stream -> Seq(View)]
  BY PublisherType
     DEF PublisherStep, AnnounceExpired, Publish, PublishNothing, PublishDone,
         OfferFirst, OfferDrop, OfferAgain, brokerVars
<1>1. ClosedForGood'
  BY <1>0 DEF ClosedForGood
<1>3. /\ \A u \in Thread \ {t} : fan'[u] = fan[u]
      /\ HasView(fan'[t]) =>
           \/ HasView(fan[t]) /\ fan'[t].view = fan[t].view
           \/ fan'[t].view = jobRow
  <2>1. CASE AnnounceExpired(t) \/ Publish(t) \/ PublishNothing(t) \/ PublishDone(t)
    BY <2>1 DEF AnnounceExpired, Publish, PublishNothing, PublishDone, HasView, Quiet
  <2>2. CASE OfferFirst(t)
    BY <2>2 DEF OfferFirst, Offered, HasView
  <2>3. CASE OfferDrop(t)
    BY <1>0, <2>3, FanStages DEF OfferDrop, Offered, Fan, Quiet, HasView
  <2>4. CASE OfferAgain(t)
    BY <2>4 DEF OfferAgain, Offered, HasView
  <2>5. QED
    BY <2>1, <2>2, <2>3, <2>4 DEF PublisherStep
<1>4. \A v \in Stream :
        \/ eventQueue'[v] = eventQueue[v]
        \/ eventQueue[v] # <<>> /\ eventQueue'[v] = Tail(eventQueue[v])
        \/ HasView(fan[t]) /\ eventQueue'[v] = Append(eventQueue[v], fan[t].view)
  BY DEF PublisherStep, AnnounceExpired, Publish, PublishNothing, PublishDone,
         OfferFirst, OfferDrop, OfferAgain, brokerVars, HasView
<1>5. ASSUME NEW v \in Stream, NEW i \in 1 .. Len(eventQueue'[v])
      PROVE  Borne(eventQueue'[v][i])
  <2>1. eventQueue[v] \in Seq(View)
    OBVIOUS
  <2>2. \A k \in 1 .. Len(eventQueue[v]) : Borne(eventQueue[v][k])
    BY DEF OnTheWay
  <2>3. CASE eventQueue'[v] = eventQueue[v]
    BY <2>2, <2>3
  <2>4. CASE eventQueue[v] # <<>> /\ eventQueue'[v] = Tail(eventQueue[v])
    <3>1. i + 1 \in 1 .. Len(eventQueue[v])
            /\ eventQueue'[v][i] = eventQueue[v][i + 1]
      BY <2>1, <2>4
    <3>2. QED
      BY <2>2, <3>1
  <2>5. CASE HasView(fan[t]) /\ eventQueue'[v] = Append(eventQueue[v], fan[t].view)
    <3>1. fan[t].view \in View /\ Borne(fan[t].view)
      <4>1. Borne(fan[t].view)
        BY <2>5 DEF OnTheWay
      <4>2. fan[t] \in Fan /\ fan[t].at \in {"saved", "offer", "drop", "again"}
        BY <1>0, <2>5 DEF HasView
      <4>3. \A f \in Fan :
              f.at \in {"saved", "offer", "drop", "again"} => f.view \in View
        BY FanStages, Zenon
      <4>4. fan[t].view \in View
        BY <4>2, <4>3, Zenon
      <4>5. QED
        BY <4>1, <4>4
    <3>2. \/ i \in 1 .. Len(eventQueue[v]) /\ eventQueue'[v][i] = eventQueue[v][i]
          \/ eventQueue'[v][i] = fan[t].view
      BY <2>1, <2>5, <3>1
    <3>3. QED
      BY <2>1, <2>2, <3>1, <3>2
  <2>6. QED
    BY <1>4, <2>3, <2>4, <2>5
<1>6. OnTheWay'
  <2>1. \A u \in Thread : HasView(fan'[u]) => Borne(fan'[u].view)
    BY <1>3 DEF OnTheWay
  <2>2. QED
    BY <1>0, <1>5, <2>1 DEF OnTheWay, Borne, rowVars
<1>7. QED
  BY <1>1, <1>6

LEMMA StreamKeeps ==
  ASSUME EventsInv, NEW v \in Stream,
         StreamSubscribe(v) \/ StreamStep(v) \/ StreamDisconnect(v)
  PROVE  OnTheWay' /\ ClosedForGood'
<1> USE DEF EventsInv, EventsTypeOK
<1>0. UNCHANGED <<jobRow, outcomes, fan>>
  BY DEF rowVars, StreamSubscribe, StreamStep, StreamDisconnect, StreamFirstView,
         StreamTake, StreamTimeout, StreamHeartbeat, StreamClose
<1>1. CASE StreamSubscribe(v) \/ StreamTimeout(v) \/ StreamDisconnect(v)
  <2>1. /\ jobStream[v].at \in {"new", "subscribed", "loop"}
        /\ \/ jobStream' = [jobStream EXCEPT ![v].at = "subscribed"]
           \/ jobStream' = [jobStream EXCEPT ![v].at = "beat"]
           \/ jobStream' = [jobStream EXCEPT ![v].at = "lost"]
        /\ UNCHANGED <<eventQueue, closedSubs>>
        /\ subscribers' \subseteq subscribers \union {v}
    BY <1>1 DEF StreamSubscribe, StreamTimeout, StreamDisconnect, brokerVars
  <2>2. \A w \in Stream :
          /\ jobStream'[w].shown = jobStream[w].shown
          /\ jobStream'[w].at = jobStream[w].at
               \/ jobStream'[w].at \in {"subscribed", "beat", "lost"}
          /\ w # v => jobStream'[w] = jobStream[w]
    BY <2>1
  <2>3. OnTheWay'
    BY <1>0, <2>1, <2>2 DEF OnTheWay, Borne
  <2>4. v \notin closedSubs
    BY <2>1 DEF ClosedForGood
  <2>5. ClosedForGood'
    BY <2>1, <2>2, <2>4 DEF ClosedForGood
  <2>6. QED
    BY <2>3, <2>5
<1>2. CASE StreamFirstView(v)
  BY <1>0, <1>2 DEF StreamFirstView, Written, OnTheWay, Borne, ClosedForGood,
                    brokerVars
<1>3. CASE StreamTake(v)
  <2>1. /\ eventQueue[v] \in Seq(View) /\ eventQueue[v] # <<>>
        /\ \A i \in 1 .. Len(eventQueue[v]) : Borne(eventQueue[v][i])
    BY <1>3 DEF StreamTake, OnTheWay
  <2>2. Borne(Head(eventQueue[v]))
    BY <2>1
  <2>3. \A i \in 1 .. Len(Tail(eventQueue[v])) : Borne(Tail(eventQueue[v])[i])
    <3>1. ASSUME NEW i \in 1 .. Len(Tail(eventQueue[v]))
          PROVE  /\ i + 1 \in 1 .. Len(eventQueue[v])
                 /\ Tail(eventQueue[v])[i] = eventQueue[v][i + 1]
      BY <2>1
    <3>2. QED
      BY <2>1, <3>1
  <2>4. /\ jobStream' = [jobStream EXCEPT ![v] =
               [at |-> IF Head(eventQueue[v]).ended THEN "closing" ELSE "loop",
                shown |-> Head(eventQueue[v])]]
        /\ eventQueue' = [eventQueue EXCEPT ![v] = Tail(eventQueue[v])]
        /\ jobStream[v].at = "loop"
        /\ UNCHANGED <<subscribers, closedSubs>>
    BY <1>3 DEF StreamTake, Written
  <2>5. OnTheWay'
    BY <1>0, <2>2, <2>3, <2>4 DEF OnTheWay, Borne
  <2>6. QED
    BY <2>4, <2>5 DEF ClosedForGood
<1>4. CASE StreamHeartbeat(v)
  <2>1. /\ jobStream[v].at = "beat"
        /\ UNCHANGED <<eventQueue, subscribers, closedSubs>>
        /\ \/ jobStream' = [jobStream EXCEPT ![v] =
                 [at |-> IF jobRow.ended THEN "closing" ELSE "loop",
                  shown |-> jobRow]]
           \/ jobStream' = [jobStream EXCEPT ![v].at = "loop"]
    BY <1>4 DEF StreamHeartbeat, Written, brokerVars
  <2>2. /\ \A w \in Stream \ {v} : jobStream'[w] = jobStream[w]
        /\ jobStream'[v].shown \in {jobStream[v].shown, jobRow}
        /\ jobStream'[v].at = "closing" => jobStream'[v].shown.ended
    BY <2>1
  <2>3. OnTheWay'
    BY <1>0, <2>1, <2>2 DEF OnTheWay, Borne
  <2>4. QED
    BY <2>1, <2>2, <2>3 DEF ClosedForGood
<1>5. CASE StreamClose(v)
  BY <1>0, <1>5 DEF StreamClose, OnTheWay, Borne, ClosedForGood
<1>6. QED
  BY <1>1, <1>2, <1>3, <1>4, <1>5 DEF StreamStep

\* A stream that the server ends has shown an outcome that the row had, and
\* the broker knows it no more: for any number of handlers and streams, any
\* queue size, and saves of rows that were loaded any time before.
THEOREM EndedStreamsShowOutcomes == EventsSpec => []EndedStreamShowedOutcome
<1>1. EventsInv /\ [EventsNext]_eventVars => EventsInv'
  <2> SUFFICES ASSUME EventsInv, [EventsNext]_eventVars PROVE EventsInv'
    OBVIOUS
  <2>1. EventsTypeOK'
    <3>1. CASE UNCHANGED eventVars
      BY <3>1 DEF eventVars, EventsInv, EventsTypeOK
    <3>2. QED
      BY <3>1, SaveRowType, PublisherType, StreamType DEF EventsNext, EventsInv
  <2>2. OnTheWay' /\ ClosedForGood'
    <3>1. CASE UNCHANGED eventVars
      BY <3>1 DEF eventVars, EventsInv, OnTheWay, ClosedForGood, Borne
    <3>2. QED
      BY <3>1, SaveRowKeeps, PublisherKeeps, StreamKeeps DEF EventsNext
  <2>3. QED
    BY <2>1, <2>2 DEF EventsInv
<1>2. EventsInv => EndedStreamShowedOutcome
  BY DEF EventsInv, OnTheWay, ClosedForGood, Borne, EndedStreamShowedOutcome
<1>3. QED
  BY <1>1, <1>2, EventsInvInit, PTL DEF EventsSpec

-----------------------------------------------------------------------------
(* WorkerRegistry: types.                                                  *)

\* A call moves on, and the rows stay what they are.
LEMMA CallMoves ==
  ASSUME RegistryTypeOK, NEW t \in Caller, NEW c \in Call, Proceeds(t, c)
  PROVE  call' \in [Caller -> Call]
BY DEF RegistryTypeOK, Proceeds

LEMMA CallEnds ==
  ASSUME RegistryTypeOK, NEW t \in Caller, Ends(t)
  PROVE  call' \in [Caller -> Call]
<1>1. Free \in Call
  BY DEF Call
<1>2. QED
  BY <1>1, CallMoves DEF Ends

\* A row grows older, and a row that was seen is one.
LEMMA OlderRow ==
  ASSUME NEW row \in WorkerRow
  PROVE  /\ Older(row) \in WorkerRow /\ row # Missing
         /\ Older(row) = [status |-> row.status, seen |-> IF row.seen > 0 THEN row.seen - 1 ELSE 0]
         /\ [row EXCEPT !.seen = OfflineAfter] \in WorkerRow
         /\ [row EXCEPT !.status = "disabled"] \in WorkerRow
<1>1. OfflineAfter \in Nat /\ row.seen \in 0..OfflineAfter
  BY RegistryAssumption DEF RegistryAssumption, WorkerRow
<1>2. row # Missing
  BY DEF WorkerRow, Missing
<1>3. row.seen > 0 => row.seen - 1 \in 0..OfflineAfter
  BY <1>1
<1>4. QED
  BY <1>1, <1>2, <1>3 DEF Older, WorkerRow

LEMMA RegistryTypeInit == RegistryInit => RegistryTypeOK
  BY RegistryAssumption
     DEF RegistryInit, RegistryTypeOK, WorkerRow, TargetRow, Work, Call, RegistryAssumption

\* Requests of the worker.
LEMMA WorkerRequestTypes ==
  ASSUME RegistryTypeOK, NEW t \in Caller,
         \/ Authenticate(t) \/ ReadWorker(t) \/ AdminReadsWorker(t) \/ SaveWorker(t)
         \/ RenewRefused(t) \/ FetchChecked(t) \/ FetchClaims(t) \/ Enrolled(t)
         \/ RegisterReads(t)
  PROVE  RegistryTypeOK'
<1> USE DEF RegistryTypeOK
<1>0. call[t] \in Call
  OBVIOUS
<1>1. CASE Authenticate(t)
  <2>1. PICK op \in WorkerOp : Proceeds(t, [op |-> op, at |-> "authenticated"])
    BY <1>1 DEF Authenticate
  <2>2. [op |-> op, at |-> "authenticated"] \in Call
    BY DEF Call
  <2>3. QED
    BY <1>1, <2>1, <2>2, CallMoves DEF Authenticate
<1>2. CASE ReadWorker(t)
  <2>1. CASE Ends(t)
    BY <1>2, <2>1, CallEnds DEF ReadWorker
  <2>2. CASE ~Ends(t)
    <3>1. /\ workerRow # Missing
          /\ Proceeds(t, [op |-> call[t].op, at |-> "read", snap |-> workerRow])
          /\ call[t].op # "fetch" /\ call[t].at = "authenticated" /\ call[t] # Free
      BY <1>2, <2>2 DEF ReadWorker
    <3>2. call[t].op \in RowOp
      BY <1>0, <3>1 DEF Call, WorkerOp, RowOp
    <3>3. [op |-> call[t].op, at |-> "read", snap |-> workerRow] \in Call
      BY <3>1, <3>2 DEF Call
    <3>4. QED
      BY <1>2, <3>1, <3>3, CallMoves DEF ReadWorker
  <2>3. QED
    BY <2>1, <2>2
<1>3. CASE AdminReadsWorker(t)
  <2>1. PICK op \in {"label", "revoke"} :
          Proceeds(t, [op |-> op, at |-> "read", snap |-> workerRow])
    BY <1>3 DEF AdminReadsWorker
  <2>2. [op |-> op, at |-> "read", snap |-> workerRow] \in Call
    BY <1>3 DEF Call, RowOp, AdminReadsWorker
  <2>3. QED
    BY <1>3, <2>1, <2>2, CallMoves DEF AdminReadsWorker
<1>4. CASE SaveWorker(t)
  <2>1. call[t].snap \in WorkerRow \union {Missing}
    BY <1>0, <1>4 DEF SaveWorker, Call, RowOp, Free
  <2>2. SavedRow(call[t]) \in WorkerRow \union {Missing}
    <3>1. [status |-> "enabled", seen |-> OfflineAfter] \in WorkerRow
      BY RegistryAssumption DEF WorkerRow, RegistryAssumption
    <3>2. QED
      BY <2>1, <3>1, OlderRow DEF SavedRow
  <2>3. QED
    BY <1>4, <2>2, CallEnds DEF SaveWorker
<1>5. CASE RenewRefused(t)
  BY <1>5, CallEnds DEF RenewRefused
<1>6. CASE FetchChecked(t)
  <2>1. [op |-> "fetch", at |-> "eligible"] \in Call
    BY DEF Call
  <2>2. QED
    BY <1>6, <2>1, CallEnds, CallMoves DEF FetchChecked
<1>7. CASE FetchClaims(t)
  <2>1. work' \in Work
    BY <1>7 DEF FetchClaims, Work
  <2>2. QED
    BY <1>7, <2>1, CallEnds DEF FetchClaims
<1>8. CASE Enrolled(t)
  <2>1. [op |-> "register", at |-> "enrolled"] \in Call
    BY DEF Call
  <2>2. QED
    BY <1>8, <2>1, CallMoves DEF Enrolled
<1>9. CASE RegisterReads(t)
  <2>1. [op |-> "register", at |-> "read", snap |-> workerRow] \in Call
    BY DEF Call, RowOp
  <2>2. QED
    BY <1>9, <2>1, CallMoves DEF RegisterReads
<1>10. QED
  BY <1>1, <1>2, <1>3, <1>4, <1>5, <1>6, <1>7, <1>8, <1>9

\* Requests of the administrator.
LEMMA AdminRequestTypes ==
  ASSUME RegistryTypeOK, NEW t \in Caller,
         \/ RevokeCredentials(t) \/ RevokeDisables(t) \/ DeleteChecked(t)
         \/ ListTargets(t) \/ DisableTarget(t) \/ DeleteCredentials(t) \/ DeleteRow(t)
         \/ EligibleFirst(t) \/ SaveNewTarget(t) \/ SaveJob(t)
         \/ EnableReads(t) \/ EnableChecks(t) \/ EnableSaves(t)
  PROVE  RegistryTypeOK'
<1> USE DEF RegistryTypeOK
<1>0. call[t] \in Call
  OBVIOUS
<1>a. AfterTargets(t) => call' \in [Caller -> Call]
  <2>1. [op |-> "delete", at |-> "auth"] \in Call
    BY DEF Call
  <2>2. QED
    BY <2>1, CallEnds, CallMoves DEF AfterTargets
<1>b. ASSUME call[t].op = "revoke", call[t].at \in {"read", "disable"}
      PROVE  call[t] \in [op : {"revoke"}, at : {"read", "disable"}, snap : WorkerRow]
  BY <1>0, <1>b DEF Call, WorkerOp, RowOp, Free
<1>1. CASE RevokeCredentials(t)
  <2>1. [call[t] EXCEPT !.at = "disable"] \in
           [op : {"revoke"}, at : {"read", "disable"}, snap : WorkerRow]
    BY <1>1, <1>b DEF RevokeCredentials
  <2>2. [call[t] EXCEPT !.at = "disable"] \in Call
    BY <2>1 DEF Call
  <2>3. QED
    BY <1>1, <2>2, CallMoves DEF RevokeCredentials
<1>2. CASE RevokeDisables(t)
  <2>1. [call[t].snap EXCEPT !.status = "disabled"] \in WorkerRow
    BY <1>2, <1>b, OlderRow DEF RevokeDisables
  <2>2. [op |-> "revoke", at |-> "list"] \in Call
    BY DEF Call
  <2>3. QED
    BY <1>2, <2>1, <2>2, CallMoves DEF RevokeDisables
<1>3. CASE DeleteChecked(t)
  <2>1. [op |-> "delete", at |-> "list"] \in Call
    BY DEF Call
  <2>2. QED
    BY <1>3, <2>1, CallMoves DEF DeleteChecked
<1>4. CASE ListTargets(t)
  <2>1. CASE targetRow.status = "enabled"
    <3>1. targetRow \in TargetRow
      BY <2>1 DEF Missing
    <3>2. [op |-> call[t].op, at |-> "target", target |-> targetRow] \in Call
      BY <1>4, <3>1 DEF Call, ListTargets
    <3>3. QED
      BY <1>4, <2>1, <3>2, CallMoves DEF ListTargets
  <2>2. CASE targetRow.status # "enabled"
    BY <1>4, <1>a, <2>2 DEF ListTargets
  <2>3. QED
    BY <2>1, <2>2
<1>5. CASE DisableTarget(t)
  BY <1>5, <1>a DEF DisableTarget, TargetRow
<1>6. CASE DeleteCredentials(t)
  <2>1. [op |-> "delete", at |-> "row"] \in Call
    BY DEF Call
  <2>2. QED
    BY <1>6, <2>1, CallMoves DEF DeleteCredentials
<1>7. CASE DeleteRow(t)
  BY <1>7, CallEnds DEF DeleteRow
<1>8. CASE EligibleFirst(t)
  <2>1. [op |-> "newTarget", at |-> "eligible"] \in Call
        /\ \A s \in BOOLEAN : [op |-> "dispatch", at |-> "eligible", scheduled |-> s] \in Call
    BY DEF Call
  <2>2. QED
    BY <1>8, <2>1, CallMoves DEF EligibleFirst
<1>9. CASE SaveNewTarget(t)
  BY <1>9, CallEnds DEF SaveNewTarget, TargetRow
<1>10. CASE SaveJob(t)
  <2>1. work' \in Work
    BY <1>10 DEF SaveJob, Work
  <2>2. QED
    BY <1>10, <2>1, CallEnds DEF SaveJob
<1>11. CASE EnableReads(t)
  <2>1. [op |-> "enable", at |-> "read", target |-> targetRow] \in Call
    BY <1>11 DEF Call, EnableReads
  <2>2. QED
    BY <1>11, <2>1, CallMoves DEF EnableReads
<1>12. CASE EnableChecks(t)
  <2>1. call[t] \in [op : {"enable"}, at : {"read", "eligible"}, target : TargetRow]
    BY <1>0, <1>12 DEF EnableChecks, Call, WorkerOp, RowOp, Free
  <2>2. [call[t] EXCEPT !.at = "eligible"] \in
           [op : {"enable"}, at : {"read", "eligible"}, target : TargetRow]
    BY <2>1
  <2>3. [call[t] EXCEPT !.at = "eligible"] \in Call
    BY <2>2 DEF Call
  <2>4. QED
    BY <1>12, <2>3, CallEnds, CallMoves DEF EnableChecks
<1>13. CASE EnableSaves(t)
  BY <1>13, CallEnds DEF EnableSaves, TargetRow
<1>14. QED
  BY <1>1, <1>2, <1>3, <1>4, <1>5, <1>6, <1>7, <1>8, <1>9, <1>10, <1>11, <1>12, <1>13

LEMMA TickTypes ==
  ASSUME RegistryTypeOK, RegistryTick
  PROVE  RegistryTypeOK'
<1> USE DEF RegistryTypeOK
<1>1. workerRow' \in WorkerRow \union {Missing}
  BY OlderRow DEF RegistryTick, Older
<1>2. ASSUME NEW t \in Caller
      PROVE  call'[t] \in Call
  <2>0. call[t] \in Call
    OBVIOUS
  <2>1. CASE call[t].op \in RowOp \union {"revoke"} /\ call[t].at \in {"read", "disable"}
    <3>1. call'[t] = [call[t] EXCEPT !.snap = Older(@)]
      BY <2>1 DEF RegistryTick
    <3>2. \/ call[t] \in [op : RowOp, at : {"read"}, snap : WorkerRow]
          \/ call[t] \in [op : {"register"}, at : {"read"}, snap : {Missing}]
          \/ call[t] \in [op : {"revoke"}, at : {"read", "disable"}, snap : WorkerRow]
      BY <2>0, <2>1 DEF Call, WorkerOp, RowOp, Free
    <3>3. CASE call[t] \in [op : RowOp, at : {"read"}, snap : WorkerRow]
      <4>1. call'[t] \in [op : RowOp, at : {"read"}, snap : WorkerRow]
        BY <3>1, <3>3, OlderRow
      <4>2. QED
        BY <4>1 DEF Call
    <3>4. CASE call[t] \in [op : {"register"}, at : {"read"}, snap : {Missing}]
      <4>1. call'[t] \in [op : {"register"}, at : {"read"}, snap : {Missing}]
        BY <3>1, <3>4 DEF Older
      <4>2. QED
        BY <4>1 DEF Call
    <3>5. CASE call[t] \in [op : {"revoke"}, at : {"read", "disable"}, snap : WorkerRow]
      <4>1. call'[t] \in [op : {"revoke"}, at : {"read", "disable"}, snap : WorkerRow]
        BY <3>1, <3>5, OlderRow
      <4>2. QED
        BY <4>1 DEF Call
    <3>6. QED
      BY <3>2, <3>3, <3>4, <3>5
  <2>2. CASE ~(call[t].op \in RowOp \union {"revoke"} /\ call[t].at \in {"read", "disable"})
    BY <2>0, <2>2 DEF RegistryTick
  <2>3. QED
    BY <2>1, <2>2
<1>3. call' \in [Caller -> Call]
  BY <1>2 DEF RegistryTick
<1>4. QED
  BY <1>1, <1>3 DEF RegistryTick

LEMMA RegistryTypeStep == RegistryTypeOK /\ [RegistryNext]_registryVars => RegistryTypeOK'
<1> SUFFICES ASSUME RegistryTypeOK, [RegistryNext]_registryVars
             PROVE  RegistryTypeOK'
  OBVIOUS
<1>1. ASSUME NEW t \in Caller,
             \/ Authenticate(t) \/ AdminReadsWorker(t) \/ Enrolled(t)
             \/ DeleteChecked(t) \/ EligibleFirst(t) \/ EnableReads(t) \/ Goon(t)
      PROVE  RegistryTypeOK'
  BY <1>1, WorkerRequestTypes, AdminRequestTypes DEF Goon
<1>2. CASE JobEnds \/ CancelPending
  BY <1>2 DEF RegistryTypeOK, JobEnds, CancelPending, Work
<1>3. CASE DeleteTarget
  BY <1>3 DEF RegistryTypeOK, DeleteTarget
<1>4. CASE RegistryTick
  BY <1>4, TickTypes
<1>5. CASE UNCHANGED registryVars
  BY <1>5 DEF RegistryTypeOK, registryVars
<1>6. QED
  BY <1>1, <1>2, <1>3, <1>4, <1>5 DEF RegistryNext

\* The worker's row, the target, the job and the requests stay in their types:
\* no save writes a row that never was one (control_plane_service.py and the
\* repositories' save).
THEOREM RegistryTypeCorrect == RegistrySpec => []RegistryTypeOK
<1>1. QED
  BY RegistryTypeInit, RegistryTypeStep, PTL DEF RegistrySpec

-----------------------------------------------------------------------------
(* WorkerRegistry: a worker whose credentials are gone.                    *)

(* A row that is not there, or was not seen in time.                       *)
Unseen(row) == row = Missing \/ row.seen = 0

(* Requests that were let in with the credential and may yet count as a    *)
(* sign of life, and the registration that an enrollment ends with.        *)
SignOfLife(c) ==
  /\ c # Free
  /\ \/ c.at \in {"authenticated", "enrolled"}
     \/ c.op \in {"heartbeat", "renew", "register"} /\ c.at = "read"

LetIn == {t \in Caller : SignOfLife(call[t])}

(* No request found the worker eligible, and none holds a row that did.    *)
Spent(c) ==
  c # Free =>
    /\ c.at # "eligible"
    /\ c.at \in {"read", "disable"} /\ c.op # "enable" => Unseen(c.snap)

(* The worker is offline, disabled or missing, and nothing under way could *)
(* bring it back.                                                          *)
Faded == LetIn = {} /\ Unseen(workerRow) /\ \A t \in Caller : Spent(call[t])

(* While the credential is not active, no request comes in that could be a *)
(* sign of life; and a worker that has faded stays so, is not eligible, is *)
(* dispatched nothing and claims nothing.                                  *)
StaysFaded ==
  [][credential # "active" /\ credential' # "active"
       => /\ LetIn' \subseteq LetIn
          /\ Faded => Faded' /\ ~Eligible' /\ work' \in {work, "none"}
    ]_registryVars

\* What follows when a call moves on and the row stays unseen.
LEMMA CallFades ==
  ASSUME RegistryTypeOK, NEW t \in Caller, NEW c, Proceeds(t, c),
         SignOfLife(c) => SignOfLife(call[t])
  PROVE  /\ LetIn' \subseteq LetIn
         /\ Faded /\ Spent(c) /\ Unseen(workerRow') => Faded'
<1>1. \A u \in Caller : call'[u] = IF u = t THEN c ELSE call[u]
  BY DEF RegistryTypeOK, Proceeds
<1>2. LetIn' \subseteq LetIn
  BY <1>1 DEF LetIn
<1>3. ASSUME Faded, Spent(c), Unseen(workerRow')
      PROVE  Faded'
  <2>1. \A u \in Caller : Spent(call'[u])
    BY <1>1, <1>3 DEF Faded
  <2>2. LetIn' = {}
    BY <1>2, <1>3 DEF Faded
  <2>3. QED
    BY <1>3, <2>1, <2>2 DEF Faded, Unseen
<1>4. QED
  BY <1>2, <1>3

LEMMA EndFades ==
  ASSUME RegistryTypeOK, NEW t \in Caller, Ends(t)
  PROVE  /\ LetIn' \subseteq LetIn
         /\ Faded /\ Unseen(workerRow') => Faded'
<1>1. ~SignOfLife(Free) /\ Spent(Free)
  BY DEF SignOfLife, Spent
<1>2. QED
  BY <1>1, CallFades DEF Ends

\* A worker that has faded is not eligible.
LEMMA FadedIsNotEligible ==
  ASSUME Unseen(workerRow)
  PROVE  ~Eligible
BY DEF Unseen, Eligible, WorkerStatus, Missing

\* The worker's requests: one that holds the row was let in before, or saves
\* it as it was.
LEMMA WorkerRequestFades ==
  ASSUME RegistryTypeOK, credential # "active", credential' # "active",
         NEW t \in Caller,
         \/ Authenticate(t) \/ ReadWorker(t) \/ AdminReadsWorker(t) \/ SaveWorker(t)
         \/ RenewRefused(t) \/ FetchChecked(t) \/ FetchClaims(t) \/ Enrolled(t)
         \/ RegisterReads(t)
  PROVE  /\ LetIn' \subseteq LetIn
         /\ Faded => Faded' /\ work' = work
<1>0. call[t] \in Call
  BY DEF RegistryTypeOK
<1>a. Faded => ~SignOfLife(call[t]) /\ Spent(call[t]) /\ Unseen(workerRow)
  BY DEF Faded, LetIn
<1>1. ~Authenticate(t) /\ ~Enrolled(t)
  BY DEF Authenticate, Enrolled
<1>2. CASE ReadWorker(t)
  <2>1. SignOfLife(call[t]) /\ UNCHANGED <<workerRow, work>>
    BY <1>2 DEF ReadWorker, SignOfLife
  <2>2. \/ Ends(t)
        \/ Proceeds(t, [op |-> call[t].op, at |-> "read", snap |-> workerRow])
    BY <1>2 DEF ReadWorker
  <2>3. QED
    BY <1>a, <2>1, <2>2, EndFades, CallFades
<1>3. CASE AdminReadsWorker(t)
  <2>1. PICK op \in {"label", "revoke"} :
          Proceeds(t, [op |-> op, at |-> "read", snap |-> workerRow])
    BY <1>3 DEF AdminReadsWorker
  <2> DEFINE c == [op |-> op, at |-> "read", snap |-> workerRow]
  <2>2. ~SignOfLife(c)
    BY DEF SignOfLife
  <2>3. Unseen(workerRow) => Spent(c)
    BY DEF Spent
  <2>4. UNCHANGED <<workerRow, work>>
    BY <1>3 DEF AdminReadsWorker
  <2> HIDE DEF c
  <2>5. Proceeds(t, c)
    BY <2>1 DEF c
  <2>6. QED
    BY <1>a, <2>2, <2>3, <2>4, <2>5, CallFades
<1>4. CASE SaveWorker(t)
  <2>1. Ends(t) /\ work' = work /\ workerRow' = SavedRow(call[t])
        /\ call[t].op \in RowOp /\ call[t].at = "read" /\ call[t] # Free
    BY <1>4 DEF SaveWorker, RowOp, Free
  <2>2. ASSUME Faded
        PROVE  Unseen(workerRow')
    <3>1. call[t].op \in {"inventory", "label"}
      BY <1>a, <2>1, <2>2 DEF SignOfLife, RowOp
    <3>2. Unseen(call[t].snap)
      BY <1>a, <2>1, <2>2, <3>1 DEF Spent
    <3>3. call[t].snap \in WorkerRow
      BY <1>0, <2>1, <3>1 DEF Call, WorkerOp, RowOp, Free
    <3>4. SavedRow(call[t]) = call[t].snap
      BY <3>1, <3>3, OlderRow DEF SavedRow
    <3>5. QED
      BY <2>1, <3>2, <3>4
  <2>3. QED
    BY <2>1, <2>2, EndFades
<1>5. CASE RenewRefused(t)
  BY <1>5, <1>a, EndFades DEF RenewRefused
<1>6. CASE FetchChecked(t)
  <2>1. SignOfLife(call[t]) /\ UNCHANGED <<workerRow, work>>
    BY <1>6 DEF FetchChecked, SignOfLife, Free
  <2>2. Ends(t) \/ Proceeds(t, [op |-> "fetch", at |-> "eligible"])
    BY <1>6 DEF FetchChecked
  <2>3. QED
    BY <1>a, <2>1, <2>2, EndFades, CallFades
<1>7. CASE FetchClaims(t)
  <2>1. Ends(t) /\ ~Spent(call[t])
    BY <1>7 DEF FetchClaims, Spent, Free
  <2>2. QED
    BY <1>a, <2>1, EndFades
<1>8. CASE RegisterReads(t)
  <2>1. SignOfLife(call[t]) /\ UNCHANGED <<workerRow, work>>
        /\ Proceeds(t, [op |-> "register", at |-> "read", snap |-> workerRow])
    BY <1>8 DEF RegisterReads, SignOfLife, Free
  <2>2. QED
    BY <1>a, <2>1, CallFades
<1>9. QED
  BY <1>1, <1>2, <1>3, <1>4, <1>5, <1>6, <1>7, <1>8

\* The administrator's requests: none makes a row that was seen.
LEMMA AdminRequestFades ==
  ASSUME RegistryTypeOK, NEW t \in Caller,
         \/ RevokeCredentials(t) \/ RevokeDisables(t) \/ DeleteChecked(t)
         \/ ListTargets(t) \/ DisableTarget(t) \/ DeleteCredentials(t) \/ DeleteRow(t)
         \/ EligibleFirst(t) \/ SaveNewTarget(t) \/ SaveJob(t)
         \/ EnableReads(t) \/ EnableChecks(t) \/ EnableSaves(t)
  PROVE  /\ LetIn' \subseteq LetIn
         /\ Faded => Faded' /\ work' = work
<1>0. call[t] \in Call
  BY DEF RegistryTypeOK
<1>a. Faded => Spent(call[t]) /\ Unseen(workerRow) /\ ~Eligible
  BY FadedIsNotEligible DEF Faded
<1>b. ASSUME NEW c, Proceeds(t, c), ~SignOfLife(c), Unseen(workerRow) => Spent(c),
             UNCHANGED <<workerRow, work>>
      PROVE  /\ LetIn' \subseteq LetIn
             /\ Faded => Faded' /\ work' = work
  BY <1>a, <1>b, CallFades
<1>c. ASSUME Ends(t), UNCHANGED <<workerRow, work>>
      PROVE  /\ LetIn' \subseteq LetIn
             /\ Faded => Faded' /\ work' = work
  BY <1>a, <1>c, EndFades
<1>d. \A o \in {"revoke", "delete"}, p \in {"list", "target", "auth", "row"} :
        \A c : c # Free /\ c.op = o /\ c.at = p => ~SignOfLife(c) /\ Spent(c)
  BY DEF SignOfLife, Spent
<1>e. ASSUME AfterTargets(t), UNCHANGED <<workerRow, work>>
      PROVE  /\ LetIn' \subseteq LetIn
             /\ Faded => Faded' /\ work' = work
  <2>1. Ends(t) \/ Proceeds(t, [op |-> "delete", at |-> "auth"])
    BY <1>e DEF AfterTargets
  <2>2. ~SignOfLife([op |-> "delete", at |-> "auth"]) /\ Spent([op |-> "delete", at |-> "auth"])
    BY DEF SignOfLife, Spent
  <2>3. QED
    BY <1>b, <1>c, <1>e, <2>1, <2>2
<1>1. CASE RevokeCredentials(t)
  <2>1. call[t] \in [op : {"revoke"}, at : {"read", "disable"}, snap : WorkerRow]
    BY <1>0, <1>1 DEF RevokeCredentials, Call, WorkerOp, RowOp, Free
  <2> DEFINE c == [call[t] EXCEPT !.at = "disable"]
  <2>2. c.op = "revoke" /\ c.at = "disable" /\ c.snap = call[t].snap
    BY <2>1
  <2>3. Proceeds(t, c) /\ UNCHANGED <<workerRow, work>> /\ call[t].at = "read"
        /\ call[t].op = "revoke" /\ call[t] # Free
    BY <1>1 DEF RevokeCredentials, Free
  <2> HIDE DEF c
  <2>4. ~SignOfLife(c)
    BY <2>2 DEF SignOfLife
  <2>5. Spent(call[t]) => Spent(c)
    BY <2>2, <2>3 DEF Spent
  <2>6. QED
    BY <1>a, <2>3, <2>4, <2>5, CallFades
<1>2. CASE RevokeDisables(t)
  <2>1. call[t] \in [op : {"revoke"}, at : {"read", "disable"}, snap : WorkerRow]
    BY <1>0, <1>2 DEF RevokeDisables, Call, WorkerOp, RowOp, Free
  <2>2. workerRow' = [call[t].snap EXCEPT !.status = "disabled"] /\ work' = work
        /\ Proceeds(t, [op |-> "revoke", at |-> "list"])
        /\ call[t].at = "disable" /\ call[t].op = "revoke" /\ call[t] # Free
    BY <1>2 DEF RevokeDisables, Free
  <2>3. workerRow'.seen = call[t].snap.seen /\ call[t].snap # Missing
    BY <2>1, <2>2, OlderRow DEF WorkerRow
  <2>4. Spent(call[t]) => Unseen(workerRow')
    BY <2>2, <2>3 DEF Spent, Unseen
  <2>5. ~SignOfLife([op |-> "revoke", at |-> "list"]) /\ Spent([op |-> "revoke", at |-> "list"])
    BY DEF SignOfLife, Spent
  <2>6. QED
    BY <1>a, <2>2, <2>4, <2>5, CallFades
<1>3. CASE DeleteChecked(t)
  <2>1. ~SignOfLife([op |-> "delete", at |-> "list"]) /\ Spent([op |-> "delete", at |-> "list"])
    BY DEF SignOfLife, Spent
  <2>2. QED
    BY <1>3, <1>b, <2>1 DEF DeleteChecked
<1>4. CASE ListTargets(t)
  <2> DEFINE c == [op |-> call[t].op, at |-> "target", target |-> targetRow]
  <2>1. ~SignOfLife(c) /\ Spent(c)
    BY <1>4 DEF SignOfLife, Spent, ListTargets
  <2>2. (Proceeds(t, c) \/ AfterTargets(t)) /\ UNCHANGED <<workerRow, work>>
    BY <1>4 DEF ListTargets
  <2> HIDE DEF c
  <2>3. QED
    BY <1>b, <1>e, <2>1, <2>2
<1>5. CASE DisableTarget(t)
  BY <1>5, <1>e DEF DisableTarget
<1>6. CASE DeleteCredentials(t)
  <2>1. ~SignOfLife([op |-> "delete", at |-> "row"]) /\ Spent([op |-> "delete", at |-> "row"])
    BY DEF SignOfLife, Spent
  <2>2. QED
    BY <1>6, <1>b, <2>1 DEF DeleteCredentials
<1>7. CASE DeleteRow(t)
  BY <1>7, EndFades DEF DeleteRow, Unseen
<1>8. CASE EligibleFirst(t)
  <2>1. ~Faded /\ UNCHANGED <<workerRow, work>>
    BY <1>8, <1>a DEF EligibleFirst
  <2>2. PICK c : Proceeds(t, c) /\ c.op \in {"newTarget", "dispatch"} /\ c.at = "eligible"
    <3>1. CASE Proceeds(t, [op |-> "newTarget", at |-> "eligible"])
      BY <3>1
    <3>2. ASSUME NEW s \in BOOLEAN,
                 Proceeds(t, [op |-> "dispatch", at |-> "eligible", scheduled |-> s])
          PROVE  \E c : Proceeds(t, c) /\ c.op \in {"newTarget", "dispatch"} /\ c.at = "eligible"
      <4> WITNESS [op |-> "dispatch", at |-> "eligible", scheduled |-> s]
      <4>1. QED
        BY <3>2
    <3>3. QED
      BY <1>8, <3>1, <3>2 DEF EligibleFirst
  <2>3. ~SignOfLife(c)
    BY <2>2 DEF SignOfLife
  <2>4. QED
    BY <2>1, <2>2, <2>3, CallFades
<1>9. CASE SaveNewTarget(t)
  BY <1>9, <1>c DEF SaveNewTarget
<1>10. CASE SaveJob(t)
  <2>1. call[t] \in [op : {"dispatch"}, at : {"eligible"}, scheduled : BOOLEAN]
    BY <1>0, <1>10 DEF SaveJob, Call, WorkerOp, RowOp, Free
  <2>2. ~Spent(call[t])
    BY <2>1 DEF Spent, Free
  <2>3. QED
    BY <1>10, <1>a, <2>2, EndFades DEF SaveJob
<1>11. CASE EnableReads(t)
  <2> DEFINE c == [op |-> "enable", at |-> "read", target |-> targetRow]
  <2>1. ~SignOfLife(c) /\ Spent(c)
    BY DEF SignOfLife, Spent
  <2>2. Proceeds(t, c) /\ UNCHANGED <<workerRow, work>>
    BY <1>11 DEF EnableReads
  <2> HIDE DEF c
  <2>3. QED
    BY <1>b, <2>1, <2>2
<1>12. CASE EnableChecks(t)
  <2>1. call[t] \in [op : {"enable"}, at : {"read", "eligible"}, target : TargetRow]
    BY <1>0, <1>12 DEF EnableChecks, Call, WorkerOp, RowOp, Free
  <2> DEFINE c == [call[t] EXCEPT !.at = "eligible"]
  <2>2. c.op = "enable" /\ c.at = "eligible"
    BY <2>1
  <2>3. /\ UNCHANGED <<workerRow, work>>
        /\ Ends(t) \/ (Proceeds(t, c) /\ Eligible)
    BY <1>12 DEF EnableChecks
  <2> HIDE DEF c
  <2>4. ~SignOfLife(c)
    BY <2>2 DEF SignOfLife
  <2>5. QED
    BY <1>a, <1>c, <2>3, <2>4, CallFades
<1>13. CASE EnableSaves(t)
  BY <1>13, <1>c DEF EnableSaves
<1>14. QED
  BY <1>1, <1>2, <1>3, <1>4, <1>5, <1>6, <1>7, <1>8, <1>9, <1>10, <1>11, <1>12, <1>13

\* Time makes nothing younger.
LEMMA TickFades ==
  ASSUME RegistryTypeOK, RegistryTick
  PROVE  LetIn' \subseteq LetIn /\ (Faded => Faded')
<1>1. \A row : Unseen(row) => Unseen(Older(row))
  BY DEF Unseen, Older
<1>2. workerRow' = Older(workerRow)
  BY DEF RegistryTick
<1>3. ASSUME NEW t \in Caller
      PROVE  /\ SignOfLife(call'[t]) => SignOfLife(call[t])
             /\ Spent(call[t]) => Spent(call'[t])
  <2>0. call[t] \in Call
    BY DEF RegistryTypeOK
  <2>1. CASE call[t].op \in RowOp \union {"revoke"} /\ call[t].at \in {"read", "disable"}
    <3>1. call'[t] = [call[t] EXCEPT !.snap = Older(@)]
      BY <2>1 DEF RegistryTick
    <3>2. \/ call[t] \in [op : RowOp, at : {"read"}, snap : WorkerRow]
          \/ call[t] \in [op : {"register"}, at : {"read"}, snap : {Missing}]
          \/ call[t] \in [op : {"revoke"}, at : {"read", "disable"}, snap : WorkerRow]
      BY <2>0, <2>1 DEF Call, WorkerOp, RowOp, Free
    <3>3. /\ call'[t].op = call[t].op /\ call'[t].at = call[t].at
          /\ call'[t].snap = Older(call[t].snap)
      BY <3>1, <3>2
    <3>4. call[t] # Free
      BY <2>1 DEF Free, RowOp
    <3>5. QED
      BY <1>1, <3>3, <3>4 DEF SignOfLife, Spent
  <2>2. CASE ~(call[t].op \in RowOp \union {"revoke"} /\ call[t].at \in {"read", "disable"})
    BY <2>2 DEF RegistryTick
  <2>3. QED
    BY <2>1, <2>2
<1>4. LetIn' \subseteq LetIn
  BY <1>3 DEF LetIn
<1>5. ASSUME Faded PROVE Faded'
  <2>1. LetIn' = {}
    BY <1>4, <1>5 DEF Faded
  <2>2. Unseen(workerRow')
    BY <1>1, <1>2, <1>5 DEF Faded
  <2>3. \A t \in Caller : Spent(call'[t])
    BY <1>3, <1>5 DEF Faded
  <2>4. QED
    BY <2>1, <2>2, <2>3 DEF Faded, Unseen
<1>6. QED
  BY <1>4, <1>5

\* Once its credentials are gone, a worker is kept alive only by requests that
\* were let in before; and one that has faded out is never dispatched or given
\* anything again, whatever stale rows are saved and whatever the
\* administrator edits, as long as it is not enrolled anew.
THEOREM RevokedWorkerStaysFaded == RegistrySpec => StaysFaded
<1> DEFINE A == credential # "active" /\ credential' # "active"
                  => /\ LetIn' \subseteq LetIn
                     /\ Faded => Faded' /\ ~Eligible' /\ work' \in {work, "none"}
<1>1. ASSUME RegistryTypeOK, [RegistryNext]_registryVars
      PROVE  [A]_registryVars
  <2> SUFFICES ASSUME RegistryNext, credential # "active", credential' # "active"
               PROVE  /\ LetIn' \subseteq LetIn
                      /\ Faded => Faded' /\ work' \in {work, "none"}
    <3>1. Faded' => ~Eligible'
      BY DEF Faded, Unseen, Eligible, WorkerStatus, Missing
    <3>2. QED
      BY <1>1, <3>1
  <2>1. ASSUME NEW t \in Caller,
               \/ Authenticate(t) \/ AdminReadsWorker(t) \/ Enrolled(t)
               \/ DeleteChecked(t) \/ EligibleFirst(t) \/ EnableReads(t) \/ Goon(t)
        PROVE  /\ LetIn' \subseteq LetIn
               /\ Faded => Faded' /\ work' = work
    BY <1>1, <2>1, WorkerRequestFades, AdminRequestFades DEF Goon
  <2>2. CASE JobEnds \/ CancelPending \/ DeleteTarget
    BY <2>2 DEF JobEnds, CancelPending, DeleteTarget, LetIn, Faded
  <2>3. CASE RegistryTick
    BY <1>1, <2>3, TickFades DEF RegistryTick
  <2>4. QED
    BY <2>1, <2>2, <2>3 DEF RegistryNext
<1>2. QED
  BY <1>1, RegistryTypeCorrect, PTL DEF RegistrySpec, StaysFaded

-----------------------------------------------------------------------------
(* SnapshotCatalog: the invariant of every deployment.                     *)

(* What a handler holds: a change that the repository has seen, and, once  *)
(* the generation is bumped, that an entry of it shows; a payload whose    *)
(* entry, if there is one, shows what was reported when it was built; the  *)
(* answer of a sync that the worker is done with.                          *)
Seat(d) ==
  /\ d.at \in {"bump", "save"} =>
       d \in [at : {"bump", "save"}, change : 0..repository]
  /\ d.at = "save" /\ generation \in DOMAIN cached =>
       d.change <= cached[generation]
  /\ d.at = "insert" =>
       /\ d \in [at : {"insert"}, gen : 0..generation, must : 0..reported]
       /\ d.gen \in DOMAIN cached => d.must <= cached[d.gen]
  /\ d.at \in {"replace", "close"} =>
       /\ d \in [at : {"replace", "close"}, job : Sync, seen : 0..repository]
       /\ sync[d.job].status # "pending"
       /\ agent.at \in {"listing", "listed"} => agent.job # d.job

(* A sync whose entry, if there is one, shows what it must show.           *)
Row(r) ==
  \/ r = NoSync
  \/ /\ r \in [status : {"pending", "claimed"}, gen : 0..generation,
               must : 0..reported]
     /\ r.gen \in DOMAIN cached => r.must <= cached[r.gen]

(* The worker's change, listing or answer; a listing that is still a job   *)
(* shows what it must show.                                                *)
Task ==
  /\ agent.at \in {"changed", "waiting"} =>
       agent \in [at : {"changed", "waiting"}, change : 0..repository]
  /\ agent.at = "listing" => agent \in [at : {"listing"}, job : Sync]
  /\ agent.at \in {"listed", "waitingSync"} =>
       /\ agent \in [at : {"listed", "waitingSync"}, job : Sync,
                     seen : 0..repository]
       /\ agent.job \in ActiveSync => sync[agent.job].must <= agent.seen
  /\ agent.at \in {"listing", "listed"} => sync[agent.job].status = "claimed"

(* Entries belong to generations that there were, and one of the present   *)
(* generation was listed after the last bump.                              *)
Entries ==
  /\ DOMAIN cached \subseteq 0..generation
  /\ \A g \in DOMAIN cached : cached[g] \in 0..repository
  /\ generation \in DOMAIN cached => reported <= cached[generation]

Counts ==
  /\ repository \in Nat /\ reported \in 0..repository /\ generation \in Nat

CatalogInv ==
  /\ Counts /\ Entries /\ Task
  /\ sync = [j \in Sync |-> sync[j]] /\ \A j \in Sync : Row(sync[j])
  /\ desk = [h \in Responder |-> desk[h]] /\ \A h \in Responder : Seat(desk[h])

\* The invariant holds at first.
LEMMA CatalogInvInit == CatalogInit => CatalogInv
  BY DEF CatalogInit, CatalogInv, Counts, Entries, Task, Row, Seat, Quit, NoSync

\* A handler moves on, and nothing else happens.
LEMMA HandlerMoves ==
  ASSUME CatalogInv, NEW h \in Responder, NEW d, AtDesk(h, d),
         UNCHANGED <<repository, reported, generation, cached, sync, agent>>,
         Seat(d)
  PROVE  CatalogInv'
<1>1. desk' = [g \in Responder |-> desk'[g]]
  BY DEF CatalogInv, AtDesk
<1>2. \A g \in Responder : desk'[g] = IF g = h THEN d ELSE desk[g]
  BY DEF CatalogInv, AtDesk
<1>3. \A g \in Responder : Seat(desk[g])'
  BY <1>2 DEF CatalogInv, Seat
<1>4. Counts' /\ Entries' /\ Task' /\ \A j \in Sync : Row(sync[j])'
  BY DEF CatalogInv, Counts, Entries, Task, Row, ActiveSync
<1>5. QED
  BY <1>1, <1>3, <1>4 DEF CatalogInv

\* The worker moves on.
LEMMA AgentMoves ==
  ASSUME CatalogInv, NEW a, agent' = a,
         UNCHANGED <<repository, reported, generation, cached, sync, desk>>,
         Task',
         \A h \in Responder : desk[h].at \in {"replace", "close"} =>
           (a.at \in {"listing", "listed"} => a.job # desk[h].job)
  PROVE  CatalogInv'
<1>1. \A g \in Responder : Seat(desk[g])'
  BY DEF CatalogInv, Seat
<1>2. Counts' /\ Entries' /\ \A j \in Sync : Row(sync[j])'
  BY DEF CatalogInv, Counts, Entries, Row
<1>3. QED
  BY <1>1, <1>2 DEF CatalogInv

\* The worker's own steps.
LEMMA WorkerKeeps ==
  ASSUME CatalogInv,
         \/ StartChange \/ ChangeRepository \/ ListFromCache \/ ListRepository
         \/ CacheExpires \/ GoOn
  PROVE  CatalogInv'
<1>0. /\ repository \in Nat /\ reported \in 0..repository /\ generation \in Nat
      /\ Task /\ Entries /\ \A j \in Sync : Row(sync[j])
      /\ \A h \in Responder : Seat(desk[h])
  BY DEF CatalogInv, Counts
<1>1. CASE StartChange
  <2>1. Task'
    BY <1>1 DEF StartChange, Task
  <2>2. QED
    BY <1>1, <2>1, AgentMoves DEF StartChange
<1>2. CASE ChangeRepository
  <2>1. /\ repository' = repository + 1
        /\ agent' \in {[at |-> "changed", change |-> repository'], Quit}
        /\ UNCHANGED <<reported, generation, cached, sync, desk>>
    BY <1>2 DEF ChangeRepository
  <2>2. 0..repository \subseteq 0..repository' /\ repository' \in 0..repository'
    BY <1>0, <2>1
  <2>3. Task'
    BY <2>1, <2>2 DEF Task, Quit
  <2>4. \A h \in Responder : Seat(desk[h])'
    BY <1>0, <2>1, <2>2 DEF Seat, Quit
  <2>5. Counts' /\ Entries' /\ \A j \in Sync : Row(sync[j])'
    BY <1>0, <2>1, <2>2 DEF Counts, Entries, Row
  <2>6. QED
    BY <2>1, <2>3, <2>4, <2>5 DEF CatalogInv
<1>3. ASSUME agent.at = "listing"
      PROVE  /\ agent.job \in Sync /\ agent.job \in ActiveSync
             /\ sync[agent.job].status = "claimed"
             /\ sync[agent.job].gen \in 0..generation
             /\ sync[agent.job].must \in 0..reported
             /\ sync[agent.job].gen \in DOMAIN cached =>
                  sync[agent.job].must <= cached[sync[agent.job].gen]
  <2>1. agent.job \in Sync /\ sync[agent.job].status = "claimed"
    BY <1>0, <1>3 DEF Task
  <2>2. sync[agent.job] # NoSync
    BY <2>1 DEF NoSync
  <2>3. QED
    BY <1>0, <2>1, <2>2 DEF Row, ActiveSync
<1>4. CASE ListFromCache
  <2> DEFINE gen == sync[agent.job].gen
  <2>1. agent.at = "listing" /\ gen \in DOMAIN cached
    BY <1>4 DEF ListFromCache
  <2>2. agent' = [at |-> "listed", job |-> agent.job, seen |-> cached[gen]]
    BY <1>4 DEF ListFromCache
  <2>3. cached[gen] \in 0..repository /\ sync[agent.job].must <= cached[gen]
    BY <1>0, <1>3, <2>1 DEF Entries
  <2>4. UNCHANGED <<repository, sync>>
    BY <1>4 DEF ListFromCache
  <2>5. Task'
    BY <1>3, <2>1, <2>2, <2>3, <2>4 DEF Task, ActiveSync
  <2>6. QED
    BY <1>0, <1>4, <2>1, <2>2, <2>5, AgentMoves DEF ListFromCache, Seat
<1>5. CASE ListRepository
  <2> DEFINE gen == sync[agent.job].gen
  <2>1. /\ agent.at = "listing"
        /\ agent' = [at |-> "listed", job |-> agent.job, seen |-> repository]
        /\ UNCHANGED <<repository, reported, generation, sync, desk>>
    BY <1>5 DEF ListRepository
  <2>2. sync[agent.job].must <= repository
    BY <1>0, <1>3, <2>1
  <2>3. Task'
    BY <1>0, <1>3, <2>1, <2>2 DEF Task, ActiveSync
  <2>4. CASE UNCHANGED cached
    BY <1>0, <2>1, <2>3, <2>4, AgentMoves DEF Seat
  <2>5. CASE cached' = [g \in DOMAIN cached \union {gen} |->
                          IF g = gen THEN repository ELSE cached[g]]
    <3>1. /\ DOMAIN cached' = DOMAIN cached \union {gen}
          /\ \A g \in DOMAIN cached' :
               cached'[g] = IF g = gen THEN repository ELSE cached[g]
      BY <2>5
    <3>2. gen \in 0..generation
      BY <1>3, <2>1
    <3> HIDE DEF gen
    <3>3. Entries'
      BY <1>0, <2>1, <3>1, <3>2 DEF Entries
    <3>4. \A j \in Sync : Row(sync[j])'
      BY <1>0, <2>1, <3>1, <3>2 DEF Row
    <3>5. \A h \in Responder : Seat(desk[h])'
      BY <1>0, <2>1, <3>1, <3>2 DEF Seat
    <3>6. QED
      BY <1>0, <2>1, <2>3, <3>3, <3>4, <3>5 DEF CatalogInv, Counts
  <2>6. QED
    BY <1>5, <2>4, <2>5 DEF ListRepository
<1>6. CASE CacheExpires
  <2>1. UNCHANGED <<repository, reported, generation, sync, agent, desk>>
    BY <1>6 DEF CacheExpires
  <2>2. /\ DOMAIN cached' \subseteq DOMAIN cached
        /\ \A g \in DOMAIN cached' : cached'[g] = cached[g]
    BY <1>6 DEF CacheExpires
  <2>3. Task' /\ Entries' /\ Counts'
    BY <1>0, <2>1, <2>2 DEF Task, Entries, Counts, ActiveSync
  <2>4. \A j \in Sync : Row(sync[j])'
    BY <1>0, <2>1, <2>2 DEF Row
  <2>5. \A h \in Responder : Seat(desk[h])'
    BY <1>0, <2>1, <2>2 DEF Seat
  <2>6. QED
    BY <2>1, <2>3, <2>4, <2>5 DEF CatalogInv
<1>7. CASE GoOn
  <2>1. Task'
    BY <1>7 DEF GoOn, Task, Quit
  <2>2. QED
    BY <1>7, <2>1, AgentMoves DEF GoOn, Quit
<1>8. QED
  BY <1>1, <1>2, <1>4, <1>5, <1>6, <1>7

\* A sync begins, or ends without an answer.
LEMMA SyncKeeps ==
  ASSUME CatalogInv, NEW j \in Sync, StartSync(j) \/ SyncFails(j)
  PROVE  CatalogInv'
<1>0. /\ Counts /\ Task /\ Entries /\ \A i \in Sync : Row(sync[i])
      /\ \A h \in Responder : Seat(desk[h])
      /\ sync = [i \in Sync |-> sync[i]]
  BY DEF CatalogInv
<1>1. CASE StartSync(j)
  <2>1. /\ sync' = [sync EXCEPT ![j].status = "claimed"]
        /\ agent' = [at |-> "listing", job |-> j]
        /\ sync[j].status = "pending"
        /\ UNCHANGED <<repository, reported, generation, cached, desk>>
    BY <1>1 DEF StartSync
  <2>2. sync[j] # NoSync
    BY <2>1 DEF NoSync
  <2>3. /\ sync' = [i \in Sync |-> sync'[i]]
        /\ sync'[j].status = "claimed"
        /\ \A i \in Sync \ {j} : sync'[i] = sync[i]
        /\ sync'[j] = [sync[j] EXCEPT !.status = "claimed"]
    BY <1>0, <2>1, <2>2 DEF Row
  <2>4. \A i \in Sync : Row(sync[i])'
    BY <1>0, <2>1, <2>2, <2>3 DEF Row
  <2>5. Task'
    BY <2>1, <2>3 DEF Task
  <2>6. \A h \in Responder : Seat(desk[h])'
    BY <1>0, <2>1, <2>3 DEF Seat
  <2>7. Entries' /\ Counts'
    BY <1>0, <2>1 DEF Entries, Counts
  <2>8. QED
    BY <2>1, <2>3, <2>4, <2>5, <2>6, <2>7 DEF CatalogInv
<1>2. CASE SyncFails(j)
  <2>1. /\ sync' = [sync EXCEPT ![j] = NoSync]
        /\ agent' = IF agent.at \in {"listing", "listed"} /\ agent.job = j
                    THEN Quit ELSE agent
        /\ UNCHANGED <<repository, reported, generation, cached, desk>>
    BY <1>2 DEF SyncFails
  <2>2. \A i \in Sync : sync'[i] = IF i = j THEN NoSync ELSE sync[i]
    BY <1>0, <2>1
  <2>3. sync' = [i \in Sync |-> sync'[i]]
    BY <1>0, <2>1
  <2>4. \A i \in Sync : Row(sync[i])'
    BY <1>0, <2>1, <2>2 DEF Row
  <2>5. Task'
    BY <1>0, <2>1, <2>2 DEF Task, Quit, ActiveSync
  <2>6. \A h \in Responder : Seat(desk[h])'
    BY <1>0, <2>1, <2>2 DEF Seat, NoSync, Quit
  <2>7. Entries' /\ Counts'
    BY <1>0, <2>1 DEF Entries, Counts
  <2>8. QED
    BY <2>1, <2>3, <2>4, <2>5, <2>6, <2>7 DEF CatalogInv
<1>3. QED
  BY <1>1, <1>2

\* A report reaches a handler.
LEMMA ReportKeeps ==
  ASSUME CatalogInv, NEW h \in Responder, ReportChange(h) \/ ReportSync(h)
  PROVE  CatalogInv'
<1>0. /\ Counts /\ Task /\ Entries /\ \A i \in Sync : Row(sync[i])
      /\ \A g \in Responder : Seat(desk[g])
      /\ desk = [g \in Responder |-> desk[g]]
  BY DEF CatalogInv
<1>1. CASE ReportChange(h)
  <2>1. /\ desk' = [desk EXCEPT ![h] = [at |-> "bump", change |-> agent.change]]
        /\ agent.at = "changed" /\ agent' = [agent EXCEPT !.at = "waiting"]
        /\ UNCHANGED <<repository, reported, generation, cached, sync>>
    BY <1>1 DEF ReportChange, AtDesk
  <2>2. /\ agent.change \in 0..repository
        /\ agent' = [at |-> "waiting", change |-> agent.change]
    BY <1>0, <2>1 DEF Task
  <2>3. Task'
    BY <2>1, <2>2 DEF Task
  <2>4. \A g \in Responder :
          desk'[g] = IF g = h THEN [at |-> "bump", change |-> agent.change]
                     ELSE desk[g]
    BY <1>0, <2>1
  <2>5. \A g \in Responder : Seat(desk[g])'
    BY <1>0, <2>1, <2>2, <2>4 DEF Seat
  <2>6. Entries' /\ Counts' /\ \A i \in Sync : Row(sync[i])'
    BY <1>0, <2>1 DEF Entries, Counts, Row
  <2>7. QED
    BY <1>0, <2>1, <2>3, <2>5, <2>6 DEF CatalogInv
<1>2. CASE ReportSync(h)
  <2> DEFINE d == [at |-> "replace", job |-> agent.job, seen |-> agent.seen]
  <2>1. /\ desk' = [desk EXCEPT ![h] = d]
        /\ agent.at = "listed" /\ agent' = [agent EXCEPT !.at = "waitingSync"]
        /\ UNCHANGED <<repository, reported, generation, cached, sync>>
    BY <1>2 DEF ReportSync, AtDesk
  <2>2. /\ agent.job \in Sync /\ agent.seen \in 0..repository
        /\ agent.job \in ActiveSync => sync[agent.job].must <= agent.seen
        /\ sync[agent.job].status = "claimed"
        /\ agent' = [at |-> "waitingSync", job |-> agent.job, seen |-> agent.seen]
    BY <1>0, <2>1 DEF Task
  <2>3. Task'
    BY <2>1, <2>2 DEF Task, ActiveSync
  <2>4. \A g \in Responder : desk'[g] = IF g = h THEN d ELSE desk[g]
    BY <1>0, <2>1
  <2>5. \A g \in Responder : Seat(desk[g])'
    BY <1>0, <2>1, <2>2, <2>4 DEF Seat
  <2>6. Entries' /\ Counts' /\ \A i \in Sync : Row(sync[i])'
    BY <1>0, <2>1 DEF Entries, Counts, Row
  <2>7. QED
    BY <1>0, <2>1, <2>3, <2>5, <2>6 DEF CatalogInv
<1>3. QED
  BY <1>1, <1>2

\* A success: the generation, and then the row.
LEMMA SuccessKeeps ==
  ASSUME CatalogInv, NEW h \in Responder, Bump(h) \/ SaveSuccess(h)
  PROVE  CatalogInv'
<1>0. /\ Counts /\ Task /\ Entries /\ \A i \in Sync : Row(sync[i])
      /\ \A g \in Responder : Seat(desk[g])
      /\ desk = [g \in Responder |-> desk[g]]
  BY DEF CatalogInv
<1>1. CASE Bump(h)
  <2>1. /\ desk' = [desk EXCEPT ![h] = [desk[h] EXCEPT !.at = "save"]]
        /\ desk[h].at = "bump" /\ generation' = generation + 1
        /\ UNCHANGED <<repository, reported, cached, sync, agent>>
    BY <1>1 DEF Bump, AtDesk
  <2>2. /\ desk[h].change \in 0..repository
        /\ [desk[h] EXCEPT !.at = "save"] = [at |-> "save", change |-> desk[h].change]
    BY <1>0, <2>1 DEF Seat
  <2>3. /\ 0..generation \subseteq 0..generation' /\ generation' \in Nat
        /\ generation' \notin 0..generation
    BY <1>0, <2>1 DEF Counts
  <2>4. generation' \notin DOMAIN cached'
    BY <1>0, <2>1, <2>3 DEF Entries
  <2>5. \A g \in Responder :
          desk'[g] = IF g = h THEN [at |-> "save", change |-> desk[h].change]
                     ELSE desk[g]
    BY <1>0, <2>1, <2>2
  <2>6. \A g \in Responder : Seat(desk[g])'
    BY <1>0, <2>1, <2>2, <2>3, <2>4, <2>5 DEF Seat
  <2>7. Entries' /\ Counts' /\ Task' /\ \A i \in Sync : Row(sync[i])'
    BY <1>0, <2>1, <2>3, <2>4 DEF Entries, Counts, Task, Row, ActiveSync
  <2>8. QED
    BY <1>0, <2>1, <2>6, <2>7 DEF CatalogInv
<1>2. CASE SaveSuccess(h)
  <2>1. /\ desk' = [desk EXCEPT ![h] = [at |-> "schedule"]]
        /\ desk[h].at = "save"
        /\ reported' = IF desk[h].change > reported THEN desk[h].change ELSE reported
        /\ UNCHANGED <<repository, generation, cached, sync, agent>>
    BY <1>2 DEF SaveSuccess, AtDesk
  <2>2. /\ desk[h].change \in 0..repository
        /\ generation \in DOMAIN cached => desk[h].change <= cached[generation]
    BY <1>0, <2>1 DEF Seat
  <2>3. /\ reported' \in 0..repository /\ 0..reported \subseteq 0..reported'
        /\ generation \in DOMAIN cached => reported' <= cached[generation]
    BY <1>0, <2>1, <2>2 DEF Counts, Entries
  <2>4. \A g \in Responder :
          desk'[g] = IF g = h THEN [at |-> "schedule"] ELSE desk[g]
    BY <1>0, <2>1
  <2>5. \A g \in Responder : Seat(desk[g])'
    BY <1>0, <2>1, <2>3, <2>4 DEF Seat
  <2>6. Entries' /\ Counts' /\ Task' /\ \A i \in Sync : Row(sync[i])'
    BY <1>0, <2>1, <2>3 DEF Entries, Counts, Task, Row, ActiveSync
  <2>7. QED
    BY <1>0, <2>1, <2>5, <2>6 DEF CatalogInv
<1>3. QED
  BY <1>1, <1>2

\* A request for a sync, up to the insertion.
LEMMA RequestKeeps ==
  ASSUME CatalogInv, NEW h \in Responder,
         \/ Schedule(h) \/ RequestSync(h) \/ LookForSync(h) \/ SyncRefused(h)
         \/ BuildPayload(h) \/ ReplaceCatalogue(h)
  PROVE  CatalogInv'
<1>0. /\ Counts /\ Entries /\ Seat(desk[h])
      /\ UNCHANGED <<repository, reported, generation, cached, sync, agent>>
  BY DEF CatalogInv, Schedule, RequestSync, LookForSync, SyncRefused,
         BuildPayload, ReplaceCatalogue
<1>1. CASE BuildPayload(h)
  <2> DEFINE d == [at |-> "insert", gen |-> generation, must |-> reported]
  <2>1. Seat(d)
    BY <1>0 DEF Seat, Counts, Entries
  <2>2. QED
    BY <1>0, <1>1, <2>1, HandlerMoves DEF BuildPayload
<1>2. CASE ReplaceCatalogue(h)
  <2> DEFINE d == [desk[h] EXCEPT !.at = "close"]
  <2>1. Seat(d)
    BY <1>0, <1>2 DEF ReplaceCatalogue, Seat
  <2>2. QED
    BY <1>0, <1>2, <2>1, HandlerMoves DEF ReplaceCatalogue
<1>3. CASE Schedule(h) \/ RequestSync(h) \/ LookForSync(h) \/ SyncRefused(h)
  <2>1. PICK d \in {Quit, [at |-> "look"], [at |-> "build"]} : AtDesk(h, d)
    BY <1>3 DEF Schedule, RequestSync, LookForSync, SyncRefused
  <2>2. Seat(d)
    BY DEF Seat, Quit
  <2>3. QED
    BY <1>0, <2>1, <2>2, HandlerMoves
<1>4. QED
  BY <1>1, <1>2, <1>3

\* The row of a sync, inserted and ended.
LEMMA RowKeeps ==
  ASSUME CatalogInv, NEW h \in Responder, InsertSync(h) \/ CloseSync(h)
  PROVE  CatalogInv'
<1>0. /\ Counts /\ Task /\ Entries /\ \A i \in Sync : Row(sync[i])
      /\ \A g \in Responder : Seat(desk[g])
      /\ desk = [g \in Responder |-> desk[g]]
      /\ sync = [i \in Sync |-> sync[i]]
      /\ UNCHANGED <<repository, reported, generation, cached, agent>>
  BY DEF CatalogInv, InsertSync, CloseSync
<1>1. desk' = [desk EXCEPT ![h] = Quit]
  BY DEF InsertSync, CloseSync, AtDesk
<1>2. \A g \in Responder : desk'[g] = IF g = h THEN Quit ELSE desk[g]
  BY <1>0, <1>1
<1>3. Entries' /\ Counts'
  BY <1>0 DEF Entries, Counts
<1>4. CASE InsertSync(h)
  <2>1. PICK j \in Sync :
          /\ Unused(j)
          /\ sync' = [sync EXCEPT ![j] = [status |-> "pending",
                                          gen |-> desk[h].gen,
                                          must |-> desk[h].must]]
    BY <1>4 DEF InsertSync
  <2>2. /\ desk[h].gen \in 0..generation /\ desk[h].must \in 0..reported
        /\ desk[h].gen \in DOMAIN cached => desk[h].must <= cached[desk[h].gen]
    BY <1>0, <1>4 DEF InsertSync, Seat
  <2> DEFINE r == [status |-> "pending", gen |-> desk[h].gen, must |-> desk[h].must]
  <2>3. \A i \in Sync : sync'[i] = IF i = j THEN r ELSE sync[i]
    BY <1>0, <2>1
  <2>4. \A i \in Sync : Row(sync[i])'
    BY <1>0, <2>2, <2>3 DEF Row
  <2>5. Task'
    BY <1>0, <2>1, <2>3 DEF Task, Unused, ActiveSync
  <2>6. \A g \in Responder : Seat(desk[g])'
    BY <1>0, <1>2, <2>1, <2>3 DEF Seat, Unused, Quit
  <2>7. sync' = [i \in Sync |-> sync'[i]]
    BY <1>0, <2>1
  <2>8. QED
    BY <1>0, <1>1, <1>3, <2>4, <2>5, <2>6, <2>7 DEF CatalogInv
<1>5. CASE CloseSync(h)
  <2>1. /\ sync' = [sync EXCEPT ![desk[h].job] = NoSync]
        /\ desk[h].job \in Sync
        /\ agent.at \in {"listing", "listed"} => agent.job # desk[h].job
    BY <1>0, <1>5 DEF CloseSync, Seat
  <2>2. \A i \in Sync : sync'[i] = IF i = desk[h].job THEN NoSync ELSE sync[i]
    BY <1>0, <2>1
  <2>3. \A i \in Sync : Row(sync[i])'
    BY <1>0, <2>2 DEF Row
  <2>4. Task'
    BY <1>0, <2>1, <2>2 DEF Task, ActiveSync
  <2>5. \A g \in Responder : Seat(desk[g])'
    BY <1>0, <1>2, <2>1, <2>2 DEF Seat, Quit, NoSync
  <2>6. sync' = [i \in Sync |-> sync'[i]]
    BY <1>0, <2>1
  <2>7. QED
    BY <1>0, <1>1, <1>3, <2>3, <2>4, <2>5, <2>6 DEF CatalogInv
<1>6. QED
  BY <1>4, <1>5

\* Every step keeps the invariant.
LEMMA CatalogInvStep ==
  ASSUME CatalogInv, [CatalogNext]_catalogVars
  PROVE  CatalogInv'
<1>1. CASE UNCHANGED catalogVars
  BY <1>1 DEF catalogVars, CatalogInv, Counts, Entries, Task, Row, Seat, ActiveSync
<1>2. CASE CatalogNext
  BY <1>2, WorkerKeeps, SyncKeeps, ReportKeeps, SuccessKeeps, RequestKeeps,
     RowKeeps DEF CatalogNext
<1>3. QED
  BY <1>1, <1>2


-----------------------------------------------------------------------------
(* Without Redis, with a worker that waits for its answers.                *)

Patient == ~deployment.redis /\ deployment.patient

(* Where a handler may be whatever the worker does.                        *)
Asking == {"idle", "look", "build", "insert"}

(* The handlers serve the report that the worker waits for, and no other.  *)
OneReport ==
  \A h \in Responder :
    /\ agent.at \notin {"waiting", "waitingSync"} => desk[h].at \in Asking
    /\ agent.at = "waiting" =>
         desk[h].at \in Asking \union {"bump", "save", "schedule"}
    /\ agent.at = "waitingSync" =>
         desk[h].at \in Asking \union {"replace", "close"}
    /\ desk[h].at \in {"replace", "close"} => desk[h].seen = agent.seen

(* The repository does not change under a listing that is on its way.      *)
Fresh ==
  /\ agent.at \in {"listed", "waitingSync"} => agent.seen = repository
  /\ \A h \in Responder : desk[h].at = "close" => catalogue = repository

(* A catalogue that misses a reported change has a sync coming.            *)
Owed ==
  ~gaveUp /\ catalogue < reported =>
    \/ ActiveSync # {}
    \/ \E h \in Responder : desk[h].at \in {"schedule", "look", "build", "insert"}

PatientInv == Patient => OneReport /\ Fresh /\ Owed /\ catalogue \in Nat

\* The invariant holds at first.
LEMMA PatientInvInit == CatalogInit => PatientInv
  BY DEF CatalogInit, PatientInv, OneReport, Fresh, Owed, Asking, Quit

\* The deployment does not change.
LEMMA SameDeployment ==
  ASSUME CatalogNext
  PROVE  deployment' = deployment
  BY DEF CatalogNext, StartChange, ChangeRepository, ListFromCache,
         ListRepository, CacheExpires, GoOn, StartSync, SyncFails, ReportChange,
         ReportSync, Bump, SaveSuccess, Schedule, RequestSync, LookForSync,
         SyncRefused, BuildPayload, InsertSync, ReplaceCatalogue, CloseSync

\* The worker's own steps.
LEMMA WorkerKeepsOwed ==
  ASSUME CatalogInv, Patient, OneReport, Fresh, Owed, catalogue \in Nat,
         \/ StartChange \/ ChangeRepository \/ ListFromCache \/ ListRepository
         \/ CacheExpires \/ GoOn
  PROVE  OneReport' /\ Fresh' /\ Owed' /\ catalogue' \in Nat
<1>0. /\ repository \in Nat /\ reported \in 0..repository
      /\ UNCHANGED <<reported, sync, desk, catalogue, gaveUp>>
  BY DEF CatalogInv, Counts, StartChange, ChangeRepository, ListFromCache,
         ListRepository, CacheExpires, GoOn
<1>1. Owed' /\ catalogue' \in Nat
  BY <1>0 DEF Owed, ActiveSync
<1>2. CASE StartChange
  BY <1>0, <1>1, <1>2 DEF StartChange, OneReport, Fresh, Asking, Quit
<1>3. CASE ChangeRepository
  BY <1>0, <1>1, <1>3 DEF ChangeRepository, OneReport, Fresh, Asking, Quit
<1>4. CASE ListFromCache
  BY <1>4 DEF ListFromCache, Patient
<1>5. CASE ListRepository
  BY <1>0, <1>1, <1>5 DEF ListRepository, OneReport, Fresh, Asking
<1>6. CASE CacheExpires
  BY <1>0, <1>1, <1>6 DEF CacheExpires, OneReport, Fresh
<1>7. CASE GoOn
  <2>1. /\ agent' = Quit /\ UNCHANGED repository
        /\ \A h \in Responder : desk[h].at \in Asking
    BY <1>7 DEF GoOn, Patient, Quit, Asking
  <2>2. QED
    BY <1>0, <1>1, <2>1 DEF OneReport, Fresh, Asking, Quit
<1>8. QED
  BY <1>2, <1>3, <1>4, <1>5, <1>6, <1>7

\* A sync begins, or ends without an answer.
LEMMA SyncKeepsOwed ==
  ASSUME CatalogInv, Patient, OneReport, Fresh, Owed, catalogue \in Nat,
         NEW j \in Sync, StartSync(j) \/ SyncFails(j)
  PROVE  OneReport' /\ Fresh' /\ Owed' /\ catalogue' \in Nat
<1>0. UNCHANGED <<repository, reported, desk, catalogue>>
  BY DEF StartSync, SyncFails
<1>1. CASE StartSync(j)
  <2>1. /\ agent = Quit /\ agent' = [at |-> "listing", job |-> j]
        /\ sync' = [sync EXCEPT ![j].status = "claimed"]
        /\ UNCHANGED gaveUp
    BY <1>1 DEF StartSync
  <2>2. ActiveSync # {} => ActiveSync' # {}
    <3>1. \A i \in Sync : sync[i] # NoSync => sync'[i] # NoSync
      BY <2>1 DEF CatalogInv, Row, NoSync
    <3>2. QED
      BY <3>1 DEF ActiveSync
  <2>3. QED
    BY <1>0, <2>1, <2>2 DEF OneReport, Fresh, Owed, Asking, Quit
<1>2. CASE SyncFails(j)
  <2>1. gaveUp'
    BY <1>2 DEF SyncFails
  <2>2. \/ agent' = agent
        \/ agent' = Quit /\ agent.at \in {"listing", "listed"}
    BY <1>2 DEF SyncFails
  <2>3. QED
    BY <1>0, <2>1, <2>2 DEF OneReport, Fresh, Owed, Asking, Quit
<1>3. QED
  BY <1>1, <1>2

\* A report reaches a handler.
LEMMA ReportKeepsOwed ==
  ASSUME CatalogInv, Patient, OneReport, Fresh, Owed, catalogue \in Nat,
         NEW h \in Responder, ReportChange(h) \/ ReportSync(h)
  PROVE  OneReport' /\ Fresh' /\ Owed' /\ catalogue' \in Nat
<1>0. /\ UNCHANGED <<repository, reported, sync, catalogue, gaveUp>>
      /\ desk[h] = Quit
      /\ desk' = [desk EXCEPT ![h] = desk'[h]]
      /\ \A g \in Responder \ {h} : desk'[g] = desk[g]
  BY DEF ReportChange, ReportSync, AtDesk, CatalogInv
<1>1. Owed' /\ catalogue' \in Nat
  BY <1>0 DEF Owed, ActiveSync, Quit
<1>2. CASE ReportChange(h)
  <2>1. /\ desk'[h] = [at |-> "bump", change |-> agent.change]
        /\ agent.at = "changed" /\ agent'.at = "waiting"
    BY <1>2 DEF ReportChange, AtDesk, CatalogInv, Task
  <2>2. QED
    BY <1>0, <1>1, <2>1 DEF OneReport, Fresh, Asking
<1>3. CASE ReportSync(h)
  <2>1. /\ desk'[h] = [at |-> "replace", job |-> agent.job, seen |-> agent.seen]
        /\ agent.at = "listed"
        /\ agent'.at = "waitingSync" /\ agent'.seen = agent.seen
    BY <1>3 DEF ReportSync, AtDesk, CatalogInv, Task
  <2>2. QED
    BY <1>0, <1>1, <2>1 DEF OneReport, Fresh, Asking
<1>4. QED
  BY <1>2, <1>3

\* A success, and a request for a sync up to the insertion.
LEMMA HandlerKeepsOwed ==
  ASSUME CatalogInv, Patient, OneReport, Fresh, Owed, catalogue \in Nat,
         NEW h \in Responder,
         \/ Bump(h) \/ SaveSuccess(h) \/ Schedule(h) \/ RequestSync(h)
         \/ LookForSync(h) \/ SyncRefused(h) \/ BuildPayload(h)
  PROVE  OneReport' /\ Fresh' /\ Owed' /\ catalogue' \in Nat
<1>0. /\ UNCHANGED <<repository, sync, catalogue, agent>>
      /\ \A g \in Responder \ {h} : desk'[g] = desk[g]
      /\ ActiveSync' = ActiveSync
  BY DEF Bump, SaveSuccess, Schedule, RequestSync, LookForSync, SyncRefused,
         BuildPayload, AtDesk, CatalogInv, ActiveSync
<1>1. CASE Bump(h)
  <2>1. /\ desk[h].at = "bump" /\ desk'[h].at = "save"
        /\ UNCHANGED <<reported, gaveUp>>
    BY <1>1 DEF Bump, AtDesk, CatalogInv, Seat
  <2>2. QED
    BY <1>0, <2>1 DEF OneReport, Fresh, Owed, Asking
<1>2. CASE SaveSuccess(h)
  <2>1. desk[h].at = "save" /\ desk'[h].at = "schedule"
    BY <1>2 DEF SaveSuccess, AtDesk, CatalogInv
  <2>2. QED
    BY <1>0, <2>1 DEF OneReport, Fresh, Owed, Asking
<1>3. CASE Schedule(h) \/ LookForSync(h)
  <2>1. /\ desk[h].at \in {"schedule", "look"}
        /\ desk'[h].at \in {"idle", "look", "build"}
        /\ ActiveSync = {} => desk'[h].at \in {"look", "build"}
        /\ UNCHANGED <<reported, gaveUp>>
    BY <1>3 DEF Schedule, LookForSync, AtDesk, CatalogInv, Quit
  <2>2. QED
    BY <1>0, <2>1 DEF OneReport, Fresh, Owed, Asking
<1>4. CASE RequestSync(h) \/ BuildPayload(h)
  <2>1. /\ desk'[h].at \in {"look", "insert"}
        /\ UNCHANGED <<reported, gaveUp>>
    BY <1>4 DEF RequestSync, BuildPayload, AtDesk, CatalogInv
  <2>2. QED
    BY <1>0, <2>1 DEF OneReport, Fresh, Owed, Asking
<1>5. CASE SyncRefused(h)
  <2>1. desk'[h].at = "idle" /\ gaveUp'
    BY <1>5 DEF SyncRefused, AtDesk, CatalogInv, Quit
  <2>2. QED
    BY <1>0, <2>1 DEF OneReport, Fresh, Owed, Asking
<1>6. QED
  BY <1>1, <1>2, <1>3, <1>4, <1>5

\* The row of a sync, inserted and ended, and the catalogue.
LEMMA RowKeepsOwed ==
  ASSUME CatalogInv, Patient, OneReport, Fresh, Owed, catalogue \in Nat,
         NEW h \in Responder,
         InsertSync(h) \/ ReplaceCatalogue(h) \/ CloseSync(h)
  PROVE  OneReport' /\ Fresh' /\ Owed' /\ catalogue' \in Nat
<1>0. /\ UNCHANGED <<repository, reported, agent>>
      /\ \A g \in Responder \ {h} : desk'[g] = desk[g]
      /\ repository \in Nat /\ reported \in 0..repository
      /\ sync = [i \in Sync |-> sync[i]]
  BY DEF InsertSync, ReplaceCatalogue, CloseSync, AtDesk, CatalogInv, Counts
<1>1. CASE InsertSync(h)
  <2>1. desk'[h].at = "idle" /\ UNCHANGED catalogue
    BY <1>1 DEF InsertSync, AtDesk, CatalogInv, Quit
  <2>2. PICK j \in Sync :
          sync' = [sync EXCEPT ![j] = [status |-> "pending",
                                       gen |-> desk[h].gen,
                                       must |-> desk[h].must]]
    BY <1>1 DEF InsertSync
  <2>3. sync'[j].status = "pending"
    BY <1>0, <2>2
  <2>4. ActiveSync' # {}
    BY <2>3 DEF ActiveSync, NoSync
  <2>5. QED
    BY <1>0, <2>1, <2>4 DEF OneReport, Fresh, Owed, Asking
<1>2. CASE ReplaceCatalogue(h)
  <2>1. /\ desk[h].at = "replace" /\ desk'[h].at = "close"
        /\ desk'[h].seen = desk[h].seen /\ catalogue' = desk[h].seen
    BY <1>2 DEF ReplaceCatalogue, AtDesk, CatalogInv, Seat
  <2>2. agent.at = "waitingSync" /\ catalogue' = repository
    BY <2>1 DEF OneReport, Fresh, Asking
  <2>3. QED
    BY <1>0, <2>1, <2>2 DEF OneReport, Fresh, Owed, Asking
<1>3. CASE CloseSync(h)
  <2>1. /\ desk[h].at = "close" /\ desk'[h].at = "idle"
        /\ UNCHANGED catalogue
    BY <1>3 DEF CloseSync, AtDesk, CatalogInv, Quit
  <2>2. ~(catalogue' < reported')
    BY <1>0, <2>1 DEF Fresh
  <2>3. QED
    BY <1>0, <2>1, <2>2 DEF OneReport, Fresh, Owed, Asking
<1>4. QED
  BY <1>1, <1>2, <1>3

\* Every step keeps the invariant.
LEMMA PatientInvStep ==
  ASSUME CatalogInv, PatientInv, [CatalogNext]_catalogVars
  PROVE  PatientInv'
<1>1. CASE UNCHANGED catalogVars
  BY <1>1 DEF catalogVars, PatientInv, Patient, OneReport, Fresh, Owed, ActiveSync
<1>2. CASE CatalogNext
  <2>1. SUFFICES ASSUME Patient
                 PROVE  OneReport' /\ Fresh' /\ Owed' /\ catalogue' \in Nat
    BY <1>2, SameDeployment DEF PatientInv, Patient
  <2>2. OneReport /\ Fresh /\ Owed /\ catalogue \in Nat
    BY <2>1 DEF PatientInv
  <2>3. QED
    BY <1>2, <2>1, <2>2, WorkerKeepsOwed, SyncKeepsOwed, ReportKeepsOwed,
       HandlerKeepsOwed, RowKeepsOwed DEF CatalogNext
<1>3. QED
  BY <1>1, <1>2

\* What a sync shows, and what the catalogue shows when nothing is under way.
THEOREM CatalogFollowsTheRepository == CatalogSpec => []CatalogFollows
<1>1. CatalogInit => CatalogInv /\ PatientInv
  BY CatalogInvInit, PatientInvInit
<1>2. CatalogInv /\ PatientInv /\ [CatalogNext]_catalogVars =>
        CatalogInv' /\ PatientInv'
  BY CatalogInvStep, PatientInvStep
<1>3. CatalogInv /\ PatientInv => CatalogFollows
  <2>1. ASSUME CatalogInv
        PROVE  SyncShowsReportedChanges
    <3>1. SUFFICES ASSUME agent.at \in {"listed", "waitingSync"},
                          agent.job \in ActiveSync
                   PROVE  agent.seen >= sync[agent.job].must
      BY DEF SyncShowsReportedChanges
    <3>2. sync[agent.job].must <= agent.seen
      BY <2>1, <3>1 DEF CatalogInv, Task
    <3>3. QED
      BY <3>2
  <2>2. ASSUME CatalogInv, PatientInv
        PROVE  CatalogCompleteWithoutCache
    <3>1. SUFFICES ASSUME Patient, Settled
                   PROVE  catalogue >= reported
      BY DEF CatalogCompleteWithoutCache, Patient
    <3>2. ~(catalogue < reported)
      BY <2>2, <3>1 DEF PatientInv, Owed, Settled, Quit
    <3>3. catalogue \in Nat /\ reported \in Int
      BY <2>2, <3>1 DEF PatientInv, CatalogInv, Counts
    <3>4. QED
      BY <3>2, <3>3
  <2>3. QED
    BY <2>1, <2>2 DEF CatalogFollows
<1>4. QED
  BY <1>1, <1>2, <1>3, PTL DEF CatalogSpec

-----------------------------------------------------------------------------
(* SnapshotCatalog: types.                                                 *)

(* Handlers that have a success to count, and what is counted: no more      *)
(* generations than changes of the repository, each success at most once.   *)
Bumping == {h \in Responder : desk[h].at = "bump"}

CountedOnce ==
  /\ IsFiniteSet(Bumping)
  /\ generation + Cardinality(Bumping) + (IF agent.at = "changed" THEN 1 ELSE 0)
       <= repository
  /\ agent.at = "changing" => repository < MaxChange

CatalogTypes == CatalogTypeOK /\ CountedOnce

LEMMA CatalogTypesInit == CatalogInit => CatalogTypes
<1> SUFFICES ASSUME CatalogInit PROVE CatalogTypes
  OBVIOUS
<1>1. MaxChange \in Nat /\ 0 \in Change
  BY CatalogAssumption DEF CatalogAssumption, Change
<1>2. Bumping = {}
  BY DEF CatalogInit, Bumping, Quit
<1>3. IsFiniteSet(Bumping) /\ Cardinality(Bumping) = 0
  BY <1>2, FS_EmptySet
<1>4. CountedOnce
  BY <1>1, <1>3 DEF CatalogInit, CountedOnce, Quit
<1>5. \E G \in SUBSET Change : cached \in [G -> Change]
  <2>1. cached \in [{} -> Change]
    BY DEF CatalogInit
  <2>2. QED
    BY <2>1
<1>6. CatalogTypeOK
  BY <1>1, <1>5 DEF CatalogInit, CatalogTypeOK, Agent, Desk
<1>7. QED
  BY <1>4, <1>6 DEF CatalogTypes

\* A change that leaves the successes to be counted alone.
LEMMA NothingToCount ==
  ASSUME CatalogTypes, UNCHANGED <<repository, generation>>,
         agent'.at = agent.at \/ agent'.at \notin {"changed", "changing"},
         \A h \in Responder : desk'[h].at = "bump" <=> desk[h].at = "bump"
  PROVE  CountedOnce'
<1>1. Bumping' = Bumping
  BY DEF Bumping
<1>2. /\ repository \in Int /\ generation \in Int
  BY DEF CatalogTypes, CatalogTypeOK, Change
<1>3. IsFiniteSet(Bumping) /\ Cardinality(Bumping) \in Nat
  BY FS_CardinalityType DEF CatalogTypes, CountedOnce
<1> DEFINE size == Cardinality(Bumping)
<1>4. size \in Nat /\ Cardinality(Bumping') = size
  BY <1>1, <1>3
<1>5. generation + size + (IF agent.at = "changed" THEN 1 ELSE 0) <= repository
  BY DEF CatalogTypes, CountedOnce
<1>6. generation + size + (IF agent'.at = "changed" THEN 1 ELSE 0) <= repository
  <2> HIDE DEF size
  <2>1. QED
    BY <1>2, <1>4, <1>5
<1>7. agent'.at = "changing" => repository < MaxChange
  BY DEF CatalogTypes, CountedOnce
<1>8. QED
  BY <1>1, <1>3, <1>4, <1>6, <1>7 DEF CountedOnce

\* A handler moves on, and nothing is counted.
LEMMA SeatTypes ==
  ASSUME CatalogTypes, NEW h \in Responder, NEW d \in Desk, AtDesk(h, d),
         UNCHANGED <<repository, generation, agent>>,
         d.at # "bump", desk[h].at # "bump"
  PROVE  desk' \in [Responder -> Desk] /\ CountedOnce'
<1>1. desk' \in [Responder -> Desk]
  BY DEF CatalogTypes, CatalogTypeOK, AtDesk
<1>2. \A g \in Responder : desk'[g] = IF g = h THEN d ELSE desk[g]
  BY DEF CatalogTypes, CatalogTypeOK, AtDesk
<1>3. QED
  BY <1>1, <1>2, NothingToCount

\* The worker's own steps.
LEMMA WorkerTypes ==
  ASSUME CatalogInv, CatalogTypes,
         \/ StartChange \/ ChangeRepository \/ ListFromCache \/ ListRepository
         \/ CacheExpires \/ GoOn
  PROVE  CatalogTypes'
<1> USE DEF CatalogTypes
<1>0. /\ MaxChange \in Nat /\ Change = 0..MaxChange /\ Change \subseteq Nat
      /\ repository \in Change /\ generation \in Change /\ agent \in Agent
      /\ \A G : G \in SUBSET Change => G \subseteq Change
  BY CatalogAssumption DEF CatalogAssumption, Change, CatalogTypeOK
<1>a. PICK G \in SUBSET Change : cached \in [G -> Change]
  BY DEF CatalogTypeOK
<1>1. CASE StartChange
  <2>1. [at |-> "changing"] \in Agent
    BY DEF Agent
  <2>2. CatalogTypeOK'
    BY <1>1, <2>1 DEF StartChange, CatalogTypeOK
  <2>3. CountedOnce'
    <3>1. Bumping' = Bumping
      BY <1>1 DEF StartChange, Bumping
    <3>2. agent.at # "changed" /\ repository < MaxChange /\ agent'.at = "changing"
          /\ UNCHANGED <<repository, generation>>
      BY <1>1 DEF StartChange, Quit
    <3>3. QED
      BY <3>1, <3>2 DEF CountedOnce
  <2>4. QED
    BY <2>2, <2>3
<1>2. CASE ChangeRepository
  <2>1. /\ repository' = repository + 1 /\ repository < MaxChange
        /\ agent.at = "changing"
        /\ agent' \in {[at |-> "changed", change |-> repository'], Quit}
        /\ UNCHANGED <<deployment, reported, generation, cached, sync, catalogue, desk, gaveUp>>
    BY <1>2 DEF ChangeRepository, CountedOnce
  <2>2. repository' \in Change
    BY <1>0, <2>1
  <2>3. agent' \in Agent
    BY <2>1, <2>2 DEF Agent
  <2>4. CatalogTypeOK'
    BY <2>1, <2>2, <2>3 DEF CatalogTypeOK
  <2>5. CountedOnce'
    <3> DEFINE size == Cardinality(Bumping)
    <3>1. Bumping' = Bumping /\ IsFiniteSet(Bumping) /\ size \in Nat
      BY <2>1, FS_CardinalityType DEF Bumping, CountedOnce
    <3>2. generation + size <= repository
      BY <1>0, <2>1, <3>1 DEF CountedOnce
    <3>3. generation + size + (IF agent'.at = "changed" THEN 1 ELSE 0) <= repository + 1
      <4> HIDE DEF size
      <4>1. QED
        BY <1>0, <3>1, <3>2
    <3>4. agent'.at # "changing"
      BY <2>1 DEF Quit
    <3>5. QED
      BY <2>1, <3>1, <3>3, <3>4 DEF CountedOnce
  <2>6. QED
    BY <2>4, <2>5
<1>b. ASSUME agent.at = "listing"
      PROVE  agent.job \in Sync
  BY <1>0, <1>b DEF Agent, Quit
<1>3. CASE ListFromCache
  <2>1. agent' = [at |-> "listed", job |-> agent.job, seen |-> cached[sync[agent.job].gen]]
        /\ sync[agent.job].gen \in DOMAIN cached /\ agent.at = "listing"
    BY <1>3 DEF ListFromCache
  <2>2. cached[sync[agent.job].gen] \in Change
    BY <1>a, <2>1
  <2>3. agent' \in Agent
    BY <1>b, <2>1, <2>2 DEF Agent
  <2>4. CatalogTypeOK'
    BY <1>3, <2>3 DEF ListFromCache, CatalogTypeOK
  <2>5. CountedOnce'
    BY <1>3, <2>1, NothingToCount DEF ListFromCache
  <2>6. QED
    BY <2>4, <2>5
<1>4. CASE ListRepository
  <2> DEFINE gen == sync[agent.job].gen
  <2>1. agent' = [at |-> "listed", job |-> agent.job, seen |-> repository]
        /\ agent.at = "listing"
        /\ UNCHANGED <<deployment, repository, reported, generation, sync, catalogue, desk, gaveUp>>
    BY <1>4 DEF ListRepository
  <2>2. agent' \in Agent
    BY <1>0, <1>b, <2>1 DEF Agent
  <2>3. \E H \in SUBSET Change : cached' \in [H -> Change]
    <3>1. CASE UNCHANGED cached
      BY <1>a, <3>1
    <3>2. CASE cached' = [g \in DOMAIN cached \union {gen} |->
                            IF g = gen THEN repository ELSE cached[g]]
      <4>1. gen \in Change
        <5>1. sync[agent.job] # NoSync /\ Row(sync[agent.job])
          BY <1>b, <2>1 DEF CatalogInv, Task, NoSync
        <5>2. gen \in 0..generation
          BY <5>1 DEF Row
        <5>3. QED
          BY <1>0, <5>2
      <4> DEFINE H == G \union {gen}
      <4>2. H \in SUBSET Change
        BY <1>a, <4>1
      <4>3. cached' \in [H -> Change]
        BY <1>0, <1>a, <3>2
      <4>4. QED
        BY <4>2, <4>3
    <3>3. QED
      BY <1>4, <3>1, <3>2 DEF ListRepository
  <2>4. CatalogTypeOK'
    BY <2>1, <2>2, <2>3 DEF CatalogTypeOK
  <2>5. CountedOnce'
    BY <2>1, NothingToCount
  <2>6. QED
    BY <2>4, <2>5
<1>5. CASE CacheExpires
  <2>1. PICK g \in DOMAIN cached : cached' = [f \in DOMAIN cached \ {g} |-> cached[f]]
    BY <1>5 DEF CacheExpires
  <2>2. G \ {g} \in SUBSET Change /\ cached' \in [G \ {g} -> Change]
    BY <1>a, <2>1
  <2>3. CatalogTypeOK'
    BY <1>5, <2>2 DEF CacheExpires, CatalogTypeOK
  <2>4. CountedOnce'
    BY <1>5, NothingToCount DEF CacheExpires
  <2>5. QED
    BY <2>3, <2>4
<1>6. CASE GoOn
  <2>1. agent' = Quit /\ Quit \in Agent
    BY <1>6 DEF GoOn, Agent
  <2>2. CatalogTypeOK'
    BY <1>6, <2>1 DEF GoOn, CatalogTypeOK
  <2>3. CountedOnce'
    BY <1>6, <2>1, NothingToCount DEF GoOn, Quit
  <2>4. QED
    BY <2>2, <2>3
<1>7. QED
  BY <1>1, <1>2, <1>3, <1>4, <1>5, <1>6

\* A report reaches a handler, and a success is counted.
LEMMA ReportTypes ==
  ASSUME CatalogTypes, NEW h \in Responder,
         ReportChange(h) \/ ReportSync(h) \/ Bump(h)
  PROVE  CatalogTypes'
<1> USE DEF CatalogTypes
<1> DEFINE size == Cardinality(Bumping)
<1>0. /\ MaxChange \in Nat /\ Change = 0..MaxChange /\ Change \subseteq Nat
      /\ repository \in Change /\ generation \in Change /\ agent \in Agent
      /\ desk \in [Responder -> Desk] /\ IsFiniteSet(Bumping) /\ size \in Nat
  BY CatalogAssumption, FS_CardinalityType DEF CatalogAssumption, Change, CatalogTypeOK, CountedOnce
<1>1. CASE ReportChange(h)
  <2> DEFINE d == [at |-> "bump", change |-> agent.change]
  <2>1. /\ agent.at = "changed" /\ desk[h] = Quit
        /\ desk' = [desk EXCEPT ![h] = d]
        /\ agent' = [agent EXCEPT !.at = "waiting"]
        /\ UNCHANGED <<deployment, repository, reported, generation, cached, sync, catalogue, gaveUp>>
    BY <1>1 DEF ReportChange, AtDesk
  <2>2. agent \in [at : {"changed", "waiting"}, change : Change]
    BY <1>0, <2>1 DEF Agent, Quit
  <2>3. agent' \in [at : {"changed", "waiting"}, change : Change] /\ agent'.at = "waiting"
    BY <2>1, <2>2
  <2>4. agent' \in Agent
    BY <2>3 DEF Agent
  <2>5. d \in Desk
    BY <2>2 DEF Desk
  <2>6. CatalogTypeOK'
    BY <1>0, <2>1, <2>4, <2>5 DEF CatalogTypeOK
  <2>7. Bumping' = Bumping \union {h} /\ h \notin Bumping
    BY <1>0, <2>1 DEF Bumping, Quit
  <2>8. IsFiniteSet(Bumping') /\ Cardinality(Bumping') = size + 1
    BY <1>0, <2>7, FS_AddElement
  <2>9. generation + size + 1 <= repository
    BY <2>1 DEF CountedOnce
  <2>10. generation + (size + 1) <= repository
    <3> HIDE DEF size
    <3>1. QED
      BY <1>0, <2>9
  <2>11. CountedOnce'
    <3>1. agent'.at # "changed" /\ agent'.at # "changing"
      BY <2>3
    <3>2. generation' + Cardinality(Bumping') + 0 <= repository'
      <4> HIDE DEF size
      <4>1. QED
        BY <1>0, <2>1, <2>8, <2>10
    <3>3. QED
      BY <2>8, <3>1, <3>2 DEF CountedOnce
  <2>12. QED
    BY <2>6, <2>11
<1>2. CASE ReportSync(h)
  <2> DEFINE d == [at |-> "replace", job |-> agent.job, seen |-> agent.seen]
  <2>1. /\ agent.at = "listed" /\ desk[h] = Quit
        /\ desk' = [desk EXCEPT ![h] = d]
        /\ agent' = [agent EXCEPT !.at = "waitingSync"]
        /\ UNCHANGED <<deployment, repository, reported, generation, cached, sync, catalogue, gaveUp>>
    BY <1>2 DEF ReportSync, AtDesk
  <2>2. agent \in [at : {"listed", "waitingSync"}, job : Sync, seen : Change]
    BY <1>0, <2>1 DEF Agent, Quit
  <2>3. agent' \in [at : {"listed", "waitingSync"}, job : Sync, seen : Change]
        /\ agent'.at = "waitingSync"
    BY <2>1, <2>2
  <2>4. agent' \in Agent
    BY <2>3 DEF Agent
  <2>5. d \in Desk
    BY <2>2 DEF Desk
  <2>6. CatalogTypeOK'
    BY <1>0, <2>1, <2>4, <2>5 DEF CatalogTypeOK
  <2>7. \A g \in Responder : desk'[g].at = "bump" <=> desk[g].at = "bump"
    BY <1>0, <2>1 DEF Quit
  <2>8. CountedOnce'
    BY <2>1, <2>3, <2>7, NothingToCount
  <2>9. QED
    BY <2>6, <2>8
<1>3. CASE Bump(h)
  <2> DEFINE d == [desk[h] EXCEPT !.at = "save"]
  <2>1. /\ desk[h].at = "bump" /\ generation' = generation + 1
        /\ desk' = [desk EXCEPT ![h] = d]
        /\ UNCHANGED <<deployment, repository, reported, cached, sync, catalogue, agent, gaveUp>>
    BY <1>3 DEF Bump, AtDesk
  <2>2. desk[h] \in [at : {"bump", "save"}, change : Change]
    BY <1>0, <2>1 DEF Desk, Quit
  <2>3. d \in [at : {"bump", "save"}, change : Change] /\ d.at = "save"
    BY <2>2
  <2>4. d \in Desk
    BY <2>3 DEF Desk
  <2>5. Bumping' = Bumping \ {h} /\ h \in Bumping
    BY <1>0, <2>1, <2>3 DEF Bumping
  <2>6. IsFiniteSet(Bumping') /\ Cardinality(Bumping') = size - 1
    BY <1>0, <2>5, FS_RemoveElement
  <2>7. generation + size + (IF agent.at = "changed" THEN 1 ELSE 0) <= repository
        /\ (agent.at = "changing" => repository < MaxChange)
    BY DEF CountedOnce
  <2>8. generation' + Cardinality(Bumping') + (IF agent.at = "changed" THEN 1 ELSE 0) <= repository
    <3> HIDE DEF size
    <3>1. QED
      BY <1>0, <2>1, <2>6, <2>7
  <2>9. CountedOnce'
    BY <2>1, <2>6, <2>7, <2>8 DEF CountedOnce
  <2>10. Cardinality(Bumping') \in Nat
    BY <2>6, FS_CardinalityType
  <2>11. generation' \in Change
    BY <1>0, <2>1, <2>8, <2>10
  <2>12. CatalogTypeOK'
    BY <1>0, <2>1, <2>4, <2>11 DEF CatalogTypeOK
  <2>13. QED
    BY <2>9, <2>12
<1>4. QED
  BY <1>1, <1>2, <1>3

\* The other steps of the handlers.
LEMMA DeskTypes ==
  ASSUME CatalogTypes, NEW h \in Responder,
         \/ SaveSuccess(h) \/ Schedule(h) \/ RequestSync(h) \/ LookForSync(h)
         \/ SyncRefused(h) \/ BuildPayload(h) \/ InsertSync(h)
         \/ ReplaceCatalogue(h) \/ CloseSync(h)
  PROVE  CatalogTypes'
<1> USE DEF CatalogTypes
<1>0. /\ repository \in Change /\ generation \in Change /\ reported \in Change
      /\ desk \in [Responder -> Desk] /\ sync \in [Sync -> SyncRow \union {NoSync}]
      /\ UNCHANGED <<repository, generation, agent>>
  BY DEF CatalogTypeOK, SaveSuccess, Schedule, RequestSync, LookForSync, SyncRefused,
         BuildPayload, InsertSync, ReplaceCatalogue, CloseSync
<1>1. Quit \in Desk /\ [at |-> "schedule"] \in Desk /\ [at |-> "look"] \in Desk
      /\ [at |-> "build"] \in Desk
  BY DEF Desk
<1>2. desk[h] \in Desk
  BY <1>0
<1>3. CASE SaveSuccess(h)
  <2>1. desk[h].change \in Change
    BY <1>2, <1>3 DEF SaveSuccess, Desk, Quit
  <2>2. reported' \in Change
    BY <1>0, <1>3, <2>1 DEF SaveSuccess
  <2>3. desk' \in [Responder -> Desk] /\ CountedOnce'
    BY <1>0, <1>1, <1>3, SeatTypes DEF SaveSuccess
  <2>4. QED
    BY <1>3, <2>2, <2>3 DEF SaveSuccess, CatalogTypeOK
<1>4. CASE Schedule(h) \/ RequestSync(h) \/ LookForSync(h) \/ SyncRefused(h)
  <2>1. PICK d \in {Quit, [at |-> "look"], [at |-> "build"]} : AtDesk(h, d)
    BY <1>4 DEF Schedule, RequestSync, LookForSync, SyncRefused
  <2>2. d \in Desk /\ d.at # "bump"
    BY <1>1 DEF Quit
  <2>3. desk[h].at # "bump" /\ gaveUp' \in {gaveUp, TRUE}
        /\ UNCHANGED <<deployment, reported, cached, sync, catalogue>>
    <3>1. CASE Schedule(h)
      BY <3>1 DEF Schedule
    <3>2. CASE RequestSync(h)
      BY <3>2 DEF RequestSync, Quit
    <3>3. CASE LookForSync(h)
      BY <3>3 DEF LookForSync
    <3>4. CASE SyncRefused(h)
      BY <3>4 DEF SyncRefused
    <3>5. QED
      BY <1>4, <3>1, <3>2, <3>3, <3>4
  <2>4. desk' \in [Responder -> Desk] /\ CountedOnce'
    BY <1>0, <2>1, <2>2, <2>3, SeatTypes
  <2>5. gaveUp' \in BOOLEAN
    BY <2>3 DEF CatalogTypeOK
  <2>6. QED
    BY <1>0, <2>3, <2>4, <2>5 DEF CatalogTypeOK
<1>5. CASE BuildPayload(h)
  <2> DEFINE d == [at |-> "insert", gen |-> generation, must |-> reported]
  <2>1. d \in Desk
    BY <1>0 DEF Desk
  <2>2. desk' \in [Responder -> Desk] /\ CountedOnce'
    BY <1>0, <1>5, <2>1, SeatTypes DEF BuildPayload
  <2>3. QED
    BY <1>5, <2>2 DEF BuildPayload, CatalogTypeOK
<1>6. CASE InsertSync(h)
  <2>1. desk[h].gen \in Change /\ desk[h].must \in Change
    BY <1>2, <1>6 DEF InsertSync, Desk, Quit
  <2>2. sync' \in [Sync -> SyncRow \union {NoSync}]
    BY <1>0, <1>6, <2>1 DEF InsertSync, SyncRow
  <2>3. desk' \in [Responder -> Desk] /\ CountedOnce'
    BY <1>0, <1>1, <1>6, SeatTypes DEF InsertSync, Quit
  <2>4. QED
    BY <1>6, <2>2, <2>3 DEF InsertSync, CatalogTypeOK
<1>7. CASE ReplaceCatalogue(h)
  <2> DEFINE d == [desk[h] EXCEPT !.at = "close"]
  <2>1. desk[h] \in [at : {"replace", "close"}, job : Sync, seen : Change]
    BY <1>2, <1>7 DEF ReplaceCatalogue, Desk, Quit
  <2>2. d \in [at : {"replace", "close"}, job : Sync, seen : Change] /\ d.at = "close"
    BY <2>1
  <2>3. d \in Desk
    BY <2>2 DEF Desk
  <2>4. AtDesk(h, d) /\ catalogue' \in Change /\ desk[h].at # "bump"
    BY <1>7, <2>1 DEF ReplaceCatalogue
  <2>5. desk' \in [Responder -> Desk] /\ CountedOnce'
    <3> HIDE DEF d
    <3>1. QED
      BY <1>0, <2>2, <2>3, <2>4, SeatTypes
  <2>6. QED
    BY <1>7, <2>4, <2>5 DEF ReplaceCatalogue, CatalogTypeOK
<1>8. CASE CloseSync(h)
  <2>1. sync' \in [Sync -> SyncRow \union {NoSync}]
    BY <1>0, <1>8 DEF CloseSync
  <2>2. desk' \in [Responder -> Desk] /\ CountedOnce'
    BY <1>0, <1>1, <1>8, SeatTypes DEF CloseSync, Quit
  <2>3. QED
    BY <1>8, <2>1, <2>2 DEF CloseSync, CatalogTypeOK
<1>9. QED
  BY <1>3, <1>4, <1>5, <1>6, <1>7, <1>8

\* A sync begins, or ends without an answer.
LEMMA SyncTypes ==
  ASSUME CatalogTypes, NEW j \in Sync, StartSync(j) \/ SyncFails(j)
  PROVE  CatalogTypes'
<1> USE DEF CatalogTypes
<1>0. sync \in [Sync -> SyncRow \union {NoSync}] /\ agent \in Agent
  BY DEF CatalogTypeOK
<1>1. CASE StartSync(j)
  <2>1. sync[j] \in SyncRow
    BY <1>0, <1>1 DEF StartSync, NoSync
  <2>2. [sync[j] EXCEPT !.status = "claimed"] \in SyncRow
    BY <2>1 DEF SyncRow
  <2>3. sync' \in [Sync -> SyncRow \union {NoSync}]
    BY <1>0, <1>1, <2>2 DEF StartSync
  <2>4. agent' \in Agent /\ agent'.at = "listing"
    BY <1>1 DEF StartSync, Agent
  <2>5. CountedOnce'
    BY <1>1, <2>4, NothingToCount DEF StartSync
  <2>6. QED
    BY <1>1, <2>3, <2>4, <2>5 DEF StartSync, CatalogTypeOK
<1>2. CASE SyncFails(j)
  <2>1. sync' \in [Sync -> SyncRow \union {NoSync}]
    BY <1>0, <1>2 DEF SyncFails
  <2>2. agent' \in Agent /\ (agent' = agent \/ agent' = Quit)
    BY <1>0, <1>2 DEF SyncFails, Agent
  <2>3. agent'.at = agent.at \/ agent'.at = "idle"
    BY <2>2 DEF Quit
  <2>4. CountedOnce'
    BY <1>2, <2>3, NothingToCount DEF SyncFails
  <2>5. QED
    BY <1>2, <2>1, <2>2, <2>4 DEF SyncFails, CatalogTypeOK
<1>3. QED
  BY <1>1, <1>2

LEMMA CatalogTypesStep ==
  ASSUME CatalogInv, CatalogTypes, [CatalogNext]_catalogVars
  PROVE  CatalogTypes'
<1>1. CASE UNCHANGED catalogVars
  <2>1. CatalogTypeOK'
    BY <1>1 DEF CatalogTypes, CatalogTypeOK, catalogVars
  <2>2. CountedOnce'
    BY <1>1, NothingToCount DEF catalogVars
  <2>3. QED
    BY <2>1, <2>2 DEF CatalogTypes
<1>2. CASE CatalogNext
  BY <1>2, WorkerTypes, ReportTypes, DeskTypes, SyncTypes DEF CatalogNext
<1>3. QED
  BY <1>1, <1>2

\* The state of the catalogue and of those who work on it stays in its types,
\* and the target's generation counts each success at most once
\* (control_plane_service.py, _invalidate_explorer_metadata_after_success).
THEOREM CatalogTypeCorrect == CatalogSpec => []CatalogTypeOK
<1>1. CatalogInit => CatalogInv /\ CatalogTypes
  BY CatalogInvInit, CatalogTypesInit
<1>2. CatalogInv /\ CatalogTypes /\ [CatalogNext]_catalogVars => (CatalogInv /\ CatalogTypes)'
  BY CatalogInvStep, CatalogTypesStep
<1>3. CatalogTypes => CatalogTypeOK
  BY DEF CatalogTypes
<1>4. QED
  BY <1>1, <1>2, <1>3, PTL DEF CatalogSpec

-----------------------------------------------------------------------------
(* The services side by side (MCServices).                                 *)

\* A step of the whole is a step of one service, or leaves it alone.
LEMMA ServicesSteps ==
  ASSUME [ServicesNext]_servicesVars
  PROVE  /\ [EventsNext]_eventVars
         /\ [RegistryNext]_registryVars
         /\ [Lease!Next]_leaseVars
         /\ [CatalogNext]_catalogVars
         /\ [SchedulerNext]_schedulerVars
         /\ [AccountsNext]_accountVars
<1>1. CASE UNCHANGED servicesVars
  BY <1>1 DEF servicesVars
<1>2. CASE ServicesNext
  BY <1>2 DEF ServicesNext
<1>3. QED
  BY <1>1, <1>2

\* A behaviour of the run that puts the services side by side is, for each of
\* them, a behaviour of its own, so that what is proved of a service by itself
\* holds in that run.
THEOREM ServicesByThemselves ==
  ServicesSpec => /\ EventsInit /\ [][EventsNext]_eventVars
                  /\ RegistryInit /\ [][RegistryNext]_registryVars
                  /\ Lease!Init /\ [][Lease!Next]_leaseVars
                  /\ CatalogSpec
                  /\ SchedulerSpec
                  /\ AccountsSpec
<1>1. ServicesInit => /\ EventsInit /\ RegistryInit /\ Lease!Init
                      /\ CatalogInit /\ SchedulerInit /\ AccountsInit
  BY DEF ServicesInit
<1>2. [ServicesNext]_servicesVars => /\ [EventsNext]_eventVars
                                     /\ [RegistryNext]_registryVars
                                     /\ [Lease!Next]_leaseVars
                                     /\ [CatalogNext]_catalogVars
                                     /\ [SchedulerNext]_schedulerVars
                                     /\ [AccountsNext]_accountVars
  BY ServicesSteps
<1>3. QED
  BY <1>1, <1>2, PTL DEF ServicesSpec, CatalogSpec, SchedulerSpec, AccountsSpec

\* No service, playing any part beside the others, takes a variable of its out
\* of its type.
THEOREM ServicesTypeCorrect == ServicesSpec => []ServicesTypeOK
<1>1. EventsTypeOK /\ RegistryTypeOK /\ CatalogTypeOK /\ SchedulerTypeOK
        /\ AccountsTypeOK => ServicesTypeOK
  BY DEF ServicesTypeOK
<1>2. QED
  BY <1>1, ServicesByThemselves, EventsTypeInit, EventsTypeStep,
     RegistryTypeInit, RegistryTypeStep, CatalogTypeCorrect,
     SchedulerTypeCorrect, AccountsTypeCorrect, PTL
=============================================================================
