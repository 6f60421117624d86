---------------------------- MODULE StorageProofs ----------------------------
(***************************************************************************)
(* Proofs about what the Control Plane and its workers keep of storage.    *)
(* First SnapshotCache: that the lock and the index in Redis do what they  *)
(* are for, for every set of callers and of contexts, whatever happens to  *)
(* the commands and to the callers.  Then Configuration: that secrets that *)
(* are referred to exist and that a context names the repository, for      *)
(* every set of secrets, profiles, remotes and handlers.                   *)
(***************************************************************************)
EXTENDS SnapshotCache, Configuration, SetInduction, TLAPS

-----------------------------------------------------------------------------
(* SnapshotCache: the invariant.                                           *)

(* What a caller removes from the index does not matter to the lock, so    *)
(* that only the place and the key of a call are typed.                    *)
LockTypes ==
  /\ lookup = [c \in Reader |-> lookup[c]]
  /\ \A c \in Reader : lookup[c].at # "out" => Key(c) \in Context
  /\ lock \in [Context -> Reader \union {NoToken}]
  /\ timely \subseteq Reader

(* Where a caller is between the lock and its release.                     *)
LeadersPlace ==
  {"getAgain", "list", "store", "index", "count", "oldest", "drop", "forget",
   "undo", "release"}

(* The lock of a caller whose time is not over is still its own.           *)
TimelyHoldsLock ==
  \A c \in timely : lookup[c].at \in LeadersPlace /\ lock[Key(c)] = c

LockInv == LockTypes /\ TimelyHoldsLock

\* The invariant holds at first.
LEMMA LockInvInit == CacheInit => LockInv
  BY DEF CacheInit, LockInv, LockTypes, TimelyHoldsLock, Out

-----------------------------------------------------------------------------
(* One lemma for every kind of step.                                       *)

\* A caller goes from place to place, and the lock stays as it is: the
\* caller's time may end with that, but it does not begin.
LEMMA CallerMoves ==
  ASSUME LockInv, NEW c \in Reader, NEW l,
         lookup' = [lookup EXCEPT ![c] = l], UNCHANGED lock,
         l.at # "out" => l.key \in Context,
         timely' = timely \/ timely' = timely \ {c},
         c \in timely' => l.at \in LeadersPlace /\ l.key = Key(c)
  PROVE  LockInv'
<1> USE DEF LockInv, LockTypes, Key
<1>1. \A d \in Reader : lookup'[d] = IF d = c THEN l ELSE lookup[d]
  OBVIOUS
<1>2. LockTypes'
  BY <1>1
<1>3. TimelyHoldsLock'
  BY <1>1 DEF TimelyHoldsLock
<1>4. QED
  BY <1>2, <1>3

\* The steps of a caller that neither take nor give back a lock.
LEMMA OtherSteps ==
  ASSUME LockInv, NEW c \in Reader,
         \/ AskCache(c) \/ GetEntry(c) \/ WaitForLock(c) \/ GetAgain(c)
         \/ ListRepositoryNow(c) \/ ListAlone(c) \/ StoreEntry(c)
         \/ IndexEntry(c) \/ CountEntries(c) \/ FindOldest(c)
         \/ DropOldest(c) \/ ForgetOldest(c) \/ WriteFails(c) \/ CallerDies(c)
  PROVE  LockInv'
<1>1. c \in timely => lookup[c].at \in LeadersPlace
  BY DEF LockInv, TimelyHoldsLock
<1>2. lookup[c].at # "out" => Key(c) \in Context
  BY DEF LockInv, LockTypes
<1>3. CASE AskCache(c)
  <2>1. PICK k \in Context, place \in {"get", "listAlone"} :
          lookup' = [lookup EXCEPT ![c] = [at |-> place, key |-> k]]
    BY <1>3 DEF AskCache
  <2>2. c \notin timely
    BY <1>1, <1>3 DEF AskCache, Stands, LeadersPlace
  <2>3. UNCHANGED <<lock, timely>>
    BY <1>3 DEF AskCache, redisVars
  <2>4. QED
    BY <2>1, <2>2, <2>3, CallerMoves
<1>4. CASE GetEntry(c) \/ WaitForLock(c) \/ ListAlone(c)
  <2>1. /\ lookup[c].at \in {"get", "wait", "listAlone"}
        /\ UNCHANGED <<lock, timely>>
        /\ \/ lookup' = [lookup EXCEPT ![c] = Out]
           \/ \E place \in {"acquire", "get", "listAlone"} : Leads(c, place)
    BY <1>4 DEF GetEntry, WaitForLock, ListAlone, Stands, redisVars
  <2>2. c \notin timely
    BY <1>1, <2>1 DEF LeadersPlace
  <2>3. CASE lookup' = [lookup EXCEPT ![c] = Out]
    BY <2>1, <2>2, <2>3, CallerMoves DEF Out
  <2>4. CASE \E place \in {"acquire", "get", "listAlone"} : Leads(c, place)
    BY <1>2, <2>1, <2>2, <2>4, CallerMoves DEF Leads
  <2>5. QED
    BY <2>1, <2>3, <2>4
<1>5. CASE \/ GetAgain(c) \/ ListRepositoryNow(c) \/ StoreEntry(c)
           \/ IndexEntry(c) \/ DropOldest(c) \/ ForgetOldest(c)
           \/ CountEntries(c) \/ FindOldest(c) \/ WriteFails(c)
  <2>1. lookup[c].at # "out" /\ UNCHANGED <<lock, timely>>
    BY <1>5 DEF GetAgain, ListRepositoryNow, StoreEntry, IndexEntry,
                DropOldest, ForgetOldest, CountEntries, FindOldest,
                WriteFails, Stands, Writing, redisVars
  <2>2. \E place \in LeadersPlace :
          Leads(c, place) \/ \E old : Removes(c, place, old)
    BY <1>5 DEF GetAgain, ListRepositoryNow, ListingGoesTo, StoreEntry,
                IndexEntry, DropOldest, ForgetOldest, CountEntries,
                FindOldest, WriteFails, LeadersPlace
  <2>3. PICK place \in LeadersPlace :
          Leads(c, place) \/ \E old : Removes(c, place, old)
    BY <2>2
  <2>4. CASE Leads(c, place)
    BY <1>2, <2>1, <2>4, CallerMoves DEF Leads
  <2>5. ASSUME NEW old, Removes(c, place, old) PROVE LockInv'
    <3>1. lookup' = [lookup EXCEPT
                       ![c] = [at |-> place, key |-> Key(c), old |-> old]]
      BY <2>5 DEF Removes
    <3>2. QED
      BY <1>2, <2>1, <3>1, CallerMoves
  <2>6. QED
    BY <2>3, <2>4, <2>5
<1>6. CASE CallerDies(c)
  BY <1>6, CallerMoves DEF CallerDies, Out, redisVars
<1>7. QED
  BY <1>3, <1>4, <1>5, <1>6

\* A caller is given a lock that nobody has, or none.
LEMMA AcquireKeeps ==
  ASSUME LockInv, NEW c \in Reader, AcquireLock(c)
  PROVE  LockInv'
<1> USE DEF LockInv, LockTypes, Key
<1>1. Key(c) \in Context /\ c \notin timely
  BY DEF AcquireLock, Stands, TimelyHoldsLock, LeadersPlace
<1>2. CASE UNCHANGED <<lock, timely>> /\ Leads(c, "wait")
  BY <1>1, <1>2, CallerMoves DEF Leads
<1>3. CASE /\ lock[Key(c)] = NoToken
           /\ lock' = [lock EXCEPT ![Key(c)] = c]
           /\ \/ timely' = timely \union {c} /\ Leads(c, "getAgain")
              \/ UNCHANGED timely /\ Leads(c, "wait")
  <2>1. PICK place \in {"getAgain", "wait"} :
          /\ lookup' = [lookup EXCEPT ![c] = [at |-> place, key |-> Key(c)]]
          /\ timely' = IF place = "getAgain" THEN timely \union {c} ELSE timely
    BY <1>3 DEF Leads
  <2>2. \A d \in Reader :
          lookup'[d] = IF d = c THEN [at |-> place, key |-> Key(c)] ELSE lookup[d]
    BY <2>1
  <2>3. LockTypes'
    BY <1>1, <1>3, <2>1, <2>2
  <2>4. ASSUME NEW d \in timely'
        PROVE  lookup'[d].at \in LeadersPlace /\ lock'[lookup'[d].key] = d
    <3>1. CASE d = c
      BY <1>1, <1>3, <2>1, <2>2, <3>1 DEF LeadersPlace
    <3>2. CASE d # c
      <4>1. d \in timely /\ lookup'[d] = lookup[d]
        BY <2>1, <2>2, <3>2
      <4>2. lock[lookup[d].key] = d /\ lookup[d].at \in LeadersPlace
        BY <4>1 DEF TimelyHoldsLock
      <4>3. d # NoToken
        BY <4>1, CacheAssumption
      <4>4. lookup[d].key # lookup[c].key
        BY <1>3, <4>2, <4>3
      <4>5. QED
        BY <1>3, <4>1, <4>2, <4>4
    <3>3. QED
      BY <3>1, <3>2
  <2>5. QED
    BY <2>3, <2>4 DEF TimelyHoldsLock
<1>4. QED
  BY <1>2, <1>3 DEF AcquireLock

\* The script takes nothing from another caller.
LEMMA ReleaseKeeps ==
  ASSUME LockInv, NEW c \in Reader, ReleaseLock(c)
  PROVE  LockInv'
<1> USE DEF LockInv, LockTypes, Key
<1>1. /\ lookup' = [lookup EXCEPT ![c] = Out] /\ timely' = timely \ {c}
      /\ \/ lock' = lock
         \/ lock[Key(c)] = c /\ lock' = [lock EXCEPT ![Key(c)] = NoToken]
  BY DEF ReleaseLock
<1>2. LockTypes'
  BY <1>1 DEF Out
<1>3. ASSUME NEW d \in timely'
      PROVE  lookup'[d].at \in LeadersPlace /\ lock'[lookup'[d].key] = d
  <2>1. d \in timely /\ d # c /\ lookup'[d] = lookup[d]
    BY <1>1
  <2>2. lock[lookup[d].key] = d /\ lookup[d].at \in LeadersPlace
    BY <2>1 DEF TimelyHoldsLock
  <2>3. d \in Reader /\ lookup[d].key \in Context
    BY <2>1, <2>2 DEF LeadersPlace
  <2>4. CASE lookup[d].key = Key(c)
    BY <1>1, <2>1, <2>2, <2>4
  <2>5. CASE lookup[d].key # Key(c)
    BY <1>1, <2>1, <2>2, <2>3, <2>5
  <2>6. QED
    BY <2>4, <2>5
<1>4. QED
  BY <1>2, <1>3 DEF TimelyHoldsLock

\* A lock that runs out ends the time of who had it.
LEMMA TimeKeeps ==
  ASSUME LockInv, NEW k \in Context, LockRunsOut(k) \/ EntryRunsOut(k)
  PROVE  LockInv'
<1> USE DEF LockInv, LockTypes, Key
<1>1. CASE LockRunsOut(k)
  <2>1. /\ lock' = [lock EXCEPT ![k] = NoToken] /\ UNCHANGED lookup
        /\ timely' = {c \in timely : ~(c = lock[k] /\ Key(c) = k)}
    BY <1>1 DEF LockRunsOut
  <2>2. TimelyHoldsLock'
    BY <2>1 DEF TimelyHoldsLock
  <2>3. QED
    BY <2>1, <2>2
<1>2. CASE EntryRunsOut(k)
  BY <1>2 DEF EntryRunsOut, TimelyHoldsLock
<1>3. QED
  BY <1>1, <1>2

-----------------------------------------------------------------------------
\* Every step keeps the invariant of the lock.
LEMMA LockStep == LockInv /\ [CacheNext]_cacheVars => LockInv'
<1> SUFFICES ASSUME LockInv, [CacheNext]_cacheVars PROVE LockInv'
  OBVIOUS
<1>1. CASE UNCHANGED cacheVars
  BY <1>1 DEF cacheVars, LockInv, LockTypes, TimelyHoldsLock, Key
<1>2. ASSUME NEW c \in Reader,
             \/ AskCache(c) \/ GetEntry(c) \/ WaitForLock(c) \/ GetAgain(c)
             \/ ListRepositoryNow(c) \/ ListAlone(c) \/ StoreEntry(c)
             \/ IndexEntry(c) \/ CountEntries(c) \/ FindOldest(c)
             \/ DropOldest(c) \/ ForgetOldest(c) \/ WriteFails(c)
             \/ CallerDies(c) \/ AcquireLock(c) \/ ReleaseLock(c)
      PROVE  LockInv'
  BY <1>2, OtherSteps, AcquireKeeps, ReleaseKeeps
<1>3. QED
  BY <1>1, <1>2, TimeKeeps DEF CacheNext

\* No two callers list for the same entry while their locks are good: for
\* any number of callers and contexts, whatever happens to Redis.
THEOREM OneListerForEachEntry == CacheSpec => []OneListsInTime
<1>1. LockInv => OneListsInTime
  <2> SUFFICES ASSUME LockInv, NEW c \in timely, NEW d \in timely, c # d
               PROVE  Key(c) # Key(d)
    BY DEF OneListsInTime
  <2>1. lock[Key(c)] = c /\ lock[Key(d)] = d
    BY DEF LockInv, TimelyHoldsLock
  <2>2. QED
    BY <2>1
<1>2. QED
  BY <1>1, LockInvInit, LockStep, PTL DEF CacheSpec

-----------------------------------------------------------------------------
(* SnapshotCache: the index.                                               *)

(* What is in a list. *)
Listed(list) == {list[i] : i \in 1..Len(list)}

(* One step of taking keys out of a list. *)
KeptStep(list, keys, kept, n) ==
  IF n = 0 THEN <<>>
  ELSE IF list[n] \in keys THEN kept[n - 1] ELSE Append(kept[n - 1], list[n])

\* Taking keys out of the index is well defined: the function that goes
\* through the index exists.
LEMMA WithoutKeysIs ==
  ASSUME cacheIndex \in Seq(Context), NEW keys
  PROVE  \E kept : /\ kept = [n \in 0..Len(cacheIndex) |->
                                KeptStep(cacheIndex, keys, kept, n)]
                   /\ WithoutKeys(keys) = kept[Len(cacheIndex)]
<1> DEFINE Step(g, n) == KeptStep(cacheIndex, keys, g, n)
           Goes(g, m) == g = [n \in 0..m |-> Step(g, n)]
           T == {m \in Nat : \E g : Goes(g, m)}
           P(g) == Goes(g, Len(cacheIndex))
           chosen == CHOOSE g : P(g)
<1>1. 0 \in T
  <2> DEFINE g == [n \in 0..0 |-> <<>>]
  <2>1. Goes(g, 0)
    BY DEF KeptStep
  <2>2. QED
    BY <2>1
<1>2. ASSUME NEW m \in Nat, m \in T
      PROVE  m + 1 \in T
  <2>1. PICK g : Goes(g, m)
    BY <1>2
  <2> DEFINE h == [n \in 0..(m + 1) |-> IF n = m + 1 THEN Step(g, n) ELSE g[n]]
  <2>2. ASSUME NEW n \in 0..(m + 1)
        PROVE  h[n] = Step(h, n)
    <3>1. n = 0 \/ h[n - 1] = g[n - 1]
      OBVIOUS
    <3>2. n = m + 1 \/ g[n] = Step(g, n)
      <4> HIDE DEF Step
      <4>1. QED
        BY <2>1
    <3>3. h[n] = Step(g, n)
      BY <3>2
    <3>4. QED
      BY <3>1, <3>3 DEF KeptStep
  <2>3. Goes(h, m + 1)
    <3> HIDE DEF Step
    <3>1. QED
      BY <2>2
  <2> HIDE DEF h, Goes
  <2>4. QED
    BY <2>3
<1>3. \E g : P(g)
  <2>1. Nat \subseteq T
    <3> HIDE DEF T
    <3>1. QED
      BY <1>1, <1>2, NatSetInduction
  <2> HIDE DEF Goes
  <2>2. QED
    BY <2>1
<1>4. P(chosen)
  <2> HIDE DEF P
  <2>1. QED
    BY <1>3, Zenon
<1>5. WithoutKeys(keys) = chosen[Len(cacheIndex)]
  BY DEF WithoutKeys, KeptStep
<1> HIDE DEF chosen
<1>6. QED
  BY <1>4, <1>5

\* What is left of the index are its other keys.
LEMMA WithoutKeysKeeps ==
  ASSUME cacheIndex \in Seq(Context), NEW keys
  PROVE  /\ WithoutKeys(keys) \in Seq(Context)
         /\ Listed(WithoutKeys(keys)) = Listed(cacheIndex) \ keys
<1>1. PICK kept : /\ kept = [n \in 0..Len(cacheIndex) |->
                               KeptStep(cacheIndex, keys, kept, n)]
                  /\ WithoutKeys(keys) = kept[Len(cacheIndex)]
  BY WithoutKeysIs
<1> DEFINE Upto(n) == {cacheIndex[i] : i \in 1..n}
           T == {n \in Nat : n <= Len(cacheIndex) =>
                   kept[n] \in Seq(Context) /\ Listed(kept[n]) = Upto(n) \ keys}
<1>2. Len(cacheIndex) \in Nat
  OBVIOUS
<1>3. \A n \in 0..Len(cacheIndex) : kept[n] = KeptStep(cacheIndex, keys, kept, n)
  BY <1>1
<1>4. 0 \in T
  <2>1. kept[0] = <<>>
    BY <1>2, <1>3 DEF KeptStep
  <2>2. Listed(<<>>) = {} /\ Upto(0) = {} /\ <<>> \in Seq(Context)
    BY DEF Listed
  <2> HIDE DEF Upto
  <2>3. QED
    BY <2>1, <2>2
<1>5. ASSUME NEW n \in Nat, n \in T
      PROVE  n + 1 \in T
  <2> SUFFICES ASSUME n + 1 <= Len(cacheIndex)
               PROVE  /\ kept[n + 1] \in Seq(Context)
                      /\ Listed(kept[n + 1]) = Upto(n + 1) \ keys
    OBVIOUS
  <2>1. kept[n] \in Seq(Context) /\ Listed(kept[n]) = Upto(n) \ keys
    BY <1>2, <1>5
  <2> DEFINE k == cacheIndex[n + 1]
  <2>2. k \in Context
    BY <1>2
  <2>3. Upto(n + 1) = Upto(n) \union {k}
    OBVIOUS
  <2>4. kept[n + 1] = IF k \in keys THEN kept[n] ELSE Append(kept[n], k)
    BY <1>2, <1>3 DEF KeptStep
  <2> HIDE DEF k, Upto
  <2>5. CASE k \in keys
    BY <2>1, <2>3, <2>4, <2>5
  <2>6. CASE k \notin keys
    <3>1. kept[n + 1] = Append(kept[n], k)
      BY <2>4, <2>6
    <3>2. Listed(Append(kept[n], k)) = Listed(kept[n]) \union {k}
      BY <2>1, <2>2 DEF Listed
    <3>3. QED
      BY <2>1, <2>2, <2>3, <2>6, <3>1, <3>2
  <2>7. QED
    BY <2>5, <2>6
<1>6. Len(cacheIndex) \in T
  <2> HIDE DEF T
  <2>1. QED
    BY <1>2, <1>4, <1>5, NatSetInduction
<1>7. QED
  BY <1>1, <1>2, <1>6 DEF Listed

\* A list has no more members than places, and what is not among the first n
\* has none of these.
LEMMA FewListed ==
  ASSUME cacheIndex \in Seq(Context), NEW n \in 0..Len(cacheIndex),
         NEW some, some \subseteq Listed(cacheIndex), some \intersect OldestKeys(n) = {}
  PROVE  /\ IsFiniteSet(some) /\ Cardinality(some) \in Nat
         /\ Cardinality(some) <= Len(cacheIndex) - n
<1> DEFINE rest == {cacheIndex[i] : i \in (n + 1)..Len(cacheIndex)}
<1>1. Len(cacheIndex) \in Nat
  OBVIOUS
<1>2. /\ IsFiniteSet(rest) /\ Cardinality(rest) \in Nat
      /\ Cardinality(rest) <= Len(cacheIndex) - n
  <2>1. /\ n + 1 \in Int /\ Len(cacheIndex) \in Int
        /\ n + 1 <= Len(cacheIndex) + 1
        /\ Len(cacheIndex) + 1 - (n + 1) = Len(cacheIndex) - n
    BY <1>1
  <2>2. QED
    BY <2>1, IntervalImage
<1>3. some \subseteq rest
  <2>1. \A i \in 1..Len(cacheIndex) :
          i <= n => cacheIndex[i] \in OldestKeys(n)
    BY <1>1 DEF OldestKeys
  <2>2. QED
    BY <1>1, <2>1 DEF Listed
<1> HIDE DEF rest
<1>4. IsFiniteSet(some) /\ Cardinality(some) <= Cardinality(rest)
  BY <1>2, <1>3, FS_Subset
<1>5. QED
  BY <1>1, <1>2, <1>4, FS_CardinalityType

-----------------------------------------------------------------------------
(* SnapshotCache: how many entries there are.                              *)

IndexTypes ==
  /\ lookup = [c \in Reader |-> lookup[c]]
  /\ cacheIndex \in Seq(Context)

(* At most MaxEntries of some keys. *)
Few(keys) ==
  IsFiniteSet(keys) /\ Cardinality(keys) \in Nat /\ Cardinality(keys) <= MaxEntries

(* One writes at a time, and deletes nothing it has stored. *)
OneWriter ==
  /\ \A c, d \in Reader : Writing(c) /\ Writing(d) => c = d
  /\ \A c \in Reader : ~Stands(c, "undo")

(* Every entry is in the index, or its writer is about to put it there. *)
EntriesAreIndexed ==
  \A k \in entries :
    k \in Listed(cacheIndex) \/ \E c \in Reader : Stands(c, "index") /\ Key(c) = k

(* The index has room, but for the writer that makes it again: what it     *)
(* has still to take out is the rest, or everything has run out.           *)
IndexHasRoom ==
  /\ (\A c \in Reader : ~Writing(c)) => Few(Listed(cacheIndex))
  /\ \A c \in Reader :
       /\ Stands(c, "index") => Few(Listed(cacheIndex))
       /\ Stands(c, "oldest") =>
            cacheIndex = <<>> \/ (lookup[c].old = Excess /\ Len(cacheIndex) > MaxEntries)
       /\ Stands(c, "drop") => Few(Listed(cacheIndex) \ lookup[c].old)
       /\ Stands(c, "forget") => /\ Few(Listed(cacheIndex) \ lookup[c].old)
                                 /\ entries \intersect lookup[c].old = {}

IndexInv ==
  IndexTypes /\ (~cutShort => OneWriter /\ EntriesAreIndexed /\ IndexHasRoom)

\* A part of few keys are few.
LEMMA FewOf ==
  ASSUME NEW S, NEW T, Few(S), T \subseteq S
  PROVE  Few(T)
<1>1. IsFiniteSet(T) /\ Cardinality(T) <= Cardinality(S)
  BY FS_Subset DEF Few
<1>2. QED
  BY <1>1, FS_CardinalityType, CacheAssumption DEF Few, CacheAssumption

\* Nothing is few.
LEMMA NothingIsFew == Few({})
  BY FS_EmptySet, CacheAssumption DEF Few, CacheAssumption

\* The invariant holds at first.
LEMMA IndexInvInit == CacheInit => IndexInv
<1> SUFFICES ASSUME CacheInit PROVE IndexInv
  OBVIOUS
<1>1. Listed(cacheIndex) = {}
  BY DEF CacheInit, Listed
<1>2. \A c \in Reader : lookup[c].at = "out"
  BY DEF CacheInit, Out
<1>3. QED
  BY <1>1, <1>2, NothingIsFew
  DEF CacheInit, IndexInv, IndexTypes, OneWriter, EntriesAreIndexed, IndexHasRoom,
      Writing, Stands

-----------------------------------------------------------------------------
(* One lemma for every kind of step.                                       *)

WritingPlace == {"index", "count", "oldest", "drop", "forget", "undo"}

\* A caller that is not writing goes where nobody writes.
LEMMA QuietMove ==
  ASSUME IndexInv, NEW c \in Reader, NEW l, lookup' = [lookup EXCEPT ![c] = l],
         lookup[c].at \notin WritingPlace, l.at \notin WritingPlace,
         UNCHANGED <<entries, cacheIndex>>, ~cutShort' => ~cutShort
  PROVE  IndexInv'
<1>1. /\ lookup' = [d \in Reader |-> lookup'[d]]
      /\ \A d \in Reader : lookup'[d] = IF d = c THEN l ELSE lookup[d]
  BY DEF IndexInv, IndexTypes
<1>2. ASSUME NEW d \in Reader, lookup'[d].at \in WritingPlace
      PROVE  lookup'[d] = lookup[d]
  BY <1>1, <1>2
<1>3. ASSUME NEW d \in Reader, lookup[d].at \in WritingPlace
      PROVE  lookup'[d] = lookup[d]
  BY <1>1, <1>3
<1>4. ASSUME ~cutShort
      PROVE  OneWriter' /\ EntriesAreIndexed' /\ IndexHasRoom'
  <2> USE DEF Writing, Stands, WritingPlace
  <2>1. OneWriter /\ EntriesAreIndexed /\ IndexHasRoom
    BY <1>4 DEF IndexInv
  <2>2. OneWriter'
    BY <1>2, <2>1 DEF OneWriter
  <2>3. EntriesAreIndexed'
    BY <1>3, <2>1 DEF EntriesAreIndexed, Key
  <2>4. (\A d \in Reader : ~Writing(d))' => Few(Listed(cacheIndex))'
    BY <1>3, <2>1 DEF IndexHasRoom
  <2>5. QED
    BY <1>2, <2>1, <2>2, <2>3, <2>4 DEF IndexHasRoom, Excess
<1>5. QED
  BY <1>1, <1>4 DEF IndexInv, IndexTypes

\* The steps around the lock and the listing.
LEMMA QuietSteps ==
  ASSUME IndexInv, NEW c \in Reader,
         \/ AskCache(c) \/ GetEntry(c) \/ AcquireLock(c) \/ WaitForLock(c)
         \/ GetAgain(c) \/ ListRepositoryNow(c) \/ ListAlone(c) \/ ReleaseLock(c)
  PROVE  IndexInv'
<1>1. /\ lookup[c].at \notin WritingPlace
      /\ UNCHANGED <<entries, cacheIndex, cutShort>>
  BY DEF AskCache, GetEntry, AcquireLock, WaitForLock, GetAgain, ListRepositoryNow,
         ListAlone, ReleaseLock, Stands, redisVars, WritingPlace
<1> DEFINE Places == {"get", "listAlone", "acquire", "getAgain",
                      "wait", "release", "list", "store"}
<1>2. \E l : lookup' = [lookup EXCEPT ![c] = l] /\ l.at \notin WritingPlace
  <2>1. \/ lookup' = [lookup EXCEPT ![c] = Out]
        \/ \E place \in Places, k \in Context :
             lookup' = [lookup EXCEPT ![c] = [at |-> place, key |-> k]]
        \/ \E place \in Places :
             lookup' = [lookup EXCEPT ![c] = [at |-> place, key |-> Key(c)]]
    BY DEF AskCache, GetEntry, AcquireLock, WaitForLock, GetAgain, Leads,
           ListRepositoryNow, ListingGoesTo, ListAlone, ReleaseLock
  <2>2. Out.at \notin WritingPlace
    BY DEF Out, WritingPlace
  <2>3. \A place \in Places : \A k : [at |-> place, key |-> k].at \notin WritingPlace
    BY DEF WritingPlace
  <2> HIDE DEF Places
  <2>4. QED
    BY <2>1, <2>2, <2>3, Zenon
<1>3. QED
  BY <1>1, <1>2, QuietMove

\* A writer goes on: alone, with what it finds next.
LEMMA WriterMove ==
  ASSUME IndexTypes, cacheIndex' \in Seq(Context), NEW c \in Reader, NEW l,
         lookup' = [lookup EXCEPT ![c] = l], l.at # "undo",
         ~cutShort' => \A d \in Reader : d # c => lookup[d].at \notin WritingPlace,
         ~cutShort' => \A k \in entries' : k \in Listed(cacheIndex')
                                          \/ (l.at = "index" /\ l.key = k),
         ~cutShort' /\ (l.at \notin WritingPlace \/ l.at = "index") =>
           Few(Listed(cacheIndex')),
         ~cutShort' /\ l.at = "oldest" =>
           cacheIndex' = <<>> \/ (l.old = Excess' /\ Len(cacheIndex') > MaxEntries),
         ~cutShort' /\ l.at \in {"drop", "forget"} =>
           Few(Listed(cacheIndex') \ l.old),
         ~cutShort' /\ l.at = "forget" => entries' \intersect l.old = {}
  PROVE  IndexInv'
<1>1. /\ lookup' = [d \in Reader |-> lookup'[d]]
      /\ \A d \in Reader : lookup'[d] = IF d = c THEN l ELSE lookup[d]
  BY DEF IndexTypes
<1>2. ASSUME ~cutShort'
      PROVE  OneWriter' /\ EntriesAreIndexed' /\ IndexHasRoom'
  <2>1. \A d \in Reader : lookup'[d].at \in WritingPlace => d = c /\ lookup'[d] = l
    BY <1>1, <1>2
  <2>2. OneWriter'
    BY <2>1 DEF OneWriter, Writing, Stands, WritingPlace
  <2>3. \A k \in entries' : k \in Listed(cacheIndex') \/ (l.at = "index" /\ l.key = k)
    BY <1>2
  <2>4. lookup'[c] = l
    BY <1>1
  <2>5. EntriesAreIndexed'
    BY <2>3, <2>4 DEF EntriesAreIndexed, Key, Stands, Listed
  <2>6. (\A d \in Reader : ~Writing(d)') => Few(Listed(cacheIndex'))
    BY <1>2, <2>4 DEF Writing, WritingPlace
  <2>7. ASSUME NEW d \in Reader
        PROVE  /\ Stands(d, "index")' => Few(Listed(cacheIndex'))
               /\ Stands(d, "oldest")' =>
                    cacheIndex' = <<>>
                    \/ (lookup'[d].old = Excess' /\ Len(cacheIndex') > MaxEntries)
               /\ Stands(d, "drop")' => Few(Listed(cacheIndex') \ lookup'[d].old)
               /\ Stands(d, "forget")' => /\ Few(Listed(cacheIndex') \ lookup'[d].old)
                                          /\ entries' \intersect lookup'[d].old = {}
    <3>1. CASE lookup'[d].at \notin WritingPlace
      BY <3>1 DEF Stands, WritingPlace
    <3>2. CASE lookup'[d] = l
      BY <1>2, <3>2 DEF Stands
    <3>3. QED
      BY <2>1, <3>1, <3>2
  <2>8. IndexHasRoom'
    BY <2>6, <2>7 DEF IndexHasRoom, Few, Listed
  <2>9. QED
    BY <2>2, <2>5, <2>8
<1>3. QED
  BY <1>1, <1>2 DEF IndexInv, IndexTypes

\* What a writer may rely on: as long as nothing went wrong it is alone, and
\* what it stored is in the index from its second step on.
LEMMA WriterIsAlone ==
  ASSUME IndexInv, ~cutShort, NEW c \in Reader, Writing(c)
  PROVE  /\ \A d \in Reader : d # c => lookup[d].at \notin WritingPlace
         /\ ~Stands(c, "index") => entries \subseteq Listed(cacheIndex)
         /\ ~Stands(c, "undo")
  BY DEF IndexInv, OneWriter, EntriesAreIndexed, Writing, Stands, WritingPlace

\* The entry is stored first and indexed next.
LEMMA StoreAndIndex ==
  ASSUME IndexInv, LockTypes, NEW c \in Reader, StoreEntry(c) \/ IndexEntry(c)
  PROVE  IndexInv'
<1>1. IndexTypes /\ cacheIndex \in Seq(Context)
  BY DEF IndexInv, IndexTypes
<1>2. CASE StoreEntry(c)
  <2> DEFINE l == [at |-> "index", key |-> Key(c)]
  <2>1. /\ lookup' = [lookup EXCEPT ![c] = l] /\ cacheIndex' = cacheIndex
        /\ entries' = entries \union {Key(c)}
    BY <1>2 DEF StoreEntry, Leads
  <2>2. ASSUME ~cutShort'
        PROVE  /\ \A d \in Reader : lookup[d].at \notin WritingPlace
               /\ Few(Listed(cacheIndex))
               /\ \A k \in entries : k \in Listed(cacheIndex)
    <3>1. ~cutShort /\ \A d \in Reader : ~Writing(d)
      BY <1>2, <2>2 DEF StoreEntry
    <3>2. QED
      BY <3>1 DEF IndexInv, EntriesAreIndexed, IndexHasRoom, Writing, Stands,
                  WritingPlace
  <2>3. l.at = "index" /\ l.key = Key(c)
    OBVIOUS
  <2> HIDE DEF l
  <2>4. QED
    BY <1>1, <2>1, <2>2, <2>3, WriterMove
<1>3. CASE IndexEntry(c)
  <2> DEFINE l == [at |-> "count", key |-> Key(c)]
             list == WithoutKeys({Key(c)})
  <2>1. /\ lookup' = [lookup EXCEPT ![c] = l] /\ cutShort' = cutShort
        /\ cacheIndex' = Append(list, Key(c)) /\ entries' = entries
        /\ Writing(c) /\ Stands(c, "index")
    BY <1>3 DEF IndexEntry, Leads, Writing, Stands
  <2>2. list \in Seq(Context) /\ Listed(list) = Listed(cacheIndex) \ {Key(c)}
    BY <1>1, WithoutKeysKeeps
  <2> HIDE DEF list
  <2>3. Key(c) \in Context
    BY <2>1 DEF LockTypes, Stands
  <2>4. /\ Append(list, Key(c)) \in Seq(Context)
        /\ Listed(Append(list, Key(c))) = Listed(list) \union {Key(c)}
    BY <2>2, <2>3 DEF Listed
  <2>5. cacheIndex' \in Seq(Context)
        /\ Listed(cacheIndex') = Listed(cacheIndex) \union {Key(c)}
    BY <2>1, <2>2, <2>4
  <2>6. ASSUME ~cutShort'
        PROVE  /\ \A d \in Reader : d # c => lookup[d].at \notin WritingPlace
               /\ \A k \in entries : k \in Listed(cacheIndex')
    <3>1. ~cutShort /\ EntriesAreIndexed
      BY <2>1, <2>6 DEF IndexInv
    <3>2. \A d \in Reader : d # c => lookup[d].at \notin WritingPlace
      BY <2>1, <3>1, WriterIsAlone
    <3>3. \A d \in Reader : Stands(d, "index") => d = c
      BY <3>2 DEF Stands, WritingPlace
    <3>4. QED
      BY <2>5, <3>1, <3>2, <3>3 DEF EntriesAreIndexed
  <2>7. l.at = "count"
    OBVIOUS
  <2> HIDE DEF l
  <2>8. l.at \in WritingPlace
    BY <2>7 DEF WritingPlace
  <2>9. QED
    BY <1>1, <2>1, <2>5, <2>6, <2>7, <2>8, WriterMove
<1>4. QED
  BY <1>2, <1>3

\* The entries are counted, and if there are too many the oldest are looked
\* up: as many as are too many, unless the whole index has run out.
LEMMA CountAndFind ==
  ASSUME IndexInv, NEW c \in Reader, CountEntries(c) \/ FindOldest(c)
  PROVE  IndexInv'
<1>1. /\ IndexTypes /\ cacheIndex \in Seq(Context)
      /\ Len(cacheIndex) \in Nat /\ MaxEntries \in Nat
  BY CacheAssumption DEF IndexInv, IndexTypes, CacheAssumption
<1>2. Writing(c) /\ ~Stands(c, "index") /\ UNCHANGED <<entries, cacheIndex, cutShort>>
  BY DEF CountEntries, FindOldest, Writing, Stands, redisVars
<1>3. ASSUME ~cutShort'
      PROVE  /\ \A d \in Reader : d # c => lookup[d].at \notin WritingPlace
             /\ \A k \in entries : k \in Listed(cacheIndex)
  BY <1>2, <1>3, WriterIsAlone
<1>4. ASSUME NEW n \in Nat, n <= Len(cacheIndex), Len(cacheIndex) - n <= MaxEntries,
             NEW some, some \subseteq Listed(cacheIndex),
             some \intersect OldestKeys(n) = {}
      PROVE  Few(some)
  <2>1. n \in 0..Len(cacheIndex)
    BY <1>1, <1>4
  <2>2. /\ IsFiniteSet(some) /\ Cardinality(some) \in Nat
        /\ Cardinality(some) <= Len(cacheIndex) - n
    BY <1>1, <1>4, <2>1, FewListed
  <2>3. QED
    BY <1>1, <1>4, <2>2 DEF Few
<1>5. ASSUME Len(cacheIndex) <= MaxEntries
      PROVE  Few(Listed(cacheIndex))
  <2>1. OldestKeys(0) = {}
    BY <1>1 DEF OldestKeys
  <2>2. QED
    BY <1>1, <1>4, <1>5, <2>1
<1>6. CASE CountEntries(c) /\ Excess = 0
  <2> DEFINE l == [at |-> "release", key |-> Key(c)]
  <2>1. lookup' = [lookup EXCEPT ![c] = l]
    BY <1>6 DEF CountEntries, Leads
  <2>2. Few(Listed(cacheIndex))
    BY <1>1, <1>5, <1>6 DEF Excess
  <2>3. l.at = "release"
    OBVIOUS
  <2> HIDE DEF l
  <2>4. QED
    BY <1>1, <1>2, <1>3, <2>1, <2>2, <2>3, WriterMove
<1>7. CASE CountEntries(c) /\ Excess # 0
  <2> DEFINE l == [at |-> "oldest", key |-> Key(c), old |-> Excess]
  <2>1. lookup' = [lookup EXCEPT ![c] = l]
    BY <1>7 DEF CountEntries, Removes
  <2>2. l.at = "oldest" /\ l.old = Excess
    OBVIOUS
  <2>3. Excess' = Excess /\ Len(cacheIndex) > MaxEntries
    BY <1>2, <1>7 DEF Excess
  <2> HIDE DEF l
  <2>4. l.at \in WritingPlace
    BY <2>2 DEF WritingPlace
  <2>5. QED
    BY <1>1, <1>2, <1>3, <2>1, <2>2, <2>3, <2>4, WriterMove
<1>8. ASSUME FindOldest(c), ~cutShort
      PROVE  IF cacheIndex = <<>> THEN OldestKeys(lookup[c].old) = {}
             ELSE /\ OldestKeys(lookup[c].old) # {}
                  /\ Few(Listed(cacheIndex) \ OldestKeys(lookup[c].old))
  <2>1. CASE cacheIndex = <<>>
    BY <2>1 DEF OldestKeys
  <2>2. CASE cacheIndex # <<>>
    <3>1. lookup[c].old = Excess /\ Len(cacheIndex) > MaxEntries
      BY <1>8, <2>2 DEF IndexInv, IndexHasRoom, FindOldest
    <3>2. /\ Excess \in Nat \ {0} /\ Excess <= Len(cacheIndex)
          /\ Len(cacheIndex) - Excess <= MaxEntries
      BY <1>1, <3>1 DEF Excess
    <3>3. cacheIndex[1] \in OldestKeys(Excess)
      BY <1>1, <3>2 DEF OldestKeys
    <3>4. Few(Listed(cacheIndex) \ OldestKeys(Excess))
      <4> HIDE DEF Excess, OldestKeys
      <4>1. QED
        BY <1>4, <3>2
    <3>5. QED
      BY <2>2, <3>1, <3>3, <3>4
  <2>3. QED
    BY <2>1, <2>2
<1>9. CASE FindOldest(c) /\ OldestKeys(lookup[c].old) = {}
  <2> DEFINE l == [at |-> "release", key |-> Key(c)]
  <2>1. lookup' = [lookup EXCEPT ![c] = l]
    BY <1>9 DEF FindOldest, Leads
  <2>2. ~cutShort => cacheIndex = <<>>
    BY <1>8, <1>9
  <2>3. cacheIndex = <<>> => Few(Listed(cacheIndex))
    BY NothingIsFew DEF Listed
  <2>4. l.at = "release"
    OBVIOUS
  <2> HIDE DEF l
  <2>5. QED
    BY <1>1, <1>2, <1>3, <2>1, <2>2, <2>3, <2>4, WriterMove
<1>10. CASE FindOldest(c) /\ OldestKeys(lookup[c].old) # {}
  <2> DEFINE gone == OldestKeys(lookup[c].old)
             l == [at |-> "drop", key |-> Key(c), old |-> gone]
  <2>1. lookup' = [lookup EXCEPT ![c] = l]
    BY <1>10 DEF FindOldest, Removes
  <2>2. ~cutShort => Few(Listed(cacheIndex) \ gone)
    BY <1>8, <1>10
  <2>3. l.at = "drop" /\ l.old = gone
    OBVIOUS
  <2> HIDE DEF l, gone
  <2>4. l.at \in WritingPlace
    BY <2>3 DEF WritingPlace
  <2>5. QED
    BY <1>1, <1>2, <1>3, <2>1, <2>2, <2>3, <2>4, WriterMove
<1>11. QED
  BY <1>6, <1>7, <1>9, <1>10

\* The entries of the oldest go first, then their places in the index.
LEMMA DropAndForget ==
  ASSUME IndexInv, NEW c \in Reader, DropOldest(c) \/ ForgetOldest(c)
  PROVE  IndexInv'
<1> DEFINE gone == lookup[c].old
<1>1. IndexTypes /\ cacheIndex \in Seq(Context)
  BY DEF IndexInv, IndexTypes
<1>2. Writing(c) /\ ~Stands(c, "index") /\ cutShort' = cutShort
  BY DEF DropOldest, ForgetOldest, Writing, Stands
<1>3. ASSUME ~cutShort'
      PROVE  /\ \A d \in Reader : d # c => lookup[d].at \notin WritingPlace
             /\ \A k \in entries : k \in Listed(cacheIndex)
             /\ Few(Listed(cacheIndex) \ gone)
  <2>1. Few(Listed(cacheIndex) \ gone)
    BY <1>2, <1>3 DEF IndexInv, IndexHasRoom, DropOldest, ForgetOldest
  <2>2. QED
    BY <1>2, <1>3, <2>1, WriterIsAlone
<1>4. CASE DropOldest(c)
  <2> DEFINE l == [at |-> "forget", key |-> Key(c), old |-> gone]
  <2>1. /\ lookup' = [lookup EXCEPT ![c] = l] /\ cacheIndex' = cacheIndex
        /\ entries' = entries \ gone
    BY <1>4 DEF DropOldest, Removes
  <2>2. l.at = "forget" /\ l.old = gone
    OBVIOUS
  <2> HIDE DEF l, gone
  <2>3. l.at \in WritingPlace
    BY <2>2 DEF WritingPlace
  <2>4. entries' \intersect l.old = {}
    BY <2>1, <2>2
  <2>5. QED
    BY <1>1, <1>2, <1>3, <2>1, <2>2, <2>3, <2>4, WriterMove
<1>5. CASE ForgetOldest(c)
  <2> DEFINE l == [at |-> "release", key |-> Key(c)]
  <2>1. /\ lookup' = [lookup EXCEPT ![c] = l] /\ cacheIndex' = WithoutKeys(gone)
        /\ entries' = entries
    BY <1>5 DEF ForgetOldest, Leads
  <2>2. WithoutKeys(gone) \in Seq(Context)
        /\ Listed(WithoutKeys(gone)) = Listed(cacheIndex) \ gone
    <3> HIDE DEF gone
    <3>1. QED
      BY <1>1, WithoutKeysKeeps
  <2>3. ~cutShort' => entries \intersect gone = {}
    <3>1. Stands(c, "forget")
      BY <1>5 DEF ForgetOldest
    <3>2. ~cutShort' => IndexHasRoom
      BY <1>2 DEF IndexInv
    <3>3. QED
      BY <3>1, <3>2 DEF IndexHasRoom
  <2>4. l.at = "release"
    OBVIOUS
  <2> HIDE DEF l, gone
  <2>5. /\ cacheIndex' \in Seq(Context)
        /\ Listed(cacheIndex') = Listed(cacheIndex) \ gone
    BY <2>1, <2>2
  <2>6. QED
    BY <1>1, <1>2, <1>3, <2>1, <2>3, <2>4, <2>5, WriterMove
<1>6. QED
  BY <1>4, <1>5

\* A write that fails, or whose caller dies, disturbs what it was doing.
LEMMA WriteEnds ==
  ASSUME IndexInv, NEW c \in Reader, WriteFails(c) \/ CallerDies(c)
  PROVE  IndexInv'
<1>1. IndexTypes /\ cacheIndex \in Seq(Context)
  BY DEF IndexInv, IndexTypes
<1>2. CASE cutShort'
  <2>1. lookup' = [d \in Reader |-> lookup'[d]] /\ cacheIndex' = cacheIndex
    BY <1>1 DEF WriteFails, CallerDies, Leads, IndexTypes, redisVars
  <2>2. QED
    BY <1>1, <1>2, <2>1 DEF IndexInv, IndexTypes
<1>3. CASE ~cutShort'
  <2>1. ~cutShort /\ ~Stands(c, "undo")
    <3>1. ~cutShort
      BY <1>3 DEF WriteFails, CallerDies
    <3>2. QED
      BY <3>1 DEF IndexInv, OneWriter
  <2>2. CallerDies(c) /\ ~Writing(c)
    BY <1>3, <2>1 DEF WriteFails, CallerDies
  <2>3. lookup' = [lookup EXCEPT ![c] = Out] /\ UNCHANGED <<entries, cacheIndex>>
    BY <2>2 DEF CallerDies, redisVars
  <2>4. lookup[c].at \notin WritingPlace /\ Out.at \notin WritingPlace
    BY <2>2 DEF Writing, WritingPlace, Out
  <2>5. QED
    BY <2>1, <2>3, <2>4, QuietMove
<1>4. QED
  BY <1>2, <1>3

\* What runs out leaves room.
LEMMA RunningOut ==
  ASSUME IndexInv, NEW k \in Context, LockRunsOut(k) \/ EntryRunsOut(k)
  PROVE  IndexInv'
<1>1. /\ UNCHANGED <<lookup, cutShort>> /\ entries' \subseteq entries
      /\ \/ cacheIndex' = cacheIndex
         \/ cacheIndex' = <<>> /\ entries' = {}
  BY DEF LockRunsOut, EntryRunsOut
<1>2. CASE cacheIndex' = cacheIndex
  <2>1. IndexTypes'
    BY <1>1, <1>2 DEF IndexInv, IndexTypes
  <2>2. OneWriter => OneWriter'
    BY <1>1 DEF OneWriter, Writing, Stands
  <2>3. EntriesAreIndexed => EntriesAreIndexed'
    BY <1>1, <1>2 DEF EntriesAreIndexed, Stands, Key, Listed
  <2>4. ASSUME IndexHasRoom
        PROVE  IndexHasRoom'
    <3>1. (\A c \in Reader : ~Writing(c)') => Few(Listed(cacheIndex))'
      BY <1>1, <1>2, <2>4 DEF IndexHasRoom, Writing, Few, Listed
    <3>2. ASSUME NEW c \in Reader
          PROVE  /\ Stands(c, "index")' => Few(Listed(cacheIndex))
                 /\ Stands(c, "oldest")' =>
                      \/ cacheIndex = <<>>
                      \/ lookup'[c].old = Excess' /\ Len(cacheIndex) > MaxEntries
                 /\ Stands(c, "drop")' => Few(Listed(cacheIndex) \ lookup'[c].old)
                 /\ Stands(c, "forget")' => /\ Few(Listed(cacheIndex) \ lookup'[c].old)
                                            /\ entries' \intersect lookup'[c].old = {}
      BY <1>1, <1>2, <2>4 DEF IndexHasRoom, Stands, Excess
    <3>3. QED
      BY <1>2, <3>1, <3>2 DEF IndexHasRoom, Few, Listed
  <2>5. QED
    BY <1>1, <2>1, <2>2, <2>3, <2>4 DEF IndexInv
<1>3. CASE cacheIndex' = <<>> /\ entries' = {}
  <2>1. Listed(cacheIndex') = {}
    BY <1>3 DEF Listed
  <2>2. \A old : Few(Listed(cacheIndex') \ old)
    BY <2>1, NothingIsFew
  <2>3. IndexTypes'
    BY <1>1, <1>3 DEF IndexInv, IndexTypes
  <2>4. OneWriter => OneWriter'
    BY <1>1 DEF OneWriter, Writing, Stands
  <2>5. EntriesAreIndexed'
    BY <1>3 DEF EntriesAreIndexed
  <2>6. IndexHasRoom'
    BY <1>3, <2>1, <2>2, NothingIsFew DEF IndexHasRoom, Listed, Few
  <2>7. QED
    BY <1>1, <2>3, <2>4, <2>5, <2>6 DEF IndexInv
<1>4. QED
  BY <1>1, <1>2, <1>3

\* Together with the invariant of the lock.
LEMMA IndexStep ==
  ASSUME IndexInv, LockTypes, [CacheNext]_cacheVars
  PROVE  IndexInv'
<1>1. CASE UNCHANGED cacheVars
  <2>1. UNCHANGED <<entries, cacheIndex, lookup, cutShort>>
    BY <1>1 DEF cacheVars
  <2>2. (IndexTypes => IndexTypes') /\ (OneWriter => OneWriter')
    BY <2>1 DEF IndexTypes, OneWriter, Writing, Stands
  <2>3. EntriesAreIndexed => EntriesAreIndexed'
    BY <2>1 DEF EntriesAreIndexed, Listed, Stands, Key
  <2>4. IndexHasRoom => IndexHasRoom'
    BY <2>1 DEF IndexHasRoom, Writing, Stands, Few, Listed, Excess
  <2>5. QED
    BY <2>1, <2>2, <2>3, <2>4 DEF IndexInv
<1>2. ASSUME NEW c \in Reader,
             \/ AskCache(c) \/ GetEntry(c) \/ AcquireLock(c) \/ WaitForLock(c)
             \/ GetAgain(c) \/ ListRepositoryNow(c) \/ ListAlone(c) \/ ReleaseLock(c)
      PROVE  IndexInv'
  BY <1>2, QuietSteps
<1>3. ASSUME NEW c \in Reader,
             \/ StoreEntry(c) \/ IndexEntry(c) \/ CountEntries(c) \/ FindOldest(c)
             \/ DropOldest(c) \/ ForgetOldest(c) \/ WriteFails(c) \/ CallerDies(c)
      PROVE  IndexInv'
  BY <1>3, StoreAndIndex, CountAndFind, DropAndForget, WriteEnds
<1>4. ASSUME NEW k \in Context, LockRunsOut(k) \/ EntryRunsOut(k)
      PROVE  IndexInv'
  BY <1>4, RunningOut
<1>5. QED
  BY <1>1, <1>2, <1>3, <1>4 DEF CacheNext

\* While nobody writes, all entries are in the index, and these are few.
LEMMA IndexBounds == IndexInv => EntriesAreBounded
<1> SUFFICES ASSUME IndexInv, ~cutShort, \A c \in Reader : ~Writing(c)
             PROVE  Cardinality(entries) <= MaxEntries
  BY DEF EntriesAreBounded
<1>1. \A c \in Reader : ~Stands(c, "index")
  BY DEF Writing, Stands
<1>2. entries \subseteq Listed(cacheIndex) /\ Few(Listed(cacheIndex))
  BY <1>1 DEF IndexInv, EntriesAreIndexed, IndexHasRoom
<1>3. QED
  BY <1>2, FewOf DEF Few

-----------------------------------------------------------------------------
(* SnapshotCache: types.                                                   *)

CallsTyped == \A c \in Reader : lookup[c] = Out \/ Key(c) \in Context

\* A caller that goes on keeps its key.
LEMMA CallsStayTyped ==
  ASSUME LockTypes, CallsTyped, NEW c \in Reader, NEW l,
         lookup' = [lookup EXCEPT ![c] = l], l = Out \/ l.key \in Context
  PROVE  CallsTyped'
<1>1. \A d \in Reader : lookup'[d] = IF d = c THEN l ELSE lookup[d]
  BY DEF LockTypes
<1>2. QED
  BY <1>1 DEF CallsTyped, Key

LEMMA CacheTypes ==
  ASSUME CacheTypeOK, LockTypes, LockTypes', IndexInv', [CacheNext]_cacheVars
  PROVE  CacheTypeOK'
<1>1. /\ entries \subseteq Context /\ cutShort \in BOOLEAN /\ CallsTyped
      /\ \A c \in Reader : ~Stands(c, "out") => Key(c) \in Context
  BY DEF CacheTypeOK, CallsTyped, LockTypes, Stands
<1>2. lock' \in [Context -> Reader \union {NoToken}] /\ timely' \subseteq Reader
  BY DEF LockTypes
<1>3. cacheIndex' \in Seq(Context)
  BY DEF IndexInv, IndexTypes
<1>4. ASSUME NEW c \in Reader, StoreEntry(c)
      PROVE  Key(c) \in Context
  BY <1>1, <1>4 DEF StoreEntry, Stands
<1>5. entries' \subseteq entries
      \/ \E c \in Reader : StoreEntry(c) /\ entries' = entries \union {Key(c)}
  BY DEF CacheNext, cacheVars, redisVars, AskCache, GetEntry, AcquireLock,
                  WaitForLock, GetAgain, ListRepositoryNow, ListAlone, StoreEntry,
                  IndexEntry, CountEntries, FindOldest, DropOldest, ForgetOldest,
                  WriteFails, ReleaseLock, CallerDies, LockRunsOut, EntryRunsOut
<1>6. cutShort' \in BOOLEAN
  BY <1>1 DEF CacheNext, cacheVars, redisVars, AskCache, GetEntry, AcquireLock,
            WaitForLock, GetAgain, ListRepositoryNow, ListAlone, StoreEntry,
            IndexEntry, CountEntries, FindOldest, DropOldest, ForgetOldest,
            WriteFails, ReleaseLock, CallerDies, LockRunsOut, EntryRunsOut
<1>7. CallsTyped'
  <2>1. CASE UNCHANGED lookup
    BY <1>1, <2>1 DEF CallsTyped, Key
  <2>2. ASSUME NEW c \in Reader, lookup' = [lookup EXCEPT ![c] = Out]
        PROVE  CallsTyped'
    BY <1>1, <2>2, CallsStayTyped
  <2>3. ASSUME NEW c \in Reader, NEW place, NEW k \in Context,
               lookup' = [lookup EXCEPT ![c] = [at |-> place, key |-> k]]
        PROVE  CallsTyped'
    BY <1>1, <2>3, CallsStayTyped
  <2>4. ASSUME NEW c \in Reader, NEW place, ~Stands(c, "out"),
               Leads(c, place) \/ \E old : Removes(c, place, old)
        PROVE  CallsTyped'
    <3>1. CASE Leads(c, place)
      BY <1>1, <2>4, <3>1, CallsStayTyped DEF Leads
    <3>2. ASSUME NEW old, Removes(c, place, old)
          PROVE  CallsTyped'
      <4> DEFINE l == [at |-> place, key |-> Key(c), old |-> old]
      <4>1. lookup' = [lookup EXCEPT ![c] = l] /\ l.key \in Context
        BY <1>1, <2>4, <3>2 DEF Removes
      <4> HIDE DEF l
      <4>2. QED
        BY <1>1, <4>1, CallsStayTyped
    <3>3. QED
      BY <2>4, <3>1, <3>2
  <2>5. ASSUME NEW c \in Reader,
               \/ AskCache(c) \/ ListAlone(c) \/ ReleaseLock(c) \/ CallerDies(c)
        PROVE  CallsTyped'
    BY <2>2, <2>3, <2>5 DEF AskCache, ListAlone, ReleaseLock, CallerDies
  <2>6. ASSUME NEW c \in Reader,
               \/ GetEntry(c) \/ AcquireLock(c) \/ WaitForLock(c) \/ GetAgain(c)
               \/ ListRepositoryNow(c) \/ StoreEntry(c) \/ IndexEntry(c)
               \/ CountEntries(c) \/ FindOldest(c) \/ DropOldest(c)
               \/ ForgetOldest(c) \/ WriteFails(c)
        PROVE  CallsTyped'
    <3>1. ~Stands(c, "out")
      BY <2>6 DEF GetEntry, AcquireLock, WaitForLock, GetAgain, ListRepositoryNow,
                  StoreEntry, IndexEntry, CountEntries, FindOldest, DropOldest,
                  ForgetOldest, WriteFails, Stands, Writing
    <3>2. \/ lookup' = [lookup EXCEPT ![c] = Out]
          \/ \E place : Leads(c, place)
          \/ \E place, old : Removes(c, place, old)
      BY <2>6 DEF GetEntry, AcquireLock, WaitForLock, GetAgain, ListRepositoryNow,
                  ListingGoesTo, StoreEntry, IndexEntry, CountEntries, FindOldest,
                  DropOldest, ForgetOldest, WriteFails
    <3>3. QED
      BY <2>2, <2>4, <3>1, <3>2
  <2>7. ASSUME NEW k \in Context, LockRunsOut(k) \/ EntryRunsOut(k)
        PROVE  CallsTyped'
    BY <2>1, <2>7 DEF LockRunsOut, EntryRunsOut
  <2>8. QED
    BY <2>1, <2>5, <2>6, <2>7 DEF CacheNext, cacheVars
<1>8. QED
  BY <1>1, <1>2, <1>3, <1>4, <1>5, <1>6, <1>7 DEF CacheTypeOK, CallsTyped

-----------------------------------------------------------------------------
\* All of it together.
THEOREM CacheInvariant == CacheSpec => [](LockInv /\ IndexInv /\ CacheTypeOK)
<1> DEFINE Inv == LockInv /\ IndexInv /\ CacheTypeOK
<1>1. CacheInit => Inv
  <2>1. ASSUME CacheInit
        PROVE  CacheTypeOK
    <3>1. cacheIndex \in Seq(Context) /\ \A c \in Reader : lookup[c] = Out
      BY <2>1 DEF CacheInit
    <3>2. lock \in [Context -> Reader \union {NoToken}]
      BY <2>1 DEF CacheInit
    <3>3. QED
      BY <2>1, <3>1, <3>2 DEF CacheInit, CacheTypeOK
  <2>2. QED
    BY <2>1, LockInvInit, IndexInvInit
<1>2. Inv /\ [CacheNext]_cacheVars => Inv'
  <2> SUFFICES ASSUME Inv, [CacheNext]_cacheVars PROVE Inv'
    OBVIOUS
  <2>1. LockInv' /\ LockTypes /\ LockTypes'
    BY LockStep DEF LockInv
  <2>2. IndexInv'
    BY <2>1, IndexStep
  <2>3. CacheTypeOK'
    BY <2>1, <2>2, CacheTypes
  <2>4. QED
    BY <2>1, <2>2, <2>3
<1> HIDE DEF Inv
<1>3. CacheSpec => []Inv
  BY <1>1, <1>2, PTL DEF CacheSpec
<1>4. QED
  BY <1>3, PTL DEF Inv

\* For every number of callers, contexts and entries, whatever fails and
\* whoever dies: the state of the cache is well formed.
THEOREM CacheTypeCorrect == CacheSpec => []CacheTypeOK
BY CacheInvariant, PTL

\* And what the lock and the index are for holds: an undisturbed cache never
\* has more entries than it may.
THEOREM CacheKeepsOrder == CacheSpec => []CacheStaysInOrder
<1>1. IndexInv => EntriesAreBounded
  BY IndexBounds
<1>2. OneListsInTime /\ EntriesAreBounded => CacheStaysInOrder
  BY DEF CacheStaysInOrder
<1>3. QED
  BY <1>1, <1>2, CacheInvariant, OneListerForEachEntry, PTL

-----------------------------------------------------------------------------
(* Configuration: requests and rows.                                       *)

Usages == {SecretPlaces, <<"profile", "settings">>, <<"settings">>, <<>>}

(* What a handler holds while it serves an operator.                       *)
Sheet(e) ==
  /\ e.op = "secret" => e \in [op : {"secret"}, id : Secret, value : Remote]
  /\ e.op \in {"settings", "target"} =>
       e \in [op : {"settings", "target"}, ref : OptionalSecret, asked : BOOLEAN]
  /\ e.op = "profile" =>
       e \in [op : {"profile"}, id : Profile, ref : OptionalSecret,
              asked : BOOLEAN]
  /\ e.op = "delete" => e \in [op : {"delete"}, id : Secret, left : Usages]

ConfigurationTypes ==
  /\ secretRow \in [Secret -> Remote \union {"absent"}]
  /\ profileRow \in [Profile -> ProfileRow \union {Absent}]
  /\ settingsRow \in SettingsRow
  /\ savedTarget \in TargetRecord
  /\ edit = [h \in Clerk |-> edit[h]]
  /\ \A h \in Clerk : Sheet(edit[h])

(* A reference that was asked for is there, and a secret is not used where *)
(* its usages were looked for already.                                     *)
Checked(e) ==
  /\ e.op \in {"settings", "target", "profile"} /\ e.asked => Exists(e.ref)
  /\ e.op = "delete" =>
       /\ e.left # SecretPlaces => ~UsedIn("target", e.id)
       /\ e.left \in {<<"settings">>, <<>>} => ~UsedIn("profile", e.id)
       /\ e.left = <<>> => ~UsedIn("settings", e.id)

ReferencesExist ==
  /\ Exists(settingsRow.conf) /\ Exists(savedTarget.password)
  /\ \A p \in Profile : Exists(profileRow[p].file)

OneRequest ==
  \A g, h \in Clerk : edit[g] # Resting /\ edit[h] # Resting => g = h

ReferenceInv ==
  /\ ConfigurationTypes
  /\ ~overlapped =>
       OneRequest /\ ReferencesExist /\ \A h \in Clerk : Checked(edit[h])

\* The lookups that are left, from the first to the last.
LEMMA UsagesInOrder ==
  /\ \A l \in Usages : l # <<>> => Tail(l) \in Usages
  /\ Head(SecretPlaces) = "target"
  /\ Tail(SecretPlaces) = <<"profile", "settings">>
  /\ Head(<<"profile", "settings">>) = "profile"
  /\ Tail(<<"profile", "settings">>) = <<"settings">>
  /\ Head(<<"settings">>) = "settings"
  /\ Tail(<<"settings">>) = <<>>
  /\ SecretPlaces # <<"profile", "settings">> /\ SecretPlaces # <<"settings">>
  /\ SecretPlaces # <<>> /\ <<"profile", "settings">> # <<"settings">>
  /\ <<"profile", "settings">> # <<>> /\ <<"settings">> # <<>>
<1>1. Tail(SecretPlaces) = <<"profile", "settings">>
  BY DEF SecretPlaces
<1>2. Tail(<<"profile", "settings">>) = <<"settings">>
  OBVIOUS
<1>3. Tail(<<"settings">>) = <<>>
  OBVIOUS
<1>4. /\ SecretPlaces # <<"profile", "settings">> /\ SecretPlaces # <<"settings">>
      /\ SecretPlaces # <<>> /\ <<"profile", "settings">> # <<"settings">>
      /\ <<"profile", "settings">> # <<>> /\ <<"settings">> # <<>>
  <2>1. /\ Len(SecretPlaces) = 3 /\ Len(<<"profile", "settings">>) = 2
        /\ Len(<<"settings">>) = 1 /\ Len(<<>>) = 0
    BY DEF SecretPlaces
  <2>2. QED
    BY <2>1
<1>5. /\ Head(SecretPlaces) = "target" /\ Head(<<"settings">>) = "settings"
      /\ Head(<<"profile", "settings">>) = "profile"
  BY DEF SecretPlaces
<1>6. ASSUME NEW l \in Usages, l # <<>> PROVE Tail(l) \in Usages
  <2>1. CASE l = SecretPlaces
    BY <1>1, <2>1, Zenon DEF Usages
  <2>2. CASE l = <<"profile", "settings">>
    BY <1>2, <2>2, Zenon DEF Usages
  <2>3. CASE l = <<"settings">>
    BY <1>3, <2>3, Zenon DEF Usages
  <2>4. QED
    BY <1>6, <2>1, <2>2, <2>3, Zenon DEF Usages
<1>7. \A l \in Usages : l # <<>> => Tail(l) \in Usages
  BY <1>6, Zenon
<1>8. QED
  BY <1>1, <1>2, <1>3, <1>4, <1>5, <1>7, ZenonT(60)

\* At first nothing refers to anything.
LEMMA ReferenceInvInit == ConfigurationInit => ReferenceInv
<1> SUFFICES ASSUME ConfigurationInit PROVE ReferenceInv
  OBVIOUS
<1>1. \A h \in Clerk : edit[h] = Resting /\ edit[h].op = "none"
  BY DEF ConfigurationInit, Resting
<1>2. ConfigurationTypes
  <2>1. secretRow \in [Secret -> Remote \union {"absent"}]
    BY DEF ConfigurationInit
  <2>2. profileRow \in [Profile -> ProfileRow \union {Absent}]
    BY DEF ConfigurationInit
  <2>3. settingsRow \in SettingsRow /\ savedTarget \in TargetRecord
    BY DEF ConfigurationInit, SettingsRow, TargetRecord, OptionalSecret
  <2>4. edit = [h \in Clerk |-> edit[h]]
    BY DEF ConfigurationInit
  <2>5. \A h \in Clerk : Sheet(edit[h])
    BY <1>1 DEF Sheet
  <2>6. QED
    BY <2>1, <2>2, <2>3, <2>4, <2>5 DEF ConfigurationTypes
<1>3. OneRequest /\ \A h \in Clerk : Checked(edit[h])
  BY <1>1 DEF OneRequest, Checked
<1>4. ReferencesExist
  BY DEF ConfigurationInit, ReferencesExist, Exists, Absent
<1>5. QED
  BY <1>2, <1>3, <1>4 DEF ReferenceInv

\* A request comes in.
LEMMA AcceptsKeeps ==
  ASSUME ReferenceInv, NEW h \in Clerk, NEW e, Accepts(h, e), Sheet(e),
         ~overlapped => Checked(e)
  PROVE  ReferenceInv'
<1>1. /\ UNCHANGED rowVars /\ edit[h] = Resting
      /\ overlapped' = (overlapped \/ \E g \in Clerk : edit[g] # Resting)
  BY DEF Accepts, MayBegin
<1>2. \A g \in Clerk : edit'[g] = IF g = h THEN e ELSE edit[g]
  BY DEF Accepts, MayBegin, Edits, ReferenceInv, ConfigurationTypes
<1>3. edit' = [g \in Clerk |-> edit'[g]]
  BY DEF Accepts, MayBegin, Edits, ReferenceInv, ConfigurationTypes
<1>4. ConfigurationTypes'
  BY <1>1, <1>2, <1>3 DEF ReferenceInv, ConfigurationTypes, rowVars, Sheet
<1>5. ASSUME ~overlapped'
      PROVE  OneRequest' /\ ReferencesExist' /\ \A g \in Clerk : Checked(edit[g])'
  <2>1. ~overlapped /\ \A g \in Clerk : edit[g] = Resting
    BY <1>1, <1>5
  <2>2. OneRequest'
    BY <1>2, <2>1 DEF OneRequest
  <2>3. ReferencesExist'
    BY <1>1, <2>1 DEF ReferenceInv, ReferencesExist, rowVars, Exists
  <2>4. \A g \in Clerk : Checked(edit[g])'
    BY <1>1, <1>2, <2>1 DEF ReferenceInv, Checked, rowVars, Exists, UsedIn
  <2>5. QED
    BY <2>2, <2>3, <2>4
<1>6. QED
  BY <1>4, <1>5 DEF ReferenceInv

\* A request goes on, and changes no row.
LEMMA EditsKeeps ==
  ASSUME ReferenceInv, NEW h \in Clerk, NEW e, Edits(h, e), edit[h] # Resting,
         UNCHANGED <<rowVars, overlapped>>, Sheet(e), ~overlapped => Checked(e)
  PROVE  ReferenceInv'
<1>1. \A g \in Clerk : edit'[g] = IF g = h THEN e ELSE edit[g]
  BY DEF Edits, ReferenceInv, ConfigurationTypes
<1>2. edit' = [g \in Clerk |-> edit'[g]]
  BY DEF Edits, ReferenceInv, ConfigurationTypes
<1>3. ConfigurationTypes'
  BY <1>1, <1>2 DEF ReferenceInv, ConfigurationTypes, rowVars, Sheet
<1>4. ASSUME ~overlapped'
      PROVE  OneRequest' /\ ReferencesExist' /\ \A g \in Clerk : Checked(edit[g])'
  <2>1. OneRequest'
    BY <1>1, <1>4 DEF ReferenceInv, OneRequest
  <2>2. ReferencesExist'
    BY <1>4 DEF ReferenceInv, ReferencesExist, rowVars, Exists
  <2>3. \A g \in Clerk : Checked(edit[g])'
    BY <1>1, <1>4 DEF ReferenceInv, Checked, rowVars, Exists, UsedIn
  <2>4. QED
    BY <2>1, <2>2, <2>3
<1>5. QED
  BY <1>3, <1>4 DEF ReferenceInv

\* A row was saved.
LEMMA SavedEdit ==
  ASSUME ReferenceInv, NEW h \in Clerk, Saved(h)
  PROVE  /\ edit' = [g \in Clerk |-> edit'[g]]
         /\ \A g \in Clerk : Sheet(edit'[g])
         /\ edit'[h] = Resting
         /\ \A g \in Clerk : edit[g] = Resting => edit'[g] = Resting
         /\ \A g \in Clerk : g # h =>
              \/ edit'[g] = edit[g] /\ edit[g].op # "build"
              \/ edit'[g] = [op |-> "build", at |-> "mixed"]
<1>1. edit' = [g \in Clerk |-> CASE g = h -> Resting
                              [] g # h /\ edit[g].op = "build" ->
                                   [op |-> "build", at |-> "mixed"]
                              [] OTHER -> edit[g]]
  BY DEF Saved
<1>2. edit' = [g \in Clerk |-> edit'[g]]
  BY <1>1
<1>3. edit'[h] = Resting
  BY <1>1
<1>4. ASSUME NEW g \in Clerk, g # h, edit[g].op = "build"
      PROVE  edit'[g] = [op |-> "build", at |-> "mixed"]
  BY <1>1, <1>4
<1>5. ASSUME NEW g \in Clerk, g # h, edit[g].op # "build"
      PROVE  edit'[g] = edit[g]
  BY <1>1, <1>5
<1>6. Sheet(Resting) /\ Sheet([op |-> "build", at |-> "mixed"])
  BY DEF Sheet, Resting
<1>7. \A g \in Clerk : Sheet(edit[g])
  BY DEF ReferenceInv, ConfigurationTypes
<1>8. Resting.op # "build"
  BY DEF Resting
<1>9. \A g \in Clerk : Sheet(edit'[g])
  BY <1>3, <1>4, <1>5, <1>6, <1>7, Zenon
<1>10. QED
  BY <1>2, <1>3, <1>4, <1>5, <1>8, <1>9, Zenon

LEMMA SavedKeeps ==
  ASSUME ReferenceInv, NEW h \in Clerk, Saved(h), edit[h] # Resting,
         secretRow' \in [Secret -> Remote \union {"absent"}],
         profileRow' \in [Profile -> ProfileRow \union {Absent}],
         settingsRow' \in SettingsRow, savedTarget' \in TargetRecord,
         ~overlapped => ReferencesExist'
  PROVE  ReferenceInv'
<1>1. /\ edit' = [g \in Clerk |-> edit'[g]]
      /\ \A g \in Clerk : Sheet(edit'[g])
      /\ edit'[h] = Resting
      /\ \A g \in Clerk : edit[g] = Resting => edit'[g] = Resting
  BY SavedEdit
<1>2. ConfigurationTypes'
  BY <1>1, Zenon DEF ConfigurationTypes, Sheet
<1>3. ASSUME ~overlapped' PROVE \A g \in Clerk : edit'[g] = Resting
  <2>1. ~overlapped
    BY <1>3 DEF Saved
  <2>2. QED
    BY <1>1, <2>1 DEF ReferenceInv, OneRequest
<1>4. Resting.op = "none"
  BY DEF Resting
<1>5. ASSUME ~overlapped'
      PROVE  OneRequest' /\ ReferencesExist' /\ \A g \in Clerk : Checked(edit[g])'
  <2>1. OneRequest'
    BY <1>3, <1>5 DEF OneRequest
  <2>2. ReferencesExist'
    BY <1>5 DEF Saved
  <2>3. \A g \in Clerk : Checked(edit[g])'
    BY <1>3, <1>4, <1>5 DEF Checked
  <2>4. QED
    BY <2>1, <2>2, <2>3
<1>6. QED
  BY <1>2, <1>5 DEF ReferenceInv

-----------------------------------------------------------------------------
(* One lemma for each kind of step.                                        *)

LEMMA RequestsKeepReferences ==
  ASSUME ReferenceInv, NEW h \in Clerk, EditSecret(h) \/ EditReferring(h)
  PROVE  ReferenceInv'
<1>1. ASSUME NEW s \in Secret, NEW r \in Remote,
             Accepts(h, [op |-> "secret", id |-> s, value |-> r])
      PROVE  ReferenceInv'
  <2>1. LET e == [op |-> "secret", id |-> s, value |-> r]
        IN Sheet(e) /\ Checked(e)
    BY DEF Sheet, Checked
  <2>2. QED
    BY <1>1, <2>1, AcceptsKeeps, Zenon
<1>2. ASSUME NEW op \in {"target", "settings"}, NEW s \in OptionalSecret,
             NEW known \in BOOLEAN, ~overlapped /\ known => Exists(s),
             Accepts(h, [op |-> op, ref |-> s, asked |-> known])
      PROVE  ReferenceInv'
  <2>1. LET e == [op |-> op, ref |-> s, asked |-> known]
        IN Sheet(e) /\ (~overlapped => Checked(e))
    BY <1>2 DEF Sheet, Checked
  <2>2. QED
    BY <1>2, <2>1, AcceptsKeeps, Zenon
<1>3. ASSUME NEW p \in Profile, NEW s \in OptionalSecret,
             NEW known \in BOOLEAN, ~overlapped /\ known => Exists(s),
             Accepts(h, [op |-> "profile", id |-> p, ref |-> s,
                         asked |-> known])
      PROVE  ReferenceInv'
  <2>1. LET e == [op |-> "profile", id |-> p, ref |-> s, asked |-> known]
        IN Sheet(e) /\ (~overlapped => Checked(e))
    BY <1>3 DEF Sheet, Checked
  <2>2. QED
    BY <1>3, <2>1, AcceptsKeeps, Zenon
<1>4. /\ settingsRow.conf \in OptionalSecret
      /\ savedTarget.password \in OptionalSecret
      /\ \A p \in Profile : profileRow[p].file \in OptionalSecret
  BY DEF ReferenceInv, ConfigurationTypes, SettingsRow, TargetRecord,
         ProfileRow, Absent, OptionalSecret
<1>5. ~overlapped => ReferencesExist
  BY DEF ReferenceInv
<1>6. CASE EditSecret(h)
  BY <1>1, <1>6, Zenon DEF EditSecret
<1>7. CASE EditReferring(h)
  <2>1. CASE \E s \in OptionalSecret :
               Accepts(h, [op |-> "target", ref |-> s, asked |-> FALSE])
    BY <1>2, <2>1
  <2>2. CASE Accepts(h, [op |-> "target", ref |-> savedTarget.password,
                         asked |-> TRUE])
    BY <1>2, <1>4, <1>5, <2>2 DEF ReferencesExist
  <2>3. CASE \E s \in Secret :
               Accepts(h, [op |-> "settings", ref |-> s, asked |-> FALSE])
    BY <1>2, <2>3 DEF OptionalSecret
  <2>4. CASE Accepts(h, [op |-> "settings", ref |-> settingsRow.conf,
                         asked |-> TRUE])
    BY <1>2, <1>4, <1>5, <2>4 DEF ReferencesExist
  <2>5. CASE \E p \in Profile, s \in OptionalSecret :
               Accepts(h, [op |-> "profile", id |-> p, ref |-> s,
                           asked |-> FALSE])
    BY <1>3, <2>5
  <2>6. CASE \E p \in Profile :
               Accepts(h, [op |-> "profile", id |-> p,
                           ref |-> profileRow[p].file, asked |-> TRUE])
    BY <1>3, <1>4, <1>5, <2>6 DEF ReferencesExist
  <2>7. QED
    BY <1>7, <2>1, <2>2, <2>3, <2>4, <2>5, <2>6, Zenon DEF EditReferring
<1>8. QED
  BY <1>6, <1>7

\* The checks before a save.
LEMMA ChecksKeepReferences ==
  ASSUME ReferenceInv, NEW h \in Clerk, RequireSecret(h) \/ FindUsages(h)
  PROVE  ReferenceInv'
<1>1. Sheet(edit[h]) /\ (~overlapped => Checked(edit[h]))
  BY DEF ReferenceInv, ConfigurationTypes
<1>2. Sheet(Resting) /\ Checked(Resting)
  BY DEF Sheet, Checked, Resting
<1>3. ASSUME RequireSecret(h) PROVE ReferenceInv'
  <2>1. edit[h].op # "none"
    BY <1>3 DEF RequireSecret, Referring
  <2>2. edit[h] # Resting
    BY <2>1 DEF Resting
  <2>3. CASE ~Exists(edit[h].ref)
    BY <1>2, <1>3, <2>2, <2>3, EditsKeeps, Zenon DEF RequireSecret
  <2>4. CASE Exists(edit[h].ref)
    <3> DEFINE e == [edit[h] EXCEPT !.asked = TRUE]
    <3>1. Sheet(e)
      <4>1. CASE edit[h].op \in {"settings", "target"}
        BY <1>1, <4>1 DEF Sheet
      <4>2. CASE edit[h].op = "profile"
        BY <1>1, <4>2 DEF Sheet
      <4>3. QED
        BY <1>3, <4>1, <4>2 DEF RequireSecret, Referring
    <3>2. e.ref = edit[h].ref /\ e.op \in {"settings", "target", "profile"}
      <4>1. CASE edit[h].op \in {"settings", "target"}
        BY <1>1, <4>1 DEF Sheet
      <4>2. CASE edit[h].op = "profile"
        BY <1>1, <4>2 DEF Sheet
      <4>3. QED
        BY <1>3, <4>1, <4>2 DEF RequireSecret, Referring
    <3>3. Checked(e)
      <4> HIDE DEF e
      <4>1. QED
        BY <2>4, <3>2 DEF Checked
    <3>4. Edits(h, e) /\ UNCHANGED <<rowVars, overlapped>>
      BY <1>3, <2>4, Zenon DEF RequireSecret
    <3>5. QED
      <4> HIDE DEF e
      <4>1. QED
        BY <2>2, <3>1, <3>3, <3>4, EditsKeeps, Zenon
  <2>5. QED
    BY <2>3, <2>4
<1>4. ASSUME NEW s \in Secret,
             Accepts(h, [op |-> "delete", id |-> s, left |-> SecretPlaces])
      PROVE  ReferenceInv'
  <2> DEFINE e == [op |-> "delete", id |-> s, left |-> SecretPlaces]
  <2>1. Sheet(e)
    BY DEF Sheet, Usages
  <2>2. e.op = "delete" /\ e.left = SecretPlaces
    OBVIOUS
  <2>3. Checked(e)
    <3> HIDE DEF e
    <3>1. SecretPlaces \notin {<<"settings">>, <<>>}
      BY UsagesInOrder, Zenon
    <3>2. QED
      BY <2>2, <3>1 DEF Checked
  <2>4. QED
    BY <1>4, <2>1, <2>3, AcceptsKeeps, Zenon
<1>5. ASSUME edit[h].op = "delete", edit[h].left # <<>>,
             Edits(h, IF UsedIn(Head(edit[h].left), edit[h].id) THEN Resting
                      ELSE [edit[h] EXCEPT !.left = Tail(@)]),
             UNCHANGED <<rowVars, overlapped>>
      PROVE  ReferenceInv'
  <2>1. edit[h] # Resting
    BY <1>5 DEF Resting
  <2>2. CASE UsedIn(Head(edit[h].left), edit[h].id)
    BY <1>2, <1>5, <2>1, <2>2, EditsKeeps, Zenon
  <2>3. CASE ~UsedIn(Head(edit[h].left), edit[h].id)
    <3> DEFINE e == [edit[h] EXCEPT !.left = Tail(@)]
    <3>1. edit[h] \in [op : {"delete"}, id : Secret, left : Usages]
      BY <1>1, <1>5 DEF Sheet
    <3>2. /\ e.op = "delete" /\ e.id = edit[h].id /\ e.left = Tail(edit[h].left)
          /\ edit[h].left \in Usages /\ edit[h].id \in Secret
          /\ e \in [op : {"delete"}, id : Secret, left : {e.left}]
      <4>1. /\ edit[h].op = "delete" /\ edit[h].left \in Usages
            /\ edit[h].id \in Secret
            /\ edit[h] = [op |-> edit[h].op, id |-> edit[h].id,
                          left |-> edit[h].left]
        BY <3>1
      <4>2. e.op = edit[h].op /\ e.id = edit[h].id
        BY <4>1
      <4>3. e.left = Tail(edit[h].left)
        BY <4>1
      <4>4. e \in [op : {"delete"}, id : Secret, left : {e.left}]
        BY <3>1, <4>3
      <4>5. QED
        BY <4>1, <4>2, <4>3, <4>4
    <3>3. e.left \in Usages
      BY <1>5, <3>2, UsagesInOrder, Zenon
    <3>4. Sheet(e)
      <4> HIDE DEF e
      <4>1. e \in [op : {"delete"}, id : Secret, left : Usages]
        BY <3>2, <3>3
      <4>2. QED
        BY <3>2, <4>1 DEF Sheet
    <3>5. ASSUME ~overlapped PROVE Checked(e)
      <4> HIDE DEF e
      <4>1. Checked(edit[h])
        BY <1>1, <3>5
      <4>2. CASE edit[h].left = SecretPlaces
        <5>1. ~UsedIn("target", e.id) /\ e.left = <<"profile", "settings">>
          BY <2>3, <3>2, <4>2, UsagesInOrder, Zenon
        <5>2. e.left \notin {<<"settings">>, <<>>}
          BY <5>1, UsagesInOrder, Zenon
        <5>3. QED
          BY <3>2, <5>1, <5>2 DEF Checked
      <4>3. CASE edit[h].left = <<"profile", "settings">>
        <5>1. ~UsedIn("profile", e.id) /\ e.left = <<"settings">>
          BY <2>3, <3>2, <4>3, UsagesInOrder, Zenon
        <5>2. ~UsedIn("target", e.id)
          BY <1>5, <3>2, <4>1, <4>3, UsagesInOrder, Zenon DEF Checked
        <5>3. e.left # <<>>
          BY <5>1, UsagesInOrder, Zenon
        <5>4. QED
          BY <3>2, <5>1, <5>2, <5>3 DEF Checked
      <4>4. CASE edit[h].left = <<"settings">>
        <5>1. ~UsedIn("settings", e.id)
          BY <2>3, <3>2, <4>4, UsagesInOrder, Zenon
        <5>2. edit[h].left # SecretPlaces
          BY <4>4, UsagesInOrder, Zenon
        <5>3. ~UsedIn("target", e.id) /\ ~UsedIn("profile", e.id)
          BY <1>5, <3>2, <4>1, <4>4, <5>2, Zenon DEF Checked
        <5>4. QED
          BY <3>2, <5>1, <5>3 DEF Checked
      <4>5. QED
        BY <1>5, <3>2, <4>2, <4>3, <4>4, Zenon DEF Usages
    <3>6. Edits(h, e)
      BY <1>5, <2>3, Zenon
    <3>7. QED
      <4> HIDE DEF e
      <4>1. QED
        BY <1>5, <2>1, <3>4, <3>5, <3>6, EditsKeeps, Zenon
  <2>4. QED
    BY <2>2, <2>3
<1>6. QED
  BY <1>3, <1>4, <1>5, Zenon DEF FindUsages

\* A secret that is deleted, once no place used it, was referred to nowhere.
LEMMA SavesKeepReferences ==
  ASSUME ReferenceInv, NEW h \in Clerk,
         SaveSecret(h) \/ SaveSettings(h) \/ SaveProfile(h)
           \/ SaveBackupTarget(h) \/ DeleteSecret(h)
  PROVE  ReferenceInv'
<1>1. Sheet(edit[h]) /\ (~overlapped => Checked(edit[h]))
  BY DEF ReferenceInv, ConfigurationTypes
<1>2. edit[h].op # "none" /\ Saved(h)
  BY DEF SaveSecret, SaveSettings, SaveProfile, SaveBackupTarget, DeleteSecret
<1>3. edit[h] # Resting
  BY <1>2 DEF Resting
<1>4. /\ secretRow \in [Secret -> Remote \union {"absent"}]
      /\ profileRow \in [Profile -> ProfileRow \union {Absent}]
      /\ settingsRow \in SettingsRow
      /\ savedTarget \in TargetRecord
      /\ ~overlapped => ReferencesExist
  BY DEF ReferenceInv, ConfigurationTypes
<1>5. None \notin Secret /\ "absent" \notin Remote
  BY ConfigurationAssumption
<1>6. CASE SaveSecret(h)
  <2>1. edit[h].id \in Secret /\ edit[h].value \in Remote
    BY <1>1, <1>6 DEF SaveSecret, Sheet
  <2>2. /\ secretRow' = [secretRow EXCEPT ![edit[h].id] = edit[h].value]
        /\ UNCHANGED <<profileRow, settingsRow, savedTarget>>
    BY <1>6 DEF SaveSecret
  <2>3. secretRow' \in [Secret -> Remote \union {"absent"}]
    BY <1>4, <2>1, <2>2
  <2>4. \A s \in OptionalSecret : Exists(s) => Exists(s)'
    BY <1>4, <1>5, <2>1, <2>2 DEF Exists, OptionalSecret
  <2>5. /\ settingsRow.conf \in OptionalSecret
        /\ savedTarget.password \in OptionalSecret
        /\ \A p \in Profile : profileRow[p].file \in OptionalSecret
    BY <1>4 DEF SettingsRow, TargetRecord, ProfileRow, Absent, OptionalSecret
  <2>6. ~overlapped => ReferencesExist'
    BY <1>4, <2>2, <2>4, <2>5 DEF ReferencesExist, Exists
  <2>7. QED
    BY <1>2, <1>3, <1>4, <2>2, <2>3, <2>6, SavedKeeps
<1>7. CASE SaveSettings(h)
  <2>1. /\ settingsRow' \in SettingsRow /\ settingsRow'.conf = edit[h].ref
        /\ UNCHANGED <<secretRow, profileRow, savedTarget>>
    BY <1>7 DEF SaveSettings
  <2>2. ~overlapped => Exists(edit[h].ref)
    BY <1>1, <1>7 DEF SaveSettings, Checked
  <2>3. ~overlapped => ReferencesExist'
    BY <1>4, <2>1, <2>2 DEF ReferencesExist, Exists
  <2>4. QED
    BY <1>2, <1>3, <1>4, <2>1, <2>3, SavedKeeps
<1>8. CASE SaveProfile(h)
  <2>1. PICK row \in ProfileRow :
          row.file = edit[h].ref
            /\ profileRow' = [profileRow EXCEPT ![edit[h].id] = row]
    BY <1>8 DEF SaveProfile
  <2>2. UNCHANGED <<secretRow, settingsRow, savedTarget>>
    BY <1>8 DEF SaveProfile
  <2>3. ~overlapped => Exists(row.file)
    BY <1>1, <1>8, <2>1 DEF SaveProfile, Checked
  <2>4. profileRow' \in [Profile -> ProfileRow \union {Absent}]
    BY <1>4, <2>1
  <2>5. \A p \in Profile : profileRow'[p] = profileRow[p] \/ profileRow'[p] = row
    BY <1>4, <2>1
  <2>6. ~overlapped => ReferencesExist'
    BY <1>4, <2>2, <2>3, <2>5 DEF ReferencesExist, Exists
  <2>7. QED
    BY <1>2, <1>3, <1>4, <2>2, <2>4, <2>6, SavedKeeps
<1>9. CASE SaveBackupTarget(h)
  <2>1. /\ savedTarget' \in TargetRecord
        /\ savedTarget'.password = edit[h].ref
        /\ UNCHANGED <<secretRow, profileRow, settingsRow>>
    BY <1>9 DEF SaveBackupTarget
  <2>2. ~overlapped => Exists(edit[h].ref)
    BY <1>1, <1>9 DEF SaveBackupTarget, Checked
  <2>3. ~overlapped => ReferencesExist'
    BY <1>4, <2>1, <2>2 DEF ReferencesExist, Exists
  <2>4. QED
    BY <1>2, <1>3, <1>4, <2>1, <2>3, SavedKeeps
<1>10. CASE DeleteSecret(h)
  <2>1. /\ secretRow' = [secretRow EXCEPT ![edit[h].id] = "absent"]
        /\ edit[h].op = "delete" /\ edit[h].left = <<>>
        /\ UNCHANGED <<profileRow, settingsRow, savedTarget>>
    BY <1>10 DEF DeleteSecret
  <2>2. edit[h].id \in Secret
    BY <1>1, <2>1 DEF Sheet
  <2>3. ASSUME ~overlapped
        PROVE  /\ savedTarget.password # edit[h].id
               /\ settingsRow.conf # edit[h].id
               /\ \A p \in Profile : profileRow[p].file # edit[h].id
    <3>1. edit[h].left # SecretPlaces
      BY <2>1, UsagesInOrder, Zenon
    <3>2. /\ ~UsedIn("target", edit[h].id) /\ ~UsedIn("profile", edit[h].id)
          /\ ~UsedIn("settings", edit[h].id)
      BY <1>1, <2>1, <2>3, <3>1, Zenon DEF Checked
    <3>3. QED
      BY <3>2 DEF UsedIn
  <2>4. \A s : s # edit[h].id /\ s \in OptionalSecret /\ Exists(s) => Exists(s)'
    BY <1>4, <2>1, <2>2 DEF Exists, OptionalSecret
  <2>5. /\ settingsRow.conf \in OptionalSecret
        /\ savedTarget.password \in OptionalSecret
        /\ \A p \in Profile : profileRow[p].file \in OptionalSecret
    BY <1>4 DEF SettingsRow, TargetRecord, ProfileRow, Absent, OptionalSecret
  <2>6. ~overlapped => ReferencesExist'
    BY <1>4, <2>1, <2>3, <2>4, <2>5 DEF ReferencesExist, Exists
  <2>7. secretRow' \in [Secret -> Remote \union {"absent"}]
    BY <1>4, <2>1, <2>2
  <2>8. QED
    BY <1>2, <1>3, <1>4, <2>1, <2>6, <2>7, SavedKeeps
<1>11. QED
  BY <1>6, <1>7, <1>8, <1>9, <1>10

\* A profile that is deleted refers to nothing any more.
LEMMA DeleteProfileKeepsReferences ==
  ASSUME ReferenceInv, NEW h \in Clerk, DeleteProfile(h)
  PROVE  ReferenceInv'
<1>1. Saved(h) /\ edit[h] = Resting /\ UNCHANGED <<secretRow, settingsRow, savedTarget>>
  BY DEF DeleteProfile, MayBegin
<1>2. profileRow' \in [Profile -> ProfileRow \union {Absent}]
  BY DEF DeleteProfile, MayBegin, ReferenceInv, ConfigurationTypes
<1>3. \A p \in Profile :
        \/ profileRow'[p] = profileRow[p]
        \/ profileRow'[p].file = None /\ profileRow'[p].env = None
  BY DEF DeleteProfile, MayBegin, ReferenceInv, ConfigurationTypes, Absent
<1>4. /\ edit' = [g \in Clerk |-> edit'[g]]
      /\ \A g \in Clerk : Sheet(edit'[g])
      /\ \A g \in Clerk : edit[g] = Resting => edit'[g] = Resting
      /\ edit'[h] = Resting
      /\ \A g \in Clerk : g # h =>
           edit'[g] = edit[g] \/ edit'[g] = [op |-> "build", at |-> "mixed"]
  BY <1>1, SavedEdit
<1>5. ConfigurationTypes'
  BY <1>1, <1>2, <1>4 DEF ReferenceInv, ConfigurationTypes, Sheet
<1>6. ASSUME ~overlapped'
      PROVE  OneRequest' /\ ReferencesExist' /\ \A g \in Clerk : Checked(edit[g])'
  <2>1. ~overlapped
    BY <1>1, <1>6 DEF Saved
  <2>2. OneRequest'
    BY <1>4, <2>1 DEF ReferenceInv, OneRequest
  <2>3. ReferencesExist'
    BY <1>1, <1>3, <2>1 DEF ReferenceInv, ReferencesExist, Exists
  <2>4. ASSUME NEW g \in Clerk PROVE Checked(edit[g])'
    <3>1. CASE edit'[g] = Resting \/ edit'[g] = [op |-> "build", at |-> "mixed"]
      BY <3>1 DEF Checked, Resting
    <3>2. CASE edit'[g] = edit[g]
      <4>1. Checked(edit[g])
        BY <2>1 DEF ReferenceInv
      <4>2. edit[g].op = "delete" => edit[g].id \in Secret
        BY DEF ReferenceInv, ConfigurationTypes, Sheet
      <4>3. \A s \in Secret : UsedIn("profile", s)' => UsedIn("profile", s)
        BY <1>3, ConfigurationAssumption DEF UsedIn
      <4>4. \A s : /\ UsedIn("target", s)' = UsedIn("target", s)
                   /\ UsedIn("settings", s)' = UsedIn("settings", s)
                   /\ Exists(s)' = Exists(s)
        BY <1>1 DEF UsedIn, Exists
      <4>5. QED
        BY <3>2, <4>1, <4>2, <4>3, <4>4, Zenon DEF Checked
    <3>3. QED
      BY <1>4, <3>1, <3>2
  <2>5. QED
    BY <2>2, <2>3, <2>4
<1>7. QED
  BY <1>5, <1>6 DEF ReferenceInv

\* What a payload is built from is nobody's reference.
LEMMA BuildsKeepReferences ==
  ASSUME ReferenceInv, NEW h \in Clerk,
         BuildBegins(h) \/ BuildReadsProfile(h) \/ BuildReadsFile(h)
           \/ BuildResolves(h) \/ BuildShows(h) \/ BuildEnds(h)
  PROVE  ReferenceInv'
<1>1. \A e : e.op \in {"build", "none"} => Sheet(e) /\ Checked(e)
  BY DEF Sheet, Checked
<1>2. CASE BuildBegins(h)
  <2>1. PICK e : Accepts(h, e) /\ e.op = "build"
    BY <1>2 DEF BuildBegins
  <2>2. QED
    BY <1>1, <2>1, AcceptsKeeps
<1>3. CASE ~BuildBegins(h)
  <2>1. edit[h].op = "build" /\ UNCHANGED <<rowVars, overlapped>>
    BY <1>3 DEF BuildReadsProfile, BuildReadsFile, BuildResolves, BuildShows,
                BuildEnds, Building
  <2>2. edit[h] # Resting
    BY <2>1 DEF Resting
  <2>3. PICK e : Edits(h, e) /\ e.op \in {"build", "none"}
    <3>1. Resting.op = "none"
      BY DEF Resting
    <3>2. CASE BuildReadsProfile(h)
      BY <3>1, <3>2 DEF BuildReadsProfile
    <3>3. CASE BuildReadsFile(h)
      BY <3>1, <3>3 DEF BuildReadsFile
    <3>4. CASE BuildResolves(h)
      BY <3>4 DEF BuildResolves
    <3>5. CASE BuildShows(h)
      BY <3>5 DEF BuildShows
    <3>6. CASE BuildEnds(h)
      BY <3>1, <3>6 DEF BuildEnds
    <3>7. QED
      BY <1>3, <3>2, <3>3, <3>4, <3>5, <3>6
  <2>4. QED
    BY <1>1, <2>1, <2>2, <2>3, EditsKeeps
<1>4. QED
  BY <1>2, <1>3

LEMMA ReferenceInvStep ==
  ASSUME ReferenceInv, [ConfigurationNext]_configurationVars
  PROVE  ReferenceInv'
<1>1. CASE UNCHANGED configurationVars
  BY <1>1 DEF configurationVars, ReferenceInv, ConfigurationTypes, OneRequest,
              ReferencesExist, Checked, Exists, UsedIn, Sheet
<1>2. ASSUME NEW h \in Clerk,
             \/ EditSecret(h) \/ EditReferring(h) \/ RequireSecret(h)
             \/ SaveSecret(h) \/ SaveSettings(h) \/ SaveProfile(h)
             \/ SaveBackupTarget(h) \/ FindUsages(h) \/ DeleteSecret(h)
             \/ DeleteProfile(h) \/ BuildBegins(h) \/ BuildReadsProfile(h)
             \/ BuildReadsFile(h) \/ BuildResolves(h) \/ BuildShows(h)
             \/ BuildEnds(h)
      PROVE  ReferenceInv'
  BY <1>2, RequestsKeepReferences, ChecksKeepReferences, SavesKeepReferences,
     DeleteProfileKeepsReferences, BuildsKeepReferences, Zenon
<1>3. QED
  BY <1>1, <1>2, Zenon DEF ConfigurationNext

\* A secret goes by a deletion alone, and at that moment, if the request ran
\* by itself, nothing refers to it.
LEMMA DeletedAreUnused ==
  ASSUME ReferenceInv, [ConfigurationNext]_configurationVars,
         NEW s \in Secret, secretRow[s] # "absent", secretRow'[s] = "absent"
  PROVE  overlapped \/ s \notin AskedFor \union Unasked
<1>1. PICK h \in Clerk :
        \/ SaveSecret(h) \/ DeleteSecret(h) \/ UNCHANGED secretRow
  <2>1. CASE UNCHANGED configurationVars
    BY <2>1 DEF configurationVars
  <2>2. ASSUME NEW h \in Clerk,
               \/ EditSecret(h) \/ EditReferring(h) \/ RequireSecret(h)
               \/ SaveSettings(h) \/ SaveProfile(h)
               \/ SaveBackupTarget(h) \/ FindUsages(h)
               \/ DeleteProfile(h) \/ BuildBegins(h) \/ BuildReadsProfile(h)
               \/ BuildReadsFile(h) \/ BuildResolves(h) \/ BuildShows(h)
               \/ BuildEnds(h)
        PROVE  UNCHANGED secretRow
    BY <2>2 DEF rowVars, EditSecret, EditReferring, RequireSecret, SaveSettings,
         SaveProfile, SaveBackupTarget, FindUsages, DeleteProfile, BuildBegins,
         BuildReadsProfile, BuildReadsFile, BuildResolves, BuildShows,
         BuildEnds, Accepts
  <2>3. QED
    BY <2>1, <2>2, Zenon DEF ConfigurationNext
<1>2. /\ secretRow \in [Secret -> Remote \union {"absent"}]
      /\ Sheet(edit[h]) /\ (~overlapped => Checked(edit[h]))
  BY DEF ReferenceInv, ConfigurationTypes
<1>3. CASE SaveSecret(h)
  <2>1. edit[h].value \in Remote
    BY <1>2, <1>3 DEF SaveSecret, Sheet
  <2>2. QED
    BY <1>2, <1>3, <2>1, ConfigurationAssumption DEF SaveSecret
<1>4. CASE DeleteSecret(h)
  <2>1. /\ edit[h].op = "delete" /\ edit[h].left = <<>> /\ edit[h].id = s
    BY <1>2, <1>4 DEF DeleteSecret
  <2>2. edit[h].left # SecretPlaces
    BY <2>1, UsagesInOrder, Zenon
  <2>3. ~overlapped => ~UsedIn("target", s) /\ ~UsedIn("profile", s)
                         /\ ~UsedIn("settings", s)
    BY <1>2, <2>1, <2>2, Zenon DEF Checked
  <2>4. QED
    BY <2>3 DEF UsedIn, AskedFor, Unasked
<1>5. QED
  BY <1>1, <1>3, <1>4

\* For every set of secrets and profiles, and any number of requests one
\* after another: no target, profile's file or settings row refers to a
\* secret that is not there, although references are checked before the save
\* and usages in three calls before the deletion; and no secret is deleted
\* that any row refers to, a profile's environment included, whose references
\* nobody checks.
THEOREM SecretsReferredToExist == ConfigurationSpec => ReferencedSecretsExist
<1>1. ReferenceInv => overlapped \/ \A s \in AskedFor : Exists(s)
  BY DEF ReferenceInv, ReferencesExist, AskedFor
<1>2. ReferenceInv /\ [ConfigurationNext]_configurationVars =>
        [\A s \in Secret :
           secretRow[s] # "absent" /\ secretRow'[s] = "absent" =>
             overlapped \/ s \notin AskedFor \union Unasked]_configurationVars
  BY DeletedAreUnused, Zenon
<1>3. QED
  BY <1>1, <1>2, ReferenceInvInit, ReferenceInvStep, PTL
     DEF ConfigurationSpec, ReferencedSecretsExist

-----------------------------------------------------------------------------
(* Payloads: what each reading of the rows has found, as long as no row is *)
(* saved meanwhile.                                                        *)

Environment(target, profile, file) ==
  LET given == Given(target, profile)
      found == EffectiveRepository(target, profile, file, given, TRUE)
  IN IF target.restic /\ found # NoRepository THEN found ELSE given

SavedProfile == ProfileNow(savedTarget)
SavedFile == Named(SavedProfile.file)
SavedRepository == Environment(savedTarget, SavedProfile, SavedFile)
(* The file as the run gets it, the settings' where the profile has none.  *)
RunFile == IF savedTarget.restic /\ SavedFile = None
           THEN Named(settingsRow.conf) ELSE SavedFile

Draft(e) ==
  /\ e.op \in {"none", "secret", "settings", "profile", "target", "delete",
               "build"}
  /\ e.op = "build" =>
       /\ e.at \in {"profile", "file", "resolve", "context", "built"} =>
            e.target = savedTarget
       /\ e.at = "file" => e.profile = SavedProfile
       /\ e.at \in {"resolve", "context"} => Exists(SavedProfile.file)
       /\ e.at = "resolve" =>
            e.file = SavedFile /\ e.given = Given(savedTarget, SavedProfile)
       /\ e.at = "context" =>
            e.file = RunFile /\ e.environment = SavedRepository
       /\ e.at = "built" =>
            e.context = e.environment \/ LacksFile(savedTarget)

DraftInv == \A h \in Clerk : Draft(edit[h])

\* Resolving once more, without appending, gives what was found at first.
LEMMA ResolvedTwiceIsTheSame ==
  ASSUME NEW target \in TargetRecord, NEW profile \in ProfileRow \union {Absent},
         NEW file
  PROVE  LET found == Environment(target, profile, file)
         IN /\ EffectiveRepository(target, profile, file, found, FALSE) = found
            /\ found.appended \in 0 .. 1
<1> DEFINE given == Given(target, profile)
           first == EffectiveRepository(target, profile, file, given, TRUE)
           found == Environment(target, profile, file)
<1> SUFFICES EffectiveRepository(target, profile, file, found, FALSE) = found
               /\ found.appended \in 0 .. 1
  OBVIOUS
<1>1. /\ target.repo \in BOOLEAN /\ target.restic \in BOOLEAN
      /\ target.path \in BOOLEAN /\ profile.repo \in BOOLEAN
  <2>1. /\ target.repo \in BOOLEAN /\ target.restic \in BOOLEAN
        /\ target.path \in BOOLEAN
    BY DEF TargetRecord
  <2>2. CASE profile \in ProfileRow
    BY <2>1, <2>2 DEF ProfileRow
  <2>3. CASE profile = Absent
    BY <2>1, <2>3 DEF Absent
  <2>4. QED
    BY <2>2, <2>3
<1>2. found = IF target.restic /\ first # NoRepository THEN first ELSE given
  BY DEF Environment
<1>3. CASE target.repo
  <2>1. first = given /\ given = [source |-> "target", remote |-> None, appended |-> 0]
    BY <1>3 DEF Given, EffectiveRepository
  <2>2. found = [source |-> "target", remote |-> None, appended |-> 0]
    BY <1>2, <2>1, Zenon
  <2>3. EffectiveRepository(target, profile, file, found, FALSE)
          = [source |-> "target", remote |-> None, appended |-> 0]
    BY <1>3 DEF EffectiveRepository
  <2>4. QED
    <3> DEFINE own == [source |-> "target", remote |-> None, appended |-> 0]
    <3>1. found = own /\ EffectiveRepository(target, profile, file, own, FALSE) = own
      BY <1>3, <2>2 DEF EffectiveRepository
    <3>2. own.appended \in 0 .. 1
      OBVIOUS
    <3> HIDE DEF found, own
    <3>3. QED
      BY <3>1, <3>2
<1>4. CASE ~target.repo /\ profile.repo
  <2> DEFINE n == IF target.restic /\ target.path THEN 1 ELSE 0
             At(k) == [source |-> "profile", remote |-> None, appended |-> k]
  <2>1. given = At(0)
    BY <1>4 DEF Given
  <2>2. \A k \in Nat, c \in BOOLEAN :
          EffectiveRepository(target, profile, file, At(k), c)
            = At(k + (IF c /\ target.restic /\ target.path THEN 1 ELSE 0))
    BY <1>1, <1>4 DEF EffectiveRepository
  <2>3. first = At(n)
    <3>1. first = EffectiveRepository(target, profile, file, At(0), TRUE)
      BY <2>1
    <3>2. At(0 + n) = At(n)
      OBVIOUS
    <3>3. EffectiveRepository(target, profile, file, At(0), TRUE) = At(0 + n)
      BY <1>1, <2>2
    <3> HIDE DEF first, At, n
    <3>4. QED
      BY <3>1, <3>2, <3>3
  <2>4. At(n) # NoRepository
    BY DEF NoRepository
  <2>5. found = At(n)
    <3>1. CASE target.restic
      BY <1>2, <2>3, <2>4, <3>1, Zenon
    <3>2. CASE ~target.restic
      BY <1>2, <2>1, <3>2
    <3>3. QED
      BY <3>1, <3>2
  <2>6. n \in 0 .. 1
    OBVIOUS
  <2>7. EffectiveRepository(target, profile, file, At(n), FALSE) = At(n)
    <3>1. EffectiveRepository(target, profile, file, At(n), FALSE) = At(n + 0)
      BY <2>2, <2>6
    <3>2. n + 0 = n
      BY <2>6
    <3> HIDE DEF At, n
    <3>3. QED
      BY <3>1, <3>2
  <2>8. At(n).appended = n
    OBVIOUS
  <2> HIDE DEF found, At, n
  <2>9. QED
    BY <2>5, <2>6, <2>7, <2>8
<1>5. CASE ~target.repo /\ ~profile.repo
  <2> DEFINE chosen == SettingsRepository(target, ProfileRemote(profile, file))
  <2>1. given = NoRepository
    BY <1>5 DEF Given
  <2>2. \A e, c : EffectiveRepository(target, profile, file, e, c) = chosen
    BY <1>5 DEF EffectiveRepository
  <2>3. ~target.restic => chosen = NoRepository
    BY DEF SettingsRepository
  <2>4. found = chosen
    <3> HIDE DEF chosen, found
    <3>1. QED
      BY <1>2, <2>1, <2>2, <2>3, Zenon
  <2>5. chosen.appended \in 0 .. 1
    BY DEF SettingsRepository, NoRepository
  <2>6. QED
    <3> HIDE DEF chosen, found
    <3>1. QED
      BY <2>2, <2>4, <2>5
<1>6. QED
  BY <1>1, <1>3, <1>4, <1>5

\* The file of the settings makes a difference to a profile that lacks it
\* alone: any other profile has a file, names its repository, or does not
\* look for a remote.
LEMMA FilesAgree ==
  ASSUME ReferenceInv, Exists(SavedProfile.file), ~LacksFile(savedTarget),
         NEW environment, NEW compose
  PROVE  EffectiveRepository(savedTarget, SavedProfile, RunFile, environment,
                             compose)
           = EffectiveRepository(savedTarget, SavedProfile, SavedFile,
                                 environment, compose)
<1>1. /\ secretRow \in [Secret -> Remote \union {"absent"}]
      /\ SavedProfile.file \in OptionalSecret
  BY DEF ReferenceInv, ConfigurationTypes, SavedProfile, ProfileNow,
         TargetRecord, ProfileRow, Absent, OptionalSecret
<1>2. SavedFile = None => SavedProfile.file = None
  BY <1>1, ConfigurationAssumption DEF SavedFile, Named, Exists, OptionalSecret
<1>3. CASE RunFile = SavedFile
  BY <1>3
<1>4. CASE RunFile # SavedFile
  <2>1. SavedFile = None /\ settingsRow.conf # None
    BY <1>4 DEF RunFile, Named
  <2>2. SavedProfile.backend # "rclone" \/ SavedProfile.repo
    BY <1>2, <2>1 DEF LacksFile, SavedProfile
  <2>3. CASE savedTarget.repo \/ SavedProfile.repo
    BY <2>3 DEF EffectiveRepository
  <2>4. CASE SavedProfile.backend # "rclone"
    <3>1. ProfileRemote(SavedProfile, RunFile)
            = ProfileRemote(SavedProfile, SavedFile)
      BY <2>4 DEF ProfileRemote
    <3>2. QED
      BY <3>1, Zenon DEF EffectiveRepository
  <2>5. QED
    BY <2>2, <2>3, <2>4
<1>5. QED
  BY <1>3, <1>4

\* A step that saves no row.
LEMMA SavedRows ==
  ASSUME UNCHANGED rowVars
  PROVE  /\ savedTarget' = savedTarget
         /\ SavedProfile' = SavedProfile
         /\ SavedFile' = SavedFile
         /\ SavedRepository' = SavedRepository
         /\ RunFile' = RunFile
         /\ Exists(SavedProfile.file)' = Exists(SavedProfile.file)
         /\ LacksFile(savedTarget)' = LacksFile(savedTarget)
         /\ Given(savedTarget, SavedProfile)' = Given(savedTarget, SavedProfile)
<1>1. /\ savedTarget' = savedTarget /\ profileRow' = profileRow
      /\ settingsRow' = settingsRow /\ secretRow' = secretRow
  BY DEF rowVars
<1>2. SavedProfile' = SavedProfile
  BY <1>1 DEF SavedProfile, ProfileNow
<1>3. SavedFile' = SavedFile
  BY <1>1, <1>2 DEF SavedFile, Named
<1>4. SavedRepository' = SavedRepository
  BY <1>1, <1>2, <1>3 DEF SavedRepository, Environment, EffectiveRepository,
       SettingsRepository, Named
<1>5. RunFile' = RunFile
  BY <1>1, <1>3 DEF RunFile, Named
<1>6. Exists(SavedProfile.file)' = Exists(SavedProfile.file)
  BY <1>1, <1>2 DEF Exists
<1>7. LacksFile(savedTarget)' = LacksFile(savedTarget)
  BY <1>1 DEF LacksFile, ProfileNow
<1>8. Given(savedTarget, SavedProfile)' = Given(savedTarget, SavedProfile)
  BY <1>1, <1>2 DEF Given
<1>9. QED
  BY <1>1, <1>2, <1>3, <1>4, <1>5, <1>6, <1>7, <1>8

LEMMA DraftEdits ==
  ASSUME ReferenceInv, DraftInv, NEW h \in Clerk, NEW e, Edits(h, e),
         UNCHANGED rowVars, Draft(e)
  PROVE  DraftInv'
<1>1. \A g \in Clerk : edit'[g] = IF g = h THEN e ELSE edit[g]
  BY DEF Edits, ReferenceInv, ConfigurationTypes
<1>2. \A g \in Clerk : Draft(edit'[g])
  BY <1>1 DEF DraftInv
<1>3. DraftInv'
  BY <1>2, SavedRows DEF DraftInv, Draft
<1>4. QED
  BY <1>3

\* A row that is saved leaves no payload that is followed further.
LEMMA DraftSaves ==
  ASSUME ReferenceInv, DraftInv, NEW h \in Clerk, Saved(h)
  PROVE  DraftInv'
<1>1. \A g \in Clerk :
        \/ edit'[g] = Resting
        \/ edit'[g] = edit[g] /\ edit[g].op # "build"
        \/ edit'[g] = [op |-> "build", at |-> "mixed"]
  BY SavedEdit
<1>2. ASSUME NEW g \in Clerk PROVE Draft(edit[g])'
  <2>1. CASE edit'[g] = Resting
    BY <2>1 DEF Draft, Resting
  <2>2. CASE edit'[g] = edit[g] /\ edit[g].op # "build"
    BY <2>2 DEF Draft, DraftInv
  <2>3. CASE edit'[g] = [op |-> "build", at |-> "mixed"]
    BY <2>3 DEF Draft
  <2>4. QED
    BY <1>1, <2>1, <2>2, <2>3
<1>3. QED
  BY <1>2 DEF DraftInv

LEMMA DraftBuilds ==
  ASSUME ReferenceInv, DraftInv, NEW h \in Clerk,
         BuildBegins(h) \/ BuildReadsProfile(h) \/ BuildReadsFile(h)
           \/ BuildResolves(h) \/ BuildShows(h) \/ BuildEnds(h)
  PROVE  DraftInv'
<1>1. Draft(Resting)
  BY DEF Draft, Resting
<1>2. Draft(edit[h]) /\ savedTarget \in TargetRecord
  BY DEF DraftInv, ReferenceInv, ConfigurationTypes
<1>3. SavedProfile \in ProfileRow \union {Absent}
  BY DEF ReferenceInv, ConfigurationTypes, SavedProfile, ProfileNow, TargetRecord
<1>4. CASE BuildBegins(h)
  <2> DEFINE e == [op |-> "build", at |-> "profile", target |-> savedTarget]
  <2>1. Edits(h, e) /\ UNCHANGED rowVars
    BY <1>4 DEF BuildBegins, Accepts
  <2>2. Draft(e)
    BY DEF Draft
  <2>3. QED
    BY <2>1, <2>2, DraftEdits
<1>5. CASE BuildReadsProfile(h)
  <2> DEFINE e == [op |-> "build", at |-> "file", target |-> edit[h].target,
                   profile |-> ProfileNow(edit[h].target)]
  <2>1. (Edits(h, Resting) \/ Edits(h, e)) /\ UNCHANGED rowVars
    BY <1>5 DEF BuildReadsProfile
  <2>2. edit[h].target = savedTarget
    BY <1>2, <1>5 DEF BuildReadsProfile, Building, Draft
  <2>3. Draft(e)
    BY <2>2 DEF Draft, SavedProfile
  <2>4. QED
    BY <1>1, <2>1, <2>3, DraftEdits
<1>6. CASE BuildReadsFile(h)
  <2> DEFINE e == [op |-> "build", at |-> "resolve", target |-> edit[h].target,
                   given |-> Given(edit[h].target, edit[h].profile),
                   file |-> Named(edit[h].profile.file)]
  <2>1. (Edits(h, Resting) \/ Edits(h, e)) /\ UNCHANGED rowVars
    BY <1>6 DEF BuildReadsFile
  <2>2. edit[h].target = savedTarget /\ edit[h].profile = SavedProfile
    BY <1>2, <1>6 DEF BuildReadsFile, Building, Draft
  <2>3. Exists(SavedProfile.file) => Draft(e)
    BY <2>2 DEF Draft, SavedFile
  <2>4. CASE ~Exists(SavedProfile.file)
    <3>1. Edits(h, Resting)
      BY <1>6, <2>2, <2>4 DEF BuildReadsFile
    <3>2. QED
      BY <1>1, <2>1, <3>1, DraftEdits
  <2>5. QED
    BY <1>1, <2>1, <2>3, <2>4, DraftEdits
<1>7. CASE BuildResolves(h)
  <2> DEFINE b == edit[h]
             found == Resolve(b, b.given, TRUE)
             e == [op |-> "build", at |-> "context", target |-> b.target,
                   file |-> IF b.target.restic /\ b.file = None
                            THEN Named(settingsRow.conf) ELSE b.file,
                   environment |-> IF b.target.restic /\ found # NoRepository
                                   THEN found ELSE b.given]
  <2>1. Edits(h, e) /\ UNCHANGED rowVars
    BY <1>7 DEF BuildResolves
  <2>2. /\ b.target = savedTarget /\ b.file = SavedFile
        /\ b.given = Given(savedTarget, SavedProfile)
        /\ Exists(SavedProfile.file)
    BY <1>2, <1>7 DEF BuildResolves, Building, Draft
  <2>3. e.environment = SavedRepository
    BY <2>2 DEF SavedRepository, SavedProfile, Environment, Resolve
  <2>4. /\ e.op = "build" /\ e.at = "context" /\ e.target = b.target
    OBVIOUS
  <2>5. e.file = RunFile
    BY <2>2 DEF RunFile
  <2>6. Draft(e)
    <3> HIDE DEF e, b
    <3>1. QED
      BY <2>2, <2>3, <2>4, <2>5 DEF Draft
  <2>7. QED
    BY <2>1, <2>6, DraftEdits
<1>8. CASE BuildShows(h)
  <2> DEFINE e == [op |-> "build", at |-> "built", target |-> edit[h].target,
                   environment |-> edit[h].environment,
                   context |-> StorageContext(edit[h])]
  <2>1. Edits(h, e) /\ UNCHANGED rowVars
    BY <1>8 DEF BuildShows
  <2>2. /\ edit[h].target = savedTarget /\ edit[h].file = RunFile
        /\ edit[h].environment = SavedRepository /\ Exists(SavedProfile.file)
    BY <1>2, <1>8 DEF BuildShows, Building, Draft
  <2>3. StorageContext(edit[h])
          = EffectiveRepository(savedTarget, SavedProfile, RunFile,
                                SavedRepository, FALSE)
    BY <2>2, Zenon DEF StorageContext, Resolve, SavedProfile
  <2>4. EffectiveRepository(savedTarget, SavedProfile, SavedFile,
                            SavedRepository, FALSE) = SavedRepository
    BY <1>2, <1>3, ResolvedTwiceIsTheSame, Zenon DEF SavedRepository
  <2>5. StorageContext(edit[h]) = edit[h].environment \/ LacksFile(savedTarget)
    BY <2>2, <2>3, <2>4, FilesAgree, Zenon
  <2>6. Draft(e)
    BY <2>2, <2>5 DEF Draft
  <2>7. QED
    BY <2>1, <2>6, DraftEdits
<1>9. CASE BuildEnds(h)
  BY <1>1, <1>9, DraftEdits DEF BuildEnds
<1>10. QED
  BY <1>4, <1>5, <1>6, <1>7, <1>8, <1>9

\* Other requests.
LEMMA DraftRequests ==
  ASSUME ReferenceInv, DraftInv, NEW h \in Clerk,
         EditSecret(h) \/ EditReferring(h) \/ RequireSecret(h) \/ FindUsages(h)
  PROVE  DraftInv'
<1>1. \A e : e.op \in {"none", "secret", "settings", "profile", "target", "delete"}
        => Draft(e)
  BY DEF Draft
<1>2. \A e : Accepts(h, e) => Edits(h, e) /\ UNCHANGED rowVars
  BY DEF Accepts
<1>3. \E e : /\ e.op \in {"none", "secret", "settings", "profile", "target", "delete"}
              /\ Edits(h, e) /\ UNCHANGED rowVars
  <2>1. CASE EditSecret(h)
    BY <1>2, <2>1 DEF EditSecret
  <2>2. CASE EditReferring(h)
    BY <1>2, <2>2 DEF EditReferring
  <2>3. CASE RequireSecret(h)
    <3>1. Resting.op = "none"
      BY DEF Resting
    <3>2. Sheet(edit[h]) /\ edit[h].op \in {"settings", "target", "profile"}
      BY <2>3 DEF RequireSecret, Referring, ReferenceInv, ConfigurationTypes
    <3>3. [edit[h] EXCEPT !.asked = TRUE].op = edit[h].op
      BY <3>2 DEF Sheet
    <3>4. QED
      BY <2>3, <3>1, <3>2, <3>3 DEF RequireSecret
  <2>4. CASE FindUsages(h)
    <3>1. Resting.op = "none"
      BY DEF Resting
    <3>2. CASE \E s \in Secret : /\ secretRow[s] # "absent"
            /\ Accepts(h, [op |-> "delete", id |-> s, left |-> SecretPlaces])
      BY <1>2, <3>2
    <3>3. CASE /\ edit[h].op = "delete" /\ edit[h].left # <<>>
               /\ Edits(h, IF UsedIn(Head(edit[h].left), edit[h].id) THEN Resting
                           ELSE [edit[h] EXCEPT !.left = Tail(@)])
               /\ UNCHANGED <<rowVars, overlapped>>
      <4>1. edit[h] \in [op : {"delete"}, id : Secret, left : Usages]
        BY <3>3 DEF ReferenceInv, ConfigurationTypes, Sheet
      <4>2. [edit[h] EXCEPT !.left = Tail(@)].op = "delete"
        BY <4>1
      <4>3. QED
        BY <3>1, <3>3, <4>2
    <3>4. QED
      BY <2>4, <3>2, <3>3, Zenon DEF FindUsages
  <2>5. QED
    BY <2>1, <2>2, <2>3, <2>4
<1>4. QED
  BY <1>1, <1>3, DraftEdits

LEMMA DraftInvStep ==
  ASSUME ReferenceInv, DraftInv, [ConfigurationNext]_configurationVars
  PROVE  DraftInv'
<1>1. CASE UNCHANGED configurationVars
  <2>1. edit' = edit /\ UNCHANGED rowVars
    BY <1>1 DEF configurationVars, rowVars
  <2>2. QED
    BY <2>1, SavedRows DEF DraftInv, Draft
<1>2. ASSUME NEW h \in Clerk,
             \/ EditSecret(h) \/ EditReferring(h) \/ RequireSecret(h)
             \/ SaveSecret(h) \/ SaveSettings(h) \/ SaveProfile(h)
             \/ SaveBackupTarget(h) \/ FindUsages(h) \/ DeleteSecret(h)
             \/ DeleteProfile(h) \/ BuildBegins(h) \/ BuildReadsProfile(h)
             \/ BuildReadsFile(h) \/ BuildResolves(h) \/ BuildShows(h)
             \/ BuildEnds(h)
      PROVE  DraftInv'
  <2>1. SaveSecret(h) \/ SaveSettings(h) \/ SaveProfile(h)
          \/ SaveBackupTarget(h) \/ DeleteSecret(h) \/ DeleteProfile(h)
          => Saved(h)
    BY DEF SaveSecret, SaveSettings, SaveProfile, SaveBackupTarget,
           DeleteSecret, DeleteProfile
  <2>2. QED
    BY <1>2, <2>1, DraftRequests, DraftSaves, DraftBuilds, Zenon
<1>3. QED
  BY <1>1, <1>2, Zenon DEF ConfigurationNext

LEMMA DraftInvInit == ConfigurationInit => DraftInv
  BY DEF ConfigurationInit, DraftInv, Draft, Resting

\* The storage context shown with a job is the repository the job was given,
\* for every target, profile and setting in which the profile does not lack
\* the file that the settings have: the second resolution, which does not
\* append the target's path and sees the files of the run in place of the
\* profile's, gives what the first has found.
THEOREM ContextsNameTheRepository ==
  ConfigurationSpec => []ContextNamesTheRepository
<1>1. DraftInv => ContextNamesTheRepository
  BY Zenon DEF DraftInv, Draft, ContextNamesTheRepository, Building
<1>2. QED
  BY <1>1, ReferenceInvInit, ReferenceInvStep, DraftInvInit, DraftInvStep, PTL
     DEF ConfigurationSpec

\* Rows and requests stay in their types, and a target's path is appended to
\* a repository at most once, for every set of identifiers and handlers.
THEOREM ConfigurationTypeCorrect == ConfigurationSpec => []ConfigurationTypeOK
<1>1. ReferenceInv /\ DraftInv /\ overlapped \in BOOLEAN => ConfigurationTypeOK
  <2> SUFFICES ASSUME ReferenceInv, DraftInv, overlapped \in BOOLEAN
               PROVE  ConfigurationTypeOK
    OBVIOUS
  <2>1. ASSUME NEW h \in Clerk, Building(h, "context")
        PROVE  edit[h].environment.appended \in 0 .. 1
    <3>1. edit[h].environment = SavedRepository
      BY <2>1 DEF Building, DraftInv, Draft
    <3>2. /\ savedTarget \in TargetRecord
          /\ SavedProfile \in ProfileRow \union {Absent}
      BY DEF ReferenceInv, ConfigurationTypes, SavedProfile, ProfileNow,
             TargetRecord
    <3>3. QED
      BY <3>1, <3>2, ResolvedTwiceIsTheSame, Zenon DEF SavedRepository
  <2>2. \A h \in Clerk : edit[h].op \in {"none", "secret", "settings",
                          "profile", "target", "delete", "build"}
    BY DEF DraftInv, Draft
  <2>3. QED
    BY <2>1, <2>2 DEF ReferenceInv, ConfigurationTypes, ConfigurationTypeOK
<1>2. ConfigurationInit => overlapped \in BOOLEAN
  BY DEF ConfigurationInit
<1>3. overlapped \in BOOLEAN /\ [ConfigurationNext]_configurationVars
        => (overlapped \in BOOLEAN)'
  BY DEF ConfigurationNext, configurationVars, EditSecret, EditReferring,
         RequireSecret, SaveSecret, SaveSettings, SaveProfile,
         SaveBackupTarget, FindUsages, DeleteSecret, DeleteProfile, BuildBegins,
         BuildReadsProfile, BuildReadsFile, BuildResolves, BuildShows,
         BuildEnds, Accepts, Saved
<1>4. QED
  BY <1>1, <1>2, <1>3, ReferenceInvInit, ReferenceInvStep, DraftInvInit,
     DraftInvStep, PTL DEF ConfigurationSpec
=============================================================================
