--------------------------- MODULE SnapshotCache ---------------------------
(***************************************************************************)
(* The worker's Redis cache of repository listings, by the calls of        *)
(* get_or_compute.  Who misses an entry takes a lock that Redis forgets    *)
(* after a while, looks again, lists the repository, stores the listing    *)
(* and gives the lock back; who does not get the lock polls for a while    *)
(* and then lists without storing.  Every stored key is added to an index, *)
(* by which the oldest entries are removed when there are too many.        *)
(*                                                                         *)
(* Each command to Redis is a step of its own and may fail, before or      *)
(* after it took effect; locks and entries run out at any time, and the    *)
(* process of a caller may die.  The contexts are those of one target,     *)
(* repository and generation, which share an index; what an entry says is  *)
(* what its writer listed, and is left out.                                *)
(***************************************************************************)
EXTENDS Naturals, FiniteSets, Sequences

CONSTANTS
  Reader,      \* worker processes that share the Redis
  Context,     \* what they look up: operation, snapshot, path, query
  MaxEntries   \* entries that the index may have

NoToken == "no token"

ASSUME CacheAssumption ==
  /\ MaxEntries \in Nat \ {0}
  /\ NoToken \notin Reader

VARIABLES
  entries,     \* contexts with an entry
  cacheIndex,  \* the index, the oldest first
  lock,        \* whose token the lock of a context holds
  timely,      \* callers that were given a lock which has not run out
  lookup,      \* where the call of each caller is
  cutShort     \* a write failed or was cut short, or two overlapped

redisVars == <<entries, cacheIndex, lock>>
cacheVars == <<entries, cacheIndex, lock, timely, lookup, cutShort>>

-----------------------------------------------------------------------------
Out == [at |-> "out"]

Stands(c, place) == lookup[c].at = place
Writing(c) ==
  lookup[c].at \in {"index", "count", "oldest", "drop", "forget", "undo"}
Key(c) == lookup[c].key
Leads(c, place) ==
  lookup' = [lookup EXCEPT ![c] = [at |-> place, key |-> Key(c)]]
Removes(c, place, old) ==
  lookup' = [lookup EXCEPT ![c] = [at |-> place, key |-> Key(c), old |-> old]]

CacheInit ==
  /\ entries = {} /\ cacheIndex = <<>>
  /\ lock = [k \in Context |-> NoToken]
  /\ timely = {}
  /\ lookup = [c \in Reader |-> Out]
  /\ cutShort = FALSE

-----------------------------------------------------------------------------
(* Looking up, and the lock.                                               *)

\* Redis that does not answer a ping, or a canceled job, means no cache.
AskCache(c) ==
  /\ Stands(c, "out")
  /\ \E k \in Context, place \in {"get", "listAlone"} :
       lookup' = [lookup EXCEPT ![c] = [at |-> place, key |-> k]]
  /\ UNCHANGED <<redisVars, timely, cutShort>>

\* An entry ends the call; a get that fails is taken for a miss.
GetEntry(c) ==
  /\ Stands(c, "get")
  /\ \/ Leads(c, "acquire")
     \/ Key(c) \in entries /\ lookup' = [lookup EXCEPT ![c] = Out]
  /\ UNCHANGED <<redisVars, timely, cutShort>>

\* set ... nx px: nobody is given a lock that somebody has.  When only the
\* answer is lost, the lock is taken and nobody knows.
AcquireLock(c) ==
  /\ Stands(c, "acquire")
  /\ \/ /\ lock[Key(c)] = NoToken
        /\ lock' = [lock EXCEPT ![Key(c)] = c]
        /\ \/ timely' = timely \union {c} /\ Leads(c, "getAgain")
           \/ UNCHANGED timely /\ Leads(c, "wait")
     \/ UNCHANGED <<lock, timely>> /\ Leads(c, "wait")
  /\ UNCHANGED <<entries, cacheIndex, cutShort>>

\* The callers that wait poll, until their time is over.
WaitForLock(c) ==
  /\ Stands(c, "wait")
  /\ \E place \in {"get", "listAlone"} : Leads(c, place)
  /\ UNCHANGED <<redisVars, timely, cutShort>>

GetAgain(c) ==
  /\ Stands(c, "getAgain")
  /\ \/ Key(c) \in entries /\ Leads(c, "release")
     \/ Leads(c, "list")
  /\ UNCHANGED <<redisVars, timely, cutShort>>

\* _encoded_value: a failed listing, one whose job has been canceled and one
\* that is too large, or that names what must not be stored, is not stored.
ListingGoesTo == {"store", "release"}

ListRepositoryNow(c) ==
  /\ Stands(c, "list")
  /\ \E place \in ListingGoesTo : Leads(c, place)
  /\ UNCHANGED <<redisVars, timely, cutShort>>

ListAlone(c) ==
  /\ Stands(c, "listAlone")
  /\ lookup' = [lookup EXCEPT ![c] = Out]
  /\ UNCHANGED <<redisVars, timely, cutShort>>

-----------------------------------------------------------------------------
(* set: the entry, its place in the index, and the oldest of the index.    *)

StoreEntry(c) ==
  /\ Stands(c, "store")
  /\ entries' = entries \union {Key(c)} /\ Leads(c, "index")
  /\ cutShort' = (cutShort \/ \E d \in Reader : Writing(d))
  /\ UNCHANGED <<cacheIndex, lock, timely>>

\* zrem: the others stay in their order.
WithoutKeys(keys) ==
  LET kept[n \in 0..Len(cacheIndex)] ==
        IF n = 0 THEN <<>>
        ELSE IF cacheIndex[n] \in keys THEN kept[n - 1]
        ELSE Append(kept[n - 1], cacheIndex[n])
  IN kept[Len(cacheIndex)]

IndexEntry(c) ==
  /\ Stands(c, "index")
  /\ cacheIndex' = Append(WithoutKeys({Key(c)}), Key(c))
  /\ Leads(c, "count")
  /\ UNCHANGED <<entries, lock, timely, cutShort>>

Excess ==
  IF Len(cacheIndex) > MaxEntries THEN Len(cacheIndex) - MaxEntries ELSE 0

CountEntries(c) ==
  /\ Stands(c, "count")
  /\ IF Excess = 0 THEN Leads(c, "release") ELSE Removes(c, "oldest", Excess)
  /\ UNCHANGED <<redisVars, timely, cutShort>>

OldestKeys(n) == {cacheIndex[i] : i \in 1 .. n \cap DOMAIN cacheIndex}

FindOldest(c) ==
  /\ Stands(c, "oldest")
  /\ IF OldestKeys(lookup[c].old) = {} THEN Leads(c, "release")
     ELSE Removes(c, "drop", OldestKeys(lookup[c].old))
  /\ UNCHANGED <<redisVars, timely, cutShort>>

DropOldest(c) ==
  /\ Stands(c, "drop")
  /\ entries' = entries \ lookup[c].old
  /\ Removes(c, "forget", lookup[c].old)
  /\ UNCHANGED <<cacheIndex, lock, timely, cutShort>>

ForgetOldest(c) ==
  /\ Stands(c, "forget")
  /\ cacheIndex' = WithoutKeys(lookup[c].old)
  /\ Leads(c, "release")
  /\ UNCHANGED <<entries, lock, timely, cutShort>>

\* A command of the write fails: the entry is deleted, if Redis lets it be.
WriteFails(c) ==
  \/ /\ Stands(c, "store") \/ (Writing(c) /\ ~Stands(c, "undo"))
     /\ Leads(c, "undo")
     /\ cutShort' = TRUE
     /\ UNCHANGED <<redisVars, timely>>
  \/ /\ Stands(c, "undo")
     /\ entries' \in {entries, entries \ {Key(c)}}
     /\ Leads(c, "release")
     /\ UNCHANGED <<cacheIndex, lock, timely, cutShort>>

-----------------------------------------------------------------------------
(* release, and what happens to Redis and to the callers.                  *)

\* The lock of the context is deleted, whoever has it.
ReleaseAnyLock(c) ==
  /\ Stands(c, "release")
  /\ timely' = timely \ {c}
  /\ lock' \in {[lock EXCEPT ![Key(c)] = NoToken], lock}
  /\ lookup' = [lookup EXCEPT ![c] = Out]
  /\ UNCHANGED <<entries, cacheIndex, cutShort>>

\* The script deletes the lock only if the token is still in it; it may
\* fail, and then the lock stays until it runs out.
ReleaseLock(c) ==
  /\ Stands(c, "release")
  /\ timely' = timely \ {c}
  /\ lock' \in {lock, IF lock[Key(c)] = c
                      THEN [lock EXCEPT ![Key(c)] = NoToken] ELSE lock}
  /\ lookup' = [lookup EXCEPT ![c] = Out]
  /\ UNCHANGED <<entries, cacheIndex, cutShort>>

LockRunsOut(k) ==
  /\ lock[k] # NoToken
  /\ lock' = [lock EXCEPT ![k] = NoToken]
  /\ timely' = {c \in timely : ~(c = lock[k] /\ Key(c) = k)}
  /\ UNCHANGED <<entries, cacheIndex, lookup, cutShort>>

\* The index lives as long as the youngest entry.
EntryRunsOut(k) ==
  /\ k \in entries
  /\ entries' = entries \ {k}
  /\ cacheIndex' \in {cacheIndex} \union (IF entries' = {} THEN {<<>>} ELSE {})
  /\ UNCHANGED <<lock, timely, lookup, cutShort>>

CallerDies(c) ==
  /\ ~Stands(c, "out")
  /\ lookup' = [lookup EXCEPT ![c] = Out]
  /\ timely' = timely \ {c}
  /\ cutShort' = (cutShort \/ Writing(c))
  /\ UNCHANGED redisVars

CacheNext ==
  \/ \E c \in Reader :
       \/ AskCache(c) \/ GetEntry(c) \/ AcquireLock(c) \/ WaitForLock(c)
       \/ GetAgain(c) \/ ListRepositoryNow(c) \/ ListAlone(c)
       \/ StoreEntry(c) \/ IndexEntry(c) \/ CountEntries(c)
       \/ FindOldest(c) \/ DropOldest(c) \/ ForgetOldest(c)
       \/ WriteFails(c) \/ ReleaseLock(c) \/ CallerDies(c)
  \/ \E k \in Context : LockRunsOut(k) \/ EntryRunsOut(k)

CacheSpec == CacheInit /\ [][CacheNext]_cacheVars

-----------------------------------------------------------------------------
(* Properties.                                                             *)

CacheTypeOK ==
  /\ entries \subseteq Context
  /\ cacheIndex \in Seq(Context)
  /\ lock \in [Context -> Reader \union {NoToken}]
  /\ timely \subseteq Reader
  /\ cutShort \in BOOLEAN
  /\ \A c \in Reader : lookup[c] = Out \/ Key(c) \in Context

(* As long as locks outlive the listings, a listing that is going to be    *)
(* stored is computed once at a time: no two callers have been given a     *)
(* lock of the same context that has not run out.  What could break it is  *)
(* a caller whose own lock has run out and who, at the end of its call,    *)
(* takes the lock of the next one away.                                    *)
OneListsInTime ==
  \A c, d \in timely : c # d => Key(c) # Key(d)

(* While nobody is writing, there are at most MaxEntries entries, unless a *)
(* write was disturbed: when two writes overlap, an entry that is stored  *)
(* again between the deletion of its key and the removal from the index is *)
(* not in the index any more, and is not counted.                          *)
EntriesAreBounded ==
  \/ cutShort \/ \E c \in Reader : Writing(c)
  \/ Cardinality(entries) <= MaxEntries

(* Both: what the lock is for, and what the index is for.                  *)
CacheStaysInOrder == OneListsInTime /\ EntriesAreBounded

=============================================================================
