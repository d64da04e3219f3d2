--------------------------- MODULE WordCacheProofs ---------------------------
(***************************************************************************)
(* Proofs about WordCache, for any set of threads and of lists, and any    *)
(* number of clearings.                                                    *)
(*                                                                         *)
(* DeadIsQueued speaks of nodes in three places: cleared, queued, and in   *)
(* the hands of a thread. It is inductive once it is known that a thread   *)
(* only leaves an access with empty hands: while it holds a node it polled *)
(* it stays at its access, and its poll has not found the queue empty.     *)
(***************************************************************************)
EXTENDS WordCache, TLAPS

\* Nodes are counted and maps have an entry per list.
Counted ==
    /\ entry \in [Map -> [WordType -> {"absent", "live", "dead"}]]
    /\ pending \in [Map -> [WordType -> Nat]]
    /\ queued \in [Map -> [WordType -> Nat]]

\* What a thread knows: its place, its call, the node it polled.
Placed ==
    /\ at \in [Thread -> {"idle", "first get", "lock", "put list", "put first",
                          "unlock", "second get"}]
    /\ job \in [Thread -> Job \cup {Null}]
    /\ \A th \in Thread : at[th] # "idle" => job[th] \in Job
    /\ drained \in [Thread -> BOOLEAN]
    /\ polled \in [Thread -> WordType \cup {Null}]

\* A thread with a polled node is at an access and polls on after it.
HandsEmpty == \A th \in Thread : polled[th] # Null => Accesses(th) /\ ~drained[th]

\* Somebody is going to remove key t of map m.
Removing(m, t) == \E th \in Thread : Accesses(th) /\ MapOf(th) = m /\ polled[th] = t

IInv == Counted /\ Placed /\ HandsEmpty /\ DeadIsQueued

-----------------------------------------------------------------------------

\* The map of a thread is one of the two while it is at an access.
LEMMA MapOfType ==
    ASSUME Placed, NEW th \in Thread, Accesses(th)
    PROVE  MapOf(th) \in Map
BY DEF Placed, Accesses, MapOf, Map

\* Whoever removes a key goes on removing it while no thread moves.
LEMMA SamePlace ==
    ASSUME UNCHANGED <<at, job>>
    PROVE  /\ \A th \in Thread : Accesses(th)' = Accesses(th) /\ MapOf(th)' = MapOf(th)
           /\ polled' = polled =>
                 \A m \in Map, t \in WordType : Removing(m, t)' = Removing(m, t)
<1>1. \A th \in Thread : Accesses(th)' = Accesses(th) /\ MapOf(th)' = MapOf(th)
  BY DEF Accesses, MapOf
<1> QED
  BY <1>1 DEF Removing

\* Two empty maps and idle threads satisfy the invariant.
LEMMA InitInv == CacheInit => IInv
BY DEF CacheInit, IInv, Counted, Placed, HandsEmpty, DeadIsQueued, Accesses

\* A thread that moves on has drained the queue or was at no access. No other
\* thread's place changes, so whoever was removing a key still is.
LEMMA GotoInv ==
    ASSUME IInv, NEW th \in Thread, Accesses(th) => drained[th],
           NEW next \in {"idle", "first get", "lock", "put list", "put first",
                         "unlock", "second get"},
           Goto(th, next), UNCHANGED polled,
           \E j \in Job : \/ job' = [job EXCEPT ![th] = j]
                          \/ job' = job /\ (at[th] # "idle" \/ next = "idle")
    PROVE  /\ Placed' /\ HandsEmpty'
           /\ \A m \in Map, t \in WordType : Removing(m, t) => Removing(m, t)'
<1>1. polled[th] = Null
  BY DEF IInv, HandsEmpty
<1>2. /\ at' = [at EXCEPT ![th] = next]
      /\ drained' = [drained EXCEPT ![th] = FALSE]
  BY DEF Goto
<1>3. \A o \in Thread : o # th =>
        at'[o] = at[o] /\ job'[o] = job[o] /\ drained'[o] = drained[o]
  BY <1>2 DEF IInv, Placed
<1>4. Placed'
  BY <1>2 DEF IInv, Placed
<1>5. HandsEmpty'
  BY <1>1, <1>3 DEF IInv, HandsEmpty, Accesses
<1>6. ASSUME NEW m \in Map, NEW t \in WordType, Removing(m, t)
      PROVE  Removing(m, t)'
  <2>1. PICK o \in Thread : Accesses(o) /\ MapOf(o) = m /\ polled[o] = t
    BY <1>6 DEF Removing
  <2>2. o # th
    BY <1>1, <2>1, NoneIsNoType
  <2>3. Accesses(o)' /\ MapOf(o)' = m /\ polled'[o] = t
    BY <1>3, <2>1, <2>2 DEF Accesses, MapOf
  <2> QED
    BY <2>3 DEF Removing
<1> QED
  BY <1>4, <1>5, <1>6

\* The same when, besides, no entry dies and no node moves.
LEMMA AccessInv ==
    ASSUME IInv, NEW th \in Thread, Accesses(th) => drained[th],
           NEW next \in {"idle", "first get", "lock", "put list", "put first",
                         "unlock", "second get"},
           Goto(th, next), UNCHANGED <<polled, pending, queued>>,
           \E j \in Job : \/ job' = [job EXCEPT ![th] = j]
                          \/ job' = job /\ (at[th] # "idle" \/ next = "idle"),
           Counted', \A m \in Map, t \in WordType : entry'[m][t] = "dead" => entry[m][t] = "dead"
    PROVE  IInv'
<1>1. /\ Placed' /\ HandsEmpty'
      /\ \A m \in Map, t \in WordType : Removing(m, t) => Removing(m, t)'
  BY GotoInv
<1>2. DeadIsQueued'
  BY <1>1 DEF IInv, DeadIsQueued, Removing
<1> QED
  BY <1>1, <1>2 DEF IInv

\* The call of a thread that is not idle is a call.
LEMMA JobOfType ==
    ASSUME IInv, NEW th \in Thread, at[th] # "idle"
    PROVE  job[th] \in Job /\ job[th].type \in WordType
BY DEF IInv, Placed, Job

\* A list put into a map is no dead entry.
LEMMA PutCounted ==
    ASSUME IInv, NEW k \in Map, NEW w \in WordType,
           entry' = [entry EXCEPT ![k][w] = "live"], UNCHANGED <<pending, queued>>
    PROVE  /\ Counted'
           /\ \A m \in Map, t \in WordType : entry'[m][t] = "dead" => entry[m][t] = "dead"
<1>1. Counted'
  BY DEF IInv, Counted
<1>2. \A m \in Map, t \in WordType :
          entry'[m][t] = IF m = k /\ t = w THEN "live" ELSE entry[m][t]
  BY DEF IInv, Counted
<1> QED
  BY <1>1, <1>2

\* Maps that did not change are still counted.
LEMMA SameCounted ==
    ASSUME IInv, UNCHANGED <<entry, pending, queued>>
    PROVE  Counted'
BY DEF IInv, Counted

LEMMA CallInv == ASSUME IInv, NEW th \in Thread, Call(th) PROVE IInv'
<1>1. ~Accesses(th)
  BY DEF Call, Accesses
<1> QED
  BY <1>1, AccessInv, SameCounted DEF Call, mapVars

LEMMA FirstGetInv == ASSUME IInv, NEW th \in Thread, FirstGet(th) PROVE IInv'
<1>1. /\ job[th] \in Job /\ job' = job /\ at[th] # "idle" /\ drained[th]
      /\ UNCHANGED <<entry, pending, queued, polled>>
  BY JobOfType DEF FirstGet, mapVars
<1>2. Goto(th, "lock") \/ Goto(th, "idle") \/ Goto(th, "second get")
  BY DEF FirstGet, Return
<1> QED
  BY <1>1, <1>2, AccessInv, SameCounted

LEMMA LockInv == ASSUME IInv, NEW th \in Thread, Lock(th) PROVE IInv'
<1>1. /\ job[th] \in Job /\ job' = job /\ at[th] # "idle" /\ ~Accesses(th)
      /\ UNCHANGED <<entry, pending, queued, polled>>
  BY JobOfType DEF Lock, mapVars, Accesses
<1> QED
  BY <1>1, AccessInv, SameCounted DEF Lock

LEMMA PutListInv == ASSUME IInv, NEW th \in Thread, PutList(th) PROVE IInv'
<1>1. /\ job[th] \in Job /\ job' = job /\ at[th] # "idle" /\ drained[th]
      /\ UNCHANGED <<pending, queued, polled>>
  BY JobOfType DEF PutList
<1>2. Counted' /\ \A m \in Map, t \in WordType : entry'[m][t] = "dead" => entry[m][t] = "dead"
  BY <1>1, JobOfType, PutCounted DEF PutList, Map
<1>3. Goto(th, "put first") \/ Goto(th, "unlock")
  BY DEF PutList
<1> QED
  BY <1>1, <1>2, <1>3, AccessInv

LEMMA PutFirstInv == ASSUME IInv, NEW th \in Thread, PutFirst(th) PROVE IInv'
<1>1. /\ job[th] \in Job /\ job' = job /\ at[th] # "idle" /\ drained[th]
      /\ UNCHANGED <<pending, queued, polled>>
  BY JobOfType DEF PutFirst
<1>2. Counted' /\ \A m \in Map, t \in WordType : entry'[m][t] = "dead" => entry[m][t] = "dead"
  BY <1>1, JobOfType, PutCounted DEF PutFirst, Map
<1> QED
  BY <1>1, <1>2, AccessInv DEF PutFirst

LEMMA UnlockInv == ASSUME IInv, NEW th \in Thread, Unlock(th) PROVE IInv'
<1>1. /\ job[th] \in Job /\ job' = job /\ at[th] # "idle" /\ ~Accesses(th)
      /\ UNCHANGED <<entry, pending, queued, polled>>
  BY JobOfType DEF Unlock, mapVars, Accesses
<1>2. Goto(th, "idle") \/ Goto(th, "second get")
  BY DEF Unlock, Return
<1> QED
  BY <1>1, <1>2, AccessInv, SameCounted

LEMMA SecondGetInv == ASSUME IInv, NEW th \in Thread, SecondGet(th) PROVE IInv'
<1>1. /\ job[th] \in Job /\ job' = job /\ at[th] # "idle" /\ drained[th]
      /\ UNCHANGED <<entry, pending, queued, polled>>
  BY JobOfType DEF SecondGet, mapVars
<1> QED
  BY <1>1, AccessInv, SameCounted DEF SecondGet, Return

-----------------------------------------------------------------------------

\* The node that leaves the queue is in the hands of who polled it.
LEMMA PollInv == ASSUME IInv, NEW th \in Thread, Poll(th) PROVE IInv'
<1>1. /\ Accesses(th) /\ ~drained[th] /\ polled[th] = Null
      /\ UNCHANGED <<entry, pending, at, job, drained>>
  BY DEF Poll
<1>2. MapOf(th) \in Map
  BY <1>1, MapOfType DEF IInv
<1>3. PICK k \in WordType :
          /\ queued[MapOf(th)][k] > 0
          /\ queued' = [queued EXCEPT ![MapOf(th)][k] = @ - 1]
          /\ polled' = [polled EXCEPT ![th] = k]
  BY DEF Poll
<1>4. Counted'
  BY <1>1, <1>2, <1>3 DEF IInv, Counted
<1>5. Placed' /\ HandsEmpty'
  BY <1>1, <1>3 DEF IInv, Placed, HandsEmpty, Accesses
<1>6. \A o \in Thread : Accesses(o)' = Accesses(o) /\ MapOf(o)' = MapOf(o)
  BY <1>1, SamePlace
<1>7. ASSUME NEW m \in Map, NEW t \in WordType, Removing(m, t)
      PROVE  Removing(m, t)'
  <2>1. PICK o \in Thread : Accesses(o) /\ MapOf(o) = m /\ polled[o] = t
    BY <1>7 DEF Removing
  <2>2. polled'[o] = t
    BY <1>1, <1>3, <2>1, NoneIsNoType DEF IInv, Placed
  <2> QED
    BY <1>6, <2>1, <2>2 DEF Removing
<1>8. \A m \in Map : m = MapOf(th) => Removing(m, k)'
  <2>1. polled'[th] = k
    BY <1>3 DEF IInv, Placed
  <2> QED
    BY <1>1, <1>6, <2>1 DEF Removing
<1>9. ASSUME NEW m \in Map, NEW t \in WordType, entry'[m][t] = "dead"
      PROVE  pending'[m][t] + queued'[m][t] > 0 \/ Removing(m, t)'
  <2>1. CASE m = MapOf(th) /\ t = k
    BY <1>8, <2>1
  <2>2. CASE ~(m = MapOf(th) /\ t = k)
    <3>1. queued'[m][t] = queued[m][t]
      BY <1>2, <1>3, <2>2 DEF IInv, Counted
    <3>2. pending[m][t] + queued[m][t] > 0 \/ Removing(m, t)
      BY <1>1, <1>9 DEF IInv, DeadIsQueued, Removing
    <3> QED
      BY <1>1, <1>7, <3>1, <3>2
  <2> QED
    BY <2>1, <2>2
<1> QED
  BY <1>4, <1>5, <1>9 DEF IInv, DeadIsQueued, Removing

\* Whoever removes a key leaves no entry of it, dead or not.
LEMMA RemovePolledInv == ASSUME IInv, NEW th \in Thread, RemovePolled(th) PROVE IInv'
<1>1. /\ polled[th] # Null
      /\ entry' = [entry EXCEPT ![MapOf(th)][polled[th]] = "absent"]
      /\ polled' = [polled EXCEPT ![th] = Null]
      /\ UNCHANGED <<pending, queued, at, job, drained>>
  BY DEF RemovePolled
<1>2. Accesses(th) /\ polled[th] \in WordType
  BY <1>1 DEF IInv, HandsEmpty, Placed
<1>3. MapOf(th) \in Map
  BY <1>2, MapOfType DEF IInv
<1>4. Counted'
  BY <1>1, <1>2, <1>3 DEF IInv, Counted
<1>5. Placed' /\ HandsEmpty'
  BY <1>1 DEF IInv, Placed, HandsEmpty, Accesses
<1>6. \A o \in Thread : Accesses(o)' = Accesses(o) /\ MapOf(o)' = MapOf(o)
  BY <1>1, SamePlace
<1>7. ASSUME NEW m \in Map, NEW t \in WordType, entry'[m][t] = "dead"
      PROVE  pending'[m][t] + queued'[m][t] > 0 \/ Removing(m, t)'
  <2>1. ~(m = MapOf(th) /\ t = polled[th]) /\ entry[m][t] = "dead"
    BY <1>1, <1>2, <1>3, <1>7 DEF IInv, Counted
  <2>2. CASE pending[m][t] + queued[m][t] > 0
    BY <1>1, <2>2
  <2>3. CASE Removing(m, t)
    <3>1. PICK o \in Thread : Accesses(o) /\ MapOf(o) = m /\ polled[o] = t
      BY <2>3 DEF Removing
    <3>2. polled'[o] = t
      BY <1>1, <2>1, <3>1 DEF IInv, Placed
    <3> QED
      BY <1>6, <3>1, <3>2 DEF Removing
  <2> QED
    BY <2>1, <2>2, <2>3 DEF IInv, DeadIsQueued, Removing
<1> QED
  BY <1>4, <1>5, <1>7 DEF IInv, DeadIsQueued, Removing

LEMMA PollNullInv == ASSUME IInv, NEW th \in Thread, PollNull(th) PROVE IInv'
<1>1. /\ polled[th] = Null
      /\ drained' = [drained EXCEPT ![th] = TRUE]
      /\ UNCHANGED <<entry, pending, queued, at, job, polled>>
  BY DEF PollNull, mapVars
<1>2. Counted' /\ Placed' /\ HandsEmpty'
  BY <1>1 DEF IInv, Counted, Placed, HandsEmpty, Accesses
<1>3. DeadIsQueued'
  BY <1>1, SamePlace DEF IInv, DeadIsQueued, Removing
<1> QED
  BY <1>2, <1>3 DEF IInv

-----------------------------------------------------------------------------

\* The node of a value that dies is pending from then on.
LEMMA ClearInv ==
    ASSUME IInv, NEW k \in Map, NEW w \in WordType, Clear(k, w)
    PROVE  IInv'
<1>1. /\ entry' = [entry EXCEPT ![k][w] = "dead"]
      /\ pending' = [pending EXCEPT ![k][w] = @ + 1]
      /\ UNCHANGED <<queued, at, job, drained, polled>>
  BY DEF Clear, threadVars
<1>2. Counted' /\ Placed' /\ HandsEmpty'
  <2>1. Counted'
    BY <1>1 DEF IInv, Counted
  <2>2. Placed' /\ HandsEmpty'
    BY <1>1 DEF IInv, Placed, HandsEmpty, Accesses
  <2> QED
    BY <2>1, <2>2
<1>3. ASSUME NEW m \in Map, NEW t \in WordType, entry'[m][t] = "dead"
      PROVE  pending'[m][t] + queued'[m][t] > 0 \/ Removing(m, t)'
  <2>1. CASE m = k /\ t = w
    BY <1>1, <2>1 DEF IInv, Counted
  <2>2. CASE ~(m = k /\ t = w)
    <3>1. entry[m][t] = "dead" /\ pending'[m][t] = pending[m][t]
      BY <1>1, <1>3, <2>2 DEF IInv, Counted
    <3>2. Removing(m, t)' = Removing(m, t)
      BY <1>1, SamePlace
    <3> QED
      BY <1>1, <3>1, <3>2 DEF IInv, DeadIsQueued, Removing
  <2> QED
    BY <2>1, <2>2
<1> QED
  BY <1>2, <1>3 DEF IInv, DeadIsQueued, Removing

LEMMA EnqueueInv ==
    ASSUME IInv, NEW k \in Map, NEW w \in WordType, Enqueue(k, w)
    PROVE  IInv'
<1>1. /\ pending[k][w] > 0
      /\ pending' = [pending EXCEPT ![k][w] = @ - 1]
      /\ queued' = [queued EXCEPT ![k][w] = @ + 1]
      /\ UNCHANGED <<entry, at, job, drained, polled>>
  BY DEF Enqueue, threadVars
<1>2. Counted' /\ Placed' /\ HandsEmpty'
  <2>1. Counted'
    BY <1>1 DEF IInv, Counted
  <2>2. Placed' /\ HandsEmpty'
    BY <1>1 DEF IInv, Placed, HandsEmpty, Accesses
  <2> QED
    BY <2>1, <2>2
<1>3. \A m \in Map, t \in WordType :
          pending'[m][t] + queued'[m][t] = pending[m][t] + queued[m][t]
  BY <1>1 DEF IInv, Counted
<1>4. DeadIsQueued'
  BY <1>1, <1>3, SamePlace DEF IInv, DeadIsQueued, Removing
<1> QED
  BY <1>2, <1>4 DEF IInv

-----------------------------------------------------------------------------

\* Every step of a thread or of the collector keeps the invariant.
LEMMA NextInv == IInv /\ [CacheNext]_cacheVars => IInv'
<1> SUFFICES ASSUME IInv, [CacheNext]_cacheVars PROVE IInv'
  OBVIOUS
<1>1. ASSUME NEW th \in Thread, Call(th) \/ Run(th) PROVE IInv'
  BY <1>1, CallInv, PollInv, RemovePolledInv, PollNullInv, FirstGetInv, LockInv,
     PutListInv, PutFirstInv, UnlockInv, SecondGetInv DEF Run
<1>2. ASSUME NEW m \in Map, NEW t \in WordType, Clear(m, t) \/ Enqueue(m, t) PROVE IInv'
  BY <1>2, ClearInv, EnqueueInv
<1>3. CASE UNCHANGED cacheVars
  <2>1. Counted' /\ Placed' /\ HandsEmpty'
    BY <1>3 DEF cacheVars, mapVars, threadVars, IInv, Counted, Placed, HandsEmpty, Accesses
  <2>2. DeadIsQueued'
    BY <1>3, SamePlace DEF cacheVars, mapVars, threadVars, IInv, DeadIsQueued, Removing
  <2> QED
    BY <2>1, <2>2 DEF IInv
<1> QED
  BY <1>1, <1>2, <1>3 DEF CacheNext

\* No dead entry of the word cache is forgotten, whatever threads call and
\* whenever the collector clears and enqueues.
THEOREM DeadEntriesAreRemoved == CacheSpec => []DeadIsQueued
<1>1. CacheInit => IInv
  BY InitInv
<1>2. IInv /\ [CacheNext]_cacheVars => IInv'
  BY NextInv
<1>3. IInv => DeadIsQueued
  BY DEF IInv
<1> QED
  BY <1>1, <1>2, <1>3, PTL DEF CacheSpec
=============================================================================
