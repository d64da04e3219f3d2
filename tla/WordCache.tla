------------------------------ MODULE WordCache ------------------------------
(***************************************************************************)
(* The word lists WordList keeps in two static SoftHashMaps, shared by     *)
(* every instance and thread, and what the garbage collector does to them. *)
(*                                                                         *)
(* A SoftHashMap holds its values softly: the collector may clear a value  *)
(* nobody else holds, and later enqueues the node that held it. Every       *)
(* access first polls the queue and removes the keys of the nodes it finds. *)
(* Nothing but loadWord is synchronized, so each poll, removal, read and   *)
(* write of the map is a step of its own; a step of HashMap itself is taken *)
(* to be atomic.                                                           *)
(***************************************************************************)
EXTENDS Naturals, FiniteSets

CONSTANTS
    Thread,
    WordType,
    MaxClears,      \* bound: how often the collector clears a value
    Null

ASSUME MaxClearsAssumption == MaxClears \in Nat
ASSUME NoneIsNoType == Null \notin WordType

\* wordListHashMap and wordFirstHashMap
Map == {"list", "first"}

\* The public calls. supportFirst belongs to the instance; the one caller of
\* getWordByWordFirst (SeedCalculatorByWordListLookUp) checks it first.
Job == {j \in [op : {"getWord", "getIndex", "getWordByWordFirst"}, type : WordType,
               supportFirst : BOOLEAN] :
            j.op = "getWordByWordFirst" => j.supportFirst}

VARIABLES
    entry,      \* entry[m][t]: the node in temp has its value, lost it, or is absent
    pending,    \* pending[m][t]: cleared nodes of key t, not enqueued yet
    queued,     \* queued[m][t]: nodes of key t in the ReferenceQueue
    lock,       \* who is in synchronized(WordList::class.java)
    at,         \* at[th]: what the thread does next
    job,        \* job[th]: the call it makes
    drained,    \* drained[th]: its last poll found the queue empty
    polled,     \* polled[th]: key of the node it polled and has not removed
    answer,     \* answer[th]: how its last call ended
    clears      \* values cleared so far

mapVars == <<entry, pending, queued, clears>>
threadVars == <<lock, at, job, drained, polled, answer>>
cacheVars == <<mapVars, threadVars>>

CacheInit ==
    /\ entry = [m \in Map |-> [t \in WordType |-> "absent"]]
    /\ pending = [m \in Map |-> [t \in WordType |-> 0]]
    /\ queued = [m \in Map |-> [t \in WordType |-> 0]]
    /\ lock = Null
    /\ at = [th \in Thread |-> "idle"]
    /\ job = [th \in Thread |-> Null]
    /\ drained = [th \in Thread |-> FALSE]
    /\ polled = [th \in Thread |-> Null]
    /\ answer = [th \in Thread |-> Null]
    /\ clears = 0

-----------------------------------------------------------------------------
\* The map a thread is about to get from or put into.
MapOf(th) ==
    CASE at[th] = "put list" -> "list"
      [] at[th] = "put first" -> "first"
      [] at[th] \in {"first get", "second get"} ->
            IF job[th].op = "getWordByWordFirst" THEN "first" ELSE "list"

Accesses(th) == at[th] \in {"first get", "second get", "put list", "put first"}

(***************************************************************************)
(* clearQueue, the loop in front of every access.                          *)
(***************************************************************************)
Peek(th) ==                    \* mutant: the node stays in the queue
    /\ Accesses(th) /\ ~drained[th] /\ polled[th] = Null
    /\ \E t \in WordType :
        /\ queued[MapOf(th)][t] > 0
        /\ polled' = [polled EXCEPT ![th] = t]
    /\ UNCHANGED <<mapVars, lock, at, job, drained, answer>>
Poll(th) ==
    /\ Accesses(th) /\ ~drained[th] /\ polled[th] = Null
    /\ \E t \in WordType :
        /\ queued[MapOf(th)][t] > 0
        /\ queued' = [queued EXCEPT ![MapOf(th)][t] = @ - 1]
        /\ polled' = [polled EXCEPT ![th] = t]
    /\ UNCHANGED <<entry, pending, clears, lock, at, job, drained, answer>>

RemoveIfDead(th) ==            \* mutant: the node is dropped while a value is there
    /\ polled[th] # Null
    /\ polled' = [polled EXCEPT ![th] = Null]
    /\ UNCHANGED <<entry, pending, queued, clears, lock, at, job, drained, answer>>
RemovePolled(th) ==
    /\ polled[th] # Null
    /\ entry' = [entry EXCEPT ![MapOf(th)][polled[th]] = "absent"]
    /\ polled' = [polled EXCEPT ![th] = Null]
    /\ UNCHANGED <<pending, queued, clears, lock, at, job, drained, answer>>

PollNull(th) ==
    /\ Accesses(th) /\ ~drained[th] /\ polled[th] = Null
    /\ \A t \in WordType : queued[MapOf(th)][t] = 0
    /\ drained' = [drained EXCEPT ![th] = TRUE]
    /\ UNCHANGED <<mapVars, lock, at, job, polled, answer>>

\* The access itself, after clearQueue: the thread goes on to `next'.
Goto(th, next) ==
    /\ at' = [at EXCEPT ![th] = next]
    /\ drained' = [drained EXCEPT ![th] = FALSE]
Return(th, a) ==
    /\ Goto(th, "idle")
    /\ answer' = [answer EXCEPT ![th] = a]

-----------------------------------------------------------------------------
Call(th) ==
    /\ at[th] = "idle"
    /\ \E j \in Job : job' = [job EXCEPT ![th] = j]
    /\ Goto(th, "first get")
    /\ answer' = [answer EXCEPT ![th] = Null]
    /\ UNCHANGED <<mapVars, lock, polled>>

Live(th) == entry[MapOf(th)][job[th].type] = "live"

\* wordListHashMap.get(wordType) ?: loadWord(wordType). getWord reads its
\* word from the list it got; the others keep nothing of it.
FirstGet(th) ==
    /\ at[th] = "first get" /\ drained[th]
    /\ CASE ~Live(th) -> Goto(th, "lock") /\ UNCHANGED answer
         [] Live(th) /\ job[th].op = "getWord" -> Return(th, "found")
         [] OTHER -> Goto(th, "second get") /\ UNCHANGED answer
    /\ UNCHANGED <<mapVars, lock, job, polled>>

Lock(th) ==
    /\ at[th] = "lock"
    /\ lock = Null
    /\ lock' = th
    /\ Goto(th, "put list")
    /\ UNCHANGED <<mapVars, job, polled, answer>>

ListOnly(th) ==                \* mutant: supportFirst is not looked at
    /\ at[th] = "put list" /\ drained[th]
    /\ entry' = [entry EXCEPT !["list"][job[th].type] = "live"]
    /\ Goto(th, "unlock")
    /\ UNCHANGED <<pending, queued, clears, lock, job, polled, answer>>
PutList(th) ==
    /\ at[th] = "put list" /\ drained[th]
    /\ entry' = [entry EXCEPT !["list"][job[th].type] = "live"]
    /\ Goto(th, IF job[th].supportFirst THEN "put first" ELSE "unlock")
    /\ UNCHANGED <<pending, queued, clears, lock, job, polled, answer>>

PutFirst(th) ==
    /\ at[th] = "put first" /\ drained[th]
    /\ entry' = [entry EXCEPT !["first"][job[th].type] = "live"]
    /\ Goto(th, "unlock")
    /\ UNCHANGED <<pending, queued, clears, lock, job, polled, answer>>

\* The end of loadWord. getWord reads from the list loadWord returns.
Unlock(th) ==
    /\ at[th] = "unlock"
    /\ lock' = Null
    /\ IF job[th].op = "getWord" THEN Return(th, "found")
       ELSE Goto(th, "second get") /\ UNCHANGED answer
    /\ UNCHANGED <<mapVars, job, polled>>

\* getIndex searches a second get of the list, and answers -1 when that is
\* null; getWordByWordFirst asserts that its second get is not null.
SecondGet(th) ==
    /\ at[th] = "second get" /\ drained[th]
    /\ Return(th, IF Live(th) THEN "found"
                  ELSE IF job[th].op = "getIndex" THEN "minus one" ELSE "null pointer")
    /\ UNCHANGED <<mapVars, lock, job, polled>>

-----------------------------------------------------------------------------
\* The list a thread has just put stays reachable until loadWord returns it.
Held(m, t) ==
    /\ m = "list" /\ lock # Null
    /\ job[lock].type = t /\ at[lock] \in {"put first", "unlock"}

Clear(m, t) ==
    /\ entry[m][t] = "live" /\ ~Held(m, t)
    /\ clears < MaxClears
    /\ entry' = [entry EXCEPT ![m][t] = "dead"]
    /\ pending' = [pending EXCEPT ![m][t] = @ + 1]
    /\ clears' = clears + 1
    /\ UNCHANGED <<queued, threadVars>>

Enqueue(m, t) ==
    /\ pending[m][t] > 0
    /\ pending' = [pending EXCEPT ![m][t] = @ - 1]
    /\ queued' = [queued EXCEPT ![m][t] = @ + 1]
    /\ UNCHANGED <<entry, clears, threadVars>>

Run(th) == \/ Poll(th) \/ RemovePolled(th) \/ PollNull(th)
           \/ FirstGet(th) \/ Lock(th) \/ PutList(th) \/ PutFirst(th) \/ Unlock(th)
           \/ SecondGet(th)

CacheNext ==
    \/ \E th \in Thread : Call(th) \/ Run(th)
    \/ \E m \in Map, t \in WordType : Clear(m, t) \/ Enqueue(m, t)

\* A thread inside a call is scheduled. Nobody has to call, and the collector
\* has to do nothing.
Scheduling == \A th \in Thread : WF_cacheVars(Run(th))
CacheSpec == CacheInit /\ [][CacheNext]_cacheVars /\ Scheduling

-----------------------------------------------------------------------------
\* No dead entry is forgotten: while temp holds a node without a value, a
\* node of its key is still on its way through the queue, so an access to
\* come removes the key. Otherwise a list would never be loaded again.
DeadIsQueued ==
    \A m \in Map, t \in WordType :
        entry[m][t] = "dead" =>
            \/ pending[m][t] + queued[m][t] > 0
            \/ \E th \in Thread : Accesses(th) /\ MapOf(th) = m /\ polled[th] = t

\* Failures stop once the collector does: a call that finds its entry gone
\* between two reads is the trace of a value cleared at some time, never a
\* state the cache stays in.
Recovers == <>[][\A th \in Thread : SecondGet(th) => Live(th)]_cacheVars

\* Every call ends: no thread polls the queue or waits for the lock forever,
\* when the collector clears a value only so often.
CallsReturn == \A th \in Thread : at[th] # "idle" ~> at[th] = "idle"
=============================================================================
