---------------------------- MODULE RateLimiter ----------------------------
(***************************************************************************)
(* GlobalRateLimiter (src/src/utils/rate_limiter.py) for one bucket, used  *)
(* by coroutines of one event loop through acquire() and by worker threads *)
(* through acquire_sync().  Both work on one deque of timestamps, but the  *)
(* coroutines hold an asyncio lock and the threads a threading lock, so a  *)
(* thread may run between any two operations of the running coroutine on   *)
(* the deque, and the other way round.  Each reading or change of the      *)
(* deque is a step of its own.                                             *)
(*                                                                         *)
(* Timestamps are numbered in the order they are appended, and those up to *)
(* expired are 60 seconds old.  Entries leave the deque on the left only:  *)
(* it holds the ones from popped + 1 to granted.  Two readings of the      *)
(* clock exactly 60 seconds apart are left out: a timestamp is older than  *)
(* a cutoff or newer.  The deque of the bucket exists.                     *)
(***************************************************************************)
EXTENDS Integers, Sequences

CONSTANTS
    Coroutines,  \* coroutines that call acquire()
    Threads,     \* threads that call acquire_sync()
    Rpm,         \* limits["rpm"]
    MaxGrants    \* bound: no call starts once so many requests were let through

ASSUME LimiterAssumption ==
    /\ Coroutines \cap Threads = {}
    /\ Rpm \in Nat \ {0}
    /\ MaxGrants \in Nat

Clients == Coroutines \cup Threads

VARIABLES
    at,        \* where each client is
    queue,     \* tasks holding (first) or waiting for the bucket's lock
    granted,   \* timestamps appended so far
    expired,   \* timestamps older than 60 seconds
    popped,    \* timestamps that were popped from the deque
    cutoff,    \* the timestamps older than a client's cutoff
    awaited    \* the entry whose expiry a client awaits or awaited, or 0

limiterVars == <<at, queue, granted, expired, popped, cutoff, awaited>>

LimiterPc == {"out", "queued", "prune", "peek", "pop", "full", "oldest", "asleep", "append"}

LimiterTypeOK ==
    /\ at \in [Clients -> LimiterPc]
    /\ queue \in Seq(Coroutines)
    /\ granted \in Nat
    /\ expired \in 0..granted
    /\ popped \in 0..granted
    /\ cutoff \in [Clients -> 0..granted]
    /\ awaited \in [Clients -> 0..granted]

LimiterInit ==
    /\ at = [c \in Clients |-> "out"]
    /\ queue = <<>>
    /\ granted = 0
    /\ expired = 0
    /\ popped = 0
    /\ cutoff = [c \in Clients |-> 0]
    /\ awaited = [c \in Clients |-> 0]

Move(c, to) == at' = [at EXCEPT ![c] = to]

(* A client works on the deque: no other coroutine runs until it awaits or *)
(* ends, and no other thread gets the threading lock.                      *)
OnDeque == {"prune", "peek", "pop", "full", "oldest"}

LoopFree == \A t \in Coroutines : at[t] \notin OnDeque \cup {"append"}

LockFree == \A h \in Threads : at[h] \notin OnDeque

(* The call is over, and its local variables with it.                      *)
Finish(c) ==
    /\ Move(c, "out")
    /\ cutoff' = [cutoff EXCEPT ![c] = 0]
    /\ awaited' = [awaited EXCEPT ![c] = 0]

(* Removes a task from the lock's queue, wherever it waits.                *)
Leave(t) ==
    \E i \in 1..Len(queue) :
      /\ queue[i] = t
      /\ queue' = SubSeq(queue, 1, i - 1) \o SubSeq(queue, i + 1, Len(queue))

Holds(t) == queue # <<>> /\ Head(queue) = t

Release(c) == IF c \in Coroutines THEN Leave(c) ELSE UNCHANGED queue

\* Mutant: the lock is not given back on the way out of an error.
IndexErrorKeepsLock(c) ==
    /\ popped = granted
    /\ Finish(c)
    /\ UNCHANGED <<queue, granted, expired, popped>>

(* The deque is empty although it was not when the client last looked: its *)
(* caller gets an IndexError, and the lock is given back.                  *)
IndexError(c) ==
    /\ popped = granted
    /\ Finish(c)
    /\ Release(c)
    /\ UNCHANGED <<granted, expired, popped>>

(***************************************************************************)
(* The part that acquire() and acquire_sync() have in common: popping from *)
(* the left while the first entry is older than the cutoff, before the     *)
(* length is looked at and, by a client that slept, before it appends.     *)
(***************************************************************************)
StartPruning(c) ==
    /\ cutoff' = [cutoff EXCEPT ![c] = expired]
    /\ Move(c, "prune")
    /\ UNCHANGED <<granted, expired, popped, awaited>>

Pruned(c) == Move(c, IF awaited[c] = 0 THEN "full" ELSE "append")

DequeNonEmpty(c) ==
    /\ at[c] = "prune"
    /\ IF popped < granted THEN Move(c, "peek") ELSE Pruned(c)
    /\ UNCHANGED <<queue, granted, expired, popped, cutoff, awaited>>

FirstIsOld(c) ==
    /\ at[c] = "peek"
    /\ popped < granted
    /\ IF popped < cutoff[c] THEN Move(c, "pop") ELSE Pruned(c)
    /\ UNCHANGED <<queue, granted, expired, popped, cutoff, awaited>>

PopLeft(c) ==
    /\ at[c] = "pop"
    /\ popped < granted
    /\ popped' = popped + 1
    /\ Move(c, "prune")
    /\ UNCHANGED <<queue, granted, expired, cutoff, awaited>>

\* Mutant: the window is full one request late.
LengthLate(c) ==
    /\ at[c] = "full"
    /\ Move(c, IF granted - popped > Rpm THEN "oldest" ELSE "append")
    /\ UNCHANGED <<queue, granted, expired, popped, cutoff, awaited>>

Length(c) ==
    /\ at[c] = "full"
    /\ Move(c, IF granted - popped >= Rpm THEN "oldest" ELSE "append")
    /\ UNCHANGED <<queue, granted, expired, popped, cutoff, awaited>>

(* The wait is for the entry that is the oldest now.                       *)
OldestEntry(c) ==
    /\ at[c] = "oldest"
    /\ popped < granted
    /\ awaited' = [awaited EXCEPT ![c] = popped + 1]
    /\ Move(c, "asleep")
    /\ UNCHANGED <<queue, granted, expired, popped, cutoff>>

OnDequeStep(c) ==
    \/ DequeNonEmpty(c)
    \/ FirstIsOld(c)
    \/ PopLeft(c)
    \/ Length(c)
    \/ OldestEntry(c)
    \/ at[c] \in {"peek", "pop", "oldest"} /\ IndexError(c)

(***************************************************************************)
(* acquire(): the asyncio lock of the bucket is held over the sleep, and   *)
(* nothing is awaited but the lock and the sleep.                          *)
(***************************************************************************)
Acquire(t) ==
    /\ at[t] = "out"
    /\ granted < MaxGrants
    /\ LoopFree
    /\ queue' = Append(queue, t)
    /\ Move(t, "queued")
    /\ UNCHANGED <<granted, expired, popped, cutoff, awaited>>

Enter(t) ==
    /\ at[t] = "queued"
    /\ Holds(t)
    /\ StartPruning(t)
    /\ UNCHANGED queue

\* Mutant: the sleep ends before the oldest entry has expired.
WakeEarly(t) ==
    /\ at[t] = "asleep"
    /\ LoopFree
    /\ expired + 1 >= awaited[t]
    /\ StartPruning(t)
    /\ UNCHANGED queue

Wake(t) ==
    /\ at[t] = "asleep"
    /\ LoopFree
    /\ expired >= awaited[t]
    /\ StartPruning(t)
    /\ UNCHANGED queue

(* The length of the deque is not looked at again after the sleep.         *)
AppendTime(t) ==
    /\ at[t] = "append"
    /\ granted' = granted + 1
    /\ Finish(t)
    /\ Leave(t)
    /\ UNCHANGED <<expired, popped>>

(* asyncio.wait_for around a worker's call gives up on the slot.           *)
Cancel(t) ==
    /\ at[t] \in {"queued", "asleep"}
    /\ LoopFree
    /\ Leave(t)
    /\ Finish(t)
    /\ UNCHANGED <<granted, expired, popped>>

(***************************************************************************)
(* acquire_sync(): one section of the threading lock to prune and look,    *)
(* one to prune after the sleep, and one to append; the sleep is outside.  *)
(***************************************************************************)
SyncEnter(h) ==
    /\ at[h] = "out"
    /\ granted < MaxGrants
    /\ LockFree
    /\ StartPruning(h)
    /\ UNCHANGED queue

SyncWake(h) ==
    /\ at[h] = "asleep"
    /\ LockFree
    /\ expired >= awaited[h]
    /\ StartPruning(h)
    /\ UNCHANGED queue

SyncAppendTime(h) ==
    /\ at[h] = "append"
    /\ LockFree
    /\ granted' = granted + 1
    /\ Finish(h)
    /\ UNCHANGED <<queue, expired, popped>>

(* Time passes: the oldest request of the last minute leaves it.           *)
Expire ==
    /\ expired < granted
    /\ expired' = expired + 1
    /\ UNCHANGED <<at, queue, granted, popped, cutoff, awaited>>

CoroutineStep(t) == Enter(t) \/ OnDequeStep(t) \/ Wake(t) \/ AppendTime(t)

ThreadStep(h) == OnDequeStep(h) \/ SyncWake(h) \/ SyncAppendTime(h)

LimiterNext ==
    \/ \E t \in Coroutines : Acquire(t) \/ CoroutineStep(t) \/ Cancel(t)
    \/ \E h \in Threads : SyncEnter(h) \/ ThreadStep(h)
    \/ Expire

(* A sleep ends, a free lock is handed on, a thread is scheduled, and time *)
(* passes; nobody has to call.                                             *)
LimiterSpec ==
    /\ LimiterInit
    /\ [][LimiterNext]_limiterVars
    /\ WF_limiterVars(Expire)
    /\ \A t \in Coroutines : WF_limiterVars(CoroutineStep(t))
    /\ \A h \in Threads : WF_limiterVars(ThreadStep(h))

-----------------------------------------------------------------------------
Window == INSTANCE SlidingWindow WITH Rpm <- Rpm, granted <- granted, expired <- expired

(***************************************************************************)
(* No more than Rpm requests are let through in any 60 seconds.            *)
(***************************************************************************)
WithinRpm == granted - expired <= Rpm

(***************************************************************************)
(* The limiter is a sliding window: a request is let through only while    *)
(* fewer than Rpm others are less than 60 seconds old.                     *)
(***************************************************************************)
ImplementsWindow == Window!Spec

(***************************************************************************)
(* Every call comes to an end, with a slot or with the IndexError of a     *)
(* deque that the other side emptied between two of its operations: nobody *)
(* waits for an entry that is gone, although the other side may have       *)
(* popped it, nor behind a lock that such an error left taken.             *)
(***************************************************************************)
CallsEnd == \A c \in Clients : at[c] # "out" ~> at[c] = "out"
=============================================================================
