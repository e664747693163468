------------------------- MODULE Throttling_proofs -------------------------
(***************************************************************************)
(* Theorems about the two parts of rate_limiter.py that a request passes:  *)
(* the limiter of a bucket and the wrapper with its pool of keys.          *)
(*                                                                         *)
(* The asynchronous side of the limiter keeps every bucket within its      *)
(* limit, for every number of coroutines, every limit and every            *)
(* cancellation: the lock of the bucket is held over the sleep, so at most *)
(* one coroutine sleeps, nothing is appended meanwhile, and when the entry *)
(* it waits for has expired there is room for one more.                    *)
(*                                                                         *)
(* The rotation guarantees for every number of tasks and keys that the     *)
(* retry's key is fresh.  Only to a wrapper with one caller it guarantees  *)
(* that each request is charged to its key and that the failed key is the  *)
(* one that is benched.                                                    *)
(***************************************************************************)
EXTENDS RateLimiter, KeyRotation, WellFoundedInduction, TLAPS

-----------------------------------------------------------------------------
(* The limiter.                                                            *)

(* A coroutine past the lock heads its queue; what is popped is old; and a *)
(* coroutine's cutoff, the entry it waited for and where it is bound the   *)
(* requests that are younger than a minute.                                *)
Inside == OnDeque \cup {"asleep", "append"}

HolderInv == \A t \in Coroutines : at[t] \in Inside => Len(queue) > 0 /\ queue[1] = t

Placed(t) ==
    /\ at[t] \in OnDeque => cutoff[t] <= expired /\ granted - cutoff[t] <= Rpm
    /\ at[t] = "pop" => popped < cutoff[t]
    /\ at[t] \in {"full", "oldest"} => popped >= cutoff[t]
    /\ at[t] = "asleep" => granted - awaited[t] < Rpm
    /\ at[t] \in {"prune", "peek", "pop"} /\ awaited[t] # 0 => granted - awaited[t] < Rpm /\ awaited[t] <= expired
    /\ at[t] = "append" => granted - expired < Rpm
    /\ at[t] \in {"out", "queued"} => awaited[t] = 0

LimiterInv ==
    /\ LimiterTypeOK
    /\ WithinRpm
    /\ popped <= expired
    /\ HolderInv
    /\ \A t \in Coroutines : Placed(t)

LEMMA LimiterInitInv == LimiterInit => LimiterInv
  BY LimiterAssumption
     DEF LimiterInit, LimiterInv, LimiterTypeOK, WithinRpm, HolderInv, Inside, Placed, OnDeque,
         LimiterPc, Clients

(* Leaving the queue keeps its type, and its head unless the head leaves.  *)
LEMMA LeaveQueue ==
    ASSUME LimiterTypeOK, NEW t \in Coroutines, Leave(t)
    PROVE  /\ queue' \in Seq(Coroutines)
           /\ (Len(queue) > 0 /\ queue[1] # t)
                => Len(queue') > 0 /\ queue'[1] = queue[1]
<1>1. PICK i \in 1..Len(queue) :
        /\ queue[i] = t
        /\ queue' = SubSeq(queue, 1, i - 1) \o SubSeq(queue, i + 1, Len(queue))
  BY DEF Leave
<1>2. queue \in Seq(Coroutines)
  BY DEF LimiterTypeOK
<1> DEFINE a == SubSeq(queue, 1, i - 1)
           b == SubSeq(queue, i + 1, Len(queue))
<1>3. a \in Seq(Coroutines) /\ Len(a) = i - 1 /\ b \in Seq(Coroutines)
  BY <1>2
<1>4. i > 1 => a[1] = queue[1]
  BY <1>2
<1>5. queue' = a \o b
  BY <1>1
<1> HIDE DEF a, b
<1>6. /\ queue' \in Seq(Coroutines)
      /\ i > 1 => Len(queue') > 0 /\ queue'[1] = a[1]
  BY <1>3, <1>5
<1>7. i = 1 => queue[1] = t
  BY <1>1
<1>8. i = 1 \/ i > 1
  BY <1>2
<1> QED
  BY <1>4, <1>6, <1>7, <1>8

(* What a step has to show when one coroutine moves and the others stay.   *)
LEMMA OneMoves ==
    ASSUME LimiterInv, NEW t \in Coroutines, LimiterTypeOK', WithinRpm', popped' <= expired',
           \A u \in Coroutines \ {t} :
             at'[u] = at[u] /\ cutoff'[u] = cutoff[u] /\ awaited'[u] = awaited[u],
           expired' = expired,
           \/ at[t] \in Inside
           \/ Holds(t) /\ granted' = granted
           \/ granted' = granted /\ popped' = popped,
           at'[t] \in Inside => Len(queue') > 0 /\ queue'[1] = t,
           at[t] \notin Inside /\ at'[t] \notin Inside /\ Len(queue) > 0 /\ queue[1] # t
             => Len(queue') > 0 /\ queue'[1] = queue[1],
           at[t] \notin Inside /\ at'[t] \in Inside => Holds(t),
           Placed(t)'
    PROVE  LimiterInv'
<1> USE DEF LimiterInv
<1>1. ASSUME NEW u \in Coroutines \ {t}, at'[u] \in Inside
      PROVE  /\ at[t] \notin Inside /\ at'[t] \notin Inside
             /\ Len(queue) > 0 /\ queue[1] = u
  BY <1>1 DEF HolderInv, Holds
<1>2. HolderInv'
  <2> SUFFICES ASSUME NEW u \in Coroutines, at'[u] \in Inside
               PROVE  Len(queue') > 0 /\ queue'[1] = u
    BY DEF HolderInv
  <2>1. CASE u = t
    BY <2>1
  <2>2. CASE u # t
    BY <1>1, <2>2
  <2> QED
    BY <2>1, <2>2
<1>3. ASSUME NEW u \in Coroutines
      PROVE  Placed(u)'
  <2>1. CASE u = t
    BY <2>1
  <2>2. CASE u # t /\ at[u] \in Inside
    <3>1. u \in Coroutines \ {t}
      BY <2>2
    <3>2. at'[u] \in Inside
      BY <2>2, <3>1
    <3>3. /\ at[t] \notin Inside
          /\ Len(queue) > 0 /\ queue[1] = u
      BY <1>1, <3>1, <3>2
    <3>4. ~Holds(t)
      BY <2>2, <3>3 DEF Holds
    <3>5. granted' = granted /\ popped' = popped
      BY <3>3, <3>4
    <3>6. Placed(u)
      OBVIOUS
    <3> QED
      BY <3>1, <3>5, <3>6 DEF Placed
  <2>3. CASE u # t /\ at[u] \notin Inside
    <3>1. at'[u] \notin Inside
      BY <2>3
    <3> QED
      BY <3>1 DEF Placed, Inside, OnDeque
  <2> QED
    BY <2>1, <2>2, <2>3
<1> QED
  BY <1>2, <1>3

LEMMA LimiterStepInv ==
    ASSUME Threads = {}
    PROVE  LimiterInv /\ [LimiterNext]_limiterVars => LimiterInv'
<1> SUFFICES ASSUME LimiterInv, [LimiterNext]_limiterVars
             PROVE  LimiterInv'
  OBVIOUS
<1> USE LimiterAssumption DEF LimiterInv, LimiterTypeOK, LimiterPc, Clients
<1>1. ASSUME NEW t \in Coroutines, Acquire(t)
      PROVE  LimiterInv'
  <2>1. queue' \in Seq(Coroutines) /\ Len(queue') = Len(queue) + 1
    BY <1>1 DEF Acquire
  <2>2. Len(queue) > 0 => queue'[1] = queue[1]
    BY <1>1 DEF Acquire
  <2>3. Placed(t)' /\ at[t] \notin Inside /\ at'[t] \notin Inside
    BY <1>1 DEF Acquire, Move, Placed, Inside, OnDeque
  <2>4. LimiterTypeOK' /\ WithinRpm'
    BY <1>1, <2>1 DEF Acquire, Move, WithinRpm
  <2>5. /\ UNCHANGED <<granted, expired, popped, cutoff, awaited>>
        /\ at' = [at EXCEPT ![t] = "queued"]
    BY <1>1 DEF Acquire, Move
  <2>6. /\ popped' <= expired'
        /\ \A u \in Coroutines \ {t} :
             at'[u] = at[u] /\ cutoff'[u] = cutoff[u] /\ awaited'[u] = awaited[u]
    BY <2>5
  <2>7. Len(queue) > 0 => Len(queue') > 0
    BY <2>1
  <2> QED
    BY <2>2, <2>3, <2>4, <2>5, <2>6, <2>7, OneMoves
<1>2. ASSUME NEW t \in Coroutines, Enter(t) \/ Wake(t)
      PROVE  LimiterInv'
  <2>1. Len(queue) > 0 /\ queue[1] = t /\ Holds(t)
    BY <1>2 DEF Enter, Wake, Holds, HolderInv, Inside
  <2>2. /\ at' = [at EXCEPT ![t] = "prune"]
        /\ cutoff' = [cutoff EXCEPT ![t] = expired]
        /\ UNCHANGED <<queue, granted, expired, popped, awaited>>
    BY <1>2 DEF Enter, Wake, StartPruning, Move
  <2>3. awaited[t] # 0 => granted - awaited[t] < Rpm /\ awaited[t] <= expired
    BY <1>2 DEF Enter, Wake, Placed
  <2>4. LimiterTypeOK' /\ WithinRpm'
    BY <2>2 DEF WithinRpm
  <2>5. Placed(t)'
    BY <2>2, <2>3 DEF Placed, OnDeque, WithinRpm
  <2> QED
    BY <2>1, <2>2, <2>4, <2>5, OneMoves
<1>3. ASSUME NEW t \in Coroutines, OnDequeStep(t), ~IndexError(t)
      PROVE  LimiterInv'
  <2> DEFINE Stays ==
               /\ at[t] \in OnDeque
               /\ UNCHANGED <<queue, granted, expired, cutoff>>
               /\ awaited' \in [Clients -> 0..granted]
               /\ \A u \in Coroutines \ {t} : at'[u] = at[u] /\ awaited'[u] = awaited[u]
               /\ at' \in [Clients -> LimiterPc]
               /\ at'[t] \in Inside
  <2>1. Stays
    <3>1. CASE DequeNonEmpty(t) \/ FirstIsOld(t)
      BY <3>1 DEF DequeNonEmpty, FirstIsOld, Pruned, Move, OnDeque, Inside
    <3>2. CASE PopLeft(t) \/ Length(t)
      BY <3>2 DEF PopLeft, Length, Move, OnDeque, Inside
    <3>3. CASE OldestEntry(t)
      BY <3>3 DEF OldestEntry, Move, OnDeque, Inside
    <3> QED
      BY <1>3, <3>1, <3>2, <3>3 DEF OnDequeStep
  <2>2. Len(queue) > 0 /\ queue[1] = t
    BY <2>1 DEF HolderInv, Inside
  <2>3. popped' \in 0..granted /\ popped' <= expired
    BY <1>3 DEF OnDequeStep, DequeNonEmpty, FirstIsOld, PopLeft, Length, OldestEntry, Placed, OnDeque
  <2>4. Placed(t)'
    <3>1. CASE DequeNonEmpty(t) \/ FirstIsOld(t)
      BY <2>1, <3>1 DEF DequeNonEmpty, FirstIsOld, Pruned, Move, Placed, OnDeque
    <3>2. CASE PopLeft(t)
      BY <2>1, <3>2 DEF PopLeft, Move, Placed, OnDeque
    <3>3. CASE Length(t) \/ OldestEntry(t)
      BY <2>1, <3>3 DEF Length, OldestEntry, Move, Placed, OnDeque
    <3> QED
      BY <1>3, <3>1, <3>2, <3>3 DEF OnDequeStep
  <2>5. LimiterTypeOK' /\ WithinRpm'
    BY <2>1, <2>3 DEF WithinRpm
  <2>6. at[t] \in Inside
    BY <2>1 DEF Inside
  <2> QED
    BY <2>1, <2>2, <2>3, <2>4, <2>5, <2>6, OneMoves
<1>4. ASSUME NEW t \in Coroutines, AppendTime(t) \/ Cancel(t) \/ IndexError(t)
      PROVE  LimiterInv'
  <2>1. /\ queue' \in Seq(Coroutines)
        /\ (Len(queue) > 0 /\ queue[1] # t)
             => Len(queue') > 0 /\ queue'[1] = queue[1]
    BY <1>4, LeaveQueue DEF AppendTime, Cancel, IndexError, Release
  <2>2. /\ at' = [at EXCEPT ![t] = "out"]
        /\ cutoff' = [cutoff EXCEPT ![t] = 0]
        /\ awaited' = [awaited EXCEPT ![t] = 0]
        /\ UNCHANGED <<expired, popped>>
    BY <1>4 DEF AppendTime, Cancel, IndexError, Finish, Move
  <2>3. \/ granted' = granted
        \/ at[t] = "append" /\ granted' = granted + 1
    <3>1. CASE AppendTime(t)
      BY <3>1 DEF AppendTime
    <3>2. CASE Cancel(t)
      BY <3>2 DEF Cancel
    <3>3. CASE IndexError(t)
      BY <3>3 DEF IndexError
    <3> QED
      BY <1>4, <3>1, <3>2, <3>3
  <2>5. WithinRpm'
    <3>1. CASE granted' = granted
      BY <2>2, <3>1 DEF WithinRpm
    <3>2. CASE at[t] = "append" /\ granted' = granted + 1
      <4>1. granted - expired < Rpm
        BY <3>2 DEF Placed
      <4> QED
        BY <2>2, <3>2, <4>1 DEF WithinRpm
    <3> QED
      BY <2>3, <3>1, <3>2
  <2>6. LimiterTypeOK'
    <3>1. granted' \in {granted, granted + 1}
      BY <2>3
    <3> QED
      BY <2>1, <2>2, <3>1
  <2>7. Placed(t)' /\ at'[t] \notin Inside
    BY <2>2 DEF Placed, OnDeque, Inside
  <2>8. at[t] \in Inside \/ granted' = granted
    BY <2>3 DEF Inside
  <2> QED
    BY <2>1, <2>2, <2>5, <2>6, <2>7, <2>8, OneMoves
<1>5. CASE Expire
  <2>1. HolderInv'
    BY <1>5 DEF Expire, HolderInv
  <2>2. \A t \in Coroutines : Placed(t)'
    BY <1>5 DEF Expire, Placed
  <2> QED
    BY <1>5, <2>1, <2>2 DEF Expire, WithinRpm
<1>6. CASE UNCHANGED limiterVars
  BY <1>6 DEF limiterVars, WithinRpm, HolderInv, Placed
<1> QED
  BY <1>1, <1>2, <1>3, <1>4, <1>5, <1>6 DEF LimiterNext, CoroutineStep

(***************************************************************************)
(* Coroutines alone never get more than Rpm requests through in a minute.  *)
(***************************************************************************)
THEOREM AsyncWithinRpm ==
    ASSUME Threads = {}
    PROVE  LimiterSpec => []WithinRpm
<1>1. LimiterInit => LimiterInv
  BY LimiterInitInv
<1>2. LimiterInv /\ [LimiterNext]_limiterVars => LimiterInv'
  BY LimiterStepInv
<1>3. LimiterInv => WithinRpm
  BY DEF LimiterInv
<1> QED
  BY <1>1, <1>2, <1>3, PTL DEF LimiterSpec

(***************************************************************************)
(* Coroutines alone use the limiter as a sliding window: each step lets    *)
(* one request through while there is room, ages one, or does neither.     *)
(***************************************************************************)
THEOREM AsyncImplementsWindow ==
    ASSUME Threads = {}
    PROVE  LimiterSpec => ImplementsWindow
<1>1. LimiterInit => Window!Init
  BY DEF LimiterInit, Window!Init
<1>2. LimiterInv /\ [LimiterNext]_limiterVars => [Window!Next]_<<granted, expired>>
  <2> SUFFICES ASSUME LimiterInv, [LimiterNext]_limiterVars
               PROVE  [Window!Next]_<<granted, expired>>
    OBVIOUS
  <2> USE LimiterAssumption DEF LimiterInv, LimiterTypeOK
  <2>1. ASSUME NEW t \in Coroutines, Acquire(t) \/ Cancel(t) \/ Enter(t) \/ Wake(t)
        PROVE  UNCHANGED <<granted, expired>>
    BY <2>1 DEF Acquire, Cancel, Enter, Wake, StartPruning
  <2>2. ASSUME NEW t \in Coroutines, OnDequeStep(t)
        PROVE  UNCHANGED <<granted, expired>>
    BY <2>2 DEF OnDequeStep, DequeNonEmpty, FirstIsOld, PopLeft, Length, OldestEntry, IndexError
  <2>3. ASSUME NEW t \in Coroutines, AppendTime(t)
        PROVE  Window!Grant
    BY <2>3 DEF AppendTime, Placed, Window!Grant
  <2>4. CASE Expire
    BY <2>4 DEF Expire, Window!Expire, Window!Next
  <2>5. CASE UNCHANGED limiterVars
    BY <2>5 DEF limiterVars
  <2> QED
    BY <2>1, <2>2, <2>3, <2>4, <2>5 DEF LimiterNext, CoroutineStep, Window!Next
<1>3. LimiterInit => LimiterInv
  BY LimiterInitInv
<1>4. LimiterInv /\ [LimiterNext]_limiterVars => LimiterInv'
  BY LimiterStepInv
<1> QED
  BY <1>1, <1>2, <1>3, <1>4, PTL DEF LimiterSpec, ImplementsWindow, Window!Spec

-----------------------------------------------------------------------------
(* The wrapper and its keys.                                               *)

Benches == {"no", "minute", "hour"}

(* The scan of get_key ends at an available key, if there is one.          *)
LEMMA NextIndexIsAvailable ==
    ASSUME NEW cool, Available(cool) # {}, index \in 1..Len(Keys)
    PROVE  NextIndex(cool) \in Available(cool)
<1> DEFINE A == Available(cool)
           T == {Offset(i) : i \in A}
           R == OpToRel(<, Nat)
<1>1. A \subseteq 1..Len(Keys) /\ Len(Keys) \in Nat
  BY RotationAssumption DEF Available
<1>2. \A i \in A : Offset(i) \in Nat
  BY <1>1 DEF Offset
<1>3. T \subseteq Nat /\ T # {}
  BY <1>2
<1>4. PICK x \in T : \A y \in T : ~(<<y, x>> \in R)
  <2> HIDE DEF T, R
  <2>1. IsWellFoundedOn(R, Nat)
    BY NatLessThanWellFounded DEF R
  <2> QED
    BY <1>3, <2>1, WFMin
<1>5. \A y \in T : ~(y < x)
  BY <1>3, <1>4 DEF OpToRel
<1>6. PICK i \in A : x = Offset(i)
  OBVIOUS
<1>7. \A j \in A : Offset(i) <= Offset(j)
  <2> SUFFICES ASSUME NEW j \in A
               PROVE  Offset(i) <= Offset(j)
    OBVIOUS
  <2>1. Offset(j) \in T
    OBVIOUS
  <2>2. ~(Offset(j) < Offset(i))
    BY <1>5, <1>6, <2>1
  <2>3. Offset(i) \in Nat /\ Offset(j) \in Nat
    BY <1>2
  <2> HIDE DEF A, T
  <2> QED
    BY <2>2, <2>3
<1>8. \E k \in A : \A j \in A : Offset(k) <= Offset(j)
  BY <1>7
<1> HIDE DEF A
<1>9. (CHOOSE k \in A : \A j \in A : Offset(k) <= Offset(j)) \in A
  BY <1>8
<1> QED
  BY <1>9 DEF NextIndex, A

LEMMA AfterStaysInPool ==
    ASSUME NEW i \in 1..Len(Keys)
    PROVE  After(i) \in 1..Len(Keys)
BY RotationAssumption DEF After

(* A task takes a key that is available and a slot of that key, or none.   *)
LEMMA TakesFreshKey ==
    ASSUME TypeOK, NEW t \in Tasks, NEW cool, TakeKey(t, cool)
    PROVE  \/ /\ pc' = [pc EXCEPT ![t] = "slot2"]
              /\ current' \in KeySet
              /\ cool[current'] = "no"
              /\ charged' = [charged EXCEPT ![t] = current']
              /\ index' \in 1..Len(Keys)
           \/ /\ pc' = [pc EXCEPT ![t] = "nokey"]
              /\ UNCHANGED <<current, charged, index>>
<1>1. CASE Available(cool) = {}
  BY <1>1 DEF TakeKey, Go
<1>2. CASE Available(cool) # {}
  <2> DEFINE i == NextIndex(cool)
  <2>1. i \in 1..Len(Keys) /\ cool[Keys[i]] = "no"
    BY <1>2, NextIndexIsAvailable DEF TypeOK, Available
  <2> HIDE DEF i
  <2>2. After(i) \in 1..Len(Keys)
    BY <2>1, AfterStaysInPool
  <2>3. /\ current' = Keys[i]
        /\ charged' = [charged EXCEPT ![t] = Keys[i]]
        /\ index' = After(i)
        /\ pc' = [pc EXCEPT ![t] = "slot2"]
    BY <1>2 DEF TakeKey, Go, i
  <2> QED
    BY <2>1, <2>2, <2>3 DEF KeySet
<1> QED
  BY <1>1, <1>2

LEMMA InitType == Init => TypeOK
<1> SUFFICES ASSUME Init
             PROVE  TypeOK
  OBVIOUS
<1>1. 1 \in 1..Len(Keys)
  BY RotationAssumption
<1>2. Keys[1] \in KeySet
  BY <1>1 DEF KeySet
<1>3. After(1) \in 1..Len(Keys)
  BY <1>1, AfterStaysInPool
<1> QED
  BY <1>2, <1>3, RotationAssumption DEF Init, TypeOK, Pc

LEMMA StepType == TypeOK /\ [Next]_vars => TypeOK'
<1> SUFFICES ASSUME TypeOK, [Next]_vars
             PROVE  TypeOK'
  OBVIOUS
<1> USE RotationAssumption DEF TypeOK, Pc
<1>1. ASSUME NEW t \in Tasks, Invoke(t)
      PROVE  TypeOK'
  BY <1>1 DEF Invoke, Go
<1>2. ASSUME NEW t \in Tasks, Send(t)
      PROVE  TypeOK'
  BY <1>2 DEF Send, Go
<1>3. ASSUME NEW t \in Tasks, NEW bench \in {"minute", "hour"}, KeyError(t, bench)
      PROVE  TypeOK'
  <2>1. cooling' \in [KeySet -> {"no", "minute", "hour"}]
    BY <1>3 DEF KeyError
  <2>2. TakeKey(t, cooling')
    BY <1>3 DEF KeyError
  <2>3. /\ pc' \in [Tasks -> Pc] /\ current' \in KeySet
        /\ charged' \in [Tasks -> KeySet] /\ index' \in 1..Len(Keys)
    BY <2>2, TakesFreshKey
  <2> QED
    BY <1>3, <2>1, <2>3 DEF KeyError
<1>4. ASSUME NEW t \in Tasks, FindKey(t)
      PROVE  TypeOK'
  <2>1. TakeKey(t, cooling)
    BY <1>4 DEF FindKey
  <2>2. /\ pc' \in [Tasks -> Pc] /\ current' \in KeySet
        /\ charged' \in [Tasks -> KeySet] /\ index' \in 1..Len(Keys)
    BY <2>1, TakesFreshKey
  <2> QED
    BY <1>4, <2>2 DEF FindKey
<1>5. ASSUME NEW t \in Tasks, ServerError(t)
      PROVE  TypeOK'
  BY <1>5 DEF ServerError, Go
<1>6. ASSUME NEW t \in Tasks, Return(t) \/ Abandon(t)
      PROVE  TypeOK'
  BY <1>6 DEF Return, Abandon, Go
<1>7. ASSUME NEW k \in KeySet, Thaw(k)
      PROVE  TypeOK'
  BY <1>7 DEF Thaw
<1>8. CASE UNCHANGED vars
  BY <1>8 DEF vars
<1> QED
  BY <1>1, <1>2, <1>3, <1>4, <1>5, <1>6, <1>7, <1>8 DEF Next, TaskStep

(***************************************************************************)
(* The key of a retry is not cooling down when it is chosen, and the slot  *)
(* is taken from its bucket, however many callers share the wrapper.       *)
(***************************************************************************)
THEOREM RetriesAreFresh == Spec => RetryKeyIsFresh
<1> DEFINE Fresh == \A t \in Tasks :
         pc[t] \in {"calling", "nokey"} /\ pc'[t] = "slot2"
           => cooling'[current'] = "no" /\ charged'[t] = current'
<1>1. TypeOK /\ [Next]_vars => [Fresh]_vars
  <2> SUFFICES ASSUME TypeOK, [Next]_vars, NEW u \in Tasks,
                      pc[u] \in {"calling", "nokey"}, pc'[u] = "slot2"
               PROVE  cooling'[current'] = "no" /\ charged'[u] = current'
    OBVIOUS
  <2> USE DEF TypeOK, Pc
  <2>1. ASSUME NEW t \in Tasks, NEW bench, KeyError(t, bench)
        PROVE  cooling'[current'] = "no" /\ charged'[u] = current'
    <3>1. TakeKey(t, cooling')
      BY <2>1 DEF KeyError
    <3> QED
      BY <3>1, TakesFreshKey
  <2>2. ASSUME NEW t \in Tasks, FindKey(t)
        PROVE  cooling'[current'] = "no" /\ charged'[u] = current'
    <3>1. TakeKey(t, cooling) /\ cooling' = cooling
      BY <2>2 DEF FindKey
    <3> QED
      BY <3>1, TakesFreshKey
  <2>3. ASSUME NEW t \in Tasks, Invoke(t) \/ Send(t) \/ ServerError(t) \/ Return(t) \/ Abandon(t)
        PROVE  FALSE
    BY <2>3 DEF Invoke, Send, ServerError, Return, Abandon, Go
  <2>4. ASSUME NEW k \in KeySet, Thaw(k)
        PROVE  FALSE
    BY <2>4 DEF Thaw
  <2>5. ~UNCHANGED vars
    BY DEF vars
  <2> QED
    BY <2>1, <2>2, <2>3, <2>4, <2>5 DEF Next, TaskStep
<1>2. TypeOK /\ [Next]_vars => TypeOK'
  BY StepType
<1>3. Init => TypeOK
  BY InitType
<1> QED
  BY <1>1, <1>2, <1>3, PTL DEF Spec, RetryKeyIsFresh

(***************************************************************************)
(* A wrapper with one caller.                                              *)
(***************************************************************************)
Charged ==
    \A t \in Tasks :
      /\ pc[t] \in {"slot", "calling", "backoff", "slot2", "calling2"}
           => charged[t] = current
      /\ pc[t] \in {"calling", "calling2"} => used[t] = current

AloneInv == TypeOK /\ Charged

LEMMA AloneStep ==
    ASSUME \A t, u \in Tasks : t = u
    PROVE  AloneInv /\ [Next]_vars => AloneInv'
<1> SUFFICES ASSUME AloneInv, [Next]_vars
             PROVE  Charged'
  BY StepType DEF AloneInv
<1> USE DEF AloneInv, TypeOK, Pc, Charged
<1>1. ASSUME NEW t \in Tasks, Invoke(t)
      PROVE  Charged'
  BY <1>1 DEF Invoke, Go
<1>2. ASSUME NEW t \in Tasks, Send(t)
      PROVE  Charged'
  BY <1>2 DEF Send, Go
<1>3. ASSUME NEW t \in Tasks, NEW bench, KeyError(t, bench)
      PROVE  Charged'
  <2>1. TakeKey(t, cooling')
    BY <1>3 DEF KeyError
  <2> QED
    BY <1>3, <2>1, TakesFreshKey DEF KeyError
<1>4. ASSUME NEW t \in Tasks, FindKey(t)
      PROVE  Charged'
  <2>1. TakeKey(t, cooling)
    BY <1>4 DEF FindKey
  <2> QED
    BY <1>4, <2>1, TakesFreshKey DEF FindKey
<1>5. ASSUME NEW t \in Tasks, ServerError(t) \/ Return(t) \/ Abandon(t)
      PROVE  Charged'
  BY <1>5 DEF ServerError, Return, Abandon, Go
<1>6. CASE UNCHANGED vars \/ \E k \in KeySet : Thaw(k)
  BY <1>6 DEF vars, Thaw
<1> QED
  BY <1>1, <1>2, <1>3, <1>4, <1>5, <1>6 DEF Next, TaskStep

LEMMA AloneInit == Init => AloneInv
  BY InitType DEF Init, AloneInv, Charged

(***************************************************************************)
(* With one caller, the key a request goes out with is the one whose       *)
(* bucket gave the slot.                                                   *)
(***************************************************************************)
THEOREM AloneChargesUsedKey ==
    ASSUME \A t, u \in Tasks : t = u
    PROVE  Spec => []ChargesUsedKey
<1>1. AloneInv => ChargesUsedKey
  BY DEF AloneInv, Charged, ChargesUsedKey
<1>2. AloneInv /\ [Next]_vars => AloneInv'
  BY AloneStep
<1> QED
  BY <1>1, <1>2, AloneInit, PTL DEF Spec

(***************************************************************************)
(* With one caller, a failure benches the key of the request that failed.  *)
(***************************************************************************)
THEOREM AloneBenchesFailedKey ==
    ASSUME \A t, u \in Tasks : t = u
    PROVE  Spec => BenchesFailedKey
<1> DEFINE Own == \A t \in Tasks : Failing(t) =>
         \A k \in KeySet : cooling'[k] # cooling[k] => k = used[t]
<1>1. AloneInv /\ [Next]_vars => [Own]_vars
  <2> SUFFICES ASSUME AloneInv, [Next]_vars, NEW u \in Tasks, Failing(u),
                      NEW k \in KeySet, cooling'[k] # cooling[k]
               PROVE  k = used[u]
    OBVIOUS
  <2> USE DEF AloneInv, TypeOK, Pc, Failing
  <2>1. ASSUME NEW t \in Tasks, NEW bench, KeyError(t, bench)
        PROVE  k = used[u]
    <3>1. k = current
      BY <2>1 DEF KeyError
    <3> QED
      BY <3>1 DEF Charged
  <2>2. ASSUME NEW t \in Tasks, Invoke(t) \/ Send(t) \/ FindKey(t) \/ ServerError(t) \/ Return(t) \/ Abandon(t)
        PROVE  FALSE
    BY <2>2 DEF Invoke, Send, FindKey, ServerError, Return, Abandon, Go
  <2>3. ASSUME NEW j \in KeySet, Thaw(j)
        PROVE  FALSE
    BY <2>3 DEF Thaw
  <2>4. ~UNCHANGED vars
    BY DEF vars
  <2> QED
    BY <2>1, <2>2, <2>3, <2>4 DEF Next, TaskStep
<1>2. AloneInv /\ [Next]_vars => AloneInv'
  BY AloneStep
<1> QED
  BY <1>1, <1>2, AloneInit, PTL DEF Spec, BenchesFailedKey
=============================================================================
