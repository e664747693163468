---------------------------- MODULE KeyRotation ----------------------------
(***************************************************************************)
(* RateLimitedLLM (src/src/utils/rate_limiter.py) and the pool of API keys *)
(* it draws from (src/src/utils/key_pool.py), for one provider and one     *)
(* wrapper that several coroutines share, as the workers of a tool do.     *)
(*                                                                         *)
(* A task runs from one await to the next:                                 *)
(*   out       not calling                                                 *)
(*   slot      awaiting a slot of the limiter for the current key          *)
(*   calling   awaiting the model                                          *)
(*   backoff   sleeping after a server error                               *)
(*   nokey     sleeping because every key is cooling down                  *)
(*   slot2     awaiting a slot for the new key                             *)
(*   calling2  awaiting the model on the one retry with the new key        *)
(***************************************************************************)
EXTENDS Integers, Sequences

CONSTANTS
    Tasks,
    Keys,              \* the keys of the pool, in order: a sequence
    MaxServerRetries,  \* max_server_retries, 2 in the code
    MaxCalls           \* bound: calls of the wrapper in a behaviour

ASSUME RotationAssumption ==
    /\ Len(Keys) \in Nat \ {0}
    /\ \A i, j \in 1..Len(Keys) : Keys[i] = Keys[j] => i = j
    /\ MaxServerRetries \in Nat
    /\ MaxCalls \in Nat

KeySet == {Keys[i] : i \in 1..Len(Keys)}

VARIABLES
    pc,
    current,   \* _current_key: the key the underlying model is set to
    index,     \* _indices[provider], counted from 1
    cooling,   \* how each key is benched: "no", "minute" (429), "hour" (401/402)
    charged,   \* the key whose bucket each task took a slot from
    used,      \* the key each task's last request went out with
    retries,   \* server_err_attempt
    calls      \* calls started

vars == <<pc, current, index, cooling, charged, used, retries, calls>>

Pc == {"out", "slot", "calling", "backoff", "nokey", "slot2", "calling2"}

TypeOK ==
    /\ pc \in [Tasks -> Pc]
    /\ current \in KeySet
    /\ index \in 1..Len(Keys)
    /\ cooling \in [KeySet -> {"no", "minute", "hour"}]
    /\ charged \in [Tasks -> KeySet]
    /\ used \in [Tasks -> KeySet]
    /\ retries \in [Tasks -> 0..MaxServerRetries]
    /\ calls \in 0..MaxCalls

After(i) == IF i = Len(Keys) THEN 1 ELSE i + 1

(* get_worker_llm takes the first key and sets it on the new wrapper.      *)
Init ==
    /\ pc = [t \in Tasks |-> "out"]
    /\ current = Keys[1]
    /\ index = After(1)
    /\ cooling = [k \in KeySet |-> "no"]
    /\ charged = [t \in Tasks |-> Keys[1]]
    /\ used = [t \in Tasks |-> Keys[1]]
    /\ retries = [t \in Tasks |-> 0]
    /\ calls = 0

Go(t, to) == pc' = [pc EXCEPT ![t] = to]

(***************************************************************************)
(* get_key: the first key at or after the index that is not cooling down.  *)
(***************************************************************************)
\* Mutant: the scan does not ask whether a key is cooling down.
AvailableAny(cool) == 1..Len(Keys)

Available(cool) == {i \in 1..Len(Keys) : cool[Keys[i]] = "no"}

Offset(i) == IF i < index THEN i - index + Len(Keys) ELSE i - index

NextIndex(cool) ==
    CHOOSE i \in Available(cool) :
      \A j \in Available(cool) : Offset(i) <= Offset(j)

TakeKey(t, cool) ==
    IF Available(cool) # {}
      THEN LET i == NextIndex(cool) IN
             /\ current' = Keys[i]
             /\ charged' = [charged EXCEPT ![t] = Keys[i]]
             /\ index' = After(i)
             /\ Go(t, "slot2")
      ELSE /\ Go(t, "nokey")
           /\ UNCHANGED <<current, charged, index>>

(***************************************************************************)
(* ainvoke.                                                                *)
(***************************************************************************)
Invoke(t) ==
    /\ pc[t] = "out"
    /\ calls < MaxCalls
    /\ calls' = calls + 1
    /\ charged' = [charged EXCEPT ![t] = current]
    /\ retries' = [retries EXCEPT ![t] = 0]
    /\ Go(t, "slot")
    /\ UNCHANGED <<current, index, cooling, used>>

(* The request goes out with the key the shared model is set to now.       *)
Send(t) ==
    /\ \/ pc[t] = "slot" /\ Go(t, "calling")
       \/ pc[t] = "backoff" /\ Go(t, "calling")
       \/ pc[t] = "slot2" /\ Go(t, "calling2")
    /\ used' = [used EXCEPT ![t] = current]
    /\ UNCHANGED <<current, index, cooling, charged, retries, calls>>

(* A 429 or 401/402: the wrapper's current key is benched, a new one taken *)
(* and set on the shared model.                                            *)
KeyError(t, bench) ==
    /\ pc[t] = "calling"
    /\ cooling' = [cooling EXCEPT ![current] = bench]
    /\ TakeKey(t, cooling')
    /\ UNCHANGED <<used, retries, calls>>

FindKey(t) ==
    /\ pc[t] = "nokey"
    /\ Available(cooling) # {}
    /\ TakeKey(t, cooling)
    /\ UNCHANGED <<cooling, used, retries, calls>>

\* Mutant: server errors are not counted.
ServerErrorUncounted(t) ==
    /\ pc[t] = "calling"
    /\ retries[t] < MaxServerRetries
    /\ Go(t, "backoff")
    /\ UNCHANGED <<current, index, cooling, charged, used, retries, calls>>

ServerError(t) ==
    /\ pc[t] = "calling"
    /\ retries[t] < MaxServerRetries
    /\ retries' = [retries EXCEPT ![t] = @ + 1]
    /\ Go(t, "backoff")
    /\ UNCHANGED <<current, index, cooling, charged, used, calls>>

(* The model answers, or the error is raised to the worker.                *)
Return(t) ==
    /\ pc[t] \in {"calling", "calling2"}
    /\ Go(t, "out")
    /\ UNCHANGED <<current, index, cooling, charged, used, retries, calls>>

(* A worker's timeout cancels the call at any of its awaits, or the        *)
(* limiter raises: no handler of ainvoke catches either.                   *)
Abandon(t) ==
    /\ pc[t] # "out"
    /\ Go(t, "out")
    /\ UNCHANGED <<current, index, cooling, charged, used, retries, calls>>

(* A cooldown of a key runs out.                                           *)
Thaw(k) ==
    /\ cooling[k] # "no"
    /\ cooling' = [cooling EXCEPT ![k] = "no"]
    /\ UNCHANGED <<pc, current, index, charged, used, retries, calls>>

TaskStep(t) ==
    \/ Send(t)
    \/ KeyError(t, "minute") \/ KeyError(t, "hour")
    \/ FindKey(t)
    \/ ServerError(t)
    \/ Return(t)

Next ==
    \/ \E t \in Tasks : Invoke(t) \/ TaskStep(t) \/ Abandon(t)
    \/ \E k \in KeySet : Thaw(k)

(* Slots are granted, the model answers or fails, sleeps and cooldowns end. *)
Spec ==
    /\ Init
    /\ [][Next]_vars
    /\ \A t \in Tasks : WF_vars(TaskStep(t))
    /\ \A k \in KeySet : WF_vars(Thaw(k))

-----------------------------------------------------------------------------
Failing(t) == pc[t] = "calling" /\ pc'[t] \in {"nokey", "slot2"}

(***************************************************************************)
(* A 429 or an auth error benches the key of the request that failed, and  *)
(* no other.                                                               *)
(***************************************************************************)
BenchesFailedKey ==
    [][\A t \in Tasks : Failing(t) =>
         \A k \in KeySet : cooling'[k] # cooling[k] => k = used[t]]_vars

(***************************************************************************)
(* A request goes out with the key whose bucket was charged for it.        *)
(***************************************************************************)
ChargesUsedKey ==
    \A t \in Tasks : pc[t] \in {"calling", "calling2"} => used[t] = charged[t]

(***************************************************************************)
(* After a failure the caller's retry goes out with a key that is not      *)
(* cooling down, unless another caller has failed in the meantime.         *)
(***************************************************************************)
RetryKeyIsFresh ==
    [][\A t \in Tasks :
         pc[t] \in {"calling", "nokey"} /\ pc'[t] = "slot2"
           => cooling'[current'] = "no" /\ charged'[t] = current']_vars

(***************************************************************************)
(* Every call of the wrapper returns or raises.                            *)
(***************************************************************************)
CallsReturn == \A t \in Tasks : pc[t] # "out" ~> pc[t] = "out"
=============================================================================
