------------------------------ MODULE EventBus ------------------------------
(***************************************************************************)
(* The event bus between the session and the screen                        *)
(* (src/src/agent/events.py), with its one subscriber, the application.    *)
(* An event that finds the subscriber's queue full is dropped.             *)
(***************************************************************************)
EXTENDS Integers, Sequences

CONSTANT QueueSize   \* maxsize of a subscriber's queue, 1000 in the code

ASSUME QueueAssumption == QueueSize \in Nat \ {0}

VARIABLES
    queue,   \* the subscriber's queue
    lost     \* an event was dropped

\* Mutant: one event more than the queue holds.
Overfull(es) ==
    LET room == QueueSize + 1 - Len(queue)
    IN IF Len(es) <= room
       THEN queue' = queue \o es /\ UNCHANGED lost
       ELSE queue' = queue \o SubSeq(es, 1, room) /\ lost' = TRUE

(* EventBus.emit and emit_sync of the events es, one after the other.      *)
Emit(es) ==
    LET room == QueueSize - Len(queue)
    IN IF Len(es) <= room
       THEN queue' = queue \o es /\ UNCHANGED lost
       ELSE queue' = queue \o SubSeq(es, 1, room) /\ lost' = TRUE

=============================================================================
