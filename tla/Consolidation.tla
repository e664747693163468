---------------------------- MODULE Consolidation ----------------------------
(***************************************************************************)
(* The memory of an engagement: sessions append entries to session.jsonl   *)
(* (src/src/agent/memory/session_memory.py), and a dream condenses the new *)
(* ones into consolidated.md under a lock file                             *)
(* (src/src/agent/memory/auto_dream.py).  Sessions of several processes    *)
(* share the three files; each process runs one dream at a time.           *)
(*                                                                         *)
(* An entry is its timestamp, and no two readings of the clock are equal.  *)
(* The model that merges the document and the new entries drops none.      *)
(* Writing a file may fail, and may then have emptied it; setting the time *)
(* of one does not fail.                                                   *)
(***************************************************************************)
EXTENDS Integers, FiniteSets

CONSTANTS
    Processes,   \* processes with a session of the engagement
    MaxTime      \* bound: entries, and dreams begun, in a behaviour

ASSUME MaxTimeAssumption == MaxTime \in Nat

VARIABLES
    alive,      \* processes that have not died
    now,        \* the latest timestamp
    session,    \* entries in session.jsonl
    document,   \* entries whose learnings are in consolidated.md
    lock,       \* the lock file: who it names, its mtime, an hour old or not
    dream       \* the dream of each process

vars == <<alive, now, session, document, lock, dream>>

(* prior: what try_acquire returned, None being ~locked.  saw and alone    *)
(* are auxiliary: the lock file as it was looked at, and whether no other  *)
(* dream was under way since.                                              *)
Awake == [pc |-> "none", locked |-> FALSE, force |-> FALSE, prior |-> 0,
          taken |-> {}, existing |-> {}, loaded |-> 0, saw |-> {}, alone |-> TRUE]

UnderWay(p) == dream[p].pc # "none"

At(p, pc) == p \in alive /\ dream[p].pc = pc

Now == now' = now + 1

Sleeps(p, d) == dream' = [dream EXCEPT ![p] = d]

-----------------------------------------------------------------------------
(* SessionMemory.store.                                                    *)
Store ==
    /\ alive # {}
    /\ now < MaxTime
    /\ Now
    /\ session' = session \cup {now'}
    /\ UNCHANGED <<alive, document, lock, dream>>

\* Mutant: the age is not asked for.
NeverStale == lock.holder # {} /\ lock.holder \subseteq alive

\* Mutant: the age is compared the wrong way.
RefusesOld == lock.holder # {} /\ lock.holder \subseteq alive /\ lock.stale

(* The first half of try_acquire: a lock that names a living process and   *)
(* is younger than an hour is respected, its own process's included.       *)
Refuses == lock.holder # {} /\ lock.holder \subseteq alive /\ ~lock.stale

(* Whoever is under way when p begins is not alone any more.               *)
Joined(p, d) ==
    dream' = [q \in Processes |->
                 IF q = p THEN [d EXCEPT !.alone = \A r \in Processes : ~UnderWay(r)]
                 ELSE IF UnderWay(q) THEN [dream[q] EXCEPT !.alone = FALSE]
                 ELSE dream[q]]

(* consolidate begins: with force, as /dream asks for, it goes on without  *)
(* the lock.                                                               *)
Look(p) ==
    /\ At(p, "none")
    /\ now < MaxTime
    /\ \E force \in BOOLEAN :
         \/ /\ ~Refuses
            /\ Joined(p, [Awake EXCEPT !.pc = "claim", !.force = force, !.locked = TRUE,
                                       !.prior = lock.time, !.saw = {lock}])
         \/ /\ Refuses
            /\ force
            /\ Joined(p, [Awake EXCEPT !.pc = "load", !.force = TRUE])
    /\ UNCHANGED <<alive, now, session, document, lock>>

(* The second half: the file is written over, whoever wrote it since.      *)
Claim(p) ==
    /\ At(p, "claim")
    /\ Now
    /\ lock' = [holder |-> {p}, time |-> now', stale |-> FALSE]
    /\ Sleeps(p, [dream[p] EXCEPT !.pc = "load"])
    /\ UNCHANGED <<alive, session, document>>

(* The file is not opened, or emptied and not written: the dream has no    *)
(* lock, and goes on only with force.                                      *)
ClaimFails(p) ==
    /\ At(p, "claim")
    /\ Now
    /\ lock' \in {lock, [holder |-> {}, time |-> now', stale |-> FALSE]}
    /\ Sleeps(p, IF dream[p].force
                   THEN [dream[p] EXCEPT !.pc = "load", !.locked = FALSE, !.prior = 0]
                   ELSE Awake)
    /\ UNCHANGED <<alive, session, document>>

(* Without new entries the dream is over, unless forced.                   *)
Load(p) ==
    /\ At(p, "load")
    /\ LET new == {s \in session : s > dream[p].prior}
           goOn == session # {} /\ (new # {} \/ dream[p].force)
       IN Sleeps(p, [dream[p] EXCEPT !.pc = IF goOn THEN "ask" ELSE "release",
                                     !.taken = new, !.existing = document, !.loaded = now])
    /\ UNCHANGED <<alive, now, session, document, lock>>

(* The model has answered.                                                 *)
Write(p) ==
    /\ At(p, "ask")
    /\ document' = dream[p].existing \cup dream[p].taken
    /\ Sleeps(p, [dream[p] EXCEPT !.pc = "release"])
    /\ UNCHANGED <<alive, now, session, lock>>

(* That the file cannot be opened is passed over.                          *)
Release(p) ==
    /\ At(p, "release")
    /\ Now
    /\ lock' \in {lock, [holder |-> {}, time |-> now', stale |-> FALSE]}
    /\ Sleeps(p, Awake)
    /\ UNCHANGED <<alive, session, document>>

\* Mutant: no rollback.
FailForgetful(p) ==
    /\ p \in alive
    /\ dream[p].pc \in {"load", "ask"}
    /\ Sleeps(p, Awake)
    /\ UNCHANGED <<alive, now, session, document, lock>>

(* The time of the lock file is restored and what is in it left, so that   *)
(* it still names p.                                                       *)
Rollback(p) ==
    lock' = IF dream[p].locked THEN [lock EXCEPT !.time = dream[p].prior] ELSE lock

(* An exception before the document is touched.                            *)
Fail(p) ==
    /\ p \in alive
    /\ dream[p].pc \in {"load", "ask"}
    /\ Rollback(p)
    /\ Sleeps(p, Awake)
    /\ UNCHANGED <<alive, now, session, document>>

(* The writing of the document ends early.  It was emptied first, and a    *)
(* part of the new text counts as nothing.                                 *)
Torn(p) == At(p, "ask") /\ document' = {}

(* An exception while the document is written: the lock is rolled back,    *)
(* the document is not.                                                    *)
WriteFails(p) ==
    /\ Torn(p)
    /\ Rollback(p)
    /\ Sleeps(p, Awake)
    /\ UNCHANGED <<alive, now, session>>

(* The coroutine is cancelled while it waits for the model, which is no    *)
(* exception of the kind that is caught.                                   *)
Cancel(p) ==
    /\ At(p, "ask")
    /\ Sleeps(p, Awake)
    /\ UNCHANGED <<alive, now, session, document, lock>>

(* The process dies, perhaps while the document is being written.          *)
Crash(p) ==
    /\ p \in alive
    /\ alive' = alive \ {p}
    /\ \/ UNCHANGED document
       \/ Torn(p)
    /\ Sleeps(p, Awake)
    /\ UNCHANGED <<now, session, lock>>

(* An hour goes by after the time written in the lock file.                *)
Age ==
    /\ lock.holder # {}
    /\ ~lock.stale
    /\ lock' = [lock EXCEPT !.stale = TRUE]
    /\ UNCHANGED <<alive, now, session, document, dream>>

-----------------------------------------------------------------------------
Init ==
    /\ alive = Processes
    /\ now = 0
    /\ session = {}
    /\ document = {}
    /\ lock = [holder |-> {}, time |-> 0, stale |-> FALSE]
    /\ dream = [p \in Processes |-> Awake]

Next ==
    \/ Store
    \/ \E p \in Processes :
         \/ Look(p) \/ Claim(p) \/ Load(p) \/ Write(p) \/ Release(p)
         \/ ClaimFails(p) \/ Fail(p) \/ WriteFails(p) \/ Cancel(p) \/ Crash(p)
    \/ Age

(* Time passes; a model need not answer and nobody has to dream.           *)
Spec == Init /\ [][Next]_vars /\ WF_vars(Age)

-----------------------------------------------------------------------------
(* The entries a dream that got the lock is about to condense.             *)
Pending(p) ==
    IF ~dream[p].locked THEN {}
    ELSE IF dream[p].pc \in {"claim", "load"} THEN {s \in session : s > dream[p].prior}
    ELSE IF dream[p].pc = "ask" THEN dream[p].taken
    ELSE {}

(* The entries that are condensed, will be taken by the next dream, or are *)
(* in the hands of one.                                                    *)
Safe ==
    document \cup {s \in session : s > lock.time} \cup UNION {Pending(p) : p \in Processes}

(* A dream that has the lock to itself loses an entry only if it is stored *)
(* after the dream has read the log and before it releases the lock, if    *)
(* the dream is cancelled or its process dies, or if its claim cannot be   *)
(* written.  One that fails loses nothing it was about to condense, and    *)
(* what was condensed before only if it fails while writing the document;  *)
(* one that finds nothing loses none (auto_dream.py:84, :154, :178).       *)
KeepsEntries ==
    [][\A s \in Safe \ Safe' : \E p \in Processes :
          /\ UnderWay(p) /\ dream'[p] # dream[p]
          /\ \/ ~dream[p].alone
             \/ dream[p].pc = "release" /\ s > dream[p].loaded
             \/ dream'[p] = Awake /\ (Crash(p) \/ Cancel(p))
             \/ ClaimFails(p)
             \/ WriteFails(p) /\ s \in document]_vars

(* A dream takes the lock from one that is under way and not an hour old   *)
(* only if the lock file has changed since it looked at it: whoever looks  *)
(* after another has claimed keeps out (auto_dream.py:60).                 *)
ClaimsFreeLock ==
    [][\A p, q \in Processes :
          /\ p # q
          /\ dream[p].pc = "claim" /\ dream'[p].pc = "load"
          /\ UnderWay(q) /\ dream[q].pc # "claim" /\ lock.holder = {q} /\ ~lock.stale
          => dream[p].saw # {lock}]_vars

(* A lock that nobody dreams under keeps nobody out for ever: the one that *)
(* a failed, a cancelled or a dead dream has left behind can be taken      *)
(* (auto_dream.py:69).                                                     *)
RefusalEnds ==
    Refuses /\ (\A p \in Processes : ~UnderWay(p))
        ~> ~Refuses \/ \E p \in Processes : UnderWay(p)
=============================================================================
