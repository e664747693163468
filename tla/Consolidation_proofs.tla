------------------------ MODULE Consolidation_proofs ------------------------
(***************************************************************************)
(* For any number of processes: what a dream that is alone with the lock   *)
(* may lose (KeepsEntries), and when a lock may be taken from another      *)
(* (ClaimsFreeLock).                                                       *)
(*                                                                         *)
(* Alone is what carries the proof: as long as no other dream is under     *)
(* way, nobody moves the lock's time or writes the document, so what a     *)
(* dream remembers of both is still true when it acts on it.               *)
(***************************************************************************)
EXTENDS Consolidation, TLAPS

Locks == [holder : SUBSET Processes, time : Nat, stale : BOOLEAN]

Dreams ==
    [pc : {"none", "claim", "load", "ask", "release"}, locked : BOOLEAN, force : BOOLEAN,
     prior : Nat, taken : SUBSET Nat, existing : SUBSET Nat, loaded : Nat,
     saw : SUBSET Locks, alone : BOOLEAN]

Typed ==
    /\ alive \subseteq Processes
    /\ now \in Nat
    /\ session \subseteq Nat
    /\ document \subseteq Nat
    /\ lock \in Locks
    /\ dream \in [Processes -> Dreams]

\* Nothing is dated later than now.
Dated ==
    /\ lock.time <= now
    /\ \A s \in session : s <= now
    /\ \A p \in Processes : dream[p].prior <= now

\* The dead do not dream.
Living == \A p \in Processes : UnderWay(p) => p \in alive

\* A dream about to claim saw a lock that was free, old, or of a dead process.
Looked ==
    \A p \in Processes : dream[p].pc = "claim" => dream[p].locked /\
        \E l \in Locks : /\ dream[p].saw = {l}
                         /\ l.holder = {} \/ l.stale \/ ~(l.holder \subseteq alive)

\* One that is alone is the only one.
Solitary ==
    \A p, q \in Processes : p # q /\ UnderWay(p) /\ dream[p].alone => ~UnderWay(q)

\* What a dream has taken is in the log and later than its lock's prior time.
Took ==
    \A p \in Processes : dream[p].pc = "ask" =>
        \A s \in dream[p].taken : s \in session /\ s > dream[p].prior

Unlocked == \A p \in Processes : ~dream[p].locked => dream[p].prior = 0

\* The entries between the lock's time and the reading of the log.
Read(p) == {s \in session : lock.time < s /\ s <= dream[p].loaded}

\* What a dream that is alone remembers is still so.
Remembered ==
    \A p \in Processes : UnderWay(p) /\ dream[p].alone =>
        /\ dream[p].prior <= lock.time
        /\ dream[p].pc = "claim" => lock.time = dream[p].prior
        /\ dream[p].pc = "ask" => document = dream[p].existing /\ Read(p) \subseteq dream[p].taken
        /\ dream[p].pc = "release" => Read(p) \subseteq document
        /\ dream[p].pc \in {"ask", "release"} => dream[p].loaded <= now

IInv ==
    Typed /\ Dated /\ Living /\ Looked /\ Solitary /\ Took /\ Unlocked /\ Remembered

-----------------------------------------------------------------------------
(* What the types of a dream and of the lock file say, field by field.     *)
LEMMA DreamFields ==
    ASSUME NEW d \in Dreams
    PROVE  /\ d.pc \in {"none", "claim", "load", "ask", "release"}
           /\ d.locked \in BOOLEAN /\ d.force \in BOOLEAN /\ d.alone \in BOOLEAN
           /\ d.prior \in Nat /\ d.loaded \in Nat
           /\ d.taken \subseteq Nat /\ d.existing \subseteq Nat
           /\ d.saw \subseteq Locks
  BY Zenon DEF Dreams

LEMMA LockFields ==
    ASSUME NEW l \in Locks
    PROVE  l.holder \subseteq Processes /\ l.time \in Nat /\ l.stale \in BOOLEAN
  BY DEF Locks

LEMMA AwakeFields ==
    /\ Awake \in Dreams
    /\ Awake.pc = "none" /\ Awake.prior = 0 /\ ~Awake.locked
  BY DEF Awake, Dreams

(* An action of p leaves the other dreams alone.                           *)
LEMMA OnlyOneMoves ==
    ASSUME Typed, NEW p \in Processes, NEW d \in Dreams, Sleeps(p, d)
    PROVE  /\ dream' \in [Processes -> Dreams]
           /\ dream'[p] = d
           /\ \A q \in Processes : q # p => dream'[q] = dream[q]
  BY DEF Typed, Sleeps

-----------------------------------------------------------------------------
(* While p is under way, and afterwards if it was, no other dream is alone: *)
(* so an action of p has to remember nothing for the others.               *)
LEMMA NobodyElseAlone ==
    ASSUME IInv, NEW p \in Processes, UnderWay(p), NEW q \in Processes, q # p
    PROVE  ~(UnderWay(q) /\ dream[q].alone)
  BY DEF IInv, Solitary

LEMMA InitInv == Init => IInv
  <1> SUFFICES ASSUME Init PROVE IInv
    OBVIOUS
  <1>1. \A p \in Processes : dream[p] = Awake
    BY DEF Init
  <1>2. Typed
    BY AwakeFields DEF Init, Typed, Locks
  <1>3. Dated
    BY <1>1, AwakeFields DEF Init, Dated
  <1>4. \A p \in Processes : dream[p].pc = "none"
    BY <1>1, AwakeFields
  <1>5. Living /\ Looked /\ Solitary /\ Took /\ Remembered
    BY <1>4 DEF Living, Looked, Solitary, Took, Remembered, UnderWay
  <1>6. Unlocked
    BY <1>1, AwakeFields DEF Unlocked
  <1> QED
    BY <1>2, <1>3, <1>5, <1>6 DEF IInv

LEMMA StoreInv ==
    ASSUME IInv, Store
    PROVE  IInv'
  <1> USE DEF Store
  <1>1. now \in Nat /\ now' = now + 1 /\ session' = session \cup {now'} /\ UNCHANGED <<alive, document, lock, dream>>
    BY DEF IInv, Typed, Now
  <1>2. Typed'
    BY <1>1 DEF IInv, Typed
  <1>3. lock.time \in Nat /\ \A p \in Processes : dream[p].prior \in Nat /\ dream[p].loaded \in Nat
    BY DreamFields, LockFields DEF IInv, Typed
  <1>4. Dated'
    <2>1. \A s \in session : s \in Nat /\ s <= now
      BY DEF IInv, Typed, Dated
    <2>2. \A s \in session' : s <= now'
      BY <1>1, <2>1
    <2>3. lock'.time <= now'
      BY <1>1, <1>3 DEF IInv, Dated
    <2>4. \A p \in Processes : dream'[p].prior <= now'
      BY <1>1, <1>3 DEF IInv, Dated
    <2> QED
      BY <2>2, <2>3, <2>4 DEF Dated
  <1>5. Living' /\ Looked' /\ Solitary' /\ Unlocked'
    BY <1>1 DEF IInv, Living, Looked, Solitary, Unlocked, UnderWay
  <1>6. Took'
    BY <1>1 DEF IInv, Took
  <1>7. Remembered'
    <2> SUFFICES ASSUME NEW p \in Processes, UnderWay(p)', dream'[p].alone
                 PROVE  /\ dream'[p].prior <= lock'.time
                        /\ dream'[p].pc = "claim" => lock'.time = dream'[p].prior
                        /\ dream'[p].pc = "ask" => document' = dream'[p].existing /\ Read(p)' \subseteq dream'[p].taken
                        /\ dream'[p].pc = "release" => Read(p)' \subseteq document'
                        /\ dream'[p].pc \in {"ask", "release"} => dream'[p].loaded <= now'
      BY DEF Remembered
    <2>1. /\ UnderWay(p) /\ dream[p].alone /\ dream' = dream
          /\ UNCHANGED <<alive, document, lock>>
      BY <1>1 DEF UnderWay
    <2>2. dream[p].pc \in {"ask", "release"} => dream[p].loaded <= now
      BY <2>1 DEF IInv, Remembered
    <2>3. dream[p].pc \in {"ask", "release"} => Read(p)' = Read(p)
      BY <1>1, <1>3, <2>1, <2>2 DEF Read
    <2>4. dream[p].pc \in {"ask", "release"} => dream[p].loaded <= now'
      BY <1>1, <1>3, <2>2
    <2> QED
      BY <2>1, <2>3, <2>4 DEF IInv, Remembered
  <1> QED
    BY <1>2, <1>4, <1>5, <1>6, <1>7 DEF IInv

LEMMA AgeInv ==
    ASSUME IInv, Age
    PROVE  IInv'
  <1>1. UNCHANGED <<alive, now, session, document, dream>> /\ lock' \in Locks /\ lock'.time = lock.time
    BY DEF Age, IInv, Typed, Locks
  <1>2. Typed' /\ Dated'
    BY <1>1 DEF IInv, Typed, Dated
  <1>3. Living' /\ Looked' /\ Solitary' /\ Unlocked' /\ Took'
    BY <1>1 DEF IInv, Living, Looked, Solitary, Unlocked, Took, UnderWay
  <1>4. \A p \in Processes : Read(p)' = Read(p)
    BY <1>1 DEF Read
  <1>5. Remembered'
    BY <1>1, <1>4 DEF IInv, Remembered, UnderWay
  <1> QED
    BY <1>2, <1>3, <1>5 DEF IInv

(* What an action of a dream that is under way has to show: its own new    *)
(* state; the rest follows from the others' standing still.                *)
LEMMA OwnStep ==
    ASSUME IInv, NEW p \in Processes, p \in alive, UnderWay(p),
           NEW d \in Dreams, Sleeps(p, d),
           alive' = alive, session' = session, now' \in Nat, now <= now',
           document' \subseteq Nat, lock' \in Locks, lock'.time <= now',
           d.prior <= now', d.pc # "claim",
           d.alone = dream[p].alone \/ d.pc = "none",
           ~d.locked => d.prior = 0,
           d.pc = "ask" => \A s \in d.taken : s \in session /\ s > d.prior,
           d.alone /\ d.pc # "none" =>
               /\ d.prior <= lock'.time
               /\ d.pc = "ask" => /\ document' = d.existing
                                  /\ \A s \in session : lock'.time < s /\ s <= d.loaded => s \in d.taken
               /\ d.pc = "release" =>
                      \A s \in session : lock'.time < s /\ s <= d.loaded => s \in document'
               /\ d.pc \in {"ask", "release"} => d.loaded <= now'
    PROVE  IInv'
  <1>1. /\ dream' \in [Processes -> Dreams]
        /\ dream'[p] = d
        /\ \A q \in Processes : q # p => dream'[q] = dream[q]
    BY OnlyOneMoves DEF IInv
  <1>2. Typed'
    BY <1>1 DEF IInv, Typed
  <1>3. Dated'
    <2>1. \A q \in Processes : dream[q].prior \in Nat /\ dream[q].prior <= now
      BY DreamFields DEF IInv, Typed, Dated
    <2>2. \A q \in Processes : dream'[q].prior <= now'
      <3> SUFFICES ASSUME NEW q \in Processes PROVE dream'[q].prior <= now'
        OBVIOUS
      <3>1. CASE q = p
        BY <1>1, <3>1
      <3>2. CASE q # p
        BY <1>1, <2>1, <3>2 DEF IInv, Typed
      <3> QED
        BY <3>1, <3>2
    <2>3. \A s \in session : s \in Nat /\ s <= now
      BY DEF IInv, Typed, Dated
    <2>4. \A s \in session' : s <= now'
      BY <2>3 DEF IInv, Typed
    <2> QED
      BY <2>2, <2>4 DEF Dated
  <1>4. Living'
    BY <1>1 DEF IInv, Living, UnderWay
  <1>5. Looked'
    BY <1>1 DEF IInv, Looked
  <1>6. Solitary'
    BY <1>1 DEF IInv, Solitary, UnderWay
  <1>7. Took' /\ Unlocked'
    BY <1>1 DEF IInv, Took, Unlocked
  <1>8. Remembered'
    <2> SUFFICES ASSUME NEW q \in Processes, UnderWay(q)', dream'[q].alone
                 PROVE  /\ dream'[q].prior <= lock'.time
                        /\ dream'[q].pc = "claim" => lock'.time = dream'[q].prior
                        /\ dream'[q].pc = "ask" => document' = dream'[q].existing /\ Read(q)' \subseteq dream'[q].taken
                        /\ dream'[q].pc = "release" => Read(q)' \subseteq document'
                        /\ dream'[q].pc \in {"ask", "release"} => dream'[q].loaded <= now'
      BY DEF Remembered
    <2>1. q = p
      BY <1>1, NobodyElseAlone DEF UnderWay
    <2>2. d.pc # "none" /\ d.alone /\ dream'[q] = d
      BY <1>1, <2>1 DEF UnderWay
    <2>3. Read(q)' = {s \in session : lock'.time < s /\ s <= d.loaded}
      BY <2>2 DEF Read
    <2> QED
      BY <2>2, <2>3
  <1> QED
    BY <1>2, <1>3, <1>4, <1>5, <1>6, <1>7, <1>8 DEF IInv

LEMMA ClaimInv ==
    ASSUME IInv, NEW p \in Processes, Claim(p)
    PROVE  IInv'
  <1> DEFINE d == [dream[p] EXCEPT !.pc = "load"]
  <1>1. /\ p \in alive /\ dream[p].pc = "claim" /\ UnderWay(p) /\ Sleeps(p, d)
        /\ UNCHANGED <<alive, session, document>>
        /\ lock' = [holder |-> {p}, time |-> now', stale |-> FALSE]
    BY DEF Claim, At, UnderWay
  <1>2. now \in Nat /\ now' = now + 1 /\ document \subseteq Nat
    BY DEF Claim, Now, IInv, Typed
  <1>3. dream[p] \in Dreams
    BY DEF IInv, Typed
  <1>4. /\ d \in Dreams /\ d.pc = "load" /\ d.prior = dream[p].prior
        /\ d.alone = dream[p].alone /\ d.locked = dream[p].locked
    BY <1>3 DEF Dreams
  <1>5. lock' \in Locks /\ lock'.time = now'
    BY <1>1, <1>2 DEF Locks
  <1>6. dream[p].prior \in Nat /\ dream[p].prior <= now /\ (~dream[p].locked => dream[p].prior = 0)
    BY <1>3, DreamFields DEF IInv, Dated, Unlocked
  <1>7. d.prior <= now'
    BY <1>2, <1>4, <1>6
  <1> HIDE DEF d
  <1>8. now <= now' /\ now' \in Nat /\ lock'.time <= now'
    BY <1>2, <1>5
  <1> QED
    BY <1>1, <1>2, <1>4, <1>5, <1>6, <1>7, <1>8, OwnStep

LEMMA ClaimFailsInv ==
    ASSUME IInv, NEW p \in Processes, ClaimFails(p)
    PROVE  IInv'
  <1> DEFINE d == IF dream[p].force
                    THEN [dream[p] EXCEPT !.pc = "load", !.locked = FALSE, !.prior = 0]
                    ELSE Awake
  <1>1. /\ p \in alive /\ dream[p].pc = "claim" /\ UnderWay(p) /\ Sleeps(p, d)
        /\ UNCHANGED <<alive, session, document>>
        /\ lock' \in {lock, [holder |-> {}, time |-> now', stale |-> FALSE]}
    BY DEF ClaimFails, At, UnderWay
  <1>2. now \in Nat /\ now' = now + 1 /\ document \subseteq Nat /\ dream[p] \in Dreams
    BY DEF ClaimFails, Now, IInv, Typed
  <1>3. lock \in Locks /\ lock.time \in Nat /\ lock.time <= now
    BY LockFields DEF IInv, Typed, Dated
  <1>4. lock' \in Locks /\ lock'.time \in Nat /\ lock'.time <= now'
    <2>1. CASE lock' = lock
      BY <1>2, <1>3, <2>1
    <2>2. CASE lock' = [holder |-> {}, time |-> now', stale |-> FALSE]
      BY <1>2, <2>2 DEF Locks
    <2> QED
      BY <1>1, <2>1, <2>2
  <1>5. d \in Dreams /\ d.prior = 0 /\ ((d.pc = "load" /\ d.alone = dream[p].alone) \/ d.pc = "none")
    <2>1. CASE dream[p].force
      BY <1>2, <2>1 DEF Dreams
    <2>2. CASE ~dream[p].force
      BY <2>2, AwakeFields
    <2> QED
      BY <2>1, <2>2
  <1> HIDE DEF d
  <1>6. now <= now' /\ now' \in Nat /\ d.prior <= now' /\ d.prior <= lock'.time
    BY <1>2, <1>4, <1>5
  <1> QED
    BY <1>1, <1>2, <1>4, <1>5, <1>6, OwnStep

LEMMA LoadInv ==
    ASSUME IInv, NEW p \in Processes, Load(p)
    PROVE  IInv'
  <1> DEFINE new == {s \in session : s > dream[p].prior}
             goOn == session # {} /\ (new # {} \/ dream[p].force)
             next == IF goOn THEN "ask" ELSE "release"
             d == [dream[p] EXCEPT !.pc = next, !.taken = new, !.existing = document, !.loaded = now]
  <1>1. /\ p \in alive /\ dream[p].pc = "load" /\ UnderWay(p) /\ Sleeps(p, d)
        /\ UNCHANGED <<alive, now, session, document, lock>>
    BY DEF Load, At, UnderWay
  <1>2. /\ now \in Nat /\ document \subseteq Nat /\ session \subseteq Nat
        /\ lock \in Locks /\ lock.time \in Nat /\ lock.time <= now
    BY LockFields DEF IInv, Typed, Dated
  <1>3. dream[p] \in Dreams
    BY DEF IInv, Typed
  <1>4. /\ d \in Dreams /\ d.pc = next /\ d.prior = dream[p].prior
        /\ d.alone = dream[p].alone /\ d.locked = dream[p].locked
        /\ d.taken = new /\ d.existing = document /\ d.loaded = now
    <2>1. new \subseteq Nat /\ next \in {"none", "claim", "load", "ask", "release"}
      BY <1>2
    <2> QED
      BY <1>2, <1>3, <2>1 DEF Dreams
  <1>5. next \in {"ask", "release"} /\ (next = "release" => new = {})
    OBVIOUS
  <1>6. dream[p].prior \in Nat /\ dream[p].prior <= now /\ (~dream[p].locked => dream[p].prior = 0)
    BY <1>3, DreamFields DEF IInv, Dated, Unlocked
  <1>7. dream[p].alone => dream[p].prior <= lock.time
    BY <1>1 DEF IInv, Remembered
  <1>8. dream[p].alone => \A s \in session : lock.time < s => s \in new
    BY <1>2, <1>6, <1>7
  <1>9. \A s \in new : s \in session /\ s > dream[p].prior
    OBVIOUS
  <1> HIDE DEF d, new, goOn, next
  <1>10. now <= now' /\ now' \in Nat /\ lock'.time <= now' /\ document' \subseteq Nat /\ lock' \in Locks
    BY <1>1, <1>2
  <1>11. d.prior <= now' /\ (~d.locked => d.prior = 0) /\ d.loaded <= now'
    BY <1>1, <1>2, <1>4, <1>6
  <1>12. d.pc # "claim" /\ (d.pc = "ask" => \A s \in d.taken : s \in session /\ s > d.prior)
    BY <1>4, <1>5, <1>9
  <1>13. d.alone =>
            /\ d.prior <= lock'.time
            /\ document' = d.existing
            /\ \A s \in session : lock'.time < s => s \in d.taken
            /\ d.pc = "release" => \A s \in session : lock'.time < s => s \in document'
    BY <1>1, <1>4, <1>5, <1>7, <1>8
  <1> QED
    BY <1>1, <1>4, <1>10, <1>11, <1>12, <1>13, OwnStep

LEMMA WriteInv ==
    ASSUME IInv, NEW p \in Processes, Write(p)
    PROVE  IInv'
  <1> DEFINE d == [dream[p] EXCEPT !.pc = "release"]
  <1>1. /\ p \in alive /\ dream[p].pc = "ask" /\ UnderWay(p) /\ Sleeps(p, d)
        /\ UNCHANGED <<alive, now, session, lock>>
        /\ document' = dream[p].existing \cup dream[p].taken
    BY DEF Write, At, UnderWay
  <1>2. now \in Nat /\ lock \in Locks /\ lock.time <= now
    BY DEF IInv, Typed, Dated
  <1>3. dream[p] \in Dreams
    BY DEF IInv, Typed
  <1>4. /\ d \in Dreams /\ d.pc = "release" /\ d.prior = dream[p].prior
        /\ d.alone = dream[p].alone /\ d.locked = dream[p].locked /\ d.loaded = dream[p].loaded
    BY <1>3 DEF Dreams
  <1>5. document' \subseteq Nat
    BY <1>1, <1>3, DreamFields
  <1>6. dream[p].prior <= now /\ (~dream[p].locked => dream[p].prior = 0)
    BY DEF IInv, Dated, Unlocked
  <1>7. dream[p].alone => /\ dream[p].prior <= lock.time /\ dream[p].loaded <= now
                          /\ Read(p) \subseteq dream[p].taken
    BY <1>1 DEF IInv, Remembered
  <1> HIDE DEF d
  <1>8. now <= now' /\ now' \in Nat /\ lock'.time <= now' /\ lock' \in Locks
    BY <1>1, <1>2
  <1>9. d.prior <= now' /\ (~d.locked => d.prior = 0) /\ d.pc # "claim" /\ d.pc # "ask"
    BY <1>1, <1>4, <1>6
  <1>10. d.alone =>
            /\ d.prior <= lock'.time
            /\ \A s \in session : lock'.time < s /\ s <= d.loaded => s \in document'
            /\ d.loaded <= now'
    BY <1>1, <1>4, <1>7 DEF Read
  <1> QED
    BY <1>1, <1>4, <1>5, <1>8, <1>9, <1>10, OwnStep

(* Every end of a dream: the lock is what the end makes of it.             *)
LEMMA EndInv ==
    ASSUME IInv, NEW p \in Processes, p \in alive, UnderWay(p), Sleeps(p, Awake),
           UNCHANGED <<alive, session>>, document' \in {document, {}},
           now' \in Nat, now <= now', lock' \in Locks, lock'.time <= now'
    PROVE  IInv'
  <1>1. Awake.pc # "claim" /\ Awake.pc # "ask" /\ Awake.prior <= now'
    BY AwakeFields
  <1>2. document' \subseteq Nat
    BY DEF IInv, Typed
  <1> QED
    BY <1>1, <1>2, AwakeFields, OwnStep

LEMMA ReleaseInv ==
    ASSUME IInv, NEW p \in Processes, Release(p)
    PROVE  IInv'
  <1>1. now \in Nat /\ now' = now + 1
    BY DEF Release, Now, IInv, Typed
  <1>2. lock \in Locks /\ lock.time \in Nat /\ lock.time <= now
    BY LockFields DEF IInv, Typed, Dated
  <1>3. /\ now' \in Nat /\ now <= now'
        /\ lock' \in Locks /\ lock'.time <= now'
    <2>1. CASE lock' = lock
      BY <1>1, <1>2, <2>1
    <2>2. CASE lock' = [holder |-> {}, time |-> now', stale |-> FALSE]
      BY <1>1, <2>2 DEF Locks
    <2> QED
      BY <2>1, <2>2 DEF Release
  <1> QED
    BY <1>3, EndInv DEF Release, At, UnderWay

LEMMA FailInv ==
    ASSUME IInv, NEW p \in Processes, Fail(p) \/ WriteFails(p)
    PROVE  IInv'
  <1>1. now \in Nat /\ lock \in Locks /\ lock.time <= now
    BY DEF IInv, Typed, Dated
  <1>2. dream[p].prior \in Nat /\ dream[p].prior <= now
    BY DreamFields DEF IInv, Typed, Dated
  <1>3. lock' \in Locks /\ lock'.time <= now
    BY <1>1, <1>2 DEF Fail, WriteFails, Rollback, Locks
  <1>4. /\ p \in alive /\ UnderWay(p) /\ Sleeps(p, Awake)
        /\ UNCHANGED <<alive, now, session>> /\ document' \in {document, {}}
    BY DEF Fail, WriteFails, Torn, At, UnderWay
  <1> QED
    BY <1>1, <1>3, <1>4, EndInv

LEMMA CancelInv ==
    ASSUME IInv, NEW p \in Processes, Cancel(p)
    PROVE  IInv'
  <1>1. now \in Nat /\ lock \in Locks /\ lock.time <= now
    BY DEF IInv, Typed, Dated
  <1> QED
    BY <1>1, EndInv DEF Cancel, At, UnderWay

LEMMA CrashInv ==
    ASSUME IInv, NEW p \in Processes, Crash(p)
    PROVE  IInv'
  <1>1. /\ dream' \in [Processes -> Dreams]
        /\ dream'[p] = Awake
        /\ \A q \in Processes : q # p => dream'[q] = dream[q]
    BY AwakeFields, OnlyOneMoves DEF Crash, IInv
  <1>2. alive' = alive \ {p} /\ UNCHANGED <<now, session, lock>>
    BY DEF Crash
  <1>3. document' \subseteq Nat /\ (~UnderWay(p) => document' = document)
    BY DEF Crash, Torn, IInv, Typed, At, UnderWay
  <1>4. Typed'
    BY <1>1, <1>2, <1>3 DEF IInv, Typed
  <1>5. Dated' /\ Unlocked'
    <2>1. now \in Nat
      BY DEF IInv, Typed
    <2> QED
      BY <1>1, <1>2, <2>1, AwakeFields DEF IInv, Dated, Unlocked
  <1>6. Living' /\ Solitary' /\ Took'
    BY <1>1, <1>2, AwakeFields DEF IInv, Living, Solitary, Took, UnderWay
  <1>7. Looked'
    BY <1>1, <1>2, AwakeFields DEF IInv, Looked
  <1>8. Remembered'
    <2> SUFFICES ASSUME NEW q \in Processes, UnderWay(q)', dream'[q].alone
                 PROVE  /\ dream'[q].prior <= lock'.time
                        /\ dream'[q].pc = "claim" => lock'.time = dream'[q].prior
                        /\ dream'[q].pc = "ask" => document' = dream'[q].existing /\ Read(q)' \subseteq dream'[q].taken
                        /\ dream'[q].pc = "release" => Read(q)' \subseteq document'
                        /\ dream'[q].pc \in {"ask", "release"} => dream'[q].loaded <= now'
      BY DEF Remembered
    <2>1. q # p /\ UnderWay(q) /\ dream[q].alone /\ dream'[q] = dream[q]
      BY <1>1, AwakeFields DEF UnderWay
    <2>2. document' = document
      BY <1>3, <2>1 DEF IInv, Solitary
    <2>3. Read(q)' = Read(q)
      BY <1>2, <2>1 DEF Read
    <2> QED
      BY <1>2, <2>1, <2>2, <2>3 DEF IInv, Remembered
  <1> QED
    BY <1>4, <1>5, <1>6, <1>7, <1>8 DEF IInv

(* A dream that begins ends the solitude of the others.                    *)
LEMMA JoinedInv ==
    ASSUME IInv, NEW p \in Processes, p \in alive, NEW d \in Dreams, Joined(p, d),
           UNCHANGED <<alive, now, session, document, lock>>,
           d.pc \in {"claim", "load"}, d.prior <= lock.time,
           ~d.locked => d.prior = 0,
           d.pc = "claim" => d.locked /\ d.prior = lock.time /\ d.saw = {lock} /\ ~Refuses
    PROVE  IInv'
  <1> DEFINE nobody == \A r \in Processes : ~UnderWay(r)
             e == [d EXCEPT !.alone = nobody]
  <1>1. /\ e \in Dreams /\ e.alone = nobody
        /\ e.pc = d.pc /\ e.prior = d.prior /\ e.locked = d.locked /\ e.saw = d.saw
    BY DEF Dreams
  <1>2. /\ dream' \in [Processes -> Dreams]
        /\ dream'[p] = e
    BY <1>1 DEF Joined, IInv, Typed, Dreams
  <1>3. \A q \in Processes : q # p /\ ~UnderWay(q) => dream'[q] = dream[q]
    BY DEF Joined
  <1>4. \A q \in Processes : q # p /\ UnderWay(q) =>
            /\ ~dream'[q].alone
            /\ dream'[q].pc = dream[q].pc /\ dream'[q].prior = dream[q].prior
            /\ dream'[q].locked = dream[q].locked /\ dream'[q].taken = dream[q].taken
            /\ dream'[q].saw = dream[q].saw
    BY DEF Joined, IInv, Typed, Dreams
  <1> HIDE DEF e, nobody
  <1>5. Typed'
    BY <1>2 DEF IInv, Typed
  <1>6. Dated' /\ Unlocked'
    <2>1. now \in Nat /\ lock.time \in Nat /\ lock.time <= now /\ d.prior \in Nat
      BY LockFields, DreamFields DEF IInv, Typed, Dated
    <2>2. e.prior <= now
      BY <1>1, <2>1
    <2> QED
      BY <1>1, <1>2, <1>3, <1>4, <2>2 DEF IInv, Dated, Unlocked
  <1>7. Living'
    BY <1>2, <1>3, <1>4 DEF IInv, Living, UnderWay
  <1>8. Took'
    BY <1>1, <1>2, <1>3, <1>4 DEF IInv, Took
  <1>9. Looked'
    <2>1. d.pc = "claim" => lock.holder = {} \/ lock.stale \/ ~(lock.holder \subseteq alive)
      BY DEF Refuses
    <2>2. lock \in Locks
      BY DEF IInv, Typed
    <2> QED
      BY <1>1, <1>2, <1>3, <1>4, <2>1, <2>2 DEF IInv, Looked
  <1>10. Solitary'
    <2> SUFFICES ASSUME NEW q \in Processes, NEW r \in Processes, q # r,
                        UnderWay(q)', dream'[q].alone
                 PROVE  ~UnderWay(r)'
      BY DEF Solitary
    <2>1. q = p
      BY <1>3, <1>4 DEF UnderWay
    <2>2. nobody
      BY <1>1, <1>2, <2>1
    <2>3. ~UnderWay(r) /\ dream'[r] = dream[r]
      BY <1>3, <2>1, <2>2 DEF nobody
    <2> QED
      BY <2>3 DEF UnderWay
  <1>11. Remembered'
    BY <1>1, <1>2, <1>3, <1>4 DEF Remembered, UnderWay
  <1> QED
    BY <1>5, <1>6, <1>7, <1>8, <1>9, <1>10, <1>11 DEF IInv

LEMMA LookInv ==
    ASSUME IInv, NEW p \in Processes, Look(p)
    PROVE  IInv'
  <1> PICK force \in BOOLEAN :
         \/ /\ ~Refuses
            /\ Joined(p, [Awake EXCEPT !.pc = "claim", !.force = force, !.locked = TRUE,
                                       !.prior = lock.time, !.saw = {lock}])
         \/ /\ Refuses
            /\ force
            /\ Joined(p, [Awake EXCEPT !.pc = "load", !.force = TRUE])
    BY DEF Look
  <1> DEFINE free == [Awake EXCEPT !.pc = "claim", !.force = force, !.locked = TRUE,
                                   !.prior = lock.time, !.saw = {lock}]
             forced == [Awake EXCEPT !.pc = "load", !.force = TRUE]
  <1>1. lock \in Locks /\ lock.time \in Nat
    BY LockFields DEF IInv, Typed
  <1>2. /\ free \in Dreams /\ free.pc = "claim" /\ free.locked
        /\ free.prior = lock.time /\ free.saw = {lock}
    BY <1>1 DEF Awake, Dreams
  <1>3. forced \in Dreams /\ forced.pc = "load" /\ forced.prior = 0
    BY DEF Awake, Dreams
  <1>4. p \in alive /\ UNCHANGED <<alive, now, session, document, lock>>
    BY DEF Look, At
  <1>5. (~Refuses /\ Joined(p, free)) \/ Joined(p, forced)
    OBVIOUS
  <1> HIDE DEF free, forced
  <1>6. CASE ~Refuses /\ Joined(p, free)
    <2>1. free.prior <= lock.time
      BY <1>1, <1>2
    <2> QED
      BY <1>2, <1>4, <1>6, <2>1, JoinedInv
  <1>7. CASE Joined(p, forced)
    <2>1. forced.prior <= lock.time
      BY <1>1, <1>3
    <2> QED
      BY <1>3, <1>4, <1>7, <2>1, JoinedInv
  <1> QED
    BY <1>5, <1>6, <1>7

LEMMA NextInv == IInv /\ [Next]_vars => IInv'
  <1> SUFFICES ASSUME IInv, [Next]_vars PROVE IInv'
    OBVIOUS
  <1>1. CASE Store
    BY <1>1, StoreInv
  <1>2. CASE Age
    BY <1>2, AgeInv
  <1>3. ASSUME NEW p \in Processes,
               \/ Look(p) \/ Claim(p) \/ Load(p) \/ Write(p) \/ Release(p)
               \/ ClaimFails(p) \/ Fail(p) \/ WriteFails(p) \/ Cancel(p) \/ Crash(p)
        PROVE  IInv'
    BY <1>3, LookInv, ClaimInv, ClaimFailsInv, LoadInv, WriteInv, ReleaseInv, FailInv, CancelInv,
       CrashInv
  <1>4. CASE UNCHANGED vars
    BY <1>4 DEF vars, IInv, Typed, Dated, Living, Looked, Solitary, Took, Unlocked, Remembered,
                Read, UnderWay
  <1> QED
    BY <1>1, <1>2, <1>3, <1>4 DEF Next

LEMMA Inductive == Spec => []IInv
  BY InitInv, NextInv, PTL DEF Spec

-----------------------------------------------------------------------------
(* A lock is taken from a dream that is under way only if it is an hour    *)
(* old or the file has changed since it was looked at (auto_dream.py:60):  *)
(* the property ClaimsFreeLock, for any number of processes.               *)
THEOREM LocksRespected == Spec => ClaimsFreeLock
  <1> DEFINE Taking ==
        \A p, q \in Processes :
            /\ p # q
            /\ dream[p].pc = "claim" /\ dream'[p].pc = "load"
            /\ UnderWay(q) /\ dream[q].pc # "claim" /\ lock.holder = {q} /\ ~lock.stale
            => dream[p].saw # {lock}
  <1>1. IInv => Taking
    BY DEF IInv, Looked, Living
  <1>2. IInv /\ [Next]_vars => [Taking]_vars
    BY <1>1
  <1> QED
    BY <1>2, Inductive, PTL DEF Spec, ClaimsFreeLock

-----------------------------------------------------------------------------
(* KeepsEntries, one action at a time: an entry that is not safe any more  *)
(* has an excuse.                                                          *)
Excused(s) ==
    \E p \in Processes :
        /\ UnderWay(p) /\ dream'[p] # dream[p]
        /\ \/ ~dream[p].alone
           \/ dream[p].pc = "release" /\ s > dream[p].loaded
           \/ dream'[p] = Awake /\ (Crash(p) \/ Cancel(p))
           \/ ClaimFails(p)
           \/ WriteFails(p) /\ s \in document

Kept == \A s \in Safe \ Safe' : Excused(s)

(* An action of p keeps what the dreams of others hold.                    *)
LEMMA OthersHold ==
    ASSUME NEW p \in Processes, UNCHANGED session,
           \A q \in Processes : q # p => dream'[q] = dream[q],
           NEW s \in Safe, s \notin Safe'
    PROVE  s \in document \/ (s \in session /\ s > lock.time) \/ s \in Pending(p)
  <1>1. \A q \in Processes : q # p => Pending(q)' = Pending(q)
    BY DEF Pending
  <1> QED
    BY <1>1 DEF Safe

LEMMA ClaimKeeps == ASSUME IInv, NEW p \in Processes, Claim(p) PROVE Kept
  <1> SUFFICES ASSUME NEW s \in Safe, s \notin Safe' PROVE Excused(s)
    BY DEF Kept
  <1> DEFINE d == [dream[p] EXCEPT !.pc = "load"]
  <1>1. /\ dream[p] \in Dreams /\ dream[p].pc = "claim" /\ UnderWay(p) /\ Sleeps(p, d)
        /\ UNCHANGED <<session, document>>
    BY DEF Claim, At, UnderWay, IInv, Typed
  <1>2. d \in Dreams /\ d.pc = "load" /\ d.prior = dream[p].prior /\ d.locked = dream[p].locked
    BY <1>1 DEF Dreams
  <1>3. dream'[p] = d /\ \A q \in Processes : q # p => dream'[q] = dream[q]
    BY <1>1, <1>2, OnlyOneMoves DEF IInv
  <1> HIDE DEF d
  <1>4. Pending(p)' = Pending(p)
    BY <1>1, <1>2, <1>3 DEF Pending
  <1>5. s \notin document /\ s \notin Pending(p)
    BY <1>1, <1>4 DEF Safe
  <1>6. s \in session /\ s > lock.time
    BY <1>1, <1>3, <1>5, OthersHold
  <1>7. CASE dream[p].alone
    <2>1. dream[p].prior = lock.time /\ dream[p].locked
      BY <1>1, <1>7 DEF IInv, Remembered, Looked
    <2> QED
      BY <1>1, <1>5, <1>6, <2>1 DEF Pending
  <1>8. CASE ~dream[p].alone
    BY <1>1, <1>2, <1>3, <1>8 DEF Excused
  <1> QED
    BY <1>7, <1>8

LEMMA ClaimFailsKeeps == ASSUME IInv, NEW p \in Processes, ClaimFails(p) PROVE Kept
  <1>1. dream[p].pc = "claim" /\ UnderWay(p) /\ dream[p] \in Dreams
    BY DEF ClaimFails, At, UnderWay, IInv, Typed
  <1>2. dream'[p].pc # "claim"
    <2>1. CASE dream[p].force
      <3> DEFINE d == [dream[p] EXCEPT !.pc = "load", !.locked = FALSE, !.prior = 0]
      <3>1. Sleeps(p, d) /\ d \in Dreams /\ d.pc = "load"
        BY <1>1, <2>1 DEF ClaimFails, Dreams
      <3> HIDE DEF d
      <3> QED
        BY <3>1, OnlyOneMoves DEF IInv
    <2>2. CASE ~dream[p].force
      BY <2>2, AwakeFields, OnlyOneMoves DEF ClaimFails, IInv
    <2> QED
      BY <2>1, <2>2
  <1> QED
    BY <1>1, <1>2 DEF Kept, Excused

LEMMA LoadKeeps == ASSUME IInv, NEW p \in Processes, Load(p) PROVE Kept
  <1> SUFFICES ASSUME NEW s \in Safe, s \notin Safe' PROVE FALSE
    BY DEF Kept
  <1> DEFINE new == {x \in session : x > dream[p].prior}
             goOn == session # {} /\ (new # {} \/ dream[p].force)
             next == IF goOn THEN "ask" ELSE "release"
             d == [dream[p] EXCEPT !.pc = next, !.taken = new, !.existing = document, !.loaded = now]
  <1>1. /\ dream[p] \in Dreams /\ dream[p].pc = "load" /\ Sleeps(p, d)
        /\ UNCHANGED <<session, document, lock>>
    BY DEF Load, At, IInv, Typed
  <1>2. new \subseteq Nat /\ now \in Nat /\ document \subseteq Nat
        /\ next \in {"none", "claim", "load", "ask", "release"}
    BY DEF IInv, Typed
  <1>3. d \in Dreams /\ d.pc = next /\ d.locked = dream[p].locked /\ d.taken = new
    BY <1>1, <1>2 DEF Dreams
  <1>4. (next = "ask" \/ next = "release") /\ (next = "release" => new = {})
    OBVIOUS
  <1>5. dream[p].locked => Pending(p) = new
    BY <1>1 DEF Pending
  <1>6. dream'[p] = d /\ \A q \in Processes : q # p => dream'[q] = dream[q]
    BY <1>1, <1>3, OnlyOneMoves DEF IInv
  <1> HIDE DEF d, next, goOn, new
  <1>7. Pending(p) \subseteq Pending(p)'
    BY <1>3, <1>4, <1>5, <1>6 DEF Pending
  <1>8. s \in document \/ (s \in session /\ s > lock.time) \/ s \in Pending(p)
    BY <1>1, <1>6, OthersHold
  <1> QED
    BY <1>1, <1>7, <1>8 DEF Safe

LEMMA WriteKeeps == ASSUME IInv, NEW p \in Processes, Write(p) PROVE Kept
  <1> SUFFICES ASSUME NEW s \in Safe, s \notin Safe' PROVE Excused(s)
    BY DEF Kept
  <1> DEFINE d == [dream[p] EXCEPT !.pc = "release"]
  <1>1. /\ dream[p] \in Dreams /\ dream[p].pc = "ask" /\ UnderWay(p) /\ Sleeps(p, d)
        /\ UNCHANGED <<session, lock>>
        /\ document' = dream[p].existing \cup dream[p].taken
    BY DEF Write, At, UnderWay, IInv, Typed
  <1>2. d \in Dreams /\ d.pc = "release"
    BY <1>1 DEF Dreams
  <1>3. dream'[p] = d /\ \A q \in Processes : q # p => dream'[q] = dream[q]
    BY <1>1, <1>2, OnlyOneMoves DEF IInv
  <1> HIDE DEF d
  <1>4. Pending(p) \subseteq dream[p].taken
    BY <1>1 DEF Pending
  <1>5. s \in document
    <2>1. s \in document \/ (s \in session /\ s > lock.time) \/ s \in Pending(p)
      BY <1>1, <1>3, OthersHold
    <2> QED
      BY <1>1, <1>4, <2>1 DEF Safe
  <1>6. CASE dream[p].alone
    BY <1>1, <1>5, <1>6 DEF IInv, Remembered, Safe
  <1>7. CASE ~dream[p].alone
    BY <1>1, <1>2, <1>3, <1>7 DEF Excused
  <1> QED
    BY <1>6, <1>7

LEMMA ReleaseKeeps == ASSUME IInv, NEW p \in Processes, Release(p) PROVE Kept
  <1> SUFFICES ASSUME NEW s \in Safe, s \notin Safe' PROVE Excused(s)
    BY DEF Kept
  <1>1. /\ dream[p].pc = "release" /\ UnderWay(p) /\ Sleeps(p, Awake)
        /\ UNCHANGED <<session, document>>
    BY DEF Release, At, UnderWay
  <1>2. dream'[p] = Awake /\ \A q \in Processes : q # p => dream'[q] = dream[q]
    BY <1>1, AwakeFields, OnlyOneMoves DEF IInv
  <1>3. Pending(p) = {}
    BY <1>1 DEF Pending
  <1>4. s \notin document /\ s \in session /\ s > lock.time
    <2>1. s \in document \/ (s \in session /\ s > lock.time) \/ s \in Pending(p)
      BY <1>1, <1>2, OthersHold
    <2> QED
      BY <1>1, <1>3, <2>1 DEF Safe
  <1>5. dream'[p] # dream[p]
    BY <1>1, <1>2, AwakeFields
  <1>6. CASE dream[p].alone
    <2>1. s \notin Read(p)
      BY <1>1, <1>4, <1>6 DEF IInv, Remembered
    <2>2. s \in Nat /\ lock.time \in Nat /\ dream[p].loaded \in Nat
      BY <1>4, LockFields, DreamFields DEF IInv, Typed
    <2>3. s > dream[p].loaded
      BY <1>4, <2>1, <2>2 DEF Read
    <2> QED
      BY <1>1, <1>5, <2>3 DEF Excused
  <1>7. CASE ~dream[p].alone
    BY <1>1, <1>5, <1>7 DEF Excused
  <1> QED
    BY <1>6, <1>7

(* Only the document's entries can be lost, and only when its writing      *)
(* failed: to the others the restored time gives a next dream.             *)
LEMMA FailKeeps == ASSUME IInv, NEW p \in Processes, Fail(p) \/ WriteFails(p) PROVE Kept
  <1> SUFFICES ASSUME NEW s \in Safe, s \notin Safe',
                      ~(WriteFails(p) /\ s \in document)
               PROVE  Excused(s)
    <2>1. \A s \in Safe \ Safe' : WriteFails(p) /\ s \in document => Excused(s)
      <3>1. WriteFails(p) => dream'[p] # dream[p] /\ UnderWay(p)
        BY AwakeFields, OnlyOneMoves DEF WriteFails, Torn, At, UnderWay, IInv
      <3> QED
        BY <3>1 DEF Excused
    <2> QED
      BY <2>1 DEF Kept
  <1>1. /\ dream[p].pc \in {"load", "ask"} /\ UnderWay(p) /\ Sleeps(p, Awake)
        /\ UNCHANGED session /\ (WriteFails(p) \/ UNCHANGED document)
    BY DEF Fail, WriteFails, Torn, At, UnderWay
  <1>2. dream'[p] = Awake /\ \A q \in Processes : q # p => dream'[q] = dream[q]
    BY <1>1, AwakeFields, OnlyOneMoves DEF IInv
  <1>3. dream'[p] # dream[p]
    BY <1>1, <1>2, AwakeFields
  <1>4. lock'.time = IF dream[p].locked THEN dream[p].prior ELSE lock.time
    BY DEF Fail, WriteFails, Rollback, IInv, Typed, Locks
  <1>5. lock.time \in Nat /\ dream[p].prior \in Nat /\ session \subseteq Nat
    BY LockFields, DreamFields DEF IInv, Typed
  <1>6. \A x \in Pending(p) : dream[p].locked /\ x \in session /\ x > dream[p].prior
    BY <1>1 DEF Pending, IInv, Took
  <1>7. s \in session /\ s > lock.time /\ s \notin Pending(p)
    <2>1. s \in document \/ (s \in session /\ s > lock.time) \/ s \in Pending(p)
      BY <1>1, <1>2, OthersHold
    <2> QED
      BY <1>1, <1>4, <1>6, <2>1 DEF Safe
  <1>8. CASE dream[p].alone
    <2>1. dream[p].prior <= lock.time
      BY <1>1, <1>8 DEF IInv, Remembered
    <2>2. s \in Nat /\ (lock'.time = lock.time \/ lock'.time = dream[p].prior)
      BY <1>4, <1>5, <1>7
    <2>3. s > dream[p].prior
      BY <1>5, <1>7, <2>1, <2>2
    <2>4. s > lock'.time
      BY <1>7, <2>2, <2>3
    <2> QED
      BY <1>1, <1>7, <2>4 DEF Safe
  <1>9. CASE ~dream[p].alone
    BY <1>1, <1>3, <1>9 DEF Excused
  <1> QED
    BY <1>8, <1>9

LEMMA CancelKeeps == ASSUME IInv, NEW p \in Processes, Cancel(p) PROVE Kept
  <1>1. dream'[p] = Awake /\ UnderWay(p)
    BY AwakeFields, OnlyOneMoves DEF Cancel, At, UnderWay, IInv
  <1>2. dream'[p] # dream[p]
    BY <1>1, AwakeFields DEF UnderWay
  <1> QED
    BY <1>1, <1>2 DEF Kept, Excused

LEMMA CrashKeeps == ASSUME IInv, NEW p \in Processes, Crash(p) PROVE Kept
  <1> SUFFICES ASSUME NEW s \in Safe, s \notin Safe' PROVE Excused(s)
    BY DEF Kept
  <1>1. dream'[p] = Awake /\ \A q \in Processes : q # p => dream'[q] = dream[q]
    BY AwakeFields, OnlyOneMoves DEF Crash, IInv
  <1>2. CASE UnderWay(p)
    <2>1. dream'[p] # dream[p]
      BY <1>1, <1>2, AwakeFields DEF UnderWay
    <2> QED
      BY <1>1, <1>2, <2>1 DEF Excused
  <1>3. CASE ~UnderWay(p)
    <2>1. UNCHANGED <<session, lock, document>> /\ Pending(p) = {}
      BY <1>3 DEF Crash, Torn, At, UnderWay, Pending
    <2>2. s \in document \/ (s \in session /\ s > lock.time) \/ s \in Pending(p)
      BY <1>1, <2>1, OthersHold
    <2> QED
      BY <2>1, <2>2 DEF Safe
  <1> QED
    BY <1>2, <1>3

LEMMA LookKeeps == ASSUME IInv, NEW p \in Processes, Look(p) PROVE Kept
  <1>1. UNCHANGED <<session, document, lock>> /\ dream[p].pc = "none"
    BY DEF Look, At
  <1>2. \A q \in Processes : q # p =>
            /\ dream'[q].pc = dream[q].pc /\ dream'[q].prior = dream[q].prior
            /\ dream'[q].locked = dream[q].locked /\ dream'[q].taken = dream[q].taken
    <2>1. PICK d : Joined(p, d)
      BY DEF Look
    <2> QED
      BY <2>1 DEF Joined, IInv, Typed, Dreams
  <1>3. \A q \in Processes : q # p => Pending(q)' = Pending(q)
    BY <1>1, <1>2 DEF Pending
  <1>4. Pending(p) = {}
    BY <1>1 DEF Pending
  <1>5. \A q \in Processes : Pending(q) \subseteq Pending(q)'
    BY <1>3, <1>4
  <1> QED
    BY <1>1, <1>5 DEF Safe, Kept

LEMMA TimeKeeps == ASSUME IInv, Store \/ Age PROVE Kept
  <1>1. UNCHANGED <<document, dream>> /\ lock'.time = lock.time /\ session \subseteq session'
    BY DEF Store, Age, IInv, Typed, Locks
  <1>2. \A q \in Processes : Pending(q) \subseteq Pending(q)'
    BY <1>1 DEF Pending
  <1> QED
    BY <1>1, <1>2 DEF Safe, Kept

(* What is lost is lost to a dream that was not alone, or was stored while *)
(* it was read and condensed, or to a cancellation, a crash or a claim     *)
(* that could not be written; or it was condensed, and the document could  *)
(* not be written again (auto_dream.py:84, :154, :178): the property       *)
(* KeepsEntries, for any number of processes and entries.                  *)
THEOREM EntriesKept == Spec => KeepsEntries
  <1>1. ASSUME IInv, [Next]_vars PROVE [Kept]_vars
    <2>1. CASE Store \/ Age
      BY <1>1, <2>1, TimeKeeps
    <2>2. ASSUME NEW p \in Processes,
                 \/ Look(p) \/ Claim(p) \/ Load(p) \/ Write(p) \/ Release(p)
                 \/ ClaimFails(p) \/ Fail(p) \/ WriteFails(p) \/ Cancel(p) \/ Crash(p)
          PROVE  Kept
      BY <1>1, <2>2, LookKeeps, ClaimKeeps, ClaimFailsKeeps, LoadKeeps, WriteKeeps, ReleaseKeeps,
         FailKeeps, CancelKeeps, CrashKeeps
    <2> QED
      BY <1>1, <2>1, <2>2 DEF Next
  <1>2. [Kept]_vars =>
          [\A s \in Safe \ Safe' : \E p \in Processes :
             /\ UnderWay(p) /\ dream'[p] # dream[p]
             /\ \/ ~dream[p].alone
                \/ dream[p].pc = "release" /\ s > dream[p].loaded
                \/ dream'[p] = Awake /\ (Crash(p) \/ Cancel(p))
                \/ ClaimFails(p)
                \/ WriteFails(p) /\ s \in document]_vars
    BY DEF Kept, Excused
  <1> QED
    BY <1>1, <1>2, Inductive, PTL DEF Spec, KeepsEntries
=============================================================================
