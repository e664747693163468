-------------------------- MODULE QueryLoop_proofs --------------------------
(***************************************************************************)
(* Proofs about the agent's turn loop, for every number of turns, retries, *)
(* prompts and tool calls and every KEEP_RECENT, and about the compactor's *)
(* cut, for every message list.                                            *)
(***************************************************************************)
EXTENDS QueryLoop, SequenceTheorems, WellFoundedInduction, TLAPS

-----------------------------------------------------------------------------
(* The cut of the compactor.                                               *)

(* A non-empty set of numbers between 1 and n has a largest one.           *)
LEMMA BoundedHasMax ==
    ASSUME NEW n \in Nat, NEW S \in SUBSET (1..n), S # {}
    PROVE  \E m \in S : \A j \in S : j <= m
<1> DEFINE T == {n - i : i \in S}
           R == OpToRel(<, Nat)
<1>1. T \subseteq Nat /\ T # {}
  <2>1. PICK i \in S : TRUE
    OBVIOUS
  <2>2. n - i \in T
    BY <2>1
  <2>3. T \subseteq Nat
    OBVIOUS
  <2> QED
    BY <2>2, <2>3
<1>2. PICK x \in T : \A y \in T : ~(<<y, x>> \in R)
  <2> HIDE DEF T, R
  <2>1. IsWellFoundedOn(R, Nat)
    BY NatLessThanWellFounded DEF R
  <2> QED
    BY <1>1, <2>1, WFMin
<1>3. \A y \in T : ~(y < x)
  BY <1>1, <1>2 DEF OpToRel
<1>4. PICK m \in S : x = n - m
  OBVIOUS
<1>5. \A j \in S : j <= m
  BY <1>3, <1>4
<1> QED
  BY <1>5

(***************************************************************************)
(* The walk back stops inside the list at a message of role user, or at 0. *)
(* (_find_round_boundary)                                                  *)
(***************************************************************************)
LEMMA BoundaryIsSafe ==
    ASSUME NEW ms \in Seq(Message), NEW desired \in Int
    PROVE  \/ RoundBoundary(ms, desired) = 0
           \/ RoundBoundary(ms, desired) \in SafeCuts(ms, desired)
<1> DEFINE S == SafeCuts(ms, desired)
<1>1. CASE S = {}
  BY <1>1 DEF RoundBoundary
<1>2. CASE S # {}
  <2>1. S \in SUBSET (1..desired) /\ desired \in Nat
    BY <1>2 DEF SafeCuts
  <2>2. \E m \in S : \A j \in S : j <= m
    <3> HIDE DEF S
    <3> QED BY <1>2, <2>1, BoundedHasMax
  <2> QED
    BY <1>2, <2>2 DEF RoundBoundary
<1> QED
  BY <1>1, <1>2

(***************************************************************************)
(* Where compact() cuts: at least KEEP_RECENT messages are kept, at least  *)
(* one is summarized, and the first one kept is of role user.              *)
(***************************************************************************)
LEMMA CutIsSafe ==
    ASSUME NEW ms \in Seq(Message), NEW isDisabled,
           MayCompact(ms, isDisabled)
    PROVE  /\ CutOf(ms) \in 1..(Len(ms) - KeepRecent)
           /\ CutOf(ms) < Len(ms)
           /\ IsUserRole(ms[CutOf(ms) + 1])
<1>1. Len(ms) - KeepRecent \in Int
  BY CompactorAssumption
<1>2. CutOf(ms) # 0
  BY DEF MayCompact
<1>3. CutOf(ms) \in SafeCuts(ms, Len(ms) - KeepRecent)
  BY <1>1, <1>2, BoundaryIsSafe DEF CutOf
<1> QED
  BY <1>3 DEF SafeCuts

(* What a compaction keeps is the end of the list it was started on.       *)
LEMMA KeptIsSuffix ==
    ASSUME NEW ms \in Seq(Message), NEW isDisabled,
           MayCompact(ms, isDisabled)
    PROVE  /\ RecentOf(ms) \in Seq(Message)
           /\ Len(RecentOf(ms)) = Len(ms) - CutOf(ms)
           /\ \A i \in 1..Len(RecentOf(ms)) :
                RecentOf(ms)[i] = ms[i + CutOf(ms)]
<1>1. CutOf(ms) \in 1..Len(ms) /\ CutOf(ms) < Len(ms)
  BY CutIsSafe, CompactorAssumption
<1> QED
  BY <1>1 DEF RecentOf

(* The rebuilt list is the summary and then what was kept.                 *)
LEMMA CompactedShape ==
    ASSUME NEW kept \in Seq(Message)
    PROVE  /\ Compacted(kept) \in Seq(Message)
           /\ Len(Compacted(kept)) = Len(kept) + 1
           /\ Compacted(kept)[1] = Summary
           /\ \A i \in 1..Len(kept) : Compacted(kept)[i + 1] = kept[i]
<1>1. Summary \in Message
  BY DEF Summary, Message, Kind
<1>2. /\ <<Summary>> \in Seq(Message)
      /\ Len(<<Summary>>) = 1
      /\ <<Summary>>[1] = Summary
  BY <1>1
<1> DEFINE one == <<Summary>>
<1> HIDE DEF one
<1>3. one \in Seq(Message) /\ Len(one) = 1 /\ one[1] = Summary
  BY <1>2 DEF one
<1>4. Compacted(kept) = one \o kept
  BY DEF Compacted, one
<1>5. /\ one \o kept \in Seq(Message)
      /\ Len(one \o kept) = Len(kept) + 1
      /\ (one \o kept)[1] = Summary
      /\ \A i \in 1..Len(kept) : (one \o kept)[i + 1] = kept[i]
  <2>1. /\ one \o kept \in Seq(Message)
        /\ Len(one \o kept) = Len(kept) + 1
        /\ (one \o kept)[1] = Summary
    <3>1. 1 \in 1..(Len(one) + Len(kept)) /\ 1 <= Len(one)
      BY <1>3
    <3>2. (one \o kept)[1] = one[1]
      BY <1>3, <3>1, ConcatProperties
    <3>3. one \o kept \in Seq(Message) /\ Len(one \o kept) = 1 + Len(kept)
      BY <1>3, ConcatProperties
    <3> QED
      BY <1>3, <3>2, <3>3
  <2>2. ASSUME NEW i \in 1..Len(kept)
        PROVE  (one \o kept)[i + 1] = kept[i]
    <3>1. i + 1 \in 1..(Len(one) + Len(kept)) /\ ~(i + 1 <= Len(one))
      BY <1>3
    <3>2. (one \o kept)[i + 1] = kept[(i + 1) - Len(one)]
      BY <1>3, <3>1, ConcatProperties
    <3> QED
      BY <1>3, <3>2
  <2> QED
    BY <2>1, <2>2
<1> QED
  BY <1>4, <1>5

-----------------------------------------------------------------------------
(* The turn loop.                                                          *)

(* A tool that is being awaited is one of the calls still to be answered.  *)
ToolIsPending == pc = "tool" => todo > 0

LEMMA StartCompactTyped ==
    ASSUME TypeOK, NEW c \in Callers, StartCompact(c)
    PROVE  recent' \in [Callers -> [kept : Seq(Message), on : BOOLEAN]]
<1>1. RecentOf(messages) \in Seq(Message)
  BY KeptIsSuffix DEF TypeOK, StartCompact
<1> QED
  BY <1>1 DEF TypeOK, StartCompact

LEMMA SummaryTyped ==
    ASSUME TypeOK, NEW c \in Callers, SummaryArrives(c) \/ SummaryFails(c)
    PROVE  /\ messages' \in Seq(Message)
           /\ recent' \in [Callers -> [kept : Seq(Message), on : BOOLEAN]]
           /\ failures' \in Nat
           /\ disabled' \in BOOLEAN
<1>1. NotCompacting \in [kept : Seq(Message), on : BOOLEAN]
  BY DEF NotCompacting
<1>2. CASE SummaryArrives(c)
  <2>1. recent[c].kept \in Seq(Message)
    BY DEF TypeOK
  <2>2. Summary \in Message
    BY DEF Summary, Message, Kind
  <2> QED
    BY <1>1, <1>2, <2>1, <2>2 DEF SummaryArrives, TypeOK, Compacted
<1>3. CASE SummaryFails(c)
  BY <1>1, <1>3 DEF SummaryFails, TypeOK
<1> QED
  BY <1>2, <1>3

LEMMA SpendTyped == TypeOK /\ Spend => budget' \in Budget
  BY DEF TypeOK, Spend, Budget

LEMMA TypeInit == Init => TypeOK /\ ToolIsPending
<1> SUFFICES ASSUME Init PROVE TypeOK /\ ToolIsPending
  OBVIOUS
<1>1. /\ messages \in Seq(Message)
      /\ recent \in [Callers -> [kept : Seq(Message), on : BOOLEAN]]
  BY DEF Init, NotCompacting
<1>2. /\ turn \in 0..(MaxTurns - 1)
      /\ attempt \in 0..(MaxRetries - 1)
      /\ prompts \in 0..MaxPrompts
  BY LoopAssumption DEF Init
<1>3. /\ current \in Models
      /\ outHits \in Nat /\ failures \in Nat /\ round \in Nat
      /\ todo \in Nat /\ results \in Nat
      /\ reactiveTried \in BOOLEAN /\ disabled \in BOOLEAN
      /\ budget \in Budget /\ overspent \in Nat
  BY LoopAssumption DEF Init, Budget
<1>4. pc \in Pc /\ outcome \in Outcome /\ ToolIsPending
  BY DEF Init, Pc, Outcome, ToolIsPending
<1> QED
  BY <1>1, <1>2, <1>3, <1>4 DEF TypeOK

LEMMA TypeStep ==
    TypeOK /\ ToolIsPending /\ [Next]_vars => TypeOK' /\ ToolIsPending'
<1> SUFFICES ASSUME TypeOK, ToolIsPending, [Next]_vars
             PROVE  TypeOK' /\ ToolIsPending'
  OBVIOUS
<1> USE LoopAssumption
    DEF recovery, breaker, calls, cost, session, Pc, Outcome, ToolIsPending
<1>0. "loop" \in Callers /\ "slash" \in Callers
  BY DEF Callers
<1>1. CASE Submit
  <2>1. messages' \in Seq(Message)
    BY <1>1 DEF Submit, TypeOK, Prompt, Message, Kind
  <2> QED
    BY <1>1, <2>1 DEF Submit, TypeOK
<1>2. CASE CheckCompaction
  <2>1. recent' \in [Callers -> [kept : Seq(Message), on : BOOLEAN]]
    BY <1>0, <1>2, StartCompactTyped DEF CheckCompaction, TypeOK
  <2> QED
    BY <1>2, <2>1 DEF CheckCompaction, BeginCall, TypeOK
<1>3. CASE EndCompaction
  <2>1. /\ messages' \in Seq(Message)
        /\ recent' \in [Callers -> [kept : Seq(Message), on : BOOLEAN]]
        /\ failures' \in Nat
        /\ disabled' \in BOOLEAN
    BY <1>0, <1>3, SummaryTyped DEF EndCompaction
  <2> QED
    BY <1>3, <2>1 DEF EndCompaction, BeginCall, TypeOK
<1>4. CASE Request
  BY <1>4 DEF Request, TypeOK
<1>5. CASE RateLimited
  BY <1>5 DEF RateLimited, TypeOK
<1>6. CASE PromptTooLong
  <2>1. recent' \in [Callers -> [kept : Seq(Message), on : BOOLEAN]]
    BY <1>0, <1>6, StartCompactTyped DEF PromptTooLong, TypeOK
  <2> QED
    BY <1>6, <2>1
       DEF PromptTooLong, SwitchOrRaise, CanFallBack, NextAttempt, Raise, TypeOK
<1>7. CASE EndReactive
  <2>1. /\ messages' \in Seq(Message)
        /\ recent' \in [Callers -> [kept : Seq(Message), on : BOOLEAN]]
        /\ failures' \in Nat
        /\ disabled' \in BOOLEAN
    BY <1>0, <1>7, SummaryTyped DEF EndReactive
  <2> QED
    BY <1>7, <2>1
       DEF EndReactive, SwitchOrRaise, CanFallBack, NextAttempt, Raise, TypeOK
<1>8. CASE MaxOutputHit
  BY <1>8 DEF MaxOutputHit, NextAttempt, Raise, TypeOK
<1>9. CASE UnknownError
  BY <1>9 DEF UnknownError, CanFallBack, NextAttempt, TypeOK
<1>10. CASE WakeUp
  BY <1>10 DEF WakeUp, NextAttempt, TypeOK
<1>11. CASE Answer
  <2>1. messages' \in Seq(Message)
    <3>1. Text(round + 1) \in Message
      BY DEF TypeOK, Text, Message, Kind
    <3>2. \A k \in 1..MaxCalls : Calls(round + 1, k) \in Message
      BY DEF TypeOK, Calls, Message, Kind
    <3>3. CASE messages' = Append(messages, Text(round + 1))
      BY <3>1, <3>3 DEF TypeOK
    <3>4. CASE \E k \in 1..MaxCalls :
                 messages' = Append(messages, Calls(round + 1, k))
      BY <3>2, <3>4 DEF TypeOK
    <3> QED
      BY <1>11, <3>3, <3>4 DEF Answer
  <2>2. budget' \in Budget
    BY <1>11, SpendTyped DEF Answer
  <2> QED
    BY <1>11, <2>1, <2>2 DEF Answer, TypeOK
<1>12. CASE ToolRefused
  BY <1>12 DEF ToolRefused, TypeOK
<1>13. CASE ToolStart
  BY <1>13 DEF ToolStart, TypeOK
<1>14. CASE ToolComplete
  BY <1>14 DEF ToolComplete, TypeOK
<1>15. CASE ToolsAnswered
  <2>1. messages' \in Seq(Message)
    BY <1>15 DEF ToolsAnswered, TypeOK, Results, Message, Kind
  <2> QED
    BY <1>15, <2>1 DEF ToolsAnswered, NextTurn, TypeOK
<1>16. CASE EndExtraction
  BY <1>16 DEF EndExtraction, NextTurn, TypeOK
<1>17. CASE Interrupt
  <2>1. NotCompacting \in [kept : Seq(Message), on : BOOLEAN]
    BY DEF NotCompacting
  <2>2. recent' \in [Callers -> [kept : Seq(Message), on : BOOLEAN]]
    BY <1>17, <2>1 DEF Interrupt, TypeOK
  <2>3. budget' \in Budget
    BY <1>17, SpendTyped DEF Interrupt, TypeOK
  <2> QED
    BY <1>17, <2>2, <2>3 DEF Interrupt, TypeOK
<1>18. CASE SlashCompact
  <2>1. recent' \in [Callers -> [kept : Seq(Message), on : BOOLEAN]]
    BY <1>0, <1>18, StartCompactTyped DEF SlashCompact
  <2> QED
    BY <1>18, <2>1 DEF SlashCompact, TypeOK
<1>19. CASE SlashCompacted
  <2>1. /\ messages' \in Seq(Message)
        /\ recent' \in [Callers -> [kept : Seq(Message), on : BOOLEAN]]
        /\ failures' \in Nat
        /\ disabled' \in BOOLEAN
    BY <1>0, <1>19, SummaryTyped DEF SlashCompacted
  <2> QED
    BY <1>19, <2>1 DEF SlashCompacted, TypeOK
<1>20. CASE SlashModel
  BY <1>20 DEF SlashModel, TypeOK
<1>21. CASE UNCHANGED vars
  BY <1>21 DEF vars, TypeOK
<1>22. CASE SpawnInBackground \/ SubAgentSpends
  BY <1>22 DEF SpawnInBackground, SubAgentSpends, Budget, TypeOK
<1> QED
  BY <1>1, <1>2, <1>3, <1>4, <1>5, <1>6, <1>7, <1>8, <1>9, <1>10, <1>11,
     <1>12, <1>13, <1>14, <1>15, <1>16, <1>17, <1>18, <1>19, <1>20, <1>21, <1>22
     DEF Next, LoopStep, UserStep

(***************************************************************************)
(* The state of the loop is well typed in every session, whatever the user *)
(* does meanwhile.                                                         *)
(***************************************************************************)
THEOREM TypeCorrect == Spec => []TypeOK
<1>1. Init => TypeOK /\ ToolIsPending
  BY TypeInit
<1>2. TypeOK /\ ToolIsPending /\ [Next]_vars => TypeOK' /\ ToolIsPending'
  BY TypeStep
<1> QED
  BY <1>1, <1>2, PTL DEF Spec

-----------------------------------------------------------------------------
(***************************************************************************)
(* Pairing of tool calls and results.  Between the two appends of a turn   *)
(* the last message is a call that waits for its results: `open`.          *)
(***************************************************************************)
PairedUpTo(ms, open) ==
    \A i \in 1..Len(ms) :
      /\ ms[i].kind = "call" =>
           AnswersPrevious(ms, i + 1) \/ (open /\ i = Len(ms))
      /\ ms[i].kind = "tool" => AnswersPrevious(ms, i)

(* A list that goes on after ms answers what ms answers.                   *)
LEMMA ExtensionAnswers ==
    ASSUME NEW ms, NEW t, Len(ms) \in Nat, Len(t) \in Nat,
           Len(ms) <= Len(t),
           \A i \in 1..Len(ms) : t[i] = ms[i],
           NEW i \in Int, AnswersPrevious(ms, i)
    PROVE  AnswersPrevious(t, i)
<1>1. i \in 2..Len(ms)
  BY DEF AnswersPrevious
<1>2. i \in 1..Len(ms) /\ i - 1 \in 1..Len(ms) /\ i \in 2..Len(t)
  BY <1>1
<1>3. t[i] = ms[i] /\ t[i - 1] = ms[i - 1]
  BY <1>2
<1> QED
  BY <1>2, <1>3 DEF AnswersPrevious

LEMMA AppendKeepsPairing ==
    ASSUME NEW ms \in Seq(Message), PairedUpTo(ms, FALSE),
           NEW m \in Message, m.kind # "tool"
    PROVE  /\ PairedUpTo(Append(ms, m), TRUE)
           /\ m.kind # "call" => PairedUpTo(Append(ms, m), FALSE)
<1> DEFINE t == Append(ms, m)
<1>1. /\ Len(t) = Len(ms) + 1
      /\ t[Len(ms) + 1] = m
      /\ \A i \in 1..Len(ms) : t[i] = ms[i]
  OBVIOUS
<1>2. \A i \in 1..Len(ms) :
        /\ t[i].kind = "call" => AnswersPrevious(t, i + 1)
        /\ t[i].kind = "tool" => AnswersPrevious(t, i)
  <2> SUFFICES ASSUME NEW i \in 1..Len(ms)
               PROVE  /\ t[i].kind = "call" => AnswersPrevious(t, i + 1)
                      /\ t[i].kind = "tool" => AnswersPrevious(t, i)
    OBVIOUS
  <2>1. /\ ms[i].kind = "call" => AnswersPrevious(ms, i + 1)
        /\ ms[i].kind = "tool" => AnswersPrevious(ms, i)
    BY DEF PairedUpTo
  <2>2. t[i] = ms[i] /\ Len(ms) \in Nat /\ Len(t) \in Nat /\ Len(ms) <= Len(t)
    BY <1>1
  <2>3. i \in Int /\ i + 1 \in Int
    OBVIOUS
  <2> HIDE DEF t
  <2> QED
    BY <1>1, <2>1, <2>2, <2>3, ExtensionAnswers
<1>3. \A i \in 1..Len(t) : i \in 1..Len(ms) \/ (i = Len(t) /\ t[i] = m)
  BY <1>1
<1> HIDE DEF t
<1>4. PairedUpTo(t, TRUE)
  BY <1>2, <1>3 DEF PairedUpTo
<1>5. m.kind # "call" => PairedUpTo(t, FALSE)
  BY <1>2, <1>3 DEF PairedUpTo
<1> QED
  BY <1>4, <1>5 DEF t

LEMMA ResultsClosePairing ==
    ASSUME NEW ms \in Seq(Message), PairedUpTo(ms, TRUE), Len(ms) > 0,
           NEW r \in Nat, NEW k \in Nat, ms[Len(ms)] = Calls(r, k)
    PROVE  PairedUpTo(Append(ms, Results(r, k)), FALSE)
<1> DEFINE t == Append(ms, Results(r, k))
<1>1. /\ Len(t) = Len(ms) + 1
      /\ t[Len(ms) + 1] = Results(r, k)
      /\ \A i \in 1..Len(ms) : t[i] = ms[i]
  OBVIOUS
<1>2. AnswersPrevious(t, Len(t))
  BY <1>1 DEF AnswersPrevious, Calls
<1> SUFFICES ASSUME NEW i \in 1..Len(t)
             PROVE  /\ t[i].kind = "call" => AnswersPrevious(t, i + 1)
                    /\ t[i].kind = "tool" => AnswersPrevious(t, i)
  BY DEF PairedUpTo
<1>3. CASE i = Len(t)
  BY <1>1, <1>2, <1>3 DEF Results
<1>4. CASE i \in 1..Len(ms)
  <2>1. /\ ms[i].kind = "call" =>
             AnswersPrevious(ms, i + 1) \/ i = Len(ms)
        /\ ms[i].kind = "tool" => AnswersPrevious(ms, i)
    BY <1>4 DEF PairedUpTo
  <2>2. i = Len(ms) => AnswersPrevious(t, i + 1)
    BY <1>1, <1>2
  <2>3. t[i] = ms[i] /\ Len(ms) \in Nat /\ Len(t) \in Nat /\ Len(ms) <= Len(t)
    BY <1>1, <1>4
  <2>4. i \in Int /\ i + 1 \in Int
    BY <1>4
  <2> HIDE DEF t
  <2> QED
    BY <1>1, <2>1, <2>2, <2>3, <2>4, ExtensionAnswers
<1> QED
  BY <1>1, <1>3, <1>4

(* kept is the end of ms from a message of role user on, KEEP_RECENT       *)
(* messages or more.                                                       *)
IsSafeTail(ms, kept) ==
    \E c \in 1..(Len(ms) - KeepRecent) :
      /\ c < Len(ms)
      /\ IsUserRole(ms[c + 1])
      /\ kept \in Seq(Message)
      /\ Len(kept) = Len(ms) - c
      /\ \A i \in 1..Len(kept) : kept[i] = ms[i + c]

LEMMA KeptIsSafeTail ==
    ASSUME NEW ms \in Seq(Message), NEW isDisabled,
           MayCompact(ms, isDisabled)
    PROVE  IsSafeTail(ms, RecentOf(ms))
  BY CutIsSafe, KeptIsSuffix DEF IsSafeTail

LEMMA CompactionKeepsPairing ==
    ASSUME NEW ms \in Seq(Message), PairedUpTo(ms, FALSE),
           NEW kept, IsSafeTail(ms, kept)
    PROVE  PairedUpTo(Compacted(kept), FALSE)
<1>1. PICK c \in 1..(Len(ms) - KeepRecent) :
        /\ c < Len(ms)
        /\ IsUserRole(ms[c + 1])
        /\ kept \in Seq(Message)
        /\ Len(kept) = Len(ms) - c
        /\ \A i \in 1..Len(kept) : kept[i] = ms[i + c]
  BY DEF IsSafeTail
<1> DEFINE t == Compacted(kept)
<1>3. /\ t \in Seq(Message)
      /\ Len(t) = Len(kept) + 1
      /\ t[1] = Summary
      /\ \A i \in 1..Len(kept) : t[i + 1] = kept[i]
  BY <1>1, CompactedShape
<1>4. /\ c \in Nat /\ Len(ms) \in Nat
      /\ \A i \in 2..Len(t) : t[i] = ms[i - 1 + c]
  <2>1. \A i \in 2..Len(t) : i - 1 \in 1..Len(kept) /\ t[i] = kept[i - 1]
    <3> SUFFICES ASSUME NEW i \in 2..Len(t)
                 PROVE  i - 1 \in 1..Len(kept) /\ t[i] = kept[i - 1]
      OBVIOUS
    <3>1. i - 1 \in 1..Len(kept) /\ (i - 1) + 1 = i
      BY <1>1, <1>3
    <3> HIDE DEF t
    <3> QED
      BY <1>3, <3>1
  <2> HIDE DEF t
  <2>2. c \in Nat /\ Len(ms) \in Nat
    BY CompactorAssumption
  <2> QED
    BY <1>1, <2>1, <2>2
<1> HIDE DEF t
<1> SUFFICES ASSUME NEW i \in 1..Len(t)
             PROVE  /\ t[i].kind = "call" => AnswersPrevious(t, i + 1)
                    /\ t[i].kind = "tool" => AnswersPrevious(t, i)
  BY DEF PairedUpTo, t
<1>5. CASE i = 1
  BY <1>3, <1>5 DEF Summary
<1>6. CASE i \in 2..Len(t)
  <2>1. i - 1 + c \in 1..Len(ms)
    BY <1>1, <1>3, <1>4, <1>6
  <2>2. /\ ms[i - 1 + c].kind = "call" => AnswersPrevious(ms, i + c)
        /\ ms[i - 1 + c].kind = "tool" => AnswersPrevious(ms, i - 1 + c)
    BY <1>4, <1>6, <2>1 DEF PairedUpTo
  <2>3. t[i] = ms[i - 1 + c]
    BY <1>4, <1>6
  <2>4. ASSUME t[i].kind = "call" PROVE AnswersPrevious(t, i + 1)
    <3>1. i + c \in 2..Len(ms) /\ ms[i + c] = Results(t[i].round, t[i].n)
      BY <1>4, <1>6, <2>2, <2>3, <2>4 DEF AnswersPrevious
    <3>2. i + 1 \in 2..Len(t)
      BY <1>1, <1>3, <1>4, <1>6, <3>1
    <3>3. t[i + 1] = ms[i + c]
      BY <1>4, <1>6, <3>2
    <3> QED
      BY <1>6, <2>4, <3>1, <3>2, <3>3 DEF AnswersPrevious
  <2>5. ASSUME t[i].kind = "tool" PROVE AnswersPrevious(t, i)
    <3>1. /\ ms[i - 2 + c].kind = "call"
          /\ t[i] = Results(ms[i - 2 + c].round, ms[i - 2 + c].n)
      BY <1>4, <1>6, <2>2, <2>3, <2>5 DEF AnswersPrevious
    <3>2. i # 2
      BY <1>1, <2>3, <2>5 DEF IsUserRole
    <3>3. i - 1 \in 2..Len(t) /\ t[i - 1] = ms[i - 2 + c]
      BY <1>3, <1>4, <1>6, <3>2
    <3> QED
      BY <1>6, <3>1, <3>3 DEF AnswersPrevious
  <2> QED
    BY <2>4, <2>5
<1> QED
  BY <1>3, <1>5, <1>6

(***************************************************************************)
(* A session in which /compact is not used: what a compaction holds is the *)
(* end of the list as it is, whoever interrupts and changes the model.     *)
(***************************************************************************)
CompactionInProgress ==
    /\ ~recent["slash"].on
    /\ pc \in {"compact", "recompact"} => recent["loop"].on
    /\ recent["loop"].on =>
         /\ pc \in {"compact", "recompact"}
         /\ IsSafeTail(messages, recent["loop"].kept)

TailInv == TypeOK /\ ToolIsPending /\ CompactionInProgress

LEMMA TailInit == Init => TailInv
  BY TypeInit DEF Init, TailInv, CompactionInProgress, NotCompacting, Callers

LEMMA StartCompactTail ==
    ASSUME TailInv, StartCompact("loop"), UNCHANGED messages
    PROVE  /\ IsSafeTail(messages', recent'["loop"].kept)
           /\ recent'["loop"].on
           /\ ~recent'["slash"].on
<1>1. IsSafeTail(messages, RecentOf(messages))
  BY KeptIsSafeTail DEF TailInv, TypeOK, StartCompact
<1> QED
  BY <1>1 DEF TailInv, TypeOK, StartCompact, CompactionInProgress, Callers

LEMMA SummaryEnds ==
    ASSUME TailInv, SummaryArrives("loop") \/ SummaryFails("loop")
    PROVE  ~recent'["loop"].on /\ ~recent'["slash"].on
  BY DEF TailInv, TypeOK, SummaryArrives, SummaryFails, NotCompacting,
         CompactionInProgress, Callers

LEMMA TailStep ==
    ASSUME "compact" \notin UserActions
    PROVE  TailInv /\ [Next]_vars => TailInv'
<1> SUFFICES ASSUME TailInv, [Next]_vars
             PROVE  CompactionInProgress'
  BY TypeStep DEF TailInv
<1>a. ASSUME UNCHANGED <<messages, recent>>,
             pc \notin {"compact", "recompact"},
             pc' \notin {"compact", "recompact"}
      PROVE  CompactionInProgress'
  BY <1>a DEF TailInv, CompactionInProgress
<1>b. ASSUME ~recent'["loop"].on, ~recent'["slash"].on,
             pc' \notin {"compact", "recompact"}
      PROVE  CompactionInProgress'
  BY <1>b DEF CompactionInProgress
<1> USE DEF recovery, breaker, calls, cost, session
<1>1. CASE Submit \/ Answer \/ ToolsAnswered
  <2>1. /\ UNCHANGED recent
        /\ pc \notin {"compact", "recompact"}
        /\ pc' \notin {"compact", "recompact"}
    BY <1>1 DEF Submit, Answer, ToolsAnswered, NextTurn
  <2> QED
    BY <1>b, <2>1 DEF TailInv, CompactionInProgress
<1>2. CASE CheckCompaction
  <2>1. CASE StartCompact("loop") /\ pc' = "compact"
    <3>1. UNCHANGED messages
      BY <1>2 DEF CheckCompaction, BeginCall
    <3> QED
      BY <2>1, <3>1, StartCompactTail DEF CompactionInProgress
  <2>2. CASE UNCHANGED recent /\ pc' = "request"
    BY <1>2, <1>a, <2>2 DEF CheckCompaction, BeginCall
  <2> QED
    BY <1>2, <2>1, <2>2 DEF CheckCompaction, BeginCall
<1>3. CASE EndCompaction
  <2>1. pc' = "request"
    BY <1>3 DEF EndCompaction, BeginCall
  <2> QED
    BY <1>3, <1>b, <2>1, SummaryEnds DEF EndCompaction
<1>4. CASE \/ Request \/ RateLimited \/ MaxOutputHit \/ UnknownError
           \/ WakeUp \/ EndExtraction
           \/ ToolRefused \/ ToolStart \/ ToolComplete
  <2>1. /\ UNCHANGED <<messages, recent>>
        /\ pc \notin {"compact", "recompact"}
        /\ pc' \notin {"compact", "recompact"}
    BY <1>4 DEF Request, RateLimited, MaxOutputHit, UnknownError, WakeUp,
                EndExtraction, NextAttempt, Raise, NextTurn,
                ToolRefused, ToolStart, ToolComplete
  <2> QED
    BY <1>a, <2>1
<1>5. CASE PromptTooLong
  <2>1. CASE StartCompact("loop") /\ pc' = "recompact"
    <3>1. UNCHANGED messages
      BY <1>5 DEF PromptTooLong, SwitchOrRaise, NextAttempt, Raise
    <3> QED
      BY <2>1, <3>1, StartCompactTail DEF CompactionInProgress
  <2>2. CASE UNCHANGED recent /\ SwitchOrRaise
    <3>1. /\ UNCHANGED messages
          /\ pc \notin {"compact", "recompact"} /\ pc' \notin {"compact", "recompact"}
      BY <1>5, <2>2 DEF PromptTooLong, SwitchOrRaise, NextAttempt, Raise
    <3> QED
      BY <1>a, <2>2, <3>1
  <2> QED
    BY <1>5, <2>1, <2>2 DEF PromptTooLong
<1>6. CASE EndReactive
  <2>1. pc' \notin {"compact", "recompact"}
    BY <1>6 DEF EndReactive, SwitchOrRaise, NextAttempt, Raise
  <2> QED
    BY <1>6, <1>b, <2>1, SummaryEnds DEF EndReactive
<1>7. CASE Interrupt
  BY <1>7, <1>b DEF Interrupt, NotCompacting, Callers, TailInv, TypeOK, CompactionInProgress
<1>8. CASE SlashCompact \/ SlashCompacted
  BY <1>8 DEF SlashCompact, SlashCompacted, TailInv, CompactionInProgress
<1>9. CASE \/ SlashModel \/ SpawnInBackground \/ SubAgentSpends
           \/ UNCHANGED vars
  <2>1. UNCHANGED <<messages, recent, pc>>
    BY <1>9 DEF SlashModel, SpawnInBackground, SubAgentSpends, vars
  <2> QED
    BY <2>1 DEF TailInv, CompactionInProgress
<1> QED
  BY <1>1, <1>2, <1>3, <1>4, <1>5, <1>6, <1>7, <1>8, <1>9 DEF Next, LoopStep, UserStep

(***************************************************************************)
(* A session in which nobody interrupts either: the list is paired, but    *)
(* for the call that the tools are about to answer.                        *)
(***************************************************************************)
AwaitsResults == pc \in {"tools", "tool"}

Pairing ==
    /\ AwaitsResults => PairedUpTo(messages, TRUE)
    /\ ~AwaitsResults => PairedUpTo(messages, FALSE)

OpenCallIsLast ==
    AwaitsResults =>
      /\ Len(messages) > 0
      /\ messages[Len(messages)] = Calls(round, todo + results)

QuietInv == TailInv /\ Pairing /\ OpenCallIsLast

LEMMA QuietInit == Init => QuietInv
<1>1. ASSUME Init PROVE Pairing /\ OpenCallIsLast
  BY <1>1 DEF Init, PairedUpTo, Pairing, OpenCallIsLast, AwaitsResults
<1> QED
  BY <1>1, TailInit DEF QuietInv

(* A step that leaves the list alone and stays on one side of the tools.   *)
LEMMA ListUntouched ==
    ASSUME QuietInv, UNCHANGED messages, AwaitsResults' <=> AwaitsResults
    PROVE  Pairing'
  BY DEF QuietInv, Pairing

LEMMA SummaryPairs ==
    ASSUME QuietInv, pc \in {"compact", "recompact"},
           SummaryArrives("loop") \/ SummaryFails("loop")
    PROVE  PairedUpTo(messages', FALSE)
<1>1. PairedUpTo(messages, FALSE) /\ recent["loop"].on
  BY DEF QuietInv, TailInv, AwaitsResults, Pairing, CompactionInProgress
<1>2. PairedUpTo(Compacted(recent["loop"].kept), FALSE)
  BY <1>1, CompactionKeepsPairing DEF QuietInv, TailInv, TypeOK, CompactionInProgress
<1>3. CASE SummaryArrives("loop")
  BY <1>2, <1>3 DEF SummaryArrives
<1>4. CASE SummaryFails("loop")
  <2>1. messages' = messages
    BY <1>4 DEF SummaryFails
  <2> QED
    BY <1>1, <2>1
<1> QED
  BY <1>3, <1>4

LEMMA QuietStep ==
    ASSUME UserActions \subseteq {"model"}
    PROVE  QuietInv /\ [Next]_vars => QuietInv'
<1> SUFFICES ASSUME QuietInv, [Next]_vars
             PROVE  Pairing' /\ OpenCallIsLast'
  BY TailStep DEF QuietInv
<1> USE DEF recovery, breaker, calls, cost, session
<1>1. CASE Submit
  <2>1. Prompt \in Message /\ Prompt.kind = "user"
    BY DEF Prompt, Message, Kind
  <2>2. PairedUpTo(messages', FALSE)
    BY <1>1, <2>1, AppendKeepsPairing
       DEF Submit, QuietInv, TailInv, TypeOK, AwaitsResults, Pairing
  <2> QED
    BY <1>1, <2>2 DEF Submit, AwaitsResults, Pairing, OpenCallIsLast
<1>2. CASE CheckCompaction \/ PromptTooLong
  <2>1. UNCHANGED messages /\ ~AwaitsResults /\ ~AwaitsResults'
    BY <1>2 DEF CheckCompaction, BeginCall, PromptTooLong, SwitchOrRaise, NextAttempt,
                Raise, AwaitsResults
  <2> QED
    BY <2>1, ListUntouched DEF OpenCallIsLast
<1>3. CASE EndCompaction \/ EndReactive
  <2>1. ~AwaitsResults'
    BY <1>3 DEF EndCompaction, BeginCall, EndReactive, SwitchOrRaise, NextAttempt,
                Raise, AwaitsResults
  <2>2. PairedUpTo(messages', FALSE)
    BY <1>3, SummaryPairs DEF EndCompaction, EndReactive
  <2> QED
    BY <2>1, <2>2 DEF OpenCallIsLast, Pairing
<1>4. CASE \/ Request \/ RateLimited \/ MaxOutputHit \/ UnknownError
           \/ WakeUp \/ EndExtraction
  <2>1. UNCHANGED messages /\ ~AwaitsResults /\ ~AwaitsResults'
    BY <1>4 DEF Request, RateLimited, MaxOutputHit, UnknownError, WakeUp,
                EndExtraction, NextAttempt, Raise, NextTurn, AwaitsResults
  <2> QED
    BY <2>1, ListUntouched DEF OpenCallIsLast
<1>5. CASE Answer
  <2>1. PairedUpTo(messages, FALSE)
    BY <1>5 DEF Answer, QuietInv, Pairing, AwaitsResults
  <2>2. messages \in Seq(Message) /\ round + 1 \in Nat
    BY DEF QuietInv, TailInv, TypeOK
  <2>3. CASE messages' = Append(messages, Text(round + 1)) /\ pc' = "idle"
    <3>1. Text(round + 1) \in Message /\ Text(round + 1).kind = "text"
      BY <2>2 DEF Text, Message, Kind
    <3>2. PairedUpTo(messages', FALSE)
      BY <2>1, <2>2, <2>3, <3>1, AppendKeepsPairing
    <3> QED
      BY <2>3, <3>2 DEF AwaitsResults, Pairing, OpenCallIsLast
  <2>4. ASSUME NEW k \in 1..MaxCalls,
               messages' = Append(messages, Calls(round + 1, k)),
               todo' = k, results' = 0, pc' = "tools", round' = round + 1
        PROVE  Pairing' /\ OpenCallIsLast'
    <3>1. Calls(round + 1, k) \in Message /\ Calls(round + 1, k).kind = "call"
      BY <2>2, LoopAssumption DEF Calls, Message, Kind
    <3>2. PairedUpTo(messages', TRUE)
      BY <2>1, <2>2, <2>4, <3>1, AppendKeepsPairing
    <3>3. Len(messages') > 0 /\ messages'[Len(messages')] = Calls(round', k)
      BY <2>2, <2>4
    <3>4. todo' + results' = k
      BY <2>4, LoopAssumption
    <3> QED
      BY <2>4, <3>2, <3>3, <3>4 DEF AwaitsResults, Pairing, OpenCallIsLast
  <2> QED
    BY <1>5, <2>3, <2>4 DEF Answer
<1>6. CASE ToolRefused \/ ToolStart \/ ToolComplete
  <2>1. /\ UNCHANGED <<messages, round>>
        /\ pc \in {"tools", "tool"} /\ pc' \in {"tools", "tool"}
        /\ todo' + results' = todo + results
    BY <1>6 DEF ToolRefused, ToolStart, ToolComplete, QuietInv, TailInv, TypeOK
  <2> QED
    BY <2>1, ListUntouched DEF QuietInv, AwaitsResults, OpenCallIsLast
<1>7. CASE ToolsAnswered
  <2>1. /\ messages \in Seq(Message) /\ Len(messages) > 0
        /\ PairedUpTo(messages, TRUE)
        /\ messages[Len(messages)] = Calls(round, results)
        /\ round \in Nat /\ results \in Nat
    <3>1. pc = "tools" /\ todo = 0
      BY <1>7 DEF ToolsAnswered
    <3>2. todo + results = results /\ round \in Nat /\ results \in Nat
      BY <3>1 DEF QuietInv, TailInv, TypeOK
    <3>3. AwaitsResults
      BY <3>1 DEF AwaitsResults
    <3> QED
      BY <3>2, <3>3 DEF QuietInv, TailInv, TypeOK, Pairing, OpenCallIsLast
  <2>2. PairedUpTo(messages', FALSE)
    BY <1>7, <2>1, ResultsClosePairing DEF ToolsAnswered
  <2>3. pc' \in {"idle", "extract", "turn"}
    BY <1>7 DEF ToolsAnswered, NextTurn
  <2> QED
    BY <2>2, <2>3 DEF AwaitsResults, Pairing, OpenCallIsLast
<1>8. CASE Interrupt \/ SlashCompact \/ SlashCompacted
  BY <1>8 DEF Interrupt, SlashCompact, SlashCompacted,
              QuietInv, TailInv, CompactionInProgress
<1>9. CASE \/ SlashModel \/ SpawnInBackground \/ SubAgentSpends
           \/ UNCHANGED vars
  <2>1. UNCHANGED <<messages, pc, round, todo, results>>
    BY <1>9 DEF SlashModel, SpawnInBackground, SubAgentSpends, vars
  <2> QED
    BY <2>1 DEF QuietInv, AwaitsResults, Pairing, OpenCallIsLast
<1> QED
  BY <1>1, <1>2, <1>3, <1>4, <1>5, <1>6, <1>7, <1>8, <1>9 DEF Next, LoopStep, UserStep

(***************************************************************************)
(* What a session sends to the model is well paired, for every KEEP_RECENT *)
(* and every bound, as long as the user neither interrupts it nor uses     *)
(* /compact.                                                               *)
(***************************************************************************)
THEOREM RequestsWellFormed ==
    ASSUME UserActions \subseteq {"model"}
    PROVE  Spec => []RequestWellFormed
<1>1. Init => QuietInv
  BY QuietInit
<1>2. QuietInv /\ [Next]_vars => QuietInv'
  BY QuietStep
<1>3. QuietInv => RequestWellFormed
  BY DEF QuietInv, PairedUpTo, AwaitsResults, Pairing, RequestWellFormed, WellPaired
<1> QED
  BY <1>1, <1>2, <1>3, PTL DEF Spec

-----------------------------------------------------------------------------
LEMMA TailSurvives ==
    ASSUME NEW ms \in Seq(Message), NEW kept, IsSafeTail(ms, kept)
    PROVE  LastOf(Compacted(kept), KeepRecent) = LastOf(ms, KeepRecent)
<1>1. PICK c \in 1..(Len(ms) - KeepRecent) :
        /\ c < Len(ms)
        /\ kept \in Seq(Message)
        /\ Len(kept) = Len(ms) - c
        /\ \A i \in 1..Len(kept) : kept[i] = ms[i + c]
  BY DEF IsSafeTail
<1> DEFINE t == Compacted(kept)
<1>3. /\ t \in Seq(Message)
      /\ Len(t) = Len(kept) + 1
      /\ \A i \in 1..Len(kept) : t[i + 1] = kept[i]
  BY <1>1, CompactedShape
<1> HIDE DEF t
<1>4. KeepRecent \in Nat /\ c \in Nat /\ KeepRecent <= Len(kept)
  BY <1>1, CompactorAssumption
<1>5. \A i \in 1..KeepRecent :
        t[Len(t) - KeepRecent + i] = ms[Len(ms) - KeepRecent + i]
  <2> SUFFICES ASSUME NEW i \in 1..KeepRecent
               PROVE  t[Len(t) - KeepRecent + i] = ms[Len(ms) - KeepRecent + i]
    OBVIOUS
  <2> DEFINE j == Len(kept) - KeepRecent + i
  <2>1. /\ j \in 1..Len(kept)
        /\ j + 1 = Len(t) - KeepRecent + i
        /\ j + c = Len(ms) - KeepRecent + i
    BY <1>1, <1>3, <1>4
  <2> HIDE DEF j
  <2>2. t[j + 1] = kept[j] /\ kept[j] = ms[j + c]
    BY <1>1, <1>3, <2>1
  <2> QED
    BY <2>1, <2>2
<1>6. \A s \in Seq(Message) : KeepRecent <= Len(s) =>
        /\ LastOf(s, KeepRecent) \in Seq(Message)
        /\ Len(LastOf(s, KeepRecent)) = KeepRecent
        /\ \A i \in 1..KeepRecent :
             LastOf(s, KeepRecent)[i] = s[Len(s) - KeepRecent + i]
  BY <1>4 DEF LastOf
<1>7. KeepRecent <= Len(t) /\ KeepRecent <= Len(ms)
  BY <1>1, <1>3, <1>4
<1>8. /\ LastOf(t, KeepRecent) \in Seq(Message)
      /\ LastOf(ms, KeepRecent) \in Seq(Message)
      /\ Len(LastOf(t, KeepRecent)) = Len(LastOf(ms, KeepRecent))
      /\ \A i \in 1..Len(LastOf(t, KeepRecent)) :
           LastOf(t, KeepRecent)[i] = LastOf(ms, KeepRecent)[i]
  <2>1. /\ LastOf(t, KeepRecent) \in Seq(Message)
        /\ Len(LastOf(t, KeepRecent)) = KeepRecent
        /\ \A i \in 1..KeepRecent :
             LastOf(t, KeepRecent)[i] = t[Len(t) - KeepRecent + i]
    BY <1>3, <1>6, <1>7
  <2>2. /\ LastOf(ms, KeepRecent) \in Seq(Message)
        /\ Len(LastOf(ms, KeepRecent)) = KeepRecent
        /\ \A i \in 1..KeepRecent :
             LastOf(ms, KeepRecent)[i] = ms[Len(ms) - KeepRecent + i]
    BY <1>6, <1>7
  <2> QED
    BY <1>5, <2>1, <2>2
<1>9. LastOf(t, KeepRecent) = LastOf(ms, KeepRecent)
  BY <1>8, SeqEqual
<1> QED
  BY <1>9 DEF t

(***************************************************************************)
(* A compaction that succeeds keeps the last KEEP_RECENT messages of the   *)
(* list as it is when it ends, for every KEEP_RECENT and whatever the user *)
(* interrupts, in a session in which /compact is not used.                 *)
(***************************************************************************)
THEOREM RecentMessagesKept ==
    ASSUME "compact" \notin UserActions
    PROVE  Spec => KeepsRecent
<1>1. Init => TailInv
  BY TailInit
<1>2. TailInv /\ [Next]_vars => TailInv'
  BY TailStep
<1>3. TailInv /\ [Next]_vars
        => \A c \in Callers :
             recent[c].on /\ ~recent'[c].on /\ messages' # messages
               => LastOf(messages', KeepRecent) = LastOf(messages, KeepRecent)
  <2> SUFFICES ASSUME TailInv, [Next]_vars, NEW c \in Callers,
                      recent[c].on, messages' # messages
               PROVE  LastOf(messages', KeepRecent) = LastOf(messages, KeepRecent)
    OBVIOUS
  <2>1. /\ c = "loop"
        /\ pc \in {"compact", "recompact"}
        /\ IsSafeTail(messages, recent["loop"].kept)
    BY DEF TailInv, CompactionInProgress, Callers
  <2>2. EndCompaction \/ EndReactive
    BY <2>1 DEF Next, LoopStep, UserStep, vars, Submit, CheckCompaction,
                Request, Answer, RateLimited, PromptTooLong, MaxOutputHit,
                UnknownError, WakeUp, ToolRefused, ToolStart, ToolComplete,
                ToolsAnswered, EndExtraction, Interrupt, SlashCompact,
                SlashCompacted, SlashModel, SpawnInBackground, SubAgentSpends,
                TailInv, CompactionInProgress
  <2>3. messages' = Compacted(recent["loop"].kept)
    BY <2>2 DEF EndCompaction, EndReactive, SummaryArrives, SummaryFails
  <2>4. messages \in Seq(Message)
    BY DEF TailInv, TypeOK
  <2> QED
    BY <2>1, <2>3, <2>4, TailSurvives
<1> QED
  BY <1>1, <1>2, <1>3, PTL DEF Spec, KeepsRecent

-----------------------------------------------------------------------------
(***************************************************************************)
(* The requests a run has sent over budget are attempts of the turn it is  *)
(* in: before its request a turn begins with none, since the turn before   *)
(* did not end over budget.  Between the tools and the next request only a *)
(* sub-agent spends, and the count is not touched.                         *)
(***************************************************************************)
SpentInv ==
    /\ overspent > 0 => OverBudget
    /\ pc \in {"turn", "compact", "extract"} => overspent = 0
    /\ pc = "request" => overspent <= attempt
    /\ pc \in {"model", "backoff", "recompact"} => overspent <= attempt + 1
    /\ BudgetStops

LEMMA SpentInit == Init => SpentInv
  BY LoopAssumption DEF Init, SpentInv, OverBudget, BudgetStops

(* The ways an attempt that failed goes on, or ends the run.               *)
LEMMA AttemptCounted ==
    ASSUME TypeOK, SpentInv, UNCHANGED cost,
           pc \in {"model", "backoff", "recompact"},
           NextAttempt \/ Raise \/ SwitchOrRaise
    PROVE  SpentInv'
<1>1. /\ overspent <= attempt + 1 /\ attempt \in 0..(MaxRetries - 1)
      /\ overspent \in Nat /\ BudgetStops
  BY DEF SpentInv, TypeOK
<1>2. \/ pc' = "request" /\ attempt' = attempt + 1
      \/ pc' = "idle"
  BY DEF NextAttempt, Raise, SwitchOrRaise
<1> QED
  BY <1>1, <1>2 DEF SpentInv, OverBudget, BudgetStops, cost

LEMMA SpentStep == TypeOK /\ SpentInv /\ [Next]_vars => SpentInv'
<1> SUFFICES ASSUME TypeOK, SpentInv, [Next]_vars PROVE SpentInv'  OBVIOUS
<1> USE LoopAssumption DEF cost, session, OverBudget, BudgetStops
<1>1. CASE CheckCompaction \/ EndCompaction
  <2>1. /\ UNCHANGED cost
        /\ overspent = 0
        /\ pc' \in {"compact", "request"}
        /\ pc' = "request" => attempt' = 0
    BY <1>1 DEF CheckCompaction, EndCompaction, BeginCall, SpentInv
  <2>2. QED  BY <2>1 DEF SpentInv
<1>2. CASE Request
  <2>1. /\ overspent <= attempt /\ attempt \in 0..(MaxRetries - 1)
        /\ overspent \in Nat
    BY <1>2 DEF Request, SpentInv, TypeOK
  <2>2. /\ UNCHANGED <<budget, attempt>>
        /\ pc' = "model"
        /\ overspent' = IF OverBudget THEN overspent + 1 ELSE overspent
    BY <1>2 DEF Request, recovery
  <2>3. QED  BY <2>1, <2>2 DEF SpentInv
<1>3. CASE RateLimited
  <2>1. UNCHANGED <<cost, attempt>> /\ pc = "model" /\ pc' = "backoff"
    BY <1>3 DEF RateLimited
  <2>2. QED  BY <2>1 DEF SpentInv
<1>4. CASE PromptTooLong
  <2>1. CASE SwitchOrRaise
    BY <1>4, <2>1, AttemptCounted DEF PromptTooLong
  <2>2. CASE pc' = "recompact" /\ UNCHANGED attempt
    BY <1>4, <2>2 DEF PromptTooLong, SpentInv
  <2>3. QED  BY <1>4, <2>1, <2>2 DEF PromptTooLong
<1>5. CASE EndReactive \/ WakeUp
  BY <1>5, AttemptCounted DEF EndReactive, WakeUp
<1>6. CASE MaxOutputHit
  BY <1>6, AttemptCounted DEF MaxOutputHit
<1>7. CASE UnknownError
  <2>1. CASE NextAttempt
    BY <1>7, <2>1, AttemptCounted DEF UnknownError
  <2>2. CASE pc' = "backoff" /\ UNCHANGED attempt
    BY <1>7, <2>2 DEF UnknownError, SpentInv
  <2>3. QED  BY <1>7, <2>1, <2>2 DEF UnknownError
<1>8. CASE Answer
  <2>1. pc' \in {"idle", "tools"} /\ UNCHANGED overspent /\ Spend
    BY <1>8 DEF Answer
  <2>2. QED  BY <2>1 DEF Spend, SpentInv
<1>9. CASE ToolRefused \/ ToolStart \/ ToolComplete
  <2>1. pc' \in {"tools", "tool"} /\ UNCHANGED cost
    BY <1>9 DEF ToolRefused, ToolStart, ToolComplete
  <2>2. QED  BY <2>1 DEF SpentInv
<1>10. CASE ToolsAnswered
  <2>1. /\ UNCHANGED cost
        /\ pc' \in {"idle", "extract", "turn"}
        /\ OverBudget => pc' = "idle"
    BY <1>10 DEF ToolsAnswered, NextTurn
  <2>2. overspent \in Nat
    BY DEF TypeOK
  <2>3. QED  BY <2>1, <2>2 DEF SpentInv
<1>11. CASE EndExtraction
  <2>1. UNCHANGED cost /\ pc = "extract" /\ pc' \in {"turn", "idle"}
    BY <1>11 DEF EndExtraction, NextTurn
  <2>2. QED  BY <2>1 DEF SpentInv
<1>12. CASE Submit
  BY <1>12 DEF Submit, SpentInv
<1>13. CASE Interrupt
  BY <1>13 DEF Interrupt, Spend, SpentInv
<1>14. CASE \/ SlashCompact \/ SlashCompacted \/ SlashModel
            \/ UNCHANGED vars
  <2>1. UNCHANGED <<pc, attempt, cost>>
    BY <1>14 DEF SlashCompact, SlashCompacted, SlashModel, recovery, vars
  <2>2. QED  BY <2>1 DEF SpentInv
<1>15. CASE SpawnInBackground \/ SubAgentSpends
  <2>1. /\ UNCHANGED <<pc, attempt, overspent>>
        /\ OverBudget => OverBudget'
    BY <1>15 DEF SpawnInBackground, SubAgentSpends, recovery
  <2>2. QED  BY <2>1 DEF SpentInv
<1>16. QED
  BY <1>1, <1>2, <1>3, <1>4, <1>5, <1>6, <1>7, <1>8, <1>9, <1>10, <1>11,
     <1>12, <1>13, <1>14, <1>15 DEF Next, LoopStep, UserStep

(***************************************************************************)
(* Over budget, a run sends at most the MAX_RETRIES requests of one turn,  *)
(* for every bound, whatever the user does meanwhile, and whoever reaches  *)
(* the budget at whatever await, the session's sub-agents included         *)
(* (query_loop.py:251): the property BudgetStops.                          *)
(***************************************************************************)
THEOREM BudgetIsKept == Spec => []BudgetStops
<1>1. Init => TypeOK /\ ToolIsPending /\ SpentInv
  BY TypeInit, SpentInit
<1>2. TypeOK /\ ToolIsPending /\ SpentInv /\ [Next]_vars
        => (TypeOK /\ ToolIsPending /\ SpentInv)'
  BY TypeStep, SpentStep
<1>3. SpentInv => BudgetStops
  BY DEF SpentInv
<1>4. QED  BY <1>1, <1>2, <1>3, PTL DEF Spec
=============================================================================
