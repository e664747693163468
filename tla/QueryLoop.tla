----------------------------- MODULE QueryLoop -----------------------------
(***************************************************************************)
(* The agent's turn loop (src/src/agent/query_loop.py) with its error      *)
(* recovery, its compactor and the user who drives it from the TUI         *)
(* (src/src/tui/app.py).                                                   *)
(*                                                                         *)
(* The loop is one coroutine; a state of pc is a point at which it awaits, *)
(* and a step of the user may come between any two of them.                *)
(*                                                                         *)
(*   idle      no run of the loop is in progress                           *)
(*   turn      top of the for loop, before the compaction check            *)
(*   compact   awaiting the summary of a compaction before the request     *)
(*   request   about to convert the message list and call the model        *)
(*   model     awaiting the model                                          *)
(*   recompact awaiting the summary of a reactive compaction               *)
(*   backoff   sleeping before the next attempt                            *)
(*   tools     between two tool calls of a response                        *)
(*   tool      awaiting a tool                                             *)
(*   extract   awaiting the memory extraction at the end of a turn         *)
(***************************************************************************)
EXTENDS AutoCompact

CONSTANTS
    Models, Primary, Fallback, NoModel,
    MaxTurns,      \* max_turns, 200 by default
    MaxRetries,    \* MAX_RETRIES, 3 in the code
    MaxOutLimit,   \* MAX_OUTPUT_TOKENS_RECOVERY_LIMIT, 3 in the code
    UserActions,   \* what the user does beside submitting prompts
    MaxPrompts,    \* bound: prompts submitted in the session
    MaxCalls       \* bound: tool calls in one response

ASSUME LoopAssumption ==
    /\ Primary \in Models
    /\ NoModel \notin Models
    /\ Fallback \in Models \cup {NoModel}
    /\ MaxTurns \in Nat \ {0}
    /\ MaxRetries \in Nat \ {0}
    /\ MaxOutLimit \in Nat
    /\ UserActions \subseteq {"interrupt", "compact", "model"}
    /\ MaxPrompts \in Nat
    /\ MaxCalls \in Nat \ {0}

VARIABLES
    pc,
    messages,      \* self.messages
    turn,          \* turn of the for loop
    attempt,       \* attempt in _call_llm_with_recovery
    current,       \* self._current_model
    outHits,       \* self._max_output_recovery_count
    reactiveTried, \* self._has_attempted_reactive_compact
    failures,      \* compactor._failure_count
    disabled,      \* compactor._disabled
    recent,        \* what each compaction in progress will keep, by caller
    round,         \* responses received so far, to name messages
    todo,          \* tool calls of the response not yet answered
    results,       \* len(results) in _execute_tool_calls
    budget,        \* cost_tracker against its budget, see Spend
    overspent,     \* requests this run has sent over budget
    prompts,       \* runs started so far
    outcome        \* how the last run ended

recovery == <<attempt, current, outHits, reactiveTried>>
breaker == <<failures, disabled>>
calls == <<todo, results>>
cost == <<budget, overspent>>
session == <<turn, round, cost, prompts, outcome>>
vars == <<pc, messages, recent, recovery, breaker, calls, session>>

Pc == {"idle", "turn", "compact", "request", "model", "recompact",
       "backoff", "tools", "tool", "extract"}

Outcome == {"none", "text", "error", "budget", "turns", "interrupted"}

Callers == {"loop", "slash"}

(* What the budget still allows.  "shared" is left, with a background      *)
(* sub-agent that records its cost on the session's tracker.               *)
Budget == {"left", "shared", "spent"}

(* cost_tracker.is_over_budget()                                           *)
OverBudget == budget = "spent"

(* No compaction of that caller is in progress.                            *)
NotCompacting == [kept |-> <<>>, on |-> FALSE]

TypeOK ==
    /\ pc \in Pc
    /\ messages \in Seq(Message)
    /\ recent \in [Callers -> [kept : Seq(Message), on : BOOLEAN]]
    /\ turn \in 0..(MaxTurns - 1)
    /\ attempt \in 0..(MaxRetries - 1)
    /\ current \in Models
    /\ outHits \in Nat
    /\ reactiveTried \in BOOLEAN
    /\ failures \in Nat
    /\ disabled \in BOOLEAN
    /\ round \in Nat
    /\ todo \in Nat
    /\ results \in Nat
    /\ budget \in Budget
    /\ overspent \in Nat
    /\ prompts \in 0..MaxPrompts
    /\ outcome \in Outcome

Init ==
    /\ pc = "idle"
    /\ messages = <<>>
    /\ recent = [c \in Callers |-> NotCompacting]
    /\ turn = 0
    /\ attempt = 0
    /\ current = Primary
    /\ outHits = 0
    /\ reactiveTried = FALSE
    /\ failures = 0
    /\ disabled = FALSE
    /\ round = 0
    /\ todo = 0
    /\ results = 0
    /\ budget = "left"
    /\ overspent = 0
    /\ prompts = 0
    /\ outcome = "none"

(***************************************************************************)
(* AutoCompactor.compact, called by the loop or by /compact: it refuses at *)
(* once, or takes the recent part and awaits the summary, which arrives or *)
(* fails.                                                                  *)
(***************************************************************************)
StartCompact(caller) ==
    /\ MayCompact(messages, disabled)
    /\ recent' = [recent EXCEPT ![caller] =
                    [kept |-> RecentOf(messages), on |-> TRUE]]

SummaryArrives(caller) ==
    /\ messages' = Compacted(recent[caller].kept)
    /\ failures' = 0
    /\ disabled' = disabled
    /\ recent' = [recent EXCEPT ![caller] = NotCompacting]

SummaryFails(caller) ==
    /\ failures' = failures + 1
    /\ disabled' = (disabled \/ failures + 1 >= MaxFailures)
    /\ recent' = [recent EXCEPT ![caller] = NotCompacting]
    /\ UNCHANGED messages

(***************************************************************************)
(* run(): a prompt is appended and the turns begin.  The TUI submits from  *)
(* the app's message pump, which a pending /compact blocks.                *)
(***************************************************************************)
Submit ==
    /\ pc = "idle"
    /\ ~recent["slash"].on
    /\ prompts < MaxPrompts
    /\ messages' = Append(messages, Prompt)
    /\ prompts' = prompts + 1
    /\ turn' = 0
    /\ pc' = "turn"
    /\ outcome' = "none"
    /\ overspent' = 0
    /\ UNCHANGED <<recent, recovery, breaker, calls, round, budget>>

(* The compaction check at the top of a turn; a refusal is not reported.   *)
BeginCall == pc' = "request" /\ attempt' = 0

CheckCompaction ==
    /\ pc = "turn"
    /\ \E pressure \in Pressure :
         IF \/ ShouldCompact(messages, disabled, pressure)
            \/ ShouldMicroCompact(messages, disabled, pressure)
           THEN \/ /\ StartCompact("loop")
                   /\ pc' = "compact"
                   /\ UNCHANGED attempt
                \/ /\ ~MayCompact(messages, disabled)
                   /\ BeginCall
                   /\ UNCHANGED recent
           ELSE BeginCall /\ UNCHANGED recent
    /\ UNCHANGED <<messages, current, outHits, reactiveTried,
                   breaker, calls, session>>

EndCompaction ==
    /\ pc = "compact"
    /\ SummaryArrives("loop") \/ SummaryFails("loop")
    /\ BeginCall
    /\ UNCHANGED <<current, outHits, reactiveTried, calls, session>>

(***************************************************************************)
(* _call_llm_with_recovery: one attempt is Request and then an answer or   *)
(* an error of one of four classes.                                        *)
(***************************************************************************)
Request ==
    /\ pc = "request"
    /\ pc' = "model"
    /\ overspent' = IF OverBudget THEN overspent + 1 ELSE overspent
    /\ UNCHANGED <<messages, recent, recovery, breaker, calls,
                   turn, round, budget, prompts, outcome>>

\* Mutant: a recovered attempt is not counted.
NextAttemptUncounted ==
    /\ pc' = "request"
    /\ UNCHANGED <<attempt, outcome>>

(* `continue`: the next attempt, or after the last one the error is raised *)
(* and run() returns it.                                                   *)
NextAttempt ==
    IF attempt + 1 < MaxRetries
      THEN /\ attempt' = attempt + 1
           /\ pc' = "request"
           /\ UNCHANGED outcome
      ELSE /\ pc' = "idle"
           /\ outcome' = "error"
           /\ UNCHANGED attempt

Raise ==
    /\ pc' = "idle"
    /\ outcome' = "error"
    /\ UNCHANGED attempt

CanFallBack == Fallback # NoModel /\ current # Fallback

SwitchOrRaise ==
    IF CanFallBack
      THEN current' = Fallback /\ NextAttempt
      ELSE Raise /\ UNCHANGED current

RateLimited ==
    /\ pc = "model"
    /\ pc' = "backoff"
    /\ UNCHANGED <<messages, recent, attempt, current, outHits,
                   reactiveTried, breaker, calls, session>>

PromptTooLong ==
    /\ pc = "model"
    /\ reactiveTried' = TRUE
    /\ \/ /\ ~reactiveTried
          /\ StartCompact("loop")
          /\ pc' = "recompact"
          /\ UNCHANGED <<attempt, current, outcome>>
       \/ /\ reactiveTried \/ ~MayCompact(messages, disabled)
          /\ SwitchOrRaise
          /\ UNCHANGED recent
    /\ UNCHANGED <<messages, outHits, breaker, calls,
                   turn, round, cost, prompts>>

EndReactive ==
    /\ pc = "recompact"
    /\ \/ SummaryArrives("loop") /\ NextAttempt /\ UNCHANGED current
       \/ SummaryFails("loop") /\ SwitchOrRaise
    /\ UNCHANGED <<outHits, reactiveTried, calls,
                   turn, round, cost, prompts>>

MaxOutputHit ==
    /\ pc = "model"
    /\ outHits' = outHits + 1
    /\ IF outHits + 1 <= MaxOutLimit THEN NextAttempt ELSE Raise
    /\ UNCHANGED <<messages, recent, current, reactiveTried, breaker, calls,
                   turn, round, cost, prompts>>

UnknownError ==
    /\ pc = "model"
    /\ IF attempt = MaxRetries - 2 /\ CanFallBack
         THEN current' = Fallback /\ NextAttempt
         ELSE pc' = "backoff" /\ UNCHANGED <<attempt, current, outcome>>
    /\ UNCHANGED <<messages, recent, outHits, reactiveTried, breaker, calls,
                   turn, round, cost, prompts>>

WakeUp ==
    /\ pc = "backoff"
    /\ NextAttempt
    /\ UNCHANGED <<messages, recent, current, outHits, reactiveTried,
                   breaker, calls, turn, round, cost, prompts>>

(* Recorded cost only grows, and may reach the budget.                     *)
Spend == UNCHANGED budget \/ budget' = "spent"

(***************************************************************************)
(* The response: its cost is recorded, and either it is the final text or  *)
(* its tool calls are appended and executed in order.                      *)
(***************************************************************************)
Answer ==
    /\ pc = "model"
    /\ Spend
    /\ round' = round + 1
    /\ \/ /\ messages' = Append(messages, Text(round + 1))
          /\ pc' = "idle"
          /\ outcome' = "text"
          /\ UNCHANGED calls
       \/ \E k \in 1..MaxCalls :
            /\ messages' = Append(messages, Calls(round + 1, k))
            /\ todo' = k
            /\ results' = 0
            /\ pc' = "tools"
            /\ UNCHANGED outcome
    /\ UNCHANGED <<recent, recovery, breaker, turn, overspent, prompts>>

(* Unknown tool, permission denied, or blocked by a PreToolUse hook.       *)
ToolRefused ==
    /\ pc = "tools"
    /\ todo > 0
    /\ todo' = todo - 1
    /\ results' = results + 1
    /\ UNCHANGED <<pc, messages, recent, recovery, breaker, session>>

ToolStart ==
    /\ pc = "tools"
    /\ todo > 0
    /\ pc' = "tool"
    /\ UNCHANGED <<messages, recent, recovery, breaker, calls, session>>

(* A result or an exception.                                               *)
ToolComplete ==
    /\ pc = "tool"
    /\ pc' = "tools"
    /\ todo' = todo - 1
    /\ results' = results + 1
    /\ UNCHANGED <<messages, recent, recovery, breaker, session>>

(* The tool in progress leaves a sub-agent running in the background.      *)
SpawnInBackground ==
    /\ pc = "tool"
    /\ budget = "left"
    /\ budget' = "shared"
    /\ UNCHANGED <<pc, messages, recent, recovery, breaker, calls,
                   turn, round, overspent, prompts, outcome>>

(* The cost of a sub-agent reaches the budget: of one the tool waits for,  *)
(* or of one in the background, which works whatever the loop awaits and   *)
(* after the run that started it has ended.                                *)
SubAgentSpends ==
    /\ pc = "tool" \/ budget = "shared"
    /\ ~OverBudget
    /\ budget' = "spent"
    /\ UNCHANGED <<pc, messages, recent, recovery, breaker, calls,
                   turn, round, overspent, prompts, outcome>>

\* Mutant: one turn too many.
NextTurnInclusive ==
    IF turn < MaxTurns
      THEN /\ turn' = turn + 1
           /\ pc' = "turn"
           /\ UNCHANGED outcome
      ELSE /\ pc' = "idle"
           /\ outcome' = "turns"
           /\ UNCHANGED turn

NextTurn ==
    IF turn + 1 < MaxTurns
      THEN /\ turn' = turn + 1
           /\ pc' = "turn"
           /\ UNCHANGED outcome
      ELSE /\ pc' = "idle"
           /\ outcome' = "turns"
           /\ UNCHANGED turn

\* Mutant: the budget is not checked after the tools.
ToolsAnsweredUnchecked ==
    /\ pc = "tools"
    /\ todo = 0
    /\ messages' = Append(messages, Results(round, results))
    /\ \/ pc' = "extract" /\ UNCHANGED <<turn, outcome>>
       \/ NextTurn
    /\ UNCHANGED <<recent, recovery, breaker, calls, round, cost, prompts>>

(* The results are appended, the budget is checked, memories may be due.   *)
ToolsAnswered ==
    /\ pc = "tools"
    /\ todo = 0
    /\ messages' = Append(messages, Results(round, results))
    /\ \/ OverBudget /\ pc' = "idle" /\ outcome' = "budget" /\ UNCHANGED turn
       \/ ~OverBudget /\ pc' = "extract" /\ UNCHANGED <<turn, outcome>>
       \/ ~OverBudget /\ NextTurn
    /\ UNCHANGED <<recent, recovery, breaker, calls, round, cost, prompts>>

EndExtraction ==
    /\ pc = "extract"
    /\ NextTurn
    /\ UNCHANGED <<messages, recent, recovery, breaker, calls,
                   round, cost, prompts>>

(***************************************************************************)
(* The user.  The TUI handles one key at a time: while the handler of      *)
(* /compact is awaited no prompt, interrupt or command is handled.  An     *)
(* interrupt of the model's await may come after its cost was recorded.    *)
(***************************************************************************)
Interrupt ==
    /\ "interrupt" \in UserActions
    /\ pc # "idle"
    /\ ~recent["slash"].on
    /\ pc' = "idle"
    /\ outcome' = "interrupted"
    /\ recent' = [recent EXCEPT !["loop"] = NotCompacting]
    /\ IF pc = "model" THEN Spend ELSE UNCHANGED budget
    /\ UNCHANGED <<messages, recovery, breaker, calls,
                   turn, round, overspent, prompts>>

SlashCompact ==
    /\ "compact" \in UserActions
    /\ ~recent["slash"].on
    /\ StartCompact("slash")
    /\ UNCHANGED <<pc, messages, recovery, breaker, calls, session>>

SlashCompacted ==
    /\ recent["slash"].on
    /\ SummaryArrives("slash") \/ SummaryFails("slash")
    /\ UNCHANGED <<pc, recovery, calls, session>>

SlashModel ==
    /\ "model" \in UserActions
    /\ ~recent["slash"].on
    /\ current' \in Models
    /\ UNCHANGED <<pc, messages, recent, attempt, outHits, reactiveTried,
                   breaker, calls, session>>

LoopStep ==
    \/ CheckCompaction \/ EndCompaction
    \/ Request \/ Answer
    \/ RateLimited \/ PromptTooLong \/ EndReactive
    \/ MaxOutputHit \/ UnknownError \/ WakeUp
    \/ ToolRefused \/ ToolStart \/ ToolComplete
    \/ ToolsAnswered \/ EndExtraction

UserStep == Submit \/ Interrupt \/ SlashCompact \/ SlashModel

Next == LoopStep \/ UserStep \/ SlashCompacted
        \/ SpawnInBackground \/ SubAgentSpends

(* asyncio resumes a coroutine whose await has completed, and every await  *)
(* of the loop completes: sleeps end, tools and models answer or fail.     *)
Spec == Init /\ [][Next]_vars /\ WF_vars(LoopStep) /\ WF_vars(SlashCompacted)

-----------------------------------------------------------------------------
(* The message at i is the tool message with one result for each of the    *)
(* calls of the message before it.                                         *)
AnswersPrevious(ms, i) ==
    /\ i \in 2..Len(ms)
    /\ ms[i - 1].kind = "call"
    /\ ms[i] = Results(ms[i - 1].round, ms[i - 1].n)

WellPaired(ms) ==
    \A i \in 1..Len(ms) :
      /\ ms[i].kind = "call" => AnswersPrevious(ms, i + 1)
      /\ ms[i].kind = "tool" => AnswersPrevious(ms, i)

(***************************************************************************)
(* What is sent to the model never has an assistant message with tool      *)
(* calls that is not followed by its results, nor results without their    *)
(* calls, whatever compactions, errors and refusals came before: providers *)
(* refuse such a list with a 400.                                          *)
(***************************************************************************)
RequestWellFormed == pc = "request" => WellPaired(messages)

LastOf(ms, k) == SubSeq(ms, Len(ms) - k + 1, Len(ms))

(***************************************************************************)
(* A compaction that succeeds leaves the last KEEP_RECENT messages of the  *)
(* session as they were when it ends.                                      *)
(***************************************************************************)
KeepsRecent ==
    [][\A c \in Callers :
         recent[c].on /\ ~recent'[c].on /\ messages' # messages
           => LastOf(messages', KeepRecent) = LastOf(messages, KeepRecent)]_vars

(***************************************************************************)
(* Over budget, a run sends at most the MAX_RETRIES requests of one turn:  *)
(* whoever spent the rest of it, the model, a tool or a sub-agent in the   *)
(* background, and at whatever await, the check after the tools of that    *)
(* turn ends the run.                                                      *)
(***************************************************************************)
BudgetStops == overspent <= MaxRetries

(***************************************************************************)
(* Every run ends, whatever errors, tools and compactions it meets.        *)
(***************************************************************************)
RunEnds == (pc # "idle") ~> (pc = "idle")
=============================================================================
