# Critikal: specifications, model checks and proofs

Critikal audits Solidity repositories. A model drives it as an agent: it reads
prompts from a terminal or a command line, calls tools that clone, compile and
analyse a repository, and collects *findings* that later stages judge, test and
report. An older, fixed pipeline (`--legacy`, cli.py) runs the same stages in
one order from a coordinator. Both rest on a knowledge graph that some forty passes
derive from the compiled source.

This directory holds TLA+ modules of the parts of it whose behaviour depends on
an order of events, or on a combination of facts, that no test fixes; the TLC
runs that check them on small instances; and proofs, checked by TLAPS, that the
main results hold for every value of the constants. Paths below are relative to
`src/src/`.

Contents: 1 the system, 2 the modules, 3 the runs, 4 what is proved, 5 what is
not modelled, 6 the disagreement a run shows, 7 observations, 8 plan.

## 1. The system

    cli.py / tui/app.py          prompts, Ctrl+C, slash commands, two panels
          |            ^
          |            |  agent/events.py: a bounded queue per subscriber
          v            |
    agent/query_loop.py          one session: messages, turns, recovery
          |      \
          |       agent/auto_compact.py     shortens the list of messages
          v
    agent/tools/*  (29 tools) -- agent/context.py --  findings, graph, files read
          |   \                  shared by every tool and every sub-agent
          |    agent/sub_agent.py, agent/task_store.py     more query loops
          v
    pipeline/workers/*           one prompt and one parse each; jury, depth,
          |                      TestWriter with its compile-and-repair loop
          v
    llm/providers.py -> utils/rate_limiter.py -> utils/key_pool.py

    pipeline/lead_agent.py       (--legacy) the stages in one fixed order
    graph/*, utils/graph_queries.py    the knowledge graph and what is asked of it
    agent/memory/*               files shared by sessions of several processes

### Components, their state and what makes them correct

| component | state | operations | correct when | modelled by |
|---|---|---|---|---|
| Query loop `agent/query_loop.py` | messages, turn, current model, attempt, recovery flags, a cost tracker shared with sub-agents | run, call with recovery, execute tool calls | what is sent is well formed, the budget stops it, every run ends | `QueryLoop` |
| Compactor `agent/auto_compact.py` | failure count, breaker | triggers, compact | the recent messages survive, a cut never splits a round | `AutoCompact`, `QueryLoop` |
| Rate limiter `utils/rate_limiter.py` | a deque of timestamps and two locks per bucket | acquire, acquire_sync | at most rpm requests in 60 s, every call comes to an end | `SlidingWindow`, `RateLimiter` |
| LLM wrapper and key pool `utils/rate_limiter.py`, `utils/key_pool.py` | current key, round-robin index, cooldowns | ainvoke, get_key_async, mark_cooldown | the key that failed is benched, the key that is charged is used, a retry has a fresh key, calls return | `KeyRotation` |
| Audit pipeline `pipeline/lead_agent.py`, `models/finding.py` | the list of findings, each with points, verdict, gate verdict, jury decision, status | the stages of `coordinator_node` | a proof of concept is written for findings that earned it, nothing is both proven and rejected, no finding is lost | `AuditPipeline` |
| Agent tools on findings `agent/tools/*` | the findings of the context, each with its evidence log | attack and semantic analysis, gate, jury, depth, chain, precedent lookup, test writing, in any order, by several agents | what a finding claims is what its log shows; stages keep their order | `FindingTools`, `EvidenceLedger` |
| Jury and gate `pipeline/workers/jury_worker.py` | votes of three jurors, the judge's answer | judge one finding | every reply, also a late or unreadable one, leads to a decision | `JuryPanel` |
| Chain analyzer `pipeline/chain_analyzer.py` | links between findings | match postconditions with missing preconditions | nothing refuted stays in a chain | `ChainAnalyzer` |
| Depth workers `pipeline/workers/depth_workers.py` | verdicts | re-judge | a verdict changes only on evidence | outcomes, in `AuditPipeline` and `FindingTools` |
| TestWriter `pipeline/workers/test_writer_worker.py` | attempt counters, two files in a sandbox, compiled / exploit_success | harness loop, full-prompt loop, template, variants | calls are bounded, a proof was checked and is what is reported, every run ends | `PhoenixLoop` |
| Sub-agents, tasks, events, panels `agent/sub_agent.py`, `agent/task_store.py`, `agent/events.py`, `tui/app.py` | who runs, task status, a queue of events, what is on the screen | spawn, return, time out, interrupt, quit, emit, consume | nobody who is over changes a finding, the screen catches up, every task ends | `AgentSession`, `EventBus` |
| Memory consolidation `agent/memory/` | a lock file, a log, a condensed document | store, acquire, condense, release, roll back | a lock is respected, no entry is lost by a failure | `Consolidation` |
| Knowledge graph `graph/` | nodes, edges and dozens of attributes | the passes of `build_graph` | what the graph says is so in the program, whatever the order the passes run in | `GraphModel` to `GraphScores`, `GraphPasses` |
| Hotspots and graph queries `utils/graph_queries.py` | none | filters of the finished graph, the hotspot list | queries agree, the worst functions are listed | `GraphQueries`, `GraphPasses` |
| Tool context and file tools `agent/context.py` | modification time of each file read | read, write, edit | nothing unread is overwritten | the shared list of findings only; see 5 |
| Hooks and permissions, cost, headless runner, terminal | patterns; totals; none; widgets | | | their effect on a session, in `QueryLoop` and `AgentSession` |
| Ingestion, scheduler, analysis workers, threat intelligence, knowledge base, reports, prompts, wrappers of processes and web services | | | | no; see 5 |

`PROJECT.json` lists every component with its files, and the hazards: each place
where this code can go wrong in a way a test hardly reaches, with the property
that would catch it.

### How components interact

* One coroutine runs the loop. Tools are awaited one after the other, so within
  a run they do not interleave, but a **background sub-agent** is a second loop
  on the same context, and **workers** started by one tool run concurrently
  under `asyncio.gather`, on the same wrapper and the same key.
* The **terminal** owns the session's coroutine: Ctrl+C cancels it at whatever
  it awaits, and with it a sub-agent it waits for. `/compact` and `/model` are
  handlers of their own that touch the loop's list and its model directly while
  the loop waits. What is on the screen comes through a **queue** that drops
  what does not fit.
* Coroutines and **threads** share a bucket of the limiter under different
  locks. The lock of the coroutines is held across a sleep.
* Everything that calls a model sits behind a **timeout** and a broad `except`:
  a late answer and a failure are values of a stage, not ends of it.
* Passes of the graph communicate through **attributes**: one sets a flag,
  others read it, later ones clear it.
* Files (memory, schedules, the code under test) are shared by **processes**.

### What is hard

Cancellation between two parts of an update (message with tool calls / their
results); a slice taken before an await and written back after it; a key read
before an await and used after it; targets picked at the start of a call that
other agents' calls change before they are judged; two critical sections around
one decision; counters shared by several error paths; stages that read what four
stages earlier wrote; points from five stages against one threshold; a cache
shared by searches that are cut at cycles; a flag read between its setting and
its clearing; a lock that is looked at and then taken.

## 2. The modules

### AutoCompact and QueryLoop

`AutoCompact` defines messages and the pure part of the compactor. A message is
`[kind, round, n]`: its role and whether it carries tool calls, the model
response it belongs to, how many calls or results it has. `RoundBoundary` is
`_find_round_boundary` as a set of safe cuts and its greatest member;
`MayCompact` is the chain of early returns of `compact()`; the two triggers are
`ShouldCompact` and `ShouldMicroCompact`, with the token estimate as a free
`pressure` of three values.

`QueryLoop` is the session. `pc` names the await the loop's coroutine is
suspended at, and an action runs from one await to the next:

| state | code | actions that leave it |
|---|---|---|
| `idle` | no run | `Submit` |
| `turn` | top of the loop | `CheckCompaction` |
| `compact` | the summary before a request | `EndCompaction` |
| `request` | messages are converted, model is called | `Request` |
| `model` | awaiting the model | `Answer`, `RateLimited`, `PromptTooLong`, `MaxOutputHit`, `UnknownError` |
| `recompact` | the summary after "prompt too long" | `EndReactive` |
| `backoff` | sleeping | `WakeUp` |
| `tools`, `tool` | between / in tool calls | `ToolRefused`, `ToolStart`, `ToolComplete`, `ToolsAnswered` |
| `extract` | memory extraction | `EndExtraction` |

`budget` is what the cost tracker still allows. An answer may use it up (`Spend`),
and so may a sub-agent, whose loop records its cost on the session's tracker
(sub_agent.py:111-113): one the tool waits for while the tool runs, one in the
background at any await of the loop and after the run that started it
(`SpawnInBackground`, `SubAgentSpends`). `overspent` counts the requests the
run sent over the budget.

`recent` keeps, per caller, the slice a compaction took before its await. It is a
function of the caller because `/compact` and the loop may both be compacting.
The user's actions are switched on by the constant `UserActions`. That the TUI
handles one key at a time is a guard of each of them (`~recent["slash"].on`).

### SlidingWindow and RateLimiter

`SlidingWindow` is the promise of the limiter's docstring: two counters, let
through and aged. `RateLimiter` is the code for one bucket: coroutines queue for
an asyncio lock that is held over the sleep (`Acquire`, `Enter`, `Wake`,
`AppendTime`, `Cancel`); threads prune and look in one critical section of another
lock, prune in a second one after the sleep, and append in a third (`SyncEnter`,
`SyncWake`, `SyncAppendTime`). As the two locks do not exclude each other, every
reading and change of the deque is a step of its own (`OnDequeStep`): that it is
not empty, its first entry, popping it, its length, the oldest entry. A thread
may come between any two steps of the running coroutine, so that either pops
what the other has looked at, or reads an empty deque (`IndexError`). Other
coroutines may not: between two awaits only one runs (`LoopFree`), and among
threads only one holds the lock (`LockFree`). Timestamps are numbered in the order
they are appended; `popped` of them have left the deque, `expired` are 60 seconds old,
`cutoff` is how many were at the time a client began to prune, and `awaited` is the
entry whose expiry a sleeper computed its sleep from. Appending reads the
clock and appends in one step, so the deque is in order.
`RateLimiter` refines `SlidingWindow` with `granted` and `expired` as they are.
Its definitions have names of their own (`LimiterSpec`, `LimiterTypeOK`), so that
`Throttling_proofs` can extend it together with `KeyRotation`, the other part of
the same source file.

### KeyRotation

One wrapper and the keys of one provider, shared by `Tasks`. `pc` is the await
inside `ainvoke`: `slot` (limiter), `calling`, `backoff` (5xx), `nokey` (all keys
cooling down), then `slot2` and `calling2` for the one retry. `current` is
`_current_key`, shared by all tasks; `charged` and `used` record, for each task,
the key whose bucket gave the slot and the key the model was set to when the
request left. The round robin is `NextIndex`: the first available key at or
after the index. The limiter is abstracted to "the slot is granted some time",
which `CallsEnd` of `RateLimiter` justifies; the `IndexError` that may come instead
leaves `ainvoke` as a worker's timeout does (`Abandon`). `MCKeyRotation` defines
the two keys.

### AuditPipeline

`coordinator_node`, one action per stage. Every stage gathers all of its calls,
timeouts and exceptions included, before it applies any result, so a stage is
one step with a free choice of results per finding. What a finding carries is a
function on `Findings`; the local lists are sets (`pool` is "findings",
`rejected` is "jury_rejected_findings"), the points of the stages are the code's
integers, with its integer divisions. `Configs` is the set of configurations to
start from: a configuration is the set of stages its flags enable; `Launched`
says which kinds of workers they let `Work` hear from. One
action stands for a path nobody intended: `JuryMissing`, which ends the audit as
`crashed`. With the jury off and the gate on, the findings the gate passed are
still handed to a function that is only defined in the branch of the jury.

### PhoenixLoop

`TestWriterWorker.run` for one finding. `mode` says which of its paths are open:
the real source was found, the contract is older than Solidity 0.8 (*bridge*
mode), the harness is enabled, there is a template. `pc` is where the coroutine
stands: it is suspended at `harnessModel`, `model` and `variant`, awaits on the
model, and can be cancelled only there, as `sandbox.run` blocks.

| state | code | actions that leave it |
|---|---|---|
| `start`, `build` | the sandbox is set up; phase A | `Setup`, `BuildHarness` |
| `harness`, `harnessModel` | phase B, the exploit's body only | `HarnessAsk`, `HarnessExhausted`; `HarnessNoBody`, `HarnessBody`, `HarnessBreaks` |
| `loop` | top of the full-prompt loop | `TryTemplate`, `Ask`, `Exhausted` |
| `model` | a whole test is asked for | `NoTest`, `TestUncompiled`, `TestProves`, `TestFabricated`, `TestFails` |
| `variant` | a relaxed variant is asked for | `VariantFails`, `VariantProves` |
| `finish` | the finally block | `Finish` |

A file is a record of who wrote it and what is true of it: whether it compiles,
passes, has an assertion, and is accepted as authentic. `test` is
`ExploitTest.t.sol` and `attack` is `AttackContract.sol`, which only the
scaffold runs; `Outcomes` is what forge reports of the two, a command that
times out included. `proof` remembers the test that passed when `proven` was
set. `PhoenixLoop` is the inside of the choice that `AuditPipeline!Test` makes
for each finding. `MCPhoenixLoop` defines the set of modes.

### JuryPanel, ChainAnalyzer, FindingTools and EvidenceLedger

What an agent can do to the findings of its session, with the tools in any order
and several agents at once.

`JuryPanel` is how one finding is judged: a juror's reply becomes a vote
(unreadable and failed ones "UNCERTAIN"), the judge's reply a decision, or, when
it is none, the votes are counted. `Debates` is the set of decisions that replies
can lead to; `GateResults` that of the gate, which passes what it cannot judge,
unless the tool's own timeout ends the call first. `ChainAnalyzer` is the
matching of what one finding creates with what another lacks, and what a chain
changes in both. A condition is the set of its significant words, the terms that
its text contains, also inside a longer word, and its kind.

`FindingTools` has `ctx.findings` and, per agent, the call it is in. A call that
asks a model is three kinds of step: `Begin` picks its targets, each `Answer`
(`Gate`, `JuryDebate`, `Depth`, `Test` or `GiveUp`) is the end of one of the
coroutines it gathers, `Finish` is its return. Between them other agents begin,
judge and link. The tools that await nothing between reading and writing the
findings are one step: `Analyse` (the reports of all workers become findings
after the last one has answered), `Sweep` (precedents) and `Chain`. `Cancel` is a
timeout or an interrupt at any await. Targets are pairs of a finding and a place
in the call, as an index sent twice is judged twice; `Resolve` is Python's
reading of a negative index.

`EvidenceLedger` is the abstract specification: findings are only added, a step
adds at most one entry to the log of each, and what a finding claims (score, gate
verdict, jury decision, proof) moves exactly as the new entry says.
`FindingTools` implements it under the mapping that takes a finding to its log
and its four claims. `MCFindingTools` has the two reports and lists of indices.

### AgentSession and EventBus

`EventBus` is the queue of one subscriber, bounded by `QueueSize`, which drops
what does not fit and says so to nobody. `AgentSession` composes it with
`FindingTools`: the main agent and the sub-agents it spawns call tools on one
list; one in the foreground keeps the main agent waiting, one in the background
has an entry in the task store (`status`). `End` is each way `sub_loop.run` can
end, and cancels the call the agent was in; `Interrupt` cancels the main agent
and what it waits for, `Quit` everything. Every finding, start and end emits an
event; `Consume` is the application's handler, which draws the findings panel
from the list as it is *then* and keeps one entry per sub-agent in the workers
panel (`shown`, `panel`).

### Consolidation

The files of an engagement, shared by the sessions of several processes: a log
(`session`), a condensed document, and a lock file whose modification time is
also the time up to which the log is condensed. `try_acquire` is two steps,
`Look` and `Claim`, because nothing makes it one; then `Load`, the model
(`Write`), `Release`, or `Fail` with its rollback. Writing a file empties it first:
`WriteFails` is an error there that is caught and rolled back with the document
already empty, `ClaimFails` one of the lock file, `Release` passes over one.
`Cancel` skips the rollback as
cancellation does, `Crash` may come between any two steps and in the middle of
writing the document. `Age` is the hour after which a lock is not respected.
`force` is `/dream`. An entry is its timestamp.

### The knowledge graph

One chain of modules, each extending the one before as the passes read what the
earlier ones left:

| module | code | passes |
|---|---|---|
| `GraphModel` | `nodes_edges.py`, `builder.py` | the program as data, nodes and edges, the order of the passes |
| `GraphEnrichment` | `enrichment.py` | direct writes, propagated writes with their cache, reachability, reverse mapping |
| `GraphAccess` | `access_control.py`, part of `reentrancy.py` | modifiers, inline checks, guard functions, role registries, initialisers, unprotected mutators, escalation, governance |
| `GraphCalls` | `reentrancy.py` | external calls, call-before-write through nested modifiers, reentrancy and read-only reentrancy |
| `GraphTaint` | `state_transitions.py` | transitions, delegatecall, contract tiers, sensitivity, taint |
| `GraphVulnerabilities` | `vulnerability_detection.py` | dependencies, dangerous sequences, exploit chains, accounting, oracle, flash-loan, arithmetic and signature patterns |
| `GraphScores` | `scoring.py`, `economic_analyzer.py` | risk and safety scores, exploit targets |
| `GraphQueries` | `graph_queries.py`, `hotspot_tool.py` | the queries of the workers, the hotspot list |
| `GraphPasses` | `builder.py` | `build_graph` as a whole, and what must be so at the end |

A program is a record: functions with a body, which is the sequence of events
Slither's IR has (write, read, assignment, internal and external call, check),
variables, contracts and modifiers. The events are in the order in which Slither
lists the nodes of the control flow graph: both branches of a condition, one after
the other, and a loop's body once. An event that is `joined` is of the same node as
the one before it, as the storing of a call's result is. Where a pass searches the text of a function,
`says` is what the search can find. Each pass is an action over all nodes
(`FnPass`, `SvPass`, `CtPass`); `pass` is the next one. `rel` is the label of the
one edge a pair of functions has, as in the code's `DiGraph`: adding a second one
replaces it. The searches and the order in which they visit nodes are kept
(`Dfs` threads its cache through the functions in node order, `FirstEdge` takes
the first edge in the order the edges were added), because that is where they can be wrong. `GraphPasses` has the reference definitions, written
from the program alone and not from the attributes the passes leave: `CalledFrom`
(a closure), `Unfolded` (a body with its modifiers' text around it), `Tainting` with
`TaintedIn` and `FlowsIn` (what a value reaches as it is handed on, and what it
reaches at all), `ChecksCaller` and `TakenForGuard` (what looks at the caller, and
what only passes for it; both use the searches of a text the passes use,
`InlineCheck` and `says`). `MCGraphPasses` has the programs.

## 3. The runs

Twelve runs. Eleven pass; one shows a statement of the repository that its code
does not keep. Each property of a passing run has a mutant in `PROJECT.json`: a
change of one definition, of the kind a slip in the code would be, under which
TLC finds that property violated.

| run | distinct states | asks |
|---|---|---|
| `QueryLoop_session` | 1.04 M | two prompts, with `/model` and a background sub-agent's spending at every await: is each request well formed, does compaction keep the recent messages, does the budget stop the run? |
| `QueryLoop_tui` | 440 k | the same loop with interrupts, `/compact` and `/model` at every await: does every run still end? |
| `RateLimiter_async` | 5 k | three coroutines, cancelled at any await: is the limit kept, is it a sliding window? |
| `RateLimiter_threads` | 241 k | two coroutines and two threads, between any two operations on the deque: does every call come to an end? |
| `KeyRotation_shared` | 14 k | two callers, abandoned at any await: does a retry have a fresh key, does every call return? |
| `AuditPipeline_audits` | 686 k | four configurations, two findings: are tests earned, does nothing end both proven and rejected, or confirmed and rejected, are judged ones listed, does every audit end? |
| `AuditPipeline_standard` (violated) | | the standard mode (gate, no jury): does judging keep the findings, without a crash? |
| `PhoenixLoop_standard` | 242 k | every mode but bridge mode with the harness: was a proof earned, are calls bounded, is an artifact reported, does every run end? |
| `FindingTools_stages` | 92 k | two agents, two findings, two calls in all of any tools that judge them: does a finding claim what its log shows, do stages keep their order, does nothing refuted stay in a chain? |
| `AgentSession_panel` | 311 k | the main agent and two sub-agents, interrupts, timeouts, quitting, a queue of two: does nobody act who is over, does the screen catch up, does every task end? |
| `Consolidation_dreams` | 1.72 M | two processes that store, dream, force, fail (also in writing a file), are cancelled and die: who may take the lock, which entries can be lost, does a lock nobody uses end? |
| `GraphPasses_programs` | 371 k | some nine thousand programs through all passes: is what the graph says so in the program? |

### Bounds, and why they are enough

* **QueryLoop.** `KeepRecent` 1 or 2 (10 in the code), `MaxFailures` 2 (3),
  `MaxRetries` 3 as in the code, `MaxOutLimit` 1 (3), two models, two prompts,
  two calls per response (one in the TUI run). A run of three turns with two
  calls makes seven messages, more than the `KeepRecent + 4` at which both
  triggers may fire, and two prompts give a user message in the middle
  at which a cut is safe; the second prompt meets whatever the first left. With
  `MaxFailures` 2 the breaker opens on two summaries that fail in different
  call sites.
* **RateLimiter.** `Rpm` 2: a full window with more than one entry. Three
  coroutines: one that sleeps, one that queues behind it, one that is
  cancelled. Six grants let the window fill three times. The other run
  has two threads, the fewest that can see the same free place, and two
  coroutines. No call starts there after `MaxGrants` 3 requests, but all four
  clients may have started: the window is full and overfull, and is pruned from both
  sides. The bound excludes that ever new calls keep taking the threads' lock,
  which is why weak fairness of each client is enough.
* **KeyRotation.** Two callers and two keys: the fewest for one caller's swap
  to come between another's request and its error, and for all keys to be cooling
  down. `MaxServerRetries` 1 (2 in the code), three calls: one caller calls
  again after the other's swap. The bound on calls matters for `CallsReturn`: it
  excludes that ever new calls keep benching the key one caller waits for.
* **AuditPipeline.** Two findings, one of which is not testable; confidences
  below the fallback's threshold, just below 90, and 90, where the points of an
  attack finding change; the verdicts a worker reports that matter later;
  `FallbackN` 1, so that a second candidate stays behind; configurations for
  the light, standard and full mode and one without a gate.
* **PhoenixLoop.** The limits are those of the code: six attempts, four of them
  of the harness, two without the real source. Nothing is bounded besides: every
  run of `run()` is a behaviour of the model.
* **FindingTools.** Two findings that can be linked, one of them refuted from
  the start; two agents; two calls on them in all, which is one each or one after
  another, and analyses besides; calls without indices and with the list
  `[1, -1]`, which names the second of two findings twice. The agents are
  symmetric. One gate timeout, the default of 120 seconds.
* **AgentSession.** Two sub-agents, so that one is in the background while one
  keeps the main agent waiting; a queue of two and two findings, so that three
  events overflow it; one call on findings, which a timeout or an interrupt can
  meet half done.
* **Consolidation.** Two processes are the fewest that can both look before
  either claims. `MaxTime` 4 bounds when a dream may begin or an entry be stored,
  not its end: two entries around a dream that is followed by a second one.
* **GraphPasses.** Seven families. *CallGraphs*: every graph of calls among three
  functions, cycles included, with the writer last or in the middle and the entry
  first or last. *BothWays*: functions that call each other directly and through
  the contract's interface, where one edge can stand for only one of the two. *Guards*: an entry, its twin with one more check, an entry that
  only calls, a helper; every kind of check in every place a pass looks, with
  modifiers own and inherited. *Phases*: two nested modifiers, a call or a write
  or nothing before and after each placeholder, around eight bodies, some with a call and a
  write of one node.
  *TaintChains*: six functions that call each other in a row, their nodes in five
  orders, with each link once broken or replaced by a local, a result or `msg.sender`: five calls, one more than four
  rounds follow against the order. *Markets*: three entries that share
  sensitive state, eight bodies each, over four sets of words. *Twins*: two entries
  that differ in a check of the caller and have nobody else to do with. Each family varies
  what one part of the passes looks at and goes through all of them.

`CHECK_DEADLOCK FALSE` is in every configuration because every one of these
systems really stops: prompts, calls and grants are used up, an audit ends
with its report, the graph is built, the application is closed.

### Fairness

* QueryLoop: weak fairness of the loop's step as a whole and of the end of
  `/compact`. asyncio resumes a coroutine whose await is done, sleeps end, and
  the awaits on a model or a tool end with an answer or an exception. Nothing
  is assumed of the user, nor of *which* answer comes: `RunEnds` holds although
  every call may fail. Nor need a sub-agent spend anything.
* RateLimiter: of each coroutine's and thread's own step (the scheduler) and of
  `Expire` (time passes). Calling and cancelling are not fair.
* KeyRotation: of each task's step and of each cooldown's end; not of `Invoke` or
  `Abandon`.
* PhoenixLoop: of `Step`, everything but the cancellation: `wait_for` ends an
  await on the model after LLM_TIMEOUT, `subprocess.run` a command after 120 s.
* AuditPipeline: of `Next`: every stage waits under timeouts (or with
  `return_exceptions`), so the next one is reached.
* AgentSession: of the answers and the end of each agent's call (every await of a
  tool has a timeout), of each sub-agent's timeout of 600 seconds, of the
  consumer of events. Not of spawning, calling, interrupting or quitting.
* Consolidation: of `Age` alone (time passes). A model need not answer, and
  nobody has to dream.
* FindingTools and GraphPasses state no liveness: `AgentSession` has the
  fairness of the tools, and the passes are one sequence.

### What the properties say

*Query loop.* `RequestWellFormed`: no request has tool calls without results or
results without calls. `KeepsRecent`: a compaction that succeeds leaves the last
`KeepRecent` messages as they are *when it ends*. `BudgetStops`: whoever spends
the rest of the budget, and at whatever await, a run sends no more than the
`MAX_RETRIES` requests of one turn over it. `RunEnds`.

*Limiter and keys.* `WithinRpm`, `ImplementsWindow` (refinement). `CallsEnd`: every
call gets its slot or the `IndexError` of a deque that the other side emptied; none
waits for an entry that is gone, or behind a lock that such an error left taken. `RetryKeyIsFresh`: a retry's key was not cooling down when
it was chosen, and its bucket is the one that is charged. `CallsReturn`.

*Pipeline.* `TestedEarnsIt`: a finding reaches the TestWriter because the
fallback promoted it, the jury upheld it, or it is an attack finding with a
confidence of at least 90 that passed the gate and met no jury; no other sum of
points reaches the threshold. `ProvenNotListedRejected`: nothing is reported as
proven and as rejected, but for what the fallback promoted. `JudgedStaysListed`:
what the jury decided on is in the list that is reported. `ConfirmedNotRejected`:
no report calls a finding confirmed by its verdict and rejected by its status.
`Finishes`. `JudgingKeepsFindings` is the one that is violated.

*TestWriter.* `ProvenIsEarned`: when an exploit is reported as proven, the test
that passed was accepted as authentic (a template by the way it is made), has an
assertion, and is the code that is reported and saved. `CallsBounded`: the two
loops and the variants, which do not count as attempts, ask the model less than
twice per attempt. `SavedIsReported`: no run leaves an artifact and no report, or
one that is not a proof. `RunEnds`.

*Tools.* `ImplementsLedger` (refinement): whatever agents interleave their calls
and wherever these are cut off, what a finding claims is what its log shows.
`DebatedWerePassed`: a finding nobody asked for by index is only debated by the
jury after the gate has passed it. `ChainedStand`: no finding in a chain is
refuted.

*Session.* `CallsAreLive`: no call of an agent that is over, or that waits, is in
progress. `PanelCatchesUp`: with an empty queue and nothing dropped, the screen
shows all findings and exactly the sub-agents that were spawned, as done exactly
those that told they are. `WorkersEnd`.

*Memory.* `KeepsEntries`: a dream that has the lock to itself loses an entry only
if it was stored after the dream had read the log, if the dream is cancelled or its
process dies, or if its claim cannot be written; one that fails loses nothing it was
about to condense, and what was condensed before only if it fails in writing the
document. `ClaimsFreeLock`: a lock that is held and not an hour old is taken
only by a dream that had looked at it before it was held. `RefusalEnds`: a lock
that nobody dreams under does not keep everybody out for ever.

*Graph.* `PropagatedExact`: propagated writes are those of the functions called,
none added and, without recursion, none lost by the shared cache.
`CallsBeforeWrites`: the comparison of coordinates finds a call before a write
exactly when, with the modifiers put around the body, a node of the control flow graph
makes the call and a later one the write, as long as no prelude has more events than the
thousand coordinates it owns and nothing recursive is called. That is less than the order
of every execution: section 7. `UnprotectedExact`: after five passes that set
and clear it, the flag stands for the entries that write, look at nothing of their
caller, and have nothing that is taken for such a look; what this leaves out is in
section 7.
`EscalationComplete`: the pass that reads that flag early misses no function that
keeps it. `TaintFollowsCalls`: four rounds reach every function within four calls
that hand on a tainted value as it came, or as the caller alone taints it, and nothing that
no flow through parameters, locals and results reaches; what lies between the two
the passes miss (section 7). `ChainsAreSteps`: an exploit chain is one
that could be followed, without repetition. `GuardNeverRaisesScore`: of two
entries that differ in a check of the caller, the checked one has neither the
higher risk nor the higher target score, where no call and no state leads to or from
others; without that condition it is false (section 7). `HotspotsAreWorst`: what the budget cuts
off has no more risk than what is listed. `AnswersAgree`: the queries, each of
which reads what another pass left, do not contradict each other.

Each module that a run checks states one type invariant: `TypeOK`, for the limiter
`LimiterTypeOK`, for the tools `ToolTypeOK` (part of `AgentSession!TypeOK`, and
proved); the attributes of the graph, which are never read outside of their
kinds, have none.

## 4. What is proved

All proofs are checked by TLAPS down to the last leaf. They use only the
assumptions on the constants that the modules name (`CompactorAssumption`,
`LoopAssumption`, `LimiterAssumption`, `RotationAssumption`,
`PipelineAssumption`, `PhoenixAssumption`, `ToolAssumption`,
`GateTimeoutAssumption`, `MaxTimeAssumption`, `ProgramAssumption`), which TLC
evaluates in the runs,
and where stated a restriction of the environment, as an ASSUME of the theorem.

| theorem | statement | restriction |
|---|---|---|
| `QueryLoop_proofs!TypeCorrect` | `Spec => []TypeOK` | none |
| `QueryLoop_proofs!BudgetIsKept` | `Spec => []BudgetStops` | none |
| `QueryLoop_proofs!RequestsWellFormed` | `Spec => []RequestWellFormed` | neither interrupts nor `/compact` |
| `QueryLoop_proofs!RecentMessagesKept` | `Spec => KeepsRecent` | no `/compact` |
| `Throttling_proofs!AsyncWithinRpm` | `LimiterSpec => []WithinRpm` | `Threads = {}` |
| `Throttling_proofs!AsyncImplementsWindow` | `LimiterSpec => ImplementsWindow` | `Threads = {}` |
| `Throttling_proofs!RetriesAreFresh` | `Spec => RetryKeyIsFresh` | none |
| `Throttling_proofs!AloneChargesUsedKey` | `Spec => []ChargesUsedKey` | one caller |
| `Throttling_proofs!AloneBenchesFailedKey` | `Spec => BenchesFailedKey` | one caller |
| `AuditPipeline_proofs!TypeCorrect` | `Spec => []TypeOK` | none |
| `AuditPipeline_proofs!OnlyEarnedTests` | `Spec => []TestedEarnsIt` | none |
| `AuditPipeline_proofs!RejectionsStand` | `Spec => []ProvenNotListedRejected` | none |
| `AuditPipeline_proofs!JudgedAreListed` | `Spec => []JudgedStaysListed` | none |
| `AuditPipeline_proofs!ReportsAgree` | `Spec => []ConfirmedNotRejected` | none |
| `PhoenixLoop_proofs!TypeCorrect` | `Spec => []TypeOK` | none |
| `PhoenixLoop_proofs!CallsStayBounded` | `Spec => []CallsBounded` | none |
| `PhoenixLoop_proofs!ProofsAreEarned` | `Spec => []ProvenIsEarned` | no mode runs both loops in bridge mode |
| `PhoenixLoop_proofs!ArtifactsAreReported` | `Spec => []SavedIsReported` | no mode runs both loops in bridge mode |
| `AgentSession_proofs!ToolsTyped` | `ToolSpec => []ToolTypeOK` | none |
| `AgentSession_proofs!ToolsImplementLedger` | `ToolSpec => ImplementsLedger` | none |
| `AgentSession_proofs!DebatesFollowGates` | `ToolSpec => []DebatedWerePassed` | none |
| `AgentSession_proofs!ChainsStand` | `ToolSpec => []ChainedStand` | none |
| `AgentSession_proofs!SessionTypeCorrect` | `Spec => []TypeOK` | none |
| `AgentSession_proofs!SessionImplementsLedger` | `Spec => ImplementsLedger` | none |
| `AgentSession_proofs!SessionKeepsFindings` | `Spec => [](ToolTypeOK /\ ChainedStand /\ DebatedWerePassed)` | none |
| `AgentSession_proofs!SessionCallsAreLive` | `Spec => []CallsAreLive` | none |
| `AgentSession_proofs!PanelsCatchUp` | `Spec => []PanelCatchesUp` | none |
| `Consolidation_proofs!LocksRespected` | `Spec => ClaimsFreeLock` | none |
| `Consolidation_proofs!EntriesKept` | `Spec => KeepsEntries` | none |
| `GraphPasses_proofs!UnprotectedIsExact` | `Spec => []UnprotectedExact` | none |
| `GraphPasses_proofs!EscalationIsComplete` | `Spec => []EscalationComplete` | none |
| `GraphPasses_proofs!PropagationIsExact` | `Spec => []PropagatedExact` | none |
| `GraphPasses_proofs!CallOrderIsExact` | `Spec => []CallsBeforeWrites` | none |
| `GraphPasses_proofs!TaintIsBounded` | `Spec => []TaintFollowsCalls` | none |
| `GraphPasses_proofs!ChainsCanBeFollowed` | `Spec => []ChainsAreSteps` | none |
| `GraphPasses_proofs!AnswersDoAgree` | `Spec => []AnswersAgree` | none |
| `GraphPasses_proofs!HotspotsKeepWorst` | `Spec => []HotspotsAreWorst` | none |
| `GraphTwins_proofs!GuardNeverRaises` | `Spec => []GuardNeverRaisesScore` | none |

The restrictions show where the faults come from, and TLC finds each violated
without its restriction (section 7). The query loop alone is right; the user's
interrupt and `/compact` break it. The coroutines alone are right; the threads
break the limit. One caller of a wrapper is right; the shared current key breaks
it. In bridge mode either loop of the TestWriter is right; the second one is
wrong about what the first one left.

**The arguments.**

* *Compaction* (the first part of `QueryLoop_proofs`). A finite set of cuts that is not empty
  has a greatest member (`BoundedHasMax`), so `RoundBoundary` is a safe cut
  (`BoundaryIsSafe`), the kept part is a suffix that begins with a message of
  role user (`CutIsSafe`, `KeptIsSuffix`) and has at least `KeepRecent` members.
* *Recent messages.* `TailInv`: what a compaction in progress holds is a safe tail of
  the *present* list, so what is written back is a suffix of the list at that time,
  and long enough. An interrupt ends the compaction it cuts off, and only
  `/compact` runs beside the loop, so its absence is all the proof asks for.
* *Well-formed requests.* `RequestWellFormed` speaks of one value of `pc` and is
  not inductive. `QuietInv` adds to `TailInv` what holds at the other awaits: the
  list is paired everywhere, except that while tools are being answered its last
  message is the one open call, whose number of calls is what is left to do plus what
  is done, which is what an interrupt would leave behind. Lemmas say that an append
  keeps the pairing, that the results close it and that a compaction keeps it.
* *Budget.* `SpentInv`: a run has sent requests over the budget only in the turn it is
  in, and no more than it has made attempts in that turn. The check after the tools is
  the only way to the next turn, and nothing takes a budget that is spent back.
* *Sliding window.* `LimiterInv`: a coroutine that works on the deque or sleeps is at
  the head of the lock's queue (`HolderInv`), so no other one does; nothing is popped
  that has not expired; and where the holder stands says what it knows (`Placed`):
  when the entry it awaits is gone, and when it is about to append, fewer than `Rpm`
  requests are a minute old or less. A step moves one coroutine (`OneMoves`). With it,
  each append is a `Grant` of `SlidingWindow`, each `Expire` an `Expire`, everything
  else a stutter.
* *Keys.* `NextIndexIsAvailable` is proved from the finiteness of the pool; the
  results for one caller follow from `Charged`: between two awaits the key a
  task was charged for is the wrapper's current one.
* *Pipeline.* `TestedEarnsIt` needs to know where points come from. `Scored`
  bounds a finding's points by a seed from kind and confidence, a share from the
  gate and one from the jury, as long as the fallback has not promoted it
  (`SeedBounds` gives the greatest seed of each kind). The rest of `IInv` says
  which stage may have pinned, rejected, or tested what by when. `StandingInv`
  adds for the report that before the jury no finding has a decision, that what
  the gate refutes leaves the list with the jury, and so that no finding that is
  listed later was rejected before its test.
* *Calls.* Types alone are not inductive: that `attempts` stays in its range
  needs `TypeInv`, that up to the end of the harness loop the two counters are the
  same. `CallsInv` adds that a variant is awaited only when an attempt is left.
* *Proofs of concept.* `ProofInv`: `proven` is set only on the way out, so no later attempt
  changes what it speaks of; a variant is tried of a test that compiled; and in
  bridge mode the test file is the scaffold, which holds as no harness
  was there before. A pass of the scaffold is then the attack's.
* *Tools.* The refinement goes through `Progress`, a step as its findings see it:
  each keeps its log and claims or gains one entry they follow (`Moves`), and
  new ones open with one (`Opens`). Each tool has a lemma for what it makes of one
  finding (`GatedGains`, `DebatedGains`, `ProvenGains`, ...), over one about
  `Contributed`. `TargetsExist`, part of the types, is why another agent's
  additions hurt no call in progress. `ChainsStand` needs that a gate, a jury and
  the depth workers change no verdict, and that a chain's enabler stands.
  `DebateInv`: the targets of a default jury call were passed *before* it began;
  logs only grow, so they still are when it ends.
* *Session.* Its steps are steps of the tools or cut off some calls
  (`SessionSteps`), so what is proved of the tools holds of it. `CallsAreLive` is
  inductive as it stands once who is over makes no call. The panels need `Heard`:
  as long as nothing was dropped, what the screen does not show is still in the
  queue, and of each sub-agent the end stands behind the start, so that handling
  the two in order never turns a row that is done back.
* *Memory.* `IInv` of eight parts, of which two carry the proofs. `Looked`: who
  is about to claim saw a lock that was free, old, or of a dead process.
  `Remembered`: as long as a dream is alone, nobody moves the lock's time or
  writes the document, so what it remembers of both is still true when it acts on
  it, and every entry is in the document, or later than the lock, or in its hands.
  A rollback therefore gives back what the dream had taken, also when the document was
  emptied; only what had been in the document is gone.

**The arguments about the graph.** They are about any list of functions, any
calls among them and any events in their bodies; `ProgramAssumption` says that
such a program is finite, down to the tags of a variable, that a call leads to a
function that exists (an external one to an external function, or out of the
program) and a write to a variable that exists, which is what Slither hands over.

* *Frame.* The passes run once each, so most of an argument is who sets what.
  `Setters` and `SettersLater` list for each attribute the passes that assign it,
  proved once over all the actions (`Frame`); `Unassigned` then carries a fact about
  an attribute over every other pass.
* *Induction and recursion.* What a pass fills in one depth or one node after the
  other is a recursive function. `Iterates` and `Unrolls` derive from
  well-foundedness that such a function satisfies its equation, `NatSet` is
  induction for one set of numbers, which the provers can instantiate.
* *Protection.* `GuardInv` says for each stretch of passes what the flag stands
  for: at first entries that write and have no guard of their own, after pass 21
  without those an initialiser guard protects, after 27 without any. It is only
  ever cleared for what the definition excludes, and the last pass recomputes it.
  That what the passes find is a look at the caller or something taken for one, and
  nothing else, is `GuardParts` and `CheckedParts`.
* *Escalation.* The pass reads the flag at a time when it stands for more
  functions than in the end; `EscalationFacts` keeps what it recorded for these,
  which includes all that stay.
* *Propagation.* `Exact`: nothing that no called function writes, and all of it
  where no cycle is near. The search is followed at each depth (`Sound`): the
  cache only ever holds exact answers of functions that reach no cycle, and a search that
  is cut at a function on its own way has found a cycle. A depth of one more than the
  number of functions is enough, by counting the functions on the way.
* *Calls before writes.* The lists a pass makes with coordinates and the events of
  the unfolded body are in step, prelude by prelude and postlude by postlude
  (`SegmentsPlaced`, `ExecutionSteps`, by induction over the modifiers), so comparing
  coordinates compares places, as long as no segment is longer than `Width`. A segment
  begins a node, so two events are of one node exactly when all from the second one
  back to the first are joined (`OneNode`).
* *Taint.* A round visits the nodes in order, each with what the ones before it
  have just given: it yields at least what one step of calls yields and nothing
  outside of what is closed under handing on (`RoundGives`). `FlowsIn` is such a set, as
  it does not grow any more after as many steps as there are functions
  (`FlowCloses`), and it allows each function more than the pass does
  (`TaintingGrows`). Four rounds are therefore above four steps and below all of them.
* *Answers.* `AnswerInv` keeps for each pair of attributes that two queries
  read, from the pass that sets the later one, how they are related.
* *Chains.* The relation of dependency does not change after its pass, every
  extension follows it and repeats none (`ExtendSteps`), and reachability is final.
* *Hotspots.* `ScoreInv`: all scores are numbers in their ranges, through sums over
  sets and lists (`TotalIsNat`). With that, the list is the first places of a total order
  (`Places`), and a place that is cut off comes after those kept.
* *A check never looks worse* (`GraphTwins_proofs`). The property speaks of two runs of the same
  formulas, on a function and on its twin with one more check, so the invariant
  does: `TwinInv` says of every such pair what each pass has left of the two.
  It has four layers. What the check cannot touch is the same (`Alike`, some fifty
  attributes; for those that depend on places in the body, because each place is
  one later in the twin: `Later`, and a lemma for the calls, the writes, the
  sums and the order of events). No call leads from either (`Alone`), and what
  taint reaches them is the same, by an argument about the rounds. The twin is
  never the weaker one (`Confident`, `Stronger`): it is protected from the first pass
  on, with no less confidence and with a type of guard that only becomes more. From
  the passes for sequences and chains on (`InSequence`, `InChain`) each of the two
  has one at most, to the other one, and the twin's is no more dangerous. Then
  the scores (`Outcome`). Every term of the twin's is the lower one or the same, but
  for one: a weak guard is itself exploitable, which gives a view function
  five points that it does not get without a guard (scoring.py:454). They
  weigh 1.75 of the sum, two at most after rounding, while the same check takes twelve
  off through the safety score. Lemmas about division, `Max` and `Min` say that
  rounding and bounds keep the order.

**Only model-checked**: the liveness properties (`RunEnds` of both modules,
`CallsEnd`, `CallsReturn`, `Finishes`, `WorkersEnd`, `RefusalEnds`),
which are out of this prover's reach as `ENABLED` is. Every invariant, every action
property and both refinements that a passing run checks are theorems,
under the restriction that the table names.

## 5. What is not modelled, and why

Within the modelled parts:

* Texts: prompts, answers, JSON, Solidity. A message has a kind, an answer is
  one of the outcomes the code tells apart. The searches of source text that the
  graph's passes make are what they find (`says`), not how: there is nothing
  to check a regular expression against but itself.
* Amounts of tokens and money: a pressure of three levels, and whether the budget is
  exceeded, which an answer or a sub-agent may make true.
* Clock values: cooldowns, windows, backoffs and the age of a lock end some time.
  Two readings of the clock are never equal.
* In the limiter: the making of a bucket's deque (`_get_window`), which two threads may
  both do, so that one appends to a deque nobody else sees; and an append whose reading
  of the clock is overtaken by another one's, which puts two entries of the deque out of
  order by the time between the two.
* The table of limits (`Rpm` is any number), tokens-per-minute and daily
  limits, which the code resolves and never enforces; the construction of
  provider clients; `astream` and `bind_tools`, which the wrapper forwards to
  the inner model without slot or failover.
* In the pipeline: severities, confidence after a finding is built, leads of the
  synthesis, and the fuzzer. Of the tools: the fuzz and report tools, which change
  no finding, and the preparation of prompts.
* In the graph: snapshots to disk, the wording of exploit sequences and answers,
  signatures and pattern hits. What Slither's IR yields is the input, in the order of its
  nodes; that branches exclude each other and loops repeat is not in it, as it is not in
  the passes. The return of a tainted value by an internal function is not in it either.
* In the memory: the search, the recap after an absence, and how well a model
  merges two texts; the model of `Consolidation` keeps every entry it is given. A document
  of which only a part was written counts as empty.

Whole components:

* *Ingestion and compilation.* Which files a level leaves out, and what raises,
  is decided by git, solc and the frameworks' own tools: a model of the four
  levels would be a model of those.
* *The file tools' guard* (`context.py`). Whether a write is refused compares two
  readings of a file's modification time with what other programs do to the
  file; no code of this repository orders them, and section 7 says what follows.
* *Scheduler.* A table that each process reads once and writes whole. There is
  no mechanism between processes, so there is no promise to check; section 7.
* *Analysis workers, threat intelligence, knowledge base, reports, prompts,
  model registry.* One prompt and one parse, static tables, an external store, or
  pure output.
* *Shell, search, web and deploy tools.* Their state is outside the program.
* *Hooks and permissions, cost, headless runner, widgets.* Only their effect on a
  session is modelled: a call refused, a budget exceeded, a prompt given, what
  the panels show.

## 6. The disagreement a run shows

`AuditPipeline_standard`, an entry under `findings` with the line it
contradicts: the standard mode (gate without jury) loses what the gate demoted or
refuted and can end with an `UnboundLocalError`. The list of survivors is emptied
after the branch that fills it, and the function that judges is defined in
another branch.

## 7. Observations

### Shown by TLC without a run of their own

Each is a change of constants or of a property away from a run of section 3.

* An interrupt during a tool leaves tool calls without results, and the next
  prompt sends them: `QueryLoop_session` with `UserActions = {"interrupt"}` violates
  `RequestWellFormed`. The assistant's message is appended before the tools run,
  their results after; nothing repairs the list on cancellation.
* `/compact` during a run drops messages: with `UserActions = {"compact"}` it
  violates `KeepsRecent`. `compact()` slices the list, awaits the summary, then
  clears the list and puts the slice back.
* Threads exceed the limit: `RateLimiter_threads` violates `WithinRpm`. Two
  threads that see the last free place, or wait for the same entry, both append
  without looking again (rate_limiter.py:285). The excess is not bounded
  by the number of threads: whoever finds the window overfull waits for its oldest
  entry only, so two threads add two for each that expires. With two threads, a
  limit of 2 and `MaxGrants` 14, TLC reaches six requests in a window.
* A live entry is popped and an empty deque read: with a thread and a coroutine,
  `RateLimiter_threads` violates both the invariant that `popped` is at most `expired`
  and the one that no client stands at `peek`, `pop` or `oldest` with an empty deque. The
  first makes room that is not there, the second is an `IndexError` out of `acquire`
  or `acquire_sync` (rate_limiter.py:232, :266); that both locks are given back on it, and
  that nobody waits for what was popped, is `CallsEnd`.
* Requests go out over the budget: `QueryLoop_session` violates `overspent = 0`. The first
  turn of a prompt never looks at the budget, and a background sub-agent records its cost on the
  session's tracker (sub_agent.py:111-113, :204) while the loop extracts memories,
  compacts or backs off after the check (query_loop.py:251). `BudgetStops` says what is left
  of the limit: one turn's attempts.
* A healthy key is benched: `KeyRotation_shared` violates `BenchesFailedKey`.
  `mark_cooldown` is given the wrapper's current key at the time of the error,
  which another caller may have swapped.
* Bridge mode loses its scaffold: with the harness on in bridge mode,
  `PhoenixLoop_standard` violates `ProvenIsEarned`. The harness, on by default, is
  written to the scaffold's file, and when it does not succeed the attempts that
  follow write attack contracts that nothing runs; each is judged by the test the
  harness left behind.

### Read off the code while modelling

*Query loop and keys.* A fallback model chosen on the last attempt is never
called; a short cooldown that arrives after a long one shortens it; in a session
of one prompt the only safe cuts are before messages of role user, and there is no
second one, so the trigger fires on every turn and nothing is compacted
(auto_compact.py:144).

*Pipeline.* A finding the jury confirmed is still set to REJECTED by a failed
test, as the condition asks for the verdict, which the jury does not set
(lead_agent.py:1646); the depth workers return pairs, so the points of
`DEPTH_SCORE_MAP` are never given (lead_agent.py:1256, against
`architecture.md`); chain upgrades of severity are applied before the step that
proposes them (lead_agent.py:1200); the fuzzer zips two lists that may be out of
step (lead_agent.py:1713).

*TestWriter.* A forge command that times out or cannot start counts as
compiled and yields `[POC-FAIL]`, which models/finding.py:16 explains as "PoC
compiled but didn't pass"; the test code that is reported without a proof may
never have compiled; the comment that attempt 1 is the template's holds only
when no harness attempt came before; `.env.example:144` suggests
`HARNESS_MODE=auto`, which the worker reads as off; `sandbox.run` blocks the
event loop, so the caller's timeout cannot fire during a command.

*Tools on findings.* The gate's inner timeout equals the tool's, and the outer
one, set first, fires first: a gate that times out does not pass the finding as
its docstring says, and the jury's default skips it (jury_worker.py:84, gate_tool.py:86).
Without indices the depth tool takes nothing, as it looks for `None` in a field
that starts as an empty string (depth_tool.py:79). `report_tool` asks whether
`jury_decision` is REFUTED, which no jury says. Gate and depth points are given
again at every call; two agents can prove one finding, for twice 30 points.
Chain numbers start again at every call; of several upgrades the last one stays,
not the highest (chain_analyzer.py:371), and the tool never applies one. An empty
list of indices means all findings, a negative index counts from the end, and
`max_concurrent=0` waits for ever on a semaphore of none (testwriter_tool.py:87).
The judge's decision is not compared with the votes.

*Session.* An interrupted foreground sub-agent emits no WORKER_COMPLETE and stays
"running" in the panel; a failed one is shown as done; quitting leaves a
background task "running"; no tool reads a background agent's result;
`TaskStore.cancel` has no caller.

*Files.* The guard of the file tools is shared by all agents of a session: what
one has read another may overwrite (context.py:160); the time is taken after the
content was read (context.py:122); a change within the clock's tick passes
(context.py:168); a write is not registered, so the session's own second edit is
refused as somebody else's change (file_write_tool.py:86).

*Memory.* A forced dream releases whoever's lock it finds; a rollback leaves the
process's own name in the file, which is then refused its own lock for an hour; a
dream that is cancelled or dies loses the entries it had taken, as the time was
moved at the claim (auto_dream.py:84), and so does one whose claim empties the lock file
and cannot be written, as its time is moved without a dream; what a session stores while the model is
asked is never condensed; the document is emptied before it is written, so that an error
in writing it, which is caught and rolled back (auto_dream.py:178, :186), loses all that was
condensed before; and only its first 5000 characters are merged.

*Scheduler.* The daemon saves its table after each run, over what other commands
added or removed meanwhile (scheduler.py:94), and takes up new schedules only
when it is started again.

*What counts as a guard.* `is_unprotected_mutator` is cleared by more than looks at
the caller: a modifier on a flag, as `nonReentrant` and `whenNotPaused`
(access_control.py:692-694), the check of an initialiser (:1146), an internal function
whose name sounds like a guard or that mentions `msg.sender` and checks something else (:329),
and a check beside a call of something named like a role registry (:425). Anybody may call such
entries, and `get_unprotected_mutators` does not list them: `TakenForGuard` is the
list of what the flag misses. Checks two calls away, or in a function that
is itself public, are not seen, so that an entry may be flagged although it is
checked.

*Order of calls and writes.* All that one node of the control flow graph does has one
coordinate, and the comparison is strict (reentrancy.py:297, :308), so
`total = pool.call()`, which stores the result of an external call in a state variable, is
no write after a call. Nodes are compared by their place in Slither's list: of two
branches that exclude each other the second seems to follow the first, and a write at
the top of a loop that calls at its end is not seen to follow that call.

*Taint.* The docstring of `_propagate_taint_interprocedural` says that each callee is
analysed again with its expanded taint and that tainted return values are handed
back to the callers (state_transitions.py:734-737). The rounds only add the parameter to the
callee's set, and to its writes those of the parameter itself: a local that the callee
computes from it stays untainted, with what that local is stored in or handed to, and no
returned value is handed back. `TaintFollowsCalls` therefore has two
bounds, `TaintedIn` without and `FlowsIn` with what such a callee computes.

*Graph.* A STATE_DEPENDENCY edge replaces the CALLS edge of the same two
functions, and the passes after it do not see the call
(vulnerability_detection.py:107, scoring.py:167); so does the edge of a call
through the contract's own interface, after which a guard that is also called
directly protects nobody. Callers are lost from `get_callers` and
`get_function_context` for the same reason, and `get_external_call_edges` omits a
call whose edge got another label. On call cycles the cache loses
writes (enrichment.py:114); calls to contracts whose nodes come later leave no
edge; a variable that is read and written loses its READS edge; a chain of more
than four tainted calls against the node order is not followed to its end. Coordinates
of calls and writes overlap when a modifier has more than a thousand events
on one side of its placeholder. `uses_tainted_math`
is computed and never stored; what oracle, arithmetic and signature passes add to
`risk_score` is overwritten by the scoring pass. The hotspot query ignores its
`min_*` arguments in favour of environment variables (graph_queries.py:1034).
`get_safe_functions` may list a function that `get_unprotected_mutators` or
the reentrancy query lists as well: a reentrancy guard without a check of the
caller is enough for it, and so is the check without the guard. An
internal function can be an exploit target. `max_chain_length` counts the chains
that start at a function, while its comment says "involving"
(vulnerability_detection.py:248).

*Scores.* That a check of the caller does not raise a score holds only for
functions that stand alone, which is why `GuardNeverRaisesScore` says so. TLC
finds programs of six functions where the checked twin of an entry is an exploit target
and the open one is not: of chains only the first of the longest extensions is kept, and
five of them by score, before it is asked whether they are feasible; four taint rounds
in node order give twins different paths; the first sequence in edge order decides
between a boost of 20 and of 15; and whether a call's contract comes later in
the node order decides what class the call has.

## 8. Plan

What is left, in the order of what it would add:

1. A *jury* as an abstract specification that returns one decision of a set, with
   `JuryPanel` under it and `AuditPipeline!Jury` above it; now the two use the
   decisions of one and the outcomes of the other.
2. The query loop inside `AgentSession`, so that a sub-agent's calls come from
   the turns of a loop, with its budget and compaction.
3. The forced dream as a caller with promises of its own, once the code gives it
   any; the same holds for the scheduler's table and the guard of the file tools.
4. Ingestion, if the repository comes to decide itself what each level leaves out.
