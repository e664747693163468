---------------------------- MODULE AgentSession ----------------------------
(***************************************************************************)
(* One session of the agent: the main agent, the sub-agents it spawns      *)
(* (src/src/agent/sub_agent.py) on the same findings, the task store, the  *)
(* event bus and the terminal interface's panels (src/src/tui/app.py).     *)
(*                                                                         *)
(* A sub-agent in the foreground blocks the main agent; one in the         *)
(* background does not and has an entry in the task store.  Neither may    *)
(* spawn.  The locks of the task store and of the bus are never held over  *)
(* an await, so what a coroutine does between two answers is one step.     *)
(***************************************************************************)
EXTENDS FindingTools, EventBus

CONSTANTS
    Main,      \* the main agent
    Workers    \* bound: the sub-agents of the session

ASSUME SessionAssumption == Agents = Workers \cup {Main} /\ Main \notin Workers

VARIABLES
    open,        \* the application is running
    life,        \* what became of each sub-agent
    status,      \* status of its task in the task store
    completed,   \* auxiliary: sub-agents whose WORKER_COMPLETE was emitted
    shown,       \* findings in the findings panel
    panel        \* the sub-agents' entries in the workers panel

sessionVars == <<open, life, status, completed, shown, panel>>
vars == <<toolVars, queue, lost, sessionVars>>

Lives == {"unborn", "foreground", "background", "over"}

Event == [type : {"FINDING_ADDED"}, index : Nat]
            \cup [type : {"WORKER_SPAWNED", "WORKER_COMPLETE"}, worker : Workers]

(* The main agent waits for its foreground sub-agent, a sub-agent that is  *)
(* over calls nothing.                                                     *)
MayCall(a) ==
    IF a = Main THEN \A w \in Workers : life[w] # "foreground"
    ELSE life[a] \in {"foreground", "background"}

(* ToolContext.add_finding, of each finding a call adds.                   *)
Added ==
    [k \in 1..(Len(findings') - Len(findings)) |->
        [type |-> "FINDING_ADDED", index |-> Len(findings) + k]]

Call(a) == open /\ MayCall(a) /\ UseTool(a) /\ Emit(Added) /\ UNCHANGED sessionVars

-----------------------------------------------------------------------------
(* spawn_agent, and _run_background for one in the background.             *)
Spawn(w) ==
    /\ open
    /\ MayCall(Main)
    /\ call[Main] = Idle
    /\ life[w] = "unborn"
    /\ \E kind \in {"foreground", "background"} :
         /\ life' = [life EXCEPT ![w] = kind]
         /\ status' = [status EXCEPT ![w] = IF kind = "background" THEN "running" ELSE @]
    /\ Emit(<<[type |-> "WORKER_SPAWNED", worker |-> w]>>)
    /\ UNCHANGED <<toolVars, open, completed, shown, panel>>

\* Mutant: the agents' calls go on.
LeftRunning(agents) == UNCHANGED call

(* The calls of these agents are cancelled where they wait.                *)
Stop(agents) == call' = [a \in Agents |-> IF a \in agents THEN Idle ELSE call[a]]

(* TaskStore.update, for a sub-agent in the background.                    *)
Settle(w, how) ==
    status' = [status EXCEPT ![w] = IF life[w] = "background" THEN how ELSE @]

(* sub_loop.run returns (how is "done"), or fails, or has run for 600      *)
(* seconds ("failed"): the call it was in is cancelled.                    *)
End(w, how) ==
    /\ open
    /\ life[w] \in {"foreground", "background"}
    /\ how = "done" => call[w] = Idle
    /\ Stop({w})
    /\ life' = [life EXCEPT ![w] = "over"]
    /\ Settle(w, how)
    /\ completed' = completed \cup {w}
    /\ Emit(<<[type |-> "WORKER_COMPLETE", worker |-> w]>>)
    /\ UNCHANGED <<findings, calls, named, open, shown, panel>>

Return(w) == End(w, "done")

\* Mutant: only sub-agents in the foreground time out.
ForegroundTimeOut(w) == life[w] = "foreground" /\ End(w, "failed")

TimeOut(w) == End(w, "failed")

(* The user interrupts the main agent: its call is cancelled, and with it  *)
(* the sub-agent it waits for, which tells nobody.                         *)
Interrupt ==
    /\ open
    /\ call[Main] # Idle \/ \E w \in Workers : life[w] = "foreground"
    /\ Stop({Main} \cup {w \in Workers : life[w] = "foreground"})
    /\ life' = [w \in Workers |-> IF life[w] = "foreground" THEN "over" ELSE life[w]]
    /\ UNCHANGED <<findings, calls, named, queue, lost, open, status, completed, shown, panel>>

(* The user quits: the subscriber is removed first, then every task is     *)
(* cancelled, and cancellation is none of the ends that set a status.      *)
Quit ==
    /\ open
    /\ open' = FALSE
    /\ queue' = <<>>
    /\ Stop(Agents)
    /\ life' = [w \in Workers |-> IF life[w] = "unborn" THEN "unborn" ELSE "over"]
    /\ UNCHANGED <<findings, calls, named, lost, status, completed, shown, panel>>

-----------------------------------------------------------------------------
(* CritikalApp._consume_events and _route_event: the findings panel is     *)
(* drawn anew from all findings there are by then, and a sub-agent whose   *)
(* start was not seen has no entry to complete.                            *)
Route(e) ==
    /\ shown' = IF e.type = "FINDING_ADDED" THEN Len(findings) ELSE shown
    /\ panel' = IF e.type = "WORKER_SPAWNED" THEN [panel EXCEPT ![e.worker] = "running"]
                ELSE IF e.type = "WORKER_COMPLETE" /\ panel[e.worker] # "none"
                     THEN [panel EXCEPT ![e.worker] = "done"]
                ELSE panel

\* Mutant: the latest event is routed first.
ConsumeLatest ==
    /\ open
    /\ queue # <<>>
    /\ Route(queue[Len(queue)])
    /\ queue' = SubSeq(queue, 1, Len(queue) - 1)
    /\ UNCHANGED <<toolVars, lost, open, life, status, completed>>

Consume ==
    /\ open
    /\ queue # <<>>
    /\ Route(Head(queue))
    /\ queue' = Tail(queue)
    /\ UNCHANGED <<toolVars, lost, open, life, status, completed>>

-----------------------------------------------------------------------------
Init ==
    /\ ToolInit
    /\ queue = <<>>
    /\ lost = FALSE
    /\ open = TRUE
    /\ life = [w \in Workers |-> "unborn"]
    /\ status = [w \in Workers |-> "none"]
    /\ completed = {}
    /\ shown = 0
    /\ panel = [w \in Workers |-> "none"]

Next ==
    \/ \E a \in Agents : Call(a)
    \/ \E w \in Workers : Spawn(w) \/ Return(w) \/ TimeOut(w)
    \/ Interrupt
    \/ Quit
    \/ Consume

(* Every await of a tool has a timeout, and so has every sub-agent; the    *)
(* event loop runs what is ready.                                          *)
Fairness ==
    /\ \A a \in Agents : WF_vars(open /\ MayCall(a) /\ (Answer(a) \/ Finish(a)) /\ UNCHANGED <<queue, lost, sessionVars>>)
    /\ \A w \in Workers : WF_vars(TimeOut(w))
    /\ WF_vars(Consume)

Spec == Init /\ [][Next]_vars /\ Fairness

-----------------------------------------------------------------------------
TypeOK ==
    /\ ToolTypeOK
    /\ queue \in Seq(Event) /\ Len(queue) <= QueueSize
    /\ lost \in BOOLEAN
    /\ open \in BOOLEAN
    /\ life \in [Workers -> Lives]
    /\ status \in [Workers -> {"none", "running", "done", "failed"}]
    /\ completed \subseteq Workers
    /\ shown \in Nat
    /\ panel \in [Workers -> {"none", "running", "done"}]

(* An agent that is not running has no call, and none while the main agent *)
(* waits: a sub-agent that timed out or was interrupted, and every agent   *)
(* of an application that was closed, changes no finding afterwards        *)
(* (sub_agent.py:181).                                                     *)
CallsAreLive == \A a \in Agents : call[a] # Idle => open /\ MayCall(a)

(* The panels fall behind only by what is still queued or was dropped:     *)
(* with an empty queue and nothing lost, the screen shows all findings,    *)
(* every sub-agent that was spawned, and as done exactly those that told   *)
(* they are (tui/app.py:303-322).                                          *)
PanelCatchesUp ==
    open /\ queue = <<>> /\ ~lost =>
        /\ shown = Len(findings)
        /\ \A w \in Workers : (panel[w] = "none") <=> (life[w] = "unborn")
        /\ \A w \in Workers : (panel[w] = "done") <=> (w \in completed)

(* Every sub-agent ends, and a background one's task does not stay running *)
(* unless the application was closed (sub_agent.py:183).                   *)
WorkersEnd ==
    \A w \in Workers :
        /\ life[w] \in {"foreground", "background"} ~> life[w] = "over"
        /\ status[w] = "running" ~> (status[w] # "running" \/ ~open)
=============================================================================
