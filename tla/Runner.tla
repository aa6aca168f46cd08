------------------------------- MODULE Runner -------------------------------
(***************************************************************************)
(* The workers of one model instance.  On each node of the instance a      *)
(* Worker plans (worker/plan.py, worker/main.py), a RunnerSupervisor       *)
(* relays tasks and events (worker/runner/runner_supervisor.py) and a      *)
(* runner process does the work (worker/runner/llama_cpp/runner.py).       *)
(*                                                                         *)
(* The worker, the supervisor's _forward_events, _watch_runner and run are *)
(* tasks of one event loop; a step here is what one of them does between   *)
(* two suspensions.  Supervisor and process talk over two pipes.  Every    *)
(* event the worker sends is left in outbox until Inference indexes it.    *)
(* Models are taken to be downloaded, and of the task events only those    *)
(* about generations are kept.                                             *)
(***************************************************************************)
EXTENDS Integers, SequencesExt, FiniteSetsExt

CONSTANTS
    Nodes,       \* the nodes the instance has shards on
    Leader,      \* the node of rank 0, the only one that is given generations
    Gens,        \* text generation tasks
    MaxRetries,  \* CAI_MAX_INSTANCE_RETRIES
    MaxTroubles  \* bound: failing processes and deletions by the user

VARIABLES
    state,     \* the replicated state
    plan,      \* plan[n]: what plan_step of n is doing
    attempts,  \* attempts[n]: _instance_backoff.attempts of the instance
    sup,       \* sup[n]: the RunnerSupervisor of n
    proc,      \* proc[n]: the runner process of n
    tasks,     \* tasks[n]: pipe from the supervisor to the process
    events,    \* events[n]: pipe from the process to the supervisor
    outbox,    \* outbox[n]: events sent by the worker of n, not yet indexed
    troubles   \* number of failures and deletions so far

runnerVars == <<state, plan, attempts, sup, proc, tasks, events, outbox, troubles>>

Statuses == {"Idle", "Connecting", "Connected", "Loading", "Loaded", "WarmingUp",
             "Ready", "Running", "ShuttingDown", "Shutdown", "Failed"}
Setup == {"connect", "load", "warmup"}
Tasks == Setup \cup {"shutdown"} \cup Gens
TaskStatuses == {"Pending", "Running", "Complete", "Cancelled"}

Event(type, key, val) == [type |-> type, key |-> key, val |-> val]
RunnerStatusUpdated(n, s) == Event("RunnerStatusUpdated", n, s)
TaskCreated(g, s) == Event("TaskCreated", g, s)
TaskStatusUpdated(g, s) == Event("TaskStatusUpdated", g, s)
TaskDeleted(g) == Event("TaskDeleted", g, "none")
ChunkGenerated(g) == Event("ChunkGenerated", g, "none")
InstanceDeleted == Event("InstanceDeleted", "none", "none")
TaskAcknowledged(t) == Event("TaskAcknowledged", t, "none")
EndOfStream == Event("EndOfStream", "none", "none")

-----------------------------------------------------------------------------
(***************************************************************************)
(* The replicated state, as far as the instance is concerned.  It is the   *)
(* same for everyone: the delay between a sender and its readers is in     *)
(* outbox.                                                                 *)
(***************************************************************************)
NewState == [inst |-> TRUE, runners |-> [n \in Nodes |-> "absent"], tasks |-> [g \in Gens |-> "absent"]]

\* Mutant: a runner that has shut down keeps its status.
ApplyKeepsShutdown(s, e) ==
    CASE e.type = "RunnerStatusUpdated" -> [s EXCEPT !.runners[e.key] = e.val]
      [] e.type = "TaskCreated" -> [s EXCEPT !.tasks[e.key] = e.val]
      [] e.type = "TaskStatusUpdated" ->
            [s EXCEPT !.tasks[e.key] = IF @ = "absent" THEN @ ELSE e.val]
      [] e.type = "TaskDeleted" -> [s EXCEPT !.tasks[e.key] = "absent"]
      [] e.type = "InstanceDeleted" -> [s EXCEPT !.inst = FALSE]
      [] OTHER -> s

Apply(s, e) ==
    CASE e.type = "RunnerStatusUpdated" ->
            [s EXCEPT !.runners[e.key] = IF e.val = "Shutdown" THEN "absent" ELSE e.val]
      [] e.type = "TaskCreated" -> [s EXCEPT !.tasks[e.key] = e.val]
      [] e.type = "TaskStatusUpdated" ->
            [s EXCEPT !.tasks[e.key] = IF @ = "absent" THEN @ ELSE e.val]
      [] e.type = "TaskDeleted" -> [s EXCEPT !.tasks[e.key] = "absent"]
      [] e.type = "InstanceDeleted" -> [s EXCEPT !.inst = FALSE]
      [] OTHER -> s

NoSupervisor ==
    [tg |-> "none", forward |-> "end", watch |-> FALSE, status |-> "Idle", pending |-> {},
     inProgress |-> {}, completed |-> {}, cancelled |-> {}]

NewSupervisor == [NoSupervisor EXCEPT !.tg = "on", !.forward = "call", !.watch = TRUE]

NoProcess == [alive |-> FALSE, exit |-> "none", status |-> "none", doing |-> "none",
              seen |-> {}, closed |-> FALSE]

Ready == [at |-> "ready", task |-> "none", set |-> FALSE]

Init ==
    /\ state = NewState
    /\ plan = [n \in Nodes |-> Ready]
    /\ attempts = [n \in Nodes |-> 0]
    /\ sup = [n \in Nodes |-> NoSupervisor]
    /\ proc = [n \in Nodes |-> NoProcess]
    /\ tasks = [n \in Nodes |-> <<>>]
    /\ events = [n \in Nodes |-> <<>>]
    /\ outbox = [n \in Nodes |-> <<>>]
    /\ troubles = 0

Up(n) == plan[n].at # "crashed"
Held(n) == sup[n].tg # "none"

\* The supervisor is cancelled: it forwards nothing more, and run() sees the
\* process out, which no longer has anyone to talk to.
LetGo(n) ==
    /\ sup' = [sup EXCEPT ![n] = NoSupervisor]
    /\ proc' = [proc EXCEPT ![n] = NoProcess]
    /\ tasks' = [tasks EXCEPT ![n] = <<>>]
    /\ events' = [events EXCEPT ![n] = <<>>]

\* An exception leaves a task of the worker, and with it the whole worker.
Crash(n, why) ==
    /\ plan' = [plan EXCEPT ![n] = [at |-> "crashed", task |-> why, set |-> FALSE]]
    /\ LetGo(n)

Send(n, es) == outbox' = [outbox EXCEPT ![n] = @ \o es]

-----------------------------------------------------------------------------
(***************************************************************************)
(* plan(): the first sub-plan that wants something.  The supervisor's own  *)
(* status is fresh, the statuses of the other runners come from the state. *)
(***************************************************************************)
All(ss) == \A m \in Nodes : state.runners[m] \in ss
Alone == Cardinality(Nodes) = 1

CancelTasks(n) == {g \in Gens : Held(n) /\ state.tasks[g] = "Cancelled" /\ g \notin sup[n].cancelled}

OtherFailed(n) == \E m \in Nodes \ {n} : state.runners[m] = "Failed"

KillRunner(n) ==
    Held(n) /\ (~state.inst \/ sup[n].status = "Failed" \/ OtherFailed(n))

CreateRunner(n) ==
    /\ state.inst
    /\ ~Held(n)
    /\ OtherFailed(n) => state.runners[n] = "Failed"

InitDistributedBackend(n) ==
    ~Alone /\ sup[n].status = "Idle" /\ All({"Idle", "Connecting", "Connected"})

\* Mutant: a runner that is already loading holds up the others.
LoadModelTogether(n) ==
    \/ Alone /\ sup[n].status = "Idle"
    \/ sup[n].status = "Connected" /\ All({"Connected"})

LoadModel(n) ==
    \/ Alone /\ sup[n].status = "Idle"
    \/ sup[n].status = "Connected" /\ All({"Connected", "Loading", "Loaded"})

ReadyToWarmup(n) == sup[n].status = "Loaded" /\ All({"Loaded", "WarmingUp", "Ready"})

\* Generations plan() considers for the runner, before it looks at the others.
Eligible(n) ==
    {g \in Gens : /\ n = Leader
                  /\ state.tasks[g] \in {"Pending", "Running"}
                  /\ g \notin sup[n].completed \cup sup[n].inProgress
                  /\ sup[n].status \in {"Ready", "Running"}}

PendingTasks(n) == {g \in Eligible(n) : All({"Ready", "Running"})}

\* all_runners[...] has no entry for a runner of the instance.
MissingRunner(n) ==
    /\ Eligible(n) # {}
    /\ \E m \in Nodes : state.runners[m] = "absent"
    /\ All({"Ready", "Running", "absent"})

Urgent(n) == CancelTasks(n) # {} \/ KillRunner(n)
Planning(n) == plan[n].at = "ready"
-----------------------------------------------------------------------------
(***************************************************************************)
(* RunnerSupervisor._check_runner.  It is run when the process is dead or  *)
(* about to be, and does not suspend: nothing else of the loop comes in    *)
(* between.  s is the supervisor it finds.                                 *)
(***************************************************************************)
CleanExit(n, s) == proc[n].exit = "zero" /\ s.pending = {} /\ s.inProgress = {}

AfterCheck(n, s) ==
    IF CleanExit(n, s)
    THEN [s EXCEPT !.watch = FALSE]
    ELSE [s EXCEPT !.watch = FALSE, !.status = "Failed", !.pending = {}, !.inProgress = {},
                   !.tg = IF @ = "on" THEN "cancelled" ELSE @]

CheckEvents(n, s) ==
    IF CleanExit(n, s) \/ s.tg \notin {"on", "cancelled"}
    THEN <<>>
    ELSE SetToSeq({ChunkGenerated(g) : g \in s.inProgress \cap Gens})
            \o <<RunnerStatusUpdated(n, "Failed")>>

\* Mutant: nobody sets the events of the pending tasks.
WakeNobody(n, s) == plan

\* The events of the pending tasks are set.
Wake(n, s) ==
    IF plan[n].task \in s.pending THEN [plan EXCEPT ![n].set = TRUE] ELSE plan

CheckRunner(n, s) ==
    /\ sup' = [sup EXCEPT ![n] = AfterCheck(n, s)]
    /\ Send(n, CheckEvents(n, s))
    /\ plan' = IF CleanExit(n, s) THEN plan ELSE Wake(n, s)

-----------------------------------------------------------------------------
(***************************************************************************)
(* RunnerSupervisor.start_task, called by plan_step with what it has       *)
(* already sent.  The pipe is closed by the process when it ends and by    *)
(* run() when it stops; after run() has closed the process object,         *)
(* is_alive() in _check_runner raises ValueError, and the worker dies.     *)
(***************************************************************************)
TaskPipeClosed(n) == proc[n].closed \/ sup[n].tg \in {"stopping", "closed"}

Submit(n, t, sent) ==
    /\ ~TaskPipeClosed(n)
    /\ sup' = [sup EXCEPT ![n].pending = @ \cup {t}, ![n].inProgress = @ \cup {t}]
    /\ tasks' = [tasks EXCEPT ![n] = Append(@, t)]
    /\ plan' = [plan EXCEPT ![n] = [at |-> "waiting", task |-> t, set |-> FALSE]]
    /\ Send(n, sent)
    /\ UNCHANGED <<proc, events>>

\* The task is dropped and start_task returns; the caller goes on with its
\* next step at once, which for a shutdown is to let the supervisor go.
Drop(n, t, sent) ==
    LET s == [sup[n] EXCEPT !.pending = @ \cup {t}] IN
    /\ TaskPipeClosed(n) /\ sup[n].tg # "closed"
    /\ Send(n, sent \o CheckEvents(n, s))
    /\ IF t = "shutdown"
       THEN LetGo(n)
       ELSE sup' = [sup EXCEPT ![n] = AfterCheck(n, s)] /\ UNCHANGED <<proc, tasks, events>>
    /\ UNCHANGED plan

Die(n, t, sent) ==
    /\ sup[n].tg = "closed"
    /\ Crash(n, "closed")
    /\ Send(n, sent)

StartTask(n, t, sent) == Submit(n, t, sent) \/ Drop(n, t, sent) \/ Die(n, t, sent)

(***************************************************************************)
(* One pass of plan_step, one action for each kind of task.                *)
(***************************************************************************)
PlanCancelTask(n, g) ==
    /\ Planning(n) /\ g \in CancelTasks(n)
    /\ sup' = [sup EXCEPT ![n].cancelled = @ \cup {g}]
    /\ UNCHANGED <<state, plan, attempts, proc, tasks, events, outbox, troubles>>

PlanShutdown(n) ==
    /\ Planning(n) /\ CancelTasks(n) = {} /\ KillRunner(n)
    /\ StartTask(n, "shutdown", <<>>)
    /\ UNCHANGED <<state, attempts, troubles>>

PlanCreateRunner(n) ==
    /\ Planning(n) /\ CreateRunner(n)
    /\ attempts[n] < MaxRetries
    /\ attempts' = [attempts EXCEPT ![n] = @ + 1]
    /\ sup' = [sup EXCEPT ![n] = NewSupervisor]
    /\ proc' = [proc EXCEPT ![n] = [NoProcess EXCEPT !.alive = TRUE]]
    /\ UNCHANGED <<state, plan, tasks, events, outbox, troubles>>

PlanSetup(n) ==
    /\ Planning(n) /\ Held(n) /\ ~Urgent(n)
    /\ \/ InitDistributedBackend(n) /\ StartTask(n, "connect", <<>>)
       \/ LoadModel(n) /\ StartTask(n, "load", <<>>)
       \/ ReadyToWarmup(n) /\ StartTask(n, "warmup", <<>>)
    /\ UNCHANGED <<state, attempts, troubles>>

PlanGeneration(n, g) ==
    /\ Planning(n) /\ Held(n) /\ ~Urgent(n)
    /\ IF MissingRunner(n)
       THEN Crash(n, "missing") /\ UNCHANGED outbox
       ELSE g \in PendingTasks(n) /\ StartTask(n, g, <<TaskCreated(g, state.tasks[g])>>)
    /\ UNCHANGED <<state, attempts, troubles>>

\* The event start_task waits for is set; the supervisor of a runner that was
\* shut down is cancelled.  plan_step waits for a shutdown three seconds at most.
PlanReturn(n) ==
    /\ plan[n].at = "waiting"
    /\ plan[n].set \/ plan[n].task = "shutdown"
    /\ plan' = [plan EXCEPT ![n] = Ready]
    /\ IF plan[n].task = "shutdown"
       THEN LetGo(n)
       ELSE UNCHANGED <<sup, proc, tasks, events>>
    /\ UNCHANGED <<state, attempts, outbox, troubles>>

-----------------------------------------------------------------------------
(***************************************************************************)
(* RunnerSupervisor._forward_events.  Its receive() raises once the        *)
(* process has closed the pipe, whatever is left in it ("call"), except    *)
(* that a receive() which was past that test when the pipe was closed      *)
(* still returns the next item ("get").                                    *)
(***************************************************************************)
Working == {"Running", "WarmingUp", "Loading", "Connecting", "ShuttingDown"}

\* What handling an event does to the supervisor and to the waiting plan_step.
Handled(s, e) ==
    CASE e.type = "RunnerStatusUpdated" -> [s EXCEPT !.status = e.val]
      [] e.type = "TaskAcknowledged" -> [s EXCEPT !.pending = @ \ {e.key}]
      [] e.type = "TaskStatusUpdated" /\ e.val = "Complete" ->
            [s EXCEPT !.inProgress = @ \ {e.key}, !.completed = @ \cup ({e.key} \cap Gens)]
      [] OTHER -> s

\* Events about set-up tasks change nothing that is modelled.
Forwarded(e) ==
    IF \/ e.type = "TaskAcknowledged"
       \/ e.type = "TaskStatusUpdated" /\ e.key \notin Gens
    THEN <<>> ELSE <<e>>

AssertionFails(s, e) ==
    e.type = "TaskStatusUpdated" /\ e.val = "Complete" /\ s.status \notin Working

Acknowledges(n, e) ==
    e.type = "TaskAcknowledged" /\ e.key \in sup[n].pending /\ e.key = plan[n].task

Receives(n) ==
    /\ Up(n) /\ sup[n].tg = "on"
    /\ events[n] # <<>>
    /\ sup[n].forward = "get" \/ (sup[n].forward = "call" /\ ~proc[n].closed)

ForwardEvent(n) ==
    LET e == Head(events[n]) IN
    /\ Receives(n) /\ e # EndOfStream
    /\ IF AssertionFails(sup[n], e)
       THEN Crash(n, "assert") /\ UNCHANGED outbox
       ELSE /\ events' = [events EXCEPT ![n] = Tail(@)]
            /\ sup' = [sup EXCEPT ![n] = [Handled(@, e) EXCEPT !.forward = "call"]]
            /\ Send(n, Forwarded(e))
            /\ plan' = [plan EXCEPT ![n].set = @ \/ Acknowledges(n, e)]
            /\ UNCHANGED <<proc, tasks>>
    /\ UNCHANGED <<state, attempts, troubles>>

ForwardEnds(n) ==
    /\ Receives(n) /\ Head(events[n]) = EndOfStream
    /\ sup' = [sup EXCEPT ![n].forward = "end"]
    /\ plan' = Wake(n, sup[n])
    /\ UNCHANGED <<state, attempts, proc, tasks, events, outbox, troubles>>

ForwardClosed(n) ==
    /\ Up(n) /\ sup[n].tg = "on"
    /\ sup[n].forward = "call" /\ proc[n].closed
    /\ CheckRunner(n, [sup[n] EXCEPT !.forward = "end"])
    /\ UNCHANGED <<state, attempts, proc, tasks, events, troubles>>

(***************************************************************************)
(* _watch_runner finds the process dead; the supervisor's task group ends  *)
(* when it is cancelled or when both of its tasks are over; then run()     *)
(* closes the pipes, waits for the process and closes the process object.  *)
(***************************************************************************)
WatchRunner(n) ==
    /\ Up(n) /\ sup[n].tg = "on" /\ sup[n].watch /\ ~proc[n].alive
    /\ CheckRunner(n, sup[n])
    /\ UNCHANGED <<state, attempts, proc, tasks, events, troubles>>

RunFinally(n) ==
    /\ Up(n)
    /\ \/ /\ \/ sup[n].tg = "cancelled"
             \/ sup[n].tg = "on" /\ sup[n].forward = "end" /\ ~sup[n].watch
          /\ sup' = [sup EXCEPT ![n].tg = "stopping"]
       \/ /\ sup[n].tg = "stopping"
          /\ sup' = [sup EXCEPT ![n].tg = "closed"]
    /\ UNCHANGED <<state, plan, attempts, proc, tasks, events, outbox, troubles>>

-----------------------------------------------------------------------------
(***************************************************************************)
(* The runner process: entrypoint, Runner.main and Runner.handle_task.     *)
(***************************************************************************)
Accepts(s, t) ==
    \/ t = "connect" /\ s = "Idle"
    \/ t = "load" /\ s \in {"Idle", "Connected"}
    \/ t = "warmup" /\ s = "Loaded"
    \/ t \in Gens /\ s = "Ready"
    \/ t = "shutdown"

During(t) ==
    CASE t = "connect" -> "Connecting" [] t = "load" -> "Loading" [] t = "warmup" -> "WarmingUp"
      [] t = "shutdown" -> "ShuttingDown" [] OTHER -> "Running"

After(t) ==
    CASE t = "connect" -> "Connected" [] t = "load" -> "Loaded" [] t = "shutdown" -> "Shutdown"
      [] OTHER -> "Ready"

Report(n, es) == events' = [events EXCEPT ![n] = @ \o es]
Runs(n) == Up(n) /\ proc[n].alive

Boot(n) ==
    /\ Runs(n) /\ proc[n].status = "none"
    /\ proc' = [proc EXCEPT ![n].status = "Idle"]
    /\ Report(n, <<RunnerStatusUpdated(n, "Idle")>>)
    /\ UNCHANGED <<state, plan, attempts, sup, tasks, outbox, troubles>>

\* A generation is reported as running; that a set-up task is has no effect.
RunningStatus(t) == IF t \in Gens THEN <<TaskStatusUpdated(t, "Running")>> ELSE <<>>

\* Mutant: a task is acknowledged before the status is updated.
StartedAckFirst(n, t) ==
    RunningStatus(t) \o <<TaskAcknowledged(t), RunnerStatusUpdated(n, During(t))>>

\* A task that is taken: it is reported as running and acknowledged.
Started(n, t) ==
    RunningStatus(t) \o <<RunnerStatusUpdated(n, During(t)), TaskAcknowledged(t)>>

TakeTask(n) ==
    LET t == Head(tasks[n]) IN
    /\ Runs(n) /\ proc[n].status \notin {"none", "Shutdown", "Failed"}
    /\ proc[n].doing = "none" /\ tasks[n] # <<>>
    /\ tasks' = [tasks EXCEPT ![n] = Tail(@)]
    /\ IF t \in proc[n].seen
       THEN UNCHANGED <<proc, events>>
       ELSE IF Accepts(proc[n].status, t)
            THEN /\ proc' = [proc EXCEPT ![n].status = During(t), ![n].doing = t,
                                         ![n].seen = @ \cup ({t} \cap Gens)]
                 /\ Report(n, Started(n, t))
            ELSE /\ proc' = [proc EXCEPT ![n].status = "Failed", ![n].doing = "outside"]
                 /\ Report(n, RunningStatus(t) \o <<RunnerStatusUpdated(n, "Failed")>>)
    /\ UNCHANGED <<state, plan, attempts, sup, outbox, troubles>>

\* Mutants: the status before the completion, the completion before the
\* chunk, and no chunk.
FinishedStatusFirst(n, t) ==
    (IF t \in Gens THEN <<ChunkGenerated(t)>> ELSE <<>>)
        \o <<RunnerStatusUpdated(n, After(t)), TaskStatusUpdated(t, "Complete")>>

FinishedChunkLast(n, t) ==
    <<TaskStatusUpdated(t, "Complete"), RunnerStatusUpdated(n, After(t))>>
        \o (IF t \in Gens THEN <<ChunkGenerated(t)>> ELSE <<>>)

FinishedSilently(n, t) ==
    <<TaskStatusUpdated(t, "Complete"), RunnerStatusUpdated(n, After(t))>>

\* What the process sends when it has done its task.
Finished(n, t) ==
    (IF t \in Gens THEN <<ChunkGenerated(t)>> ELSE <<>>)
        \o <<TaskStatusUpdated(t, "Complete"), RunnerStatusUpdated(n, After(t))>>

FinishTask(n) ==
    LET t == proc[n].doing IN
    /\ Runs(n) /\ t \in Tasks
    /\ proc' = [proc EXCEPT ![n].status = After(t), ![n].doing = "none"]
    /\ Report(n, Finished(n, t))
    /\ UNCHANGED <<state, plan, attempts, sup, tasks, outbox, troubles>>

\* The work of a set-up task raises: entrypoint reports the failure.
TaskRaises(n) ==
    /\ Runs(n) /\ proc[n].doing \in Setup
    /\ troubles < MaxTroubles
    /\ troubles' = troubles + 1
    /\ proc' = [proc EXCEPT ![n].status = "Failed", ![n].doing = "none"]
    /\ Report(n, <<RunnerStatusUpdated(n, "Failed")>>)
    /\ UNCHANGED <<state, plan, attempts, sup, tasks, outbox>>

\* The process leaves main and closes both pipes.
ProcessExit(n) ==
    /\ Runs(n) /\ proc[n].status \in {"Shutdown", "Failed"}
    /\ proc' = [proc EXCEPT ![n].alive = FALSE, ![n].exit = "zero", ![n].closed = TRUE]
    /\ Report(n, <<EndOfStream>>)
    /\ \E f \in {"call", "get"} :
          sup' = [sup EXCEPT ![n].forward = IF @ = "call" THEN f ELSE @]
    /\ UNCHANGED <<state, plan, attempts, tasks, outbox, troubles>>

\* The process is killed by a signal; what its queue has not written is lost.
ProcessKilled(n) ==
    /\ Runs(n)
    /\ troubles < MaxTroubles
    /\ troubles' = troubles + 1
    /\ proc' = [proc EXCEPT ![n].alive = FALSE, ![n].exit = "signal", ![n].doing = "none"]
    /\ \E k \in 0 .. Len(events[n]) : events' = [events EXCEPT ![n] = SubSeq(@, 1, k)]
    /\ UNCHANGED <<state, plan, attempts, sup, tasks, outbox>>

-----------------------------------------------------------------------------
PlanStep(n) ==
    \/ \E g \in Gens : PlanCancelTask(n, g) \/ PlanGeneration(n, g)
    \/ PlanShutdown(n) \/ PlanCreateRunner(n) \/ PlanSetup(n) \/ PlanReturn(n)

Forward(n) == ForwardEvent(n) \/ ForwardEnds(n) \/ ForwardClosed(n)

ProcessStep(n) == Boot(n) \/ TakeTask(n) \/ FinishTask(n) \/ ProcessExit(n)

Fault(n) == TaskRaises(n) \/ ProcessKilled(n)
=============================================================================
