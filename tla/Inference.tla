------------------------------ MODULE Inference ------------------------------
(***************************************************************************)
(* A text generation from the HTTP request to its last chunk: the API of   *)
(* one node (api/main.py), the master (master/main.py) and the workers of  *)
(* the instance (module Runner), joined by the event log.                  *)
(*                                                                         *)
(* The log is what EventLog shows it to be: the events of one sender are   *)
(* indexed in the order sent, and everyone applies the indexed events in   *)
(* that order.  The master serves a command from the state it has; the     *)
(* events of the command go through the log like any other.                *)
(***************************************************************************)
EXTENDS Runner

CONSTANT MaxCancels   \* bound: generations the user cancels

VARIABLES
    mapping,   \* Master.command_task_mapping: commands that have a task
    msent,     \* events sent by the master, not yet indexed
    cmds,      \* commands on their way to the master
    stream,    \* stream[g]: the stream that waits for the chunks of g
    answered,  \* generations whose last chunk the API has seen
    cancels    \* number of generations cancelled

masterVars == <<mapping, msent>>
apiVars == <<stream, answered, cancels>>
vars == <<runnerVars, masterVars, cmds, apiVars>>

InferenceInit ==
    /\ Init
    /\ mapping = {} /\ msent = <<>>
    /\ cmds = <<>>
    /\ stream = [g \in Gens |-> "none"]
    /\ answered = {} /\ cancels = 0

Command(type, g) == [type |-> type, gen |-> g]
DeleteInstance == Command("DeleteInstance", "none")

\* Bound: nobody asks for a deletion that is on its way.
Deleting == DeleteInstance \in Range(cmds) \/ InstanceDeleted \in Range(msent)
-----------------------------------------------------------------------------
(***************************************************************************)
(* Master._event_processor indexes the next event of a worker or of the    *)
(* master itself; Worker._event_applier and API._apply_state apply it.     *)
(***************************************************************************)
\* Streams that end when event e leads to state s.
Ends(s, e) ==
    CASE e.type = "ChunkGenerated" -> {e.key}
      [] e.type = "InstanceDeleted" -> {g \in Gens : s.tasks[g] # "absent"}
      [] OTHER -> {}

Index(e) ==
    LET ended == {g \in Ends(Apply(state, e), e) : stream[g] = "open"} IN
    /\ state' = Apply(state, e)
    /\ attempts' = IF e = InstanceDeleted THEN [n \in Nodes |-> 0] ELSE attempts
    /\ stream' = [g \in Gens |-> IF g \in ended THEN "closed" ELSE stream[g]]
    /\ cmds' = cmds \o SetToSeq({Command("TaskFinished", g) : g \in ended})
    /\ answered' = answered \cup (IF e.type = "ChunkGenerated" THEN {e.key} ELSE {})
    /\ UNCHANGED <<plan, sup, proc, tasks, events, troubles, mapping, cancels>>

IndexWorkerEvent(n) ==
    /\ outbox[n] # <<>>
    /\ outbox' = [outbox EXCEPT ![n] = Tail(@)]
    /\ Index(Head(outbox[n]))
    /\ UNCHANGED msent

IndexMasterEvent ==
    /\ msent # <<>>
    /\ msent' = Tail(msent)
    /\ Index(Head(msent))
    /\ UNCHANGED outbox

(***************************************************************************)
(* Master._command_processor, for the commands that concern generations    *)
(* and the instance.  A command that raises ValueError is dropped.         *)
(***************************************************************************)
\* get_transition_events for a deleted instance.
Deletion ==
    SetToSeq({TaskStatusUpdated(g, "Cancelled") : g \in {h \in Gens : state.tasks[h] \in {"Pending", "Running"}}})
        \o <<InstanceDeleted>>

Generated(c) ==
    CASE c.type = "TextGeneration" /\ state.inst -> <<TaskCreated(c.gen, "Pending")>>
      [] c.type = "TaskCancelled" /\ c.gen \in mapping -> <<TaskStatusUpdated(c.gen, "Cancelled")>>
      [] c.type = "TaskFinished" /\ c.gen \in mapping -> <<TaskDeleted(c.gen)>>
      [] c.type = "DeleteInstance" /\ state.inst -> Deletion
      [] OTHER -> <<>>

ServeCommand ==
    LET c == Head(cmds) IN
    /\ cmds # <<>>
    /\ cmds' = Tail(cmds)
    /\ msent' = msent \o Generated(c)
    /\ mapping' = CASE c.type = "TextGeneration" /\ state.inst -> mapping \cup {c.gen}
                    [] c.type = "TaskFinished" -> mapping \ {c.gen}
                    [] OTHER -> mapping
    /\ UNCHANGED <<runnerVars, apiVars>>

\* Master._plan_once: the instance of a node that is gone is deleted.
PlanOnce ==
    /\ state.inst /\ \E n \in Nodes : ~Up(n)
    /\ ~Deleting
    /\ msent' = Append(msent, InstanceDeleted)
    /\ UNCHANGED <<runnerVars, mapping, cmds, apiVars>>
-----------------------------------------------------------------------------
\* Worker.plan_step when the retries are used up.
PlanDeleteInstance(n) ==
    /\ Planning(n) /\ CreateRunner(n)
    /\ attempts[n] >= MaxRetries
    /\ ~Deleting
    /\ cmds' = Append(cmds, DeleteInstance)
    /\ UNCHANGED <<runnerVars, masterVars, apiVars>>

InWorker(A) == A /\ UNCHANGED <<masterVars, cmds, apiVars>>

Planned(n) == PlanDeleteInstance(n) \/ InWorker(PlanStep(n))
Forwards(n) == InWorker(Forward(n))
Watches(n) == InWorker(WatchRunner(n))
Finalises(n) == InWorker(RunFinally(n))
Processes(n) == InWorker(ProcessStep(n))
Fails(n) == InWorker(Fault(n))
-----------------------------------------------------------------------------
(***************************************************************************)
(* The API: a request whose model has an instance and no failed runner     *)
(* becomes a command and opens a stream; the stream ends with a chunk that *)
(* has a finish reason, when it is cancelled, or when the instance of its  *)
(* task is deleted, and in every case the command is reported as finished. *)
(***************************************************************************)
TextGeneration(g) ==
    /\ stream[g] = "none"
    /\ state.inst /\ \A n \in Nodes : state.runners[n] # "Failed"
    /\ stream' = [stream EXCEPT ![g] = "open"]
    /\ cmds' = Append(cmds, Command("TextGeneration", g))
    /\ UNCHANGED <<runnerVars, masterVars, answered, cancels>>

CancelCommand(g) ==
    /\ stream[g] = "open" /\ cancels < MaxCancels
    /\ cancels' = cancels + 1
    /\ stream' = [stream EXCEPT ![g] = "closed"]
    /\ cmds' = cmds \o <<Command("TaskCancelled", g), Command("TaskFinished", g)>>
    /\ UNCHANGED <<runnerVars, masterVars, answered>>

DeleteRequest ==
    /\ state.inst /\ ~Deleting /\ troubles < MaxTroubles
    /\ troubles' = troubles + 1
    /\ cmds' = Append(cmds, DeleteInstance)
    /\ UNCHANGED <<state, plan, attempts, sup, proc, tasks, events, outbox, masterVars, apiVars>>

\* What the event loops, the processes, the master and the log do by themselves.
System ==
    \/ \E n \in Nodes : \/ Planned(n) \/ Forwards(n) \/ Watches(n) \/ Finalises(n)
                         \/ Processes(n) \/ IndexWorkerEvent(n)
    \/ IndexMasterEvent \/ ServeCommand \/ PlanOnce

Next ==
    \/ System
    \/ \E n \in Nodes : Fails(n)
    \/ \E g \in Gens : TextGeneration(g) \/ CancelCommand(g)
    \/ DeleteRequest

Spec == InferenceInit /\ [][Next]_vars

(***************************************************************************)
(* The nodes do not stop while there is something to do: events, commands  *)
(* and tasks are handled in the end, in any order.                         *)
(***************************************************************************)
Fairness == WF_vars(System)

FairSpec == Spec /\ Fairness
-----------------------------------------------------------------------------
Channel == {"RunnerStatusUpdated", "TaskCreated", "TaskStatusUpdated", "TaskDeleted", "ChunkGenerated",
            "InstanceDeleted", "TaskAcknowledged", "EndOfStream"}

IsState(s) ==
    /\ s.inst \in BOOLEAN
    /\ s.runners \in [Nodes -> (Statuses \ {"Shutdown"}) \cup {"absent"}]
    /\ s.tasks \in [Gens -> TaskStatuses \cup {"absent"}]

(***************************************************************************)
(* The variables have their types; in particular a runner that has shut    *)
(* down has no status (apply_runner_status_updated).                       *)
(***************************************************************************)
TypeOK ==
    /\ IsState(state)
    /\ \A n \in Nodes :
         /\ plan[n].at \in {"ready", "waiting", "crashed"}
         /\ attempts[n] \in 0 .. MaxRetries
         /\ sup[n].tg \in {"none", "on", "cancelled", "stopping", "closed"}
         /\ sup[n].status \in Statuses
         /\ sup[n].pending \subseteq Tasks /\ sup[n].inProgress \subseteq Tasks
         /\ sup[n].completed \subseteq Gens /\ sup[n].cancelled \subseteq Gens
         /\ proc[n].status \in Statuses \cup {"none"}
         /\ \A i \in DOMAIN tasks[n] : tasks[n][i] \in Tasks
         /\ \A i \in DOMAIN events[n] : events[n][i].type \in Channel
    /\ troubles \in 0 .. MaxTroubles /\ cancels \in 0 .. MaxCancels
    /\ mapping \subseteq Gens /\ answered \subseteq Gens
    /\ stream \in [Gens -> {"none", "open", "closed"}]

(***************************************************************************)
(* A runner process is never given a task "outside of state machine"       *)
(* (Runner.handle_task), and no task twice: plan() goes by the status the  *)
(* supervisor has seen, and start_task waits for the acknowledgement.      *)
(***************************************************************************)
InStateMachine ==
    \A n \in Nodes :
        /\ proc[n].doing # "outside"
        /\ \A i \in DOMAIN tasks[n] : tasks[n][i] \notin proc[n].seen

(***************************************************************************)
(* "If a task has just been completed, we should be working on it": the    *)
(* assertion of _forward_events never fails, nor does plan() look up a     *)
(* runner the state does not know.                                         *)
(***************************************************************************)
NoBadLookup == \A n \in Nodes : plan[n].at = "crashed" => plan[n].task \notin {"assert", "missing"}

(***************************************************************************)
(* When the API sees a generation as complete it has seen its last chunk:  *)
(* the chunk is overtaken neither in the pipe, nor in the supervisor, nor  *)
(* in the log.                                                             *)
(***************************************************************************)
CompleteIsAnswered == \A g \in Gens : state.tasks[g] = "Complete" => g \in answered

(***************************************************************************)
(* "lets not kill the worker if a runner is unresponsive" (Worker.plan_step)*)
(***************************************************************************)
WorkerSurvives == \A n \in Nodes : Up(n)

(***************************************************************************)
(* plan_step is never stuck in start_task: the event it waits for is set   *)
(* by the acknowledgement, or by _check_runner or the end of               *)
(* _forward_events when the process is gone.                               *)
(***************************************************************************)
PlanReturns == \A n \in Nodes : plan[n].at = "waiting" ~> plan[n].at # "waiting"

Formed == \A n \in Nodes : state.runners[n] \in {"Ready", "Running"}

(***************************************************************************)
(* The barriers of plan() let the runners of an instance through: without  *)
(* faults and deletions every runner is ready in the end.                  *)
(***************************************************************************)
GroupForms == <>Formed

(***************************************************************************)
(* A stream that is opened is closed: the request reaches the master, the  *)
(* task the leader, and its last chunk the API.                            *)
(***************************************************************************)
AnswerArrives == \A g \in Gens : stream[g] = "open" ~> stream[g] = "closed"
=============================================================================
