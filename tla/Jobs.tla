-------------------------------- MODULE Jobs --------------------------------
(***************************************************************************)
(* The paid requests of one node: create_job_intent, execute_job_intent up *)
(* to the receipt and its end, and reconcile_stale_running_job_intents of  *)
(* jobs.py, over the files of job_storage.py.                              *)
(*                                                                         *)
(* Every job has a thread that creates and runs it and keeps its record in *)
(* memory.  Each look at the dashboard sweeps the file for jobs that stay  *)
(* running.  A file is locked for one read or one write at a time; who     *)
(* changes a record reads the list, replaces the record and writes the     *)
(* list.  What happens between receipt and end is module Settlement; here  *)
(* it succeeds or raises.                                                  *)
(***************************************************************************)
EXTENDS Integers, Sequences, SequencesExt

CONSTANTS
    Jobs,
    MaxAttempts,   \* CAI_JOB_EXECUTION_MAX_ATTEMPTS
    Patient,       \* whether a job that still runs is never taken for stale
    MaxRuns,       \* bound: executions of a job
    MaxCrashes     \* bound: crashes of the node

VARIABLES
    intents,    \* the file of job intents
    receipts,   \* jobs with a receipt in the file of receipts
    ex,         \* ex[j]: the thread of job j
    sweep,      \* the thread of reconcile_stale_running_job_intents
    old,        \* jobs created longer ago than the timeout
    runs,       \* runs[j]: executions started
    crashes

vars == <<intents, receipts, ex, sweep, old, runs, crashes>>

Absent == [status |-> "absent", paid |-> FALSE, attempts |-> <<>>]
Created == [Absent EXCEPT !.status = "created"]
NoList == [j \in Jobs |-> Absent]

\* pc: next step; then: the step after a save; job: the record in memory; list, paid: files as
\* they were read; tries: attempts of this execution.
Gone == [pc |-> "gone", then |-> "gone", job |-> Absent, list |-> NoList, paid |-> {}, tries |-> 0]
Resting == [pc |-> "rest", list |-> NoList, paid |-> {}, stale |-> {}]

Init ==
    /\ intents = NoList
    /\ receipts = {}
    /\ ex = [j \in Jobs |-> Gone]
    /\ sweep = Resting
    /\ old = {}
    /\ runs = [j \in Jobs |-> 0]
    /\ crashes = 0

At(j, pc) == ex[j].pc = pc
Put(j, r) == ex' = [ex EXCEPT ![j] = r]
Goto(j, pc) == Put(j, [ex[j] EXCEPT !.pc = pc])
Raise(j) == Put(j, Gone)

\* update_job_intent of the record as it is now; what follows depends on the step.
Save(j, job, then) == Put(j, [ex[j] EXCEPT !.pc = "read", !.then = then, !.job = job])
Fail(j, job) == Save(j, [job EXCEPT !.status = "failed"], "gone")
Running(job) == [job EXCEPT !.status = "running"]
Attempt(job, status) == [job EXCEPT !.attempts = Append(Front(@), status)]

-----------------------------------------------------------------------------
(***************************************************************************)
(* job_storage.py                                                          *)
(***************************************************************************)
ReadIntents(j) ==
    /\ At(j, "read")
    /\ IF intents[j] = Absent THEN Raise(j)
       ELSE Put(j, [ex[j] EXCEPT !.pc = "write", !.list = intents])
    /\ UNCHANGED <<intents, receipts, sweep, old, runs, crashes>>

WriteIntents(j) ==
    /\ At(j, "write")
    /\ intents' = [ex[j].list EXCEPT ![j] = ex[j].job]
    /\ Put(j, IF ex[j].then = "gone" THEN Gone
              ELSE [ex[j] EXCEPT !.pc = ex[j].then, !.list = NoList])
    /\ UNCHANGED <<receipts, sweep, old, runs, crashes>>

-----------------------------------------------------------------------------
\* create_job_intent appends to the list it has read.
Create(j) ==
    /\ At(j, "gone") /\ runs[j] = 0
    /\ runs' = [runs EXCEPT ![j] = 1]
    /\ Put(j, [Gone EXCEPT !.pc = "write", !.then = "resolve", !.job = Created, !.list = intents])
    /\ UNCHANGED <<intents, receipts, sweep, old, crashes>>

\* The command line runs a job again, whatever its status.
Rerun(j) ==
    /\ At(j, "gone") /\ intents[j] # Absent /\ runs[j] < MaxRuns
    /\ runs' = [runs EXCEPT ![j] = @ + 1]
    /\ Put(j, [Gone EXCEPT !.pc = "resolve"])
    /\ UNCHANGED <<intents, receipts, sweep, old, crashes>>

(***************************************************************************)
(* execute_job_intent up to the response.                                  *)
(***************************************************************************)
\* The job is looked up; funding that is not there fails it, a locked wallet only raises.
Preflight(j) ==
    LET job == intents[j] IN
    /\ At(j, "resolve")
    /\ \/ job = Absent /\ Raise(j)
       \/ job # Absent /\ Raise(j)
       \/ job # Absent /\ Fail(j, job)
       \/ job # Absent /\ Save(j, Running(job), "route")
    /\ UNCHANGED <<intents, receipts, sweep, old, runs, crashes>>

\* A model that does not match, or a required transport without a route, fails the job; the
\* task-level transport may have the response already.
Route(j) ==
    /\ At(j, "route")
    /\ \/ Fail(j, ex[j].job)
       \/ Goto(j, "settle")
       \/ Goto(j, "attempt")
    /\ UNCHANGED <<intents, receipts, sweep, old, runs, crashes>>

\* One turn of the loop begins, or the deadline is over.
StartAttempt(j) ==
    LET job == [ex[j].job EXCEPT !.attempts = Append(@, "running")] IN
    /\ At(j, "attempt")
    /\ \/ Fail(j, Attempt(job, "failed"))
       \/ Put(j, [ex[j] EXCEPT !.pc = "read", !.then = "ready", !.job = Running(job), !.tries = @ + 1])
    /\ UNCHANGED <<intents, receipts, sweep, old, runs, crashes>>

\* _update_latest_execution_attempt_phase when the instance is ready.
Ready(j) ==
    /\ At(j, "ready")
    /\ Save(j, ex[j].job, "respond")
    /\ UNCHANGED <<intents, receipts, sweep, old, runs, crashes>>

Respond(j) ==
    /\ At(j, "respond")
    /\ Save(j, Attempt(ex[j].job, "completed"), "settle")
    /\ UNCHANGED <<intents, receipts, sweep, old, runs, crashes>>

\* An exception: another attempt if there is one left, the error is of the kind and time
\* remains.
AttemptFails(j) ==
    /\ At(j, "ready") \/ At(j, "respond")
    /\ \/ ex[j].tries < MaxAttempts /\ Save(j, Attempt(ex[j].job, "retrying"), "attempt")
       \/ Fail(j, Attempt(ex[j].job, "failed"))
    /\ UNCHANGED <<intents, receipts, sweep, old, runs, crashes>>

(***************************************************************************)
(* execute_job_intent from the response to its end.                        *)
(***************************************************************************)
\* Ineligible or missing participants and a price that cannot be funded fail the job.
Settle(j) ==
    /\ At(j, "settle")
    /\ Fail(j, ex[j].job) \/ Put(j, [ex[j] EXCEPT !.pc = "receipt", !.paid = receipts])
    /\ UNCHANGED <<intents, receipts, sweep, old, runs, crashes>>

WriteReceipt(j) ==
    /\ At(j, "receipt")
    /\ receipts' = ex[j].paid \union {j}
    /\ Put(j, [ex[j] EXCEPT !.pc = "tail", !.paid = {}])
    /\ UNCHANGED <<intents, sweep, old, runs, crashes>>

\* Settlement and attestations; an exception leaves the job running.
SettlementTail(j) ==
    /\ At(j, "tail")
    /\ Raise(j) \/ Put(j, [ex[j] EXCEPT !.pc = "audit", !.paid = receipts])
    /\ UNCHANGED <<intents, receipts, sweep, old, runs, crashes>>

\* update_execution_receipt; should it fail, the job is completed all the same.
UpdateReceipt(j) ==
    /\ At(j, "audit")
    /\ receipts' \in {ex[j].paid \union {j}, receipts}
    /\ Put(j, [ex[j] EXCEPT !.pc = "read", !.then = "gone", !.paid = {},
                            !.job = [ex[j].job EXCEPT !.status = "completed", !.paid = TRUE]])
    /\ UNCHANGED <<intents, sweep, old, runs, crashes>>

-----------------------------------------------------------------------------
(***************************************************************************)
(* reconcile_stale_running_job_intents                                     *)
(***************************************************************************)
\* The age of a job is taken at the start.
SweepRead ==
    /\ sweep.pc = "rest"
    /\ sweep' = [sweep EXCEPT !.pc = "receipts", !.list = intents, !.stale = old]
    /\ UNCHANGED <<intents, receipts, ex, old, runs, crashes>>

SweepReceipts ==
    /\ sweep.pc = "receipts"
    /\ sweep' = [sweep EXCEPT !.pc = "save", !.paid = receipts]
    /\ UNCHANGED <<intents, receipts, ex, old, runs, crashes>>

\* Mutant: a receipt is not looked for.
ReconciledByAge(job, paid, stale) ==
    IF job.status = "running" /\ stale THEN [job EXCEPT !.status = "failed"] ELSE job

\* Mutant: only jobs with a receipt are closed.
ReconciledByReceipt(job, paid, stale) ==
    IF job.status = "running" /\ paid THEN [job EXCEPT !.status = "completed", !.paid = TRUE] ELSE job

\* Mutant: a running job is completed unless it is stale, without a look at the receipts.
ReconciledUnread(job, paid, stale) ==
    IF job.status = "running" THEN [job EXCEPT !.status = IF stale THEN "failed" ELSE "completed"] ELSE job

Reconciled(job, paid, stale) ==
    IF job.status # "running" THEN job
    ELSE IF ~job.paid /\ paid THEN [job EXCEPT !.status = "completed", !.paid = TRUE]
    ELSE IF ~job.paid /\ stale THEN [job EXCEPT !.status = "failed"]
    ELSE job

\* The list is only written if a job has changed.
SweepSave ==
    LET list == [j \in Jobs |-> Reconciled(sweep.list[j], j \in sweep.paid, j \in sweep.stale)] IN
    /\ sweep.pc = "save"
    /\ intents' = IF list # sweep.list THEN list ELSE intents
    /\ sweep' = Resting
    /\ UNCHANGED <<receipts, ex, old, runs, crashes>>

GrowOld(j) ==
    /\ intents[j] # Absent /\ j \notin old
    /\ Patient => At(j, "gone")
    /\ old' = old \union {j}
    /\ UNCHANGED <<intents, receipts, ex, sweep, runs, crashes>>

Crash ==
    /\ crashes < MaxCrashes
    /\ crashes' = crashes + 1
    /\ ex' = [j \in Jobs |-> Gone]
    /\ sweep' = Resting
    /\ UNCHANGED <<intents, receipts, old, runs>>

-----------------------------------------------------------------------------
Step(j) ==
    \/ ReadIntents(j) \/ WriteIntents(j) \/ Preflight(j) \/ Route(j)
    \/ StartAttempt(j) \/ Ready(j) \/ Respond(j) \/ AttemptFails(j)
    \/ Settle(j) \/ WriteReceipt(j) \/ SettlementTail(j) \/ UpdateReceipt(j)

Sweep == SweepRead \/ SweepReceipts \/ SweepSave

Next ==
    \/ \E j \in Jobs : Create(j) \/ Rerun(j) \/ GrowOld(j) \/ Step(j)
    \/ Sweep
    \/ Crash

Spec == Init /\ [][Next]_vars

\* Threads go on, the dashboard is looked at again and again, and time passes.
Fairness ==
    /\ \A j \in Jobs : WF_vars(Step(j)) /\ WF_vars(GrowOld(j))
    /\ WF_vars(Sweep)

FairSpec == Spec /\ Fairness

-----------------------------------------------------------------------------
\* What the variables hold.
TypeOK ==
    /\ \A j \in Jobs :
        /\ intents[j].status \in {"absent", "created", "running", "failed", "completed"}
        /\ intents[j].paid \in BOOLEAN
        /\ Range(intents[j].attempts) \subseteq {"running", "retrying", "failed", "completed"}
        /\ ex[j].pc \in {"gone", "read", "write", "resolve", "route", "attempt", "ready", "respond",
                        "settle", "receipt", "tail", "audit"}
        /\ ex[j].tries \in 0 .. MaxAttempts
    /\ receipts \subseteq Jobs /\ old \subseteq Jobs
    /\ sweep.pc \in {"rest", "receipts", "save"}
    /\ runs \in [Jobs -> 0 .. MaxRuns] /\ crashes \in 0 .. MaxCrashes

(***************************************************************************)
(* A job the file calls completed has its receipt, whether its own thread  *)
(* or the sweep has completed it (with one job at a time: the receipts of  *)
(* two jobs can overwrite each other).                                     *)
(***************************************************************************)
CompletedHasReceipt == \A j \in Jobs : intents[j].status = "completed" => j \in receipts

(***************************************************************************)
(* A job whose receipt has been written is completed in the end and stays  *)
(* so, even if its settlement raises or the node crashes right after it:   *)
(* the sweep finds the receipt.  This needs a sweep that takes no running  *)
(* job for stale.                                                          *)
(***************************************************************************)
ReceiptCompletes == \A j \in Jobs : j \in receipts ~> [](intents[j].status = "completed")

(***************************************************************************)
(* No job is running for ever: its thread ends it, or the sweep does after *)
(* a crash, even while jobs are run again and taken for stale too early.   *)
(* A job that was completed once and is run again is left out: the sweep   *)
(* passes over it.                                                         *)
(***************************************************************************)
RunningEnds ==
    \A j \in Jobs : intents[j].status = "running" ~> (intents[j].status # "running" \/ intents[j].paid)
=============================================================================
