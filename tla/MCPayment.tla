----------------------------- MODULE MCPayment -----------------------------
(***************************************************************************)
(* A paid request: its settlement ("settle", in which the threads of a     *)
(* node overlap; "crash", in which they take turns, a request or an answer *)
(* is lost and a node crashes) and the job it belongs to ("jobs",          *)
(* "rerun"), in settings that are checked side by side.  The component     *)
(* that is not looked at rests.                                            *)
(***************************************************************************)
EXTENDS Settlement, TLC

VARIABLES setting, intents, receipts, ex, sweep, old, runs, stops

jobVars == <<intents, receipts, ex, sweep, old, runs, stops>>

MCBond == "v" :> 1
Requests == {"j"}

Crashing == INSTANCE Settlement WITH Overlap <- FALSE, MaxTroubles <- 1, MaxCrashes <- 1

Paid == INSTANCE Jobs WITH
    Jobs <- Requests, MaxAttempts <- 2, Patient <- TRUE, MaxRuns <- 1, MaxCrashes <- 1,
    crashes <- stops

Repeated == INSTANCE Jobs WITH
    Jobs <- Requests, MaxAttempts <- 1, Patient <- FALSE, MaxRuns <- 2, MaxCrashes <- 0,
    crashes <- stops

Off == "off"
JobsOff ==
    /\ intents = Off /\ receipts = Off /\ ex = Off /\ sweep = Off /\ old = Off /\ runs = Off
    /\ stops = Off

MCInit ==
    /\ Init
    /\ \/ setting \in {"settle", "crash"} /\ JobsOff
       \/ setting = "jobs" /\ Paid!Init
       \/ setting = "rerun" /\ Repeated!Init

MCNext ==
    /\ UNCHANGED setting
    /\ \/ setting = "settle" /\ Next /\ UNCHANGED jobVars
       \/ setting = "crash" /\ Crashing!Next /\ UNCHANGED jobVars
       \/ setting = "jobs" /\ Paid!Next /\ UNCHANGED vars
       \/ setting = "rerun" /\ Repeated!Next /\ UNCHANGED vars

(***************************************************************************)
(* The fairness of the components, each in its settings.  Threads that     *)
(* take turns get their turn: a thread that waits for the others of its    *)
(* node to rest is enabled again and again.  Nobody asks a node that is    *)
(* not in the committee, so its handlers have nothing to do.               *)
(***************************************************************************)
MCFairness ==
    /\ \A n \in Nodes, t \in Locals : WF_vars(setting = "settle" /\ Thread(n, t))
    /\ \A n \in Nodes, t \in Locals : SF_vars(setting = "crash" /\ Crashing!Thread(n, t))
    /\ \A n \in Committee, t \in Handlers : WF_vars(setting = "settle" /\ Thread(n, t))
    /\ \A n \in Committee, t \in Handlers : SF_vars(setting = "crash" /\ Crashing!Thread(n, t))
    /\ \A n \in Committee : WF_vars(setting \in {"settle", "crash"} /\ RegainEligibility(n))
    /\ \A n \in Nodes : WF_vars(setting \in {"settle", "crash"} /\ CatchUp(n))
    /\ WF_jobVars(
            \/ setting = "jobs" /\ Paid!Step("j")
            \/ setting = "rerun" /\ Repeated!Step("j"))
    /\ WF_jobVars(
            \/ setting = "jobs" /\ Paid!GrowOld("j")
            \/ setting = "rerun" /\ Repeated!GrowOld("j"))
    /\ WF_jobVars(
            \/ setting = "jobs" /\ Paid!Sweep
            \/ setting = "rerun" /\ Repeated!Sweep)

MCSpec == MCInit /\ [][MCNext]_<<setting, vars, jobVars>> /\ MCFairness

-----------------------------------------------------------------------------
\* What the variables of settlement and jobs hold.
TypesOK ==
    /\ TypeOK
    /\ setting = "jobs" => Paid!TypeOK
    /\ setting = "rerun" => Repeated!TypeOK

\* A job the file calls completed has its receipt (reconcile_stale_running_job_intents).
CompletedHasReceipt ==
    /\ setting = "jobs" => Paid!CompletedHasReceipt
    /\ setting = "rerun" => Repeated!CompletedHasReceipt

HasReceipt == setting = "jobs" /\ receipts # {}
Completed == setting = "jobs" => intents["j"].status = "completed"

\* A job whose receipt has been written is completed in the end and stays so
\* (reconcile_stale_running_job_intents).
ReceiptCompletes == HasReceipt ~> []Completed

Running == setting \in {"jobs", "rerun"} /\ intents["j"].status = "running" /\ ~intents["j"].paid

\* No job is running for ever (reconcile_stale_running_job_intents).
RunningEnds == Running ~> ~Running
=============================================================================
