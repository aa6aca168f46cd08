------------------------------- MODULE MCSafety -------------------------------
(***************************************************************************)
(* What may never happen in the components of a node, each in a setting of *)
(* its own; the settings are checked side by side.  FileTransfer is        *)
(* extended with the constants of the configuration ("transfer") and rests *)
(* in the other settings; the other components, and file transfers next to *)
(* fetches that a failed task left behind ("strays"), are instances whose  *)
(* variables are x1, x2, ... in the order they are declared there.         *)
(***************************************************************************)
EXTENDS FileTransfer

VARIABLES
    setting,
    x1, x2, x3, x4, x5, x6, x7, x8, x9, x10, x11, x12, x13, x14, x15, x16

Single == {"a"}
Gens == {"g"}
Two == {1, 2}
Candidates == {1}
Nobody == {}

Faults == INSTANCE Inference WITH
    Nodes <- Single, Leader <- "a", MaxRetries <- 2, MaxTroubles <- 2, MaxCancels <- 0,
    state <- x1, plan <- x2, attempts <- x3, sup <- x4, proc <- x5, tasks <- x6, events <- x7,
    outbox <- x8, troubles <- x9, mapping <- x10, msent <- x11, cmds <- x12, stream <- x13,
    answered <- x14, cancels <- x15

Straying == INSTANCE FileTransfer WITH
    Strays <- TRUE, MaxTroubles <- 1,
    part <- x1, final <- x2, shard <- x3, fetch <- x4, tasks <- x5, troubles <- x6

Flap == INSTANCE Election WITH
    Nodes <- Two, Workers <- Nobody, WorkerBonus <- 10, Reclaim <- FALSE, Timely <- TRUE,
    MaxClock <- 2, MaxCommands <- 0, MaxChanges <- 2,
    clock <- x1, session <- x2, seniority <- x3, connected <- x4, pending <- x5, worker <- x6,
    commands <- x7, campaigns <- x8, scope <- x9, done <- x10, took <- x11, won <- x12,
    chan <- x13, queued <- x14, links <- x15, made <- x16

\* The variables that a component with k variables leaves alone.
Off == "off"
rest0 == <<x1, x2, x3, x4, x5, x6, x7, x8, x9, x10, x11, x12, x13, x14, x15, x16>>
rest6 == <<x7, x8, x9, x10, x11, x12, x13, x14, x15, x16>>
rest15 == <<x16>>
Off15 ==
    /\ x16 = Off
Off6 ==
    /\ x7 = Off /\ x8 = Off /\ x9 = Off /\ x10 = Off /\ x11 = Off /\ x12 = Off /\ x13 = Off
    /\ x14 = Off /\ x15 = Off /\ Off15
Off0 ==
    /\ x1 = Off /\ x2 = Off /\ x3 = Off /\ x4 = Off /\ x5 = Off /\ x6 = Off /\ Off6

Rests == Init /\ part = [f \in Files |-> Absent] /\ final = part

MCInit ==
    \/ setting = "transfer" /\ Init /\ Off0
    \/ setting = "strays" /\ Rests /\ Straying!Init /\ Off6
    \/ setting = "faults" /\ Rests /\ Faults!InferenceInit /\ Off15
    \/ setting = "flap" /\ Rests /\ Flap!Init

MCNext ==
    /\ UNCHANGED setting
    /\ \/ setting = "transfer" /\ Next /\ UNCHANGED rest0
       \/ setting = "strays" /\ Straying!Next /\ UNCHANGED <<vars, rest6>>
       \/ setting = "faults" /\ Faults!Next /\ UNCHANGED <<vars, rest15>>
       \/ setting = "flap" /\ Flap!Next /\ UNCHANGED vars

all == <<setting, vars, rest0>>
MCSpec == MCInit /\ [][MCNext]_all

-----------------------------------------------------------------------------
\* What the variables of the components hold.
TypesOK ==
    /\ TypeOK
    /\ setting = "faults" => Faults!TypeOK
    /\ setting = "flap" => Flap!TypeOK

\* A runner process is never given a task outside of its state machine, nor one twice
\* (Runner.handle_task).
InStateMachine == setting = "faults" => Faults!InStateMachine

\* Neither _forward_events nor plan() looks up what is not there.
NoBadLookup == setting = "faults" => Faults!NoBadLookup

\* When the API sees a generation as complete it has seen its last chunk.
CompleteIsAnswered == setting = "faults" => Faults!CompleteIsAnswered

\* Fetches that a failed shard task left behind do not make the next one fail either
\* (download_shard, _download_file).
FailureNextToStrays == setting = "strays" => Straying!FailureHasCause

\* "Any master candidate will automatically win out over this node": a settled cluster with a
\* candidate has a candidate as its master, though links come and go (Election.__init__).
CandidateWins == setting = "flap" => Flap!CandidateWins
=============================================================================
