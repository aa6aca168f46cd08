----------------------------- MODULE MCService -----------------------------
(***************************************************************************)
(* What must happen in the services of a node -- inference, election,      *)
(* download, the validator's lease -- each in settings of its own that are *)
(* checked side by side.  Download is extended with the constants of the   *)
(* configuration and rests in the settings of the others, which are        *)
(* instances whose variables are x1, x2, ... in the order they are         *)
(* declared there.                                                         *)
(***************************************************************************)
EXTENDS Download

VARIABLES
    setting,
    x1, x2, x3, x4, x5, x6, x7, x8, x9, x10, x11, x12, x13, x14, x15, x16

Me == {1}
Single == {"a"}
Pair == {"a", "b"}
Gens == {"g"}
Replicas == {"a", "b"}

Group == INSTANCE Inference WITH
    Nodes <- Pair, Leader <- "a", MaxRetries <- 1, MaxTroubles <- 0, MaxCancels <- 0,
    state <- x1, plan <- x2, attempts <- x3, sup <- x4, proc <- x5, tasks <- x6, events <- x7,
    outbox <- x8, troubles <- x9, mapping <- x10, msent <- x11, cmds <- x12, stream <- x13,
    answered <- x14, cancels <- x15

Faults == INSTANCE Inference WITH
    Nodes <- Single, Leader <- "a", MaxRetries <- 1, MaxTroubles <- 1, MaxCancels <- 0,
    state <- x1, plan <- x2, attempts <- x3, sup <- x4, proc <- x5, tasks <- x6, events <- x7,
    outbox <- x8, troubles <- x9, mapping <- x10, msent <- x11, cmds <- x12, stream <- x13,
    answered <- x14, cancels <- x15

Cancelling == INSTANCE Inference WITH
    Nodes <- Single, Leader <- "a", MaxRetries <- 1, MaxTroubles <- 0, MaxCancels <- 1,
    state <- x1, plan <- x2, attempts <- x3, sup <- x4, proc <- x5, tasks <- x6, events <- x7,
    outbox <- x8, troubles <- x9, mapping <- x10, msent <- x11, cmds <- x12, stream <- x13,
    answered <- x14, cancels <- x15

Alone == INSTANCE Election WITH
    Nodes <- Me, Candidates <- Me, Workers <- Me, WorkerBonus <- 10, Reclaim <- FALSE,
    Timely <- FALSE, MaxClock <- 5, MaxCommands <- 1, MaxChanges <- 3,
    clock <- x1, session <- x2, seniority <- x3, connected <- x4, pending <- x5, worker <- x6,
    commands <- x7, campaigns <- x8, scope <- x9, done <- x10, took <- x11, won <- x12,
    chan <- x13, queued <- x14, links <- x15, made <- x16

Lease == INSTANCE ValidatorLease WITH
    LeaseTime <- 2, Timely <- TRUE, MaxChanges <- 0, MaxCrashes <- 1,
    role <- x1, rec <- x2, view <- x3, up <- x4, voter <- x5, changes <- x6

Operated == INSTANCE ValidatorLease WITH
    LeaseTime <- 2, Timely <- FALSE, MaxChanges <- 1, MaxCrashes <- 1,
    role <- x1, rec <- x2, view <- x3, up <- x4, voter <- x5, changes <- x6

\* The variables that a component with k variables leaves alone.
Off == "off"
rest0 == <<x1, x2, x3, x4, x5, x6, x7, x8, x9, x10, x11, x12, x13, x14, x15, x16>>
rest6 == <<x7, x8, x9, x10, x11, x12, x13, x14, x15, x16>>
rest15 == <<x16>>
Off15 ==
    /\ x16 = Off
Off6 ==
    /\ x7 = Off /\ x8 = Off /\ x9 = Off /\ x10 = Off /\ x11 = Off /\ x12 = Off /\ x13 = Off
    /\ x14 = Off /\ x15 = Off /\ Off15
Off0 ==
    /\ x1 = Off /\ x2 = Off /\ x3 = Off /\ x4 = Off /\ x5 = Off /\ x6 = Off /\ Off6

\* Nothing is on the disk, and a scan has said so.
Rests ==
    /\ kind = "plain" /\ disk = "absent" /\ offline = FALSE /\ status = "pending"
    /\ active = None /\ shard = None /\ cmd = "idle" /\ scan = Asleep
    /\ wrapper = [w \in Wrappers |-> Idle] /\ task = [t \in Tasks |-> None]
    /\ progress = FALSE /\ complete = FALSE /\ dead = FALSE /\ commands = 0 /\ troubles = 0

MCInit ==
    \/ setting = "group" /\ Rests /\ Group!InferenceInit /\ Off15
    \/ setting = "faults" /\ Rests /\ Faults!InferenceInit /\ Off15
    \/ setting = "cancel" /\ Rests /\ Cancelling!InferenceInit /\ Off15
    \/ setting = "election" /\ Rests /\ Alone!Init
    \/ setting = "download" /\ Init /\ Off0
    \/ setting = "lease" /\ Rests /\ Lease!Init /\ Off6
    \/ setting = "operator" /\ Rests /\ Operated!Init /\ Off6

MCNext ==
    /\ UNCHANGED setting
    /\ \/ setting = "group" /\ Group!Next /\ UNCHANGED <<vars, rest15>>
       \/ setting = "faults" /\ Faults!Next /\ UNCHANGED <<vars, rest15>>
       \/ setting = "cancel" /\ Cancelling!Next /\ UNCHANGED <<vars, rest15>>
       \/ setting = "election" /\ Alone!Next /\ UNCHANGED vars
       \/ setting = "download" /\ Next /\ UNCHANGED rest0
       \/ setting = "lease" /\ Lease!Next /\ UNCHANGED <<vars, rest6>>
       \/ setting = "operator" /\ Operated!Next /\ UNCHANGED <<vars, rest6>>

all == <<setting, vars, rest0>>

(***************************************************************************)
(* The fairness of the components, each in its settings.                   *)
(***************************************************************************)
inferenceVars == Group!vars
electionVars == Alone!vars
leaseVars == Lease!vars

MCFairness ==
    /\ WF_inferenceVars(
            \/ setting = "group" /\ Group!System
            \/ setting = "faults" /\ Faults!System
            \/ setting = "cancel" /\ Cancelling!System)
    /\ WF_electionVars(setting = "election" /\ Alone!CampaignStep(1))
    /\ WF_electionVars(setting = "election" /\ Alone!ConnectionReceiver(1))
    /\ WF_electionVars(setting = "election" /\ Alone!ElectionReceiver(1, 1))
    /\ WF_vars(setting = "download" /\ ~dead /\ Serve)
    /\ WF_vars(setting = "download" /\ ~dead /\ ScanGoesOn)
    /\ WF_vars(setting = "download" /\ ~dead /\ ProgressCallback)
    /\ WF_vars(setting = "download" /\ ~dead /\ CompleteCallback)
    /\ \A w \in Wrappers : WF_vars(setting = "download" /\ ~dead /\ Step(w))
    /\ \A w \in Wrappers : SF_vars(setting = "download" /\ ~dead /\ Work(w))
    /\ \A n \in Replicas : WF_leaseVars(
            \/ setting = "lease" /\ Lease!Refresh(n)
            \/ setting = "operator" /\ Operated!Refresh(n))
    /\ \A n, m \in Replicas : WF_leaseVars(
            \/ setting = "lease" /\ Lease!Gossip(n, m)
            \/ setting = "operator" /\ Operated!Gossip(n, m))
    /\ WF_leaseVars(
            \/ setting = "lease" /\ Lease!Tick
            \/ setting = "operator" /\ Operated!Tick)

MCSpec == MCInit /\ [][MCNext]_all /\ MCFairness

-----------------------------------------------------------------------------
\* Without faults and deletions the runners of an instance are ready in the end (plan).
GroupForms == <>(setting = "group" => Group!Formed)

Opened == setting \in {"group", "cancel"} /\ x13["g"] = "open"
Closed == setting \in {"group", "cancel"} => x13["g"] = "closed"

\* A stream that is opened is closed (API._token_chunk_stream).
AnswerArrives == Opened ~> Closed

Waiting == setting = "faults" /\ x2["a"].at = "waiting"

\* plan_step is never stuck in start_task, whatever becomes of the runner process.
PlanReturns == Waiting ~> ~Waiting

Entered == setting = "election" /\ x1[1] > x12[1]
Ended == setting = "election" => x12[1] = x1[1]

\* A round of the election that a node has entered ends (Election._campaign).
RoundsEnd == Entered ~> Ended

\* The validator always has a replica that may sign again (refresh_validator_ha_lease).
TakenOver ==
    []<>(/\ setting = "lease" => Lease!Signers # {}
         /\ setting = "operator" => Operated!Signers # {})
=============================================================================
